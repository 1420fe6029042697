----------------------------- MODULE PerpEngine -----------------------------
(***************************************************************************)
(* pallet-perp-engine: margin paid in MOTRA and kept in pMATRA-USD, one    *)
(* position per market and account, bonded keepers who liquidate.  One     *)
(* action is one extrinsic or the block hook; a call that fails is rolled  *)
(* back and is no step.  The oracle is read through a trait and moves on   *)
(* its own; MOTRA is the runtime's Currency.                               *)
(*                                                                         *)
(* Amounts are integers in the code's fixed-point units.  No code writes   *)
(* the funding index outside of tests, and every premium sample is zero:   *)
(* the formulas are kept, with the values storage really holds.            *)
(***************************************************************************)
EXTENDS Integers, FiniteSets, FiniteSetsExt, Maps

CONSTANTS
  Accounts,
  MarketIds,
  MatraFeed,            \* the MATRA/USD feed
  MarketConfigs,        \* configurations Root may register
  Endowment,            \* MOTRA each account starts with
  PriceInputs,          \* PriceInputs[f]: what feed f may report
  DepositInputs, WithdrawInputs, SizeInputs, CloseInputs, LeverageInputs,
  BondInputs,           \* the amounts calls carry
  MinLeverageBps, MaxLeverageBps,
  KeeperBondMinimum,
  BadDebtThreshold,     \* BadDebtCircuitBreakerThresholdE18
  BadDebtWindowBlocks,
  WithdrawDwellBlocks,
  MaxMarkBasisBps,
  MaxSamples,           \* MaxFundingSamplesPerEpoch
  SizeScale,            \* 10^8 in the code
  LeverageUnit,         \* 100 in the code, leverage 1x
  BpsScale,             \* 10_000 in the code
  MaxOpened,            \* bound: positions ever opened
  Horizon               \* bound: the last block

MarketConfig ==
  [feed : DOMAIN PriceInputs, initialMarginBps : Nat, maintenanceMarginBps : Nat,
   maxLeverageBps : Nat, maxFundingBps : Nat, liquidationFeeBps : Nat,
   minSize : Nat, maxSize : Nat, paused : BOOLEAN]

ASSUME PerpAssumption ==
  /\ IsFiniteSet(MarketIds)
  /\ MatraFeed \in DOMAIN PriceInputs
  /\ \A f \in DOMAIN PriceInputs : PriceInputs[f] \subseteq Nat
  /\ MarketConfigs \subseteq MarketConfig
  /\ Endowment \in [Accounts -> Nat]
  /\ DepositInputs \cup WithdrawInputs \cup SizeInputs \cup CloseInputs
       \cup LeverageInputs \cup BondInputs \subseteq Nat
  /\ {MinLeverageBps, SizeScale, LeverageUnit, BpsScale, MaxSamples, Horizon}
       \subseteq Nat \ {0}
  /\ {MaxLeverageBps, KeeperBondMinimum, BadDebtThreshold, BadDebtWindowBlocks,
      WithdrawDwellBlocks, MaxMarkBasisBps, MaxOpened} \subseteq Nat

VARIABLES
  block,                \* frame_system block number
  oracle,               \* per feed [price, fresh]; price 0 before the first one
  markets,              \* Markets
  positions,            \* Positions, a map from <<market, account>>
  margin,               \* MarginAccounts, [free, lastDeposit, rate]
  motra,                \* free MOTRA of each account
  reserved,             \* reserved MOTRA of each account
  pot, treasury,        \* MOTRA of the pallet and of mat/trsy
  bonds,                \* ReservedKeeperBonds, per <<market, account>>
  badDebt,              \* BadDebtAccumulated and BadDebtWindowStart
  markCache,            \* MarkPriceCacheMap
  samples,              \* PremiumIndexSamples: how many, all of them zero
  opened                \* positions opened so far, only to bound the model

moneyVars == <<motra, reserved, pot, treasury>>
hookVars == <<markCache, samples>>
otherVars == <<hookVars, opened>>
vars == <<block, oracle, markets, positions, margin, moneyVars, bonds, badDebt,
          otherVars>>

Blocks == 1 .. Horizon

Position ==
  [size : Int, entry : Nat, locked : Nat, leverage : Nat, fundingAtOpen : Int]

MarginAccount == [free : Nat, lastDeposit : 0 .. Horizon, rate : Nat]

PerpTypeOK ==
  /\ block \in Blocks
  /\ oracle \in [DOMAIN PriceInputs -> [price : Nat, fresh : BOOLEAN]]
  /\ IsMap(markets, MarketIds)
  /\ \A m \in DOMAIN markets : markets[m] \in MarketConfig
  /\ IsMap(positions, (DOMAIN markets) \X Accounts)
  /\ \A p \in DOMAIN positions : positions[p] \in Position
  /\ margin \in [Accounts -> MarginAccount]
  /\ motra \in [Accounts -> Nat] /\ reserved \in [Accounts -> Nat]
  /\ pot \in Nat /\ treasury \in Nat
  /\ bonds \in [MarketIds \X Accounts -> Nat]
  /\ badDebt \in [MarketIds -> [sum : Nat, start : 0 .. Horizon]]
  /\ markCache \in [MarketIds -> [mark : Nat, oracle : Nat, block : 0 .. Horizon]]
  /\ samples \in [MarketIds -> 0 .. MaxSamples]
  /\ opened \in 0 .. MaxOpened

Init ==
  /\ block = 1
  /\ oracle = [f \in DOMAIN PriceInputs |-> [price |-> 0, fresh |-> FALSE]]
  /\ markets = NoRows
  /\ positions = NoRows
  /\ margin = [a \in Accounts |-> [free |-> 0, lastDeposit |-> 0, rate |-> 0]]
  /\ motra = Endowment
  /\ reserved = [a \in Accounts |-> 0]
  /\ pot = 0
  /\ treasury = 0
  /\ bonds = [b \in MarketIds \X Accounts |-> 0]
  /\ badDebt = [m \in MarketIds |-> [sum |-> 0, start |-> 0]]
  /\ markCache = [m \in MarketIds |-> [mark |-> 0, oracle |-> 0, block |-> 0]]
  /\ samples = [m \in MarketIds |-> 0]
  /\ opened = 0

(***************************************************************************)
(* Arithmetic.  Rust division truncates toward zero.                       *)
(***************************************************************************)
Larger(x, y) == IF x > y THEN x ELSE y

Smaller(x, y) == IF x < y THEN x ELSE y

TruncDiv(x, n) == IF x >= 0 THEN x \div n ELSE -((-x) \div n)

Abs(x) == IF x < 0 THEN -x ELSE x

Notional(size, mark) == (size * mark) \div SizeScale

InitialMargin(notional, leverage) == (notional * LeverageUnit) \div leverage

MaintenanceMargin(notional, bps) == (notional * bps) \div BpsScale

RealizedPnl(mark, entry, size) == TruncDiv(size * (mark - entry), SizeScale)

FundingDelta(index, atOpen, size) == TruncDiv(size * (index - atOpen), SizeScale)

\* CumulativeFundingIndex, which no call and no hook writes.
FundingIndex(m) == 0

(***************************************************************************)
(* Reads of the oracle.                                                    *)
(***************************************************************************)
Priced(f) == oracle[f].price > 0

FreshPrice(f) == oracle[f].fresh /\ Priced(f)

Mark(m) == oracle[markets[m].feed].price

LiveRate == oracle[MatraFeed].price

(***************************************************************************)
(* Margin.                                                                 *)
(***************************************************************************)

\* A deposit is credited at the live rate.  The account's rate becomes the
\* average over its free margin, and the live rate when it has none free.
Deposited(account, credit) ==
  LET free == account.free + credit IN
  [free |-> free, lastDeposit |-> block,
   rate |-> IF account.rate = 0 \/ account.free = 0
            THEN LiveRate
            ELSE (account.free * account.rate + credit * LiveRate) \div free]

CanDeposit(who, amount) == FreshPrice(MatraFeed) /\ motra[who] >= amount

\* Faulty variant, a plausible slip: a gain leaves the rate alone.
RaisedRate_Never(rate, free, credit) == rate

\* The rate after a gain is credited, included in free: the average with the
\* live rate, if that raises it; unchanged when the MATRA feed is stale.
RaisedRate(rate, free, credit) ==
  IF credit > 0 /\ free > 0 /\ rate # 0 /\ FreshPrice(MatraFeed)
  THEN Larger(rate,
         (Larger(0, free - credit) * rate + credit * LiveRate) \div free)
  ELSE rate

\* Faulty variant, a plausible slip: a loss above the margin is not floored.
Realized_Unfloored(account, release, pnl, funding) ==
  [account EXCEPT !.free = @ + release + pnl - funding]

\* The account after a gain or a loss of pnl, funding paid and margin released.
Realized(account, release, pnl, funding) ==
  LET free == Larger(0, account.free + release + pnl - funding)
      credit == Larger(0, pnl) + Larger(0, -funding)
  IN [account EXCEPT !.free = free, !.rate = RaisedRate(@, free, credit)]

DepositMargin(who, amount) ==
  /\ amount > 0
  /\ CanDeposit(who, amount)
  /\ motra' = [motra EXCEPT ![who] = @ - amount]
  /\ pot' = pot + amount
  /\ margin' = [margin EXCEPT ![who] = Deposited(@, amount * LiveRate)]
  /\ UNCHANGED <<block, oracle, markets, positions, reserved, treasury, bonds,
                 badDebt, otherVars>>

Locked(who) ==
  SumFunctionOnSet([p \in DOMAIN positions |-> positions[p].locked],
                   {p \in DOMAIN positions : p[2] = who})

\* The account's own rate, the live one if it has none.
PayoutRate(account) == IF account.rate = 0 THEN LiveRate ELSE account.rate

HasPayoutRate(account) == account.rate # 0 \/ FreshPrice(MatraFeed)

WithdrawMargin(who, amount) ==
  LET account == margin[who]
      post == account.free - amount
      paid == amount \div PayoutRate(account)
  IN /\ amount > 0
     /\ block >= account.lastDeposit + WithdrawDwellBlocks
     /\ post >= 0
     /\ post >= Locked(who)
     /\ HasPayoutRate(account)
     /\ pot >= paid
     /\ pot' = pot - paid
     /\ motra' = [motra EXCEPT ![who] = @ + paid]
     /\ margin' = [margin EXCEPT
          ![who] = [account EXCEPT !.free = post,
                                   !.rate = IF post = 0 THEN 0 ELSE @]]
     /\ UNCHANGED <<block, oracle, markets, positions, reserved, treasury, bonds,
                    badDebt, otherVars>>

(***************************************************************************)
(* Positions.                                                              *)
(***************************************************************************)
LeverageAllowed(m, leverage) ==
  /\ leverage >= MinLeverageBps
  /\ leverage <= Smaller(markets[m].maxLeverageBps, MaxLeverageBps)

SizeAllowed(m, size) ==
  size > 0 /\ size >= markets[m].minSize /\ size <= markets[m].maxSize

\* side is 1 for a long, -1 for a short; a topUp of 0 means none.
OpenPosition(who, m, side, size, leverage, topUp) ==
  LET required == InitialMargin(Notional(size, Mark(m)), leverage)
      account == IF topUp = 0 THEN margin[who]
                 ELSE Deposited(margin[who], topUp * LiveRate)
  IN /\ m \in DOMAIN markets
     /\ ~markets[m].paused
     /\ SizeAllowed(m, size)
     /\ LeverageAllowed(m, leverage)
     /\ FreshPrice(markets[m].feed)
     /\ <<m, who>> \notin DOMAIN positions
     /\ opened < MaxOpened
     /\ opened' = opened + 1
     /\ topUp # 0 => CanDeposit(who, topUp)
     /\ account.free >= required
     /\ motra' = [motra EXCEPT ![who] = @ - topUp]
     /\ pot' = pot + topUp
     /\ margin' = [margin EXCEPT
          ![who] = [account EXCEPT !.free = @ - required]]
     /\ positions' = Put(positions, Entry(<<m, who>>,
          [size |-> side * size, entry |-> Mark(m), locked |-> required,
           leverage |-> leverage, fundingAtOpen |-> FundingIndex(m)]))
     /\ UNCHANGED <<block, oracle, markets, reserved, treasury, bonds, badDebt,
                    hookVars>>

\* The share of the locked margin that a close of that size releases.
Released(position, closed) ==
  IF closed = Abs(position.size)
  THEN position.locked
  ELSE (position.locked * closed) \div Abs(position.size)

\* Faulty variant, a plausible slip: the residual keeps all of the margin.
Shrunk_KeepsMargin(m, position, closed) ==
  [position EXCEPT !.size = IF @ >= 0 THEN @ - closed ELSE @ + closed]

\* What a close leaves of the position, its funding settled.
Shrunk(m, position, closed) ==
  [position EXCEPT
     !.size = IF @ >= 0 THEN @ - closed ELSE @ + closed,
     !.locked = Larger(0, @ - Released(position, closed)),
     !.fundingAtOpen = FundingIndex(m)]

\* Works on a paused market and on a stale price; 0 asks for all of it.
ClosePosition(who, m, size) ==
  LET p == <<m, who>>
      position == positions[p]
      whole == Abs(position.size)
      closed == IF size = 0 THEN whole ELSE Smaller(size, whole)
      signed == IF position.size >= 0 THEN closed ELSE -closed
      pnl == RealizedPnl(Mark(m), position.entry, signed)
      funding == FundingDelta(FundingIndex(m), position.fundingAtOpen, signed)
  IN /\ p \in DOMAIN positions
     /\ Priced(markets[m].feed)
     /\ margin' = [margin EXCEPT
          ![who] = Realized(@, Released(position, closed), pnl, funding)]
     /\ positions' =
          IF closed = whole
          THEN Remove(positions, {p})
          ELSE Put(positions, Entry(p, Shrunk(m, position, closed)))
     /\ UNCHANGED <<block, oracle, markets, moneyVars, bonds, badDebt, otherVars>>

AdjustLeverage(who, m, leverage) ==
  LET p == <<m, who>>
      position == positions[p]
      size == Abs(position.size)
      locked == InitialMargin(Notional(size, position.entry), leverage)
  IN /\ p \in DOMAIN positions
     /\ ~markets[m].paused
     /\ LeverageAllowed(m, leverage)
     /\ margin[who].free + position.locked >= locked
     /\ FreshPrice(markets[m].feed)
     /\ locked >= InitialMargin(Notional(size, Mark(m)), leverage)
     /\ positions' = Put(positions, Entry(p,
          [position EXCEPT !.locked = locked, !.leverage = leverage,
                           !.fundingAtOpen = FundingIndex(m)]))
     /\ margin' = [margin EXCEPT ![who].free = @ + position.locked - locked]
     /\ UNCHANGED <<block, oracle, markets, moneyVars, bonds, badDebt, otherVars>>

\* What a position settles, held between the epoch cap and its negative; the
\* rest of a larger delta is dropped, not carried forward.
CappedFunding(m, position) ==
  LET cap == (Notional(Abs(position.size), position.entry)
                * markets[m].maxFundingBps) \div BpsScale
      delta == FundingDelta(FundingIndex(m), position.fundingAtOpen, position.size)
  IN Larger(-cap, Smaller(cap, delta))

\* Anyone may call it for target.
SettleFunding(target, m) ==
  LET p == <<m, target>> IN
  /\ p \in DOMAIN positions
  /\ ~markets[m].paused
  /\ margin' = [margin EXCEPT
       ![target] = Realized(@, 0, 0, CappedFunding(m, positions[p]))]
  /\ positions' = [positions EXCEPT ![p].fundingAtOpen = FundingIndex(m)]
  /\ UNCHANGED <<block, oracle, markets, moneyVars, bonds, badDebt, otherVars>>

(***************************************************************************)
(* Liquidation.                                                            *)
(***************************************************************************)
UnrealizedPnl(m, position) ==
  RealizedPnl(Mark(m), position.entry, position.size)

Equity(m, position) ==
  position.locked + UnrealizedPnl(m, position)
    - FundingDelta(FundingIndex(m), position.fundingAtOpen, position.size)

Maintenance(m, position) ==
  MaintenanceMargin(Notional(Abs(position.size), Mark(m)),
                    markets[m].maintenanceMarginBps)

\* Faulty variant, a plausible slip: posted margin only, the loss forgotten.
Healthy_PostedOnly(m, position) == position.locked >= Maintenance(m, position)

Healthy(m, position) == Equity(m, position) >= Maintenance(m, position)

LiquidationFee(m, position) ==
  Smaller(position.locked,
          (Notional(Abs(position.size), Mark(m)) * markets[m].liquidationFeeBps)
            \div BpsScale)

\* Faulty variant, a plausible slip: the record keeps the part that is burned.
SlashedBond_HalfBooked(bond) == bond - KeeperBondMinimum \div 2

SlashedBond(bond) == Larger(0, bond - KeeperBondMinimum)

\* The call hit a healthy position: half of the minimum bond is burned, the
\* other half goes to the treasury, and the call succeeds.
SlashKeeper(keeper, m) ==
  /\ reserved' = [reserved EXCEPT ![keeper] = @ - KeeperBondMinimum]
  /\ treasury' = treasury + (KeeperBondMinimum - KeeperBondMinimum \div 2)
  /\ bonds' = [bonds EXCEPT ![<<m, keeper>>] = SlashedBond(@)]
  /\ UNCHANGED <<markets, positions, margin, motra, pot, badDebt>>

\* The debt of the open window, empty when the window has passed.
WindowDebt(m) ==
  IF badDebt[m].start # 0 /\ block - badDebt[m].start <= BadDebtWindowBlocks
  THEN badDebt[m]
  ELSE [sum |-> 0, start |-> block]

\* Faulty variant, a plausible slip: the debt of this call comes too late.
Trips_Before(m, debt) == WindowDebt(m).sum > BadDebtThreshold

Trips(m, debt) == WindowDebt(m).sum + debt > BadDebtThreshold

AccumulateBadDebt(m, debt) ==
  IF debt = 0
  THEN UNCHANGED <<badDebt, markets>>
  ELSE /\ badDebt' = [badDebt EXCEPT ![m] = [WindowDebt(m) EXCEPT !.sum = @ + debt]]
       /\ markets' = [markets EXCEPT ![m].paused = @ \/ Trips(m, debt)]

\* The keeper is paid in MOTRA at the victim's rate, one unit at least, the
\* victim keeps what is left, and what is missing is bad debt.
Unwind(keeper, target, m) ==
  LET p == <<m, target>>
      position == positions[p]
      fee == LiquidationFee(m, position)
      paid == IF fee = 0 THEN 0
              ELSE Larger(1, fee \div PayoutRate(margin[target]))
      left == Equity(m, position) - fee
      funding == FundingDelta(FundingIndex(m), position.fundingAtOpen, position.size)
      credit == Larger(0, UnrealizedPnl(m, position)) + Larger(0, -funding)
      free == margin[target].free + left
  IN /\ HasPayoutRate(margin[target])
     /\ pot >= paid
     /\ pot' = pot - paid
     /\ motra' = [motra EXCEPT ![keeper] = @ + paid]
     /\ margin' =
          IF left > 0
          THEN [margin EXCEPT ![target] =
                  [margin[target] EXCEPT !.free = free,
                                         !.rate = RaisedRate(@, free, credit)]]
          ELSE margin
     /\ AccumulateBadDebt(m, Larger(0, -left))
     /\ positions' = Remove(positions, {p})
     /\ UNCHANGED <<reserved, treasury, bonds>>

\* A pause does not stop it, a stale price does.
Liquidate(keeper, target, m) ==
  LET p == <<m, target>> IN
  /\ bonds[<<m, keeper>>] >= KeeperBondMinimum
  /\ p \in DOMAIN positions
  /\ FreshPrice(markets[m].feed)
  /\ IF Healthy(m, positions[p])
     THEN SlashKeeper(keeper, m)
     ELSE Unwind(keeper, target, m)
  /\ UNCHANGED <<block, oracle, otherVars>>

(***************************************************************************)
(* Keeper bonds, markets and the block hook.                               *)
(***************************************************************************)
ReserveKeeperBond(who, m, amount) ==
  /\ amount > 0
  /\ m \in DOMAIN markets
  /\ motra[who] >= amount
  /\ motra' = [motra EXCEPT ![who] = @ - amount]
  /\ reserved' = [reserved EXCEPT ![who] = @ + amount]
  /\ bonds' = [bonds EXCEPT ![<<m, who>>] = @ + amount]
  /\ UNCHANGED <<block, oracle, markets, positions, margin, pot, treasury,
                 badDebt, otherVars>>

\* Unreserving more than the reserve holds gives back what there is.
ReleaseKeeperBond(who, m, amount) ==
  /\ amount > 0
  /\ m \in DOMAIN markets
  /\ bonds[<<m, who>>] >= amount
  /\ bonds' = [bonds EXCEPT ![<<m, who>>] = @ - amount]
  /\ reserved' = [reserved EXCEPT ![who] = Larger(0, @ - amount)]
  /\ motra' = [motra EXCEPT ![who] = @ + Smaller(amount, reserved[who])]
  /\ UNCHANGED <<block, oracle, markets, positions, margin, pot, treasury,
                 badDebt, otherVars>>

ValidConfig(config) ==
  /\ config.maintenanceMarginBps < config.initialMarginBps
  /\ config.initialMarginBps <= BpsScale
  /\ config.maxLeverageBps <= Smaller(BpsScale, MaxLeverageBps)
  /\ config.maxFundingBps <= BpsScale
  /\ config.liquidationFeeBps <= BpsScale
  /\ 0 < config.minSize /\ config.minSize <= config.maxSize

\* Root registers a market, once; no call changes or unpauses one.
GovernanceSetMarket(m, config) ==
  /\ m \notin DOMAIN markets
  /\ ValidConfig(config)
  /\ markets' = Put(markets, Entry(m, config))
  /\ UNCHANGED <<block, oracle, positions, margin, moneyVars, bonds, badDebt,
                 otherVars>>

Marked(m) ==
  m \in DOMAIN markets /\ ~markets[m].paused /\ FreshPrice(markets[m].feed)

\* The mean of samples that are all zero, held within the basis cap.
Basis(price) ==
  LET cap == (price \div BpsScale) * MaxMarkBasisBps IN
  Larger(-cap, Smaller(cap, 0))

\* on_initialize takes a sample and writes the mark of every live market.
NextBlock ==
  /\ block < Horizon
  /\ block' = block + 1
  /\ samples' = [m \in MarketIds |->
       IF Marked(m) THEN Smaller(MaxSamples, samples[m] + 1) ELSE samples[m]]
  /\ markCache' = [m \in MarketIds |->
       IF Marked(m)
       THEN [mark |-> Larger(0, Mark(m) + Basis(Mark(m))), oracle |-> Mark(m),
             block |-> block + 1]
       ELSE markCache[m]]
  /\ UNCHANGED <<oracle, markets, positions, margin, moneyVars, bonds, badDebt,
                 opened>>

\* The oracle publishes, or its last price grows stale.
OracleMoves(f) ==
  /\ \/ \E price \in PriceInputs[f] :
          oracle' = [oracle EXCEPT ![f] = [price |-> price, fresh |-> TRUE]]
     \/ oracle' = [oracle EXCEPT ![f].fresh = FALSE]
  /\ UNCHANGED <<block, markets, positions, margin, moneyVars, bonds, badDebt,
                 otherVars>>

TraderCall(who) ==
  \/ \E amount \in DepositInputs : DepositMargin(who, amount)
  \/ \E amount \in WithdrawInputs : WithdrawMargin(who, amount)
  \/ \E m \in MarketIds :
       \/ \E side \in {1, -1}, size \in SizeInputs, leverage \in LeverageInputs,
             topUp \in DepositInputs \cup {0} :
            OpenPosition(who, m, side, size, leverage, topUp)
       \/ \E size \in CloseInputs : ClosePosition(who, m, size)
       \/ \E leverage \in LeverageInputs : AdjustLeverage(who, m, leverage)

KeeperCall(who, m) ==
  \/ \E target \in Accounts : Liquidate(who, target, m)
  \/ \E amount \in BondInputs :
       ReserveKeeperBond(who, m, amount) \/ ReleaseKeeperBond(who, m, amount)

Next ==
  \/ NextBlock
  \/ \E f \in DOMAIN PriceInputs : OracleMoves(f)
  \/ \E m \in MarketIds, config \in MarketConfigs : GovernanceSetMarket(m, config)
  \/ \E who \in Accounts :
       \/ TraderCall(who)
       \/ \E m \in MarketIds : SettleFunding(who, m) \/ KeeperCall(who, m)

Spec == Init /\ [][Next]_vars

(***************************************************************************)
(* Properties.                                                             *)
(***************************************************************************)

\* All margin of an account: free, and locked in its positions.
TotalMargin(who) == margin[who].free + Locked(who)

UnrealizedOf(who) ==
  {UnrealizedPnl(p[1], positions[p]) : p \in {q \in DOMAIN positions : q[2] = who}}

\* The one reserve of a keeper is the sum of what its bonds in the several
\* markets say, through partial releases and slashes: the split between
\* markets is only in ReservedKeeperBonds, the Currency does not know it.
ReserveBacksKeeperBonds ==
  \A who \in Accounts :
    reserved[who] = SumFunction([m \in MarketIds |-> bonds[<<m, who>>]])

\* Margin is neither made nor lost: in one step an account's margin grows by
\* no more than the gain of a position at the current price and what it paid
\* in, and shrinks by no more than a position's loss and, when a keeper is paid,
\* its liquidation fee, or by what it took out, less than one unit of MOTRA
\* lost to rounding.  Partial closes, adjustments and liquidations included.
MarginIsAccountedFor ==
  [][\A who \in Accounts :
       LET paidIn == Larger(0, motra[who] - motra'[who]) * LiveRate
           takenOut == Larger(0, motra'[who] - motra[who])
           gains == Max(UnrealizedOf(who) \cup {0})
           losses == Min(UnrealizedOf(who) \cup {0})
           fees == Max({LiquidationFee(p[1], positions[p]) :
                          p \in {q \in DOMAIN positions : q[2] = who}} \cup {0})
       IN /\ TotalMargin(who)' <= TotalMargin(who) + gains + paidIn
          /\ positions' # positions =>
               TotalMargin(who)' >= TotalMargin(who) + losses
                                      - (IF pot' < pot THEN fees ELSE 0)
          /\ positions' = positions =>
               \/ TotalMargin(who)' >= TotalMargin(who)
               \/ TotalMargin(who)' > TotalMargin(who)
                                         - (takenOut + 1) * PayoutRate(margin[who])]_vars

\* A gain is worth no more MOTRA than the live rate makes of it: the claim of
\* an account in MOTRA, its margin over its rate, grows by at most gain over
\* live rate, also when it paid in at a lower rate.  One unit of rate is the
\* rounding of the average.
GainsArePaidAtLiveRate ==
  [][\A who \in Accounts :
       LET gain == Larger(0, TotalMargin(who)' - TotalMargin(who))
           rate == margin[who].rate
       IN gain > 0 /\ pot' <= pot /\ rate # 0 /\ FreshPrice(MatraFeed) =>
            TotalMargin(who)' * rate * LiveRate <=
              (margin[who].rate' + 1)
                * (TotalMargin(who) * LiveRate + gain * rate)]_vars

\* A keeper is paid for ending a position only when that was below its
\* maintenance margin at a fresh price, and its owner's free margin does not
\* shrink.  A keeper is slashed only in a market with a healthy position, of
\* the minimum bond, and no position, margin or pot moves.
OnlyUnhealthyAreLiquidated ==
  [][/\ \A p \in DOMAIN positions :
          \/ p \in DOMAIN positions'
          \/ UNCHANGED motra
          \/ /\ oracle[markets[p[1]].feed].fresh
             /\ Equity(p[1], positions[p]) < Maintenance(p[1], positions[p])
             /\ margin'[p[2]].free >= margin[p[2]].free
     /\ treasury' # treasury =>
          /\ UNCHANGED <<positions, margin, motra, pot>>
          /\ \E p \in DOMAIN positions, keeper \in Accounts :
               /\ Equity(p[1], positions[p]) >= Maintenance(p[1], positions[p])
               /\ bonds[<<p[1], keeper>>] - bonds'[<<p[1], keeper>>] = KeeperBondMinimum]_vars

\* A market whose bad debt of the window is over the threshold is paused, and
\* a paused market only winds down: no position appears or grows in it, and
\* none is moved to other terms.
PausedMarketsWindDown ==
  [][\A m \in DOMAIN markets :
       /\ badDebt'[m].sum > BadDebtThreshold => markets'[m].paused
       /\ markets[m].paused =>
            \A p \in DOMAIN positions' :
              p[1] = m =>
                /\ p \in DOMAIN positions
                /\ Abs(positions'[p].size) <= Abs(positions[p].size)
                /\ positions'[p].leverage = positions[p].leverage]_vars

\* Raising the leverage does not make a position liquidatable at the price it
\* was raised at, "the adjust cannot push the user into immediate liquidation
\* territory".
AdjustIsSafe ==
  [][\A p \in DOMAIN positions :
       /\ p \in DOMAIN positions'
       /\ positions'[p].leverage # positions[p].leverage
       /\ Healthy(p[1], positions[p])
       => Healthy(p[1], positions[p])']_vars

=============================================================================
