-------------------------- MODULE PerpEngineProofs --------------------------
(***************************************************************************)
(* Proofs about PerpEngine for every value of its constants: any number of *)
(* markets, accounts and blocks, any prices and amounts.                   *)
(***************************************************************************)
EXTENDS PerpEngine, DataLemmas

(***************************************************************************)
(* Arithmetic: what the code computes is an amount where it stores one.    *)
(***************************************************************************)
\* Division of an amount by a scale is an amount.
LEMMA DivType == \A x \in Nat, n \in Nat \ {0} : x \div n \in Nat
  OBVIOUS

\* Products of amounts and of signed quantities.
LEMMA TimesType ==
  /\ \A x, y \in Nat : x * y \in Nat
  /\ \A x, y \in Int : x * y \in Int
  OBVIOUS

\* The scales are not zero.
LEMMA Scales ==
  /\ SizeScale \in Nat \ {0} /\ BpsScale \in Nat \ {0} /\ LeverageUnit \in Nat \ {0}
  /\ MinLeverageBps \in Nat \ {0} /\ MaxSamples \in Nat \ {0} /\ Horizon \in Nat \ {0}
  /\ MaxLeverageBps \in Nat /\ KeeperBondMinimum \in Nat /\ BadDebtThreshold \in Nat
  BY PerpAssumption

\* The value of a size at a price.
LEMMA NotionalType == \A size, mark \in Nat : Notional(size, mark) \in Nat
<1> SUFFICES ASSUME NEW size \in Nat, NEW mark \in Nat PROVE Notional(size, mark) \in Nat
  OBVIOUS
<1>1. size * mark \in Nat
  OBVIOUS
<1> QED
  BY <1>1, DivType, Scales DEF Notional

\* The margin a position locks.
LEMMA InitialMarginType ==
  \A notional \in Nat, leverage \in Nat \ {0} : InitialMargin(notional, leverage) \in Nat
<1> SUFFICES ASSUME NEW notional \in Nat, NEW leverage \in Nat \ {0}
             PROVE  InitialMargin(notional, leverage) \in Nat
  OBVIOUS
<1>1. notional * LeverageUnit \in Nat
  BY Scales
<1> QED
  BY <1>1, DivType DEF InitialMargin

\* A quotient that is rounded toward zero.
LEMMA TruncDivType == \A x \in Int, n \in Nat \ {0} : TruncDiv(x, n) \in Int
<1> SUFFICES ASSUME NEW x \in Int, NEW n \in Nat \ {0} PROVE TruncDiv(x, n) \in Int
  OBVIOUS
<1>1. CASE x >= 0
  <2>1. x \in Nat
    BY <1>1
  <2>2. x \div n \in Nat
    BY <2>1, DivType
  <2> QED
    BY <1>1, <2>2 DEF TruncDiv
<1>2. CASE ~(x >= 0)
  <2>1. -x \in Nat
    BY <1>2
  <2>2. (-x) \div n \in Nat
    BY <2>1, DivType
  <2> QED
    BY <1>2, <2>2 DEF TruncDiv
<1> QED
  BY <1>1, <1>2

\* Gains, losses and funding are signed quantities.
LEMMA PnlType ==
  \A mark, entry \in Nat, size, index, atOpen \in Int :
     RealizedPnl(mark, entry, size) \in Int /\ FundingDelta(index, atOpen, size) \in Int
<1> SUFFICES ASSUME NEW mark \in Nat, NEW entry \in Nat, NEW size \in Int,
                    NEW index \in Int, NEW atOpen \in Int
             PROVE  /\ RealizedPnl(mark, entry, size) \in Int
                    /\ FundingDelta(index, atOpen, size) \in Int
  OBVIOUS
<1>1. mark - entry \in Int /\ index - atOpen \in Int
  OBVIOUS
<1>2. size * (mark - entry) \in Int /\ size * (index - atOpen) \in Int
  BY <1>1, TimesType
<1> QED
  BY <1>2, TruncDivType, Scales DEF RealizedPnl, FundingDelta

\* The size of a signed quantity.
LEMMA AbsType == \A x \in Int : Abs(x) \in Nat
  BY DEF Abs

(***************************************************************************)
(* Reads of the state.                                                     *)
(***************************************************************************)
\* A position is in a registered market, and its numbers are what they are.
LEMMA PositionReads ==
  ASSUME PerpTypeOK, NEW p \in DOMAIN positions
  PROVE  /\ p \in (DOMAIN markets) \X Accounts /\ p = <<p[1], p[2]>>
         /\ p[1] \in DOMAIN markets /\ p[1] \in MarketIds /\ p[2] \in Accounts
         /\ positions[p] \in Position
         /\ positions[p].size \in Int /\ positions[p].entry \in Nat
         /\ positions[p].locked \in Nat /\ positions[p].leverage \in Nat
         /\ positions[p].fundingAtOpen \in Int
<1>1. p \in (DOMAIN markets) \X Accounts /\ positions[p] \in Position
      /\ DOMAIN markets \subseteq MarketIds
  BY DEF PerpTypeOK, IsMap
<1> QED
  BY <1>1 DEF Position

\* The price of a market is an amount, and so is the live rate.
LEMMA PriceReads ==
  ASSUME PerpTypeOK
  PROVE  /\ LiveRate \in Nat
         /\ FreshPrice(MatraFeed) => LiveRate > 0
         /\ \A m \in DOMAIN markets :
              /\ markets[m] \in MarketConfig /\ m \in MarketIds
              /\ markets[m].feed \in DOMAIN PriceInputs
              /\ Mark(m) \in Nat
<1>1. \A f \in DOMAIN PriceInputs : oracle[f] \in [price : Nat, fresh : BOOLEAN]
  BY DEF PerpTypeOK
<1>2. \A m \in DOMAIN markets : markets[m] \in MarketConfig /\ m \in MarketIds
  BY DEF PerpTypeOK, IsMap
<1>3. LiveRate \in Nat
  BY <1>1, PerpAssumption DEF LiveRate
<1>4. FreshPrice(MatraFeed) => LiveRate > 0
  BY DEF FreshPrice, Priced, LiveRate
<1>5. \A m \in DOMAIN markets : markets[m].feed \in DOMAIN PriceInputs /\ Mark(m) \in Nat
  BY <1>1, <1>2 DEF Mark, MarketConfig
<1> QED
  BY <1>2, <1>3, <1>4, <1>5

\* What a deposit makes of an account is one.
LEMMA DepositedType ==
  ASSUME PerpTypeOK, NEW account \in MarginAccount, NEW credit \in Nat
  PROVE  Deposited(account, credit) \in MarginAccount
<1> DEFINE free == account.free + credit
           rate == IF account.rate = 0 \/ account.free = 0 THEN LiveRate
                   ELSE (account.free * account.rate + credit * LiveRate) \div free
<1>1. account.free \in Nat /\ account.rate \in Nat /\ LiveRate \in Nat
      /\ block \in 0 .. Horizon
  BY PriceReads, PerpAssumption DEF MarginAccount, PerpTypeOK, Blocks
<1>2. free \in Nat
  BY <1>1
<1>3. rate \in Nat
  <2>1. CASE account.rate = 0 \/ account.free = 0
    BY <1>1, <2>1
  <2>2. CASE ~(account.rate = 0 \/ account.free = 0)
    <3>1. account.free * account.rate \in Nat /\ credit * LiveRate \in Nat
      BY <1>1, TimesType
    <3>2. account.free * account.rate + credit * LiveRate \in Nat
      BY <3>1
    <3>3. free \in Nat \ {0}
      BY <1>1, <2>2
    <3> HIDE DEF free
    <3>4. (account.free * account.rate + credit * LiveRate) \div free \in Nat
      BY <3>2, <3>3, DivType
    <3> QED
      BY <2>2, <3>4
  <2> QED
    BY <2>1, <2>2
<1>4. Deposited(account, credit) = [free |-> free, lastDeposit |-> block, rate |-> rate]
  BY DEF Deposited
<1> HIDE DEF free, rate
<1> QED
  BY <1>1, <1>2, <1>3, <1>4 DEF MarginAccount

\* The rate that a gain leaves is an amount.
LEMMA RaisedRateType ==
  ASSUME PerpTypeOK, NEW rate \in Nat, NEW free \in Nat, NEW credit \in Nat
  PROVE  RaisedRate(rate, free, credit) \in Nat
<1> DEFINE kept == Larger(0, free - credit)
           average == (kept * rate + credit * LiveRate) \div free
<1>1. LiveRate \in Nat
  BY PriceReads
<1>2. kept \in Nat
  BY DEF Larger
<1>3. CASE free > 0
  <2> HIDE DEF kept
  <2>1. kept * rate \in Nat /\ credit * LiveRate \in Nat
    BY <1>1, <1>2, TimesType
  <2>2. kept * rate + credit * LiveRate \in Nat /\ free \in Nat \ {0}
    BY <1>3, <2>1
  <2>3. average \in Nat
    BY <2>2, DivType
  <2> HIDE DEF average
  <2>4. Larger(rate, average) \in Nat
    BY <2>3 DEF Larger
  <2>5. RaisedRate(rate, free, credit) \in {rate, Larger(rate, average)}
    BY DEF RaisedRate, average, kept
  <2> QED
    BY <2>4, <2>5
<1>4. CASE ~(free > 0)
  BY <1>4 DEF RaisedRate
<1> QED
  BY <1>3, <1>4

\* What a gain or a loss makes of an account is one.
LEMMA RealizedType ==
  ASSUME PerpTypeOK, NEW account \in MarginAccount, NEW release \in Int, NEW pnl \in Int,
         NEW funding \in Int
  PROVE  Realized(account, release, pnl, funding) \in MarginAccount
<1> DEFINE free == Larger(0, account.free + release + pnl - funding)
           credit == Larger(0, pnl) + Larger(0, -funding)
<1>1. account.free \in Nat /\ account.rate \in Nat /\ account.lastDeposit \in 0 .. Horizon
  BY DEF MarginAccount
<1>2. free \in Nat /\ credit \in Nat
  BY <1>1 DEF Larger
<1>3. Realized(account, release, pnl, funding)
        = [account EXCEPT !.free = free, !.rate = RaisedRate(@, free, credit)]
  BY DEF Realized
<1> HIDE DEF free, credit
<1>4. RaisedRate(account.rate, free, credit) \in Nat
  BY <1>1, <1>2, RaisedRateType
<1> QED
  BY <1>1, <1>2, <1>3, <1>4 DEF MarginAccount

(***************************************************************************)
(* Type correctness, and the reserve that a slash relies on.               *)
(***************************************************************************)
\* An account with other free margin and another rate, and a position with
\* other terms.
LEMMA RowEdits ==
  /\ \A account \in MarginAccount, free, rate \in Nat :
        /\ [account EXCEPT !.free = free] \in MarginAccount
        /\ [account EXCEPT !.free = free, !.rate = rate] \in MarginAccount
  /\ \A position \in Position, size, index \in Int, locked, leverage \in Nat :
        /\ [position EXCEPT !.size = size, !.locked = locked, !.fundingAtOpen = index]
              \in Position
        /\ [position EXCEPT !.locked = locked, !.leverage = leverage,
                            !.fundingAtOpen = index] \in Position
        /\ [position EXCEPT !.fundingAtOpen = index] \in Position
  BY DEF MarginAccount, Position

\* One account's row replaced by another.
LEMMA MarginRow ==
  ASSUME PerpTypeOK, NEW who \in Accounts, NEW row \in MarginAccount
  PROVE  [margin EXCEPT ![who] = row] \in [Accounts -> MarginAccount]
  BY DEF PerpTypeOK

\* A deposit keeps the types.
LEMMA TypeDepositMargin ==
  ASSUME PerpTypeOK, NEW who \in Accounts, NEW amount \in Nat, DepositMargin(who, amount)
  PROVE  PerpTypeOK'
<1>1. LiveRate \in Nat /\ margin[who] \in MarginAccount /\ motra[who] \in Nat /\ pot \in Nat
  BY PriceReads DEF PerpTypeOK
<1>2. amount * LiveRate \in Nat
  BY <1>1, TimesType
<1>3. Deposited(margin[who], amount * LiveRate) \in MarginAccount
  BY <1>1, <1>2, DepositedType
<1>4. margin' = [margin EXCEPT ![who] = Deposited(margin[who], amount * LiveRate)]
  BY DEF DepositMargin
<1>5. margin' \in [Accounts -> MarginAccount]
  BY <1>3, <1>4, MarginRow
<1>6. motra' \in [Accounts -> Nat] /\ pot' \in Nat
  BY <1>1 DEF DepositMargin, CanDeposit, PerpTypeOK
<1> QED
  BY <1>5, <1>6 DEF DepositMargin, PerpTypeOK, otherVars, hookVars

\* A withdrawal keeps the types: neither the margin nor the pot goes below zero.
LEMMA TypeWithdrawMargin ==
  ASSUME PerpTypeOK, NEW who \in Accounts, NEW amount \in Nat, WithdrawMargin(who, amount)
  PROVE  PerpTypeOK'
<1> DEFINE post == margin[who].free - amount
           paid == amount \div PayoutRate(margin[who])
<1>1. LiveRate \in Nat /\ margin[who] \in MarginAccount /\ motra[who] \in Nat /\ pot \in Nat
      /\ (FreshPrice(MatraFeed) => LiveRate > 0)
  BY PriceReads DEF PerpTypeOK
<1>2. margin[who].rate \in Nat /\ margin[who].free \in Nat
  BY <1>1 DEF MarginAccount
<1>3. PayoutRate(margin[who]) \in Nat \ {0}
  BY <1>1, <1>2 DEF PayoutRate, HasPayoutRate, WithdrawMargin
<1>4. paid \in Nat
  BY <1>3, DivType
<1>5. post \in Nat
  BY <1>2 DEF WithdrawMargin
<1>6. /\ pot >= paid /\ pot' = pot - paid
      /\ motra' = [motra EXCEPT ![who] = @ + paid]
      /\ margin' = [margin EXCEPT ![who] =
                      [margin[who] EXCEPT !.free = post, !.rate = IF post = 0 THEN 0 ELSE @]]
  BY DEF WithdrawMargin
<1> HIDE DEF post, paid
<1>7. margin' \in [Accounts -> MarginAccount]
  <2> DEFINE rate == IF post = 0 THEN 0 ELSE margin[who].rate
             row == [margin[who] EXCEPT !.free = post, !.rate = rate]
  <2>1. rate \in Nat
    BY <1>2
  <2>2. margin' = [margin EXCEPT ![who] = row]
    BY <1>6
  <2> HIDE DEF rate
  <2>3. row \in MarginAccount
    BY <1>1, <1>5, <2>1, RowEdits
  <2> HIDE DEF row
  <2> QED
    BY <2>2, <2>3, MarginRow
<1>8. motra' \in [Accounts -> Nat] /\ pot' \in Nat
  BY <1>1, <1>4, <1>6 DEF PerpTypeOK
<1> QED
  BY <1>7, <1>8 DEF WithdrawMargin, PerpTypeOK, otherVars, hookVars

\* Leverages that pass the check are not zero.
LEMMA LeverageType ==
  ASSUME NEW m, NEW leverage \in Nat, LeverageAllowed(m, leverage)
  PROVE  leverage \in Nat \ {0}
  BY Scales DEF LeverageAllowed

\* Opening a position keeps the types: what it locks was free.
LEMMA TypeOpenPosition ==
  ASSUME PerpTypeOK, NEW who \in Accounts, NEW m, NEW side \in {1, -1}, NEW size \in Nat,
         NEW leverage \in Nat, NEW topUp \in Nat,
         OpenPosition(who, m, side, size, leverage, topUp)
  PROVE  PerpTypeOK'
<1> DEFINE required == InitialMargin(Notional(size, Mark(m)), leverage)
           account == IF topUp = 0 THEN margin[who]
                      ELSE Deposited(margin[who], topUp * LiveRate)
           row == [size |-> side * size, entry |-> Mark(m), locked |-> required,
                   leverage |-> leverage, fundingAtOpen |-> FundingIndex(m)]
<1>1. /\ m \in DOMAIN markets /\ LeverageAllowed(m, leverage)
      /\ opened < MaxOpened /\ opened' = opened + 1
      /\ (topUp # 0 => motra[who] >= topUp)
      /\ account.free >= required
      /\ motra' = [motra EXCEPT ![who] = @ - topUp] /\ pot' = pot + topUp
      /\ margin' = [margin EXCEPT ![who] = [account EXCEPT !.free = @ - required]]
      /\ positions' = Put(positions, Entry(<<m, who>>, row))
  BY DEF OpenPosition, CanDeposit
<1>2. UNCHANGED <<block, oracle, markets, reserved, treasury, bonds, badDebt, markCache, samples>>
  BY DEF OpenPosition, hookVars
<1>3. LiveRate \in Nat /\ margin[who] \in MarginAccount /\ motra[who] \in Nat /\ pot \in Nat
      /\ Mark(m) \in Nat
  BY <1>1, PriceReads DEF PerpTypeOK
<1>4. required \in Nat
  <2>1. leverage \in Nat \ {0}
    BY <1>1, LeverageType
  <2>2. Notional(size, Mark(m)) \in Nat
    BY <1>3, NotionalType
  <2> QED
    BY <2>1, <2>2, InitialMarginType
<1>5. account \in MarginAccount
  <2>1. topUp * LiveRate \in Nat
    BY <1>3, TimesType
  <2>2. Deposited(margin[who], topUp * LiveRate) \in MarginAccount
    BY <1>3, <2>1, DepositedType
  <2> QED
    BY <1>3, <2>2
<1>6. row \in Position
  BY <1>3, <1>4 DEF Position, FundingIndex
<1> HIDE DEF required, account, row
<1>7. [account EXCEPT !.free = @ - required] \in MarginAccount
  BY <1>1, <1>4, <1>5 DEF MarginAccount
<1>8. margin' \in [Accounts -> MarginAccount]
  BY <1>1, <1>7, MarginRow
<1>9. motra' \in [Accounts -> Nat] /\ pot' \in Nat
  BY <1>1, <1>3 DEF PerpTypeOK
<1>10. /\ IsMap(positions', (DOMAIN markets) \X Accounts)
       /\ \A p \in DOMAIN positions' : positions'[p] \in Position
  <2> DEFINE new == Entry(<<m, who>>, row)
  <2>1. DOMAIN new \subseteq (DOMAIN markets) \X Accounts
        /\ \A p \in DOMAIN new : new[p] \in Position
    BY <1>1, <1>6 DEF Entry
  <2>2. IsMap(positions, (DOMAIN markets) \X Accounts)
        /\ \A p \in DOMAIN positions : positions[p] \in Position
    BY DEF PerpTypeOK
  <2> HIDE DEF new
  <2> QED
    BY <1>1, <2>1, <2>2, PutRows DEF new
<1>11. opened' \in 0 .. MaxOpened
  BY <1>1, PerpAssumption DEF PerpTypeOK
<1> QED
  BY <1>2, <1>8, <1>9, <1>10, <1>11 DEF PerpTypeOK

\* A close releases no more than the position has locked.
LEMMA ReleasedType ==
  ASSUME NEW position \in Position, NEW closed \in 0 .. Abs(position.size)
  PROVE  Released(position, closed) \in Nat
<1>1. position.locked \in Nat /\ Abs(position.size) \in Nat
  BY AbsType DEF Position
<1>2. CASE closed = Abs(position.size)
  BY <1>1, <1>2 DEF Released
<1>3. CASE closed # Abs(position.size)
  <2>1. Abs(position.size) \in Nat \ {0} /\ closed \in Nat
    BY <1>1, <1>3
  <2>2. position.locked * closed \in Nat
    BY <1>1, <2>1, TimesType
  <2>3. (position.locked * closed) \div Abs(position.size) \in Nat
    BY <2>1, <2>2, DivType
  <2> QED
    BY <1>3, <2>3 DEF Released
<1> QED
  BY <1>2, <1>3

\* One row of the positions replaced.
LEMMA PositionRow ==
  ASSUME PerpTypeOK, NEW p \in DOMAIN positions, NEW row \in Position
  PROVE  /\ IsMap(Put(positions, Entry(p, row)), (DOMAIN markets) \X Accounts)
         /\ \A q \in DOMAIN Put(positions, Entry(p, row)) :
               Put(positions, Entry(p, row))[q] \in Position
<1> DEFINE new == Entry(p, row)
<1>1. DOMAIN new \subseteq (DOMAIN markets) \X Accounts
      /\ \A q \in DOMAIN new : new[q] \in Position
  BY PositionReads DEF Entry
<1>2. IsMap(positions, (DOMAIN markets) \X Accounts)
      /\ \A q \in DOMAIN positions : positions[q] \in Position
  BY DEF PerpTypeOK
<1> HIDE DEF new
<1>3. /\ IsMap(Put(positions, new), (DOMAIN markets) \X Accounts)
      /\ \A q \in DOMAIN Put(positions, new) : Put(positions, new)[q] \in Position
  BY <1>1, <1>2, PutRows
<1> QED
  BY <1>3 DEF new

\* A close keeps the types, whether it ends the position or shrinks it.
LEMMA TypeClosePosition ==
  ASSUME PerpTypeOK, NEW who \in Accounts, NEW m, NEW size \in Nat,
         ClosePosition(who, m, size)
  PROVE  PerpTypeOK'
<1> DEFINE p == <<m, who>>
           position == positions[p]
           whole == Abs(position.size)
           closed == IF size = 0 THEN whole ELSE Smaller(size, whole)
           signed == IF position.size >= 0 THEN closed ELSE -closed
           pnl == RealizedPnl(Mark(m), position.entry, signed)
           funding == FundingDelta(FundingIndex(m), position.fundingAtOpen, signed)
           row == Shrunk(m, position, closed)
<1>1. /\ p \in DOMAIN positions
      /\ margin' = [margin EXCEPT
           ![who] = Realized(@, Released(position, closed), pnl, funding)]
      /\ positions' = IF closed = whole THEN Remove(positions, {p})
                                        ELSE Put(positions, Entry(p, row))
  BY DEF ClosePosition
<1>2. UNCHANGED <<block, oracle, markets, motra, reserved, pot, treasury, bonds, badDebt,
                  markCache, samples, opened>>
  BY DEF ClosePosition, moneyVars, otherVars, hookVars
<1>3. /\ position \in Position /\ position.size \in Int /\ position.entry \in Nat
      /\ position.locked \in Nat /\ position.fundingAtOpen \in Int
      /\ position.leverage \in Nat
      /\ m \in DOMAIN markets
  BY <1>1, PositionReads
<1>4. Mark(m) \in Nat
  BY <1>3, PriceReads
<1>5. whole \in Nat
  BY <1>3, AbsType
<1> HIDE DEF position, p
<1>6. closed \in 0 .. whole
  BY <1>5 DEF Smaller
<1>7. signed \in Int
  BY <1>5, <1>6
<1>8. Released(position, closed) \in Nat
  BY <1>3, <1>6, ReleasedType
<1> HIDE DEF closed, whole, signed
<1>9. pnl \in Int /\ funding \in Int
  <2>1. FundingIndex(m) \in Int
    BY DEF FundingIndex
  <2> QED
    BY <1>3, <1>4, <1>7, <2>1, PnlType
<1>10. row \in Position
  <2> DEFINE left == Larger(0, position.locked - Released(position, closed))
             rest == IF position.size >= 0 THEN position.size - closed
                     ELSE position.size + closed
  <2>1. left \in Nat
    BY <1>3, <1>8 DEF Larger
  <2>2. rest \in Int
    BY <1>3, <1>5, <1>6
  <2>3. FundingIndex(m) \in Int
    BY DEF FundingIndex
  <2>4. row = [position EXCEPT !.size = rest, !.locked = left,
                               !.fundingAtOpen = FundingIndex(m)]
    BY DEF Shrunk
  <2> HIDE DEF left, rest, row
  <2> QED
    BY <1>3, <2>1, <2>2, <2>3, <2>4, RowEdits
<1> HIDE DEF pnl, funding, row
<1>11. Realized(margin[who], Released(position, closed), pnl, funding) \in MarginAccount
  BY <1>8, <1>9, RealizedType DEF PerpTypeOK
<1>12. margin' \in [Accounts -> MarginAccount]
  BY <1>1, <1>11, MarginRow
<1>13. /\ IsMap(positions', (DOMAIN markets) \X Accounts)
       /\ \A q \in DOMAIN positions' : positions'[q] \in Position
  <2>1. CASE closed = whole
    <3>1. positions' = Remove(positions, {p})
      BY <1>1, <2>1
    <3> QED
      BY <3>1, RemoveRows DEF PerpTypeOK
  <2>2. CASE closed # whole
    <3>1. positions' = Put(positions, Entry(p, row))
      BY <1>1, <2>2
    <3> QED
      BY <1>1, <1>10, <3>1, PositionRow
  <2> QED
    BY <2>1, <2>2
<1> QED
  BY <1>2, <1>12, <1>13 DEF PerpTypeOK

\* Adjusting the leverage keeps the types: the new margin is covered by the
\* free and the old one.
LEMMA TypeAdjustLeverage ==
  ASSUME PerpTypeOK, NEW who \in Accounts, NEW m, NEW leverage \in Nat,
         AdjustLeverage(who, m, leverage)
  PROVE  PerpTypeOK'
<1> DEFINE p == <<m, who>>
           position == positions[p]
           locked == InitialMargin(Notional(Abs(position.size), position.entry), leverage)
           row == [position EXCEPT !.locked = locked, !.leverage = leverage,
                                   !.fundingAtOpen = FundingIndex(m)]
           free == margin[who].free + position.locked - locked
<1>1. /\ p \in DOMAIN positions /\ LeverageAllowed(m, leverage)
      /\ margin[who].free + position.locked >= locked
      /\ positions' = Put(positions, Entry(p, row))
      /\ margin' = [margin EXCEPT ![who].free = free]
  BY DEF AdjustLeverage
<1>2. UNCHANGED <<block, oracle, markets, motra, reserved, pot, treasury, bonds, badDebt,
                  markCache, samples, opened>>
  BY DEF AdjustLeverage, moneyVars, otherVars, hookVars
<1>3. /\ position \in Position /\ position.size \in Int /\ position.entry \in Nat
      /\ position.locked \in Nat
      /\ margin[who] \in MarginAccount /\ margin[who].free \in Nat
  BY <1>1, PositionReads DEF PerpTypeOK, MarginAccount
<1> HIDE DEF position, p
<1>4. locked \in Nat
  <2>1. leverage \in Nat \ {0}
    BY <1>1, LeverageType
  <2>2. Notional(Abs(position.size), position.entry) \in Nat
    BY <1>3, AbsType, NotionalType
  <2> QED
    BY <2>1, <2>2, InitialMarginType
<1> HIDE DEF locked
<1>5. free \in Nat
  BY <1>1, <1>3, <1>4
<1>6. row \in Position
  <2>1. FundingIndex(m) \in Int
    BY DEF FundingIndex
  <2> QED
    BY <1>3, <1>4, <2>1, RowEdits
<1> HIDE DEF row, free
<1>7. margin' \in [Accounts -> MarginAccount]
  <2>1. [margin[who] EXCEPT !.free = free] \in MarginAccount
    BY <1>3, <1>5, RowEdits
  <2>2. margin' = [margin EXCEPT ![who] = [margin[who] EXCEPT !.free = free]]
    BY <1>1
  <2> QED
    BY <2>1, <2>2, MarginRow
<1>8. /\ IsMap(positions', (DOMAIN markets) \X Accounts)
      /\ \A q \in DOMAIN positions' : positions'[q] \in Position
  BY <1>1, <1>6, PositionRow
<1> QED
  BY <1>2, <1>7, <1>8 DEF PerpTypeOK

\* Settling the funding keeps the types: a loss is floored at zero.
LEMMA TypeSettleFunding ==
  ASSUME PerpTypeOK, NEW target \in Accounts, NEW m, SettleFunding(target, m)
  PROVE  PerpTypeOK'
<1> DEFINE p == <<m, target>>
           position == positions[p]
           funding == CappedFunding(m, position)
           row == [position EXCEPT !.fundingAtOpen = FundingIndex(m)]
<1>1. /\ p \in DOMAIN positions
      /\ margin' = [margin EXCEPT ![target] = Realized(margin[target], 0, 0, funding)]
      /\ positions' = [positions EXCEPT ![p] = row]
  BY DEF SettleFunding
<1>2. UNCHANGED <<block, oracle, markets, motra, reserved, pot, treasury, bonds, badDebt,
                  markCache, samples, opened>>
  BY DEF SettleFunding, moneyVars, otherVars, hookVars
<1>3. /\ position \in Position /\ position.size \in Int /\ position.entry \in Nat
      /\ position.fundingAtOpen \in Int
      /\ m \in DOMAIN markets /\ margin[target] \in MarginAccount
  BY <1>1, PositionReads DEF PerpTypeOK
<1>4. markets[m].maxFundingBps \in Nat
  BY <1>3, PriceReads DEF MarketConfig
<1>5. FundingIndex(m) \in Int
  BY DEF FundingIndex
<1> HIDE DEF position, p
<1>6. funding \in Int
  <2> DEFINE cap == (Notional(Abs(position.size), position.entry)
                       * markets[m].maxFundingBps) \div BpsScale
             delta == FundingDelta(FundingIndex(m), position.fundingAtOpen, position.size)
  <2>1. Notional(Abs(position.size), position.entry) \in Nat
    BY <1>3, AbsType, NotionalType
  <2>2. Notional(Abs(position.size), position.entry) * markets[m].maxFundingBps \in Nat
    BY <1>4, <2>1, TimesType
  <2>3. cap \in Nat
    BY <2>2, DivType, Scales
  <2>4. delta \in Int
    BY <1>3, <1>5, PnlType
  <2>5. funding = Larger(-cap, Smaller(cap, delta))
    BY DEF CappedFunding
  <2> HIDE DEF cap, delta, funding
  <2> QED
    BY <2>3, <2>4, <2>5 DEF Larger, Smaller
<1> HIDE DEF funding
<1>7. row \in Position
  BY <1>3, <1>5, RowEdits
<1>8. margin' \in [Accounts -> MarginAccount]
  <2>1. Realized(margin[target], 0, 0, funding) \in MarginAccount
    BY <1>3, <1>6, RealizedType
  <2> QED
    BY <1>1, <2>1, MarginRow
<1> HIDE DEF row
<1>9. /\ IsMap(positions', (DOMAIN markets) \X Accounts)
      /\ \A q \in DOMAIN positions' : positions'[q] \in Position
  BY <1>1, <1>7 DEF PerpTypeOK, IsMap
<1> QED
  BY <1>2, <1>8, <1>9 DEF PerpTypeOK

\* The reserve of a keeper holds what its bond in one market says.
LEMMA BondIsReserved ==
  ASSUME PerpTypeOK, ReserveBacksKeeperBonds, NEW who \in Accounts, NEW m \in MarketIds
  PROVE  /\ bonds[<<m, who>>] \in Nat /\ reserved[who] \in Nat
         /\ bonds[<<m, who>>] <= reserved[who]
<1> DEFINE booked == [n \in MarketIds |-> bonds[<<n, who>>]]
<1>1. \A n \in MarketIds : booked[n] \in Nat
  BY DEF PerpTypeOK
<1>2. IsFiniteSet(MarketIds) /\ DOMAIN booked = MarketIds /\ booked[m] = bonds[<<m, who>>]
  BY PerpAssumption
<1>3. reserved[who] = SumFunction(booked) /\ reserved[who] \in Nat
  BY DEF ReserveBacksKeeperBonds, PerpTypeOK
<1> HIDE DEF booked
<1>4. SumFunction(booked) = SumFunctionOnSet(booked, MarketIds)
  BY <1>1, <1>2, SumOfMap
<1>5. SumFunctionOnSet(booked, {m}) <= SumFunctionOnSet(booked, MarketIds)
  BY <1>1, <1>2, SumSubset
<1>6. SumFunctionOnSet(booked, {m}) = booked[m]
  BY <1>1, SumSingle
<1> QED
  BY <1>1, <1>2, <1>3, <1>4, <1>5, <1>6

\* A slash keeps the types: the bond that the call asks for is reserved.
LEMMA TypeSlashKeeper ==
  ASSUME PerpTypeOK, ReserveBacksKeeperBonds, NEW keeper \in Accounts, NEW m \in MarketIds,
         bonds[<<m, keeper>>] >= KeeperBondMinimum, SlashKeeper(keeper, m),
         UNCHANGED <<block, oracle, otherVars>>
  PROVE  PerpTypeOK'
<1>1. /\ bonds[<<m, keeper>>] \in Nat /\ reserved[keeper] \in Nat
      /\ bonds[<<m, keeper>>] <= reserved[keeper]
  BY BondIsReserved
<1>2. KeeperBondMinimum \in Nat /\ KeeperBondMinimum \div 2 \in 0 .. KeeperBondMinimum
  BY Scales
<1>3. reserved[keeper] - KeeperBondMinimum \in Nat
  BY <1>1, <1>2
<1>4. SlashedBond(bonds[<<m, keeper>>]) \in Nat
  BY <1>1, <1>2 DEF SlashedBond, Larger
<1>5. reserved' \in [Accounts -> Nat]
  BY <1>3 DEF SlashKeeper, PerpTypeOK
<1>6. bonds' \in [MarketIds \X Accounts -> Nat]
  BY <1>4 DEF SlashKeeper, PerpTypeOK
<1>7. treasury' \in Nat
  BY <1>2 DEF SlashKeeper, PerpTypeOK
<1> QED
  BY <1>5, <1>6, <1>7 DEF SlashKeeper, PerpTypeOK, otherVars, hookVars

\* What a liquidation computes of a position.
LEMMA LiquidationReads ==
  ASSUME PerpTypeOK, NEW p \in DOMAIN positions, NEW m, m = p[1]
  PROVE  /\ UnrealizedPnl(m, positions[p]) \in Int
         /\ FundingDelta(FundingIndex(m), positions[p].fundingAtOpen, positions[p].size) \in Int
         /\ Equity(m, positions[p]) \in Int
         /\ Maintenance(m, positions[p]) \in Nat
         /\ LiquidationFee(m, positions[p]) \in Nat
<1> DEFINE position == positions[p]
           notional == Notional(Abs(position.size), Mark(m))
           funding == FundingDelta(FundingIndex(m), position.fundingAtOpen, position.size)
<1>1. /\ position.size \in Int /\ position.entry \in Nat /\ position.locked \in Nat
      /\ position.fundingAtOpen \in Int /\ m \in DOMAIN markets
  BY PositionReads
<1>2. /\ Mark(m) \in Nat /\ markets[m].maintenanceMarginBps \in Nat
      /\ markets[m].liquidationFeeBps \in Nat
  BY <1>1, PriceReads DEF MarketConfig
<1>3. FundingIndex(m) \in Int
  BY DEF FundingIndex
<1> HIDE DEF position
<1>4. notional \in Nat
  BY <1>1, <1>2, AbsType, NotionalType
<1>5. funding \in Int /\ UnrealizedPnl(m, position) \in Int
  BY <1>1, <1>2, <1>3, PnlType DEF UnrealizedPnl
<1>6. Equity(m, position) = position.locked + UnrealizedPnl(m, position) - funding
  BY DEF Equity
<1>7. /\ Maintenance(m, position) = (notional * markets[m].maintenanceMarginBps) \div BpsScale
      /\ LiquidationFee(m, position) =
           Smaller(position.locked, (notional * markets[m].liquidationFeeBps) \div BpsScale)
  BY DEF Maintenance, MaintenanceMargin, LiquidationFee
<1> HIDE DEF notional, funding
<1>8. Equity(m, position) \in Int
  BY <1>1, <1>5, <1>6
<1>9. /\ notional * markets[m].maintenanceMarginBps \in Nat
      /\ notional * markets[m].liquidationFeeBps \in Nat
  BY <1>2, <1>4, TimesType
<1>10. /\ (notional * markets[m].maintenanceMarginBps) \div BpsScale \in Nat
       /\ (notional * markets[m].liquidationFeeBps) \div BpsScale \in Nat
  BY <1>9, DivType, Scales
<1>11. Maintenance(m, position) \in Nat /\ LiquidationFee(m, position) \in Nat
  BY <1>1, <1>7, <1>10 DEF Smaller
<1> QED
  BY <1>5, <1>8, <1>11 DEF position, funding

\* Bad debt keeps the types of the counters and of the markets.
LEMMA TypeBadDebt ==
  ASSUME PerpTypeOK, NEW m \in DOMAIN markets, NEW debt \in Nat, AccumulateBadDebt(m, debt)
  PROVE  /\ badDebt' \in [MarketIds -> [sum : Nat, start : 0 .. Horizon]]
         /\ DOMAIN markets' = DOMAIN markets /\ IsMap(markets', MarketIds)
         /\ \A n \in DOMAIN markets' : markets'[n] \in MarketConfig
<1>1. CASE debt = 0
  BY <1>1 DEF AccumulateBadDebt, PerpTypeOK
<1>2. CASE debt # 0
  <2> DEFINE window == [WindowDebt(m) EXCEPT !.sum = @ + debt]
             config == [markets[m] EXCEPT !.paused = @ \/ Trips(m, debt)]
  <2>1. badDebt' = [badDebt EXCEPT ![m] = window]
        /\ markets' = [markets EXCEPT ![m] = config]
    BY <1>2 DEF AccumulateBadDebt
  <2>2. WindowDebt(m) \in [sum : Nat, start : 0 .. Horizon] /\ m \in MarketIds
    BY PerpAssumption DEF WindowDebt, PerpTypeOK, IsMap, Blocks
  <2>3. window \in [sum : Nat, start : 0 .. Horizon]
    BY <2>2
  <2>4. config \in MarketConfig
    <3>1. markets[m] \in MarketConfig
      BY PriceReads
    <3>2. (markets[m].paused \/ Trips(m, debt)) \in BOOLEAN
      BY Zenon
    <3> QED
      BY <3>1, <3>2 DEF MarketConfig
  <2> HIDE DEF window, config
  <2>5. badDebt' \in [MarketIds -> [sum : Nat, start : 0 .. Horizon]]
    BY <2>1, <2>3 DEF PerpTypeOK
  <2>6. DOMAIN markets' = DOMAIN markets /\ IsMap(markets', MarketIds)
        /\ \A n \in DOMAIN markets' : markets'[n] \in MarketConfig
    BY <2>1, <2>4 DEF PerpTypeOK, IsMap
  <2> QED
    BY <2>5, <2>6
<1> QED
  BY <1>1, <1>2

\* A liquidation keeps the types: the pot covers the keeper's fee, and what is
\* left to the victim is positive when it is paid.
LEMMA TypeUnwind ==
  ASSUME PerpTypeOK, NEW keeper \in Accounts, NEW target \in Accounts, NEW m,
         <<m, target>> \in DOMAIN positions, Unwind(keeper, target, m),
         UNCHANGED <<block, oracle, otherVars>>
  PROVE  PerpTypeOK'
<1> DEFINE p == <<m, target>>
           position == positions[p]
           account == margin[target]
           fee == LiquidationFee(m, position)
           paid == IF fee = 0 THEN 0 ELSE Larger(1, fee \div PayoutRate(account))
           left == Equity(m, position) - fee
           funding == FundingDelta(FundingIndex(m), position.fundingAtOpen, position.size)
           credit == Larger(0, UnrealizedPnl(m, position)) + Larger(0, -funding)
           free == account.free + left
           debt == Larger(0, -left)
           row == [account EXCEPT !.free = free, !.rate = RaisedRate(account.rate, free, credit)]
<1>1. /\ HasPayoutRate(account) /\ pot >= paid /\ pot' = pot - paid
      /\ motra' = [motra EXCEPT ![keeper] = motra[keeper] + paid]
      /\ margin' = IF left > 0 THEN [margin EXCEPT ![target] = row] ELSE margin
      /\ AccumulateBadDebt(m, debt)
      /\ positions' = Remove(positions, {p})
      /\ UNCHANGED <<reserved, treasury, bonds>>
  BY DEF Unwind
<1>2. /\ account \in MarginAccount /\ account.free \in Nat /\ account.rate \in Nat
      /\ LiveRate \in Nat /\ (FreshPrice(MatraFeed) => LiveRate > 0)
      /\ m \in DOMAIN markets /\ motra[keeper] \in Nat /\ pot \in Nat
  BY PriceReads, PositionReads DEF PerpTypeOK, MarginAccount
<1>3. /\ fee \in Nat /\ Equity(m, position) \in Int /\ funding \in Int
      /\ UnrealizedPnl(m, position) \in Int
  BY LiquidationReads
<1> HIDE DEF position, fee, funding, account
<1>4. PayoutRate(account) \in Nat \ {0}
  BY <1>1, <1>2 DEF PayoutRate, HasPayoutRate
<1>5. paid \in Nat
  <2>1. fee \div PayoutRate(account) \in Nat
    BY <1>3, <1>4, DivType
  <2> QED
    BY <2>1 DEF Larger
<1>6. left \in Int
  BY <1>3
<1>7. credit \in Nat
  BY <1>3 DEF Larger
<1> HIDE DEF paid, left, credit
<1>8. debt \in Nat
  BY <1>6 DEF Larger
<1> HIDE DEF debt
<1>9. left > 0 => free \in Nat
  BY <1>2, <1>6
<1> HIDE DEF free
<1>10. left > 0 => row \in MarginAccount
  BY <1>2, <1>7, <1>9, RaisedRateType, RowEdits
<1> HIDE DEF row
<1>11. margin' \in [Accounts -> MarginAccount]
  BY <1>1, <1>10, MarginRow DEF PerpTypeOK
<1>12. motra' \in [Accounts -> Nat] /\ pot' \in Nat
  BY <1>1, <1>2, <1>5 DEF PerpTypeOK
<1>13. /\ badDebt' \in [MarketIds -> [sum : Nat, start : 0 .. Horizon]]
       /\ DOMAIN markets' = DOMAIN markets /\ IsMap(markets', MarketIds)
       /\ \A n \in DOMAIN markets' : markets'[n] \in MarketConfig
  BY <1>1, <1>2, <1>8, TypeBadDebt
<1>14. /\ IsMap(positions', (DOMAIN markets) \X Accounts)
       /\ \A q \in DOMAIN positions' : positions'[q] \in Position
  BY <1>1, RemoveRows DEF PerpTypeOK
<1> QED
  BY <1>1, <1>11, <1>12, <1>13, <1>14 DEF PerpTypeOK, otherVars, hookVars

\* Liquidate keeps the types, on its slash and on its unwind.
LEMMA TypeLiquidate ==
  ASSUME PerpTypeOK, ReserveBacksKeeperBonds, NEW keeper \in Accounts, NEW target \in Accounts,
         NEW m \in MarketIds, Liquidate(keeper, target, m)
  PROVE  PerpTypeOK'
<1>1. /\ bonds[<<m, keeper>>] >= KeeperBondMinimum /\ <<m, target>> \in DOMAIN positions
      /\ SlashKeeper(keeper, m) \/ Unwind(keeper, target, m)
      /\ UNCHANGED <<block, oracle, otherVars>>
  BY DEF Liquidate
<1>2. CASE SlashKeeper(keeper, m)
  BY <1>1, <1>2, TypeSlashKeeper
<1>3. CASE Unwind(keeper, target, m)
  BY <1>1, <1>3, TypeUnwind
<1> QED
  BY <1>1, <1>2, <1>3

\* Reserving and releasing a bond keeps the types.
LEMMA TypeKeeperBonds ==
  ASSUME PerpTypeOK, NEW who \in Accounts, NEW m \in MarketIds, NEW amount \in Nat,
         ReserveKeeperBond(who, m, amount) \/ ReleaseKeeperBond(who, m, amount)
  PROVE  PerpTypeOK'
<1>1. motra[who] \in Nat /\ reserved[who] \in Nat /\ bonds[<<m, who>>] \in Nat
  BY DEF PerpTypeOK
<1>2. CASE ReserveKeeperBond(who, m, amount)
  BY <1>1, <1>2 DEF ReserveKeeperBond, PerpTypeOK, otherVars, hookVars
<1>3. CASE ReleaseKeeperBond(who, m, amount)
  <2>1. /\ bonds[<<m, who>>] - amount \in Nat /\ Larger(0, reserved[who] - amount) \in Nat
        /\ motra[who] + Smaller(amount, reserved[who]) \in Nat
    BY <1>1, <1>3 DEF ReleaseKeeperBond, Larger, Smaller
  <2> QED
    BY <1>1, <1>3, <2>1 DEF ReleaseKeeperBond, PerpTypeOK, otherVars, hookVars
<1> QED
  BY <1>2, <1>3

\* A new market keeps the types.
LEMMA TypeGovernanceSetMarket ==
  ASSUME PerpTypeOK, NEW m \in MarketIds, NEW config \in MarketConfigs,
         GovernanceSetMarket(m, config)
  PROVE  PerpTypeOK'
<1> DEFINE new == Entry(m, config)
<1>1. markets' = Put(markets, new)
      /\ UNCHANGED <<block, oracle, positions, margin, motra, reserved, pot, treasury, bonds,
                     badDebt, markCache, samples, opened>>
  BY DEF GovernanceSetMarket, moneyVars, otherVars, hookVars
<1>2. /\ IsMap(markets, MarketIds) /\ \A n \in DOMAIN markets : markets[n] \in MarketConfig
  BY DEF PerpTypeOK
<1>3. DOMAIN new = {m} /\ DOMAIN new \subseteq MarketIds
      /\ \A n \in DOMAIN new : new[n] \in MarketConfig
  BY PerpAssumption DEF Entry
<1> HIDE DEF new
<1>4. IsMap(markets', MarketIds) /\ \A n \in DOMAIN markets' : markets'[n] \in MarketConfig
  BY <1>1, <1>2, <1>3, PutRows
<1>5. DOMAIN markets \subseteq DOMAIN markets'
  BY <1>1 DEF Put
<1>6. IsMap(positions', (DOMAIN markets') \X Accounts)
  BY <1>1, <1>5 DEF PerpTypeOK, IsMap
<1> QED
  BY <1>1, <1>4, <1>6 DEF PerpTypeOK

\* The block hook keeps the types.
LEMMA TypeNextBlock ==
  ASSUME PerpTypeOK, NextBlock
  PROVE  PerpTypeOK'
<1> DEFINE capped(m) == Larger(0, Mark(m) + Basis(Mark(m)))
<1>1. /\ block \in 1 .. Horizon /\ block < Horizon /\ block' = block + 1
      /\ Horizon \in Nat \ {0} /\ MaxSamples \in Nat \ {0} /\ BpsScale \in Nat \ {0}
      /\ MaxMarkBasisBps \in Nat
  BY PerpAssumption DEF NextBlock, PerpTypeOK, Blocks
<1>2. block' \in Blocks /\ block + 1 \in 0 .. Horizon
  BY <1>1 DEF Blocks
<1>3. samples' \in [MarketIds -> 0 .. MaxSamples]
  BY <1>1 DEF NextBlock, PerpTypeOK, Smaller
<1>4. \A m \in MarketIds : Marked(m) => Mark(m) \in Nat /\ capped(m) \in Nat
  <2> SUFFICES ASSUME NEW m \in MarketIds, Marked(m)
               PROVE  Mark(m) \in Nat /\ capped(m) \in Nat
    OBVIOUS
  <2>1. Mark(m) \in Nat
    BY PriceReads DEF Marked
  <2>2. Mark(m) \div BpsScale \in Nat
    BY <1>1, <2>1, DivType
  <2>3. (Mark(m) \div BpsScale) * MaxMarkBasisBps \in Nat
    BY <1>1, <2>2, TimesType
  <2>4. Basis(Mark(m)) \in Int
    BY <2>3 DEF Basis, Larger, Smaller
  <2> QED
    BY <2>1, <2>4 DEF Larger
<1>5. markCache' = [m \in MarketIds |->
        IF Marked(m) THEN [mark |-> capped(m), oracle |-> Mark(m), block |-> block + 1]
        ELSE markCache[m]]
  BY DEF NextBlock
<1> HIDE DEF capped
<1>6. markCache' \in [MarketIds -> [mark : Nat, oracle : Nat, block : 0 .. Horizon]]
  BY <1>2, <1>4, <1>5 DEF PerpTypeOK
<1> QED
  BY <1>2, <1>3, <1>6 DEF NextBlock, PerpTypeOK, moneyVars

\* The oracle keeps the types.
LEMMA TypeOracleMoves ==
  ASSUME PerpTypeOK, NEW f \in DOMAIN PriceInputs, OracleMoves(f)
  PROVE  PerpTypeOK'
<1>1. oracle' \in [DOMAIN PriceInputs -> [price : Nat, fresh : BOOLEAN]]
  <2>1. oracle[f] \in [price : Nat, fresh : BOOLEAN]
    BY DEF PerpTypeOK
  <2>2. ASSUME NEW row \in [price : Nat, fresh : BOOLEAN], oracle' = [oracle EXCEPT ![f] = row]
        PROVE  oracle' \in [DOMAIN PriceInputs -> [price : Nat, fresh : BOOLEAN]]
    BY <2>2 DEF PerpTypeOK
  <2>3. CASE oracle' = [oracle EXCEPT ![f].fresh = FALSE]
    <3>1. [oracle[f] EXCEPT !.fresh = FALSE] \in [price : Nat, fresh : BOOLEAN]
      BY <2>1
    <3>2. oracle' = [oracle EXCEPT ![f] = [oracle[f] EXCEPT !.fresh = FALSE]]
      BY <2>3
    <3> QED
      BY <2>2, <3>1, <3>2
  <2>4. ASSUME NEW price \in PriceInputs[f],
               oracle' = [oracle EXCEPT ![f] = [price |-> price, fresh |-> TRUE]]
        PROVE  oracle' \in [DOMAIN PriceInputs -> [price : Nat, fresh : BOOLEAN]]
    <3>1. [price |-> price, fresh |-> TRUE] \in [price : Nat, fresh : BOOLEAN]
      BY PerpAssumption
    <3> QED
      BY <2>2, <2>4, <3>1
  <2> QED
    BY <2>3, <2>4 DEF OracleMoves
<1> QED
  BY <1>1 DEF OracleMoves, PerpTypeOK, moneyVars, otherVars, hookVars

\* The calls of a trader and of a keeper, one at a time.
LEMMA TypeCalls ==
  ASSUME PerpTypeOK, ReserveBacksKeeperBonds, NEW who \in Accounts
  PROVE  /\ TraderCall(who) => PerpTypeOK'
         /\ \A m \in MarketIds : SettleFunding(who, m) \/ KeeperCall(who, m) => PerpTypeOK'
<1>1. DepositInputs \subseteq Nat /\ WithdrawInputs \subseteq Nat /\ SizeInputs \subseteq Nat
      /\ CloseInputs \subseteq Nat /\ LeverageInputs \subseteq Nat /\ BondInputs \subseteq Nat
  BY PerpAssumption
<1>2. ASSUME TraderCall(who) PROVE PerpTypeOK'
  <2>1. ASSUME NEW amount \in DepositInputs, DepositMargin(who, amount) PROVE PerpTypeOK'
    BY <1>1, <2>1, TypeDepositMargin
  <2>2. ASSUME NEW amount \in WithdrawInputs, WithdrawMargin(who, amount) PROVE PerpTypeOK'
    BY <1>1, <2>2, TypeWithdrawMargin
  <2>3. ASSUME NEW m \in MarketIds, NEW side \in {1, -1}, NEW size \in SizeInputs,
               NEW leverage \in LeverageInputs, NEW topUp \in DepositInputs \cup {0},
               OpenPosition(who, m, side, size, leverage, topUp)
        PROVE  PerpTypeOK'
    <3>1. size \in Nat /\ leverage \in Nat /\ topUp \in Nat
      BY <1>1
    <3> QED
      BY <2>3, <3>1, TypeOpenPosition
  <2>4. ASSUME NEW m \in MarketIds, NEW size \in CloseInputs, ClosePosition(who, m, size)
        PROVE  PerpTypeOK'
    BY <1>1, <2>4, TypeClosePosition
  <2>5. ASSUME NEW m \in MarketIds, NEW leverage \in LeverageInputs,
               AdjustLeverage(who, m, leverage)
        PROVE  PerpTypeOK'
    BY <1>1, <2>5, TypeAdjustLeverage
  <2> QED
    BY <1>2, <2>1, <2>2, <2>3, <2>4, <2>5 DEF TraderCall
<1>3. ASSUME NEW m \in MarketIds, SettleFunding(who, m) \/ KeeperCall(who, m)
      PROVE  PerpTypeOK'
  <2>1. CASE SettleFunding(who, m)
    BY <2>1, TypeSettleFunding
  <2>2. ASSUME NEW target \in Accounts, Liquidate(who, target, m) PROVE PerpTypeOK'
    BY <2>2, TypeLiquidate
  <2>3. ASSUME NEW amount \in BondInputs,
               ReserveKeeperBond(who, m, amount) \/ ReleaseKeeperBond(who, m, amount)
        PROVE  PerpTypeOK'
    BY <1>1, <2>3, TypeKeeperBonds
  <2> QED
    BY <1>3, <2>1, <2>2, <2>3 DEF KeeperCall
<1> QED
  BY <1>2, <1>3

\* The initial state is typed.
LEMMA TypeInit == Init => PerpTypeOK
<1> SUFFICES ASSUME Init PROVE PerpTypeOK
  OBVIOUS
<1>1. Horizon \in Nat \ {0} /\ MaxOpened \in Nat /\ MaxSamples \in Nat
      /\ Endowment \in [Accounts -> Nat]
  BY PerpAssumption
<1>2. markets = NoRows /\ positions = NoRows /\ DOMAIN NoRows = {}
  BY DEF Init, NoRows
<1>3. IsMap(markets, MarketIds) /\ IsMap(positions, (DOMAIN markets) \X Accounts)
  BY <1>2 DEF IsMap, NoRows
<1>4. margin \in [Accounts -> MarginAccount]
  BY <1>1 DEF Init, MarginAccount
<1>5. /\ badDebt \in [MarketIds -> [sum : Nat, start : 0 .. Horizon]]
      /\ markCache \in [MarketIds -> [mark : Nat, oracle : Nat, block : 0 .. Horizon]]
      /\ samples \in [MarketIds -> 0 .. MaxSamples]
  BY <1>1 DEF Init
<1>6. /\ block \in Blocks /\ opened \in 0 .. MaxOpened /\ pot \in Nat /\ treasury \in Nat
      /\ motra \in [Accounts -> Nat] /\ reserved \in [Accounts -> Nat]
      /\ bonds \in [MarketIds \X Accounts -> Nat]
      /\ oracle \in [DOMAIN PriceInputs -> [price : Nat, fresh : BOOLEAN]]
  BY <1>1 DEF Init, Blocks
<1> QED
  BY <1>2, <1>3, <1>4, <1>5, <1>6 DEF PerpTypeOK

\* Every step keeps the types.
LEMMA TypeNext == PerpTypeOK /\ ReserveBacksKeeperBonds /\ [Next]_vars => PerpTypeOK'
<1> SUFFICES ASSUME PerpTypeOK, ReserveBacksKeeperBonds, [Next]_vars PROVE PerpTypeOK'
  OBVIOUS
<1>1. CASE NextBlock
  BY <1>1, TypeNextBlock
<1>2. ASSUME NEW f \in DOMAIN PriceInputs, OracleMoves(f) PROVE PerpTypeOK'
  BY <1>2, TypeOracleMoves
<1>3. ASSUME NEW m \in MarketIds, NEW config \in MarketConfigs, GovernanceSetMarket(m, config)
      PROVE  PerpTypeOK'
  BY <1>3, TypeGovernanceSetMarket
<1>4. ASSUME NEW who \in Accounts, TraderCall(who) PROVE PerpTypeOK'
  BY <1>4, TypeCalls
<1>5. ASSUME NEW who \in Accounts, NEW m \in MarketIds,
             SettleFunding(who, m) \/ KeeperCall(who, m)
      PROVE  PerpTypeOK'
  BY <1>5, TypeCalls
<1>6. CASE UNCHANGED vars
  BY <1>6 DEF vars, moneyVars, otherVars, hookVars, PerpTypeOK
<1> QED
  BY <1>1, <1>2, <1>3, <1>4, <1>5, <1>6 DEF Next

\* One bond changes, and the reserve of its keeper by as much.
LEMMA ReserveMoves ==
  ASSUME PerpTypeOK, ReserveBacksKeeperBonds, NEW who \in Accounts, NEW m \in MarketIds,
         NEW bond \in Nat, NEW reserve,
         bonds' = [bonds EXCEPT ![<<m, who>>] = bond],
         reserved' = [reserved EXCEPT ![who] = reserve],
         reserve = reserved[who] - bonds[<<m, who>>] + bond
  PROVE  ReserveBacksKeeperBonds'
<1> DEFINE booked(w) == [n \in MarketIds |-> bonds[<<n, w>>]]
           after(w) == [n \in MarketIds |-> bonds'[<<n, w>>]]
<1>1. SUFFICES ASSUME NEW w \in Accounts PROVE reserved'[w] = SumFunction(after(w))
  BY DEF ReserveBacksKeeperBonds
<1>2. reserved[w] = SumFunction(booked(w)) /\ reserved[w] \in Nat
  BY DEF ReserveBacksKeeperBonds, PerpTypeOK
<1>3. IsFiniteSet(MarketIds)
  BY PerpAssumption
<1>4. CASE w # who
  <2>1. \A n \in MarketIds : bonds'[<<n, w>>] = bonds[<<n, w>>]
    BY <1>4 DEF PerpTypeOK
  <2>2. after(w) = booked(w)
    BY <2>1
  <2>3. reserved'[w] = reserved[w]
    BY <1>4 DEF PerpTypeOK
  <2> QED
    BY <1>2, <2>2, <2>3
<1>5. CASE w = who
  <2> DEFINE f == booked(w)
             g == after(w)
  <2>1. /\ DOMAIN f = MarketIds /\ DOMAIN g = MarketIds
        /\ f[m] = bonds[<<m, who>>] /\ g[m] = bond /\ f[m] \in Nat /\ g[m] \in Nat
    BY <1>5 DEF PerpTypeOK
  <2>2. /\ \A n \in MarketIds : f[n] \in Nat /\ g[n] \in Nat
        /\ \A n \in MarketIds \ {m} : f[n] = g[n]
    BY <1>5 DEF PerpTypeOK
  <2>3. reserved'[w] = reserve
    BY <1>5 DEF PerpTypeOK
  <2>4. reserved[w] = SumFunction(f)
    BY <1>2
  <2> HIDE DEF f, g, booked, after
  <2>5. SumFunction(f) = SumFunctionOnSet(f, MarketIds)
        /\ SumFunction(g) = SumFunctionOnSet(g, MarketIds)
    BY <1>3, <2>1, <2>2, SumOfMap
  <2>6. SumFunctionOnSet(f, {m}) = f[m] /\ SumFunctionOnSet(g, {m}) = g[m]
    BY <2>1, SumSingle
  <2>7. SumFunctionOnSet(g, MarketIds) = SumFunctionOnSet(f, MarketIds)
          - SumFunctionOnSet(f, {m}) + SumFunctionOnSet(g, {m})
    BY <1>3, <2>2, SumMoves
  <2>8. reserved'[w] = SumFunction(g)
    BY <1>5, <2>1, <2>3, <2>4, <2>5, <2>6, <2>7
  <2> QED
    BY <2>8 DEF g
<1> QED
  BY <1>4, <1>5

\* What no call of a trader touches.
LEMMA TraderLeaves ==
  ASSUME NEW who, TraderCall(who)
  PROVE  UNCHANGED <<block, oracle, markets, reserved, treasury, bonds, badDebt>>
<1>1. ASSUME NEW amount, DepositMargin(who, amount) \/ WithdrawMargin(who, amount)
      PROVE  UNCHANGED <<block, oracle, markets, reserved, treasury, bonds, badDebt>>
  BY <1>1 DEF DepositMargin, WithdrawMargin
<1>2. ASSUME NEW m, NEW side, NEW size, NEW leverage, NEW topUp,
             OpenPosition(who, m, side, size, leverage, topUp)
      PROVE  UNCHANGED <<block, oracle, markets, reserved, treasury, bonds, badDebt>>
  BY <1>2 DEF OpenPosition
<1>3. ASSUME NEW m, NEW size, ClosePosition(who, m, size)
      PROVE  UNCHANGED <<block, oracle, markets, reserved, treasury, bonds, badDebt>>
  BY <1>3 DEF ClosePosition, moneyVars
<1>4. ASSUME NEW m, NEW leverage, AdjustLeverage(who, m, leverage)
      PROVE  UNCHANGED <<block, oracle, markets, reserved, treasury, bonds, badDebt>>
  BY <1>4 DEF AdjustLeverage, moneyVars
<1> QED
  BY <1>1, <1>2, <1>3, <1>4, Zenon DEF TraderCall

\* Nothing else touches a bond or a reserve.
LEMMA ReserveNext ==
  PerpTypeOK /\ ReserveBacksKeeperBonds /\ [Next]_vars => ReserveBacksKeeperBonds'
<1> SUFFICES ASSUME PerpTypeOK, ReserveBacksKeeperBonds, [Next]_vars
             PROVE  ReserveBacksKeeperBonds'
  OBVIOUS
<1>1. ASSUME UNCHANGED <<bonds, reserved>> PROVE ReserveBacksKeeperBonds'
  BY <1>1 DEF ReserveBacksKeeperBonds
<1>2. CASE NextBlock \/ UNCHANGED vars
      \/ (\E f \in DOMAIN PriceInputs : OracleMoves(f))
      \/ (\E m \in MarketIds : \E config \in MarketConfigs : GovernanceSetMarket(m, config))
  BY <1>1, <1>2 DEF NextBlock, vars, moneyVars, OracleMoves, GovernanceSetMarket
<1>3. ASSUME NEW who \in Accounts, TraderCall(who) PROVE ReserveBacksKeeperBonds'
  BY <1>1, <1>3, TraderLeaves
<1>4. ASSUME NEW who \in Accounts, NEW m \in MarketIds, SettleFunding(who, m)
      PROVE  ReserveBacksKeeperBonds'
  BY <1>1, <1>4 DEF SettleFunding, moneyVars
<1>5. ASSUME NEW who \in Accounts, NEW m \in MarketIds, KeeperCall(who, m)
      PROVE  ReserveBacksKeeperBonds'
  <2>1. /\ bonds[<<m, who>>] \in Nat /\ reserved[who] \in Nat
        /\ bonds[<<m, who>>] <= reserved[who]
    BY BondIsReserved
  <2>2. ASSUME NEW target \in Accounts, Liquidate(who, target, m)
        PROVE  ReserveBacksKeeperBonds'
    <3>1. bonds[<<m, who>>] >= KeeperBondMinimum
          /\ (SlashKeeper(who, m) \/ Unwind(who, target, m))
      BY <2>2 DEF Liquidate
    <3>2. CASE Unwind(who, target, m)
      BY <1>1, <3>2 DEF Unwind
    <3>3. CASE SlashKeeper(who, m)
      <4>1. SlashedBond(bonds[<<m, who>>]) = bonds[<<m, who>>] - KeeperBondMinimum
            /\ bonds[<<m, who>>] - KeeperBondMinimum \in Nat
        BY <2>1, <3>1, Scales DEF SlashedBond, Larger
      <4>2. /\ bonds' = [bonds EXCEPT ![<<m, who>>] = bonds[<<m, who>>] - KeeperBondMinimum]
            /\ reserved' = [reserved EXCEPT ![who] = reserved[who] - KeeperBondMinimum]
        BY <3>3, <4>1 DEF SlashKeeper
      <4>3. reserved[who] - KeeperBondMinimum =
              reserved[who] - bonds[<<m, who>>] + (bonds[<<m, who>>] - KeeperBondMinimum)
        BY <2>1, Scales
      <4> QED
        BY <4>1, <4>2, <4>3, ReserveMoves
    <3> QED
      BY <3>1, <3>2, <3>3
  <2>3. ASSUME NEW amount \in Nat, ReserveKeeperBond(who, m, amount)
        PROVE  ReserveBacksKeeperBonds'
    <3>1. /\ bonds' = [bonds EXCEPT ![<<m, who>>] = bonds[<<m, who>>] + amount]
          /\ reserved' = [reserved EXCEPT ![who] = reserved[who] + amount]
      BY <2>3 DEF ReserveKeeperBond
    <3>2. /\ bonds[<<m, who>>] + amount \in Nat
          /\ reserved[who] + amount =
               reserved[who] - bonds[<<m, who>>] + (bonds[<<m, who>>] + amount)
      BY <2>1
    <3> QED
      BY <3>1, <3>2, ReserveMoves
  <2>4. ASSUME NEW amount \in Nat, ReleaseKeeperBond(who, m, amount)
        PROVE  ReserveBacksKeeperBonds'
    <3>1. /\ bonds' = [bonds EXCEPT ![<<m, who>>] = bonds[<<m, who>>] - amount]
          /\ reserved' = [reserved EXCEPT ![who] = Larger(0, reserved[who] - amount)]
          /\ bonds[<<m, who>>] >= amount
      BY <2>4 DEF ReleaseKeeperBond
    <3>2. /\ bonds[<<m, who>>] - amount \in Nat
          /\ Larger(0, reserved[who] - amount) =
               reserved[who] - bonds[<<m, who>>] + (bonds[<<m, who>>] - amount)
      BY <2>1, <3>1 DEF Larger
    <3> QED
      BY <3>1, <3>2, ReserveMoves
  <2>5. BondInputs \subseteq Nat
    BY PerpAssumption
  <2> QED
    BY <1>5, <2>2, <2>3, <2>4, <2>5 DEF KeeperCall
<1> QED
  BY <1>2, <1>3, <1>4, <1>5 DEF Next

\* No bond, no reserve.
LEMMA ReserveInit == Init => ReserveBacksKeeperBonds
<1> SUFFICES ASSUME Init, NEW who \in Accounts
             PROVE  reserved[who] = SumFunction([m \in MarketIds |-> bonds[<<m, who>>]])
  BY DEF ReserveBacksKeeperBonds
<1> DEFINE f == [m \in MarketIds |-> bonds[<<m, who>>]]
<1>1. \A m \in MarketIds : f[m] = 0
  BY DEF Init
<1>2. IsFiniteSet(MarketIds) /\ DOMAIN f = MarketIds /\ reserved[who] = 0
  BY PerpAssumption DEF Init
<1> HIDE DEF f
<1>3. SumFunction(f) = SumFunctionOnSet(f, MarketIds)
  BY <1>1, <1>2, SumOfMap
<1>4. SumFunctionOnSet(f, MarketIds) = 0 * Cardinality(MarketIds)
  BY <1>1, <1>2, SumEqual
<1>5. 0 * Cardinality(MarketIds) = 0
  BY <1>2, FS_CardinalityType
<1> QED
  BY <1>2, <1>3, <1>4, <1>5 DEF f

(***************************************************************************)
(* Paused markets.                                                         *)
(***************************************************************************)
\* The counter of a market that is not paused is within the threshold.
DebtPauses ==
  \A m \in MarketIds :
    badDebt[m].sum > BadDebtThreshold => m \in DOMAIN markets /\ markets[m].paused

\* What a step may do to the positions of a market that only winds down.
WindsDown(m) ==
  \A p \in DOMAIN positions' :
    p[1] = m =>
      /\ p \in DOMAIN positions
      /\ Abs(positions'[p].size) <= Abs(positions[p].size)
      /\ positions'[p].leverage = positions[p].leverage

\* Only a liquidation adds bad debt, and it pauses the market that has too
\* much; registering a market changes no other.
LEMMA DebtNext ==
  PerpTypeOK /\ DebtPauses /\ [Next]_vars => DebtPauses'
<1> SUFFICES ASSUME PerpTypeOK, DebtPauses, [Next]_vars PROVE DebtPauses'
  OBVIOUS
<1>1. ASSUME UNCHANGED <<badDebt, markets>> PROVE DebtPauses'
  BY <1>1 DEF DebtPauses
<1>2. CASE NextBlock \/ UNCHANGED vars
      \/ (\E f \in DOMAIN PriceInputs : OracleMoves(f))
  BY <1>1, <1>2 DEF NextBlock, vars, OracleMoves
<1>3. ASSUME NEW m \in MarketIds, NEW config \in MarketConfigs, GovernanceSetMarket(m, config)
      PROVE  DebtPauses'
  <2>1. /\ m \notin DOMAIN markets /\ markets' = Put(markets, Entry(m, config))
        /\ badDebt' = badDebt
    BY <1>3 DEF GovernanceSetMarket
  <2>2. \A n \in DOMAIN markets : n \in DOMAIN markets' /\ markets'[n] = markets[n]
    BY <2>1 DEF Put, Entry
  <2> QED
    BY <2>1, <2>2 DEF DebtPauses
<1>4. ASSUME NEW who \in Accounts, TraderCall(who) PROVE DebtPauses'
  BY <1>1, <1>4, TraderLeaves
<1>5. ASSUME NEW who \in Accounts, NEW m \in MarketIds, SettleFunding(who, m)
      PROVE  DebtPauses'
  BY <1>1, <1>5 DEF SettleFunding
<1>6. ASSUME NEW who \in Accounts, NEW m \in MarketIds, KeeperCall(who, m)
      PROVE  DebtPauses'
  <2>1. ASSUME NEW amount \in BondInputs,
               ReserveKeeperBond(who, m, amount) \/ ReleaseKeeperBond(who, m, amount)
        PROVE  DebtPauses'
    BY <1>1, <2>1 DEF ReserveKeeperBond, ReleaseKeeperBond
  <2>2. ASSUME NEW target \in Accounts, Liquidate(who, target, m)
        PROVE  DebtPauses'
    <3>1. <<m, target>> \in DOMAIN positions
          /\ (SlashKeeper(who, m) \/ Unwind(who, target, m))
      BY <2>2 DEF Liquidate
    <3>2. CASE SlashKeeper(who, m)
      BY <1>1, <3>2 DEF SlashKeeper
    <3>3. ASSUME NEW debt \in Int, AccumulateBadDebt(m, debt) PROVE DebtPauses'
      <4>1. CASE debt = 0
        BY <1>1, <3>3, <4>1 DEF AccumulateBadDebt
      <4>2. CASE debt # 0
        <5>1. /\ badDebt' = [badDebt EXCEPT ![m] = [WindowDebt(m) EXCEPT !.sum = @ + debt]]
              /\ markets' = [markets EXCEPT ![m].paused = @ \/ Trips(m, debt)]
          BY <3>3, <4>2 DEF AccumulateBadDebt
        <5>2. m \in DOMAIN markets /\ markets[m] \in MarketConfig
          BY <3>1, PositionReads, PriceReads
        <5>3. WindowDebt(m) \in [sum : Nat, start : 0 .. Horizon]
          BY PerpAssumption DEF WindowDebt, PerpTypeOK, Blocks
        <5>4. badDebt'[m].sum = WindowDebt(m).sum + debt
          BY <5>1, <5>3 DEF PerpTypeOK
        <5>5. markets'[m].paused = (markets[m].paused \/ Trips(m, debt))
              /\ DOMAIN markets' = DOMAIN markets
              /\ \A n \in MarketIds \ {m} : markets'[n] = markets[n]
          BY <5>1, <5>2 DEF MarketConfig
        <5>6. badDebt'[m].sum > BadDebtThreshold => Trips(m, debt)
          BY <5>4 DEF Trips
        <5>7. badDebt'[m].sum > BadDebtThreshold => markets'[m].paused
          BY <5>5, <5>6, Zenon
        <5>8. \A n \in MarketIds \ {m} : badDebt'[n] = badDebt[n]
          BY <5>1 DEF PerpTypeOK
        <5> QED
          BY <5>2, <5>5, <5>7, <5>8 DEF DebtPauses
      <4> QED
        BY <4>1, <4>2
    <3>4. CASE Unwind(who, target, m)
      <4> DEFINE left == Equity(m, positions[<<m, target>>])
                           - LiquidationFee(m, positions[<<m, target>>])
                 debt == Larger(0, -left)
      <4>1. AccumulateBadDebt(m, debt)
        BY <3>4 DEF Unwind
      <4>2. debt \in Int
        BY <3>1, LiquidationReads DEF Larger
      <4> HIDE DEF debt
      <4> QED
        BY <3>3, <4>1, <4>2
    <3> QED
      BY <3>1, <3>2, <3>4
  <2> QED
    BY <1>6, <2>1, <2>2 DEF KeeperCall
<1> QED
  BY <1>2, <1>3, <1>4, <1>5, <1>6 DEF Next

\* The positions without one.
LEMMA RemovedPosition ==
  ASSUME NEW p
  PROVE  /\ DOMAIN Remove(positions, {p}) = DOMAIN positions \ {p}
         /\ \A q \in DOMAIN Remove(positions, {p}) : Remove(positions, {p})[q] = positions[q]
  BY DEF Remove, Restrict

\* Positions that go or stay as they are wind a market down.
LEMMA KeptWindsDown ==
  ASSUME PerpTypeOK, NEW m,
         \A p \in DOMAIN positions' : p[1] = m =>
            p \in DOMAIN positions /\ positions'[p] = positions[p]
  PROVE  WindsDown(m)
<1>1. \A p \in DOMAIN positions : Abs(positions[p].size) \in Nat
  BY PositionReads, AbsType
<1> QED
  BY <1>1 DEF WindsDown

\* A close takes no more than there is.
LEMMA CloseWindsDown ==
  ASSUME PerpTypeOK, NEW who \in Accounts, NEW n, NEW size \in Nat,
         ClosePosition(who, n, size), NEW m
  PROVE  WindsDown(m)
<1> DEFINE p == <<n, who>>
           position == positions[p]
           whole == Abs(position.size)
           closed == IF size = 0 THEN whole ELSE Smaller(size, whole)
           row == Shrunk(n, position, closed)
<1>1. /\ p \in DOMAIN positions
      /\ positions' = IF closed = whole THEN Remove(positions, {p})
                                        ELSE Put(positions, Entry(p, row))
  BY DEF ClosePosition
<1>2. position \in Position /\ position.size \in Int
  BY <1>1, PositionReads
<1>3. whole \in Nat
  BY <1>2, AbsType
<1>4. closed \in 0 .. whole
  BY <1>3 DEF Smaller
<1>5. CASE closed = whole
  <2>1. positions' = Remove(positions, {p})
    BY <1>1, <1>5
  <2>2. \A q \in DOMAIN positions' : q \in DOMAIN positions /\ positions'[q] = positions[q]
    BY <2>1, RemovedPosition
  <2> HIDE DEF p, position, whole, closed, row
  <2> QED
    BY <2>2, KeptWindsDown
<1>6. CASE closed # whole
  <2>1. positions' = Put(positions, Entry(p, row))
    BY <1>1, <1>6
  <2>2. DOMAIN positions' = DOMAIN positions /\ positions'[p] = row
        /\ \A q \in DOMAIN positions \ {p} : positions'[q] = positions[q]
    BY <1>1, <2>1 DEF Put, Entry
  <2>3. /\ row.size = IF position.size >= 0 THEN position.size - closed
                      ELSE position.size + closed
        /\ row.leverage = position.leverage
    BY <1>2 DEF Shrunk, Position
  <2> HIDE DEF closed, row
  <2>4. Abs(row.size) <= Abs(position.size)
    BY <1>2, <1>4, <2>3 DEF Abs
  <2>5. \A q \in DOMAIN positions : Abs(positions[q].size) \in Nat
    BY PositionReads, AbsType
  <2>6. /\ p \in DOMAIN positions
        /\ Abs(positions'[p].size) <= Abs(positions[p].size)
        /\ positions'[p].leverage = positions[p].leverage
    BY <1>1, <2>2, <2>3, <2>4
  <2> HIDE DEF p, position
  <2> QED
    BY <2>2, <2>5, <2>6 DEF WindsDown
<1> QED
  BY <1>5, <1>6

\* A step leaves a paused market to wind down.
LEMMA PausedNext ==
  ASSUME PerpTypeOK, [Next]_vars, NEW m \in DOMAIN markets, markets[m].paused
  PROVE  WindsDown(m)
<1>1. ASSUME positions' = positions PROVE WindsDown(m)
  BY <1>1, KeptWindsDown
<1>2. CASE NextBlock \/ UNCHANGED vars
      \/ (\E f \in DOMAIN PriceInputs : OracleMoves(f))
      \/ (\E n \in MarketIds : \E config \in MarketConfigs : GovernanceSetMarket(n, config))
  BY <1>1, <1>2 DEF NextBlock, vars, OracleMoves, GovernanceSetMarket
<1>3. ASSUME NEW who \in Accounts, TraderCall(who) PROVE WindsDown(m)
  <2>1. ASSUME NEW amount, DepositMargin(who, amount) \/ WithdrawMargin(who, amount)
        PROVE  WindsDown(m)
    BY <1>1, <2>1 DEF DepositMargin, WithdrawMargin
  <2>2. ASSUME NEW n \in MarketIds, NEW side, NEW size, NEW leverage, NEW topUp,
               OpenPosition(who, n, side, size, leverage, topUp)
        PROVE  WindsDown(m)
    <3> DEFINE row == [size |-> side * size, entry |-> Mark(n),
                       locked |-> InitialMargin(Notional(size, Mark(n)), leverage),
                       leverage |-> leverage, fundingAtOpen |-> FundingIndex(n)]
    <3>1. ~markets[n].paused /\ positions' = Put(positions, Entry(<<n, who>>, row))
      BY <2>2 DEF OpenPosition
    <3> HIDE DEF row
    <3>2. n # m
      BY <3>1
    <3>3. \A p \in DOMAIN positions' : p[1] = m =>
             p \in DOMAIN positions /\ positions'[p] = positions[p]
      BY <3>1, <3>2 DEF Put, Entry
    <3> QED
      BY <3>3, KeptWindsDown
  <2>3. ASSUME NEW n \in MarketIds, NEW size \in Nat, ClosePosition(who, n, size)
        PROVE  WindsDown(m)
    BY <2>3, CloseWindsDown
  <2>4. ASSUME NEW n \in MarketIds, NEW leverage, AdjustLeverage(who, n, leverage)
        PROVE  WindsDown(m)
    <3> DEFINE position == positions[<<n, who>>]
               row == [position EXCEPT
                   !.locked = InitialMargin(Notional(Abs(position.size), position.entry), leverage),
                   !.leverage = leverage, !.fundingAtOpen = FundingIndex(n)]
    <3>1. ~markets[n].paused /\ positions' = Put(positions, Entry(<<n, who>>, row))
      BY <2>4 DEF AdjustLeverage
    <3> HIDE DEF row
    <3>2. n # m
      BY <3>1
    <3>3. \A p \in DOMAIN positions' : p[1] = m =>
             p \in DOMAIN positions /\ positions'[p] = positions[p]
      BY <3>1, <3>2 DEF Put, Entry
    <3> QED
      BY <3>3, KeptWindsDown
  <2>5. CloseInputs \subseteq Nat
    BY PerpAssumption
  <2> QED
    BY <1>3, <2>1, <2>2, <2>3, <2>4, <2>5 DEF TraderCall
<1>4. ASSUME NEW who \in Accounts, NEW n \in MarketIds, SettleFunding(who, n)
      PROVE  WindsDown(m)
  <2>1. /\ n # m
        /\ positions' = [positions EXCEPT ![<<n, who>>].fundingAtOpen = FundingIndex(n)]
    BY <1>4 DEF SettleFunding
  <2>2. \A p \in DOMAIN positions' : p[1] = m =>
           p \in DOMAIN positions /\ positions'[p] = positions[p]
    BY <2>1
  <2> QED
    BY <2>2, KeptWindsDown
<1>5. ASSUME NEW who \in Accounts, NEW n \in MarketIds, KeeperCall(who, n)
      PROVE  WindsDown(m)
  <2>1. ASSUME NEW amount \in BondInputs,
               ReserveKeeperBond(who, n, amount) \/ ReleaseKeeperBond(who, n, amount)
        PROVE  WindsDown(m)
    BY <1>1, <2>1 DEF ReserveKeeperBond, ReleaseKeeperBond
  <2>2. ASSUME NEW target \in Accounts, Liquidate(who, target, n)
        PROVE  WindsDown(m)
    <3>1. positions' = positions \/ positions' = Remove(positions, {<<n, target>>})
      BY <2>2 DEF Liquidate, SlashKeeper, Unwind
    <3>2. CASE positions' = Remove(positions, {<<n, target>>})
      <4>1. \A p \in DOMAIN positions' : p \in DOMAIN positions /\ positions'[p] = positions[p]
        BY <3>2, RemovedPosition
      <4> QED
        BY <4>1, KeptWindsDown
    <3> QED
      BY <1>1, <3>1, <3>2
  <2> QED
    BY <1>5, <2>1, <2>2 DEF KeeperCall
<1> QED
  BY <1>2, <1>3, <1>4, <1>5 DEF Next

(***************************************************************************)
(* Liquidations.                                                           *)
(***************************************************************************)
\* A position that a step ends for a payment was liquidatable, and its owner
\* keeps the free margin.
EndsFairly ==
  \A p \in DOMAIN positions :
    \/ p \in DOMAIN positions'
    \/ UNCHANGED motra
    \/ /\ oracle[markets[p[1]].feed].fresh
       /\ Equity(p[1], positions[p]) < Maintenance(p[1], positions[p])
       /\ margin'[p[2]].free >= margin[p[2]].free

\* A slash is for a healthy position, of the minimum bond, and moves nothing
\* of the traders.
SlashesFairly ==
  treasury' # treasury =>
    /\ UNCHANGED <<positions, margin, motra, pot>>
    /\ \E p \in DOMAIN positions, keeper \in Accounts :
         /\ Equity(p[1], positions[p]) >= Maintenance(p[1], positions[p])
         /\ bonds[<<p[1], keeper>>] - bonds'[<<p[1], keeper>>] = KeeperBondMinimum

\* The healthy branch of a liquidation.
LEMMA SlashIsFair ==
  ASSUME PerpTypeOK, NEW keeper \in Accounts, NEW target \in Accounts, NEW m \in MarketIds,
         bonds[<<m, keeper>>] >= KeeperBondMinimum, <<m, target>> \in DOMAIN positions,
         Healthy(m, positions[<<m, target>>]), SlashKeeper(keeper, m)
  PROVE  EndsFairly /\ SlashesFairly
<1>1. UNCHANGED <<positions, margin, motra, pot>>
  BY DEF SlashKeeper
<1>2. bonds' = [bonds EXCEPT ![<<m, keeper>>] = SlashedBond(bonds[<<m, keeper>>])]
      /\ bonds[<<m, keeper>>] \in Nat
  BY DEF SlashKeeper, PerpTypeOK
<1>3. bonds'[<<m, keeper>>] = SlashedBond(bonds[<<m, keeper>>])
  BY <1>2 DEF PerpTypeOK
<1>4. bonds[<<m, keeper>>] - bonds'[<<m, keeper>>] = KeeperBondMinimum
  BY <1>2, <1>3, Scales DEF SlashedBond, Larger
<1>5. EndsFairly
  BY <1>1 DEF EndsFairly
<1>6. \E p \in DOMAIN positions, k \in Accounts :
        /\ Equity(p[1], positions[p]) >= Maintenance(p[1], positions[p])
        /\ bonds[<<p[1], k>>] - bonds'[<<p[1], k>>] = KeeperBondMinimum
  <2> DEFINE q == <<m, target>>
  <2>1. q[1] = m /\ q \in DOMAIN positions
    OBVIOUS
  <2>2. Equity(q[1], positions[q]) >= Maintenance(q[1], positions[q])
    BY <2>1 DEF Healthy
  <2> HIDE DEF q
  <2> QED
    BY <1>4, <2>1, <2>2
<1> QED
  BY <1>1, <1>5, <1>6 DEF SlashesFairly

\* The other branch: the position is not healthy, the price is fresh, and
\* the owner's free margin only grows.
LEMMA UnwindIsFair ==
  ASSUME PerpTypeOK, NEW keeper \in Accounts, NEW target \in Accounts, NEW m \in MarketIds,
         <<m, target>> \in DOMAIN positions, FreshPrice(markets[m].feed),
         ~Healthy(m, positions[<<m, target>>]), Unwind(keeper, target, m)
  PROVE  EndsFairly /\ SlashesFairly
<1> DEFINE p == <<m, target>>
           left == Equity(m, positions[p]) - LiquidationFee(m, positions[p])
           funding == FundingDelta(FundingIndex(m), positions[p].fundingAtOpen,
                                   positions[p].size)
           credit == Larger(0, UnrealizedPnl(m, positions[p])) + Larger(0, -funding)
           free == margin[target].free + left
           rate == RaisedRate(margin[target].rate, free, credit)
<1>1. /\ positions' = Remove(positions, {p}) /\ treasury' = treasury
      /\ margin' = IF left > 0
                   THEN [margin EXCEPT ![target] =
                           [margin[target] EXCEPT !.free = free, !.rate = rate]]
                   ELSE margin
  BY DEF Unwind
<1>2. margin \in [Accounts -> MarginAccount] /\ margin[target] \in MarginAccount
      /\ margin[target].free \in Nat
  BY DEF PerpTypeOK, MarginAccount
<1>3. p[1] = m /\ p[2] = target /\ p \in DOMAIN positions
  OBVIOUS
<1>4. left \in Int /\ Equity(m, positions[p]) \in Int /\ Maintenance(m, positions[p]) \in Nat
  BY LiquidationReads
<1>5. Equity(m, positions[p]) < Maintenance(m, positions[p])
  BY <1>4 DEF Healthy
<1> HIDE DEF left, rate
<1>6. margin'[target].free >= margin[target].free
  <2>1. CASE left > 0
    <3>1. margin'[target] = [margin[target] EXCEPT !.free = free, !.rate = rate]
      BY <1>1, <1>2, <2>1
    <3>2. margin'[target].free = free
      BY <1>2, <3>1 DEF MarginAccount
    <3> QED
      BY <1>2, <1>4, <2>1, <3>2
  <2>2. CASE ~(left > 0)
    BY <1>1, <1>2, <2>2
  <2> QED
    BY <2>1, <2>2
<1>7. oracle[markets[m].feed].fresh
  BY DEF FreshPrice
<1>8. \A q \in DOMAIN positions : q = p \/ q \in DOMAIN positions'
  BY <1>1, RemovedPosition
<1> HIDE DEF p
<1>9. EndsFairly
  BY <1>3, <1>5, <1>6, <1>7, <1>8 DEF EndsFairly
<1> QED
  BY <1>1, <1>9 DEF SlashesFairly

\* Nothing else ends a position against a payment or pays the treasury.
LEMMA FairNext ==
  PerpTypeOK /\ [Next]_vars => EndsFairly /\ SlashesFairly
<1> SUFFICES ASSUME PerpTypeOK, [Next]_vars PROVE EndsFairly /\ SlashesFairly
  OBVIOUS
<1>1. ASSUME treasury' = treasury, DOMAIN positions \subseteq DOMAIN positions'
      PROVE  EndsFairly /\ SlashesFairly
  BY <1>1 DEF EndsFairly, SlashesFairly
<1>2. ASSUME treasury' = treasury, motra' = motra PROVE EndsFairly /\ SlashesFairly
  BY <1>2 DEF EndsFairly, SlashesFairly
<1>3. CASE NextBlock \/ UNCHANGED vars
      \/ (\E f \in DOMAIN PriceInputs : OracleMoves(f))
      \/ (\E n \in MarketIds : \E config \in MarketConfigs : GovernanceSetMarket(n, config))
  BY <1>2, <1>3 DEF NextBlock, vars, moneyVars, OracleMoves, GovernanceSetMarket
<1>4. ASSUME NEW who \in Accounts, TraderCall(who) PROVE EndsFairly /\ SlashesFairly
  <2>1. ASSUME NEW amount, DepositMargin(who, amount) \/ WithdrawMargin(who, amount)
        PROVE  EndsFairly /\ SlashesFairly
    BY <1>1, <2>1 DEF DepositMargin, WithdrawMargin
  <2>2. ASSUME NEW n, NEW side, NEW size, NEW leverage, NEW topUp,
               OpenPosition(who, n, side, size, leverage, topUp)
        PROVE  EndsFairly /\ SlashesFairly
    <3>1. treasury' = treasury
      BY <2>2 DEF OpenPosition
    <3>2. DOMAIN positions \subseteq DOMAIN positions'
      BY <2>2 DEF OpenPosition, Put
    <3> QED
      BY <1>1, <3>1, <3>2
  <2>3. ASSUME NEW n, NEW size, ClosePosition(who, n, size)
        PROVE  EndsFairly /\ SlashesFairly
    BY <1>2, <2>3 DEF ClosePosition, moneyVars
  <2>4. ASSUME NEW n, NEW leverage, AdjustLeverage(who, n, leverage)
        PROVE  EndsFairly /\ SlashesFairly
    BY <1>2, <2>4 DEF AdjustLeverage, moneyVars
  <2> QED
    BY <1>4, <2>1, <2>2, <2>3, <2>4, Zenon DEF TraderCall
<1>5. ASSUME NEW who \in Accounts, NEW m \in MarketIds, SettleFunding(who, m)
      PROVE  EndsFairly /\ SlashesFairly
  BY <1>2, <1>5 DEF SettleFunding, moneyVars
<1>6. ASSUME NEW who \in Accounts, NEW m \in MarketIds, KeeperCall(who, m)
      PROVE  EndsFairly /\ SlashesFairly
  <2>1. ASSUME NEW amount \in BondInputs,
               ReserveKeeperBond(who, m, amount) \/ ReleaseKeeperBond(who, m, amount)
        PROVE  EndsFairly /\ SlashesFairly
    BY <1>1, <2>1 DEF ReserveKeeperBond, ReleaseKeeperBond
  <2>2. ASSUME NEW target \in Accounts, Liquidate(who, target, m)
        PROVE  EndsFairly /\ SlashesFairly
    <3>1. /\ bonds[<<m, who>>] >= KeeperBondMinimum /\ <<m, target>> \in DOMAIN positions
          /\ FreshPrice(markets[m].feed)
          /\ IF Healthy(m, positions[<<m, target>>]) THEN SlashKeeper(who, m)
             ELSE Unwind(who, target, m)
      BY <2>2 DEF Liquidate
    <3>2. CASE Healthy(m, positions[<<m, target>>])
      BY <3>1, <3>2, SlashIsFair
    <3>3. CASE ~Healthy(m, positions[<<m, target>>])
      BY <3>1, <3>3, UnwindIsFair
    <3> QED
      BY <3>2, <3>3
  <2> QED
    BY <1>6, <2>1, <2>2 DEF KeeperCall
<1> QED
  BY <1>3, <1>4, <1>5, <1>6 DEF Next

(***************************************************************************)
(* Margin: what an account's positions lock, summed.                       *)
(***************************************************************************)
\* The margin that some positions lock of one account.
LockedIn(rows, who) ==
  SumFunctionOnSet([p \in DOMAIN rows |-> rows[p].locked], {p \in DOMAIN rows : p[2] = who})

\* Maps of positions, one per market and account at most.
IsPositions(rows) ==
  DOMAIN rows \subseteq MarketIds \X Accounts /\ \A p \in DOMAIN rows : rows[p].locked \in Nat

\* The positions of a typed state are such a map, and Locked is their sum.
LEMMA PositionsAreRows ==
  PerpTypeOK => IsPositions(positions) /\ \A who \in Accounts : Locked(who) = LockedIn(positions, who)
<1> SUFFICES ASSUME PerpTypeOK
             PROVE  /\ IsPositions(positions)
                    /\ \A who \in Accounts : Locked(who) = LockedIn(positions, who)
  OBVIOUS
<1>1. DOMAIN positions \subseteq MarketIds \X Accounts
  BY DEF PerpTypeOK, IsMap
<1>2. \A p \in DOMAIN positions : positions[p].locked \in Nat
  BY PositionReads
<1> QED
  BY <1>1, <1>2, Zenon DEF IsPositions, Locked, LockedIn

\* The positions of one account are finitely many: one in each market.
LEMMA OwnIsFinite ==
  ASSUME NEW rows, IsPositions(rows), NEW who \in Accounts
  PROVE  IsFiniteSet({p \in DOMAIN rows : p[2] = who})
<1>1. IsFiniteSet(MarketIds \X {who})
  BY PerpAssumption, FS_Singleton, FS_Product
<1>2. {p \in DOMAIN rows : p[2] = who} \subseteq MarketIds \X {who}
  BY DEF IsPositions
<1> QED
  BY <1>1, <1>2, FS_Subset

\* What an account has locked is an amount.
LEMMA LockedType ==
  ASSUME NEW rows, IsPositions(rows), NEW who \in Accounts
  PROVE  LockedIn(rows, who) \in Nat
<1> DEFINE own == {p \in DOMAIN rows : p[2] = who}
           f == [p \in DOMAIN rows |-> rows[p].locked]
<1>1. IsFiniteSet(own)
  BY OwnIsFinite
<1>2. \A p \in own : f[p] \in Nat
  BY DEF IsPositions
<1> HIDE DEF own, f
<1>3. SumFunctionOnSet(f, own) \in Nat
  BY <1>1, <1>2, SumType
<1> QED
  BY <1>3 DEF LockedIn, own, f

\* Positions that lock the same sum up to the same.
LEMMA LockedAgree ==
  ASSUME NEW rows, NEW new, IsPositions(rows), IsPositions(new), NEW who \in Accounts,
         {p \in DOMAIN new : p[2] = who} = {p \in DOMAIN rows : p[2] = who},
         \A p \in DOMAIN rows : p[2] = who => new[p].locked = rows[p].locked
  PROVE  LockedIn(new, who) = LockedIn(rows, who)
<1> DEFINE own == {p \in DOMAIN rows : p[2] = who}
           f == [p \in DOMAIN rows |-> rows[p].locked]
           g == [p \in DOMAIN new |-> new[p].locked]
<1>1. IsFiniteSet(own)
  BY OwnIsFinite
<1>2. \A p \in own : f[p] = g[p] /\ f[p] \in Nat
  BY DEF IsPositions
<1>3. LockedIn(rows, who) = SumFunctionOnSet(f, own)
  BY DEF LockedIn
<1>4. LockedIn(new, who) = SumFunctionOnSet(g, own)
  BY DEF LockedIn
<1> HIDE DEF own, f, g
<1> QED
  BY <1>1, <1>2, <1>3, <1>4, SumAgree

\* One position gone: what it locked is no longer counted.
LEMMA LockedGone ==
  ASSUME NEW rows, NEW new, IsPositions(rows), IsPositions(new),
         NEW p \in DOMAIN rows, DOMAIN new = DOMAIN rows \ {p},
         \A q \in DOMAIN new : new[q].locked = rows[q].locked
  PROVE  /\ LockedIn(new, p[2]) = LockedIn(rows, p[2]) - rows[p].locked
         /\ \A who \in Accounts \ {p[2]} : LockedIn(new, who) = LockedIn(rows, who)
<1>1. p[2] \in Accounts /\ p \in MarketIds \X Accounts /\ rows[p].locked \in Nat
  BY DEF IsPositions
<1>2. ASSUME NEW who \in Accounts \ {p[2]} PROVE LockedIn(new, who) = LockedIn(rows, who)
  <2>1. {q \in DOMAIN new : q[2] = who} = {q \in DOMAIN rows : q[2] = who}
    BY <1>2
  <2>2. \A q \in DOMAIN rows : q[2] = who => new[q].locked = rows[q].locked
    BY <1>2
  <2> QED
    BY <2>1, <2>2, LockedAgree
<1> DEFINE own == {q \in DOMAIN rows : q[2] = p[2]}
           f == [q \in DOMAIN rows |-> rows[q].locked]
           g == [q \in DOMAIN new |-> new[q].locked]
<1>3. IsFiniteSet(own) /\ p \in own /\ IsFiniteSet(own \ {p})
  BY <1>1, OwnIsFinite, FS_Subset
<1>4. /\ \A q \in own : f[q] \in Nat
      /\ \A q \in own \ {p} : f[q] = g[q] /\ f[q] \in Nat
  BY DEF IsPositions
<1>5. LockedIn(rows, p[2]) = SumFunctionOnSet(f, own) /\ f[p] = rows[p].locked
  BY DEF LockedIn
<1>6. LockedIn(new, p[2]) = SumFunctionOnSet(g, own \ {p})
  <2>1. own \ {p} = {q \in DOMAIN new : q[2] = p[2]}
    OBVIOUS
  <2> QED
    BY <2>1, Zenon DEF LockedIn
<1>7. LockedIn(rows, p[2]) \in Nat /\ LockedIn(new, p[2]) \in Nat
  BY <1>1, LockedType
<1> HIDE DEF own, f, g
<1>8. SumFunctionOnSet(f, own) = f[p] + SumFunctionOnSet(f, own \ {p})
  BY <1>3, <1>4, SumRemove
<1>9. SumFunctionOnSet(f, own \ {p}) = SumFunctionOnSet(g, own \ {p})
  BY <1>3, <1>4, SumAgree
<1>10. LockedIn(rows, p[2]) = rows[p].locked + LockedIn(new, p[2])
  BY <1>5, <1>6, <1>8, <1>9
<1> QED
  BY <1>1, <1>2, <1>7, <1>10

\* One row put, over another or new: the sum moves by the difference.
LEMMA LockedPut ==
  ASSUME NEW rows, IsPositions(rows), NEW p \in MarketIds \X Accounts, NEW row,
         row.locked \in Nat
  PROVE  LET new == Put(rows, Entry(p, row))
             old == IF p \in DOMAIN rows THEN rows[p].locked ELSE 0
         IN  /\ IsPositions(new)
             /\ LockedIn(new, p[2]) = LockedIn(rows, p[2]) - old + row.locked
             /\ \A who \in Accounts \ {p[2]} : LockedIn(new, who) = LockedIn(rows, who)
<1> DEFINE new == Put(rows, Entry(p, row))
           rest == Remove(rows, {p})
           old == IF p \in DOMAIN rows THEN rows[p].locked ELSE 0
<1>1. /\ DOMAIN new = DOMAIN rows \cup {p} /\ new[p] = row
      /\ \A q \in DOMAIN rows \ {p} : new[q] = rows[q]
      /\ DOMAIN rest = DOMAIN rows \ {p}
      /\ \A q \in DOMAIN rest : rest[q] = rows[q]
  BY DEF Put, Entry, Remove, Restrict
<1> HIDE DEF new, rest
<1>2. p[2] \in Accounts
  OBVIOUS
<1>3. IsPositions(new) /\ IsPositions(rest)
  BY <1>1 DEF IsPositions
<1>4. /\ LockedIn(rest, p[2]) = LockedIn(rows, p[2]) - old
      /\ \A who \in Accounts \ {p[2]} : LockedIn(rest, who) = LockedIn(rows, who)
  <2>1. CASE p \in DOMAIN rows
    BY <1>1, <1>3, <2>1, LockedGone
  <2>2. CASE p \notin DOMAIN rows
    <3>1. DOMAIN rest = DOMAIN rows
      BY <1>1, <2>2
    <3>2. \A who \in Accounts : LockedIn(rest, who) = LockedIn(rows, who)
      BY <1>1, <1>3, <3>1, LockedAgree
    <3>3. LockedIn(rows, p[2]) \in Nat
      BY <1>2, LockedType
    <3> QED
      BY <1>2, <2>2, <3>2, <3>3
  <2> QED
    BY <2>1, <2>2
<1>5. /\ LockedIn(rest, p[2]) = LockedIn(new, p[2]) - new[p].locked
      /\ \A who \in Accounts \ {p[2]} : LockedIn(rest, who) = LockedIn(new, who)
  <2>1. p \in DOMAIN new /\ DOMAIN rest = DOMAIN new \ {p}
        /\ \A q \in DOMAIN rest : rest[q].locked = new[q].locked
    BY <1>1
  <2> QED
    BY <1>3, <2>1, LockedGone
<1>6. /\ LockedIn(rows, p[2]) \in Nat /\ LockedIn(new, p[2]) \in Nat
      /\ LockedIn(rest, p[2]) \in Nat
  BY <1>2, <1>3, LockedType
<1>7. old \in Nat
  BY DEF IsPositions
<1> HIDE DEF old
<1>8. LockedIn(new, p[2]) = LockedIn(rows, p[2]) - old + row.locked
  BY <1>1, <1>4, <1>5, <1>6, <1>7
<1>9. \A who \in Accounts \ {p[2]} : LockedIn(new, who) = LockedIn(rows, who)
  BY <1>4, <1>5
<1> QED
  BY <1>3, <1>8, <1>9 DEF new, old

(***************************************************************************)
(* Margin: the gain of a part of a position.                               *)
(***************************************************************************)
\* Rounding toward zero keeps the order on each side of zero.
LEMMA TruncMono ==
  ASSUME NEW a \in Int, NEW b \in Int, NEW n \in Nat \ {0}
  PROVE  /\ 0 <= a /\ a <= b => 0 <= TruncDiv(a, n) /\ TruncDiv(a, n) <= TruncDiv(b, n)
         /\ b <= a /\ a <= 0 => TruncDiv(b, n) <= TruncDiv(a, n) /\ TruncDiv(a, n) <= 0
<1>1. ASSUME 0 <= a, a <= b
      PROVE  0 <= TruncDiv(a, n) /\ TruncDiv(a, n) <= TruncDiv(b, n)
  <2>1. a \in Nat /\ b \in Nat /\ TruncDiv(a, n) = a \div n /\ TruncDiv(b, n) = b \div n
    BY <1>1 DEF TruncDiv
  <2>2. a \div n \in Nat /\ a \div n <= b \div n
    BY <1>1, <2>1, DivType, DivMono
  <2> QED
    BY <2>1, <2>2
<1>2. ASSUME b <= a, a <= 0
      PROVE  TruncDiv(b, n) <= TruncDiv(a, n) /\ TruncDiv(a, n) <= 0
  <2>1. -a \in Nat /\ -b \in Nat /\ -a <= -b
    BY <1>2
  <2>2. (-a) \div n \in Nat /\ (-b) \div n \in Nat /\ (-a) \div n <= (-b) \div n
    BY <2>1, DivType, DivMono
  <2>3. \A x \in Int : x <= 0 => TruncDiv(x, n) = -((-x) \div n)
    <3> SUFFICES ASSUME NEW x \in Int, x <= 0 PROVE TruncDiv(x, n) = -((-x) \div n)
      OBVIOUS
    <3>1. CASE x = 0
      <4>1. 0 \div n = 0
        OBVIOUS
      <4> QED
        BY <3>1, <4>1 DEF TruncDiv
    <3>2. CASE x # 0
      BY <3>2 DEF TruncDiv
    <3> QED
      BY <3>1, <3>2
  <2>4. TruncDiv(a, n) = -((-a) \div n) /\ TruncDiv(b, n) = -((-b) \div n)
    BY <1>2, <2>3
  <2> QED
    BY <2>2, <2>4
<1> QED
  BY <1>1, <1>2

\* The gain of a part is within the gain or the loss of the whole.
LEMMA PartialPnl ==
  ASSUME NEW mark \in Nat, NEW entry \in Nat, NEW size \in Int, NEW closed \in Nat,
         closed <= Abs(size)
  PROVE  LET part == RealizedPnl(mark, entry, IF size >= 0 THEN closed ELSE -closed)
             all == RealizedPnl(mark, entry, size)
         IN  part \in Int /\ all \in Int /\ ((0 <= part /\ part <= all) \/ (all <= part /\ part <= 0))
<1> DEFINE x == mark - entry
           signed == IF size >= 0 THEN closed ELSE -closed
           part == RealizedPnl(mark, entry, signed)
           all == RealizedPnl(mark, entry, size)
<1>1. x \in Int /\ signed \in Int /\ signed * x \in Int /\ size * x \in Int
  BY TimesType
<1>2. \/ 0 <= signed * x /\ signed * x <= size * x
      \/ size * x <= signed * x /\ signed * x <= 0
  <2> HIDE DEF x
  <2>1. CASE size >= 0
    <3>1. size \in Nat /\ closed <= size /\ signed = closed
      BY <2>1 DEF Abs
    <3>2. CASE x >= 0
      BY <1>1, <3>1, <3>2, TimesMono, TimesType
    <3>3. CASE x < 0
      <4>1. -x \in Nat
        BY <1>1, <3>3
      <4>2. closed * (-x) <= size * (-x) /\ closed * (-x) \in Nat
        BY <3>1, <4>1, TimesMono, TimesType
      <4>3. closed * (-x) = -(closed * x) /\ size * (-x) = -(size * x)
        BY <1>1, <3>1
      <4> QED
        BY <1>1, <3>1, <4>2, <4>3
    <3> QED
      BY <1>1, <3>2, <3>3
  <2>2. CASE size < 0
    <3>1. -size \in Nat /\ closed <= -size /\ signed = -closed
      BY <2>2 DEF Abs
    <3>2. CASE x >= 0
      <4>1. closed * x <= (-size) * x /\ closed * x \in Nat
        BY <1>1, <3>1, <3>2, TimesMono, TimesType
      <4>2. signed * x = -(closed * x) /\ (-size) * x = -(size * x)
        BY <1>1, <3>1
      <4> QED
        BY <1>1, <4>1, <4>2
    <3>3. CASE x < 0
      <4>1. -x \in Nat
        BY <1>1, <3>3
      <4>2. closed * (-x) <= (-size) * (-x) /\ closed * (-x) \in Nat
        BY <3>1, <4>1, TimesMono, TimesType
      <4>3. closed * (-x) = signed * x /\ (-size) * (-x) = size * x
        BY <1>1, <3>1
      <4> QED
        BY <1>1, <4>2, <4>3
    <3> QED
      BY <1>1, <3>2, <3>3
  <2> QED
    BY <2>1, <2>2
<1>3. part = TruncDiv(signed * x, SizeScale) /\ all = TruncDiv(size * x, SizeScale)
  BY DEF RealizedPnl
<1> HIDE DEF x, signed, part, all
<1>4. part \in Int /\ all \in Int
  BY <1>1, <1>3, TruncDivType, Scales
<1>5. (0 <= part /\ part <= all) \/ (all <= part /\ part <= 0)
  BY <1>1, <1>2, <1>3, TruncMono, Scales
<1> QED
  BY <1>4, <1>5 DEF part, all, signed

\* A close releases no more than is locked.
LEMMA ReleasedBound ==
  ASSUME NEW position \in Position, NEW closed \in 0 .. Abs(position.size)
  PROVE  Released(position, closed) \in 0 .. position.locked
<1>1. position.locked \in Nat /\ Abs(position.size) \in Nat
  BY AbsType DEF Position
<1>2. Released(position, closed) \in Nat
  BY ReleasedType
<1>3. CASE closed = Abs(position.size)
  BY <1>1, <1>3 DEF Released
<1>4. CASE closed # Abs(position.size)
  <2>1. Abs(position.size) \in Nat \ {0} /\ closed \in Nat /\ closed <= Abs(position.size)
    BY <1>1, <1>4
  <2>2. closed * position.locked <= Abs(position.size) * position.locked
    BY <1>1, <2>1, TimesMono
  <2>3. position.locked * closed <= position.locked * Abs(position.size)
        /\ position.locked * closed \in Nat
    BY <1>1, <2>1, <2>2, TimesType
  <2>4. (position.locked * closed) \div Abs(position.size) <= position.locked
    BY <1>1, <2>1, <2>3, DivBelow
  <2> QED
    BY <1>1, <1>2, <1>4, <2>4 DEF Released
<1> QED
  BY <1>3, <1>4

(***************************************************************************)
(* Margin: what one step may do to it.                                     *)
(***************************************************************************)
\* No code writes the funding index, so every position has settled at zero.
FundingSettled == \A p \in DOMAIN positions : positions[p].fundingAtOpen = 0

\* The bounds of MarginIsAccountedFor, one operator each.
Gains(who) == Max(UnrealizedOf(who) \cup {0})

Losses(who) == Min(UnrealizedOf(who) \cup {0})

FeesOf(who) ==
  {LiquidationFee(p[1], positions[p]) : p \in {q \in DOMAIN positions : q[2] = who}}

Fees(who) == Max(FeesOf(who) \cup {0})

PaidIn(who) == Larger(0, motra[who] - motra'[who]) * LiveRate

TakenOut(who) == Larger(0, motra'[who] - motra[who])

Accounted(who) ==
  /\ TotalMargin(who)' <= TotalMargin(who) + Gains(who) + PaidIn(who)
  /\ positions' # positions =>
       TotalMargin(who)' >= TotalMargin(who) + Losses(who)
                              - (IF pot' < pot THEN Fees(who) ELSE 0)
  /\ positions' = positions =>
       \/ TotalMargin(who)' >= TotalMargin(who)
       \/ TotalMargin(who)' > TotalMargin(who)
                                 - (TakenOut(who) + 1) * PayoutRate(margin[who])

\* The bound of GainsArePaidAtLiveRate.
GainPaid(who) ==
  LET gain == Larger(0, TotalMargin(who)' - TotalMargin(who))
      rate == margin[who].rate
  IN gain > 0 /\ pot' <= pot /\ rate # 0 /\ FreshPrice(MatraFeed) =>
       TotalMargin(who)' * rate * LiveRate <=
         (margin[who].rate' + 1)
           * (TotalMargin(who) * LiveRate + gain * rate)

\* A finite set of integers with zero has a largest and a smallest member.
LEMMA ExtremesOf ==
  ASSUME NEW S \in SUBSET Int, IsFiniteSet(S)
  PROVE  /\ Max(S \cup {0}) \in Int /\ Max(S \cup {0}) >= 0 /\ \A x \in S : x <= Max(S \cup {0})
         /\ Min(S \cup {0}) \in Int /\ Min(S \cup {0}) <= 0 /\ \A x \in S : Min(S \cup {0}) <= x
<1> DEFINE T == S \cup {0}
<1>1. T \in SUBSET Int /\ T # {} /\ IsFiniteSet(T)
  BY FS_AddElement
<1> HIDE DEF T
<1>2. PICK top \in T : \A y \in T : y <= top
  BY <1>1, GreatestInteger
<1>3. PICK low \in T : \A y \in T : y >= low
  BY <1>1, LeastInteger
<1>4. \E x \in T : \A y \in T : x >= y
  BY <1>1, <1>2
<1>5. Max(T) \in T /\ \A y \in T : Max(T) >= y
  BY <1>4, Zenon DEF Max
<1>6. \E x \in T : \A y \in T : x <= y
  BY <1>1, <1>3
<1>7. Min(T) \in T /\ \A y \in T : Min(T) <= y
  BY <1>6, Zenon DEF Min
<1> QED
  BY <1>1, <1>5, <1>7 DEF T

\* The gain of a position is within the bounds of its owner, and so is its fee.
LEMMA BoundsHold ==
  ASSUME PerpTypeOK, NEW who \in Accounts
  PROVE  /\ Gains(who) \in Int /\ Gains(who) >= 0
         /\ Losses(who) \in Int /\ Losses(who) <= 0
         /\ Fees(who) \in Int /\ Fees(who) >= 0
         /\ \A p \in DOMAIN positions : p[2] = who =>
              /\ Losses(who) <= UnrealizedPnl(p[1], positions[p])
              /\ UnrealizedPnl(p[1], positions[p]) <= Gains(who)
              /\ LiquidationFee(p[1], positions[p]) <= Fees(who)
<1> DEFINE own == {p \in DOMAIN positions : p[2] = who}
           f == [p \in own |-> UnrealizedPnl(p[1], positions[p])]
           g == [p \in own |-> LiquidationFee(p[1], positions[p])]
<1>1. IsFiniteSet(own)
  BY PositionsAreRows, OwnIsFinite
<1>2. \A p \in own : f[p] \in Int /\ g[p] \in Int
  <2> SUFFICES ASSUME NEW p \in own PROVE f[p] \in Int /\ g[p] \in Int
    OBVIOUS
  <2>1. UnrealizedPnl(p[1], positions[p]) \in Int /\ LiquidationFee(p[1], positions[p]) \in Nat
    BY LiquidationReads
  <2> QED
    BY <2>1
<1>3. UnrealizedOf(who) = {f[p] : p \in DOMAIN f} /\ FeesOf(who) = {g[p] : p \in DOMAIN g}
  BY DEF UnrealizedOf, FeesOf
<1>4. IsFiniteSet(UnrealizedOf(who)) /\ IsFiniteSet(FeesOf(who))
  <2>1. IsFiniteSet(DOMAIN f) /\ f = [p \in DOMAIN f |-> f[p]]
        /\ IsFiniteSet(DOMAIN g) /\ g = [p \in DOMAIN g |-> g[p]]
    BY <1>1
  <2> HIDE DEF f, g
  <2> QED
    BY <1>3, <2>1, ImageIsFinite
<1>5. UnrealizedOf(who) \in SUBSET Int /\ FeesOf(who) \in SUBSET Int
  BY <1>2, <1>3
<1>6. \A p \in own : /\ UnrealizedPnl(p[1], positions[p]) \in UnrealizedOf(who)
                     /\ LiquidationFee(p[1], positions[p]) \in FeesOf(who)
  BY DEF UnrealizedOf, FeesOf
<1> HIDE DEF f, g
<1>7. /\ Gains(who) \in Int /\ Gains(who) >= 0
      /\ Losses(who) \in Int /\ Losses(who) <= 0
      /\ \A x \in UnrealizedOf(who) : Losses(who) <= x /\ x <= Gains(who)
  BY <1>4, <1>5, ExtremesOf DEF Gains, Losses
<1>8. Fees(who) \in Int /\ Fees(who) >= 0 /\ \A x \in FeesOf(who) : x <= Fees(who)
  BY <1>4, <1>5, ExtremesOf DEF Fees
<1> QED
  BY <1>6, <1>7, <1>8

\* The margin of an account, before and after a step.
LEMMA TotalReads ==
  ASSUME PerpTypeOK, PerpTypeOK', NEW who \in Accounts
  PROVE  /\ TotalMargin(who) = margin[who].free + LockedIn(positions, who)
         /\ TotalMargin(who)' = margin'[who].free + LockedIn(positions', who)
         /\ margin[who].free \in Nat /\ margin'[who].free \in Nat
         /\ IsPositions(positions) /\ IsPositions(positions')
         /\ LockedIn(positions, who) \in Nat /\ LockedIn(positions', who) \in Nat
         /\ TotalMargin(who) \in Nat /\ TotalMargin(who)' \in Nat
         /\ motra[who] \in Nat /\ motra'[who] \in Nat
         /\ pot \in Nat /\ pot' \in Nat /\ LiveRate \in Nat
<1>1. IsPositions(positions) /\ Locked(who) = LockedIn(positions, who)
  BY PositionsAreRows
<1>2. IsPositions(positions')
  <2>1. DOMAIN positions' \subseteq MarketIds \X Accounts
    BY DEF PerpTypeOK, IsMap
  <2>2. \A p \in DOMAIN positions' : positions'[p].locked \in Nat
    BY DEF PerpTypeOK, Position
  <2> QED
    BY <2>1, <2>2 DEF IsPositions
<1>3. Locked(who)' = LockedIn(positions', who)
  BY Zenon DEF Locked, LockedIn
<1>4. margin[who].free \in Nat /\ margin'[who].free \in Nat
  BY DEF PerpTypeOK, MarginAccount
<1>5. LockedIn(positions, who) \in Nat /\ LockedIn(positions', who) \in Nat
  BY <1>1, <1>2, LockedType
<1>6. /\ motra[who] \in Nat /\ motra'[who] \in Nat /\ pot \in Nat /\ pot' \in Nat
      /\ LiveRate \in Nat
  BY PriceReads DEF PerpTypeOK
<1> QED
  BY <1>1, <1>2, <1>3, <1>4, <1>5, <1>6 DEF TotalMargin

\* A move of an account's margin that is within the bounds.
LEMMA MoveIsAccounted ==
  ASSUME PerpTypeOK, PerpTypeOK', NEW who \in Accounts, NEW d \in Int,
         TotalMargin(who)' = TotalMargin(who) + d,
         d <= Gains(who) + PaidIn(who), Losses(who) <= d, d >= 0 \/ positions' # positions
  PROVE  Accounted(who)
<1>1. TotalMargin(who) \in Nat /\ TotalMargin(who)' \in Nat
      /\ LiveRate \in Nat /\ motra[who] \in Nat /\ motra'[who] \in Nat
  BY TotalReads
<1>2. /\ Gains(who) \in Int /\ Losses(who) \in Int /\ Fees(who) \in Int /\ Fees(who) >= 0
  BY BoundsHold
<1>3. PaidIn(who) \in Nat
  <2>1. Larger(0, motra[who] - motra'[who]) \in Nat
    BY <1>1 DEF Larger
  <2> QED
    BY <1>1, <2>1, TimesType DEF PaidIn
<1> HIDE DEF Gains, Losses, Fees, PaidIn, TotalMargin
<1>4. (IF pot' < pot THEN Fees(who) ELSE 0) \in Int
      /\ (IF pot' < pot THEN Fees(who) ELSE 0) >= 0
  BY <1>2
<1> QED
  BY <1>1, <1>2, <1>3, <1>4 DEF Accounted

\* An account without a gain, or with one that is paid in.
LEMMA NoGain ==
  ASSUME PerpTypeOK, PerpTypeOK', NEW who \in Accounts,
         TotalMargin(who)' <= TotalMargin(who) \/ pot' > pot
  PROVE  GainPaid(who)
<1>1. /\ TotalMargin(who) \in Nat /\ TotalMargin(who)' \in Nat /\ pot \in Nat /\ pot' \in Nat
  BY TotalReads
<1> DEFINE gain == Larger(0, TotalMargin(who)' - TotalMargin(who))
<1>2. ~ (gain > 0 /\ pot' <= pot)
  <2> HIDE DEF TotalMargin
  <2> QED
    BY <1>1 DEF Larger
<1> QED
  BY <1>2, Zenon DEF GainPaid

\* An account whose margin stays as it is.
LEMMA SteadyIsAccounted ==
  ASSUME PerpTypeOK, PerpTypeOK', NEW who \in Accounts, TotalMargin(who)' = TotalMargin(who)
  PROVE  Accounted(who) /\ GainPaid(who)
<1>1. TotalMargin(who) \in Nat /\ TotalMargin(who)' = TotalMargin(who) + 0
      /\ LiveRate \in Nat /\ motra[who] \in Nat /\ motra'[who] \in Nat
  BY TotalReads
<1>2. Gains(who) \in Int /\ Gains(who) >= 0 /\ Losses(who) \in Int /\ Losses(who) <= 0
  BY BoundsHold
<1>3. PaidIn(who) \in Nat
  <2>1. Larger(0, motra[who] - motra'[who]) \in Nat
    BY <1>1 DEF Larger
  <2> QED
    BY <1>1, <2>1, TimesType DEF PaidIn
<1>4. 0 <= Gains(who) + PaidIn(who)
  BY <1>2, <1>3
<1>5. Accounted(who)
  BY <1>1, <1>2, <1>4, MoveIsAccounted
<1>6. GainPaid(who)
  <2>1. TotalMargin(who)' <= TotalMargin(who)
    BY <1>1
  <2> QED
    BY <2>1, NoGain
<1> QED
  BY <1>5, <1>6

\* A step that leaves margins and positions.
LEMMA IdleIsAccounted ==
  ASSUME PerpTypeOK, PerpTypeOK', UNCHANGED <<margin, positions>>, NEW who \in Accounts
  PROVE  Accounted(who) /\ GainPaid(who)
<1>1. TotalMargin(who)' = TotalMargin(who)
  BY TotalReads
<1> QED
  BY <1>1, SteadyIsAccounted

\* An account with f at rate r gains g at rate l, and its rate becomes R, the
\* average or more: what it claims, over R, is worth no more than before and
\* the gain at rate l.  The rest of its margin T is locked.
LEMMA AverageRate ==
  ASSUME NEW f \in Nat, NEW g \in Nat \ {0}, NEW r \in Nat, NEW l \in Nat, NEW R \in Nat,
         NEW T \in Nat, f <= T, r <= R, f * r + g * l <= R * (f + g)
  PROVE  (T + g) * r * l <= R * (T * l + g * r)
<1> DEFINE t == T - f
           k == f * l + g * r
<1>1. t \in Nat /\ T = f + t /\ R - r \in Nat /\ f + g \in Nat \ {0}
  OBVIOUS
<1> HIDE DEF t
<1>2. f * l \in Nat /\ g * r \in Nat /\ f * r \in Nat /\ g * l \in Nat /\ k \in Nat
  BY TimesType
<1>3. (f * r + g * l) * k <= (R * (f + g)) * k
  <2> HIDE DEF k
  <2>1. f * r + g * l \in Nat /\ R * (f + g) \in Nat
    BY <1>1, <1>2, TimesType
  <2> QED
    BY <1>2, <2>1, TimesMono
<1>4. (f * r + g * l) * k = (f + g) * (f + g) * (r * l) + (f * g) * ((r - l) * (r - l))
  OBVIOUS
<1>5. (f * g) * ((r - l) * (r - l)) >= 0
  <2>1. (r - l) * (r - l) \in Nat
    <3>1. \A x \in Int : x * x \in Nat
      OBVIOUS
    <3> QED
      BY <3>1
  <2> QED
    BY <2>1, TimesType
<1>6. (f + g) * (f + g) * (r * l) <= (R * (f + g)) * k
  BY <1>1, <1>2, <1>3, <1>4, <1>5, TimesType
<1>7. (f + g) * (r * l) <= R * k
  <2>1. r * l \in Nat /\ R * k \in Nat /\ (f + g) * (r * l) \in Nat
    BY <1>1, <1>2, TimesType
  <2> HIDE DEF k
  <2>2. (f + g) * (f + g) * (r * l) = (f + g) * ((f + g) * (r * l))
        /\ (R * (f + g)) * k = (f + g) * (R * k)
    BY <1>1, <1>2
  <2>3. (f + g) * ((f + g) * (r * l)) <= (f + g) * (R * k)
    BY <1>6, <2>2
  <2>4. \A n \in Nat \ {0}, x, y \in Nat : n * x <= n * y => x <= y
    OBVIOUS
  <2> QED
    BY <1>1, <2>1, <2>3, <2>4
<1>8. t * (r * l) <= R * (t * l)
  <2>1. t * l \in Nat
    BY <1>1, TimesType
  <2>2. r * (t * l) <= R * (t * l)
    BY <2>1, TimesMono
  <2> QED
    BY <1>1, <2>2
<1>9. (T + g) * r * l = (f + g) * (r * l) + t * (r * l)
  BY <1>1
<1>10. R * (T * l + g * r) = R * k + R * (t * l)
  BY <1>1
<1>11. /\ (f + g) * (r * l) \in Nat /\ t * (r * l) \in Nat
       /\ R * k \in Nat /\ R * (t * l) \in Nat
  <2>1. r * l \in Nat /\ t * l \in Nat
    BY <1>1, TimesType
  <2> HIDE DEF k
  <2> QED
    BY <1>1, <1>2, <2>1, TimesType
<1> HIDE DEF k
<1> QED
  BY <1>7, <1>8, <1>9, <1>10, <1>11

\* Credited at a lower rate than the account's, the same holds: its rate stays.
LEMMA LowerRate ==
  ASSUME NEW g \in Nat, NEW r \in Nat, NEW l \in Nat, NEW R \in Nat,
         NEW T \in Nat, l <= R, r <= R
  PROVE  (T + g) * r * l <= R * (T * l + g * r)
<1>1. T * l \in Nat /\ g * r \in Nat
  BY TimesType
<1>2. r * (T * l) <= R * (T * l) /\ l * (g * r) <= R * (g * r)
  BY <1>1, TimesMono
<1>3. (T + g) * r * l = r * (T * l) + l * (g * r)
  OBVIOUS
<1>4. R * (T * l + g * r) = R * (T * l) + R * (g * r)
  OBVIOUS
<1>5. /\ r * (T * l) \in Nat /\ R * (T * l) \in Nat
      /\ l * (g * r) \in Nat /\ R * (g * r) \in Nat
  BY <1>1, TimesType
<1> QED
  BY <1>2, <1>3, <1>4, <1>5

\* The rate that a gain leaves, and one, is above the average over the free
\* margin, and not below what it was.
LEMMA RaisedIsAverage ==
  ASSUME PerpTypeOK, NEW rate \in Nat \ {0}, NEW kept \in Nat, NEW credit \in Nat \ {0},
         FreshPrice(MatraFeed)
  PROVE  /\ RaisedRate(rate, kept + credit, credit) >= rate
         /\ kept * rate + credit * LiveRate
              <= (RaisedRate(rate, kept + credit, credit) + 1) * (kept + credit)
<1> DEFINE sum == kept * rate + credit * LiveRate
           free == kept + credit
           raised == RaisedRate(rate, free, credit)
<1>1. LiveRate \in Nat
  BY PriceReads
<1>2. free \in Nat \ {0} /\ Larger(0, free - credit) = kept
  BY DEF Larger
<1>3. sum \in Nat
  <2>1. kept * rate \in Nat /\ credit * LiveRate \in Nat
    BY <1>1, TimesType
  <2> QED
    BY <2>1
<1>4. raised = Larger(rate, sum \div free)
  <2>1. free > 0
    BY <1>2
  <2>2. raised = Larger(rate, (Larger(0, free - credit) * rate + credit * LiveRate) \div free)
    <3> HIDE DEF free
    <3> QED
      BY <2>1 DEF RaisedRate
  <2> QED
    BY <1>2, <2>2
<1> HIDE DEF sum, free
<1>5. sum \div free \in Nat /\ sum < (sum \div free + 1) * free
  BY <1>2, <1>3, DivType, DivRest
<1> HIDE DEF raised
<1>6. raised \in Nat /\ raised >= rate /\ sum \div free <= raised
  BY <1>4, <1>5 DEF Larger
<1>7. (sum \div free + 1) * free <= (raised + 1) * free
  BY <1>2, <1>5, <1>6, TimesMono
<1>8. (sum \div free + 1) * free \in Nat /\ (raised + 1) * free \in Nat
  BY <1>2, <1>5, <1>6, TimesType
<1>9. sum <= (raised + 1) * free
  BY <1>3, <1>5, <1>7, <1>8
<1> QED
  BY <1>6, <1>9 DEF sum, free, raised

\* A gain of credit, of which a fee is taken out of the margin again.
LEMMA GainIsPaid ==
  ASSUME PerpTypeOK, PerpTypeOK', NEW who \in Accounts,
         NEW kept \in Nat, NEW credit \in Nat, NEW fee \in Nat, credit > fee,
         TotalMargin(who)' = TotalMargin(who) + (credit - fee),
         kept + fee <= TotalMargin(who),
         margin'[who].rate = RaisedRate(margin[who].rate, kept + credit, credit)
  PROVE  GainPaid(who)
<1> DEFINE T == TotalMargin(who)
           g == credit - fee
           r == margin[who].rate
           R == margin'[who].rate + 1
<1>1. /\ T \in Nat /\ TotalMargin(who)' \in Nat /\ pot \in Nat /\ pot' \in Nat
      /\ LiveRate \in Nat
  BY TotalReads
<1>2. r \in Nat
  BY DEF PerpTypeOK, MarginAccount
<1>3. g \in Nat \ {0} /\ credit \in Nat \ {0}
  OBVIOUS
<1> HIDE DEF T
<1>4. Larger(0, TotalMargin(who)' - TotalMargin(who)) = g
  BY <1>1, <1>3 DEF Larger, T
<1> SUFFICES ASSUME r # 0, FreshPrice(MatraFeed)
             PROVE  (T + g) * r * LiveRate <= R * (T * LiveRate + g * r)
  <2>1. TotalMargin(who)' = T + g
    BY DEF T
  <2> HIDE DEF g
  <2> QED
    BY <1>4, <2>1, Zenon DEF GainPaid, T
<1>5. /\ R - 1 >= r
      /\ kept * r + credit * LiveRate <= R * (kept + credit)
  <2>1. margin'[who].rate = RaisedRate(r, kept + credit, credit)
    OBVIOUS
  <2> HIDE DEF r
  <2>2. RaisedRate(r, kept + credit, credit) \in Nat
    <3>1. kept + credit \in Nat
      OBVIOUS
    <3> QED
      BY <1>2, <3>1, RaisedRateType, Zenon
  <2>3. r \in Nat \ {0}
    BY <1>2
  <2>4. /\ RaisedRate(r, kept + credit, credit) >= r
        /\ kept * r + credit * LiveRate
              <= (RaisedRate(r, kept + credit, credit) + 1) * (kept + credit)
    BY <1>3, <2>3, RaisedIsAverage
  <2> QED
    BY <1>2, <2>1, <2>2, <2>4
<1>6. R \in Nat /\ r <= R
  BY <1>2, <1>5 DEF PerpTypeOK, MarginAccount
<1> HIDE DEF r, R
<1>7. CASE LiveRate < r
  <2>1. LiveRate <= R
    BY <1>1, <1>2, <1>6, <1>7
  <2> HIDE DEF g
  <2> QED
    BY <1>1, <1>2, <1>3, <1>6, <2>1, LowerRate
<1>8. CASE LiveRate >= r
  <2> DEFINE f == kept + fee
  <2>1. f \in Nat /\ f <= T /\ f + g = kept + credit
    BY <1>1 DEF T
  <2>2. f * r + g * LiveRate = (kept * r + credit * LiveRate) - (fee * LiveRate - fee * r)
    BY <1>1, <1>2
  <2>3. fee * r <= fee * LiveRate
    <3>1. r * fee <= LiveRate * fee
      BY <1>1, <1>2, <1>8, TimesMono
    <3> QED
      BY <1>1, <1>2, <3>1
  <2>4. /\ kept * r \in Nat /\ credit * LiveRate \in Nat /\ fee * r \in Nat
        /\ fee * LiveRate \in Nat /\ R * (kept + credit) \in Nat
    BY <1>1, <1>2, <1>6, TimesType
  <2>5. f * r + g * LiveRate <= R * (kept + credit)
    <3> HIDE DEF f, g
    <3> QED
      BY <1>5, <2>2, <2>3, <2>4
  <2>6. f * r + g * LiveRate <= R * (f + g)
    BY <2>1, <2>5
  <2> HIDE DEF f, g
  <2> QED
    BY <1>1, <1>2, <1>3, <1>6, <2>1, <2>6, AverageRate
<1> QED
  BY <1>1, <1>2, <1>7, <1>8

\* A deposit credits what it paid in at the live rate.
LEMMA DepositIsAccounted ==
  ASSUME PerpTypeOK, PerpTypeOK', NEW who \in Accounts, NEW amount \in Nat,
         DepositMargin(who, amount), NEW w \in Accounts
  PROVE  Accounted(w) /\ GainPaid(w)
<1>1. /\ positions' = positions /\ motra[who] >= amount
      /\ motra' = [motra EXCEPT ![who] = motra[who] - amount]
      /\ margin' = [margin EXCEPT ![who] = Deposited(margin[who], amount * LiveRate)]
  BY DEF DepositMargin, CanDeposit
<1>2. margin \in [Accounts -> MarginAccount] /\ motra \in [Accounts -> Nat]
  BY DEF PerpTypeOK
<1>3. CASE w # who
  <2>1. margin'[w] = margin[w]
    BY <1>1, <1>2, <1>3
  <2> QED
    BY <1>1, <2>1, TotalReads, SteadyIsAccounted
<1>4. CASE w = who
  <2>1. margin'[who].free = margin[who].free + amount * LiveRate
    BY <1>1, <1>2 DEF Deposited
  <2>2. motra'[who] = motra[who] - amount
    BY <1>1, <1>2
  <2>3. PaidIn(who) = amount * LiveRate
    <3>1. Larger(0, motra[who] - motra'[who]) = amount
      BY <1>1, <1>2, <2>2 DEF Larger
    <3> QED
      BY <3>1 DEF PaidIn
  <2>4. amount * LiveRate \in Nat
    BY TotalReads, TimesType
  <2>5. TotalMargin(who)' = TotalMargin(who) + amount * LiveRate
    BY <1>1, <2>1, <2>4, TotalReads
  <2>6. /\ Gains(who) \in Int /\ Gains(who) >= 0 /\ Losses(who) \in Int /\ Losses(who) <= 0
    BY BoundsHold
  <2> HIDE DEF TotalMargin, Gains, Losses, PaidIn
  <2>7. /\ amount * LiveRate \in Int /\ amount * LiveRate >= 0
        /\ amount * LiveRate <= Gains(who) + PaidIn(who) /\ Losses(who) <= amount * LiveRate
    BY <2>3, <2>4, <2>6
  <2>8. GainPaid(who)
    <3>1. amount > 0 /\ pot' = pot + amount /\ pot \in Nat
      BY TotalReads DEF DepositMargin
    <3>2. pot' > pot
      BY <3>1
    <3> QED
      BY <3>2, NoGain
  <2> QED
    BY <1>4, <2>5, <2>7, <2>8, MoveIsAccounted
<1> QED
  BY <1>3, <1>4

\* A withdrawal takes less than a unit of MOTRA more than it pays.
LEMMA WithdrawalIsAccounted ==
  ASSUME PerpTypeOK, PerpTypeOK', NEW who \in Accounts, NEW amount \in Nat,
         WithdrawMargin(who, amount), NEW w \in Accounts
  PROVE  Accounted(w) /\ GainPaid(w)
<1> DEFINE rate == PayoutRate(margin[who])
           paid == amount \div rate
           row == [margin[who] EXCEPT
             !.free = margin[who].free - amount,
             !.rate = IF margin[who].free - amount = 0 THEN 0 ELSE margin[who].rate]
<1>1. /\ positions' = positions
      /\ motra' = [motra EXCEPT ![who] = motra[who] + paid]
      /\ margin' = [margin EXCEPT ![who] = row]
  BY DEF WithdrawMargin
<1>2. margin \in [Accounts -> MarginAccount] /\ motra \in [Accounts -> Nat]
      /\ margin[who] \in MarginAccount
  BY DEF PerpTypeOK
<1>3. row.free = margin[who].free - amount
  BY <1>2 DEF MarginAccount
<1> HIDE DEF row
<1>4. CASE w # who
  <2>1. margin'[w] = margin[w]
    BY <1>1, <1>2, <1>4
  <2> QED
    BY <1>1, <2>1, TotalReads, SteadyIsAccounted
<1>5. CASE w = who
  <2>1. rate \in Nat \ {0}
    <3>1. /\ LiveRate \in Nat /\ (FreshPrice(MatraFeed) => LiveRate > 0)
          /\ margin[who].rate \in Nat
      BY <1>2, PriceReads DEF MarginAccount
    <3> QED
      BY <3>1 DEF PayoutRate, HasPayoutRate, WithdrawMargin
  <2> HIDE DEF rate
  <2>2. paid \in Nat /\ amount < (paid + 1) * rate
    BY <2>1, DivType, DivRest
  <2> HIDE DEF paid
  <2>3. motra'[who] = motra[who] + paid /\ margin'[who].free = margin[who].free - amount
    BY <1>1, <1>2, <1>3
  <2>4. TakenOut(who) = paid
    BY <1>2, <2>2, <2>3 DEF TakenOut, Larger
  <2>5. TotalMargin(who)' = TotalMargin(who) - amount /\ TotalMargin(who) \in Nat
        /\ TotalMargin(who)' \in Nat
    BY <1>1, <2>3, TotalReads
  <2>6. PaidIn(who) = 0
    <3>1. Larger(0, motra[who] - motra'[who]) = 0
      BY <1>2, <2>2, <2>3 DEF Larger
    <3> QED
      BY <3>1, TotalReads DEF PaidIn
  <2>7. Gains(who) \in Int /\ Gains(who) >= 0
    BY BoundsHold
  <2>8. (paid + 1) * rate \in Nat
    BY <2>1, <2>2, TimesType
  <2> HIDE DEF TotalMargin, Gains, Losses, PaidIn, TakenOut
  <2>9. TotalMargin(who)' <= TotalMargin(who) + Gains(who) + PaidIn(who)
    BY <2>5, <2>6, <2>7
  <2>10. TotalMargin(who)' > TotalMargin(who) - (TakenOut(who) + 1) * PayoutRate(margin[who])
    BY <2>2, <2>4, <2>5, <2>8 DEF rate
  <2>11. GainPaid(who)
    <3>1. TotalMargin(who)' <= TotalMargin(who)
      BY <2>5
    <3> QED
      BY <3>1, NoGain
  <2> QED
    BY <1>1, <1>5, <2>9, <2>10, <2>11 DEF Accounted
<1> QED
  BY <1>4, <1>5

\* Opening a position moves margin from free to locked.
LEMMA OpeningIsAccounted ==
  ASSUME PerpTypeOK, PerpTypeOK', NEW who \in Accounts, NEW m \in MarketIds, NEW side \in {1, -1},
         NEW size \in Nat, NEW leverage \in Nat, NEW topUp \in Nat,
         OpenPosition(who, m, side, size, leverage, topUp), NEW w \in Accounts
  PROVE  Accounted(w) /\ GainPaid(w)
<1> DEFINE p == <<m, who>>
           required == InitialMargin(Notional(size, Mark(m)), leverage)
           account == IF topUp = 0 THEN margin[who]
                      ELSE Deposited(margin[who], topUp * LiveRate)
           row == [size |-> side * size, entry |-> Mark(m), locked |-> required,
                   leverage |-> leverage, fundingAtOpen |-> FundingIndex(m)]
<1>1. /\ p \notin DOMAIN positions
      /\ (topUp # 0 => motra[who] >= topUp)
      /\ motra' = [motra EXCEPT ![who] = motra[who] - topUp]
      /\ margin' = [margin EXCEPT ![who] = [account EXCEPT !.free = @ - required]]
      /\ positions' = Put(positions, Entry(p, row))
  BY DEF OpenPosition, CanDeposit
<1>2. margin \in [Accounts -> MarginAccount] /\ motra \in [Accounts -> Nat]
      /\ margin[who] \in MarginAccount
  BY DEF PerpTypeOK
<1>3. required \in Nat
  <2>1. leverage \in Nat \ {0} /\ Mark(m) \in Nat
    BY LeverageType, PriceReads DEF OpenPosition
  <2>2. Notional(size, Mark(m)) \in Nat
    BY <2>1, NotionalType
  <2> QED
    BY <2>1, <2>2, InitialMarginType
<1>4. topUp * LiveRate \in Nat
  BY TotalReads, TimesType
<1>5. account.free = margin[who].free + topUp * LiveRate /\ account \in MarginAccount
  <2>1. CASE topUp = 0
    <3>1. topUp * LiveRate = 0 /\ margin[who].free \in Nat
      BY <2>1, TotalReads
    <3> QED
      BY <1>2, <2>1, <3>1
  <2>2. CASE topUp # 0
    <3>1. Deposited(margin[who], topUp * LiveRate) \in MarginAccount
      BY <1>2, <1>4, DepositedType
    <3> QED
      BY <2>2, <3>1 DEF Deposited
  <2> QED
    BY <2>1, <2>2
<1>6. p \in MarketIds \X Accounts /\ p[2] = who /\ row.locked = required
  OBVIOUS
<1> HIDE DEF p, required, account, row
<1>7. /\ LockedIn(positions', who) = LockedIn(positions, who) - 0 + required
      /\ \A v \in Accounts \ {who} : LockedIn(positions', v) = LockedIn(positions, v)
  BY <1>1, <1>3, <1>6, PositionsAreRows, LockedPut
<1>8. CASE w # who
  <2>1. margin'[w] = margin[w]
    BY <1>1, <1>2, <1>8
  <2> QED
    BY <1>7, <1>8, <2>1, TotalReads, SteadyIsAccounted
<1>9. CASE w = who
  <2>1. margin'[who].free = margin[who].free + topUp * LiveRate - required
    <3>1. margin'[who] = [account EXCEPT !.free = account.free - required]
      BY <1>1, <1>2
    <3>2. margin'[who].free = account.free - required
      BY <1>5, <3>1 DEF MarginAccount
    <3>3. account.free \in Nat
      BY <1>5 DEF MarginAccount
    <3> QED
      BY <1>3, <1>4, <1>5, <3>2, <3>3, TotalReads
  <2>2. motra'[who] = motra[who] - topUp /\ motra[who] >= topUp
    BY <1>1, <1>2
  <2>3. PaidIn(who) = topUp * LiveRate
    <3>1. Larger(0, motra[who] - motra'[who]) = topUp
      BY <1>2, <2>2 DEF Larger
    <3> QED
      BY <3>1 DEF PaidIn
  <2>4. TotalMargin(who)' = TotalMargin(who) + topUp * LiveRate
    BY <1>3, <1>4, <1>7, <2>1, TotalReads
  <2>5. /\ Gains(who) \in Int /\ Gains(who) >= 0 /\ Losses(who) \in Int /\ Losses(who) <= 0
    BY BoundsHold
  <2> HIDE DEF TotalMargin, Gains, Losses, PaidIn
  <2>6. /\ topUp * LiveRate \in Int /\ topUp * LiveRate >= 0
        /\ topUp * LiveRate <= Gains(who) + PaidIn(who) /\ Losses(who) <= topUp * LiveRate
    BY <1>4, <2>3, <2>5
  <2>7. GainPaid(who)
    <3>1. pot' = pot + topUp /\ pot \in Nat /\ TotalMargin(who) \in Nat
      BY TotalReads DEF OpenPosition
    <3>2. CASE topUp = 0
      <4>1. topUp * LiveRate = 0
        BY <1>4, <3>2, TotalReads
      <4>2. TotalMargin(who)' <= TotalMargin(who)
        BY <2>4, <3>1, <4>1
      <4> QED
        BY <4>2, NoGain
    <3>3. CASE topUp # 0
      <4>1. pot' > pot
        BY <3>1, <3>3
      <4> QED
        BY <4>1, NoGain
    <3> QED
      BY <3>2, <3>3
  <2> QED
    BY <1>9, <2>4, <2>6, <2>7, MoveIsAccounted
<1> QED
  BY <1>8, <1>9

\* A close moves the released margin to free, with the gain or the loss of
\* the closed part.
LEMMA CloseIsAccounted ==
  ASSUME PerpTypeOK, PerpTypeOK', FundingSettled, NEW who \in Accounts, NEW m \in MarketIds,
         NEW size \in Nat, ClosePosition(who, m, size), NEW w \in Accounts
  PROVE  Accounted(w) /\ GainPaid(w)
<1> DEFINE p == <<m, who>>
           position == positions[p]
           whole == Abs(position.size)
           closed == IF size = 0 THEN whole ELSE Smaller(size, whole)
           signed == IF position.size >= 0 THEN closed ELSE -closed
           release == Released(position, closed)
           pnl == RealizedPnl(Mark(m), position.entry, signed)
           funding == FundingDelta(FundingIndex(m), position.fundingAtOpen, signed)
           row == Shrunk(m, position, closed)
           left == IF closed = whole THEN 0 ELSE Larger(0, position.locked - release)
<1>1. /\ p \in DOMAIN positions /\ p[1] = m /\ p[2] = who
      /\ margin' = [margin EXCEPT ![who] = Realized(margin[who], release, pnl, funding)]
      /\ positions' = IF closed = whole THEN Remove(positions, {p})
                                        ELSE Put(positions, Entry(p, row))
      /\ motra' = motra
  BY DEF ClosePosition, moneyVars
<1>2. margin \in [Accounts -> MarginAccount] /\ motra \in [Accounts -> Nat]
      /\ margin[who] \in MarginAccount /\ margin[who].free \in Nat
  BY DEF PerpTypeOK, MarginAccount
<1>3. /\ position \in Position /\ position.size \in Int /\ position.entry \in Nat
      /\ position.locked \in Nat /\ Mark(m) \in Nat /\ p \in MarketIds \X Accounts
      /\ position.fundingAtOpen = 0
  BY <1>1, PositionReads, PriceReads DEF FundingSettled
<1>4. whole \in Nat
  BY <1>3, AbsType
<1>5. closed \in 0 .. whole
  BY <1>4 DEF Smaller
<1>6. release \in 0 .. position.locked /\ (closed = whole => release = position.locked)
  BY <1>3, <1>5, ReleasedBound DEF Released
<1>7. pnl \in Int /\ UnrealizedPnl(m, position) \in Int
      /\ \/ 0 <= pnl /\ pnl <= UnrealizedPnl(m, position)
         \/ UnrealizedPnl(m, position) <= pnl /\ pnl <= 0
  <2> HIDE DEF position
  <2>1. closed \in Nat /\ closed <= Abs(position.size)
    BY <1>4, <1>5
  <2> QED
    BY <1>3, <2>1, PartialPnl DEF UnrealizedPnl
<1>8. funding = 0
  <2>1. signed \in Int /\ FundingIndex(m) = 0
    BY <1>4, <1>5 DEF FundingIndex
  <2> HIDE DEF signed
  <2>2. signed * (0 - 0) = 0
    BY <2>1
  <2>3. funding = TruncDiv(signed * (0 - 0), SizeScale)
    BY <1>3, <2>1 DEF FundingDelta
  <2>4. 0 \div SizeScale = 0
    BY Scales
  <2> QED
    BY <2>2, <2>3, <2>4 DEF TruncDiv
<1>9. left = position.locked - release
  BY <1>3, <1>6 DEF Larger
<1>10. /\ LockedIn(positions', who) = LockedIn(positions, who) - release
       /\ \A v \in Accounts \ {who} : LockedIn(positions', v) = LockedIn(positions, v)
       /\ positions' # positions
  <2>1. IsPositions(positions) /\ IsPositions(positions') /\ LockedIn(positions, who) \in Nat
    BY TotalReads
  <2>4. p \in DOMAIN positions /\ p \in MarketIds \X Accounts
    BY <1>1, <1>3
  <2>2. CASE closed = whole
    <3>1. DOMAIN positions' = DOMAIN positions \ {p}
          /\ \A q \in DOMAIN positions' : positions'[q].locked = positions[q].locked
      BY <1>1, <2>2, RemovedPosition
    <3>2. /\ LockedIn(positions', p[2]) = LockedIn(positions, p[2]) - positions[p].locked
          /\ \A v \in Accounts \ {p[2]} : LockedIn(positions', v) = LockedIn(positions, v)
      <4> HIDE DEF p
      <4> QED
        BY <2>1, <2>4, <3>1, LockedGone
    <3>3. positions' # positions
      BY <1>1, <3>1
    <3> QED
      BY <1>1, <1>6, <2>2, <3>2, <3>3
  <2>3. CASE closed # whole
    <3>1. positions' = Put(positions, Entry(p, row))
      BY <1>1, <2>3
    <3>2. row.locked = position.locked - release /\ row.locked \in Nat
          /\ row.size = IF position.size >= 0 THEN position.size - closed
                        ELSE position.size + closed
      BY <1>3, <1>6 DEF Shrunk, Position, Larger
    <3>3. closed \in Nat \ {0}
      BY <1>4, <2>3 DEF Smaller
    <3>4. row.size # position.size
      BY <1>3, <3>2, <3>3
    <3>5. positions'[p] = row
      BY <3>1 DEF Put, Entry
    <3> HIDE DEF p, row, release, closed
    <3>6. positions' # positions
      BY <3>4, <3>5
    <3>7. /\ LockedIn(positions', p[2])
               = LockedIn(positions, p[2]) - positions[p].locked + row.locked
          /\ \A v \in Accounts \ {p[2]} : LockedIn(positions', v) = LockedIn(positions, v)
      <4> DEFINE new == Put(positions, Entry(p, row))
      <4>1. /\ LockedIn(new, p[2]) = LockedIn(positions, p[2])
                 - (IF p \in DOMAIN positions THEN positions[p].locked ELSE 0) + row.locked
            /\ \A v \in Accounts \ {p[2]} : LockedIn(new, v) = LockedIn(positions, v)
        <5>1. row.locked \in Nat
          BY <3>2
        <5> QED
          BY <2>1, <2>4, <5>1, LockedPut
      <4>2. positions' = new
        BY <3>1
      <4> HIDE DEF new
      <4> QED
        BY <2>4, <4>1, <4>2
    <3>8. LockedIn(positions, who) - position.locked + (position.locked - release)
            = LockedIn(positions, who) - release
      BY <1>3, <1>6, <2>1 DEF release, closed
    <3> QED
      BY <1>1, <3>2, <3>6, <3>7, <3>8
  <2> QED
    BY <2>2, <2>3
<1>11. /\ Losses(who) <= UnrealizedPnl(m, position) /\ UnrealizedPnl(m, position) <= Gains(who)
       /\ Gains(who) \in Int /\ Gains(who) >= 0 /\ Losses(who) \in Int /\ Losses(who) <= 0
  BY <1>1, BoundsHold
<1>12. Realized(margin[who], release, pnl, funding).free
         = Larger(0, margin[who].free + release + pnl - funding)
  BY <1>2 DEF Realized, MarginAccount
<1> HIDE DEF p, position, whole, closed, signed, release, pnl, funding, row, left
<1>13. CASE w # who
  <2>1. margin'[w] = margin[w]
    BY <1>1, <1>2, <1>13
  <2> QED
    BY <1>10, <1>13, <2>1, TotalReads, SteadyIsAccounted
<1>14. CASE w = who
  <2> DEFINE free == Larger(0, margin[who].free + release + pnl)
             d == free - margin[who].free - release
  <2>1. margin'[who].free = free
    <3>1. margin[who].free + release + pnl - funding = margin[who].free + release + pnl
      BY <1>2, <1>6, <1>7, <1>8
    <3> QED
      BY <1>1, <1>2, <1>12, <3>1
  <2>2. release \in Int /\ free \in Nat /\ d \in Int
    BY <1>2, <1>6, <1>7 DEF Larger
  <2>3. TotalMargin(who)' = TotalMargin(who) + d
    <3> HIDE DEF free
    <3> QED
      BY <1>10, <2>1, <2>2, TotalReads
  <2>4. PaidIn(who) = 0
    <3>1. motra[who] \in Nat /\ LiveRate \in Nat
      BY TotalReads
    <3>2. Larger(0, motra[who] - motra'[who]) = 0
      BY <1>1, <3>1 DEF Larger
    <3> QED
      BY <3>1, <3>2 DEF PaidIn
  <2> HIDE DEF TotalMargin, Gains, Losses, PaidIn
  <2>5. d <= Gains(who) + PaidIn(who) /\ Losses(who) <= d
    BY <1>2, <1>6, <1>7, <1>11, <2>4 DEF Larger
  <2>6. GainPaid(who)
    <3>1. TotalMargin(who) \in Nat /\ TotalMargin(who)' \in Nat
      BY TotalReads DEF TotalMargin
    <3>2. CASE pnl <= 0
      <4>1. d <= 0
        BY <1>2, <1>6, <1>7, <3>2 DEF Larger
      <4> HIDE DEF d
      <4>2. TotalMargin(who)' <= TotalMargin(who)
        BY <2>2, <2>3, <3>1, <4>1
      <4> QED
        BY <4>2, NoGain
    <3>3. CASE pnl > 0
      <4>1. /\ d = pnl /\ pnl \in Nat \ {0} /\ release \in Nat
            /\ free = margin[who].free + release + pnl
        BY <1>2, <1>6, <1>7, <3>3 DEF Larger
      <4>2. margin'[who].rate = RaisedRate(margin[who].rate, free, pnl)
        <5>1. Realized(margin[who], release, pnl, funding).rate
                = RaisedRate(margin[who].rate,
                             Larger(0, margin[who].free + release + pnl - funding),
                             Larger(0, pnl) + Larger(0, -funding))
          BY <1>2 DEF Realized, MarginAccount
        <5>2. Larger(0, margin[who].free + release + pnl - funding) = free
          BY <1>2, <1>7, <1>8, <4>1
        <5>3. Larger(0, pnl) + Larger(0, -funding) = pnl
          BY <1>7, <1>8, <3>3 DEF Larger
        <5> QED
          BY <1>1, <1>2, <5>1, <5>2, <5>3
      <4>3. margin[who].free + release <= TotalMargin(who)
        <5>1. release <= LockedIn(positions, who)
          BY <1>10, <4>1, TotalReads
        <5> QED
          BY <1>2, <4>1, <5>1, TotalReads
      <4> HIDE DEF d, free
      <4>4. TotalMargin(who)' = TotalMargin(who) + pnl
        BY <2>3, <4>1
      <4> QED
        <5>1. margin[who].free + release \in Nat /\ pnl > 0 /\ pnl - 0 = pnl
          BY <1>2, <4>1
        <5>2. /\ margin[who].free + release + 0 <= TotalMargin(who)
              /\ TotalMargin(who)' = TotalMargin(who) + (pnl - 0)
          BY <4>3, <4>4, <5>1
        <5>3. margin'[who].rate
                = RaisedRate(margin[who].rate, (margin[who].free + release) + pnl, pnl)
          BY <4>1, <4>2
        <5> HIDE DEF release, pnl
        <5> QED
          BY <4>1, <5>1, <5>2, <5>3, GainIsPaid
    <3> QED
      BY <1>7, <3>2, <3>3
  <2> HIDE DEF d
  <2> QED
    BY <1>10, <1>14, <2>2, <2>3, <2>5, <2>6, MoveIsAccounted
<1> QED
  BY <1>13, <1>14

\* An adjustment moves margin between free and locked.
LEMMA AdjustIsAccounted ==
  ASSUME PerpTypeOK, PerpTypeOK', NEW who \in Accounts, NEW m \in MarketIds,
         NEW leverage \in Nat, AdjustLeverage(who, m, leverage), NEW w \in Accounts
  PROVE  Accounted(w) /\ GainPaid(w)
<1> DEFINE p == <<m, who>>
           position == positions[p]
           locked == InitialMargin(Notional(Abs(position.size), position.entry), leverage)
           row == [position EXCEPT !.locked = locked, !.leverage = leverage,
                                   !.fundingAtOpen = FundingIndex(m)]
           free == margin[who].free + position.locked - locked
           new == Put(positions, Entry(p, row))
<1>1. /\ p \in DOMAIN positions /\ LeverageAllowed(m, leverage)
      /\ margin' = [margin EXCEPT ![who].free = free]
      /\ positions' = new
  BY DEF AdjustLeverage
<1>2. /\ position \in Position /\ position.size \in Int /\ position.entry \in Nat
      /\ position.locked \in Nat /\ p \in MarketIds \X Accounts /\ p[2] = who
      /\ margin \in [Accounts -> MarginAccount] /\ margin[who].free \in Nat
  BY <1>1, PositionReads DEF PerpTypeOK, MarginAccount
<1>3. locked \in Nat
  <2>1. leverage \in Nat \ {0}
    BY <1>1, LeverageType
  <2> HIDE DEF position
  <2>2. Notional(Abs(position.size), position.entry) \in Nat
    BY <1>2, AbsType, NotionalType
  <2> QED
    BY <2>1, <2>2, InitialMarginType
<1> HIDE DEF locked
<1>4. row.locked = locked
  BY <1>2 DEF Position
<1> HIDE DEF row, p, new
<1>5. /\ LockedIn(new, p[2]) = LockedIn(positions, p[2])
           - (IF p \in DOMAIN positions THEN positions[p].locked ELSE 0) + row.locked
      /\ \A v \in Accounts \ {p[2]} : LockedIn(new, v) = LockedIn(positions, v)
  <2>1. row.locked \in Nat /\ IsPositions(positions)
    BY <1>3, <1>4, TotalReads
  <2> QED
    BY <1>2, <2>1, LockedPut DEF new
<1>6. /\ LockedIn(positions', who) = LockedIn(positions, who) - position.locked + locked
      /\ \A v \in Accounts \ {who} : LockedIn(positions', v) = LockedIn(positions, v)
  BY <1>1, <1>2, <1>4, <1>5
<1> HIDE DEF position, free
<1>7. margin'[who].free = free /\ \A v \in Accounts \ {who} : margin'[v] = margin[v]
  BY <1>1, <1>2 DEF MarginAccount
<1>8. CASE w # who
  BY <1>6, <1>7, <1>8, TotalReads, SteadyIsAccounted
<1>9. CASE w = who
  <2>1. TotalMargin(who)' = TotalMargin(who)
    BY <1>2, <1>3, <1>6, <1>7, TotalReads DEF free
  <2> QED
    BY <1>9, <2>1, SteadyIsAccounted
<1> QED
  BY <1>8, <1>9

\* What is settled of the funding is nothing, as the index never moves.
LEMMA SettlementIsAccounted ==
  ASSUME PerpTypeOK, PerpTypeOK', FundingSettled, NEW who \in Accounts, NEW m \in MarketIds,
         SettleFunding(who, m), NEW w \in Accounts
  PROVE  Accounted(w) /\ GainPaid(w)
<1> DEFINE p == <<m, who>>
           position == positions[p]
           funding == CappedFunding(m, position)
<1>1. /\ p \in DOMAIN positions
      /\ margin' = [margin EXCEPT ![who] = Realized(margin[who], 0, 0, funding)]
      /\ positions' = [positions EXCEPT ![p].fundingAtOpen = FundingIndex(m)]
  BY DEF SettleFunding
<1>2. /\ position.size \in Int /\ position.entry \in Nat /\ position.fundingAtOpen = 0
      /\ m \in DOMAIN markets /\ position \in Position
      /\ margin \in [Accounts -> MarginAccount] /\ margin[who] \in MarginAccount
      /\ margin[who].free \in Nat
  BY <1>1, PositionReads DEF FundingSettled, PerpTypeOK, MarginAccount
<1>3. markets[m].maxFundingBps \in Nat
  BY <1>2, PriceReads DEF MarketConfig
<1>4. DOMAIN positions' = DOMAIN positions
      /\ \A q \in DOMAIN positions : positions'[q].locked = positions[q].locked
  <2>1. positions'[p] = [position EXCEPT !.fundingAtOpen = FundingIndex(m)]
        /\ \A q \in DOMAIN positions \ {p} : positions'[q] = positions[q]
    BY <1>1
  <2>2. positions'[p].locked = positions[p].locked
    BY <1>2, <2>1 DEF Position
  <2> QED
    BY <1>1, <2>1, <2>2
<1>5. \A v \in Accounts : LockedIn(positions', v) = LockedIn(positions, v)
  <2> SUFFICES ASSUME NEW v \in Accounts PROVE LockedIn(positions', v) = LockedIn(positions, v)
    OBVIOUS
  <2>1. IsPositions(positions) /\ IsPositions(positions')
    BY TotalReads
  <2>2. {q \in DOMAIN positions' : q[2] = v} = {q \in DOMAIN positions : q[2] = v}
    BY <1>4
  <2> QED
    BY <1>4, <2>1, <2>2, LockedAgree
<1> HIDE DEF position, p
<1>6. funding = 0
  <2> DEFINE cap == (Notional(Abs(position.size), position.entry)
                       * markets[m].maxFundingBps) \div BpsScale
             delta == FundingDelta(FundingIndex(m), position.fundingAtOpen, position.size)
  <2>1. Notional(Abs(position.size), position.entry) \in Nat
    BY <1>2, AbsType, NotionalType
  <2>2. Notional(Abs(position.size), position.entry) * markets[m].maxFundingBps \in Nat
    BY <1>3, <2>1, TimesType
  <2>3. cap \in Nat
    BY <2>2, DivType, Scales
  <2>4. delta = TruncDiv(position.size * (0 - 0), SizeScale)
    BY <1>2 DEF FundingDelta, FundingIndex
  <2>5. position.size * (0 - 0) = 0 /\ 0 \div SizeScale = 0
    BY <1>2, Scales
  <2>6. delta = 0
    BY <2>4, <2>5 DEF TruncDiv
  <2>7. funding = Larger(-cap, Smaller(cap, delta))
    BY DEF CappedFunding
  <2> HIDE DEF cap, delta, funding
  <2> QED
    BY <2>3, <2>6, <2>7 DEF Larger, Smaller
<1> HIDE DEF funding
<1>7. Realized(margin[who], 0, 0, funding).free = margin[who].free
  <2>1. Realized(margin[who], 0, 0, funding).free
          = Larger(0, margin[who].free + 0 + 0 - funding)
    BY <1>2 DEF Realized, MarginAccount
  <2> QED
    BY <1>2, <1>6, <2>1 DEF Larger
<1>8. margin'[w].free = margin[w].free
  BY <1>1, <1>2, <1>7
<1> QED
  BY <1>5, <1>8, TotalReads, SteadyIsAccounted

\* A liquidation takes the locked margin and gives back what the loss and the
\* fee leave of it.
LEMMA UnwindIsAccounted ==
  ASSUME PerpTypeOK, PerpTypeOK', FundingSettled, NEW keeper \in Accounts,
         NEW target \in Accounts, NEW m \in MarketIds,
         <<m, target>> \in DOMAIN positions, Unwind(keeper, target, m), NEW w \in Accounts
  PROVE  Accounted(w) /\ GainPaid(w)
<1> DEFINE p == <<m, target>>
           position == positions[p]
           fee == LiquidationFee(m, position)
           paid == IF fee = 0 THEN 0 ELSE Larger(1, fee \div PayoutRate(margin[target]))
           upnl == UnrealizedPnl(m, position)
           left == Equity(m, position) - fee
           funding == FundingDelta(FundingIndex(m), position.fundingAtOpen, position.size)
           credit == Larger(0, upnl) + Larger(0, -funding)
           free == margin[target].free + left
           rate == RaisedRate(margin[target].rate, free, credit)
<1>1. /\ HasPayoutRate(margin[target]) /\ pot' = pot - paid
      /\ motra' = [motra EXCEPT ![keeper] = motra[keeper] + paid]
      /\ margin' = IF left > 0
                   THEN [margin EXCEPT ![target] =
                           [margin[target] EXCEPT !.free = free, !.rate = rate]]
                   ELSE margin
      /\ positions' = Remove(positions, {p})
  BY DEF Unwind
<1>2. /\ p \in DOMAIN positions /\ p[1] = m /\ p[2] = target /\ p \in MarketIds \X Accounts
      /\ position.locked \in Nat /\ position.size \in Int /\ position.fundingAtOpen = 0
      /\ margin \in [Accounts -> MarginAccount] /\ margin[target] \in MarginAccount
      /\ margin[target].free \in Nat /\ motra \in [Accounts -> Nat]
      /\ margin[target].rate \in Nat
  BY PositionReads DEF FundingSettled, PerpTypeOK, MarginAccount
<1>3. fee \in Nat /\ upnl \in Int
  BY <1>2, LiquidationReads
<1>13. funding = 0
  <2>1. funding = TruncDiv(position.size * (0 - 0), SizeScale)
    BY <1>2 DEF FundingDelta, FundingIndex
  <2> HIDE DEF position
  <2>2. position.size * (0 - 0) = 0 /\ 0 \div SizeScale = 0
    BY <1>2, Scales
  <2> QED
    BY <2>1, <2>2 DEF TruncDiv
<1>4. left = position.locked + upnl - fee
  <2>1. Equity(m, position) = position.locked + upnl - funding
    BY DEF Equity
  <2> HIDE DEF position, upnl, funding
  <2> QED
    BY <1>2, <1>3, <1>13, <2>1
<1>5. paid \in Nat /\ (fee # 0 => paid > 0)
  <2>1. PayoutRate(margin[target]) \in Nat \ {0}
    BY <1>1, <1>2, PriceReads DEF PayoutRate, HasPayoutRate
  <2> HIDE DEF fee
  <2>2. fee \div PayoutRate(margin[target]) \in Nat
    BY <1>3, <2>1, DivType
  <2> QED
    BY <2>2 DEF Larger
<1>6. /\ LockedIn(positions', target) = LockedIn(positions, target) - position.locked
      /\ \A v \in Accounts \ {target} : LockedIn(positions', v) = LockedIn(positions, v)
      /\ positions' # positions
  <2>1. DOMAIN positions' = DOMAIN positions \ {p}
        /\ \A q \in DOMAIN positions' : positions'[q].locked = positions[q].locked
    BY <1>1, RemovedPosition
  <2>2. p \in DOMAIN positions /\ IsPositions(positions) /\ IsPositions(positions')
    BY <1>2, TotalReads
  <2>3. positions' # positions
    BY <2>1, <2>2
  <2>4. /\ LockedIn(positions', p[2]) = LockedIn(positions, p[2]) - positions[p].locked
        /\ \A v \in Accounts \ {p[2]} : LockedIn(positions', v) = LockedIn(positions, v)
    <3> HIDE DEF p
    <3> QED
      BY <2>1, <2>2, LockedGone
  <2> QED
    BY <1>2, <2>3, <2>4
<1>7. /\ Losses(target) <= upnl /\ upnl <= Gains(target) /\ fee <= Fees(target)
  BY <1>2, BoundsHold
<1>8. PaidIn(w) \in Nat
  <2>1. /\ LiveRate \in Nat /\ motra[w] \in Nat /\ motra'[w] \in Nat
    BY TotalReads
  <2>2. Larger(0, motra[w] - motra'[w]) \in Nat
    BY <2>1 DEF Larger
  <2> QED
    BY <2>1, <2>2, TimesType DEF PaidIn
<1>9. /\ Gains(w) \in Int /\ Gains(w) >= 0 /\ Losses(w) \in Int /\ Losses(w) <= 0
      /\ Fees(w) \in Int /\ Fees(w) >= 0
  BY BoundsHold
<1>10. /\ TotalMargin(w) \in Nat /\ TotalMargin(w)' \in Nat /\ pot \in Nat
  BY TotalReads
<1> HIDE DEF p, position, fee, paid, upnl, left, free, rate, funding
<1>11. CASE w # target
  <2>1. margin'[w] = margin[w]
    BY <1>1, <1>2, <1>11
  <2> QED
    BY <1>6, <1>11, <2>1, TotalReads, SteadyIsAccounted
<1>12. CASE w = target
  <2> DEFINE d == IF left > 0 THEN left ELSE 0
  <2>1. left \in Int
    BY <1>2, <1>3, <1>4
  <2>2. margin'[target].free = margin[target].free + d
    <3>1. CASE left > 0
      <4>1. margin'[target] = [margin[target] EXCEPT !.free = free, !.rate = rate]
        BY <1>1, <1>2, <3>1
      <4>2. margin'[target].free = free
        BY <1>2, <4>1 DEF MarginAccount
      <4> QED
        BY <3>1, <4>2 DEF free
    <3>2. CASE ~(left > 0)
      BY <1>1, <1>2, <3>2
    <3> QED
      BY <3>1, <3>2
  <2>3. TotalMargin(target)' = TotalMargin(target) + d - position.locked
    <3>1. d \in Nat
      BY <2>1
    <3> HIDE DEF d
    <3> QED
      BY <1>2, <1>6, <2>2, <3>1, TotalReads
  <2> HIDE DEF TotalMargin, Gains, Losses, PaidIn, Fees
  <2>4. TotalMargin(w)' <= TotalMargin(w) + Gains(w) + PaidIn(w)
    BY <1>2, <1>3, <1>4, <1>7, <1>8, <1>9, <1>10, <1>12, <2>1, <2>3
  <2>5. TotalMargin(w)' >= TotalMargin(w) + Losses(w) - fee
    BY <1>2, <1>3, <1>4, <1>7, <1>9, <1>10, <1>12, <2>1, <2>3
  <2>6. fee <= (IF pot' < pot THEN Fees(w) ELSE 0)
    BY <1>1, <1>3, <1>5, <1>7, <1>10, <1>12
  <2>7. TotalMargin(w)' >= TotalMargin(w) + Losses(w) - (IF pot' < pot THEN Fees(w) ELSE 0)
    BY <1>3, <1>9, <1>10, <2>5, <2>6
  <2>8. GainPaid(target)
    <3>1. CASE upnl <= fee
      <4>1. TotalMargin(target)' <= TotalMargin(target)
        BY <1>2, <1>3, <1>4, <1>10, <1>12, <2>1, <2>3, <3>1
      <4> QED
        BY <4>1, NoGain
    <3>2. CASE upnl > fee
      <4>1. /\ left > 0 /\ d = left /\ upnl - fee \in Nat \ {0}
            /\ TotalMargin(target)' = TotalMargin(target) + (upnl - fee)
        BY <1>2, <1>3, <1>4, <1>10, <1>12, <2>1, <2>3, <3>2
      <4>2. fee <= position.locked
        BY <1>2, <1>3 DEF fee, LiquidationFee, Smaller
      <4>3. free = margin[target].free + (position.locked - fee) + upnl
        BY <1>2, <1>3, <1>4 DEF free
      <4>4. margin'[target].rate = RaisedRate(margin[target].rate, free, upnl)
        <5>1. margin'[target] = [margin[target] EXCEPT !.free = free, !.rate = rate]
          BY <1>1, <1>2, <4>1
        <5>2. margin'[target].rate = rate
          BY <1>2, <5>1 DEF MarginAccount
        <5>3. credit = upnl
          BY <1>3, <1>13, <3>2 DEF Larger
        <5> QED
          BY <5>2, <5>3 DEF rate
      <4>5. margin[target].free + position.locked <= TotalMargin(target)
        <5>1. position.locked <= LockedIn(positions, target)
          BY <1>2, <1>6, TotalReads
        <5> QED
          BY <1>2, <5>1, TotalReads
      <4> QED
        <5> DEFINE kept == margin[target].free + (position.locked - fee)
        <5>1. kept \in Nat /\ upnl \in Nat /\ kept + fee <= TotalMargin(target)
          BY <1>2, <1>3, <3>2, <4>2, <4>5
        <5>2. margin'[target].rate = RaisedRate(margin[target].rate, kept + upnl, upnl)
          BY <4>3, <4>4
        <5> HIDE DEF kept
        <5> QED
          BY <1>3, <3>2, <4>1, <5>1, <5>2, GainIsPaid
    <3> QED
      BY <1>3, <3>1, <3>2
  <2> QED
    BY <1>6, <1>12, <2>4, <2>7, <2>8 DEF Accounted
<1> QED
  BY <1>11, <1>12

\* Every call that writes a position writes the funding index, zero, into it.
LEMMA FundingNext == PerpTypeOK /\ FundingSettled /\ [Next]_vars => FundingSettled'
<1> SUFFICES ASSUME PerpTypeOK, FundingSettled, [Next]_vars PROVE FundingSettled'
  OBVIOUS
<1>1. ASSUME \A p \in DOMAIN positions' :
               \/ p \in DOMAIN positions /\ positions'[p] = positions[p]
               \/ positions'[p].fundingAtOpen = 0
      PROVE  FundingSettled'
  BY <1>1 DEF FundingSettled
<1>2. ASSUME positions' = positions PROVE FundingSettled'
  BY <1>1, <1>2
<1>3. CASE NextBlock \/ UNCHANGED vars
      \/ (\E f \in DOMAIN PriceInputs : OracleMoves(f))
      \/ (\E n \in MarketIds : \E config \in MarketConfigs : GovernanceSetMarket(n, config))
  BY <1>2, <1>3 DEF NextBlock, vars, OracleMoves, GovernanceSetMarket
<1>4. ASSUME NEW p, NEW row, row.fundingAtOpen = 0, positions' = Put(positions, Entry(p, row))
      PROVE  FundingSettled'
  <2>1. /\ DOMAIN positions' = DOMAIN positions \cup {p} /\ positions'[p] = row
        /\ \A q \in DOMAIN positions \ {p} : positions'[q] = positions[q]
    BY <1>4 DEF Put, Entry
  <2> QED
    BY <1>1, <1>4, <2>1
<1>5. ASSUME NEW p, positions' = Remove(positions, {p}) PROVE FundingSettled'
  BY <1>1, <1>5, RemovedPosition
<1>6. ASSUME NEW who \in Accounts, TraderCall(who) PROVE FundingSettled'
  <2>1. ASSUME NEW amount, DepositMargin(who, amount) \/ WithdrawMargin(who, amount)
        PROVE  FundingSettled'
    BY <1>2, <2>1 DEF DepositMargin, WithdrawMargin
  <2>2. ASSUME NEW m, NEW side, NEW size, NEW leverage, NEW topUp,
               OpenPosition(who, m, side, size, leverage, topUp)
        PROVE  FundingSettled'
    <3> DEFINE row == [size |-> side * size, entry |-> Mark(m),
                       locked |-> InitialMargin(Notional(size, Mark(m)), leverage),
                       leverage |-> leverage, fundingAtOpen |-> FundingIndex(m)]
    <3>1. positions' = Put(positions, Entry(<<m, who>>, row)) /\ row.fundingAtOpen = 0
      BY <2>2 DEF OpenPosition, FundingIndex
    <3> HIDE DEF row
    <3> QED
      BY <1>4, <3>1
  <2>3. ASSUME NEW m, NEW size, ClosePosition(who, m, size) PROVE FundingSettled'
    <3> DEFINE p == <<m, who>>
               whole == Abs(positions[p].size)
               closed == IF size = 0 THEN whole ELSE Smaller(size, whole)
               row == Shrunk(m, positions[p], closed)
    <3>1. /\ p \in DOMAIN positions
          /\ positions' = Remove(positions, {p}) \/ positions' = Put(positions, Entry(p, row))
      BY <2>3 DEF ClosePosition
    <3>2. positions[p] \in Position
      BY <3>1, PositionReads
    <3>3. row.fundingAtOpen = 0
      BY <3>2 DEF Shrunk, Position, FundingIndex
    <3> HIDE DEF p, row
    <3> QED
      BY <1>4, <1>5, <3>1, <3>3
  <2>4. ASSUME NEW m, NEW leverage, AdjustLeverage(who, m, leverage) PROVE FundingSettled'
    <3> DEFINE p == <<m, who>>
               position == positions[p]
               row == [position EXCEPT
                   !.locked = InitialMargin(Notional(Abs(position.size), position.entry), leverage),
                   !.leverage = leverage, !.fundingAtOpen = FundingIndex(m)]
    <3>1. p \in DOMAIN positions /\ positions' = Put(positions, Entry(p, row))
      BY <2>4 DEF AdjustLeverage
    <3>2. position \in Position
      BY <3>1, PositionReads
    <3>3. row.fundingAtOpen = 0
      BY <3>2 DEF Position, FundingIndex
    <3> HIDE DEF p, row
    <3> QED
      BY <1>4, <3>1, <3>3
  <2> QED
    BY <1>6, <2>1, <2>2, <2>3, <2>4, Zenon DEF TraderCall
<1>7. ASSUME NEW who \in Accounts, NEW m \in MarketIds, SettleFunding(who, m)
      PROVE  FundingSettled'
  <2> DEFINE p == <<m, who>>
  <2>1. p \in DOMAIN positions
        /\ positions' = [positions EXCEPT ![p].fundingAtOpen = FundingIndex(m)]
    BY <1>7 DEF SettleFunding
  <2>2. positions[p] \in Position
    BY <2>1, PositionReads
  <2> HIDE DEF p
  <2>3. positions'[p].fundingAtOpen = 0
    <3>1. positions'[p] = [positions[p] EXCEPT !.fundingAtOpen = FundingIndex(m)]
      BY <2>1
    <3> QED
      BY <2>2, <3>1 DEF Position, FundingIndex
  <2>4. \A q \in DOMAIN positions' : q # p => q \in DOMAIN positions /\ positions'[q] = positions[q]
    BY <2>1
  <2> QED
    BY <1>1, <2>3, <2>4
<1>8. ASSUME NEW who \in Accounts, NEW m \in MarketIds, KeeperCall(who, m)
      PROVE  FundingSettled'
  <2>1. ASSUME NEW amount \in BondInputs,
               ReserveKeeperBond(who, m, amount) \/ ReleaseKeeperBond(who, m, amount)
        PROVE  FundingSettled'
    BY <1>2, <2>1 DEF ReserveKeeperBond, ReleaseKeeperBond
  <2>2. ASSUME NEW target \in Accounts, Liquidate(who, target, m) PROVE FundingSettled'
    <3>1. positions' = positions \/ positions' = Remove(positions, {<<m, target>>})
      BY <2>2 DEF Liquidate, SlashKeeper, Unwind
    <3> QED
      BY <1>2, <1>5, <3>1
  <2> QED
    BY <1>8, <2>1, <2>2 DEF KeeperCall
<1> QED
  BY <1>3, <1>6, <1>7, <1>8 DEF Next

\* Every step accounts for the margin of every account.
LEMMA AccountedNext ==
  PerpTypeOK /\ PerpTypeOK' /\ FundingSettled /\ [Next]_vars =>
    \A w \in Accounts : Accounted(w) /\ GainPaid(w)
<1> SUFFICES ASSUME PerpTypeOK, PerpTypeOK', FundingSettled, [Next]_vars, NEW w \in Accounts
             PROVE  Accounted(w) /\ GainPaid(w)
  OBVIOUS
<1>1. /\ DepositInputs \subseteq Nat /\ WithdrawInputs \subseteq Nat /\ SizeInputs \subseteq Nat
      /\ CloseInputs \subseteq Nat /\ LeverageInputs \subseteq Nat
  BY PerpAssumption
<1>2. CASE NextBlock \/ UNCHANGED vars
      \/ (\E f \in DOMAIN PriceInputs : OracleMoves(f))
      \/ (\E n \in MarketIds : \E config \in MarketConfigs : GovernanceSetMarket(n, config))
  <2>1. UNCHANGED <<margin, positions>>
    BY <1>2 DEF NextBlock, vars, OracleMoves, GovernanceSetMarket
  <2> QED
    BY <2>1, IdleIsAccounted
<1>3. ASSUME NEW who \in Accounts, TraderCall(who) PROVE Accounted(w) /\ GainPaid(w)
  <2>1. ASSUME NEW amount \in DepositInputs, DepositMargin(who, amount) PROVE Accounted(w) /\ GainPaid(w)
    BY <1>1, <2>1, DepositIsAccounted
  <2>2. ASSUME NEW amount \in WithdrawInputs, WithdrawMargin(who, amount) PROVE Accounted(w) /\ GainPaid(w)
    BY <1>1, <2>2, WithdrawalIsAccounted
  <2>3. ASSUME NEW m \in MarketIds, NEW side \in {1, -1}, NEW size \in SizeInputs,
               NEW leverage \in LeverageInputs, NEW topUp \in DepositInputs \cup {0},
               OpenPosition(who, m, side, size, leverage, topUp)
        PROVE  Accounted(w) /\ GainPaid(w)
    <3>1. size \in Nat /\ leverage \in Nat /\ topUp \in Nat
      BY <1>1
    <3> QED
      BY <2>3, <3>1, OpeningIsAccounted
  <2>4. ASSUME NEW m \in MarketIds, NEW size \in CloseInputs, ClosePosition(who, m, size)
        PROVE  Accounted(w) /\ GainPaid(w)
    BY <1>1, <2>4, CloseIsAccounted
  <2>5. ASSUME NEW m \in MarketIds, NEW leverage \in LeverageInputs,
               AdjustLeverage(who, m, leverage)
        PROVE  Accounted(w) /\ GainPaid(w)
    BY <1>1, <2>5, AdjustIsAccounted
  <2> HIDE DEF Accounted, GainPaid
  <2> QED
    BY <1>3, <2>1, <2>2, <2>3, <2>4, <2>5 DEF TraderCall
<1>4. ASSUME NEW who \in Accounts, NEW m \in MarketIds, SettleFunding(who, m)
      PROVE  Accounted(w) /\ GainPaid(w)
  BY <1>4, SettlementIsAccounted
<1>5. ASSUME NEW who \in Accounts, NEW m \in MarketIds, KeeperCall(who, m)
      PROVE  Accounted(w) /\ GainPaid(w)
  <2>1. ASSUME NEW amount \in BondInputs,
               ReserveKeeperBond(who, m, amount) \/ ReleaseKeeperBond(who, m, amount)
        PROVE  Accounted(w) /\ GainPaid(w)
    <3>1. UNCHANGED <<margin, positions>>
      BY <2>1 DEF ReserveKeeperBond, ReleaseKeeperBond
    <3> QED
      BY <3>1, IdleIsAccounted
  <2>2. ASSUME NEW target \in Accounts, Liquidate(who, target, m) PROVE Accounted(w) /\ GainPaid(w)
    <3>1. /\ <<m, target>> \in DOMAIN positions
          /\ SlashKeeper(who, m) \/ Unwind(who, target, m)
      BY <2>2 DEF Liquidate
    <3>2. CASE SlashKeeper(who, m)
      <4>1. UNCHANGED <<margin, positions>>
        BY <3>2 DEF SlashKeeper
      <4> QED
        BY <4>1, IdleIsAccounted
    <3>3. CASE Unwind(who, target, m)
      BY <3>1, <3>3, UnwindIsAccounted
    <3> QED
      BY <3>1, <3>2, <3>3
  <2> HIDE DEF Accounted, GainPaid
  <2> QED
    BY <1>5, <2>1, <2>2 DEF KeeperCall
<1> HIDE DEF Accounted, GainPaid
<1> QED
  BY <1>2, <1>3, <1>4, <1>5 DEF Next

(***************************************************************************)
(* Theorems.                                                               *)
(***************************************************************************)
\* No amount of the engine ever goes below zero and every position is in a
\* registered market, in every reachable state: deposits, liquidations and
\* slashes included.
THEOREM PerpTypes == Spec => []PerpTypeOK
<1>1. Init => PerpTypeOK /\ ReserveBacksKeeperBonds
  BY TypeInit, ReserveInit
<1>2. PerpTypeOK /\ ReserveBacksKeeperBonds /\ [Next]_vars
        => (PerpTypeOK /\ ReserveBacksKeeperBonds)'
  BY TypeNext, ReserveNext
<1> QED
  BY <1>1, <1>2, PTL DEF Spec

\* The one reserve of a keeper is always the sum of its bonds: a slash in one
\* market never eats the bond of another.
THEOREM ReservesBackKeeperBonds == Spec => []ReserveBacksKeeperBonds
<1>1. Init => PerpTypeOK /\ ReserveBacksKeeperBonds
  BY TypeInit, ReserveInit
<1>2. PerpTypeOK /\ ReserveBacksKeeperBonds /\ [Next]_vars
        => (PerpTypeOK /\ ReserveBacksKeeperBonds)'
  BY TypeNext, ReserveNext
<1> QED
  BY <1>1, <1>2, PTL DEF Spec

\* A market whose bad debt of the window is over the threshold is paused in the
\* same step, and in a paused market no position appears, grows or is moved to
\* other terms, whatever the order of the calls.
THEOREM PausedMarketsOnlyWindDown == Spec => PausedMarketsWindDown
<1>1. Init => DebtPauses
  BY PerpAssumption DEF Init, DebtPauses
<1>2. Init => PerpTypeOK /\ ReserveBacksKeeperBonds
  BY TypeInit, ReserveInit
<1>3. PerpTypeOK /\ ReserveBacksKeeperBonds /\ [Next]_vars
        => (PerpTypeOK /\ ReserveBacksKeeperBonds)'
  BY TypeNext, ReserveNext
<1>4. PerpTypeOK /\ DebtPauses /\ [Next]_vars => DebtPauses'
  BY DebtNext
<1>5. PerpTypeOK /\ DebtPauses' /\ [Next]_vars =>
        [\A m \in DOMAIN markets :
           /\ badDebt'[m].sum > BadDebtThreshold => markets'[m].paused
           /\ markets[m].paused =>
                \A p \in DOMAIN positions' :
                  p[1] = m =>
                    /\ p \in DOMAIN positions
                    /\ Abs(positions'[p].size) <= Abs(positions[p].size)
                    /\ positions'[p].leverage = positions[p].leverage]_vars
  <2> SUFFICES ASSUME PerpTypeOK, DebtPauses', [Next]_vars, NEW m \in DOMAIN markets
               PROVE  /\ badDebt'[m].sum > BadDebtThreshold => markets'[m].paused
                      /\ markets[m].paused => WindsDown(m)
    BY DEF WindsDown
  <2>1. m \in MarketIds
    BY PriceReads
  <2> QED
    BY <2>1, PausedNext DEF DebtPauses
<1> QED
  BY <1>1, <1>2, <1>3, <1>4, <1>5, PTL DEF Spec, PausedMarketsWindDown

\* A keeper is paid only for a position that was below its maintenance margin
\* at a fresh price, and slashed only of the minimum bond for a healthy one.
THEOREM LiquidationsAreFair == Spec => OnlyUnhealthyAreLiquidated
<1>1. PerpTypeOK /\ [Next]_vars =>
        [/\ \A p \in DOMAIN positions :
               \/ p \in DOMAIN positions'
               \/ UNCHANGED motra
               \/ /\ oracle[markets[p[1]].feed].fresh
                  /\ Equity(p[1], positions[p]) < Maintenance(p[1], positions[p])
                  /\ margin'[p[2]].free >= margin[p[2]].free
         /\ treasury' # treasury =>
               /\ UNCHANGED <<positions, margin, motra, pot>>
               /\ \E p \in DOMAIN positions, keeper \in Accounts :
                    /\ Equity(p[1], positions[p]) >= Maintenance(p[1], positions[p])
                    /\ bonds[<<p[1], keeper>>] - bonds'[<<p[1], keeper>>]
                          = KeeperBondMinimum]_vars
  BY FairNext DEF EndsFairly, SlashesFairly
<1> QED
  BY <1>1, PerpTypes, PTL DEF Spec, OnlyUnhealthyAreLiquidated

\* In no step is margin made or lost: what an account gains or loses is a gain,
\* a loss, a fee or a transfer of its own.
THEOREM MarginAccounted == Spec => MarginIsAccountedFor
<1>1. Init => FundingSettled
  BY DEF Init, FundingSettled, NoRows
<1>2. PerpTypeOK /\ FundingSettled /\ [Next]_vars => FundingSettled'
  BY FundingNext
<1>3. PerpTypeOK /\ PerpTypeOK' /\ FundingSettled /\ [Next]_vars =>
        [\A who \in Accounts :
           LET paidIn == Larger(0, motra[who] - motra'[who]) * LiveRate
               takenOut == Larger(0, motra'[who] - motra[who])
               gains == Max(UnrealizedOf(who) \cup {0})
               losses == Min(UnrealizedOf(who) \cup {0})
               fees == Max({LiquidationFee(p[1], positions[p]) :
                              p \in {q \in DOMAIN positions : q[2] = who}} \cup {0})
           IN /\ TotalMargin(who)' <= TotalMargin(who) + gains + paidIn
              /\ positions' # positions =>
                   TotalMargin(who)' >= TotalMargin(who) + losses
                                          - (IF pot' < pot THEN fees ELSE 0)
              /\ positions' = positions =>
                   \/ TotalMargin(who)' >= TotalMargin(who)
                   \/ TotalMargin(who)' > TotalMargin(who)
                                             - (takenOut + 1) * PayoutRate(margin[who])]_vars
  BY AccountedNext, Zenon
     DEF Accounted, Gains, Losses, Fees, FeesOf, PaidIn, TakenOut
<1> QED
  BY <1>1, <1>2, <1>3, PerpTypes, PTL DEF Spec, MarginIsAccountedFor

\* At every size of market and every rate, a gain that a close, a partial close
\* or a liquidation credits is worth no more MOTRA than the live rate makes of
\* it, also when the account paid in at another rate: realize_pnl and
\* unwind_position raise the rate to the average before the margin is paid out.
THEOREM GainsPaid == Spec => GainsArePaidAtLiveRate
<1>1. Init => FundingSettled
  BY DEF Init, FundingSettled, NoRows
<1>2. PerpTypeOK /\ FundingSettled /\ [Next]_vars => FundingSettled'
  BY FundingNext
<1>3. PerpTypeOK /\ PerpTypeOK' /\ FundingSettled /\ [Next]_vars =>
        [\A who \in Accounts :
           LET gain == Larger(0, TotalMargin(who)' - TotalMargin(who))
               rate == margin[who].rate
           IN gain > 0 /\ pot' <= pot /\ rate # 0 /\ FreshPrice(MatraFeed) =>
                TotalMargin(who)' * rate * LiveRate <=
                  (margin[who].rate' + 1)
                    * (TotalMargin(who) * LiveRate + gain * rate)]_vars
  BY AccountedNext, Zenon DEF GainPaid
<1> QED
  BY <1>1, <1>2, <1>3, PerpTypes, PTL DEF Spec, GainsArePaidAtLiveRate

=============================================================================
