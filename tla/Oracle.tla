------------------------------- MODULE Oracle -------------------------------
(***************************************************************************)
(* pallet-oracle: attestors of a pair submit what they observed for a      *)
(* slot; the submission that completes a bundle of MinAttestorThreshold    *)
(* writes the median to Prices and clears the bundle.  Bundles of several  *)
(* slots fill side by side, in any order, and old ones are never removed.  *)
(*                                                                         *)
(* The signature covers (chain, pair, price, decimals, slot) and the       *)
(* origin must own the key, so a submission is its signer's.  An honest    *)
(* attestor signs what it sees; the others sign anything.                  *)
(***************************************************************************)
EXTENDS Integers, Sequences, FiniteSets, Maps

CONSTANTS
  Pairs,
  Keys,                 \* attestor keys, each with its one account
  Honest,               \* the keys whose holders sign what they observe
  Seen,                 \* Seen[<<k, s>>]: the price honest k observes at slot s
  SeenDecimals,         \* the decimals all of them use
  OtherPrices,          \* prices the others may sign
  DecimalsInputs,       \* decimals a call may carry
  MinAttestorThreshold,
  MaxAttestors,
  MaxStaleSlots,
  MaxFutureSlots,
  MaxAge,               \* max_age_slots of the reading pallet
  Horizon               \* bound: the last block

MaxDecimals == 18

Blocks == 1 .. Horizon

Slots == 0 .. Horizon + MaxFutureSlots

PriceValues == OtherPrices \cup {Seen[<<k, s>>] : k \in Honest, s \in Slots}

ASSUME OracleAssumption ==
  /\ IsFiniteSet(Keys) /\ Honest \subseteq Keys
  /\ DOMAIN Seen = Honest \X Slots
  /\ PriceValues \subseteq Nat
  /\ DecimalsInputs \subseteq Nat
  /\ SeenDecimals \in DecimalsInputs
  /\ {MinAttestorThreshold, MaxAttestors, Horizon} \subseteq Nat \ {0}
  /\ {MaxStaleSlots, MaxFutureSlots, MaxAge} \subseteq Nat

VARIABLES
  block,                \* frame_system block number, also the chain slot
  attestors,            \* Attestors: the roster of each pair
  prices,               \* Prices, a map of PriceFeed
  pending,              \* PendingAttestations, per pair and slot
  submitted,            \* AttestorSubmitted, a set of <<pair, slot, key>>
  bundleDecimals        \* BundleDecimals, a map from <<pair, slot>>

bundleVars == <<pending, submitted, bundleDecimals>>
vars == <<block, attestors, prices, bundleVars>>

PriceObservation == [pubkey : Keys, price : PriceValues]

\* A mean of two observations need not be one of them.
PriceFeed ==
  [price : Nat, decimals : DecimalsInputs, slot : Slots, block : Blocks,
   attestorSet : SUBSET Keys]

TypeOK ==
  /\ block \in Blocks
  /\ attestors \in [Pairs -> SUBSET Keys]
  /\ IsMap(prices, Pairs) /\ \A p \in DOMAIN prices : prices[p] \in PriceFeed
  /\ pending \in [Pairs \X Slots -> Seq(PriceObservation)]
  /\ submitted \subseteq Pairs \X Slots \X Keys
  /\ IsMap(bundleDecimals, Pairs \X Slots)
  /\ \A b \in DOMAIN bundleDecimals : bundleDecimals[b] \in DecimalsInputs

Init ==
  /\ block = 1
  /\ attestors = [p \in Pairs |-> {}]
  /\ prices = NoRows
  /\ pending = [b \in Pairs \X Slots |-> <<>>]
  /\ submitted = {}
  /\ bundleDecimals = NoRows

(***************************************************************************)
(* Aggregation: the median of the bundle, for an even count the floored    *)
(* mean of the two middle prices.                                          *)
(***************************************************************************)

\* The n-th price of the sorted bundle.
Ranked(bundle, n) ==
  CHOOSE x \in {bundle[i].price : i \in DOMAIN bundle} :
    /\ Cardinality({i \in DOMAIN bundle : bundle[i].price < x}) < n
    /\ Cardinality({i \in DOMAIN bundle : bundle[i].price <= x}) >= n

\* Faulty variant, a plausible slip: the arithmetic mean of the extremes.
Median_Midrange(bundle) == (Ranked(bundle, 1) + Ranked(bundle, Len(bundle))) \div 2

Median(bundle) ==
  LET n == Len(bundle) IN
  IF n % 2 = 1
  THEN Ranked(bundle, (n + 1) \div 2)
  ELSE (Ranked(bundle, n \div 2) + Ranked(bundle, n \div 2 + 1)) \div 2

Signers(bundle) == {bundle[i].pubkey : i \in DOMAIN bundle}

(***************************************************************************)
(* Calls.                                                                  *)
(***************************************************************************)

\* The chain slot is the block number; both differences saturate at zero.
\* Faulty variant, a plausible slip: late slots are refused, early ones not.
InWindow_NoFutureWall(slot) == block - slot <= MaxStaleSlots

InWindow(slot) ==
  /\ block - slot <= MaxStaleSlots
  /\ slot - block <= MaxFutureSlots

\* Faulty variant, a plausible slip: the slot of the feed itself passes.
AfterLastUpdate_OrSame(p, slot) == p \in DOMAIN prices => slot >= prices[p].slot

AfterLastUpdate(p, slot) == p \in DOMAIN prices => slot > prices[p].slot

DecimalsMatch(b, decimals) ==
  b \in DOMAIN bundleDecimals => decimals = bundleDecimals[b]

\* Faulty variant, a plausible slip: the row is written, never looked up.
NotYetSubmitted_Always(b, k) == TRUE

NotYetSubmitted(b, k) == <<b[1], b[2], k>> \notin submitted

\* An observation joins an incomplete bundle.
Buffer(b, k, decimals, bundle) ==
  /\ pending' = [pending EXCEPT ![b] = bundle]
  /\ submitted' = submitted \cup {<<b[1], b[2], k>>}
  /\ bundleDecimals' = Put(bundleDecimals, Entry(b, decimals))
  /\ UNCHANGED prices

\* Faulty variant, a plausible slip: the rows of the completing signer only.
ClearedRows_Last(b, bundle) == {<<b[1], b[2], bundle[Len(bundle)].pubkey>>}

ClearedRows(b, bundle) == {<<b[1], b[2], k>> : k \in Signers(bundle)}

\* The observation that completes the bundle writes the price and clears the
\* rows of this slot, of no other.
Aggregate(b, k, decimals, bundle) ==
  /\ prices' = Put(prices, Entry(b[1],
       [price |-> Median(bundle), decimals |-> decimals, slot |-> b[2],
        block |-> block, attestorSet |-> Signers(bundle)]))
  /\ pending' = [pending EXCEPT ![b] = <<>>]
  /\ submitted' =
       (submitted \cup {<<b[1], b[2], k>>}) \ ClearedRows(b, bundle)
  /\ bundleDecimals' = Remove(bundleDecimals, {b})

SubmitPrice(p, price, decimals, slot, k) ==
  LET b == <<p, slot>>
      bundle == Append(pending[b], [pubkey |-> k, price |-> price])
  IN /\ decimals <= MaxDecimals
     /\ k \in attestors[p]
     /\ NotYetSubmitted(b, k)
     /\ InWindow(slot)
     /\ AfterLastUpdate(p, slot)
     /\ DecimalsMatch(b, decimals)
     /\ Len(bundle) <= MaxAttestors
     /\ IF Len(bundle) >= MinAttestorThreshold
        THEN Aggregate(b, k, decimals, bundle)
        ELSE Buffer(b, k, decimals, bundle)
     /\ UNCHANGED <<block, attestors>>

SubmitHonestPrice(p, slot, k) ==
  /\ k \in Honest
  /\ SubmitPrice(p, Seen[<<k, slot>>], SeenDecimals, slot, k)

SubmitOtherPrice(p, price, decimals, slot, k) ==
  /\ k \notin Honest
  /\ SubmitPrice(p, price, decimals, slot, k)

RegisterAttestor(p, k) ==
  /\ k \notin attestors[p]
  /\ Cardinality(attestors[p]) < MaxAttestors
  /\ attestors' = [attestors EXCEPT ![p] = @ \cup {k}]
  /\ UNCHANGED <<block, prices, bundleVars>>

NextBlock ==
  /\ block < Horizon
  /\ block' = block + 1
  /\ UNCHANGED <<attestors, prices, bundleVars>>

Next ==
  \/ NextBlock
  \/ \E p \in Pairs, k \in Keys :
       \/ RegisterAttestor(p, k)
       \/ \E slot \in Slots :
            \/ SubmitHonestPrice(p, slot, k)
            \/ \E price \in OtherPrices, decimals \in DecimalsInputs :
                 SubmitOtherPrice(p, price, decimals, slot, k)

Spec == Init /\ [][Next]_vars

(***************************************************************************)
(* Reads by other pallets.                                                 *)
(***************************************************************************)
IsPriceFresh(p, slot, maxAge) ==
  p \in DOMAIN prices /\ slot - prices[p].slot <= maxAge

(***************************************************************************)
(* Properties.                                                             *)
(***************************************************************************)

\* One attestor has one voice per slot: the idempotency rows are exactly the
\* signers of the open bundles, each once, and the decimals witness is there
\* as long as the bundle is.  Bundles that the feed has passed by stay so.
BundlesAreAccountedFor ==
  \A b \in Pairs \X Slots :
    /\ Signers(pending[b]) = {k \in Keys : <<b[1], b[2], k>> \in submitted}
    /\ Cardinality(Signers(pending[b])) = Len(pending[b])
    /\ Len(pending[b]) < MinAttestorThreshold
    /\ b \in DOMAIN bundleDecimals <=> pending[b] # <<>>

\* A price rests on MinAttestorThreshold different registered attestors,
\* although the rows that tell them apart are gone once it is written.
PriceHasQuorum ==
  \A p \in DOMAIN prices :
    /\ Cardinality(prices[p].attestorSet) = MinAttestorThreshold
    /\ prices[p].attestorSet \subseteq attestors[p]

Bracketed(price, seen) == \E lo, hi \in seen : lo <= price /\ price <= hi

\* More than half of a bundle being honest, whatever the others sign, and
\* whoever comes first, the price lies between two prices that honest
\* attestors saw at the very slot it is filed under, in their decimals.
PriceIsBracketed ==
  2 * Cardinality(Keys \ Honest) < MinAttestorThreshold =>
    \A p \in DOMAIN prices :
      /\ Bracketed(prices[p].price, {Seen[<<k, prices[p].slot>>] : k \in Honest})
      /\ prices[p].decimals = SeenDecimals

\* A feed that a reader takes as fresh was written, and its slot observed,
\* within its max age plus the drift the submission window allows.
FreshIsRecent ==
  \A p \in Pairs :
    IsPriceFresh(p, block, MaxAge) =>
      /\ block - prices[p].block <= MaxAge + MaxFutureSlots
      /\ prices[p].slot <= block + MaxFutureSlots

\* A feed only moves to a later slot.  An older slot's bundle may complete
\* after a newer one, and an attestor whose rows were cleared may submit for
\* the same slot again: neither rewrites the feed.
FeedNeverRewinds ==
  [][\A p \in DOMAIN prices :
       /\ p \in DOMAIN prices'
       /\ prices'[p] # prices[p] => prices'[p].slot > prices[p].slot]_vars

=============================================================================
