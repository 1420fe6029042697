------------------------- MODULE MCIntentSettlement -------------------------
(***************************************************************************)
(* Small instances of IntentSettlement.                                    *)
(***************************************************************************)
EXTENDS IntentSettlement

CONSTANTS a1, k1, k2, k3, r1, vault, c1, c2

K(type, ada) == [type |-> type, ada |-> ada]
PayoutOnly == {K("RequestPayout", 0)}

NoDeposits == [t \in {} |-> 0]

SmallPool == [capBps |-> 7, nav |-> 4, outstanding |-> 0]

\* Three keys, two signatures, one key that signs anything.
Trio == [members |-> {k1, k2, k3}, threshold |-> 2]
OnlyTrio == {Trio}

\* Each account can pay for one bond of 3; the treasury account exists.
SmallFree == [h \in Holders |-> IF h = r1 \/ h = k3 THEN 3 ELSE 1]

Paid == [tx |-> "paid", depth |-> 2, ada |-> 1]
Forged == [tx |-> "forged", depth |-> 2, ada |-> 1]
Shallow == [tx |-> "paid", depth |-> 1, ada |-> 1]
Claimed == {Paid, Forged, Shallow}
BorneOut == {<<c, Paid>> : c \in ClaimIds}

(***************************************************************************)
(* A chain upgraded in flight: a request of c1 that carries no bond, from  *)
(* before requests were bonded.  Either in block 1, the other intent       *)
(* expired on evidence, or in the last block for requests, when that has a *)
(* claim too, the request has expired and r1 alone can pay, for a batch.    *)
(***************************************************************************)
Upgraded == {<<a1, 0>>, <<a1, 1>>}
Payout(status) ==
  [kind |-> K("RequestPayout", 0), ttlBlock |-> 1 + IntentTTL, status |-> status]
Bound(i) == [intent |-> i, ada |-> 1, settled |-> FALSE]

InFlight(now, claimed) ==
  /\ block = now
  /\ nonces = [a \in Accounts |-> 2]
  /\ intents = [i \in Upgraded |->
       Payout(IF i[2] = 1 /\ c2 \notin claimed THEN "Expired" ELSE "Vouchered")]
  /\ pendingBatches = {}
  /\ expiryQueue = [b \in Blocks |-> IF now < b /\ b = 1 + IntentTTL THEN Upgraded ELSE {}]
  /\ pendingAttestations = [i \in IntentIds |-> {}]
  /\ attestationSigs = [i \in IntentIds |-> {k1, k2}]
  /\ credits = [a \in Accounts |-> 0]
  /\ pool = [SmallPool EXCEPT !.outstanding = Cardinality(claimed)]
  /\ deposits = {}
  /\ claims = [c \in claimed |-> Bound(<<a1, IF c = c1 THEN 0 ELSE 1>>)]
  /\ expireRequests = NoRows
  /\ members = FirstCommittee.members
  /\ threshold = FirstCommittee.threshold
  /\ minSignerThreshold = DefaultMinSignerThreshold
  /\ requests = Entry(c1, [requester |-> r1, evidence |-> Paid, direct |-> TRUE,
                           submitted |-> 1, bond |-> 0])
  /\ settlements = NoRows
  /\ bondedAttestedAt = NoRows
  /\ bondedRequester = NoRows
  /\ slashedRequests = {}
  /\ reserved = [h \in Holders |-> 0]

UpgradedInit ==
  \/ InFlight(1, {c1}) /\ free = GenesisFree
  \/ /\ InFlight(LastRequestBlock, {c1, c2})
     /\ free = [GenesisFree EXCEPT ![r1] = 6, ![k3] = 1]

FairUpgradedSpec == UpgradedInit /\ [][SettlementNext]_allVars /\ SettlementFairness

=============================================================================
