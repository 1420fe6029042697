----------------------- MODULE IntentSettlementProofs -----------------------
(***************************************************************************)
(* Proofs about IntentSettlement for every value of its constants.         *)
(***************************************************************************)
EXTENDS IntentSettlement, IntentPipelineProofs

(***************************************************************************)
(* The settlement half lives on top of the pipeline: whatever it does to   *)
(* the pipeline's state is a step of the pipeline.                         *)
(***************************************************************************)
\* A step of a batch and of a single call, with the batches of one folded in.
Posts ==
  \E who \in Requesters, cs \in SUBSET ClaimIds :
    \E entries \in [cs -> Terms], bond \in Bonds : RequestBatchSettle(who, entries, bond)

TopsUp ==
  \E who \in Requesters, c \in ClaimIds, bond \in Bonds : PostSettlementBond(who, c, bond)

AttestsClaims ==
  \E who \in members, cs \in SUBSET DOMAIN requests : AttestBatchSettle(who, cs)

Supersedes ==
  \E who \in members, c \in DOMAIN requests, terms \in Terms :
     SupersedeSettlementRequest(who, c, terms)

Slashes == \E who \in members, c \in DOMAIN requests : SlashBadSettlementEvidence(who, c)

Releases == \E c \in ClaimIds : ReleaseSettlementBond(c)

\* Every step is one of these, single calls being batches of one.
LEMMA SettlementCases ==
  [SettlementNext]_allVars => PipelineStep \/ Posts \/ TopsUp \/ AttestsClaims \/ Supersedes
                                \/ Slashes \/ Releases \/ UNCHANGED allVars
<1> SUFFICES ASSUME SettlementNext
             PROVE  PipelineStep \/ Posts \/ TopsUp \/ AttestsClaims \/ Supersedes
                      \/ Slashes \/ Releases
  OBVIOUS
<1>1. ASSUME NEW who \in Requesters, RequesterCall(who) PROVE Posts \/ TopsUp
  <2>1. ASSUME NEW c \in ClaimIds, NEW terms \in Terms, NEW bond \in Bonds,
               RequestSettle(who, c, terms, bond)
        PROVE  Posts
    <3>1. Entry(c, terms) \in [{c} -> Terms] /\ {c} \in SUBSET ClaimIds
      BY DEF Entry
    <3> QED
      BY <2>1, <3>1, Zenon DEF RequestSettle, Posts
  <2>2. ASSUME NEW cs \in SUBSET ClaimIds, NEW entries \in [cs -> Terms], NEW bond \in Bonds,
               RequestBatchSettle(who, entries, bond)
        PROVE  Posts
    BY <2>2, Zenon DEF Posts
  <2>3. ASSUME NEW c \in ClaimIds, NEW bond \in Bonds, PostSettlementBond(who, c, bond)
        PROVE  TopsUp
    BY <2>3, Zenon DEF TopsUp
  <2> QED
    BY <1>1, <2>1, <2>2, <2>3, Zenon DEF RequesterCall
<1>2. ASSUME NEW who \in members, CommitteeSettleCall(who)
      PROVE  AttestsClaims \/ Supersedes \/ Slashes
  <2>1. ASSUME NEW c \in DOMAIN requests, AttestSettle(who, c) PROVE AttestsClaims
    <3>1. {c} \in SUBSET DOMAIN requests
      OBVIOUS
    <3> QED
      BY <2>1, <3>1, Zenon DEF AttestSettle, AttestsClaims
  <2> QED
    BY <1>2, <2>1, Zenon DEF CommitteeSettleCall, AttestsClaims, Supersedes, Slashes
<1> QED
  BY <1>1, <1>2, Zenon DEF SettlementNext, Releases

\* Every step leaves the pipeline alone or takes one of its steps; those of a
\* settlement settle claims that are not.
LEMMA SettlementStepIsStep == [SettlementNext]_allVars => [Next]_vars
<1> SUFFICES ASSUME [SettlementNext]_allVars PROVE [Next]_vars
  OBVIOUS
<1>1. CASE PipelineStep
  BY <1>1, Zenon DEF PipelineStep, Next
<1>2. CASE Posts \/ TopsUp \/ Slashes \/ Releases \/ UNCHANGED allVars
  <2>1. UNCHANGED vars
    BY <1>2, Zenon DEF Posts, TopsUp, Slashes, Releases, RequestBatchSettle, PostSettlementBond,
                SlashBadSettlementEvidence, ReleaseSettlementBond, allVars
  <2> QED
    BY <2>1
<1>3. ASSUME NEW cs, cs \subseteq UnsettledClaims, cs # {}, SettleAttestedClaims(cs) PROVE Next
  BY <1>3, Zenon DEF Next
<1>4. CASE AttestsClaims
  <2> PICK who \in members, cs \in SUBSET DOMAIN requests : AttestBatchSettle(who, cs)
    BY <1>4 DEF AttestsClaims
  <2>1. cs \subseteq UnsettledClaims /\ cs # {} /\ SettleAttestedClaims(cs)
    BY DEF AttestBatchSettle
  <2> QED
    BY <2>1, <1>3
<1>5. CASE Supersedes
  <2> PICK who \in members, c \in DOMAIN requests, terms \in Terms :
             SupersedeSettlementRequest(who, c, terms)
    BY <1>5 DEF Supersedes
  <2>1. c \in UnsettledClaims /\ SettleAttestedClaims({c})
    BY DEF SupersedeSettlementRequest, CheckedTarget
  <2> QED
    BY <2>1, <1>3
<1> QED
  BY <1>1, <1>2, <1>4, <1>5, SettlementCases

\* Whatever is proved of the pipeline alone, where a claim may settle at any
\* time, holds of the pipeline with its settlements.
THEOREM SettlementExtendsPipeline == SettlementSpec => Spec
<1>1. SettlementInit => Init
  BY DEF SettlementInit
<1> QED
  BY <1>1, SettlementStepIsStep, PTL DEF SettlementSpec, Spec

\* So the types, the nonces and the claims of the pipeline hold under it.
LEMMA PipelineHolds == SettlementSpec => [](TypeOK /\ IdsAreUsed /\ ClaimsMatchIntents)
  BY SettlementExtendsPipeline, TypeCorrect, NonceCorrect, ClaimsCorrect, PTL

(***************************************************************************)
(* Type correctness.                                                       *)
(***************************************************************************)
\* A pipeline step adds unsettled claims and changes no claim that is there.
LEMMA PipelineKeepsClaims ==
  ASSUME TypeOK, PipelineStep
  PROVE  /\ UnsettledClaims \subseteq UnsettledClaims'
         /\ DOMAIN claims' \ UnsettledClaims' = DOMAIN claims \ UnsettledClaims
         /\ UNCHANGED settlementVars
<1>1. Calls /\ UNCHANGED settlementVars
  BY Zenon DEF PipelineStep, Calls
<1>2. CASE Vouchers
  <2> PICK who \in members, cs \in SUBSET ClaimIds :
             \E batch \in [cs -> Cover] : RequestBatchVouchers(who, batch)
    BY <1>2 DEF Vouchers
  <2> PICK batch \in [cs -> Cover] : RequestBatchVouchers(who, batch)
    OBVIOUS
  <2> DEFINE rows == [c \in DOMAIN batch |-> [intent |-> batch[c].intent,
                                              ada |-> batch[c].ada, settled |-> FALSE]]
  <2>1. claims' = Put(claims, rows) /\ DOMAIN rows \cap DOMAIN claims = {}
    BY DEF RequestBatchVouchers
  <2>2. \A c \in DOMAIN rows : rows[c].settled = FALSE
    OBVIOUS
  <2> HIDE DEF rows
  <2>3. /\ DOMAIN claims' = DOMAIN rows \cup DOMAIN claims
        /\ \A c \in DOMAIN rows : claims'[c] = rows[c]
        /\ \A c \in DOMAIN claims : claims'[c] = claims[c]
    BY <2>1 DEF Put
  <2> QED
    BY <1>1, <2>1, <2>2, <2>3 DEF UnsettledClaims
<1>3. CASE NextBlock \/ Submits \/ Attests \/ AttestsBatch \/ Expires \/ Quiet
  <2>1. UNCHANGED claims
    BY <1>3, QuietStep DEF NextBlock, Submits, DoSubmitIntents, Attests, AttestIntent,
       AttestsBatch, AttestBatchIntents, Expires, AttestExpirePolicy
  <2> QED
    BY <1>1, <2>1 DEF UnsettledClaims
<1> QED
  BY <1>1, <1>2, <1>3, CallCases

\* A settlement settles its claims and no other.
LEMMA SettleClaims ==
  ASSUME TypeOK, NEW cs \in SUBSET UnsettledClaims, SettleAttestedClaims(cs)
  PROVE  /\ DOMAIN claims' = DOMAIN claims
         /\ UnsettledClaims' = UnsettledClaims \ cs
         /\ UNCHANGED <<block, committeeVars>>
  BY DEF SettleAttestedClaims, UnsettledClaims, TypeOK, Claim

\* What a batch gives back and what it takes.
Replaced(cs, h) == SumFunction([c \in cs |-> ReplacedBond(c, h)])

Posted(who, cs, bond, h) == IF h = who THEN bond * Cardinality(cs) ELSE 0

\* The row that an entry becomes.
NewRequest(who, entry, bond) ==
  [requester |-> who, evidence |-> entry.evidence, direct |-> entry.direct,
   submitted |-> block, bond |-> bond]

\* Both are amounts.
LEMMA BondAmounts ==
  ASSUME SettlementTypeOK, NEW cs \in SUBSET ClaimIds, NEW h \in Holders
  PROVE  /\ IsFiniteSet(cs) /\ Cardinality(cs) \in Nat
         /\ Replaced(cs, h) \in Nat
         /\ Replaced(cs, h) = SumFunctionOnSet([c \in cs |-> ReplacedBond(c, h)], cs)
         /\ \A who, bond : bond \in Nat => Posted(who, cs, bond, h) \in Nat
<1> DEFINE f == [c \in cs |-> ReplacedBond(c, h)]
<1>1. IsFiniteSet(cs) /\ Cardinality(cs) \in Nat
  BY BoundsAssumption, FS_Subset, FS_CardinalityType
<1>2. DOMAIN f = cs /\ \A c \in cs : f[c] \in Nat
  BY DEF SettlementTypeOK, ReplacedBond, Request
<1>3. SumFunction(f) = SumFunctionOnSet(f, cs) /\ SumFunction(f) \in Nat
  <2> HIDE DEF f
  <2> QED
    BY <1>1, <1>2, SumOfMap
<1> QED
  BY <1>1, <1>3 DEF Replaced, Posted

\* A batch of requests, in terms of these.
LEMMA RequestEffect ==
  ASSUME TypeOK, SettlementTypeOK, NEW who \in Requesters, NEW cs \in SUBSET ClaimIds,
         NEW entries \in [cs -> Terms], NEW bond \in Bonds,
         RequestBatchSettle(who, entries, bond)
  PROVE  /\ bond \in Nat /\ bond > 0 /\ cs # {} /\ cs \subseteq UnsettledClaims
         /\ \A c \in cs : ~Tombstoned(c, NewRequest(who, entries[c], bond))
         /\ free[who] + AtMost(Replaced(cs, who), reserved[who]) >= Posted(who, cs, bond, who)
         /\ free' = [h \in Holders |-> free[h] + AtMost(Replaced(cs, h), reserved[h])
                                         - Posted(who, cs, bond, h)]
         /\ reserved' = [h \in Holders |-> reserved[h] - AtMost(Replaced(cs, h), reserved[h])
                                             + Posted(who, cs, bond, h)]
         /\ requests' = Put(requests, [c \in cs |-> NewRequest(who, entries[c], bond)])
         /\ \E gone : /\ gone \subseteq cs
                      /\ bondedAttestedAt' = Remove(bondedAttestedAt, gone)
                      /\ bondedRequester' = Remove(bondedRequester, gone)
         /\ UNCHANGED <<vars, settlements, slashedRequests>>
<1>1. who \in Holders /\ DOMAIN entries = cs
  BY DEF Holders
<1>2. bond \in Nat
  BY SettlementAssumption
<1>3. cs \subseteq UnsettledClaims
  BY DEF RequestBatchSettle, CheckedTarget
<1>4. \A c \in cs : ~Tombstoned(c, NewRequest(who, entries[c], bond))
  BY <1>1 DEF RequestBatchSettle, NewRequest
<1>5. free[who] + AtMost(Replaced(cs, who), reserved[who]) >= Posted(who, cs, bond, who)
  BY <1>1 DEF RequestBatchSettle, Funded, Replaced, Posted
<1>6. /\ free' = [h \in Holders |-> free[h] + AtMost(Replaced(cs, h), reserved[h])
                                      - Posted(who, cs, bond, h)]
      /\ reserved' = [h \in Holders |-> reserved[h] - AtMost(Replaced(cs, h), reserved[h])
                                          + Posted(who, cs, bond, h)]
  BY <1>1 DEF RequestBatchSettle, Replaced, Posted
<1>7. requests' = Put(requests, [c \in cs |-> NewRequest(who, entries[c], bond)])
  BY <1>1 DEF RequestBatchSettle, NewRequest
<1> QED
  BY <1>1, <1>2, <1>3, <1>4, <1>5, <1>6, <1>7 DEF RequestBatchSettle

\* The balances of the holders are amounts.
Balances == free \in [Holders -> Nat] /\ reserved \in [Holders -> Nat]

\* A batch of requests keeps the types.
LEMMA TypePosts ==
  ASSUME TypeOK, SettlementTypeOK, Posts
  PROVE  SettlementTypeOK'
<1> PICK who \in Requesters, cs \in SUBSET ClaimIds :
           \E entries \in [cs -> Terms], bond \in Bonds :
              RequestBatchSettle(who, entries, bond)
  BY DEF Posts
<1> PICK entries \in [cs -> Terms], bond \in Bonds : RequestBatchSettle(who, entries, bond)
  OBVIOUS
<1> DEFINE rows == [c \in cs |-> NewRequest(who, entries[c], bond)]
<1>1. /\ bond \in Nat /\ UNCHANGED <<settlements, slashedRequests>>
      /\ free[who] + AtMost(Replaced(cs, who), reserved[who]) >= Posted(who, cs, bond, who)
      /\ free' = [h \in Holders |-> free[h] + AtMost(Replaced(cs, h), reserved[h])
                                      - Posted(who, cs, bond, h)]
      /\ reserved' = [h \in Holders |-> reserved[h] - AtMost(Replaced(cs, h), reserved[h])
                                          + Posted(who, cs, bond, h)]
      /\ requests' = Put(requests, rows)
  BY RequestEffect
<1>2. PICK gone : bondedAttestedAt' = Remove(bondedAttestedAt, gone)
                  /\ bondedRequester' = Remove(bondedRequester, gone)
  BY RequestEffect
<1>3. \A c \in cs : rows[c] \in Request
  BY <1>1 DEF NewRequest, Request, Terms, TypeOK
<1>4. IsMap(requests', ClaimIds) /\ \A c \in DOMAIN requests' : requests'[c] \in Request
  <2>1. DOMAIN rows = cs /\ IsMap(requests, ClaimIds)
        /\ \A c \in DOMAIN requests : requests[c] \in Request
    BY DEF SettlementTypeOK
  <2> HIDE DEF rows
  <2> QED
    BY <1>1, <1>3, <2>1, PutRows
<1>5. Balances'
  <2>1. \A h \in Holders : /\ free[h] \in Nat /\ reserved[h] \in Nat
                           /\ Replaced(cs, h) \in Nat /\ Posted(who, cs, bond, h) \in Nat
                           /\ h # who => Posted(who, cs, bond, h) = 0
    BY <1>1, BondAmounts DEF SettlementTypeOK, Posted
  <2> QED
    BY <1>1, <2>1 DEF AtMost, Balances
<1>6. /\ IsMap(bondedAttestedAt', ClaimIds)
      /\ \A c \in DOMAIN bondedAttestedAt' : bondedAttestedAt'[c] \in Blocks
  BY <1>2, RemoveRows DEF SettlementTypeOK
<1>7. /\ IsMap(bondedRequester', ClaimIds)
      /\ \A c \in DOMAIN bondedRequester' :
            bondedRequester'[c] \in [requester : Requesters, bond : Nat]
  BY <1>2, RemoveRows DEF SettlementTypeOK
<1> QED
  BY <1>1, <1>4, <1>5, <1>6, <1>7 DEF SettlementTypeOK, Balances

\* A watcher's share and the treasury's make up the bond, whatever the
\* rounding and however large the configured share.
LEMMA SharesMakeTheBond ==
  ASSUME NEW bond \in Nat
  PROVE  /\ WatcherShare(bond) \in 0 .. bond /\ TreasuryShare(bond) \in 0 .. bond
         /\ WatcherShare(bond) + TreasuryShare(bond) = bond
<1> DEFINE s == AtMost(SlashWatcherShareBps, BpsScale)
           q == (bond * s) \div BpsScale
<1>1. s \in Nat /\ s <= BpsScale /\ BpsScale \in Nat \ {0}
  BY BoundsAssumption, SettlementAssumption DEF AtMost
<1> HIDE DEF s
<1>2. bond * s \in Nat /\ bond * s <= bond * BpsScale
  BY <1>1
<1>3. q \in Nat /\ q * BpsScale <= bond * s
  BY <1>1, <1>2
<1>4. ASSUME q > bond PROVE FALSE
  <2> HIDE DEF q
  <2>1. q * BpsScale >= (bond + 1) * BpsScale
    BY <1>1, <1>3, <1>4
  <2>2. (bond + 1) * BpsScale = bond * BpsScale + BpsScale
    BY <1>1
  <2>3. bond * BpsScale \in Nat
    BY <1>1
  <2> HIDE DEF q
  <2> QED
    BY <1>1, <1>2, <1>3, <2>1, <2>2, <2>3
<1>5. WatcherShare(bond) = q
  BY DEF WatcherShare, s
<1> HIDE DEF q
<1> QED
  BY <1>3, <1>4, <1>5 DEF TreasuryShare

\* The rows of the bonds are of their types.
BondRows ==
  /\ IsMap(bondedAttestedAt, ClaimIds)
  /\ \A c \in DOMAIN bondedAttestedAt : bondedAttestedAt[c] \in Blocks
  /\ IsMap(bondedRequester, ClaimIds)
  /\ \A c \in DOMAIN bondedRequester :
        bondedRequester[c] \in [requester : Requesters, bond : Nat]

RequestRows == IsMap(requests, ClaimIds) /\ \A c \in DOMAIN requests : requests[c] \in Request

SettlementRows ==
  IsMap(settlements, ClaimIds) /\ \A c \in DOMAIN settlements : settlements[c] \in Terms

SlashedRows ==
  slashedRequests \subseteq ClaimIds \X (Requesters \X Blocks \X Evidence \X BOOLEAN)

\* They are what the type invariant says, before a step and after it.
LEMMA TypeParts ==
  /\ SettlementTypeOK <=>
       RequestRows /\ SettlementRows /\ BondRows /\ SlashedRows /\ Balances
  /\ SettlementTypeOK' <=>
       RequestRows' /\ SettlementRows' /\ BondRows' /\ SlashedRows' /\ Balances'
  BY DEF SettlementTypeOK, RequestRows, SettlementRows, BondRows, SlashedRows, Balances

\* A refund moves no more than the reserve holds.
LEMMA TypeRefund ==
  ASSUME SettlementTypeOK, NEW c, NEW requester \in Requesters, NEW bond \in Nat,
         RefundSettlementBond(c, requester, bond)
  PROVE  Balances' /\ BondRows'
<1>1. Balances'
  BY DEF RefundSettlementBond, SettlementTypeOK, Balances, AtMost, Holders
<1>2. /\ IsMap(bondedAttestedAt', ClaimIds)
      /\ \A d \in DOMAIN bondedAttestedAt' : bondedAttestedAt'[d] \in Blocks
  BY RemoveRows DEF RefundSettlementBond, SettlementTypeOK
<1>3. /\ IsMap(bondedRequester', ClaimIds)
      /\ \A d \in DOMAIN bondedRequester' :
            bondedRequester'[d] \in [requester : Requesters, bond : Nat]
  BY RemoveRows DEF RefundSettlementBond, SettlementTypeOK
<1> QED
  BY <1>1, <1>2, <1>3 DEF BondRows

\* So does a request that is discarded.
LEMMA TypeDiscard ==
  ASSUME SettlementTypeOK, NEW c \in DOMAIN requests, DiscardRequest(c)
  PROVE  Balances' /\ BondRows' /\ RequestRows'
<1>1. requests[c].requester \in Requesters /\ requests[c].bond \in Nat
  BY DEF SettlementTypeOK, Request
<1>2. Balances' /\ BondRows'
  <2>1. CASE RefundSettlementBond(c, requests[c].requester, requests[c].bond)
    BY <1>1, <2>1, TypeRefund
  <2>2. CASE UNCHANGED <<balanceVars, bondedAttestedAt, bondedRequester>>
    <3>1. UNCHANGED <<free, reserved, bondedAttestedAt, bondedRequester>>
      BY <2>2 DEF balanceVars
    <3>2. Balances /\ BondRows
      BY TypeParts
    <3> QED
      BY <3>1, <3>2 DEF Balances, BondRows
  <2> QED
    BY <2>1, <2>2 DEF DiscardRequest
<1>3. RequestRows'
  BY RemoveRows DEF DiscardRequest, RequestRows, SettlementTypeOK
<1> QED
  BY <1>2, <1>3

\* A slash moves no more than the reserve holds and buries a request's id.
LEMMA TypeSlash ==
  ASSUME SettlementTypeOK, TypeOK, Slashes
  PROVE  SettlementTypeOK'
<1> PICK who \in members, c \in DOMAIN requests : SlashBadSettlementEvidence(who, c)
  BY DEF Slashes
<1> DEFINE r == requests[c]
           toWatcher == AtMost(WatcherShare(r.bond), reserved[r.requester])
           toTreasury == AtMost(TreasuryShare(r.bond), reserved[r.requester] - toWatcher)
<1>1. r \in Request /\ c \in ClaimIds
  BY DEF SettlementTypeOK, IsMap
<1>2. r.requester \in Holders /\ r.bond \in Nat
  BY <1>1 DEF Request, Holders
<1>3. reserved[r.requester] \in Nat
  BY <1>2 DEF SettlementTypeOK
<1>4. /\ toWatcher \in Nat /\ toTreasury \in Nat
      /\ toWatcher + toTreasury <= reserved[r.requester]
  <2>1. WatcherShare(r.bond) \in Nat /\ TreasuryShare(r.bond) \in Nat
    BY <1>2, SharesMakeTheBond
  <2> QED
    BY <1>3, <2>1 DEF AtMost
<1>5. /\ free' = [h \in Holders |-> free[h] + (IF h = who THEN toWatcher ELSE 0)
                                            + (IF h = Treasury THEN toTreasury ELSE 0)]
      /\ reserved' = [reserved EXCEPT ![r.requester] = @ - toWatcher - toTreasury]
  BY DEF SlashBadSettlementEvidence
<1>6. slashedRequests' = slashedRequests \cup {<<c, RequestId(r)>>}
      /\ requests' = Remove(requests, {c})
      /\ UNCHANGED <<settlements, bondedAttestedAt, bondedRequester>>
  BY DEF SlashBadSettlementEvidence
<1>7. Balances'
  <2> HIDE DEF toWatcher, toTreasury, r
  <2> QED
    BY <1>2, <1>3, <1>4, <1>5 DEF SettlementTypeOK, Balances
<1>8. RequestRows'
  BY <1>6, RemoveRows DEF RequestRows, SettlementTypeOK
<1>9. SlashedRows'
  BY <1>1, <1>6 DEF SlashedRows, SettlementTypeOK, RequestId, Request
<1>10. SettlementRows' /\ BondRows'
  <2>1. SettlementRows /\ BondRows
    BY TypeParts
  <2> QED
    BY <1>6, <2>1 DEF SettlementRows, BondRows
<1>11. SettlementTypeOK' <=> RequestRows' /\ SettlementRows' /\ BondRows' /\ SlashedRows' /\ Balances'
  BY TypeParts
<1> QED
  BY <1>7, <1>8, <1>9, <1>10, <1>11

\* A bond posted for an old request keeps the types.
LEMMA TypeTopUp ==
  ASSUME SettlementTypeOK, TopsUp
  PROVE  SettlementTypeOK'
<1> PICK who \in Requesters, c \in ClaimIds, bond \in Bonds : PostSettlementBond(who, c, bond)
  BY DEF TopsUp
<1>1. bond \in Nat /\ c \in DOMAIN requests /\ who \in Holders
  BY SettlementAssumption DEF PostSettlementBond, Fresh, Holders
<1>2. Balances'
  BY <1>1 DEF PostSettlementBond, SettlementTypeOK, Balances, Funded
<1>3. RequestRows'
  <2>1. requests' = [requests EXCEPT ![c].bond = bond]
    BY DEF PostSettlementBond
  <2> QED
    BY <1>1, <2>1 DEF SettlementTypeOK, RequestRows, Request, IsMap
<1>4. SettlementRows' /\ BondRows' /\ SlashedRows'
  BY TypeParts DEF PostSettlementBond, bondVars, SettlementRows, BondRows, SlashedRows
<1> QED
  BY <1>2, <1>3, <1>4, TypeParts

\* An attestation keeps the types: it moves what the requests say.
LEMMA TypeAttestsClaims ==
  ASSUME TypeOK, SettlementTypeOK, AttestsClaims
  PROVE  SettlementTypeOK'
<1> PICK who \in members, cs \in SUBSET DOMAIN requests : AttestBatchSettle(who, cs)
  BY DEF AttestsClaims
<1> DEFINE bonded == {c \in cs : requests[c].bond > 0}
           terms == [c \in cs |-> [evidence |-> requests[c].evidence,
                                   direct |-> requests[c].direct]]
           dates == [c \in bonded |-> block]
           bonds == [c \in bonded |-> [requester |-> requests[c].requester,
                                       bond |-> requests[c].bond]]
<1>1. /\ settlements' = Put(settlements, terms)
      /\ bondedAttestedAt' = Put(bondedAttestedAt, dates)
      /\ bondedRequester' = Put(bondedRequester, bonds)
      /\ requests' = Remove(requests, cs)
      /\ UNCHANGED <<slashedRequests, free, reserved>>
  BY DEF AttestBatchSettle, balanceVars
<1>2. /\ DOMAIN terms \subseteq ClaimIds /\ \A c \in DOMAIN terms : terms[c] \in Terms
      /\ DOMAIN dates \subseteq ClaimIds /\ \A c \in DOMAIN dates : dates[c] \in Blocks
      /\ DOMAIN bonds \subseteq ClaimIds
      /\ \A c \in DOMAIN bonds : bonds[c] \in [requester : Requesters, bond : Nat]
  BY DEF SettlementTypeOK, TypeOK, IsMap, Request, Terms
<1> HIDE DEF terms, dates, bonds
<1>3. SettlementRows'
  BY <1>1, <1>2, PutRows DEF SettlementTypeOK, SettlementRows
<1>4. BondRows'
  <2>1. /\ IsMap(bondedAttestedAt', ClaimIds)
        /\ \A c \in DOMAIN bondedAttestedAt' : bondedAttestedAt'[c] \in Blocks
    BY <1>1, <1>2, PutRows DEF SettlementTypeOK
  <2>2. /\ IsMap(bondedRequester', ClaimIds)
        /\ \A c \in DOMAIN bondedRequester' :
              bondedRequester'[c] \in [requester : Requesters, bond : Nat]
    BY <1>1, <1>2, PutRows DEF SettlementTypeOK
  <2> QED
    BY <2>1, <2>2 DEF BondRows
<1>5. RequestRows'
  BY <1>1, RemoveRows DEF RequestRows, SettlementTypeOK
<1>6. SlashedRows' /\ Balances'
  BY <1>1 DEF SettlementTypeOK, SlashedRows, Balances
<1> QED
  BY <1>3, <1>4, <1>5, <1>6, TypeParts

\* So does a supersede.
LEMMA TypeSupersedes ==
  ASSUME SettlementTypeOK, Supersedes
  PROVE  SettlementTypeOK'
<1> PICK who \in members, c \in DOMAIN requests, terms \in Terms :
           SupersedeSettlementRequest(who, c, terms)
  BY DEF Supersedes
<1>1. /\ DiscardRequest(c)
      /\ settlements' = Put(settlements, Entry(c, terms))
      /\ UNCHANGED slashedRequests
  BY DEF SupersedeSettlementRequest
<1>2. Balances' /\ BondRows' /\ RequestRows'
  BY <1>1, TypeDiscard
<1>3. SettlementRows'
  <2>1. /\ DOMAIN Entry(c, terms) \subseteq ClaimIds
        /\ \A d \in DOMAIN Entry(c, terms) : Entry(c, terms)[d] \in Terms
    BY DEF Entry, SettlementTypeOK, IsMap
  <2> QED
    BY <1>1, <2>1, PutRows DEF SettlementTypeOK, SettlementRows
<1> QED
  BY <1>1, <1>2, <1>3, TypeParts DEF SlashedRows

\* And a release.
LEMMA TypeReleases ==
  ASSUME SettlementTypeOK, Releases
  PROVE  SettlementTypeOK'
<1> PICK c \in ClaimIds : ReleaseSettlementBond(c)
  BY DEF Releases
<1>1. UNCHANGED <<settlements, slashedRequests>>
  BY DEF ReleaseSettlementBond
<1>2. Balances' /\ BondRows' /\ RequestRows'
  <2>1. CASE c \in DOMAIN requests /\ DiscardRequest(c)
    BY <2>1, TypeDiscard
  <2>2. CASE /\ c \in DOMAIN bondedRequester /\ UNCHANGED requests
             /\ RefundSettlementBond(c, bondedRequester[c].requester, bondedRequester[c].bond)
    <3>1. bondedRequester[c].requester \in Requesters /\ bondedRequester[c].bond \in Nat
      BY <2>2 DEF SettlementTypeOK
    <3>2. Balances' /\ BondRows'
      BY <2>2, <3>1, TypeRefund
    <3> QED
      BY <2>2, <3>2, TypeParts DEF RequestRows
  <2> QED
    BY <2>1, <2>2 DEF ReleaseSettlementBond
<1> QED
  BY <1>1, <1>2, TypeParts DEF SettlementRows, SlashedRows

\* Every step keeps the types.
LEMMA SettlementTypeStep ==
  TypeOK /\ SettlementTypeOK /\ [SettlementNext]_allVars => SettlementTypeOK'
<1> SUFFICES ASSUME TypeOK, SettlementTypeOK, [SettlementNext]_allVars
             PROVE  SettlementTypeOK'
  OBVIOUS
<1>1. CASE PipelineStep \/ UNCHANGED allVars
  <2>1. UNCHANGED <<requests, settlements, bondedAttestedAt, bondedRequester,
                    slashedRequests, free, reserved>>
    BY <1>1, PipelineKeepsClaims DEF allVars, settlementVars, bondVars, balanceVars
  <2> QED
    BY <2>1 DEF SettlementTypeOK
<1> QED
  BY <1>1, TypePosts, TypeTopUp, TypeAttestsClaims, TypeSupersedes, TypeSlash, TypeReleases,
     SettlementCases

\* Genesis is of the types.
LEMMA SettlementTypeInit == SettlementInit => SettlementTypeOK
<1> SUFFICES ASSUME SettlementInit PROVE SettlementTypeOK
  OBVIOUS
<1>1. \A keys : IsMap(NoRows, keys) /\ DOMAIN NoRows = {}
  BY DEF IsMap, NoRows
<1>2. Balances
  BY SettlementAssumption DEF SettlementInit, Balances
<1> QED
  BY <1>1, <1>2 DEF SettlementInit, SettlementTypeOK, Balances

\* No balance goes below zero and no row is malformed, in every reachable
\* state: each of the refunds and shares is covered by the reserve it leaves.
THEOREM SettlementTypes == SettlementSpec => []SettlementTypeOK
  BY SettlementTypeInit, SettlementTypeStep, PipelineHolds, PTL DEF SettlementSpec

(***************************************************************************)
(* The stages of a claim.                                                  *)
(***************************************************************************)
\* Claims at one stage have one bond.
LEMMA StagesHaveOneBond == OneStagePerClaim => OneBond
  BY DEF OneStagePerClaim, OneBond

\* What an attestation writes, claim by claim.
LEMMA AttestEffect ==
  ASSUME TypeOK, SettlementTypeOK, NEW who, NEW cs \in SUBSET DOMAIN requests,
         AttestBatchSettle(who, cs)
  PROVE  LET bonded == {c \in cs : requests[c].bond > 0}
         IN  /\ cs \subseteq UnsettledClaims
             /\ DOMAIN claims' = DOMAIN claims
             /\ UnsettledClaims' = UnsettledClaims \ cs
             /\ DOMAIN settlements' = DOMAIN settlements \cup cs
             /\ \A c \in cs : settlements'[c] = [evidence |-> requests[c].evidence,
                                                 direct |-> requests[c].direct]
             /\ \A c \in DOMAIN settlements \ cs : settlements'[c] = settlements[c]
             /\ DOMAIN bondedAttestedAt' = DOMAIN bondedAttestedAt \cup bonded
             /\ DOMAIN bondedRequester' = DOMAIN bondedRequester \cup bonded
             /\ \A c \in bonded : bondedRequester'[c] = [requester |-> requests[c].requester,
                                                         bond |-> requests[c].bond]
             /\ \A c \in DOMAIN bondedRequester \ bonded :
                   bondedRequester'[c] = bondedRequester[c]
             /\ DOMAIN requests' = DOMAIN requests \ cs
             /\ \A c \in DOMAIN requests \ cs : requests'[c] = requests[c]
             /\ UNCHANGED <<block, committeeVars, slashedRequests, free, reserved>>
<1> DEFINE bonded == {c \in cs : requests[c].bond > 0}
<1>1. cs \subseteq UnsettledClaims /\ SettleAttestedClaims(cs)
  BY DEF AttestBatchSettle
<1>2. /\ DOMAIN claims' = DOMAIN claims
      /\ UnsettledClaims' = UnsettledClaims \ cs
      /\ UNCHANGED <<block, committeeVars>>
  BY <1>1, SettleClaims
<1>3. /\ settlements' = Put(settlements, [c \in cs |-> [evidence |-> requests[c].evidence,
                                                        direct |-> requests[c].direct]])
      /\ bondedAttestedAt' = Put(bondedAttestedAt, [c \in bonded |-> block])
      /\ bondedRequester' =
           Put(bondedRequester, [c \in bonded |-> [requester |-> requests[c].requester,
                                                   bond |-> requests[c].bond]])
      /\ requests' = Remove(requests, cs)
      /\ UNCHANGED <<slashedRequests, free, reserved>>
  BY DEF AttestBatchSettle, balanceVars
<1> HIDE DEF bonded
<1>4. /\ DOMAIN settlements' = DOMAIN settlements \cup cs
      /\ \A c \in cs : settlements'[c] = [evidence |-> requests[c].evidence,
                                          direct |-> requests[c].direct]
      /\ \A c \in DOMAIN settlements \ cs : settlements'[c] = settlements[c]
  BY <1>3 DEF Put
<1>5. /\ DOMAIN bondedAttestedAt' = DOMAIN bondedAttestedAt \cup bonded
      /\ DOMAIN bondedRequester' = DOMAIN bondedRequester \cup bonded
      /\ \A c \in bonded : bondedRequester'[c] = [requester |-> requests[c].requester,
                                                  bond |-> requests[c].bond]
      /\ \A c \in DOMAIN bondedRequester \ bonded : bondedRequester'[c] = bondedRequester[c]
  BY <1>3 DEF Put
<1>6. /\ DOMAIN requests' = DOMAIN requests \ cs
      /\ \A c \in DOMAIN requests \ cs : requests'[c] = requests[c]
  BY <1>3 DEF Remove, Restrict
<1> QED
  BY <1>1, <1>2, <1>3, <1>4, <1>5, <1>6 DEF bonded

\* A refund takes both records of the bond, a discard the request too.
LEMMA RefundRecords ==
  ASSUME NEW c, NEW requester, NEW bond, RefundSettlementBond(c, requester, bond)
  PROVE  /\ DOMAIN bondedAttestedAt' = DOMAIN bondedAttestedAt \ {c}
         /\ DOMAIN bondedRequester' = DOMAIN bondedRequester \ {c}
         /\ \A d \in DOMAIN bondedRequester \ {c} : bondedRequester'[d] = bondedRequester[d]
  BY DEF RefundSettlementBond, Remove, Restrict

\* Discarding a request leaves the records of attested bonds alone.
LEMMA DiscardRecords ==
  ASSUME NEW c \in DOMAIN requests \ DOMAIN bondedAttestedAt, DiscardRequest(c),
         DOMAIN bondedAttestedAt = DOMAIN bondedRequester
  PROVE  /\ DOMAIN bondedAttestedAt' = DOMAIN bondedAttestedAt
         /\ DOMAIN bondedRequester' = DOMAIN bondedRequester
         /\ \A d \in DOMAIN bondedRequester : bondedRequester'[d] = bondedRequester[d]
         /\ DOMAIN requests' = DOMAIN requests \ {c}
         /\ \A d \in DOMAIN requests \ {c} : requests'[d] = requests[d]
<1>1. requests' = Remove(requests, {c})
  BY DEF DiscardRequest
<1>2. CASE RefundSettlementBond(c, requests[c].requester, requests[c].bond)
  <2>1. /\ DOMAIN bondedAttestedAt' = DOMAIN bondedAttestedAt \ {c}
        /\ DOMAIN bondedRequester' = DOMAIN bondedRequester \ {c}
        /\ \A d \in DOMAIN bondedRequester \ {c} : bondedRequester'[d] = bondedRequester[d]
    BY <1>2, RefundRecords
  <2> QED
    BY <1>1, <2>1 DEF Remove, Restrict
<1>3. CASE UNCHANGED <<bondedAttestedAt, bondedRequester>>
  BY <1>1, <1>3 DEF Remove, Restrict
<1> QED
  BY <1>2, <1>3 DEF DiscardRequest

\* What a release takes: a request that expired, or the records of a bond.
LEMMA ReleaseEffect ==
  ASSUME NEW c, ReleaseSettlementBond(c), DOMAIN bondedAttestedAt = DOMAIN bondedRequester
  PROVE  /\ DOMAIN requests' \subseteq DOMAIN requests
         /\ \A d \in DOMAIN requests' : requests'[d] = requests[d]
         /\ DOMAIN bondedAttestedAt' = DOMAIN bondedRequester'
         /\ DOMAIN bondedRequester' \subseteq DOMAIN bondedRequester
         /\ UNCHANGED <<vars, settlements, slashedRequests>>
<1>1. CASE c \in DOMAIN requests \ DOMAIN bondedAttestedAt /\ DiscardRequest(c)
  BY <1>1, DiscardRecords DEF ReleaseSettlementBond
<1>2. CASE /\ RefundSettlementBond(c, bondedRequester[c].requester, bondedRequester[c].bond)
           /\ UNCHANGED requests
  BY <1>2, RefundRecords DEF ReleaseSettlementBond
<1> QED
  BY <1>1, <1>2 DEF ReleaseSettlementBond

\* What a supersede writes.
LEMMA SupersedeEffect ==
  ASSUME TypeOK, SettlementTypeOK, OneBond,
         NEW who, NEW c, NEW terms, SupersedeSettlementRequest(who, c, terms)
  PROVE  /\ c \in UnsettledClaims /\ c \in DOMAIN requests \ DOMAIN bondedAttestedAt
         /\ DOMAIN claims' = DOMAIN claims
         /\ UnsettledClaims' = UnsettledClaims \ {c}
         /\ DOMAIN settlements' = DOMAIN settlements \cup {c}
         /\ settlements'[c] = terms
         /\ \A d \in DOMAIN settlements \ {c} : settlements'[d] = settlements[d]
         /\ DOMAIN bondedAttestedAt' = DOMAIN bondedAttestedAt
         /\ DOMAIN bondedRequester' = DOMAIN bondedRequester
         /\ \A d \in DOMAIN bondedRequester : bondedRequester'[d] = bondedRequester[d]
         /\ DOMAIN requests' = DOMAIN requests \ {c}
         /\ \A d \in DOMAIN requests \ {c} : requests'[d] = requests[d]
         /\ UNCHANGED <<block, committeeVars, slashedRequests>>
<1>1. c \in UnsettledClaims /\ c \in DOMAIN requests /\ SettleAttestedClaims({c})
  BY DEF SupersedeSettlementRequest, CheckedTarget
<1>2. c \notin DOMAIN bondedAttestedAt
  BY <1>1 DEF OneBond
<1>3. /\ DOMAIN claims' = DOMAIN claims
      /\ UnsettledClaims' = UnsettledClaims \ {c}
      /\ UNCHANGED <<block, committeeVars>>
  BY <1>1, SettleClaims
<1>4. settlements' = Put(settlements, Entry(c, terms)) /\ DiscardRequest(c)
      /\ UNCHANGED slashedRequests
  BY DEF SupersedeSettlementRequest
<1>5. /\ DOMAIN settlements' = DOMAIN settlements \cup {c}
      /\ settlements'[c] = terms
      /\ \A d \in DOMAIN settlements \ {c} : settlements'[d] = settlements[d]
  BY <1>4 DEF Put, Entry
<1>6. /\ DOMAIN bondedAttestedAt' = DOMAIN bondedAttestedAt
      /\ DOMAIN bondedRequester' = DOMAIN bondedRequester
      /\ \A d \in DOMAIN bondedRequester : bondedRequester'[d] = bondedRequester[d]
      /\ DOMAIN requests' = DOMAIN requests \ {c}
      /\ \A d \in DOMAIN requests \ {c} : requests'[d] = requests[d]
  BY <1>1, <1>2, <1>4, DiscardRecords DEF OneBond
<1> QED
  BY <1>1, <1>2, <1>3, <1>4, <1>5, <1>6

\* Requests are added on unsettled claims, over requests or over none.
LEMMA PostsEffect ==
  ASSUME TypeOK, SettlementTypeOK, OneBond, NEW who \in Requesters,
         NEW cs \in SUBSET ClaimIds, NEW entries \in [cs -> Terms], NEW bond \in Bonds,
         RequestBatchSettle(who, entries, bond)
  PROVE  /\ cs \subseteq UnsettledClaims
         /\ DOMAIN requests' = DOMAIN requests \cup cs
         /\ \A c \in cs : requests'[c] = NewRequest(who, entries[c], bond)
         /\ \A c \in DOMAIN requests \ cs : requests'[c] = requests[c]
         /\ DOMAIN bondedAttestedAt' = DOMAIN bondedAttestedAt
         /\ DOMAIN bondedRequester' = DOMAIN bondedRequester
         /\ \A c \in DOMAIN bondedRequester : bondedRequester'[c] = bondedRequester[c]
         /\ UNCHANGED <<vars, settlements, slashedRequests>>
<1> DEFINE rows == [c \in cs |-> NewRequest(who, entries[c], bond)]
<1>1. /\ cs \subseteq UnsettledClaims
      /\ requests' = Put(requests, rows)
      /\ UNCHANGED <<vars, settlements, slashedRequests>>
  BY RequestEffect
<1>2. PICK gone : /\ gone \subseteq cs
                  /\ bondedAttestedAt' = Remove(bondedAttestedAt, gone)
                  /\ bondedRequester' = Remove(bondedRequester, gone)
  BY RequestEffect
<1>3. gone \cap DOMAIN bondedAttestedAt = {} /\ gone \cap DOMAIN bondedRequester = {}
  BY <1>1, <1>2 DEF OneBond
<1>4. DOMAIN rows = cs /\ \A c \in cs : rows[c] = NewRequest(who, entries[c], bond)
  OBVIOUS
<1> HIDE DEF rows
<1>5. /\ DOMAIN requests' = DOMAIN requests \cup cs
      /\ \A c \in cs : requests'[c] = NewRequest(who, entries[c], bond)
      /\ \A c \in DOMAIN requests \ cs : requests'[c] = requests[c]
  BY <1>1, <1>4 DEF Put
<1>6. /\ DOMAIN bondedAttestedAt' = DOMAIN bondedAttestedAt
      /\ DOMAIN bondedRequester' = DOMAIN bondedRequester
      /\ \A c \in DOMAIN bondedRequester : bondedRequester'[c] = bondedRequester[c]
  BY <1>2, <1>3 DEF Remove, Restrict
<1> QED
  BY <1>1, <1>5, <1>6

\* A slash takes the request and buries its id.
LEMMA SlashEffect ==
  ASSUME NEW who, NEW c, SlashBadSettlementEvidence(who, c)
  PROVE  /\ DOMAIN requests' = DOMAIN requests \ {c}
         /\ \A d \in DOMAIN requests \ {c} : requests'[d] = requests[d]
         /\ slashedRequests' = slashedRequests \cup {<<c, RequestId(requests[c])>>}
         /\ UNCHANGED <<vars, settlements, bondedAttestedAt, bondedRequester>>
  BY DEF SlashBadSettlementEvidence, Remove, Restrict

\* A request appears on an unsettled claim, and goes when its claim settles.
RequestsGo ==
  /\ DOMAIN requests' \subseteq DOMAIN requests \cup UnsettledClaims
  /\ DOMAIN requests' \cap UnsettledClaims \subseteq UnsettledClaims'

\* Every step leaves each claim one bond.
LEMMA OneBondStep ==
  TypeOK /\ SettlementTypeOK /\ OneBond /\ [SettlementNext]_allVars
    => OneBond' /\ RequestsGo
<1> SUFFICES ASSUME TypeOK, SettlementTypeOK, OneBond, [SettlementNext]_allVars
             PROVE  OneBond' /\ RequestsGo
  OBVIOUS
<1>1. CASE PipelineStep
  BY <1>1, PipelineKeepsClaims DEF OneBond, RequestsGo, settlementVars, bondVars
<1>2. CASE UNCHANGED allVars
  BY <1>2 DEF OneBond, RequestsGo, UnsettledClaims, allVars, vars, settlementVars, bondVars
<1>3. CASE Posts
  <2> PICK who \in Requesters, cs \in SUBSET ClaimIds :
             \E entries \in [cs -> Terms], bond \in Bonds :
                RequestBatchSettle(who, entries, bond)
    BY <1>3 DEF Posts
  <2> PICK entries \in [cs -> Terms], bond \in Bonds : RequestBatchSettle(who, entries, bond)
    OBVIOUS
  <2>1. /\ cs \subseteq UnsettledClaims
        /\ DOMAIN requests' = DOMAIN requests \cup cs
        /\ DOMAIN bondedAttestedAt' = DOMAIN bondedAttestedAt
        /\ DOMAIN bondedRequester' = DOMAIN bondedRequester
        /\ UNCHANGED <<claims, settlements>>
    BY PostsEffect DEF vars
  <2> QED
    BY <2>1 DEF OneBond, RequestsGo, UnsettledClaims
<1>4. CASE TopsUp
  <2>1. DOMAIN requests' = DOMAIN requests
        /\ UNCHANGED <<claims, settlements, bondedAttestedAt, bondedRequester>>
    BY <1>4 DEF TopsUp, PostSettlementBond, vars, bondVars
  <2> QED
    BY <2>1 DEF OneBond, RequestsGo, UnsettledClaims
<1>5. CASE AttestsClaims
  <2> PICK who \in members, cs \in SUBSET DOMAIN requests : AttestBatchSettle(who, cs)
    BY <1>5 DEF AttestsClaims
  <2> DEFINE bonded == {c \in cs : requests[c].bond > 0}
  <2>1. /\ cs \subseteq UnsettledClaims
        /\ DOMAIN claims' = DOMAIN claims
        /\ UnsettledClaims' = UnsettledClaims \ cs
        /\ DOMAIN settlements' = DOMAIN settlements \cup cs
        /\ DOMAIN bondedAttestedAt' = DOMAIN bondedAttestedAt \cup bonded
        /\ DOMAIN bondedRequester' = DOMAIN bondedRequester \cup bonded
        /\ DOMAIN requests' = DOMAIN requests \ cs
    BY AttestEffect
  <2>2. bonded \subseteq cs /\ UnsettledClaims \subseteq DOMAIN claims
    BY DEF UnsettledClaims
  <2> HIDE DEF bonded
  <2> QED
    BY <2>1, <2>2 DEF OneBond, RequestsGo
<1>6. CASE Supersedes
  <2> PICK who \in members, c \in DOMAIN requests, terms \in Terms :
             SupersedeSettlementRequest(who, c, terms)
    BY <1>6 DEF Supersedes
  <2>1. /\ c \in UnsettledClaims
        /\ DOMAIN claims' = DOMAIN claims
        /\ UnsettledClaims' = UnsettledClaims \ {c}
        /\ DOMAIN settlements' = DOMAIN settlements \cup {c}
        /\ DOMAIN bondedAttestedAt' = DOMAIN bondedAttestedAt
        /\ DOMAIN bondedRequester' = DOMAIN bondedRequester
        /\ DOMAIN requests' = DOMAIN requests \ {c}
    BY SupersedeEffect
  <2>2. UnsettledClaims \subseteq DOMAIN claims
    BY DEF UnsettledClaims
  <2> QED
    BY <2>1, <2>2 DEF OneBond, RequestsGo
<1>7. CASE Slashes
  <2>1. DOMAIN requests' \subseteq DOMAIN requests
        /\ UNCHANGED <<claims, settlements, bondedAttestedAt, bondedRequester>>
    BY <1>7, SlashEffect DEF Slashes, vars
  <2> QED
    BY <2>1 DEF OneBond, RequestsGo, UnsettledClaims
<1>8. CASE Releases
  <2>1. /\ DOMAIN requests' \subseteq DOMAIN requests
        /\ DOMAIN bondedAttestedAt' = DOMAIN bondedRequester'
        /\ DOMAIN bondedRequester' \subseteq DOMAIN bondedRequester
        /\ UNCHANGED <<claims, settlements>>
    BY <1>8, ReleaseEffect DEF Releases, OneBond, vars
  <2> QED
    BY <2>1 DEF OneBond, RequestsGo, UnsettledClaims
<1> QED
  BY <1>1, <1>2, <1>3, <1>4, <1>5, <1>6, <1>7, <1>8, SettlementCases

\* So every step leaves each claim at one stage.
LEMMA StageStep ==
  TypeOK /\ SettlementTypeOK /\ OneStagePerClaim /\ [SettlementNext]_allVars
    => OneStagePerClaim'
  BY OneBondStep DEF OneStagePerClaim, RequestsGo

\* A claim is at one stage in every reachable state: no call leaves a pending
\* request on a settled claim, half of the record of a bond, or a settled
\* claim that does not name what settled it.
THEOREM StagesAreOne == SettlementSpec => []OneStagePerClaim
<1>1. SettlementInit => OneStagePerClaim
  BY DEF SettlementInit, Init, OneStagePerClaim, OneBond, UnsettledClaims, NoRows
<1> QED
  BY <1>1, StageStep, SettlementTypes, PipelineHolds, PTL DEF SettlementSpec

\* So a claim has one bond, in every reachable state.
LEMMA BondsAreOne == SettlementSpec => []OneBond
  BY StagesAreOne, StagesHaveOneBond, PTL

(***************************************************************************)
(* Settlements are final and slashed requests stay away.                   *)
(***************************************************************************)
\* A step that settles reaches unsettled claims only, which no settlement names.
LEMMA SettlementsStay ==
  ASSUME TypeOK, SettlementTypeOK, OneBond, [SettlementNext]_allVars
  PROVE  \A c \in DOMAIN settlements :
            c \in DOMAIN settlements' /\ settlements'[c] = settlements[c]
<1>1. CASE PipelineStep
  BY <1>1, PipelineKeepsClaims DEF settlementVars
<1>2. CASE Posts \/ TopsUp \/ Slashes \/ Releases \/ UNCHANGED allVars
  <2>1. UNCHANGED settlements
    BY <1>2 DEF Posts, TopsUp, Slashes, Releases, RequestBatchSettle, PostSettlementBond,
                SlashBadSettlementEvidence, ReleaseSettlementBond, allVars, settlementVars
  <2> QED
    BY <2>1
<1>3. \A c \in DOMAIN settlements : c \notin UnsettledClaims
  BY DEF OneBond
<1>4. CASE AttestsClaims
  BY <1>3, <1>4, AttestEffect DEF AttestsClaims
<1>5. CASE Supersedes
  BY <1>3, <1>5, SupersedeEffect DEF Supersedes
<1> QED
  BY <1>1, <1>2, <1>4, <1>5, SettlementCases

\* No later request, attestation, supersede or release rewrites what settled a
\* claim.
THEOREM SettlementsAreFinal == SettlementSpec => SettlementIsFinal
<1>1. TypeOK /\ SettlementTypeOK /\ OneBond /\ [SettlementNext]_allVars
        => [\A c \in DOMAIN settlements :
              c \in DOMAIN settlements' /\ settlements'[c] = settlements[c]]_allVars
  BY SettlementsStay
<1> QED
  BY <1>1, PipelineHolds, SettlementTypes, BondsAreOne, PTL
     DEF SettlementSpec, SettlementIsFinal

\* No step stores a request under an id that was slashed: a new one is checked
\* against the tombstones, a bond posted later is no part of the id, and the
\* slash that buries an id takes its request away.
LEMMA TombstoneStep ==
  TypeOK /\ SettlementTypeOK /\ OneBond /\ NoSlashedRequestReturns
    /\ [SettlementNext]_allVars => NoSlashedRequestReturns'
<1> SUFFICES ASSUME TypeOK, SettlementTypeOK, OneBond, NoSlashedRequestReturns,
                    [SettlementNext]_allVars
             PROVE  NoSlashedRequestReturns'
  OBVIOUS
<1>1. CASE PipelineStep \/ UNCHANGED allVars
  <2>1. UNCHANGED <<requests, slashedRequests>>
    BY <1>1, PipelineKeepsClaims DEF allVars, settlementVars, bondVars
  <2> QED
    BY <2>1 DEF NoSlashedRequestReturns, RequestId
<1>2. CASE Posts
  <2> PICK who \in Requesters, cs \in SUBSET ClaimIds :
             \E entries \in [cs -> Terms], bond \in Bonds :
                RequestBatchSettle(who, entries, bond)
    BY <1>2 DEF Posts
  <2> PICK entries \in [cs -> Terms], bond \in Bonds : RequestBatchSettle(who, entries, bond)
    OBVIOUS
  <2>1. /\ DOMAIN requests' = DOMAIN requests \cup cs
        /\ \A c \in cs : requests'[c] = NewRequest(who, entries[c], bond)
        /\ \A c \in DOMAIN requests \ cs : requests'[c] = requests[c]
        /\ UNCHANGED slashedRequests
    BY PostsEffect
  <2>2. \A c \in cs : ~Tombstoned(c, NewRequest(who, entries[c], bond))
    BY RequestEffect
  <2> QED
    BY <2>1, <2>2 DEF NoSlashedRequestReturns, Tombstoned, RequestId
<1>3. CASE TopsUp
  <2> PICK who \in Requesters, c \in ClaimIds, bond \in Bonds : PostSettlementBond(who, c, bond)
    BY <1>3 DEF TopsUp
  <2>1. requests' = [requests EXCEPT ![c].bond = bond] /\ c \in DOMAIN requests
        /\ UNCHANGED slashedRequests
    BY DEF PostSettlementBond, Fresh, bondVars
  <2>2. \A d \in DOMAIN requests : requests[d] \in Request
    BY DEF SettlementTypeOK
  <2>3. \A d \in DOMAIN requests : /\ d \in DOMAIN requests'
                                   /\ requests'[d].requester = requests[d].requester
                                   /\ requests'[d].submitted = requests[d].submitted
                                   /\ requests'[d].evidence = requests[d].evidence
                                   /\ requests'[d].direct = requests[d].direct
    BY <2>1, <2>2 DEF Request
  <2>4. DOMAIN requests' = DOMAIN requests
    BY <2>1
  <2> QED
    BY <2>1, <2>3, <2>4 DEF NoSlashedRequestReturns, RequestId
<1>4. CASE AttestsClaims
  <2>1. /\ DOMAIN requests' \subseteq DOMAIN requests
        /\ \A c \in DOMAIN requests' : requests'[c] = requests[c]
        /\ UNCHANGED slashedRequests
    BY <1>4, AttestEffect DEF AttestsClaims
  <2> QED
    BY <2>1 DEF NoSlashedRequestReturns, RequestId
<1>5. CASE Supersedes
  <2>1. /\ DOMAIN requests' \subseteq DOMAIN requests
        /\ \A c \in DOMAIN requests' : requests'[c] = requests[c]
        /\ UNCHANGED slashedRequests
    BY <1>5, SupersedeEffect DEF Supersedes
  <2> QED
    BY <2>1 DEF NoSlashedRequestReturns, RequestId
<1>6. CASE Slashes
  <2> PICK who \in members, c \in DOMAIN requests : SlashBadSettlementEvidence(who, c)
    BY <1>6 DEF Slashes
  <2>1. /\ DOMAIN requests' = DOMAIN requests \ {c}
        /\ \A d \in DOMAIN requests \ {c} : requests'[d] = requests[d]
        /\ slashedRequests' = slashedRequests \cup {<<c, RequestId(requests[c])>>}
    BY SlashEffect
  <2> QED
    BY <2>1 DEF NoSlashedRequestReturns, RequestId
<1>7. CASE Releases
  <2>1. /\ DOMAIN requests' \subseteq DOMAIN requests
        /\ \A c \in DOMAIN requests' : requests'[c] = requests[c]
        /\ UNCHANGED slashedRequests
    BY <1>7, ReleaseEffect DEF Releases, OneBond
  <2> QED
    BY <2>1 DEF NoSlashedRequestReturns, RequestId
<1> QED
  BY <1>1, <1>2, <1>3, <1>4, <1>5, <1>6, <1>7, SettlementCases

\* The allegation that slashed a request, once signed, can slash nothing else:
\* in no reachable state is a request stored under a slashed id.
THEOREM SlashedStayAway == SettlementSpec => []NoSlashedRequestReturns
<1>1. SettlementInit => NoSlashedRequestReturns
  BY DEF SettlementInit, NoSlashedRequestReturns, NoRows
<1> QED
  BY <1>1, TombstoneStep, PipelineHolds, SettlementTypes, BondsAreOne, PTL DEF SettlementSpec

(***************************************************************************)
(* Bundles that meet an honest signer.                                     *)
(***************************************************************************)
\* The signatures that a floor of n asks for, see EffectiveThreshold.
Floor(n) ==
  LET base == IF n = 0 THEN DefaultMinSignerThreshold ELSE n
  IN  IF base > 1 THEN base ELSE 1

Floors == {DefaultMinSignerThreshold} \cup MinSignerInputs

\* In no committee that governance may install are there, outside Honest, the
\* signers that a bundle needs under some floor that Root may set.
FewSignAnything ==
  \A committee \in Committees, n \in Floors :
     /\ IsFiniteSet(committee.members)
     /\ Cardinality(committee.members \ Honest) < Floor(n)

\* The committee and the floor in place are ones that someone installed.
CommitteeInPlace ==
  /\ \E committee \in Committees : members = committee.members
  /\ minSignerThreshold \in Floors

\* A rotation and Root's call put others in place, nothing else does.
LEMMA CommitteeStep ==
  TypeOK /\ CommitteeInPlace /\ [Next]_vars => CommitteeInPlace'
<1> SUFFICES ASSUME TypeOK, CommitteeInPlace, [Next]_vars PROVE CommitteeInPlace'
  OBVIOUS
<1>1. CASE NextBlock \/ Submits \/ Attests \/ AttestsBatch \/ Vouchers \/ Expires \/ Settles
  <2>1. UNCHANGED <<members, minSignerThreshold>>
    BY <1>1 DEF NextBlock, Submits, DoSubmitIntents, Attests, AttestIntent, AttestsBatch,
       AttestBatchIntents, Vouchers, RequestBatchVouchers, Expires, AttestExpirePolicy,
       Settles, SettleAttestedClaims, committeeVars
  <2> QED
    BY <2>1 DEF CommitteeInPlace
<1>2. CASE Quiet
  <2>1. CASE UNCHANGED <<members, minSignerThreshold>>
    BY <2>1 DEF CommitteeInPlace
  <2>2. ASSUME NEW new \in MinSignerInputs, SetMinSignerThreshold(new)
        PROVE  CommitteeInPlace'
    BY <2>2 DEF SetMinSignerThreshold, CommitteeInPlace, Floors
  <2>3. ASSUME NEW committee \in Committees, RotateCommittee(committee)
        PROVE  CommitteeInPlace'
    BY <2>3 DEF RotateCommittee, CommitteeInPlace
  <2> QED
    BY <1>2, <2>1, <2>2, <2>3 DEF Quiet, RootCall, RequestExpirePolicy, CreditDeposit,
                                 SetPoolUtilization, committeeVars, vars
<1> QED
  BY <1>1, <1>2, StepCases

\* So every bundle has an honest signer, when few sign anything.
LEMMA BundlesMeetHonest ==
  ASSUME FewSignAnything, CommitteeInPlace, NEW who, NEW sigs \in SUBSET members,
         ThresholdSignatures(who, sigs)
  PROVE  sigs \cap Honest # {}
<1> SUFFICES ASSUME sigs \cap Honest = {} PROVE FALSE
  OBVIOUS
<1> PICK committee \in Committees : members = committee.members
  BY DEF CommitteeInPlace
<1> DEFINE few == members \ Honest
<1>1. /\ IsFiniteSet(members) /\ minSignerThreshold \in Floors
      /\ Cardinality(few) < Floor(minSignerThreshold)
  BY DEF FewSignAnything, CommitteeInPlace
<1>2. sigs \subseteq few
  OBVIOUS
<1>3. IsFiniteSet(few) /\ IsFiniteSet(sigs)
  BY <1>1, <1>2, FS_Subset
<1>4. Cardinality(sigs) <= Cardinality(few) /\ Cardinality(sigs) \in Nat /\ Cardinality(few) \in Nat
  BY <1>2, <1>3, FS_Subset, FS_CardinalityType
<1>5. Cardinality(sigs) >= EffectiveThreshold
  BY <1>4 DEF ThresholdSignatures
<1>6. EffectiveThreshold = Floor(minSignerThreshold) /\ Floor(minSignerThreshold) \in Nat
  BY <1>1, ConstantsAssumption, BoundsAssumption DEF EffectiveThreshold, Floor, Floors
<1> HIDE DEF few
<1> QED
  BY <1>1, <1>4, <1>5, <1>6

\* What the bundles leave behind is borne out by Cardano.
EvidenceInv == SettledOnConfirmedEvidence /\ HonestIsNeverSlashed

\* Every step keeps the evidence behind settlements and slashes confirmed.
LEMMA ConfirmedStep ==
  FewSignAnything /\ TypeOK /\ SettlementTypeOK /\ OneBond /\ CommitteeInPlace
    /\ EvidenceInv /\ [SettlementNext]_allVars => EvidenceInv'
<1> SUFFICES ASSUME FewSignAnything, TypeOK, SettlementTypeOK, OneBond,
                    CommitteeInPlace, EvidenceInv, [SettlementNext]_allVars
             PROVE  EvidenceInv'
  OBVIOUS
<1>1. CASE PipelineStep \/ Posts \/ TopsUp \/ Releases \/ UNCHANGED allVars
  <2>1. CASE PipelineStep \/ UNCHANGED allVars
    BY <2>1, PipelineKeepsClaims DEF EvidenceInv, SettledOnConfirmedEvidence,
       HonestIsNeverSlashed, allVars, settlementVars, bondVars
  <2>2. CASE Posts \/ TopsUp \/ Releases
    <3>1. UNCHANGED <<settlements, slashedRequests>>
      BY <2>2 DEF Posts, TopsUp, Releases, RequestBatchSettle, PostSettlementBond,
         ReleaseSettlementBond, bondVars
    <3> QED
      BY <3>1 DEF EvidenceInv, SettledOnConfirmedEvidence, HonestIsNeverSlashed
  <2> QED
    BY <1>1, <2>1, <2>2
<1>2. CASE AttestsClaims
  <2> PICK who \in members, cs \in SUBSET DOMAIN requests : AttestBatchSettle(who, cs)
    BY <1>2 DEF AttestsClaims
  <2>1. BundleFor(who, \A c \in cs : <<c, requests[c].evidence>> \in Confirmed)
    BY DEF AttestBatchSettle
  <2>2. \A c \in cs : <<c, requests[c].evidence>> \in Confirmed
    BY <2>1, BundlesMeetHonest DEF BundleFor
  <2>3. /\ DOMAIN settlements' = DOMAIN settlements \cup cs
        /\ \A c \in cs : settlements'[c] = [evidence |-> requests[c].evidence,
                                            direct |-> requests[c].direct]
        /\ \A c \in DOMAIN settlements \ cs : settlements'[c] = settlements[c]
        /\ UNCHANGED slashedRequests
    BY AttestEffect
  <2>4. SettledOnConfirmedEvidence'
    BY <2>2, <2>3 DEF EvidenceInv, SettledOnConfirmedEvidence
  <2> QED
    BY <2>3, <2>4 DEF EvidenceInv, HonestIsNeverSlashed
<1>3. CASE Supersedes
  <2> PICK who \in members, c \in DOMAIN requests, terms \in Terms :
             SupersedeSettlementRequest(who, c, terms)
    BY <1>3 DEF Supersedes
  <2>1. BundleFor(who, <<c, terms.evidence>> \in Confirmed)
    BY DEF SupersedeSettlementRequest, SupersedeSigned
  <2>2. <<c, terms.evidence>> \in Confirmed
    BY <2>1, BundlesMeetHonest DEF BundleFor
  <2>3. /\ DOMAIN settlements' = DOMAIN settlements \cup {c}
        /\ settlements'[c] = terms
        /\ \A d \in DOMAIN settlements \ {c} : settlements'[d] = settlements[d]
    BY DEF SupersedeSettlementRequest, Put, Entry
  <2>4. UNCHANGED slashedRequests
    BY DEF SupersedeSettlementRequest
  <2> QED
    BY <2>2, <2>3, <2>4 DEF EvidenceInv, SettledOnConfirmedEvidence, HonestIsNeverSlashed
<1>4. CASE Slashes
  <2> PICK who \in members, c \in DOMAIN requests : SlashBadSettlementEvidence(who, c)
    BY <1>4 DEF Slashes
  <2>1. BundleFor(who, <<c, requests[c].evidence>> \notin Confirmed)
    BY DEF SlashBadSettlementEvidence
  <2>2. <<c, requests[c].evidence>> \notin Confirmed
    BY <2>1, BundlesMeetHonest DEF BundleFor
  <2>3. slashedRequests' = slashedRequests \cup {<<c, RequestId(requests[c])>>}
        /\ UNCHANGED settlements
    BY SlashEffect
  <2> QED
    BY <2>2, <2>3 DEF EvidenceInv, SettledOnConfirmedEvidence, HonestIsNeverSlashed, RequestId
<1> QED
  BY <1>1, <1>2, <1>3, <1>4, SettlementCases

\* When fewer members than a bundle needs sign what Cardano does not bear out,
\* the evidence behind settlements and slashes is what it is said to be.
LEMMA EvidenceHolds ==
  FewSignAnything => (SettlementSpec => []EvidenceInv)
<1>1. SettlementInit => EvidenceInv /\ CommitteeInPlace
  BY ConstantsAssumption DEF SettlementInit, Init, EvidenceInv, SettledOnConfirmedEvidence,
     HonestIsNeverSlashed, CommitteeInPlace, Floors, NoRows
<1>2. SettlementSpec => []CommitteeInPlace
  BY <1>1, CommitteeStep, SettlementStepIsStep, PipelineHolds, PTL DEF SettlementSpec
<1>3. ASSUME FewSignAnything PROVE SettlementSpec => []EvidenceInv
  <2>1. TypeOK /\ SettlementTypeOK /\ OneBond /\ CommitteeInPlace
          /\ EvidenceInv /\ [SettlementNext]_allVars => EvidenceInv'
    BY <1>3, ConfirmedStep
  <2> QED
    BY <1>1, <1>2, <2>1, PipelineHolds, SettlementTypes, BondsAreOne, PTL DEF SettlementSpec
<1> QED
  BY <1>3

\* A claim settles only on evidence that Cardano bears out, whether its request
\* is attested, attested in a batch, or superseded.
THEOREM SettlementsAreConfirmed ==
  FewSignAnything => (SettlementSpec => []SettledOnConfirmedEvidence)
<1>1. EvidenceInv => SettledOnConfirmedEvidence
  BY DEF EvidenceInv
<1> QED
  BY <1>1, EvidenceHolds, PTL

\* No bond behind evidence that Cardano bears out is ever slashed.
THEOREM HonestKeepTheirBonds ==
  FewSignAnything => (SettlementSpec => []HonestIsNeverSlashed)
<1>1. EvidenceInv => HonestIsNeverSlashed
  BY DEF EvidenceInv
<1> QED
  BY <1>1, EvidenceHolds, PTL

(***************************************************************************)
(* The reserves.                                                           *)
(***************************************************************************)
\* The bonds an account stands behind, claim by claim.
Backing(h) == [c \in ClaimIds |-> PendingBond(c, h) + AttestedBond(c, h)]

BondInv == SettlementTypeOK /\ OneBond /\ ReserveBacksBonds

\* They are amounts, before a step and after it.
LEMMA BackingType ==
  /\ SettlementTypeOK => \A c \in ClaimIds, h \in Holders : Backing(h)[c] \in Nat
  /\ SettlementTypeOK' => \A c \in ClaimIds, h \in Holders : Backing(h)'[c] \in Nat
<1>1. ASSUME SettlementTypeOK, NEW c \in ClaimIds, NEW h \in Holders
      PROVE  Backing(h)[c] \in Nat
  BY <1>1 DEF SettlementTypeOK, Backing, PendingBond, AttestedBond, Request
<1>2. ASSUME SettlementTypeOK', NEW c \in ClaimIds, NEW h \in Holders
      PROVE  Backing(h)'[c] \in Nat
  BY <1>2 DEF SettlementTypeOK, Backing, PendingBond, AttestedBond, Request
<1> QED
  BY <1>1, <1>2

\* The sum of Backing is the fold over all claims.
LEMMA BackingSum ==
  /\ \A h : SumFunction(Backing(h)) = SumFunctionOnSet(Backing(h), ClaimIds)
  /\ \A h : SumFunction(Backing(h)') = SumFunctionOnSet(Backing(h)', ClaimIds)
<1>1. \A h : DOMAIN Backing(h) = ClaimIds /\ DOMAIN Backing(h)' = ClaimIds
  BY DEF Backing
<1> QED
  BY <1>1 DEF SumFunction

\* The reserve of an account covers what it stands behind on any of the claims.
LEMMA ReserveCovers ==
  ASSUME BondInv, NEW h \in Holders, NEW cs \in SUBSET ClaimIds
  PROVE  /\ SumFunctionOnSet(Backing(h), cs) \in Nat
         /\ SumFunctionOnSet(Backing(h), cs) <= reserved[h]
         /\ \A c \in ClaimIds : Backing(h)[c] <= reserved[h]
<1>1. reserved[h] = SumFunctionOnSet(Backing(h), ClaimIds)
  <2>1. reserved[h] = SumFunction(Backing(h))
    BY DEF BondInv, ReserveBacksBonds, Backing
  <2> QED
    BY <2>1, BackingSum
<1>2. IsFiniteSet(ClaimIds) /\ \A c \in ClaimIds : Backing(h)[c] \in Nat
  BY BoundsAssumption, BackingType DEF BondInv
<1>3. \A t \in SUBSET ClaimIds : SumFunctionOnSet(Backing(h), t) <= reserved[h]
  BY <1>1, <1>2, SumSubset
<1>4. \A c \in ClaimIds : SumFunctionOnSet(Backing(h), {c}) = Backing(h)[c]
  BY <1>2, SumSingle
<1>5. SumFunctionOnSet(Backing(h), cs) \in Nat
  BY <1>2, FS_Subset, SumType
<1> QED
  BY <1>3, <1>4, <1>5

\* What h stands behind is the same before and after a step on all claims but cs.
SameElsewhere(cs, h) == \A c \in ClaimIds \ cs : Backing(h)'[c] = Backing(h)[c]

\* A step that moves the reserve by what it moves on cs keeps the reserve exact.
LEMMA ReserveFollows ==
  ASSUME BondInv, SettlementTypeOK', NEW h \in Holders, NEW cs \in SUBSET ClaimIds,
         SameElsewhere(cs, h),
         reserved'[h] = reserved[h] - SumFunctionOnSet(Backing(h), cs)
                                    + SumFunctionOnSet(Backing(h)', cs)
  PROVE  reserved'[h] = SumFunction(Backing(h)')
<1> DEFINE f == Backing(h)
           g == Backing(h)'
<1>1. reserved[h] = SumFunction(f)
  BY DEF BondInv, ReserveBacksBonds, Backing
<1>2. SumFunction(f) = SumFunctionOnSet(f, ClaimIds)
      /\ SumFunction(g) = SumFunctionOnSet(g, ClaimIds)
  BY BackingSum
<1>3. IsFiniteSet(ClaimIds) /\ \A c \in ClaimIds : f[c] \in Nat /\ g[c] \in Nat
  BY BoundsAssumption, BackingType DEF BondInv
<1>4. \A c \in ClaimIds \ cs : f[c] = g[c]
  BY DEF SameElsewhere
<1> HIDE DEF f, g
<1>5. SumFunctionOnSet(g, ClaimIds) =
        SumFunctionOnSet(f, ClaimIds) - SumFunctionOnSet(f, cs) + SumFunctionOnSet(g, cs)
  BY <1>3, <1>4, SumMoves
<1> QED
  BY <1>1, <1>2, <1>5 DEF f, g

\* The same for one claim.
LEMMA ReserveFollowsOne ==
  ASSUME BondInv, SettlementTypeOK', NEW h \in Holders, NEW c \in ClaimIds,
         SameElsewhere({c}, h),
         reserved'[h] = reserved[h] - Backing(h)[c] + Backing(h)'[c]
  PROVE  reserved'[h] = SumFunction(Backing(h)')
<1>1. Backing(h)[c] \in Nat /\ Backing(h)'[c] \in Nat
  BY BackingType DEF BondInv
<1>2. SumFunctionOnSet(Backing(h), {c}) = Backing(h)[c]
      /\ SumFunctionOnSet(Backing(h)', {c}) = Backing(h)'[c]
  BY <1>1, SumSingle
<1> QED
  BY <1>2, ReserveFollows

\* A refund of what an account stands behind on a claim is never cut short.
LEMMA RefundInFull ==
  ASSUME BondInv, NEW c \in ClaimIds, NEW q \in Requesters, NEW bond \in Nat,
         bond = Backing(q)[c], RefundSettlementBond(c, q, bond)
  PROVE  /\ free' = [free EXCEPT ![q] = @ + bond]
         /\ reserved' = [reserved EXCEPT ![q] = @ - bond]
<1>1. q \in Holders
  BY DEF Holders
<1>2. bond <= reserved[q] /\ reserved[q] \in Nat
  BY <1>1, ReserveCovers DEF BondInv, SettlementTypeOK
<1>3. AtMost(bond, reserved[q]) = bond
  BY <1>2 DEF AtMost
<1> QED
  BY <1>3 DEF RefundSettlementBond

\* One account backs a claim: the requester on record, pending or attested.
LEMMA OneBacker ==
  ASSUME SettlementTypeOK, OneBond, NEW c \in ClaimIds
  PROVE  /\ c \in DOMAIN requests =>
              /\ c \notin DOMAIN bondedRequester
              /\ \A h : Backing(h)[c] =
                   IF h = requests[c].requester THEN requests[c].bond ELSE 0
         /\ c \in DOMAIN bondedRequester =>
              /\ c \notin DOMAIN requests
              /\ \A h : Backing(h)[c] =
                   IF h = bondedRequester[c].requester THEN bondedRequester[c].bond ELSE 0
         /\ c \notin DOMAIN requests /\ c \notin DOMAIN bondedRequester =>
              \A h : Backing(h)[c] = 0
<1>1. ~(c \in DOMAIN requests /\ c \in DOMAIN bondedRequester)
  BY DEF OneBond, UnsettledClaims
<1>2. c \in DOMAIN requests => requests[c].bond \in Nat
  BY DEF SettlementTypeOK, Request
<1>3. c \in DOMAIN bondedRequester => bondedRequester[c].bond \in Nat
  BY DEF SettlementTypeOK
<1> QED
  BY <1>1, <1>2, <1>3 DEF Backing, PendingBond, AttestedBond

\* Where the rows of a claim stay, so does what stands behind it.
LEMMA SameRows ==
  ASSUME NEW c \in ClaimIds,
         c \in DOMAIN requests' <=> c \in DOMAIN requests,
         c \in DOMAIN requests => requests'[c] = requests[c],
         c \in DOMAIN bondedRequester' <=> c \in DOMAIN bondedRequester,
         c \in DOMAIN bondedRequester => bondedRequester'[c] = bondedRequester[c]
  PROVE  \A h : Backing(h)'[c] = Backing(h)[c]
  BY DEF Backing, PendingBond, AttestedBond

\* A claim without rows has nothing behind it.
LEMMA NoRowsNoBond ==
  ASSUME NEW c \in ClaimIds, c \notin DOMAIN requests', c \notin DOMAIN bondedRequester'
  PROVE  \A h : Backing(h)'[c] = 0
  BY DEF Backing, PendingBond, AttestedBond

\* When a bond leaves the reserve it was in, the reserves stay exact.
LEMMA BondLeaves ==
  ASSUME BondInv, SettlementTypeOK', NEW c \in ClaimIds, NEW q \in Requesters,
         \A h \in Holders : h # q => Backing(h)[c] = 0,
         \A h \in Holders : Backing(h)'[c] = 0 /\ SameElsewhere({c}, h),
         reserved' = [reserved EXCEPT ![q] = @ - Backing(q)[c]]
  PROVE  ReserveBacksBonds'
<1> SUFFICES ASSUME NEW h \in Holders PROVE reserved'[h] = SumFunction(Backing(h)')
  BY DEF ReserveBacksBonds, Backing
<1>1. q \in Holders /\ reserved \in [Holders -> Nat] /\ Backing(q)[c] \in Nat
  BY BackingType DEF Holders, BondInv, SettlementTypeOK
<1>2. reserved'[h] = reserved[h] - Backing(h)[c] + Backing(h)'[c]
  BY <1>1
<1> QED
  BY <1>2, ReserveFollowsOne

\* A discarded request takes its bond, in full.
LEMMA DiscardInFull ==
  ASSUME BondInv, NEW c \in DOMAIN requests, DiscardRequest(c)
  PROVE  /\ free' = [free EXCEPT ![requests[c].requester] = @ + requests[c].bond]
         /\ reserved' = [reserved EXCEPT ![requests[c].requester] = @ - requests[c].bond]
         /\ c \in ClaimIds /\ c \notin DOMAIN bondedAttestedAt
<1> DEFINE q == requests[c].requester
           bond == requests[c].bond
<1>1. c \in ClaimIds /\ q \in Requesters /\ bond \in Nat /\ q \in Holders
  BY DEF BondInv, SettlementTypeOK, IsMap, Request, Holders
<1>2. bond = Backing(q)[c] /\ c \notin DOMAIN bondedAttestedAt
  BY <1>1, OneBacker DEF BondInv, OneBond
<1>3. CASE RefundSettlementBond(c, q, bond)
  <2> HIDE DEF q, bond
  <2>1. free' = [free EXCEPT ![q] = @ + bond] /\ reserved' = [reserved EXCEPT ![q] = @ - bond]
    BY <1>1, <1>2, <1>3, RefundInFull
  <2> QED
    BY <1>1, <1>2, <2>1 DEF q, bond
<1>4. CASE bond = 0 /\ UNCHANGED balanceVars
  BY <1>1, <1>2, <1>4 DEF balanceVars, BondInv, SettlementTypeOK
<1> QED
  BY <1>3, <1>4 DEF DiscardRequest

\* So the reserves stay exact.
LEMMA DiscardKeepsReserve ==
  ASSUME BondInv, SettlementTypeOK', NEW c \in DOMAIN requests, DiscardRequest(c)
  PROVE  ReserveBacksBonds'
<1> DEFINE q == requests[c].requester
<1>1. /\ c \in ClaimIds /\ c \notin DOMAIN bondedAttestedAt
      /\ reserved' = [reserved EXCEPT ![q] = @ - requests[c].bond]
  BY DiscardInFull
<1>2. DOMAIN bondedAttestedAt = DOMAIN bondedRequester
  BY DEF BondInv, OneBond
<1>3. /\ DOMAIN bondedRequester' = DOMAIN bondedRequester
      /\ \A d \in DOMAIN bondedRequester : bondedRequester'[d] = bondedRequester[d]
      /\ DOMAIN requests' = DOMAIN requests \ {c}
      /\ \A d \in DOMAIN requests \ {c} : requests'[d] = requests[d]
  BY <1>1, <1>2, DiscardRecords
<1>4. q \in Requesters
  BY DEF BondInv, SettlementTypeOK, Request
<1>5. \A h : Backing(h)[c] = IF h = q THEN requests[c].bond ELSE 0
  BY <1>1, OneBacker DEF BondInv
<1>6. \A h : Backing(h)'[c] = 0
  BY <1>1, <1>2, <1>3, NoRowsNoBond
<1>7. \A d \in ClaimIds \ {c} : \A h : Backing(h)'[d] = Backing(h)[d]
  BY <1>3, SameRows
<1> HIDE DEF q
<1> QED
  BY <1>1, <1>4, <1>5, <1>6, <1>7, BondLeaves DEF SameElsewhere

\* The refund of an attested bond.
LEMMA RefundKeepsReserve ==
  ASSUME BondInv, SettlementTypeOK', NEW c \in DOMAIN bondedRequester, UNCHANGED requests,
         RefundSettlementBond(c, bondedRequester[c].requester, bondedRequester[c].bond)
  PROVE  /\ ReserveBacksBonds'
         /\ free' = [free EXCEPT ![bondedRequester[c].requester] = @ + bondedRequester[c].bond]
<1> DEFINE q == bondedRequester[c].requester
           bond == bondedRequester[c].bond
<1>1. c \in ClaimIds /\ q \in Requesters /\ bond \in Nat
  BY DEF BondInv, SettlementTypeOK, IsMap
<1>2. c \notin DOMAIN requests /\ \A h : Backing(h)[c] = IF h = q THEN bond ELSE 0
  BY <1>1, OneBacker DEF BondInv
<1>3. /\ DOMAIN bondedRequester' = DOMAIN bondedRequester \ {c}
      /\ \A d \in DOMAIN bondedRequester \ {c} : bondedRequester'[d] = bondedRequester[d]
  BY RefundRecords
<1>4. RefundSettlementBond(c, q, bond)
  OBVIOUS
<1>5. \A h : Backing(h)'[c] = 0
  BY <1>1, <1>2, <1>3, NoRowsNoBond
<1>6. \A d \in ClaimIds \ {c} : \A h : Backing(h)'[d] = Backing(h)[d]
  BY <1>3, SameRows
<1> HIDE DEF q, bond
<1>7. free' = [free EXCEPT ![q] = @ + bond] /\ reserved' = [reserved EXCEPT ![q] = @ - bond]
  BY <1>1, <1>2, <1>4, RefundInFull
<1>8. ReserveBacksBonds'
  BY <1>1, <1>2, <1>5, <1>6, <1>7, BondLeaves DEF SameElsewhere
<1> QED
  BY <1>7, <1>8 DEF q, bond

\* A slash takes the whole bond out of the reserve and hands the shares over.
LEMMA SlashInFull ==
  ASSUME BondInv, NEW who, NEW c \in DOMAIN requests, SlashBadSettlementEvidence(who, c)
  PROVE  LET r == requests[c]
         IN  /\ reserved' = [reserved EXCEPT ![r.requester] = @ - r.bond]
             /\ free' = [h \in Holders |->
                           free[h] + (IF h = who THEN WatcherShare(r.bond) ELSE 0)
                                   + (IF h = Treasury THEN TreasuryShare(r.bond) ELSE 0)]
<1> DEFINE r == requests[c]
           toWatcher == AtMost(WatcherShare(r.bond), reserved[r.requester])
           toTreasury == AtMost(TreasuryShare(r.bond), reserved[r.requester] - toWatcher)
<1>1. /\ c \in ClaimIds /\ r.requester \in Holders /\ r.bond \in Nat
      /\ reserved \in [Holders -> Nat]
  BY DEF BondInv, SettlementTypeOK, IsMap, Request, Holders
<1>2. r.bond <= reserved[r.requester]
  <2>1. Backing(r.requester)[c] = r.bond
    BY <1>1, OneBacker DEF BondInv
  <2>2. Backing(r.requester)[c] <= reserved[r.requester]
    BY <1>1, ReserveCovers
  <2> QED
    BY <2>1, <2>2
<1>3. /\ WatcherShare(r.bond) \in 0 .. r.bond /\ TreasuryShare(r.bond) \in 0 .. r.bond
      /\ WatcherShare(r.bond) + TreasuryShare(r.bond) = r.bond
  BY <1>1, SharesMakeTheBond
<1>4. toWatcher = WatcherShare(r.bond)
  BY <1>1, <1>2, <1>3 DEF AtMost
<1>5. toTreasury = TreasuryShare(r.bond)
  <2> HIDE DEF toWatcher
  <2> QED
    BY <1>1, <1>2, <1>3, <1>4 DEF AtMost
<1>6. /\ free' = [h \in Holders |-> free[h] + (IF h = who THEN toWatcher ELSE 0)
                                            + (IF h = Treasury THEN toTreasury ELSE 0)]
      /\ reserved' = [reserved EXCEPT ![r.requester] = @ - toWatcher - toTreasury]
  BY DEF SlashBadSettlementEvidence
<1> HIDE DEF toWatcher, toTreasury
<1>7. reserved' = [reserved EXCEPT ![r.requester] = @ - r.bond]
  <2> HIDE DEF r
  <2>1. reserved[r.requester] - toWatcher - toTreasury = reserved[r.requester] - r.bond
    <3>1. reserved[r.requester] \in Nat
      BY <1>1
    <3> QED
      BY <1>1, <1>3, <1>4, <1>5, <3>1
  <2> QED
    BY <1>6, <2>1, Zenon
<1> QED
  BY <1>4, <1>5, <1>6, <1>7

\* So the reserves stay exact.
LEMMA SlashKeepsReserve ==
  ASSUME BondInv, SettlementTypeOK', Slashes
  PROVE  ReserveBacksBonds'
<1> PICK who \in members, c \in DOMAIN requests : SlashBadSettlementEvidence(who, c)
  BY DEF Slashes
<1> DEFINE q == requests[c].requester
<1>1. c \in ClaimIds /\ q \in Requesters
  BY DEF BondInv, SettlementTypeOK, IsMap, Request
<1>2. reserved' = [reserved EXCEPT ![q] = @ - requests[c].bond]
  BY SlashInFull
<1>3. /\ UNCHANGED bondedRequester
      /\ DOMAIN requests' = DOMAIN requests \ {c}
      /\ \A d \in DOMAIN requests \ {c} : requests'[d] = requests[d]
  BY SlashEffect
<1>4. c \notin DOMAIN bondedRequester
      /\ \A h : Backing(h)[c] = IF h = q THEN requests[c].bond ELSE 0
  BY <1>1, OneBacker DEF BondInv
<1>5. \A h : Backing(h)'[c] = 0
  BY <1>1, <1>3, <1>4, NoRowsNoBond
<1>6. \A d \in ClaimIds \ {c} : \A h : Backing(h)'[d] = Backing(h)[d]
  BY <1>3, SameRows
<1> HIDE DEF q
<1> QED
  BY <1>1, <1>2, <1>4, <1>5, <1>6, BondLeaves DEF SameElsewhere

\* What a batch gives back is what its requester had on those claims, and the
\* reserve covers it.
LEMMA ReplacedInFull ==
  ASSUME BondInv, NEW cs \in SUBSET ClaimIds, cs \subseteq UnsettledClaims,
         NEW h \in Holders
  PROVE  /\ Replaced(cs, h) = SumFunctionOnSet(Backing(h), cs)
         /\ AtMost(Replaced(cs, h), reserved[h]) = Replaced(cs, h)
         /\ Replaced(cs, h) \in 0 .. reserved[h] /\ reserved[h] \in Nat
<1> DEFINE f == [c \in cs |-> ReplacedBond(c, h)]
<1>1. \A c \in cs : c \notin DOMAIN bondedRequester
  BY DEF BondInv, OneBond
<1>2. \A c \in cs : requests[c].bond \in Nat \/ c \notin DOMAIN requests
  BY DEF BondInv, SettlementTypeOK, Request
<1>3. \A c \in cs : f[c] = Backing(h)[c] /\ f[c] \in Nat
  BY <1>1, <1>2 DEF Backing, PendingBond, AttestedBond, ReplacedBond
<1>4. IsFiniteSet(cs) /\ Replaced(cs, h) \in Nat /\ Replaced(cs, h) = SumFunctionOnSet(f, cs)
  BY BondAmounts DEF BondInv
<1> HIDE DEF f
<1>5. SumFunctionOnSet(f, cs) = SumFunctionOnSet(Backing(h), cs)
  BY <1>3, <1>4, SumAgree
<1>6. SumFunctionOnSet(Backing(h), cs) <= reserved[h] /\ reserved[h] \in Nat
  BY ReserveCovers DEF BondInv, SettlementTypeOK
<1> QED
  BY <1>4, <1>5, <1>6 DEF AtMost

\* A batch of requests moves the reserves by what it gives back and takes.
LEMMA PostsKeepReserve ==
  ASSUME TypeOK, BondInv, SettlementTypeOK', Posts
  PROVE  ReserveBacksBonds'
<1> PICK who \in Requesters, cs \in SUBSET ClaimIds :
           \E entries \in [cs -> Terms], bond \in Bonds :
              RequestBatchSettle(who, entries, bond)
  BY DEF Posts
<1> PICK entries \in [cs -> Terms], bond \in Bonds : RequestBatchSettle(who, entries, bond)
  OBVIOUS
<1> SUFFICES ASSUME NEW h \in Holders PROVE reserved'[h] = SumFunction(Backing(h)')
  BY DEF ReserveBacksBonds, Backing
<1>1. /\ cs \subseteq UnsettledClaims
      /\ DOMAIN requests' = DOMAIN requests \cup cs
      /\ \A c \in cs : requests'[c] = NewRequest(who, entries[c], bond)
      /\ \A c \in DOMAIN requests \ cs : requests'[c] = requests[c]
      /\ DOMAIN bondedRequester' = DOMAIN bondedRequester
      /\ \A c \in DOMAIN bondedRequester : bondedRequester'[c] = bondedRequester[c]
  BY PostsEffect DEF BondInv
<1>2. /\ bond \in Nat
      /\ reserved'[h] = reserved[h] - AtMost(Replaced(cs, h), reserved[h])
                                    + Posted(who, cs, bond, h)
  BY SettlementAssumption DEF RequestBatchSettle, Replaced, Posted
<1>3. /\ Replaced(cs, h) = SumFunctionOnSet(Backing(h), cs)
      /\ AtMost(Replaced(cs, h), reserved[h]) = Replaced(cs, h)
  BY <1>1, ReplacedInFull
<1>4. SumFunctionOnSet(Backing(h)', cs) = Posted(who, cs, bond, h)
  <2> DEFINE g == Backing(h)'
             n == IF h = who THEN bond ELSE 0
  <2>1. IsFiniteSet(cs) /\ Cardinality(cs) \in Nat /\ n \in Nat
    BY <1>2, BondAmounts DEF BondInv
  <2>2. \A c \in cs : c \notin DOMAIN bondedRequester' /\ c \in DOMAIN requests'
    BY <1>1 DEF BondInv, OneBond
  <2>3. \A c \in cs : g[c] = n
    BY <1>1, <1>2, <2>2 DEF Backing, PendingBond, AttestedBond, NewRequest
  <2>4. Posted(who, cs, bond, h) = n * Cardinality(cs)
    BY <2>1 DEF Posted
  <2> HIDE DEF g, n
  <2>5. SumFunctionOnSet(g, cs) = n * Cardinality(cs)
    BY <2>1, <2>3, SumEqual
  <2> QED
    BY <2>4, <2>5 DEF g
<1>5. SameElsewhere(cs, h)
  <2>1. \A c \in ClaimIds \ cs : \A a : Backing(a)'[c] = Backing(a)[c]
    BY <1>1, SameRows
  <2> QED
    BY <2>1 DEF SameElsewhere
<1>6. reserved'[h] = reserved[h] - SumFunctionOnSet(Backing(h), cs)
                                 + SumFunctionOnSet(Backing(h)', cs)
  BY <1>2, <1>3, <1>4
<1> QED
  BY <1>5, <1>6, ReserveFollows

\* A bond posted for an old request goes into the reserve.
LEMMA TopUpKeepsReserve ==
  ASSUME BondInv, SettlementTypeOK', TopsUp
  PROVE  ReserveBacksBonds'
<1> PICK who \in Requesters, c \in ClaimIds, bond \in Bonds : PostSettlementBond(who, c, bond)
  BY DEF TopsUp
<1> SUFFICES ASSUME NEW h \in Holders PROVE reserved'[h] = SumFunction(Backing(h)')
  BY DEF ReserveBacksBonds, Backing
<1>1. /\ c \in DOMAIN requests /\ requests[c].requester = who /\ requests[c].bond = 0
      /\ requests' = [requests EXCEPT ![c].bond = bond]
      /\ reserved' = [reserved EXCEPT ![who] = @ + bond]
      /\ UNCHANGED bondedRequester
  BY DEF PostSettlementBond, Fresh, bondVars
<1>2. /\ bond \in Nat /\ who \in Holders /\ requests[c] \in Request
      /\ reserved \in [Holders -> Nat]
  BY <1>1, SettlementAssumption DEF BondInv, SettlementTypeOK, Holders
<1>3. c \notin DOMAIN bondedRequester /\ Backing(h)[c] = 0
  BY <1>1, OneBacker DEF BondInv
<1>4. /\ DOMAIN requests' = DOMAIN requests
      /\ requests'[c].requester = who /\ requests'[c].bond = bond
      /\ \A d \in DOMAIN requests \ {c} : requests'[d] = requests[d]
  BY <1>1, <1>2 DEF Request
<1>5. Backing(h)'[c] = IF h = who THEN bond ELSE 0
  BY <1>1, <1>2, <1>3, <1>4 DEF Backing, PendingBond, AttestedBond
<1>6. SameElsewhere({c}, h)
  <2>1. \A d \in ClaimIds \ {c} : \A a : Backing(a)'[d] = Backing(a)[d]
    BY <1>1, <1>4, SameRows
  <2> QED
    BY <2>1 DEF SameElsewhere
<1>7. reserved'[h] = reserved[h] - Backing(h)[c] + Backing(h)'[c]
  BY <1>1, <1>2, <1>3, <1>5
<1> QED
  BY <1>6, <1>7, ReserveFollowsOne

\* An attestation moves no money: what a pending request stood for, the record
\* of the attested bond does.
LEMMA AttestMovesNoBond ==
  ASSUME TypeOK, SettlementTypeOK, OneBond, AttestsClaims
  PROVE  /\ UNCHANGED <<free, reserved>>
         /\ \A c \in ClaimIds : \A h : Backing(h)'[c] = Backing(h)[c]
<1> PICK who \in members, cs \in SUBSET DOMAIN requests : AttestBatchSettle(who, cs)
  BY DEF AttestsClaims
<1> DEFINE bonded == {c \in cs : requests[c].bond > 0}
<1>1. /\ DOMAIN bondedRequester' = DOMAIN bondedRequester \cup bonded
      /\ \A c \in bonded : bondedRequester'[c] = [requester |-> requests[c].requester,
                                                  bond |-> requests[c].bond]
      /\ \A c \in DOMAIN bondedRequester \ bonded : bondedRequester'[c] = bondedRequester[c]
      /\ DOMAIN requests' = DOMAIN requests \ cs
      /\ \A c \in DOMAIN requests \ cs : requests'[c] = requests[c]
      /\ UNCHANGED <<free, reserved>>
  BY AttestEffect
<1>2. bonded \subseteq cs
  OBVIOUS
<1>3. ASSUME NEW c \in ClaimIds \ cs PROVE \A h : Backing(h)'[c] = Backing(h)[c]
  <2> HIDE DEF bonded
  <2> QED
    BY <1>1, <1>2, SameRows
<1>4. ASSUME NEW c \in cs, NEW h PROVE Backing(h)'[c] = Backing(h)[c]
  <2>1. c \in ClaimIds /\ requests[c].bond \in Nat
    BY DEF SettlementTypeOK, IsMap, Request
  <2>2. c \notin DOMAIN bondedRequester /\ c \notin DOMAIN requests'
    BY <1>1, <2>1, OneBacker
  <2>3. Backing(h)[c] = IF h = requests[c].requester THEN requests[c].bond ELSE 0
    BY <2>1, OneBacker
  <2>4. CASE requests[c].bond > 0
    <3>1. c \in bonded
      BY <2>4
    <3> HIDE DEF bonded
    <3>2. c \in DOMAIN bondedRequester'
          /\ bondedRequester'[c].requester = requests[c].requester
          /\ bondedRequester'[c].bond = requests[c].bond
      BY <1>1, <3>1
    <3> QED
      BY <2>1, <2>2, <2>3, <3>2 DEF Backing, PendingBond, AttestedBond
  <2>5. CASE requests[c].bond = 0
    <3>1. c \notin DOMAIN bondedRequester'
      BY <1>1, <2>2, <2>5
    <3> QED
      BY <2>1, <2>2, <2>3, <2>5, <3>1, NoRowsNoBond
  <2> QED
    BY <2>1, <2>4, <2>5
<1> QED
  BY <1>1, <1>3, <1>4

\* Where nothing moves, the reserves stay exact.
LEMMA NothingMoves ==
  ASSUME BondInv, SettlementTypeOK', UNCHANGED reserved,
         \A c \in ClaimIds : \A h : Backing(h)'[c] = Backing(h)[c]
  PROVE  ReserveBacksBonds'
<1> SUFFICES ASSUME NEW h \in Holders PROVE reserved'[h] = SumFunction(Backing(h)')
  BY DEF ReserveBacksBonds, Backing
<1>1. Backing(h)' = Backing(h)
  BY DEF Backing
<1>2. reserved[h] = SumFunction(Backing(h))
  BY DEF BondInv, ReserveBacksBonds, Backing
<1> QED
  BY <1>1, <1>2

\* Every step keeps the reserves exact.
LEMMA ReserveStep ==
  TypeOK /\ SettlementTypeOK /\ OneBond /\ ReserveBacksBonds
    /\ [SettlementNext]_allVars => ReserveBacksBonds'
<1> SUFFICES ASSUME TypeOK, SettlementTypeOK, OneBond, ReserveBacksBonds,
                    [SettlementNext]_allVars
             PROVE  ReserveBacksBonds'
  OBVIOUS
<1>1. BondInv /\ SettlementTypeOK'
  BY SettlementTypeStep DEF BondInv
<1>2. CASE PipelineStep \/ UNCHANGED allVars
  <2>1. UNCHANGED <<requests, bondedRequester, reserved>>
    BY <1>2, PipelineKeepsClaims DEF allVars, settlementVars, bondVars, balanceVars
  <2>2. \A c \in ClaimIds : \A h : Backing(h)'[c] = Backing(h)[c]
    BY <2>1 DEF Backing, PendingBond, AttestedBond
  <2> QED
    BY <1>1, <2>1, <2>2, NothingMoves
<1>3. CASE AttestsClaims
  BY <1>1, <1>3, AttestMovesNoBond, NothingMoves
<1>4. CASE Supersedes
  <2> PICK who \in members, c \in DOMAIN requests, terms \in Terms :
             SupersedeSettlementRequest(who, c, terms)
    BY <1>4 DEF Supersedes
  <2>1. DiscardRequest(c)
    BY DEF SupersedeSettlementRequest
  <2> QED
    BY <1>1, <2>1, DiscardKeepsReserve
<1>5. CASE Releases
  <2> PICK c \in ClaimIds : ReleaseSettlementBond(c)
    BY <1>5 DEF Releases
  <2>1. CASE c \in DOMAIN requests /\ DiscardRequest(c)
    BY <1>1, <2>1, DiscardKeepsReserve
  <2>2. CASE /\ c \in DOMAIN bondedRequester /\ UNCHANGED requests
             /\ RefundSettlementBond(c, bondedRequester[c].requester, bondedRequester[c].bond)
    BY <1>1, <2>2, RefundKeepsReserve
  <2> QED
    BY <2>1, <2>2 DEF ReleaseSettlementBond
<1> QED
  BY <1>1, <1>2, <1>3, <1>4, <1>5, PostsKeepReserve, TopUpKeepsReserve, SlashKeepsReserve,
     SettlementCases

\* The named reserve of an account is, in every reachable state, the sum of the
\* bonds it stands behind, so no refund and no slash ever meets a deficit.
THEOREM ReservesBackBonds == SettlementSpec => []ReserveBacksBonds
<1>1. SettlementInit => ReserveBacksBonds
  <2> SUFFICES ASSUME SettlementInit, NEW h \in Holders
               PROVE  reserved[h] = SumFunction(Backing(h))
    BY DEF ReserveBacksBonds, Backing
  <2>1. reserved[h] = 0 /\ \A c \in ClaimIds : Backing(h)[c] = 0
    BY DEF SettlementInit, NoRows, Backing, PendingBond, AttestedBond
  <2>2. IsFiniteSet(ClaimIds)
    BY BoundsAssumption
  <2>3. SumFunctionOnSet(Backing(h), ClaimIds) = 0 * Cardinality(ClaimIds)
    BY <2>1, <2>2, SumEqual
  <2>4. 0 * Cardinality(ClaimIds) = 0
    BY <2>2, FS_CardinalityType
  <2> QED
    BY <2>1, <2>3, <2>4, BackingSum
<1> QED
  BY <1>1, ReserveStep, PipelineHolds, SettlementTypes, BondsAreOne, PTL DEF SettlementSpec

(***************************************************************************)
(* The bonds implement BondEscrow.                                         *)
(***************************************************************************)
\* The sums of the abstract module are the same sums.
LEMMA EscrowSum == \A f : Escrow!SumFunction(f) = SumFunction(f)
  BY Zenon DEF Escrow!SumFunction, Escrow!SumFunctionOnSet, Escrow!FoldFunctionOnSet,
         Escrow!MapThenFoldSet, SumFunction, SumFunctionOnSet, FoldFunctionOnSet,
         MapThenFoldSet

\* And it counts with the same Cardinality.
LEMMA EscrowCardinality == \A S : Escrow!Cardinality(S) = Cardinality(S)
  BY Zenon DEF Escrow!Cardinality, Cardinality

\* What the escrow holds of a claim.
EscrowRow(owner, amount) == [owner |-> owner, amount |-> amount]

\* It holds the bonds on record, before a step and after it.
LEMMA EscrowedRows ==
  ASSUME SettlementTypeOK, OneBond
  PROVE  /\ DOMAIN Escrowed \subseteq ClaimIds
         /\ \A c \in DOMAIN requests :
              /\ c \in DOMAIN Escrowed <=> requests[c].bond > 0
              /\ requests[c].bond > 0 =>
                   Escrowed[c] = EscrowRow(requests[c].requester, requests[c].bond)
         /\ \A c \in DOMAIN bondedRequester :
              /\ c \in DOMAIN Escrowed
              /\ Escrowed[c] =
                   EscrowRow(bondedRequester[c].requester, bondedRequester[c].bond)
         /\ \A c \in DOMAIN Escrowed : c \in DOMAIN requests \/ c \in DOMAIN bondedRequester
<1>1. /\ DOMAIN requests \subseteq ClaimIds /\ DOMAIN bondedRequester \subseteq ClaimIds
      /\ DOMAIN requests \cap DOMAIN bondedRequester = {}
  BY DEF SettlementTypeOK, IsMap, OneBond, UnsettledClaims
<1>2. DOMAIN Escrowed = {c \in ClaimIds : Bonded(c)}
  BY DEF Escrowed
<1> QED
  BY <1>1, <1>2 DEF Escrowed, Bonded, EscrowRow

\* After the step too, what is escrowed are the bonds of requests and records.
LEMMA EscrowedRowsNext ==
  ASSUME SettlementTypeOK', OneBond'
  PROVE  /\ DOMAIN Escrowed' \subseteq ClaimIds
         /\ \A c \in DOMAIN requests' :
              /\ c \in DOMAIN Escrowed' <=> requests'[c].bond > 0
              /\ requests'[c].bond > 0 =>
                   Escrowed'[c] = EscrowRow(requests'[c].requester, requests'[c].bond)
         /\ \A c \in DOMAIN bondedRequester' :
              /\ c \in DOMAIN Escrowed'
              /\ Escrowed'[c] =
                   EscrowRow(bondedRequester'[c].requester, bondedRequester'[c].bond)
         /\ \A c \in DOMAIN Escrowed' : c \in DOMAIN requests' \/ c \in DOMAIN bondedRequester'
<1>1. /\ DOMAIN requests' \subseteq ClaimIds /\ DOMAIN bondedRequester' \subseteq ClaimIds
      /\ DOMAIN requests' \cap DOMAIN bondedRequester' = {}
  BY DEF SettlementTypeOK, IsMap, OneBond, UnsettledClaims
<1>2. DOMAIN Escrowed' = {c \in ClaimIds : Bonded(c)'}
  BY DEF Escrowed
<1> QED
  BY <1>1, <1>2 DEF Escrowed, Bonded, EscrowRow

\* The escrow is what its rows say.
LEMMA EscrowedIs ==
  ASSUME NEW map, map = [c \in DOMAIN map |-> map[c]],
         DOMAIN Escrowed' = DOMAIN map, \A c \in DOMAIN map : Escrowed'[c] = map[c]
  PROVE  Escrowed' = map
  BY DEF Escrowed

\* Where the rows of a claim stay, so does its bond.
SameBond(c) ==
  /\ c \in DOMAIN Escrowed' <=> c \in DOMAIN Escrowed
  /\ c \in DOMAIN Escrowed => Escrowed'[c] = Escrowed[c]

EscrowInv ==
  /\ TypeOK /\ BondInv /\ OneStagePerClaim
  /\ SettlementTypeOK' /\ OneBond'

\* A claim whose request and record do not change keeps its bond.
LEMMA BondStays ==
  ASSUME EscrowInv, NEW c,
         c \in DOMAIN requests' <=> c \in DOMAIN requests,
         c \in DOMAIN requests => requests'[c] = requests[c],
         c \in DOMAIN bondedRequester' <=> c \in DOMAIN bondedRequester,
         c \in DOMAIN bondedRequester => bondedRequester'[c] = bondedRequester[c]
  PROVE  SameBond(c)
  BY DEF SameBond, Escrowed, Bonded

\* When every bond stays, so does the escrow; when all but one do and that one
\* is gone, the escrow is the old one without it.
LEMMA EscrowStays ==
  ASSUME EscrowInv, \A c \in ClaimIds : SameBond(c)
  PROVE  UNCHANGED Escrowed
<1>1. DOMAIN Escrowed \subseteq ClaimIds /\ DOMAIN Escrowed' \subseteq ClaimIds
  BY DEF Escrowed
<1>2. Escrowed = [c \in DOMAIN Escrowed |-> Escrowed[c]]
  BY DEF Escrowed
<1> QED
  BY <1>1, <1>2, EscrowedIs DEF SameBond

\* If one claim's bond goes and the others stay, the escrow loses just that one.
LEMMA EscrowLoses ==
  ASSUME EscrowInv, NEW c, c \notin DOMAIN Escrowed',
         \A d \in ClaimIds \ {c} : SameBond(d)
  PROVE  Escrowed' = Escrow!Remove(Escrowed, {c})
<1>1. DOMAIN Escrowed \subseteq ClaimIds /\ DOMAIN Escrowed' \subseteq ClaimIds
  BY DEF Escrowed
<1> DEFINE map == Escrow!Remove(Escrowed, {c})
<1>2. map = [d \in DOMAIN map |-> map[d]] /\ DOMAIN map = DOMAIN Escrowed \ {c}
      /\ \A d \in DOMAIN Escrowed \ {c} : map[d] = Escrowed[d]
  BY DEF Escrow!Remove, Escrow!Restrict
<1> HIDE DEF map
<1>3. DOMAIN Escrowed' = DOMAIN map /\ \A d \in DOMAIN map : Escrowed'[d] = map[d]
  BY <1>1, <1>2 DEF SameBond
<1> QED
  BY <1>2, <1>3, EscrowedIs DEF map

\* If claims get bonds of one owner and the others stay, the escrow gains just those.
LEMMA EscrowGains ==
  ASSUME EscrowInv, NEW cs \in SUBSET ClaimIds, NEW who, NEW bond,
         \A c \in cs : c \in DOMAIN Escrowed' /\ Escrowed'[c] = EscrowRow(who, bond),
         \A c \in ClaimIds \ cs : SameBond(c)
  PROVE  Escrowed' = Escrow!Put(Escrowed, [c \in cs |-> [owner |-> who, amount |-> bond]])
<1>1. DOMAIN Escrowed \subseteq ClaimIds /\ DOMAIN Escrowed' \subseteq ClaimIds
  BY DEF Escrowed
<1> DEFINE new == [c \in cs |-> [owner |-> who, amount |-> bond]]
           map == Escrow!Put(Escrowed, new)
<1>2. /\ map = [d \in DOMAIN map |-> map[d]] /\ DOMAIN map = DOMAIN Escrowed \cup cs
      /\ \A d \in cs : map[d] = EscrowRow(who, bond)
      /\ \A d \in DOMAIN Escrowed \ cs : map[d] = Escrowed[d]
  BY DEF Escrow!Put, EscrowRow
<1> HIDE DEF map
<1>3. DOMAIN Escrowed' = DOMAIN map
  BY <1>1, <1>2 DEF SameBond
<1>4. ASSUME NEW d \in DOMAIN map PROVE Escrowed'[d] = map[d]
  <2>1. CASE d \in cs
    BY <1>2, <2>1
  <2>2. CASE d \in DOMAIN Escrowed \ cs
    <3>1. SameBond(d)
      BY <1>1, <2>2
    <3> QED
      BY <1>2, <2>2, <3>1 DEF SameBond
  <2> QED
    BY <1>2, <2>1, <2>2
<1>5. Escrowed' = map
  BY <1>2, <1>3, <1>4, EscrowedIs
<1> QED
  BY <1>5 DEF map

\* The balances and the rows that the steps below start from.
LEMMA EscrowTypes ==
  ASSUME EscrowInv
  PROVE  /\ free \in [Holders -> Nat]
         /\ \A c \in DOMAIN requests :
              /\ c \in ClaimIds /\ c \notin DOMAIN settlements
              /\ requests[c].requester \in Holders /\ requests[c].bond \in Nat
         /\ \A c \in DOMAIN bondedRequester :
              /\ c \in ClaimIds
              /\ bondedRequester[c].requester \in Holders /\ bondedRequester[c].bond \in Nat
         /\ SettlementTypeOK /\ OneBond
  BY DEF EscrowInv, BondInv, SettlementTypeOK, OneStagePerClaim, OneBond, UnsettledClaims, IsMap,
         Request, Holders

\* A bond that goes back to its owner is a Return, which settles the claim or
\* does not.
LEMMA ReturnStep ==
  ASSUME EscrowInv, NEW c \in DOMAIN Escrowed, c \notin DOMAIN Escrowed',
         \A d \in ClaimIds \ {c} : SameBond(d),
         free' = [free EXCEPT ![Escrowed[c].owner] = @ + Escrowed[c].amount]
  PROVE  Escrow!Return(c)
  BY EscrowLoses DEF Escrow!Return

\* An attestation settles its claims and keeps the bonds.
LEMMA EscrowAttests ==
  ASSUME EscrowInv, AttestsClaims
  PROVE  Escrow!Next
<1> PICK who \in members, cs \in SUBSET DOMAIN requests : AttestBatchSettle(who, cs)
  BY DEF AttestsClaims
<1> DEFINE bonded == {c \in cs : requests[c].bond > 0}
<1>1. /\ cs # {}
      /\ DOMAIN settlements' = DOMAIN settlements \cup cs
      /\ DOMAIN bondedRequester' = DOMAIN bondedRequester \cup bonded
      /\ \A c \in bonded : bondedRequester'[c] = [requester |-> requests[c].requester,
                                                  bond |-> requests[c].bond]
      /\ \A c \in DOMAIN bondedRequester \ bonded : bondedRequester'[c] = bondedRequester[c]
      /\ DOMAIN requests' = DOMAIN requests \ cs
      /\ \A c \in DOMAIN requests \ cs : requests'[c] = requests[c]
      /\ UNCHANGED free
  BY AttestEffect DEF EscrowInv, BondInv, AttestBatchSettle
<1>2. cs \subseteq ClaimIds /\ cs \cap DOMAIN settlements = {}
  BY EscrowTypes
<1>3. bonded \subseteq cs
  OBVIOUS
<1>4. ASSUME NEW c \in ClaimIds \ cs PROVE SameBond(c)
  <2> HIDE DEF bonded
  <2> QED
    BY <1>1, <1>3, BondStays
<1>5. ASSUME NEW c \in cs PROVE SameBond(c)
  <2>1. /\ c \in DOMAIN Escrowed <=> requests[c].bond > 0
        /\ requests[c].bond > 0 =>
             Escrowed[c] = EscrowRow(requests[c].requester, requests[c].bond)
        /\ c \notin DOMAIN bondedRequester
    <3>1. SettlementTypeOK /\ OneBond /\ c \in ClaimIds /\ c \in DOMAIN requests
      BY <1>2, EscrowTypes
    <3> QED
      BY <3>1, EscrowedRows, OneBacker
  <2>2. CASE c \in bonded
    <3>1. requests[c].bond > 0
      BY <2>2
    <3> HIDE DEF bonded
    <3>2. c \in DOMAIN bondedRequester'
          /\ bondedRequester'[c] = [requester |-> requests[c].requester,
                                    bond |-> requests[c].bond]
      BY <1>1, <2>2
    <3>3. c \in DOMAIN Escrowed'
          /\ Escrowed'[c] = EscrowRow(requests[c].requester, requests[c].bond)
      BY <3>2, EscrowedRowsNext DEF EscrowInv
    <3> QED
      BY <2>1, <3>1, <3>3 DEF SameBond
  <2>3. CASE c \notin bonded
    <3>1. ~(requests[c].bond > 0)
      BY <2>3
    <3> HIDE DEF bonded
    <3>2. c \notin DOMAIN requests' /\ c \notin DOMAIN bondedRequester'
      BY <1>1, <2>1, <2>3
    <3>3. c \notin DOMAIN Escrowed'
      BY <3>2, EscrowedRowsNext DEF EscrowInv
    <3> QED
      BY <2>1, <3>1, <3>3 DEF SameBond
  <2> QED
    BY <2>2, <2>3
<1>6. UNCHANGED Escrowed
  BY <1>4, <1>5, EscrowStays
<1>7. Escrow!Settle(cs)
  BY <1>1, <1>2, <1>6 DEF Escrow!Settle
<1> QED
  BY <1>2, <1>7 DEF Escrow!Next

\* A request that is discarded gives its bond back, if it has one.
LEMMA EscrowDiscards ==
  ASSUME EscrowInv, NEW c \in DOMAIN requests, DiscardRequest(c)
  PROVE  \/ Escrow!Return(c)
         \/ requests[c].bond = 0 /\ UNCHANGED <<free, Escrowed>>
<1> DEFINE r == requests[c]
<1>1. /\ SettlementTypeOK /\ OneBond /\ BondInv /\ free \in [Holders -> Nat]
      /\ c \in ClaimIds /\ r.requester \in Holders /\ r.bond \in Nat
  BY EscrowTypes DEF EscrowInv
<1>2. free' = [free EXCEPT ![r.requester] = @ + r.bond] /\ c \notin DOMAIN bondedAttestedAt
  BY <1>1, DiscardInFull
<1>3. DOMAIN bondedAttestedAt = DOMAIN bondedRequester
  BY <1>1 DEF OneBond
<1>4. /\ DOMAIN bondedRequester' = DOMAIN bondedRequester
      /\ \A d \in DOMAIN bondedRequester : bondedRequester'[d] = bondedRequester[d]
      /\ DOMAIN requests' = DOMAIN requests \ {c}
      /\ \A d \in DOMAIN requests \ {c} : requests'[d] = requests[d]
  BY <1>2, <1>3, DiscardRecords
<1>5. \A d \in ClaimIds \ {c} : SameBond(d)
  BY <1>4, BondStays
<1>6. c \notin DOMAIN Escrowed'
  <2>1. c \notin DOMAIN requests' /\ c \notin DOMAIN bondedRequester'
    BY <1>2, <1>3, <1>4
  <2> QED
    BY <2>1, EscrowedRowsNext DEF EscrowInv
<1>7. /\ c \in DOMAIN Escrowed <=> r.bond > 0
      /\ r.bond > 0 => Escrowed[c] = EscrowRow(r.requester, r.bond)
  BY <1>1, EscrowedRows
<1>8. CASE r.bond > 0
  <2>1. free' = [free EXCEPT ![Escrowed[c].owner] = @ + Escrowed[c].amount]
    <3>1. Escrowed[c].owner = r.requester /\ Escrowed[c].amount = r.bond
      BY <1>7, <1>8 DEF EscrowRow
    <3> QED
      BY <1>2, <3>1, Zenon
  <2> QED
    BY <1>5, <1>6, <1>7, <1>8, <2>1, ReturnStep
<1>9. CASE r.bond = 0
  <2>1. UNCHANGED free
    BY <1>1, <1>2, <1>9
  <2>2. SameBond(c)
    BY <1>6, <1>7, <1>9 DEF SameBond
  <2>3. UNCHANGED Escrowed
    BY <1>5, <2>2, EscrowStays
  <2> QED
    BY <1>9, <2>1, <2>3
<1> QED
  BY <1>1, <1>8, <1>9

\* A supersede settles the claim on other evidence than its owner's.
LEMMA EscrowSupersedes ==
  ASSUME EscrowInv, Supersedes
  PROVE  Escrow!Next
<1> PICK who \in members, c \in DOMAIN requests, terms \in Terms :
           SupersedeSettlementRequest(who, c, terms)
  BY DEF Supersedes
<1>1. DiscardRequest(c)
  BY DEF SupersedeSettlementRequest
<1>2. DOMAIN settlements' = DOMAIN settlements \cup {c}
  BY DEF SupersedeSettlementRequest, Put, Entry
<1>3. c \in ClaimIds /\ c \notin DOMAIN settlements
  BY EscrowTypes
<1>4. CASE Escrow!Return(c)
  <2>1. Escrow!SettleOtherwise(c)
    BY <1>2, <1>3, <1>4 DEF Escrow!SettleOtherwise
  <2> QED
    BY <1>3, <2>1 DEF Escrow!Next
<1>5. CASE UNCHANGED <<free, Escrowed>>
  <2>1. Escrow!Settle({c}) /\ {c} \in SUBSET ClaimIds
    BY <1>2, <1>3, <1>5 DEF Escrow!Settle
  <2> QED
    BY <2>1 DEF Escrow!Next
<1> QED
  BY <1>1, <1>4, <1>5, EscrowDiscards

\* A release returns the bond and settles nothing.
LEMMA EscrowReleases ==
  ASSUME EscrowInv, Releases
  PROVE  Escrow!Next
<1> PICK c \in ClaimIds : ReleaseSettlementBond(c)
  BY DEF Releases
<1>1. UNCHANGED settlements
  BY DEF ReleaseSettlementBond
<1>2. Escrow!Return(c)
  <2>1. CASE c \in DOMAIN requests /\ requests[c].bond > 0 /\ DiscardRequest(c)
    BY <2>1, EscrowDiscards
  <2>2. CASE /\ c \in DOMAIN bondedRequester /\ UNCHANGED requests
             /\ RefundSettlementBond(c, bondedRequester[c].requester, bondedRequester[c].bond)
    <3>1. free' = [free EXCEPT ![bondedRequester[c].requester] = @ + bondedRequester[c].bond]
      BY <2>2, RefundKeepsReserve DEF EscrowInv
    <3>2. /\ DOMAIN bondedRequester' = DOMAIN bondedRequester \ {c}
          /\ \A d \in DOMAIN bondedRequester \ {c} : bondedRequester'[d] = bondedRequester[d]
      BY <2>2, RefundRecords
    <3>3. SettlementTypeOK /\ OneBond
      BY EscrowTypes
    <3>4. c \in DOMAIN Escrowed
          /\ Escrowed[c] = EscrowRow(bondedRequester[c].requester, bondedRequester[c].bond)
      BY <2>2, <3>3, EscrowedRows
    <3>5. c \notin DOMAIN requests' /\ c \notin DOMAIN bondedRequester'
      BY <2>2, <3>2, <3>3, OneBacker
    <3>6. c \notin DOMAIN Escrowed'
      BY <3>5, EscrowedRowsNext DEF EscrowInv
    <3>7. \A d \in ClaimIds \ {c} : SameBond(d)
      BY <2>2, <3>2, BondStays
    <3>8. free' = [free EXCEPT ![Escrowed[c].owner] = @ + Escrowed[c].amount]
      BY <3>1, <3>4 DEF EscrowRow
    <3> QED
      BY <3>4, <3>6, <3>7, <3>8, ReturnStep
  <2> QED
    BY <2>1, <2>2 DEF ReleaseSettlementBond
<1> QED
  BY <1>1, <1>2 DEF Escrow!Next

\* A slash forfeits the bond, before its claim settles.
LEMMA EscrowSlashes ==
  ASSUME EscrowInv, Slashes
  PROVE  Escrow!Next
<1> PICK who \in members, c \in DOMAIN requests : SlashBadSettlementEvidence(who, c)
  BY DEF Slashes
<1> DEFINE r == requests[c]
<1>1. /\ SettlementTypeOK /\ OneBond /\ BondInv
      /\ c \in ClaimIds /\ c \notin DOMAIN settlements /\ r.bond \in Nat /\ r.bond > 0
      /\ who \in Holders
  BY EscrowTypes DEF EscrowInv, SlashBadSettlementEvidence, TypeOK, Holders
<1>2. free' = [h \in Holders |-> free[h] + (IF h = who THEN WatcherShare(r.bond) ELSE 0)
                                 + (IF h = Treasury THEN TreasuryShare(r.bond) ELSE 0)]
  BY <1>1, SlashInFull
<1>3. c \in DOMAIN Escrowed /\ Escrowed[c] = EscrowRow(r.requester, r.bond)
  BY <1>1, EscrowedRows
<1>4. /\ DOMAIN requests' = DOMAIN requests \ {c}
      /\ \A d \in DOMAIN requests \ {c} : requests'[d] = requests[d]
      /\ UNCHANGED <<settlements, bondedRequester>>
  BY SlashEffect
<1>5. c \notin DOMAIN Escrowed'
  <2>1. c \notin DOMAIN requests' /\ c \notin DOMAIN bondedRequester'
    BY <1>1, <1>4, OneBacker
  <2> QED
    BY <2>1, EscrowedRowsNext DEF EscrowInv
<1>6. \A d \in ClaimIds \ {c} : SameBond(d)
  BY <1>4, BondStays
<1>7. Escrowed' = Escrow!Remove(Escrowed, {c})
  BY <1>5, <1>6, EscrowLoses
<1>8. WatcherShare(r.bond) \in 0 .. r.bond
      /\ TreasuryShare(r.bond) = r.bond - WatcherShare(r.bond)
  BY <1>1, SharesMakeTheBond DEF TreasuryShare
<1>9. Escrow!Forfeit(c, who, WatcherShare(r.bond))
  <2>1. Escrowed[c].amount = r.bond
    BY <1>3 DEF EscrowRow
  <2> HIDE DEF r
  <2> QED
    BY <1>1, <1>2, <1>3, <1>4, <1>7, <1>8, <2>1 DEF Escrow!Forfeit
<1> QED
  <2>1. c \in DOMAIN Escrowed \ DOMAIN settlements
        /\ WatcherShare(r.bond) \in 0 .. Escrowed[c].amount
    BY <1>1, <1>3, <1>8 DEF EscrowRow
  <2> QED
    BY <1>1, <1>9, <2>1 DEF Escrow!Next

\* The abstract module owes each holder, on the claims of a batch, what the
\* batch gives back: a request without a bond is owed nothing.
LEMMA OwedIsReplaced ==
  ASSUME EscrowInv, NEW cs \in SUBSET ClaimIds, cs \cap DOMAIN bondedRequester = {},
         NEW h \in Holders
  PROVE  Escrow!Owed(cs, h) = Replaced(cs, h)
<1> DEFINE owed == {d \in cs \cap DOMAIN Escrowed : Escrowed[d].owner = h}
           f == [c \in cs |-> ReplacedBond(c, h)]
           g == [c \in owed |-> Escrowed[c].amount]
<1>1. SettlementTypeOK /\ OneBond
  BY EscrowTypes
<1>2. IsFiniteSet(cs) /\ Replaced(cs, h) = SumFunctionOnSet(f, cs)
  BY <1>1, BondAmounts
<1>3. owed \subseteq cs /\ DOMAIN g = owed /\ IsFiniteSet(owed)
  <2>1. owed \subseteq cs
    OBVIOUS
  <2> QED
    BY <1>2, <2>1, FS_Subset
<1>4. ASSUME NEW c \in cs
      PROVE  /\ f[c] \in Nat
             /\ c \in owed => f[c] = g[c]
             /\ c \notin owed => f[c] = 0
  <2>1. CASE c \in DOMAIN requests
    <3>1. /\ c \in DOMAIN Escrowed <=> requests[c].bond > 0
          /\ requests[c].bond > 0 =>
               Escrowed[c] = EscrowRow(requests[c].requester, requests[c].bond)
          /\ requests[c].bond \in Nat
      BY <1>1, <2>1, EscrowedRows, EscrowTypes
    <3> QED
      BY <2>1, <3>1 DEF ReplacedBond, EscrowRow
  <2>2. CASE c \notin DOMAIN requests
    <3>1. c \notin DOMAIN Escrowed
      BY <1>1, <2>2, EscrowedRows
    <3> QED
      BY <2>2, <3>1 DEF ReplacedBond
  <2> QED
    BY <2>1, <2>2
<1>5. Escrow!Owed(cs, h) = SumFunction(g)
  BY EscrowSum DEF Escrow!Owed
<1> HIDE DEF owed, f, g
<1>6. SumFunctionOnSet(f, cs) = SumFunctionOnSet(f, owed)
  BY <1>2, <1>3, <1>4, SumNonzero
<1>7. SumFunctionOnSet(f, owed) = SumFunctionOnSet(g, owed)
  BY <1>3, <1>4, SumAgree
<1> QED
  BY <1>2, <1>3, <1>5, <1>6, <1>7 DEF SumFunction

\* A batch of requests is a Post: the bonds it replaces go back first.
LEMMA EscrowPosts ==
  ASSUME EscrowInv, Posts
  PROVE  Escrow!Next
<1> PICK who \in Requesters, cs \in SUBSET ClaimIds :
           \E entries \in [cs -> Terms], bond \in Bonds :
              RequestBatchSettle(who, entries, bond)
  BY DEF Posts
<1> PICK entries \in [cs -> Terms], bond \in Bonds : RequestBatchSettle(who, entries, bond)
  OBVIOUS
<1>1. /\ SettlementTypeOK /\ OneBond /\ BondInv /\ TypeOK
      /\ free \in [Holders -> Nat] /\ who \in Holders
  BY EscrowTypes DEF EscrowInv, Holders
<1>2. /\ cs \subseteq UnsettledClaims
      /\ DOMAIN requests' = DOMAIN requests \cup cs
      /\ \A c \in cs : requests'[c] = NewRequest(who, entries[c], bond)
      /\ \A c \in DOMAIN requests \ cs : requests'[c] = requests[c]
      /\ DOMAIN bondedRequester' = DOMAIN bondedRequester
      /\ \A c \in DOMAIN bondedRequester : bondedRequester'[c] = bondedRequester[c]
      /\ UNCHANGED settlements
  BY <1>1, PostsEffect
<1>3. cs \cap DOMAIN bondedRequester = {} /\ cs \cap DOMAIN settlements = {}
  BY <1>1, <1>2 DEF OneBond
<1>4. /\ bond \in Nat /\ bond > 0 /\ cs # {}
      /\ free[who] + AtMost(Replaced(cs, who), reserved[who]) >= Posted(who, cs, bond, who)
      /\ free' = [h \in Holders |-> free[h] + AtMost(Replaced(cs, h), reserved[h])
                                      - Posted(who, cs, bond, h)]
  <2>1. DOMAIN entries = cs /\ bond \in Nat
    BY SettlementAssumption
  <2>2. free[who] + AtMost(Replaced(cs, who), reserved[who]) >= Posted(who, cs, bond, who)
    BY <1>1, <2>1 DEF RequestBatchSettle, Funded, Replaced, Posted
  <2>3. free' = [h \in Holders |-> free[h] + AtMost(Replaced(cs, h), reserved[h])
                                      - Posted(who, cs, bond, h)]
    BY <1>1, <2>1 DEF RequestBatchSettle, Replaced, Posted
  <2>4. bond > 0 /\ cs # {}
    BY <2>1 DEF RequestBatchSettle
  <2> QED
    BY <2>1, <2>2, <2>3, <2>4
<1>5. \A h \in Holders : AtMost(Replaced(cs, h), reserved[h]) = Escrow!Owed(cs, h)
  <2>1. \A h \in Holders : AtMost(Replaced(cs, h), reserved[h]) = Replaced(cs, h)
    BY <1>1, <1>2, ReplacedInFull
  <2>2. \A h \in Holders : Escrow!Owed(cs, h) = Replaced(cs, h)
    BY <1>3, OwedIsReplaced
  <2> QED
    BY <2>1, <2>2
<1>6. Escrowed' = Escrow!Put(Escrowed, [c \in cs |-> [owner |-> who, amount |-> bond]])
  <2>1. ASSUME NEW c \in cs
        PROVE  c \in DOMAIN Escrowed' /\ Escrowed'[c] = EscrowRow(who, bond)
    <3>1. c \in DOMAIN requests' /\ requests'[c].bond = bond /\ requests'[c].requester = who
      BY <1>2 DEF NewRequest
    <3>2. /\ c \in DOMAIN Escrowed' <=> requests'[c].bond > 0
          /\ requests'[c].bond > 0 =>
               Escrowed'[c] = EscrowRow(requests'[c].requester, requests'[c].bond)
      BY <3>1, EscrowedRowsNext DEF EscrowInv
    <3> QED
      BY <1>4, <3>1, <3>2
  <2>2. \A c \in ClaimIds \ cs : SameBond(c)
    BY <1>2, BondStays
  <2> QED
    BY <2>1, <2>2, EscrowGains
<1>7. Escrow!Post(who, cs, bond)
  <2> DEFINE out == [h \in Holders |-> IF h = who THEN bond * Cardinality(cs) ELSE 0]
  <2>1. \A h \in Holders : out[h] = Posted(who, cs, bond, h)
    BY DEF Posted
  <2>2. free' = [h \in Holders |-> free[h] + Escrow!Owed(cs, h) - out[h]]
    BY <1>4, <1>5, <2>1
  <2>3. free[who] + Escrow!Owed(cs, who) >= out[who]
    BY <1>1, <1>4, <1>5, <2>1
  <2>4. UNCHANGED DOMAIN settlements
    BY <1>2
  <2>5. cs # {} /\ bond > 0
    BY <1>4
  <2> QED
    BY <1>6, <2>2, <2>3, <2>4, <2>5, EscrowCardinality, Zenon DEF Escrow!Post
<1>8. cs \in SUBSET (ClaimIds \ DOMAIN settlements)
  BY <1>3
<1> QED
  BY <1>1, <1>7, <1>8 DEF Escrow!Next

\* So is a bond posted for an old request, which replaces none.
LEMMA EscrowTopsUp ==
  ASSUME EscrowInv, TopsUp
  PROVE  Escrow!Next
<1> PICK who \in Requesters, c \in ClaimIds, bond \in Bonds : PostSettlementBond(who, c, bond)
  BY DEF TopsUp
<1>1. /\ c \in DOMAIN requests /\ requests[c].requester = who /\ requests[c].bond = 0
      /\ bond > 0 /\ free[who] + 0 >= bond
      /\ requests' = [requests EXCEPT ![c].bond = bond]
      /\ free' = [free EXCEPT ![who] = @ - bond]
      /\ UNCHANGED <<bondedRequester, settlements>>
  BY DEF PostSettlementBond, Fresh, bondVars, Funded
<1>2. /\ bond \in Nat /\ who \in Holders /\ requests[c] \in Request
      /\ SettlementTypeOK /\ OneBond /\ free \in [Holders -> Nat]
      /\ c \notin DOMAIN settlements
  BY <1>1, EscrowTypes, SettlementAssumption DEF SettlementTypeOK, Holders
<1>3. c \notin DOMAIN bondedRequester
  BY <1>1, <1>2, OneBacker
<1>4. /\ DOMAIN requests' = DOMAIN requests
      /\ requests'[c].requester = who /\ requests'[c].bond = bond
      /\ \A d \in DOMAIN requests \ {c} : requests'[d] = requests[d]
  BY <1>1, <1>2 DEF Request
<1>5. c \in DOMAIN Escrowed' /\ Escrowed'[c] = EscrowRow(who, bond)
  BY <1>1, <1>4, EscrowedRowsNext DEF EscrowInv
<1>6. \A d \in ClaimIds \ {c} : SameBond(d)
  BY <1>1, <1>4, BondStays
<1>7. Escrowed' = Escrow!Put(Escrowed, [d \in {c} |-> [owner |-> who, amount |-> bond]])
  <2>1. /\ {c} \in SUBSET ClaimIds
        /\ \A d \in {c} : d \in DOMAIN Escrowed' /\ Escrowed'[d] = EscrowRow(who, bond)
    BY <1>5
  <2> QED
    BY <1>6, <2>1, EscrowGains
<1>8. \A h \in Holders : Escrow!Owed({c}, h) = 0
  <2> SUFFICES ASSUME NEW h \in Holders PROVE Escrow!Owed({c}, h) = 0
    OBVIOUS
  <2>1. Escrow!Owed({c}, h) = Replaced({c}, h)
    BY <1>3, OwedIsReplaced
  <2>2. Replaced({c}, h) = SumFunctionOnSet([d \in {c} |-> ReplacedBond(d, h)], {c})
    BY <1>2, BondAmounts
  <2> DEFINE f == [d \in {c} |-> ReplacedBond(d, h)]
  <2>3. f[c] = 0
    BY <1>1 DEF ReplacedBond
  <2> HIDE DEF f
  <2>4. SumFunctionOnSet(f, {c}) = 0
    BY <2>3, SumSingle
  <2> QED
    BY <2>1, <2>2, <2>4 DEF f
<1>9. Escrow!Post(who, {c}, bond)
  <2> DEFINE out == [h \in Holders |-> IF h = who THEN bond * Cardinality({c}) ELSE 0]
  <2>1. \A h \in Holders : out[h] = IF h = who THEN bond ELSE 0
    <3>1. Cardinality({c}) = 1
      BY FS_Singleton
    <3>2. bond * 1 = bond
      BY <1>2
    <3> QED
      BY <3>1, <3>2
  <2>2. free' = [h \in Holders |-> free[h] + Escrow!Owed({c}, h) - out[h]]
    <3> DEFINE new == [h \in Holders |-> free[h] + Escrow!Owed({c}, h) - out[h]]
    <3> HIDE DEF out
    <3>1. ASSUME NEW h \in Holders
          PROVE  new[h] = free[h] - (IF h = who THEN bond ELSE 0)
      <4>1. new[h] = free[h] + Escrow!Owed({c}, h) - out[h]
        OBVIOUS
      <4>2. Escrow!Owed({c}, h) = 0 /\ out[h] = IF h = who THEN bond ELSE 0
        BY <1>8, <2>1
      <4>3. new[h] = free[h] + 0 - (IF h = who THEN bond ELSE 0)
        BY <4>1, <4>2, Zenon
      <4> QED
        BY <1>2, <4>3
    <3>2. \A h \in Holders : free'[h] = free[h] - (IF h = who THEN bond ELSE 0)
      BY <1>1, <1>2
    <3>3. free' = [h \in Holders |-> free'[h]] /\ new = [h \in Holders |-> new[h]]
      BY <1>1, <1>2
    <3> HIDE DEF new
    <3>4. free' = new
      BY <3>1, <3>2, <3>3
    <3> QED
      BY <3>4 DEF new
  <2>3. free[who] + Escrow!Owed({c}, who) >= out[who]
    BY <1>1, <1>2, <1>8, <2>1
  <2>4. UNCHANGED DOMAIN settlements
    BY <1>1
  <2>5. {c} # {}
    OBVIOUS
  <2> QED
    BY <1>1, <1>7, <2>2, <2>3, <2>4, <2>5, EscrowCardinality, Zenon DEF Escrow!Post
<1>10. {c} \in SUBSET (ClaimIds \ DOMAIN settlements)
  BY <1>2
<1> QED
  BY <1>2, <1>9, <1>10 DEF Escrow!Next

\* Every step of the settlements is a step of the escrow or leaves it alone.
LEMMA EscrowStep ==
  TypeOK /\ SettlementTypeOK /\ OneStagePerClaim /\ ReserveBacksBonds
    /\ [SettlementNext]_allVars => [Escrow!Next]_(Escrow!escrowVars)
<1> SUFFICES ASSUME TypeOK, SettlementTypeOK, OneStagePerClaim, ReserveBacksBonds,
                    [SettlementNext]_allVars
             PROVE  Escrow!Next \/ UNCHANGED Escrow!escrowVars
  OBVIOUS
<1>1. EscrowInv
  <2>1. SettlementTypeOK' /\ OneStagePerClaim'
    BY SettlementTypeStep, StageStep
  <2>2. OneBond /\ OneBond'
    BY <2>1 DEF OneStagePerClaim, OneBond
  <2> QED
    BY <2>1, <2>2 DEF EscrowInv, BondInv
<1>2. CASE PipelineStep \/ UNCHANGED allVars
  <2>1. UNCHANGED <<requests, bondedRequester, free, settlements>>
    BY <1>2, PipelineKeepsClaims DEF allVars, settlementVars, bondVars, balanceVars
  <2>2. UNCHANGED Escrowed
    BY <2>1 DEF Escrowed, Bonded
  <2> QED
    BY <2>1, <2>2 DEF Escrow!escrowVars
<1> QED
  BY <1>1, <1>2, EscrowPosts, EscrowTopsUp, EscrowAttests, EscrowSupersedes, EscrowSlashes,
     EscrowReleases, SettlementCases

\* The bonds keep the promise of BondEscrow: at most one stands behind a claim,
\* it came out of its owner's wallet in full, and it goes back in full or, only
\* while the claim is unsettled, to a watcher and the treasury.
THEOREM BondsImplementEscrow == SettlementSpec => BondsAreEscrowed
<1>1. SettlementInit => Escrow!Init
  <2> SUFFICES ASSUME SettlementInit PROVE Escrow!Init
    OBVIOUS
  <2>1. DOMAIN requests = {} /\ DOMAIN bondedRequester = {} /\ DOMAIN settlements = {}
        /\ free \in [Holders -> Nat]
    BY SettlementAssumption DEF SettlementInit, NoRows
  <2>2. Escrowed = Escrow!NoRows
    BY <2>1 DEF Escrowed, Bonded, Escrow!NoRows
  <2> QED
    BY <2>1, <2>2 DEF Escrow!Init
<1> QED
  BY <1>1, EscrowStep, PipelineHolds, SettlementTypes, StagesAreOne, ReservesBackBonds, PTL
     DEF SettlementSpec, BondsAreEscrowed, Escrow!Spec

=============================================================================
