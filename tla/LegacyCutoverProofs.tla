------------------------ MODULE LegacyCutoverProofs ------------------------
(***************************************************************************)
(* Proofs about LegacyCutover for every value of its constants and every   *)
(* chain that an older version may have left.                              *)
(***************************************************************************)
EXTENDS LegacyCutover, IntentSettlementProofs

(***************************************************************************)
(* The inductive invariant: the types, one bond per claim, and four facts  *)
(* that each relate the storage version to what upgrades and calls left.   *)
(***************************************************************************)
\* The cutovers that a chain may hold at a version: the first part of TryState.
Agree(v, stca, expire) ==
  /\ v = 0 => expire = 0
  /\ v = 1 => stca # 0
  /\ v = 2 => stca # 0 /\ expire # 0
  /\ v \notin 0 .. 2 => (stca = 0 <=> expire = 0)

\* The flags that a chain may hold at a version.  While the walk over the
\* claims goes on, nothing settles on evidence, and every flag is of a claim
\* that settled without.
FlagsMatch(v, flags) ==
  IF v = 0
  THEN /\ flags \subseteq DOMAIN settlements
       /\ \A c \in DOMAIN settlements : settlements[c].evidence.depth = 0
  ELSE \A c \in ClaimIds :
         c \in flags <=> c \in DOMAIN settlements /\ settlements[c].evidence.depth = 0

EvidenceBehindRequests == \A c \in DOMAIN requests : requests[c].evidence.depth > 0

\* The bonds are in the anonymous reserve on a chain at version 3, which runs
\* no call before the upgrade that moves them.
BondsReserved ==
  IF version = 3
  THEN upgrades = 0 /\ \A h \in Holders : reserved[h] = 0 /\ anonymous[h] = Owed(h)
  ELSE ReserveBacksBonds /\ \A h \in Holders : anonymous[h] = 0

ChainTypes == TypeOK /\ SettlementTypeOK /\ CutoverTypeOK

MigrationInv ==
  /\ Agree(version, stcaCutover, expireCutover)
  /\ version = 2 \/ bondProgress = {}
  /\ version = 5 <=> cardanoIds # {}
  /\ FlagsMatch(version, preAuditSettlement)

ChainInv ==
  ChainTypes /\ OneBond /\ EvidenceBehindRequests /\ MigrationInv /\ BondsReserved

\* What an account stands behind is the sum that its named reserve must hold.
LEMMA OwedIsBacking == \A h : Owed(h) = SumFunction(Backing(h))
  BY DEF Owed, Backing

\* Every chain that this code may start on satisfies it.
LEMMA ChainInit == OlderChain => ChainInv
<1> SUFFICES ASSUME OlderChain PROVE ChainInv
  OBVIOUS
<1>1. ChainTypes /\ OneBond /\ EvidenceBehindRequests
  BY DEF OlderChain, ChainTypes, EvidenceBehindRequests
<1>2. version \in 0 .. 5
  BY DEF OlderChain, CutoverTypeOK
<1>3. Agree(version, stcaCutover, expireCutover)
  BY <1>2 DEF OlderChain, TryState, Agree
<1>4. version = 2 \/ bondProgress = {}
  BY DEF OlderChain, TryState
<1>5. version = 5 <=> cardanoIds # {}
  BY <1>2 DEF OlderChain, TryState, SETTLEMENT_STORAGE_VERSION
<1>6. FlagsMatch(version, preAuditSettlement)
  BY <1>2 DEF OlderChain, AuditFlagsAreExact, FlagsMatch
<1>7. BondsReserved
  <2>1. CASE version = 3
    BY <2>1 DEF OlderChain, BondsReserved
  <2>2. CASE version < 3
    <3>1. \A h \in Holders : Owed(h) = 0 /\ reserved[h] = 0 /\ anonymous[h] = 0
      BY <2>2 DEF OlderChain
    <3>2. ReserveBacksBonds
      BY <3>1 DEF ReserveBacksBonds, Owed
    <3> QED
      BY <2>2, <3>1, <3>2 DEF BondsReserved
  <2>3. CASE version > 3
    BY <1>2, <2>3 DEF OlderChain, TryState, BondsReserved, NAMED_RESERVE_VERSION
  <2> QED
    BY <1>2, <2>1, <2>2, <2>3
<1> QED
  BY <1>1, <1>3, <1>4, <1>5, <1>6, <1>7 DEF ChainInv, MigrationInv

\* The invariant holds what try_state and the explorers rely on.
LEMMA ChainInvImplies == ChainInv => TryState /\ AuditFlagsAreExact
<1> SUFFICES ASSUME ChainInv PROVE TryState /\ AuditFlagsAreExact
  OBVIOUS
<1>1. version \in 0 .. 5 /\ MigrationInv /\ BondsReserved
  BY DEF ChainInv, ChainTypes, CutoverTypeOK
<1>2. AuditFlagsAreExact
  BY <1>1 DEF MigrationInv, FlagsMatch, AuditFlagsAreExact
<1>3. (CASE version = 0 -> expireCutover = 0
         [] version = 1 -> stcaCutover # 0
         [] version = 2 -> stcaCutover # 0 /\ expireCutover # 0
         [] OTHER -> stcaCutover = 0 <=> expireCutover = 0)
  BY <1>1 DEF MigrationInv, Agree
<1>4. version >= NAMED_RESERVE_VERSION =>
        ReserveBacksBonds /\ \A h \in Holders : anonymous[h] = 0
  BY <1>1 DEF BondsReserved, NAMED_RESERVE_VERSION
<1> QED
  BY <1>1, <1>2, <1>3, <1>4 DEF TryState, MigrationInv, SETTLEMENT_STORAGE_VERSION

(***************************************************************************)
(* The calls that need evidence.                                           *)
(***************************************************************************)
\* They store requests on evidence only.
LEMMA RequestsNameEvidence ==
  TypeOK /\ SettlementTypeOK /\ OneBond /\ EvidenceBehindRequests /\ [SettlementNext]_allVars
    => EvidenceBehindRequests'
<1> SUFFICES ASSUME TypeOK, SettlementTypeOK, OneBond, EvidenceBehindRequests,
                    [SettlementNext]_allVars
             PROVE  EvidenceBehindRequests'
  OBVIOUS
<1>1. CASE PipelineStep \/ UNCHANGED allVars
  BY <1>1 DEF PipelineStep, EvidenceBehindRequests, allVars, settlementVars
<1>2. CASE Posts
  <2> PICK who \in Requesters, cs \in SUBSET ClaimIds :
             \E entries \in [cs -> Terms], bond \in Bonds :
                RequestBatchSettle(who, entries, bond)
    BY <1>2 DEF Posts
  <2> PICK entries \in [cs -> Terms], bond \in Bonds : RequestBatchSettle(who, entries, bond)
    OBVIOUS
  <2>1. \A c \in cs : entries[c].evidence.depth \in MinFinalityDepth .. MaxObservedDepth
    BY DEF RequestBatchSettle, CheckedTarget
  <2>2. \A c \in cs : entries[c].evidence.depth > 0
    BY <2>1, CutoverAssumption, SettlementAssumption
  <2>3. \A c \in cs : NewRequest(who, entries[c], bond).evidence = entries[c].evidence
    BY DEF NewRequest
  <2>4. /\ DOMAIN requests' = DOMAIN requests \cup cs
        /\ \A c \in cs : requests'[c] = NewRequest(who, entries[c], bond)
        /\ \A c \in DOMAIN requests \ cs : requests'[c] = requests[c]
    BY PostsEffect
  <2> QED
    BY <2>2, <2>3, <2>4 DEF EvidenceBehindRequests
<1>3. CASE TopsUp
  <2> PICK who \in Requesters, c \in ClaimIds, bond \in Bonds :
             PostSettlementBond(who, c, bond)
    BY <1>3 DEF TopsUp
  <2>1. requests' = [requests EXCEPT ![c].bond = bond]
    BY DEF PostSettlementBond
  <2>2. \A d \in DOMAIN requests : requests[d] \in Request
    BY DEF SettlementTypeOK
  <2>3. DOMAIN requests' = DOMAIN requests
        /\ \A d \in DOMAIN requests : requests'[d].evidence = requests[d].evidence
    BY <2>1, <2>2 DEF Request
  <2> QED
    BY <2>3 DEF EvidenceBehindRequests
<1>4. CASE AttestsClaims
  <2> PICK who \in members, cs \in SUBSET DOMAIN requests : AttestBatchSettle(who, cs)
    BY <1>4 DEF AttestsClaims
  <2>1. DOMAIN requests' = DOMAIN requests \ cs
        /\ \A c \in DOMAIN requests \ cs : requests'[c] = requests[c]
    BY AttestEffect
  <2> QED
    BY <2>1 DEF EvidenceBehindRequests
<1>5. CASE Supersedes
  BY <1>5, SupersedeEffect DEF Supersedes, EvidenceBehindRequests
<1>6. CASE Slashes
  BY <1>6, SlashEffect DEF Slashes, EvidenceBehindRequests
<1>7. CASE Releases
  BY <1>7, ReleaseEffect DEF Releases, OneBond, EvidenceBehindRequests
<1> QED
  BY <1>1, <1>2, <1>3, <1>4, <1>5, <1>6, <1>7, SettlementCases

\* And they settle on evidence only.
LEMMA SettlementsNameEvidence ==
  ASSUME TypeOK, SettlementTypeOK, OneBond, EvidenceBehindRequests, [SettlementNext]_allVars
  PROVE  \A c \in DOMAIN settlements' :
            c \in DOMAIN settlements \/ settlements'[c].evidence.depth > 0
<1>1. CASE PipelineStep \/ Posts \/ TopsUp \/ Slashes \/ Releases \/ UNCHANGED allVars
  <2>1. UNCHANGED settlements
    BY <1>1 DEF PipelineStep, Posts, TopsUp, Slashes, Releases, RequestBatchSettle,
       PostSettlementBond, SlashBadSettlementEvidence, ReleaseSettlementBond, allVars,
       settlementVars
  <2> QED
    BY <2>1
<1>2. CASE AttestsClaims
  <2> PICK who \in members, cs \in SUBSET DOMAIN requests : AttestBatchSettle(who, cs)
    BY <1>2 DEF AttestsClaims
  <2>1. /\ DOMAIN settlements' = DOMAIN settlements \cup cs
        /\ \A c \in cs : settlements'[c] = [evidence |-> requests[c].evidence,
                                            direct |-> requests[c].direct]
    BY AttestEffect
  <2> QED
    BY <2>1 DEF EvidenceBehindRequests
<1>3. CASE Supersedes
  <2> PICK who \in members, c \in DOMAIN requests, terms \in Terms :
             SupersedeSettlementRequest(who, c, terms)
    BY <1>3 DEF Supersedes
  <2>1. terms.evidence.depth \in MinFinalityDepth .. MaxObservedDepth
    BY DEF SupersedeSettlementRequest, CheckedTarget
  <2>2. terms.evidence.depth > 0
    BY <2>1, CutoverAssumption, SettlementAssumption
  <2>3. DOMAIN settlements' = DOMAIN settlements \cup {c} /\ settlements'[c] = terms
    BY DEF SupersedeSettlementRequest, Put, Entry
  <2> QED
    BY <2>2, <2>3
<1> QED
  BY <1>1, <1>2, <1>3, SettlementCases

\* What keeps the named reserves keeps the bonds of a chain that runs calls.
LEMMA BondsReservedStays ==
  ASSUME BondsReserved, UNCHANGED <<version, upgrades, anonymous>>,
         ReserveBacksBonds => ReserveBacksBonds', version # 3
  PROVE  BondsReserved'
  BY DEF BondsReserved

\* A chain runs a call only when its network is known or the call needs none,
\* and then what settles without evidence is what was flagged.
LEMMA EvidenceKeepsChain ==
  ASSUME ChainInv, Running, EvidenceStep, IdsKnown \/ NeedsNoIds, UNCHANGED legacyVars
  PROVE  ChainInv'
<1>1. [SettlementNext]_allVars
  BY Zenon DEF EvidenceStep, SettlementNext
<1>2. TypeOK /\ SettlementTypeOK /\ CutoverTypeOK /\ OneBond /\ EvidenceBehindRequests
  BY DEF ChainInv, ChainTypes
<1>3. UNCHANGED <<version, stcaCutover, expireCutover, preAuditSettlement, preAuditExpiry,
                  bondProgress, anonymous, cardanoIds, upgrades>>
  BY DEF legacyVars, migrationVars
<1>4. TypeOK' /\ SettlementTypeOK' /\ OneBond' /\ EvidenceBehindRequests'
  BY <1>1, <1>2, SettlementStepIsStep, TypeStep, SettlementTypeStep, OneBondStep,
     RequestsNameEvidence
<1>5. CutoverTypeOK'
  BY <1>2, <1>3 DEF CutoverTypeOK
<1>6. version # 3
  BY DEF ChainInv, BondsReserved, Running, SETTLEMENT_STORAGE_VERSION, CutoverTypeOK, ChainTypes
<1>7. ReserveBacksBonds => ReserveBacksBonds'
  BY <1>1, <1>2, ReserveStep
<1>8. BondsReserved'
  BY <1>3, <1>6, <1>7, BondsReservedStays DEF ChainInv
<1>9. FlagsMatch(version, preAuditSettlement)'
  <2>1. CASE UNCHANGED settlements
    BY <1>3, <2>1 DEF ChainInv, MigrationInv, FlagsMatch
  <2>2. CASE settlements' # settlements
    <3>1. version = 5
      BY <2>2 DEF NeedsNoIds, IdsKnown, ChainInv, MigrationInv
    <3>2. \A c \in ClaimIds :
            c \in preAuditSettlement <=>
              c \in DOMAIN settlements /\ settlements[c].evidence.depth = 0
      BY <3>1 DEF ChainInv, MigrationInv, FlagsMatch
    <3>3. \A c \in DOMAIN settlements :
            c \in DOMAIN settlements' /\ settlements'[c] = settlements[c]
      BY <1>1, <1>2, SettlementsStay
    <3>4. \A c \in DOMAIN settlements' :
            c \in DOMAIN settlements \/ settlements'[c].evidence.depth > 0
      BY <1>1, <1>2, SettlementsNameEvidence
    <3>5. \A c \in ClaimIds :
            c \in preAuditSettlement <=>
              c \in DOMAIN settlements' /\ settlements'[c].evidence.depth = 0
      BY <3>2, <3>3, <3>4
    <3> QED
      BY <1>3, <3>1, <3>5 DEF FlagsMatch
  <2> QED
    BY <2>1, <2>2
<1>10. MigrationInv'
  BY <1>3, <1>9 DEF ChainInv, MigrationInv
<1> QED
  BY <1>4, <1>5, <1>8, <1>10 DEF ChainInv, ChainTypes

(***************************************************************************)
(* The calls that settle and expire on the committee's word.               *)
(***************************************************************************)
\* What a batch settles was unsettled, settles without evidence, and is flagged.
LEMMA SettleBatchEffect ==
  ASSUME TypeOK, SettlementTypeOK, NEW who, NEW cs \in SUBSET UnsettledClaims,
         NEW entries \in [cs -> LegacyTerms], SettleBatchAtomic(who, entries)
  PROVE  /\ SettlePathOpen
         /\ SettleAttestedClaims(cs)
         /\ DOMAIN settlements' = cs \cup DOMAIN settlements
         /\ \A c \in cs : /\ settlements'[c] \in Terms
                          /\ settlements'[c].evidence.depth = 0
         /\ \A c \in DOMAIN settlements \ cs : settlements'[c] = settlements[c]
         /\ IsMap(settlements', ClaimIds)
         /\ preAuditSettlement' = preAuditSettlement \cup cs
         /\ UNCHANGED <<requests, bondedAttestedAt, bondedRequester, slashedRequests, free,
                        reserved, version, stcaCutover, expireCutover, bondProgress,
                        anonymous, upgrades, preAuditExpiry, cardanoIds>>
<1>1. DOMAIN entries = cs
  OBVIOUS
<1>2. \A c \in cs : entries[c] \in Terms /\ entries[c].evidence.depth = 0
  BY DEF LegacyTerms
<1>3. settlements' = Put(settlements, entries) /\ SettlePathOpen /\ SettleAttestedClaims(cs)
      /\ preAuditSettlement' = preAuditSettlement \cup cs
  BY <1>1 DEF SettleBatchAtomic, FlaggedAs
<1>4. /\ DOMAIN settlements' = cs \cup DOMAIN settlements
      /\ \A c \in cs : settlements'[c] = entries[c]
      /\ \A c \in DOMAIN settlements \ cs : settlements'[c] = settlements[c]
  BY <1>1, <1>3 DEF Put
<1>5. IsMap(settlements', ClaimIds)
  <2>1. cs \subseteq ClaimIds /\ IsMap(settlements, ClaimIds)
    BY DEF UnsettledClaims, TypeOK, SettlementTypeOK, IsMap
  <2> QED
    BY <1>3, <1>4, <2>1 DEF IsMap, Put
<1>6. \A c \in cs : settlements'[c] \in Terms /\ settlements'[c].evidence.depth = 0
  BY <1>2, <1>4
<1>7. UNCHANGED <<requests, bondedAttestedAt, bondedRequester, slashedRequests, free,
                  reserved, version, stcaCutover, expireCutover, bondProgress,
                  anonymous, upgrades, preAuditExpiry, cardanoIds>>
  BY DEF SettleBatchAtomic, bondVars, balanceVars, migrationVars
<1> QED
  BY <1>3, <1>4, <1>5, <1>6, <1>7

\* The sums of the bonds are functions of the two maps that hold them.
LEMMA SameReserves ==
  ASSUME UNCHANGED <<requests, bondedRequester, reserved>>
  PROVE  ReserveBacksBonds => ReserveBacksBonds'
  BY DEF ReserveBacksBonds, PendingBond, AttestedBond

\* A batch settled on the committee's word keeps the invariant.
LEMMA SettleBatchKeepsChain ==
  ASSUME ChainInv, Running, NEW who, NEW cs \in SUBSET UnsettledClaims,
         NEW entries \in [cs -> LegacyTerms], SettleBatchAtomic(who, entries)
  PROVE  ChainInv'
<1>1. TypeOK /\ SettlementTypeOK /\ CutoverTypeOK /\ OneBond /\ EvidenceBehindRequests
      /\ MigrationInv
  BY DEF ChainInv, ChainTypes
<1>2. /\ SettleAttestedClaims(cs)
      /\ DOMAIN settlements' = cs \cup DOMAIN settlements
      /\ \A c \in cs : /\ settlements'[c] \in Terms
                       /\ settlements'[c].evidence.depth = 0
      /\ \A c \in DOMAIN settlements \ cs : settlements'[c] = settlements[c]
      /\ IsMap(settlements', ClaimIds)
      /\ preAuditSettlement' = preAuditSettlement \cup cs
      /\ UNCHANGED <<requests, bondedAttestedAt, bondedRequester, slashedRequests, free,
                     reserved, version, stcaCutover, expireCutover, bondProgress,
                     anonymous, upgrades, preAuditExpiry, cardanoIds>>
  BY <1>1, SettleBatchEffect
<1>3. cs \subseteq DOMAIN claims /\ cs \subseteq ClaimIds /\ cs \in SUBSET DOMAIN claims
  BY <1>1 DEF UnsettledClaims, TypeOK, IsMap
<1>4. DOMAIN claims' = DOMAIN claims /\ UnsettledClaims' = UnsettledClaims \ cs
  BY <1>1, <1>2, SettleClaims
<1>5. TypeOK'
  BY <1>1, <1>2, <1>3, TypeSettle
<1>6. SettlementTypeOK'
  BY <1>1, <1>2 DEF SettlementTypeOK
<1>7. CutoverTypeOK'
  BY <1>1, <1>2, <1>3 DEF CutoverTypeOK
<1>8. OneBond'
  BY <1>1, <1>2, <1>3, <1>4 DEF OneBond
<1>9. EvidenceBehindRequests'
  BY <1>1, <1>2 DEF EvidenceBehindRequests
<1>10. FlagsMatch(version, preAuditSettlement)'
  <2>1. FlagsMatch(version, preAuditSettlement)
    BY <1>1 DEF MigrationInv
  <2> QED
    BY <1>2, <1>3, <2>1 DEF FlagsMatch
<1>11. MigrationInv'
  BY <1>1, <1>2, <1>10 DEF MigrationInv
<1>12. version # 3
  BY <1>1 DEF ChainInv, BondsReserved, Running, SETTLEMENT_STORAGE_VERSION
<1>13. BondsReserved'
  BY <1>2, <1>12, SameReserves, BondsReservedStays DEF ChainInv
<1> QED
  BY <1>5, <1>6, <1>7, <1>8, <1>9, <1>11, <1>13 DEF ChainInv, ChainTypes

\* An intent that expires on a member's word keeps the invariant.
LEMMA ExpireMirrorKeepsChain ==
  ASSUME ChainInv, Running, NEW who, NEW i, ExpirePolicyMirror(who, i)
  PROVE  ChainInv'
<1>1. TypeOK /\ SettlementTypeOK /\ CutoverTypeOK /\ OneBond /\ EvidenceBehindRequests
      /\ MigrationInv
  BY DEF ChainInv, ChainTypes
<1>2. /\ i \in DOMAIN intents
      /\ intents' = SetStatus({i}, "Expired")
      /\ pendingBatches' = pendingBatches \ {i}
      /\ preAuditExpiry' = preAuditExpiry \cup {i}
      /\ UNCHANGED <<block, nonces, expiryQueue, pendingAttestations, attestationSigs,
                     credits, pool, deposits, claims, expireRequests, members, threshold,
                     minSignerThreshold>>
  BY DEF ExpirePolicyMirror, RemoveFromPendingBatches, attestVars, moneyVars, committeeVars
<1>3. UNCHANGED <<requests, settlements, bondedAttestedAt, bondedRequester, slashedRequests,
                  free, reserved, version, stcaCutover, expireCutover, bondProgress,
                  anonymous, upgrades, preAuditSettlement, cardanoIds>>
  BY DEF ExpirePolicyMirror, settlementVars, bondVars, balanceVars, migrationVars
<1>4. IsMap(intents', IntentIds) /\ \A j \in DOMAIN intents' : intents'[j] \in Intent
  BY <1>1, <1>2, SetStatusMap DEF Statuses
<1>5. TypeOK'
  BY <1>1, <1>2, <1>4 DEF TypeOK
<1>6. SettlementTypeOK'
  BY <1>1, <1>3 DEF SettlementTypeOK
<1>7. CutoverTypeOK'
  BY <1>1, <1>2, <1>3 DEF CutoverTypeOK, TypeOK, IsMap
<1>8. OneBond' /\ EvidenceBehindRequests' /\ MigrationInv'
  BY <1>1, <1>2, <1>3
     DEF OneBond, EvidenceBehindRequests, UnsettledClaims, MigrationInv, FlagsMatch
<1>9. version # 3
  BY <1>1 DEF ChainInv, BondsReserved, Running, SETTLEMENT_STORAGE_VERSION
<1>10. BondsReserved'
  BY <1>3, <1>9, SameReserves, BondsReservedStays DEF ChainInv
<1> QED
  BY <1>5, <1>6, <1>7, <1>8, <1>10 DEF ChainInv, ChainTypes

\* A legacy call is a batch, of one or more, or an expiry.
LEMMA LegacyCases ==
  ASSUME NEW who, LegacyCall(who)
  PROVE  \/ \E cs \in SUBSET UnsettledClaims : \E entries \in [cs -> LegacyTerms] :
              SettleBatchAtomic(who, entries)
         \/ \E i \in DOMAIN intents : ExpirePolicyMirror(who, i)
<1>1. ASSUME NEW c \in UnsettledClaims, NEW terms \in LegacyTerms, SettleClaim(who, c, terms)
      PROVE  \E cs \in SUBSET UnsettledClaims : \E entries \in [cs -> LegacyTerms] :
               SettleBatchAtomic(who, entries)
  <2>1. Entry(c, terms) \in [{c} -> LegacyTerms] /\ {c} \in SUBSET UnsettledClaims
    BY DEF Entry
  <2> QED
    BY <1>1, <2>1, Zenon DEF SettleClaim
<1> QED
  BY <1>1, Zenon DEF LegacyCall

\* Binding a policy changes the network identity and nothing else.
LEMMA BindKeepsChain ==
  ASSUME ChainInv, BindAegisPolicyV1
  PROVE  ChainInv'
<1>1. PICK ids \in cardanoIds : cardanoIds' = {[ids EXCEPT !.bound = TRUE]}
  BY DEF BindAegisPolicyV1
<1>2. UNCHANGED vars /\ UNCHANGED settlementVars
      /\ UNCHANGED <<version, stcaCutover, expireCutover, bondProgress, anonymous, upgrades,
                     preAuditSettlement, preAuditExpiry>>
  BY DEF BindAegisPolicyV1, allVars, migrationVars
<1>3. TypeOK /\ SettlementTypeOK /\ CutoverTypeOK /\ OneBond /\ EvidenceBehindRequests
      /\ MigrationInv /\ BondsReserved
  BY DEF ChainInv, ChainTypes
<1>4. cardanoIds' \subseteq CardanoIdentity
  <2>1. ids \in CardanoIdentity
    BY <1>3 DEF CutoverTypeOK
  <2> QED
    BY <1>1, <2>1 DEF CardanoIdentity
<1>5. CutoverTypeOK'
  BY <1>2, <1>3, <1>4 DEF CutoverTypeOK
<1>6. TypeOK'
  BY <1>2, <1>3 DEF vars, intentVars, attestVars, moneyVars, committeeVars, TypeOK
<1>7. SettlementTypeOK' /\ OneBond' /\ EvidenceBehindRequests'
  BY <1>2, <1>3 DEF settlementVars, bondVars, balanceVars, SettlementTypeOK, OneBond,
     EvidenceBehindRequests, vars, UnsettledClaims
<1>8. MigrationInv'
  BY <1>1, <1>2, <1>3 DEF MigrationInv, FlagsMatch, settlementVars
<1>9. BondsReserved'
  <2>1. UNCHANGED <<requests, bondedRequester, reserved>>
    BY <1>2 DEF settlementVars, bondVars, balanceVars
  <2> QED
    BY <1>2, <1>3, <2>1, SameReserves
       DEF BondsReserved, Owed, PendingBond, AttestedBond
<1> QED
  BY <1>5, <1>6, <1>7, <1>8, <1>9 DEF ChainInv, ChainTypes

(***************************************************************************)
(* The migration, phase by phase, on the record of what it rewrites.       *)
(***************************************************************************)
StorageRows ==
  [version : 0 .. 5, stca : Nat, expire : Nat, settledFlags : SUBSET ClaimIds,
   expiredFlags : SUBSET IntentIds, progress : SUBSET ClaimIds,
   ids : SUBSET CardanoIdentity]

\* A path that a chain at version v with this cutover keeps closed from now on.
Shut(v, cutover, step) == IF cutover = 0 THEN v >= step ELSE block >= cutover

\* What every phase leaves: the invariant of the migrations, no version given
\* up, no closed path opened, and version 3 left to the last phase, which
\* moves the bonds.
Migrating(s) ==
  /\ s \in StorageRows
  /\ Agree(s.version, s.stca, s.expire)
  /\ s.version = 2 \/ s.progress = {}
  /\ s.version = 5 <=> s.ids # {}
  /\ FlagsMatch(s.version, s.settledFlags)
  /\ version = 3 => s.version = 3
  /\ Shut(version, stcaCutover, 1) => Shut(s.version, s.stca, 1)
  /\ Shut(version, expireCutover, 2) => Shut(s.version, s.expire, 2)

\* The record as the upgrade finds it.
LEMMA StorageMigrating == ChainInv => Migrating(Storage)
<1> SUFFICES ASSUME ChainInv PROVE Migrating(Storage)
  OBVIOUS
<1>1. Storage \in StorageRows
  BY DEF ChainInv, ChainTypes, CutoverTypeOK, Storage, StorageRows
<1>2. /\ Storage.version = version /\ Storage.stca = stcaCutover
      /\ Storage.expire = expireCutover /\ Storage.settledFlags = preAuditSettlement
      /\ Storage.progress = bondProgress /\ Storage.ids = cardanoIds
  BY DEF Storage
<1> QED
  BY <1>1, <1>2 DEF Migrating, ChainInv, MigrationInv

\* A chain at version 4 whose network the runtime knows reaches the last one.
\* (The bonds of a chain at version 3 are moved in the same upgrade, so it is
\* named at the next.)
LEMMA SeedMigrating ==
  ASSUME NEW s, Migrating(s), version \in 0 .. 5
  PROVE  Migrating(SeedCardanoIds(s))
<1>1. CASE s.version = 4 /\ CardanoIdsToSeed # {}
  <2> PICK t : t = [s EXCEPT !.ids = CardanoIdsToSeed, !.version = 5]
    OBVIOUS
  <2>1. SeedCardanoIds(s) = t
    BY <1>1 DEF SeedCardanoIds, NAMED_RESERVE_VERSION, SETTLEMENT_STORAGE_VERSION
  <2>2. CardanoIdsToSeed \in SUBSET CardanoIdentity
    BY CutoverAssumption
  <2>3. s \in StorageRows
    BY DEF Migrating
  <2>4. t = [version |-> 5, stca |-> s.stca, expire |-> s.expire,
             settledFlags |-> s.settledFlags, expiredFlags |-> s.expiredFlags,
             progress |-> s.progress, ids |-> CardanoIdsToSeed]
    BY <2>3 DEF StorageRows
  <2>5. t \in StorageRows
    BY <2>2, <2>3, <2>4 DEF StorageRows
  <2>6. /\ t.version = 5 /\ t.ids # {} /\ t.stca = s.stca /\ t.expire = s.expire
        /\ t.settledFlags = s.settledFlags /\ t.progress = s.progress
    BY <1>1, <2>4
  <2> QED
    BY <1>1, <2>1, <2>5, <2>6 DEF Migrating, Agree, FlagsMatch, Shut
<1>2. CASE ~(s.version = 4 /\ CardanoIdsToSeed # {})
  BY <1>2 DEF SeedCardanoIds, NAMED_RESERVE_VERSION
<1> QED
  BY <1>1, <1>2

\* The walk over the claims flags those that settled without evidence, which
\* before it ends is every settled one, and schedules its cutover once.
LEMMA FlagSettlementsMigrating ==
  ASSUME ChainInv, NEW s, Migrating(s), NEW t \in FlagSettlements(s)
  PROVE  Migrating(t)
<1>1. CASE s.version # 0
  BY <1>1 DEF FlagSettlements
<1>2. CASE s.version = 0
  <2> DEFINE todo == (DOMAIN claims \ UnsettledClaims) \ s.settledFlags
  <2>1. PICK w \in Walks(todo, DOMAIN claims, MaxMigrateClaims) :
          t = [s EXCEPT !.settledFlags = @ \cup w.done, !.stca = Scheduled(@),
                        !.version = ReachedVersion(1, w.truncated)]
    BY <1>2 DEF FlagSettlements
  <2>2. w.done \subseteq todo /\ w.truncated \in BOOLEAN /\ (~w.truncated => w.done = todo)
    BY DEF Walks
  <2>3. s \in StorageRows /\ block \in Nat
    BY DEF Migrating, ChainInv, ChainTypes, TypeOK, Blocks
  <2>4. /\ t = [version |-> ReachedVersion(1, w.truncated), stca |-> Scheduled(s.stca),
                expire |-> s.expire, settledFlags |-> s.settledFlags \cup w.done,
                expiredFlags |-> s.expiredFlags, progress |-> s.progress, ids |-> s.ids]
    BY <2>1, <2>3 DEF StorageRows
  <2>5. Scheduled(s.stca) \in Nat /\ Scheduled(s.stca) # 0
        /\ (s.stca # 0 => Scheduled(s.stca) = s.stca)
    BY <2>3, CutoverAssumption DEF Scheduled, StorageRows
  <2>6. ReachedVersion(1, w.truncated) = IF w.truncated THEN 0 ELSE 1
    BY DEF ReachedVersion
  <2>7. todo \subseteq DOMAIN settlements
        /\ DOMAIN settlements \subseteq todo \cup s.settledFlags
        /\ DOMAIN settlements \subseteq ClaimIds
    BY DEF ChainInv, ChainTypes, OneBond, SettlementTypeOK, IsMap
  <2> HIDE DEF todo
  <2>8. t \in StorageRows
    BY <2>2, <2>3, <2>4, <2>5, <2>6, <2>7 DEF StorageRows
  <2>9. FlagsMatch(t.version, t.settledFlags)
    <3>1. s.settledFlags \subseteq DOMAIN settlements
          /\ \A c \in DOMAIN settlements : settlements[c].evidence.depth = 0
      BY <1>2 DEF Migrating, FlagsMatch
    <3>2. t.settledFlags = s.settledFlags \cup w.done
          /\ t.version = IF w.truncated THEN 0 ELSE 1
      BY <2>4, <2>6
    <3>3. ~w.truncated => t.settledFlags = DOMAIN settlements
      BY <2>2, <2>7, <3>1, <3>2
    <3>4. t.settledFlags \subseteq DOMAIN settlements
      BY <2>2, <2>7, <3>1, <3>2
    <3> QED
      BY <2>2, <3>1, <3>2, <3>3, <3>4 DEF FlagsMatch
  <2>10. Agree(t.version, t.stca, t.expire)
    BY <1>2, <2>2, <2>4, <2>5, <2>6 DEF Migrating, Agree
  <2>11. (t.version = 2 \/ t.progress = {}) /\ (t.version = 5 <=> t.ids # {})
    BY <1>2, <2>4, <2>6 DEF Migrating
  <2>12. Shut(s.version, s.stca, 1) => Shut(t.version, t.stca, 1)
    BY <1>2, <2>4, <2>5 DEF Shut
  <2>13. Shut(s.version, s.expire, 2) => Shut(t.version, t.expire, 2)
    BY <1>2, <2>4 DEF Shut
  <2> QED
    BY <1>2, <2>8, <2>9, <2>10, <2>11, <2>12, <2>13 DEF Migrating
<1> QED
  BY <1>1, <1>2

\* The walk over the intents schedules the other cutover once.
LEMMA FlagExpiriesMigrating ==
  ASSUME ChainInv, NEW s, Migrating(s), NEW t \in FlagExpiries(s)
  PROVE  Migrating(t)
<1>1. CASE s.version # 1
  BY <1>1 DEF FlagExpiries
<1>2. CASE s.version = 1
  <2> DEFINE todo == {i \in DOMAIN intents : intents[i].status = "Expired"} \ s.expiredFlags
  <2>1. PICK w \in Walks(todo, DOMAIN intents, MaxMigrateIntents) :
          t = [s EXCEPT !.expiredFlags = @ \cup w.done, !.expire = Scheduled(@),
                        !.version = ReachedVersion(2, w.truncated)]
    BY <1>2 DEF FlagExpiries
  <2>2. w.done \subseteq todo /\ w.truncated \in BOOLEAN
    BY DEF Walks
  <2>3. s \in StorageRows /\ block \in Nat
    BY DEF Migrating, ChainInv, ChainTypes, TypeOK, Blocks
  <2>4. /\ t = [version |-> ReachedVersion(2, w.truncated), stca |-> s.stca,
                expire |-> Scheduled(s.expire), settledFlags |-> s.settledFlags,
                expiredFlags |-> s.expiredFlags \cup w.done,
                progress |-> s.progress, ids |-> s.ids]
    BY <2>1, <2>3 DEF StorageRows
  <2>5. Scheduled(s.expire) \in Nat /\ Scheduled(s.expire) # 0
        /\ (s.expire # 0 => Scheduled(s.expire) = s.expire)
    BY <2>3, CutoverAssumption DEF Scheduled, StorageRows
  <2>6. ReachedVersion(2, w.truncated) = IF w.truncated THEN 1 ELSE 2
    BY DEF ReachedVersion
  <2>7. todo \subseteq IntentIds
    BY DEF ChainInv, ChainTypes, TypeOK, IsMap
  <2> HIDE DEF todo
  <2>8. t \in StorageRows
    BY <2>2, <2>3, <2>4, <2>5, <2>6, <2>7 DEF StorageRows
  <2>9. FlagsMatch(t.version, t.settledFlags)
    BY <1>2, <2>2, <2>4, <2>6 DEF Migrating, FlagsMatch
  <2>10. Agree(t.version, t.stca, t.expire)
    BY <1>2, <2>2, <2>4, <2>5, <2>6 DEF Migrating, Agree
  <2>11. (t.version = 2 \/ t.progress = {}) /\ (t.version = 5 <=> t.ids # {})
    BY <1>2, <2>4, <2>6 DEF Migrating
  <2>12. Shut(s.version, s.stca, 1) => Shut(t.version, t.stca, 1)
    BY <1>2, <2>2, <2>4, <2>6 DEF Shut
  <2>13. Shut(s.version, s.expire, 2) => Shut(t.version, t.expire, 2)
    BY <1>2, <2>4, <2>5 DEF Shut
  <2> QED
    BY <1>2, <2>8, <2>9, <2>10, <2>11, <2>12, <2>13 DEF Migrating
<1> QED
  BY <1>1, <1>2

\* The walk over the requests keeps the list of those done as long as it lasts.
LEMMA RewriteRequestsMigrating ==
  ASSUME ChainInv, NEW s, Migrating(s), NEW t \in RewriteRequests(s)
  PROVE  Migrating(t)
<1>1. CASE s.version # 2
  BY <1>1 DEF RewriteRequests
<1>2. CASE s.version = 2
  <2>0. PICK w \in Walks(DOMAIN requests \ s.progress, DOMAIN requests, MaxMigrateRequests) :
          \E p \in SUBSET w.done :
             t = [s EXCEPT !.progress = IF w.truncated THEN s.progress \cup p ELSE {},
                           !.version = ReachedVersion(3, w.truncated)]
    <3> DEFINE row(w, p) == [s EXCEPT !.progress = IF w.truncated THEN @ \cup p ELSE {},
                                      !.version = ReachedVersion(3, w.truncated)]
               listed(done) == {p \in SUBSET done :
                                  Cardinality(p) = AtMost(Cardinality(done),
                                                     MaxSettleBatch - Cardinality(s.progress))}
               walks == Walks(DOMAIN requests \ s.progress, DOMAIN requests,
                              MaxMigrateRequests)
    <3>1. t \in UNION {{row(w, p) : p \in listed(w.done)} : w \in walks}
      BY <1>2, Zenon DEF RewriteRequests
    <3>2. \A done : listed(done) \subseteq SUBSET done
      OBVIOUS
    <3> HIDE DEF row, listed, walks
    <3>3. \E w \in walks : \E p \in SUBSET w.done : t = row(w, p)
      BY <3>1, <3>2
    <3> QED
      BY <3>3 DEF row, walks
  <2>1. PICK p \in SUBSET w.done :
          t = [s EXCEPT !.progress = IF w.truncated THEN s.progress \cup p ELSE {},
                        !.version = ReachedVersion(3, w.truncated)]
    BY <2>0
  <2>2. w.done \subseteq DOMAIN requests /\ w.truncated \in BOOLEAN
    BY DEF Walks
  <2>3. s \in StorageRows
    BY DEF Migrating
  <2> DEFINE progress == IF w.truncated THEN s.progress \cup p ELSE {}
  <2>4. /\ t = [version |-> ReachedVersion(3, w.truncated), stca |-> s.stca,
                expire |-> s.expire, settledFlags |-> s.settledFlags,
                expiredFlags |-> s.expiredFlags, progress |-> progress, ids |-> s.ids]
    BY <2>1, <2>3 DEF StorageRows
  <2>5. ReachedVersion(3, w.truncated) = IF w.truncated THEN 2 ELSE 3
    BY DEF ReachedVersion
  <2>6. progress \subseteq ClaimIds /\ (~w.truncated => progress = {})
    BY <2>2, <2>3 DEF ChainInv, ChainTypes, SettlementTypeOK, IsMap, StorageRows
  <2> HIDE DEF progress
  <2>7. t \in StorageRows
    BY <2>2, <2>3, <2>4, <2>5, <2>6 DEF StorageRows
  <2>8. FlagsMatch(t.version, t.settledFlags)
    BY <1>2, <2>2, <2>4, <2>5 DEF Migrating, FlagsMatch
  <2>9. Agree(t.version, t.stca, t.expire)
    BY <1>2, <2>2, <2>4, <2>5 DEF Migrating, Agree
  <2>10. (t.version = 2 \/ t.progress = {}) /\ (t.version = 5 <=> t.ids # {})
    BY <1>2, <2>2, <2>4, <2>5, <2>6 DEF Migrating
  <2>11. Shut(s.version, s.stca, 1) => Shut(t.version, t.stca, 1)
    BY <1>2, <2>2, <2>4, <2>5 DEF Shut
  <2>12. Shut(s.version, s.expire, 2) => Shut(t.version, t.expire, 2)
    BY <1>2, <2>2, <2>4, <2>5 DEF Shut
  <2> QED
    BY <1>2, <2>7, <2>8, <2>9, <2>10, <2>11, <2>12 DEF Migrating
<1> QED
  BY <1>1, <1>2

\* So does the whole migration, whichever of its walks are cut short.
LEMMA MigratedMigrating ==
  ASSUME ChainInv, NEW s \in Migrated
  PROVE  Migrating(s)
<1>1. PICK t \in FlagSettlements(SeedCardanoIds(Storage)) :
        s \in UNION {RewriteRequests(u) : u \in FlagExpiries(t)}
  BY Zenon DEF Migrated
<1>2. PICK u \in FlagExpiries(t) : s \in RewriteRequests(u)
  BY <1>1, Zenon
<1>3. version \in 0 .. 5
  BY DEF ChainInv, ChainTypes, CutoverTypeOK
<1>4. Migrating(SeedCardanoIds(Storage))
  BY <1>3, StorageMigrating, SeedMigrating
<1>5. Migrating(t)
  BY <1>4, FlagSettlementsMigrating
<1>6. Migrating(u)
  BY <1>5, FlagExpiriesMigrating
<1> QED
  BY <1>2, <1>6, RewriteRequestsMigrating

(***************************************************************************)
(* The upgrade that ends the migration, or its part in this block.         *)
(***************************************************************************)
\* What an account stands behind is an amount.
LEMMA OwedType == SettlementTypeOK => \A h \in Holders : Owed(h) \in Nat
<1> SUFFICES ASSUME SettlementTypeOK, NEW h \in Holders PROVE Owed(h) \in Nat
  OBVIOUS
<1>1. DOMAIN Backing(h) = ClaimIds /\ \A c \in ClaimIds : Backing(h)[c] \in Nat
  BY BackingType DEF Backing
<1>2. SumFunction(Backing(h)) \in Nat
  BY <1>1, SumOfMap, BoundsAssumption
<1> QED
  BY <1>2, OwedIsBacking

\* The bonds a chain at version 3 finds in the anonymous reserve all go to the
\* named one; any other chain has none there, and nothing moves.
LEMMA BondsMove ==
  ASSUME ChainInv, NEW s, Migrating(s), MoveBonds(s.version = 3),
         UNCHANGED <<requests, bondedRequester>>
  PROVE  /\ ReserveBacksBonds' /\ \A h \in Holders : anonymous'[h] = 0
         /\ anonymous' \in [Holders -> Nat] /\ reserved' \in [Holders -> Nat]
<1>1. /\ SettlementTypeOK /\ BondsReserved /\ anonymous \in [Holders -> Nat]
      /\ reserved \in [Holders -> Nat]
  BY DEF ChainInv, ChainTypes, CutoverTypeOK, SettlementTypeOK
<1>2. \A h \in Holders : Owed(h) \in Nat
  BY <1>1, OwedType
<1>3. \A h : Owed(h)' = Owed(h)
  BY DEF Owed, PendingBond, AttestedBond
<1>4. SUFFICES \A h \in Holders : /\ reserved'[h] = Owed(h) /\ anonymous'[h] = 0
                                  /\ anonymous' \in [Holders -> Nat]
                                  /\ reserved' \in [Holders -> Nat]
  <2>1. CASE Holders = {}
    BY <1>1, <2>1 DEF MoveBonds, MovedBonds, ReserveBacksBonds
  <2>2. CASE Holders # {}
    BY <1>3, <1>4, <2>2 DEF ReserveBacksBonds, Owed
  <2> QED
    BY <2>1, <2>2
<1> SUFFICES ASSUME NEW h \in Holders
             PROVE  /\ reserved'[h] = Owed(h) /\ anonymous'[h] = 0
                    /\ anonymous' \in [Holders -> Nat] /\ reserved' \in [Holders -> Nat]
  OBVIOUS
<1>5. CASE version = 3
  <2>1. s.version = 3
    BY <1>5 DEF Migrating
  <2>2. \A g \in Holders : reserved[g] = 0 /\ anonymous[g] = Owed(g)
    BY <1>1, <1>5 DEF BondsReserved
  <2>3. \A g \in Holders : AtMost(Owed(g), anonymous[g]) = Owed(g)
    BY <1>2, <2>2 DEF AtMost
  <2> QED
    BY <1>1, <1>2, <2>1, <2>2, <2>3 DEF MoveBonds, MovedBonds
<1>6. CASE version # 3
  <2>1. \A g \in Holders : reserved[g] = Owed(g) /\ anonymous[g] = 0
    BY <1>1, <1>6 DEF BondsReserved, ReserveBacksBonds, Owed
  <2>2. \A g \in Holders : AtMost(Owed(g), anonymous[g]) = 0
    BY <1>2, <2>1 DEF AtMost
  <2> QED
    BY <1>1, <1>2, <2>1, <2>2 DEF MoveBonds, MovedBonds
<1> QED
  BY <1>5, <1>6

\* An upgrade keeps the invariant and lets no closed path open.
LEMMA UpgradeKeepsChain ==
  ASSUME ChainInv, UpgradeBlock
  PROVE  /\ ChainInv'
         /\ ~SettlePathOpen => ~SettlePathOpen'
         /\ ~ExpirePathOpen => ~ExpirePathOpen'
<1> PICK s \in Migrated :
           /\ MoveBonds(s.version = 3)
           /\ version' = IF s.version = 3 THEN NAMED_RESERVE_VERSION ELSE s.version
           /\ stcaCutover' = s.stca
           /\ expireCutover' = s.expire
           /\ preAuditSettlement' = s.settledFlags
           /\ preAuditExpiry' = s.expiredFlags
           /\ bondProgress' = s.progress
           /\ cardanoIds' = s.ids
  BY DEF UpgradeBlock
<1>1. TypeOK /\ SettlementTypeOK /\ CutoverTypeOK /\ OneBond /\ EvidenceBehindRequests
  BY DEF ChainInv, ChainTypes
<1>2. NextBlock /\ upgrades' = upgrades + 1
      /\ UNCHANGED <<requests, settlements, bondedAttestedAt, bondedRequester,
                     slashedRequests, free>>
  BY DEF UpgradeBlock, bondVars
<1>3. block' = block + 1 /\ UNCHANGED claims
  BY <1>2 DEF NextBlock
<1>4. Migrating(s)
  BY MigratedMigrating
<1>5. /\ s \in StorageRows
      /\ version' = IF s.version = 3 THEN 4 ELSE s.version
  BY <1>4 DEF Migrating, NAMED_RESERVE_VERSION
<1>6. /\ ReserveBacksBonds' /\ \A h \in Holders : anonymous'[h] = 0
      /\ anonymous' \in [Holders -> Nat] /\ reserved' \in [Holders -> Nat]
  BY <1>2, <1>4, BondsMove
<1>7. TypeOK'
  BY <1>1, <1>2, TypeNextBlock
<1>8. SettlementTypeOK'
  BY <1>1, <1>2, <1>6 DEF SettlementTypeOK
<1>9. CutoverTypeOK'
  BY <1>1, <1>2, <1>5, <1>6 DEF CutoverTypeOK, StorageRows
<1>10. OneBond' /\ EvidenceBehindRequests'
  BY <1>1, <1>2, <1>3 DEF OneBond, EvidenceBehindRequests, UnsettledClaims
<1>11. version' # 3
  BY <1>5 DEF StorageRows
<1>12. BondsReserved'
  BY <1>6, <1>11 DEF BondsReserved
<1>13. FlagsMatch(version, preAuditSettlement)'
  BY <1>2, <1>4, <1>5 DEF Migrating, FlagsMatch
<1>14. Agree(version', stcaCutover', expireCutover')
  BY <1>4, <1>5 DEF Migrating, Agree
<1>15. (version' = 2 \/ bondProgress' = {}) /\ (version' = 5 <=> cardanoIds' # {})
  BY <1>4, <1>5 DEF Migrating
<1>16. ChainInv'
  BY <1>7, <1>8, <1>9, <1>10, <1>12, <1>13, <1>14, <1>15
     DEF ChainInv, ChainTypes, MigrationInv
<1>17. block \in Nat /\ s.version \in 0 .. 5 /\ s.stca \in Nat /\ s.expire \in Nat
       /\ version \in 0 .. 5 /\ stcaCutover \in Nat /\ expireCutover \in Nat
  BY <1>1, <1>5 DEF TypeOK, Blocks, StorageRows, CutoverTypeOK
<1>18. ~SettlePathOpen => ~SettlePathOpen'
  <2>1. ~SettlePathOpen => Shut(version, stcaCutover, 1)
    BY <1>17 DEF SettlePathOpen, LegacyOpen, Shut
  <2>2. Shut(s.version, s.stca, 1) => ~SettlePathOpen'
    BY <1>3, <1>5, <1>17 DEF SettlePathOpen, LegacyOpen, Shut
  <2> QED
    BY <1>4, <2>1, <2>2 DEF Migrating
<1>19. ~ExpirePathOpen => ~ExpirePathOpen'
  <2>1. ~ExpirePathOpen => Shut(version, expireCutover, 2)
    BY <1>17 DEF ExpirePathOpen, LegacyOpen, Shut
  <2>2. Shut(s.version, s.expire, 2) => ~ExpirePathOpen'
    BY <1>3, <1>5, <1>17 DEF ExpirePathOpen, LegacyOpen, Shut
  <2> QED
    BY <1>4, <2>1, <2>2 DEF Migrating
<1> QED
  BY <1>16, <1>18, <1>19

(***************************************************************************)
(* The theorems.                                                           *)
(***************************************************************************)
\* No step turns the block number back.
LEMMA BlocksAdvance == TypeOK /\ [Next]_vars => block' \in Nat /\ block' >= block
<1> SUFFICES ASSUME TypeOK, [Next]_vars PROVE block' \in Nat /\ block' >= block
  OBVIOUS
<1>1. block \in Nat
  BY DEF TypeOK, Blocks
<1>2. CASE NextBlock
  BY <1>1, <1>2 DEF NextBlock
<1>3. CASE Submits \/ Attests \/ AttestsBatch \/ Vouchers \/ Expires \/ Settles \/ Quiet
  <2>1. block' = block
    BY <1>3 DEF Submits, DoSubmitIntents, Attests, AttestIntent, AttestsBatch,
       AttestBatchIntents, Vouchers, RequestBatchVouchers, Expires, AttestExpirePolicy,
       Settles, SettleAttestedClaims, Quiet, RequestExpirePolicy, CreditDeposit, RootCall,
       SetPoolUtilization, SetMinSignerThreshold, RotateCommittee, vars
  <2> QED
    BY <1>1, <2>1
<1> QED
  BY <1>2, <1>3, StepCases

\* A legacy call leaves the block and the schedule alone.
LEMMA LegacyCallsKeepSchedule ==
  ASSUME NEW who, LegacyCall(who)
  PROVE  UNCHANGED <<block, version, stcaCutover, expireCutover>>
<1>1. ASSUME NEW cs, NEW entries, SettleBatchAtomic(who, entries)
      PROVE  UNCHANGED <<block, version, stcaCutover, expireCutover>>
  BY <1>1 DEF SettleBatchAtomic, SettleAttestedClaims, migrationVars
<1>2. ASSUME NEW i, ExpirePolicyMirror(who, i)
      PROVE  UNCHANGED <<block, version, stcaCutover, expireCutover>>
  BY <1>2 DEF ExpirePolicyMirror, migrationVars
<1> QED
  BY <1>1, <1>2, LegacyCases, Zenon

\* Every step keeps the invariant and lets no closed path open.
LEMMA ChainStep ==
  ASSUME ChainInv, [LegacyNext]_chainVars
  PROVE  /\ ChainInv'
         /\ ~SettlePathOpen => ~SettlePathOpen'
         /\ ~ExpirePathOpen => ~ExpirePathOpen'
<1>1. TypeOK /\ block \in Nat /\ version \in 0 .. 5 /\ stcaCutover \in Nat
      /\ expireCutover \in Nat
  BY DEF ChainInv, ChainTypes, TypeOK, Blocks, CutoverTypeOK
<1>2. ASSUME block' \in Nat, block' >= block, UNCHANGED <<version, stcaCutover, expireCutover>>
      PROVE  /\ ~SettlePathOpen => ~SettlePathOpen'
             /\ ~ExpirePathOpen => ~ExpirePathOpen'
  BY <1>1, <1>2 DEF SettlePathOpen, ExpirePathOpen, LegacyOpen
<1>3. CASE Running /\ EvidenceStep /\ (IdsKnown \/ NeedsNoIds) /\ UNCHANGED legacyVars
  <2>1. ChainInv'
    BY <1>3, EvidenceKeepsChain
  <2>2. [SettlementNext]_allVars
    BY <1>3, Zenon DEF EvidenceStep, SettlementNext
  <2>3. block' \in Nat /\ block' >= block
    BY <1>1, <2>2, SettlementStepIsStep, BlocksAdvance
  <2>4. UNCHANGED <<version, stcaCutover, expireCutover>>
    BY <1>3 DEF legacyVars, migrationVars
  <2> QED
    BY <1>2, <2>1, <2>3, <2>4
<1>4. CASE Running /\ \E who \in members : LegacyCall(who)
  <2> PICK who \in members : LegacyCall(who)
    BY <1>4
  <2>1. ChainInv'
    BY <1>4, LegacyCases, SettleBatchKeepsChain, ExpireMirrorKeepsChain
  <2>2. block' \in Nat /\ block' >= block /\ UNCHANGED <<version, stcaCutover, expireCutover>>
    BY <1>1, LegacyCallsKeepSchedule
  <2> QED
    BY <1>2, <2>1, <2>2
<1>5. CASE BindAegisPolicyV1
  <2>1. block' \in Nat /\ block' >= block /\ UNCHANGED <<version, stcaCutover, expireCutover>>
    BY <1>1, <1>5 DEF BindAegisPolicyV1, allVars, vars, migrationVars
  <2> QED
    BY <1>2, <1>5, <2>1, BindKeepsChain
<1>6. CASE UpgradeBlock
  BY <1>6, UpgradeKeepsChain
<1>7. CASE UNCHANGED chainVars
  <2>1. UNCHANGED vars /\ UNCHANGED settlementVars /\ UNCHANGED legacyVars
    BY <1>7 DEF chainVars, allVars
  <2>2. UNCHANGED <<version, stcaCutover, expireCutover, bondProgress, anonymous, upgrades,
                    preAuditSettlement, preAuditExpiry, cardanoIds>>
    BY <2>1 DEF legacyVars, migrationVars
  <2>3. TypeOK'
    BY <2>1, SettlementStepIsStep, TypeStep DEF ChainInv, ChainTypes
  <2>4. SettlementTypeOK' /\ OneBond' /\ EvidenceBehindRequests'
    BY <2>1 DEF settlementVars, bondVars, balanceVars, SettlementTypeOK, OneBond,
       EvidenceBehindRequests, vars, UnsettledClaims, ChainInv, ChainTypes
  <2>5. CutoverTypeOK' /\ MigrationInv'
    BY <2>1, <2>2 DEF ChainInv, ChainTypes, CutoverTypeOK, MigrationInv, FlagsMatch,
       settlementVars
  <2>6. UNCHANGED <<requests, bondedRequester, reserved>>
    BY <2>1 DEF settlementVars, bondVars, balanceVars
  <2>7. BondsReserved'
    BY <2>2, <2>6, SameReserves DEF ChainInv, BondsReserved, Owed, PendingBond, AttestedBond
  <2>8. block' \in Nat /\ block' >= block
    BY <1>1, <2>1 DEF vars
  <2> QED
    BY <1>2, <2>2, <2>3, <2>4, <2>5, <2>7, <2>8 DEF ChainInv, ChainTypes
<1> QED
  BY <1>3, <1>4, <1>5, <1>6, <1>7 DEF LegacyNext

\* It holds in every reachable state.
LEMMA ChainHolds == LegacySpec => []ChainInv
<1>1. ChainInv /\ [LegacyNext]_chainVars => ChainInv'
  BY ChainStep
<1> QED
  BY <1>1, ChainInit, PTL DEF LegacySpec

\* What try_state expects holds after every step of every upgrade, cut short or
\* not, of every chain that passed it before: no upgrade schedules one cutover
\* without the other, and none loses or doubles a bond on its way to the named
\* reserve.
THEOREM UpgradesKeepTryState == LegacySpec => []TryState
  BY ChainHolds, ChainInvImplies, PTL

\* The flags are exact: no settlement without evidence goes unflagged, however
\* many upgrades the walk takes and whatever settles in between, and none on
\* evidence is flagged.
THEOREM FlagsAreExact == LegacySpec => []AuditFlagsAreExact
  BY ChainHolds, ChainInvImplies, PTL

\* No upgrade, resumed walk or seeded network opens a legacy path that had
\* closed, and no call does.
THEOREM ClosedPathsStayClosed == LegacySpec => LegacyStaysClosed
<1>1. ChainInv /\ [LegacyNext]_chainVars
        => [/\ ~SettlePathOpen => ~SettlePathOpen'
            /\ ~ExpirePathOpen => ~ExpirePathOpen']_chainVars
  BY ChainStep
<1> QED
  BY <1>1, ChainHolds, PTL DEF LegacySpec, LegacyStaysClosed

(***************************************************************************)
(* What holds of claims that settle on evidence holds on these chains too. *)
(***************************************************************************)
\* A batch settled on the committee's word.
SettlesOnWord ==
  \E who : \E cs \in SUBSET UnsettledClaims : \E entries \in [cs -> LegacyTerms] :
     SettleBatchAtomic(who, entries)

LeavesSettlements ==
  UNCHANGED <<requests, settlements, slashedRequests, members, minSignerThreshold>>

\* A step is one of the evidence calls, or a batch settled on the committee's
\* word, or leaves requests, settlements and tombstones alone.
LEMMA ChainCases ==
  ASSUME ChainInv, [LegacyNext]_chainVars
  PROVE  [SettlementNext]_allVars \/ SettlesOnWord \/ LeavesSettlements
<1>1. CASE EvidenceStep
  BY <1>1, Zenon DEF EvidenceStep, SettlementNext
<1>2. ASSUME NEW who, LegacyCall(who)
      PROVE  SettlesOnWord \/ LeavesSettlements
  <2>1. ASSUME NEW i, ExpirePolicyMirror(who, i)
        PROVE  LeavesSettlements
    BY <2>1 DEF ExpirePolicyMirror, LeavesSettlements, settlementVars, bondVars, committeeVars
  <2>2. ASSUME NEW cs \in SUBSET UnsettledClaims, NEW entries \in [cs -> LegacyTerms],
               SettleBatchAtomic(who, entries)
        PROVE  SettlesOnWord
    BY <2>2, Zenon DEF SettlesOnWord
  <2> QED
    BY <1>2, <2>1, <2>2, LegacyCases, Zenon
<1>3. CASE UpgradeBlock
  BY <1>3 DEF UpgradeBlock, NextBlock, LeavesSettlements, bondVars, committeeVars
<1>4. CASE BindAegisPolicyV1 \/ UNCHANGED chainVars
  <2>1. UNCHANGED allVars
    BY <1>4 DEF BindAegisPolicyV1, chainVars
  <2> QED
    BY <2>1
<1>5. EvidenceStep \/ (\E who : LegacyCall(who)) \/ UpgradeBlock
      \/ BindAegisPolicyV1 \/ UNCHANGED chainVars
  BY Zenon DEF LegacyNext
<1> QED
  BY <1>1, <1>2, <1>3, <1>4, <1>5, Zenon

\* A batch settled on the committee's word reaches unsettled claims only, so
\* nothing that settled a claim is rewritten, before an upgrade or after.
THEOREM ChainSettlementsAreFinal == LegacySpec => SettlementIsFinal
<1>1. ASSUME ChainInv, [LegacyNext]_chainVars
      PROVE  \A c \in DOMAIN settlements :
                c \in DOMAIN settlements' /\ settlements'[c] = settlements[c]
  <2>1. TypeOK /\ SettlementTypeOK /\ OneBond
    BY <1>1 DEF ChainInv, ChainTypes
  <2>2. CASE [SettlementNext]_allVars
    BY <2>1, <2>2, SettlementsStay
  <2>3. ASSUME NEW who, NEW cs \in SUBSET UnsettledClaims,
               NEW entries \in [cs -> LegacyTerms], SettleBatchAtomic(who, entries)
        PROVE  \A c \in DOMAIN settlements :
                  c \in DOMAIN settlements' /\ settlements'[c] = settlements[c]
    <3>1. /\ DOMAIN settlements' = cs \cup DOMAIN settlements
          /\ \A c \in DOMAIN settlements \ cs : settlements'[c] = settlements[c]
      BY <2>1, <2>3, SettleBatchEffect
    <3>2. \A c \in DOMAIN settlements : c \notin cs
      BY <2>1 DEF OneBond
    <3> QED
      BY <3>1, <3>2
  <2> QED
    BY <1>1, <2>2, <2>3, ChainCases DEF SettlesOnWord, LeavesSettlements
<1>2. ChainInv /\ [LegacyNext]_chainVars
        => [\A c \in DOMAIN settlements :
              c \in DOMAIN settlements' /\ settlements'[c] = settlements[c]]_allVars
  BY <1>1
<1> QED
  BY <1>2, ChainHolds, PTL DEF LegacySpec, SettlementIsFinal

\* A slashed request stays away on a chain that starts with none of its id.
THEOREM ChainSlashedStayAway ==
  LegacySpec /\ NoSlashedRequestReturns => []NoSlashedRequestReturns
<1>1. ASSUME ChainInv, NoSlashedRequestReturns, [LegacyNext]_chainVars
      PROVE  NoSlashedRequestReturns'
  <2>1. TypeOK /\ SettlementTypeOK /\ OneBond
    BY <1>1 DEF ChainInv, ChainTypes
  <2>2. CASE [SettlementNext]_allVars
    BY <1>1, <2>1, <2>2, TombstoneStep
  <2>3. CASE UNCHANGED <<requests, slashedRequests>>
    BY <1>1, <2>3 DEF NoSlashedRequestReturns
  <2>4. ASSUME NEW who, NEW cs \in SUBSET UnsettledClaims,
               NEW entries \in [cs -> LegacyTerms], SettleBatchAtomic(who, entries)
        PROVE  UNCHANGED <<requests, slashedRequests>>
    BY <2>4 DEF SettleBatchAtomic, bondVars
  <2> QED
    BY <1>1, <2>2, <2>3, <2>4, ChainCases DEF SettlesOnWord, LeavesSettlements
<1>2. ChainInv /\ NoSlashedRequestReturns /\ [LegacyNext]_chainVars
        => NoSlashedRequestReturns'
  BY <1>1
<1> QED
  BY <1>2, ChainHolds, PTL DEF LegacySpec

\* The calls without evidence carry a bundle too: when few sign what Cardano
\* does not bear out, every settlement names a transaction that paid the claim
\* and no honest requester is slashed, if that was so to begin with.
LEMMA ChainEvidenceHolds ==
  FewSignAnything =>
    (LegacySpec /\ CommitteeInPlace /\ EvidenceInv => []EvidenceInv)
<1> SUFFICES ASSUME FewSignAnything
             PROVE  LegacySpec /\ CommitteeInPlace /\ EvidenceInv => []EvidenceInv
  OBVIOUS
<1>1. ASSUME ChainInv, CommitteeInPlace, EvidenceInv, [LegacyNext]_chainVars
      PROVE  CommitteeInPlace' /\ EvidenceInv'
  <2>1. TypeOK /\ SettlementTypeOK /\ OneBond
    BY <1>1 DEF ChainInv, ChainTypes
  <2>2. CASE [SettlementNext]_allVars
    BY <1>1, <2>1, <2>2, ConfirmedStep, CommitteeStep, SettlementStepIsStep
  <2>3. CASE UNCHANGED <<requests, settlements, slashedRequests, members, minSignerThreshold>>
    BY <1>1, <2>3 DEF EvidenceInv, SettledOnConfirmedEvidence, HonestIsNeverSlashed,
       CommitteeInPlace
  <2>4. ASSUME NEW who, NEW cs \in SUBSET UnsettledClaims,
               NEW entries \in [cs -> LegacyTerms], SettleBatchAtomic(who, entries)
        PROVE  CommitteeInPlace' /\ EvidenceInv'
    <3>1. DOMAIN entries = cs
      OBVIOUS
    <3>2. BundleFor(who, \A c \in cs : <<c, entries[c].evidence>> \in Confirmed)
      BY <2>4, <3>1, Zenon DEF SettleBatchAtomic
    <3>3. \A c \in cs : <<c, entries[c].evidence>> \in Confirmed
      BY <1>1, <3>2, BundlesMeetHonest DEF BundleFor
    <3>4. settlements' = Put(settlements, entries)
          /\ UNCHANGED <<slashedRequests, members, minSignerThreshold>>
      BY <2>4 DEF SettleBatchAtomic, SettleAttestedClaims, bondVars, committeeVars
    <3>5. SettledOnConfirmedEvidence'
      BY <1>1, <3>1, <3>3, <3>4 DEF EvidenceInv, SettledOnConfirmedEvidence, Put
    <3> QED
      BY <1>1, <3>4, <3>5 DEF EvidenceInv, HonestIsNeverSlashed, CommitteeInPlace
  <2> QED
    BY <1>1, <2>2, <2>3, <2>4, ChainCases DEF SettlesOnWord, LeavesSettlements
<1>2. ChainInv /\ CommitteeInPlace /\ EvidenceInv /\ [LegacyNext]_chainVars
        => CommitteeInPlace' /\ EvidenceInv'
  BY <1>1
<1> QED
  BY <1>2, ChainHolds, PTL DEF LegacySpec

\* Claims settle on what Cardano bears out, with evidence or on a word that at
\* least one honest member gave.
THEOREM ChainSettlementsAreConfirmed ==
  FewSignAnything =>
    (LegacySpec /\ CommitteeInPlace /\ EvidenceInv => []SettledOnConfirmedEvidence)
<1>1. EvidenceInv => SettledOnConfirmedEvidence
  BY DEF EvidenceInv
<1> QED
  BY <1>1, ChainEvidenceHolds, PTL

\* And no bond behind such evidence is slashed.
THEOREM ChainHonestKeepTheirBonds ==
  FewSignAnything =>
    (LegacySpec /\ CommitteeInPlace /\ EvidenceInv => []HonestIsNeverSlashed)
<1>1. EvidenceInv => HonestIsNeverSlashed
  BY DEF EvidenceInv
<1> QED
  BY <1>1, ChainEvidenceHolds, PTL

=============================================================================
