-------------------------- MODULE IntentSettlement --------------------------
(***************************************************************************)
(* The settlement half of pallet-intent-settlement, on top of              *)
(* IntentPipeline: anyone posts bonded evidence that a claim was paid on   *)
(* Cardano, the committee attests it, supersedes it with other evidence,   *)
(* or slashes it as fraud, and the bond goes back to its requester after   *)
(* a delay or once the request has expired.                                *)
(***************************************************************************)
EXTENDS IntentPipeline

CONSTANTS
  Requesters,           \* accounts that post settlement requests
  Treasury,             \* account of SettlementTreasuryPalletId
  GenesisFree,          \* free balance of every account at genesis
  Evidence,             \* what a request may claim, records [tx, depth, ada]
  Confirmed,            \* <<claim, evidence>> that Cardano bears out
  Honest,               \* keys that sign only what Cardano bears out
  Bonds,                \* bond amounts callers offer
  MinSettlementBond,
  MinFinalityDepth,
  MaxObservedDepth,     \* 2160 in the code
  SlashWatcherShareBps,
  BondReleaseDelayBlocks,
  LastRequestBlock      \* bound: no request is posted later

Holders == Requesters \cup Keys \cup {Treasury}

ASSUME SettlementAssumption ==
  /\ GenesisFree \in [Holders -> Nat]
  /\ Evidence \subseteq [tx : STRING, depth : Nat, ada : 0 .. MaxAda]
  /\ Confirmed \subseteq ClaimIds \X Evidence
  /\ Honest \subseteq Keys
  /\ Bonds \subseteq Nat
  /\ {MinSettlementBond, MinFinalityDepth, MaxObservedDepth, SlashWatcherShareBps,
      BondReleaseDelayBlocks, LastRequestBlock} \subseteq Nat

VARIABLES
  requests,             \* ClaimSettlementRequests
  settlements,          \* Claim.cardano_tx_hash and settled_direct, once settled
  bondedAttestedAt,     \* BondedClaimAttestedAt
  bondedRequester,      \* BondedClaimRequester, a map of [requester, bond]
  slashedRequests,      \* SlashedSettlementRequests, a set of <<claim, id>>
  free,                 \* balances: free
  reserved              \* balances: reserved under SETTLEMENT_BOND_RESERVE_ID

balanceVars == <<free, reserved>>
bondVars == <<bondedAttestedAt, bondedRequester, slashedRequests>>
settlementVars == <<requests, settlements, bondVars, balanceVars>>
allVars == <<vars, settlementVars>>

Terms == [evidence : Evidence, direct : BOOLEAN]

Request == [requester : Requesters, evidence : Evidence, direct : BOOLEAN,
            submitted : Blocks, bond : Nat]

\* settlement_request_id: the bond is not part of it.
RequestId(r) == <<r.requester, r.submitted, r.evidence, r.direct>>

SettlementTypeOK ==
  /\ IsMap(requests, ClaimIds) /\ \A c \in DOMAIN requests : requests[c] \in Request
  /\ IsMap(settlements, ClaimIds) /\ \A c \in DOMAIN settlements : settlements[c] \in Terms
  /\ IsMap(bondedAttestedAt, ClaimIds)
  /\ \A c \in DOMAIN bondedAttestedAt : bondedAttestedAt[c] \in Blocks
  /\ IsMap(bondedRequester, ClaimIds)
  /\ \A c \in DOMAIN bondedRequester :
        bondedRequester[c] \in [requester : Requesters, bond : Nat]
  /\ slashedRequests \subseteq
       ClaimIds \X (Requesters \X Blocks \X Evidence \X BOOLEAN)
  /\ free \in [Holders -> Nat]
  /\ reserved \in [Holders -> Nat]

SettlementInit ==
  /\ Init
  /\ requests = NoRows
  /\ settlements = NoRows
  /\ bondedAttestedAt = NoRows
  /\ bondedRequester = NoRows
  /\ slashedRequests = {}
  /\ free = GenesisFree
  /\ reserved = [h \in Holders |-> 0]

(***************************************************************************)
(* Named reserves of the balances pallet.  Unreserving moves what there    *)
(* is; a transfer out of a reserve needs a living beneficiary.             *)
(***************************************************************************)
AtMost(x, y) == IF x > y THEN y ELSE x

Alive(h) == free[h] + reserved[h] > 0

(***************************************************************************)
(* Bundles about what happened on Cardano: a signer in Honest joins one    *)
(* only when it is true.  What it signed stays usable, so no bundle is     *)
(* remembered: one that could be formed once can be formed again.          *)
(***************************************************************************)
BundleFor(who, true) ==
  \E sigs \in SUBSET members :
     /\ ThresholdSignatures(who, sigs)
     /\ true \/ sigs \cap Honest = {}

Fresh(c) == c \in DOMAIN requests /\ ~RequestExpired(requests[c].submitted)

\* checked_settlement_target.  The genesis hash and the beneficiary are
\* compared as the amount is.
\* Faulty variant: AlreadySettled is not checked.
CheckedTarget_Resettles(c, evidence) ==
  /\ evidence.depth \in MinFinalityDepth .. MaxObservedDepth
  /\ c \in DOMAIN claims
  /\ evidence.ada = claims[c].ada

CheckedTarget(c, evidence) ==
  /\ evidence.depth \in MinFinalityDepth .. MaxObservedDepth
  /\ c \in UnsettledClaims
  /\ evidence.ada = claims[c].ada

\* Faulty variant: the tombstone is not consulted.
Tombstoned_Ignored(c, r) == FALSE

Tombstoned(c, r) == <<c, RequestId(r)>> \in slashedRequests

(***************************************************************************)
(* request_batch_settle, of which request_settle is the batch of one.      *)
(* Each entry first replaces an expired request of its claim, refunding    *)
(* that bond, then is refused if its id was slashed, then reserves its own *)
(* bond.  The caller orders the entries, so its own refunds may pay for    *)
(* them and only the balance after all of them counts.                     *)
(***************************************************************************)
\* Faulty variant: the balance is not checked.
Funded_Unchecked(who, refund, posted) == TRUE

Funded(who, refund, posted) == free[who] + refund >= posted

ReplacedBond(c, h) ==
  IF c \in DOMAIN requests /\ requests[c].requester = h THEN requests[c].bond ELSE 0

RequestBatchSettle(who, entries, bond) ==
  LET cs == DOMAIN entries
      record == [c \in cs |-> [requester |-> who, evidence |-> entries[c].evidence,
                               direct |-> entries[c].direct, submitted |-> block,
                               bond |-> bond]]
      refund == [h \in Holders |->
                   AtMost(SumFunction([c \in cs |-> ReplacedBond(c, h)]), reserved[h])]
      posted == [h \in Holders |-> IF h = who THEN bond * Cardinality(cs) ELSE 0]
      replaced == {c \in cs \cap DOMAIN requests : requests[c].bond > 0}
  IN  /\ cs # {}
      /\ block <= LastRequestBlock
      /\ \A c \in cs :
            /\ CheckedTarget(c, entries[c].evidence)
            /\ c \in DOMAIN requests => RequestExpired(requests[c].submitted)
            /\ ~Tombstoned(c, record[c])
      /\ bond > 0 /\ bond >= MinSettlementBond
      /\ Funded(who, refund[who], posted[who])
      /\ free' = [h \in Holders |-> free[h] + refund[h] - posted[h]]
      /\ reserved' = [h \in Holders |-> reserved[h] - refund[h] + posted[h]]
      /\ requests' = Put(requests, record)
      /\ bondedAttestedAt' = Remove(bondedAttestedAt, replaced)
      /\ bondedRequester' = Remove(bondedRequester, replaced)
      /\ UNCHANGED <<vars, settlements, slashedRequests>>

RequestSettle(who, c, terms, bond) == RequestBatchSettle(who, Entry(c, terms), bond)

(***************************************************************************)
(* attest_batch_settle, of which attest_settle is the batch of one: the    *)
(* committee signs the stored requests while they are fresh.  A bonded     *)
(* request leaves a record of its bond for the release.                    *)
(***************************************************************************)
AttestBatchSettle(who, cs) ==
  LET bonded == {c \in cs : requests[c].bond > 0}
  IN  /\ who \in members
      /\ cs # {}
      /\ \A c \in cs : Fresh(c) /\ c \in UnsettledClaims
      /\ BundleFor(who, \A c \in cs : <<c, requests[c].evidence>> \in Confirmed)
      /\ SettleAttestedClaims(cs)
      /\ settlements' = Put(settlements, [c \in cs |-> [evidence |-> requests[c].evidence,
                                                        direct |-> requests[c].direct]])
      /\ bondedAttestedAt' = Put(bondedAttestedAt, [c \in bonded |-> block])
      /\ bondedRequester' =
           Put(bondedRequester, [c \in bonded |-> [requester |-> requests[c].requester,
                                                  bond |-> requests[c].bond]])
      /\ requests' = Remove(requests, cs)
      /\ UNCHANGED <<slashedRequests, balanceVars>>

AttestSettle(who, c) == AttestBatchSettle(who, {c})

(***************************************************************************)
(* refund_settlement_bond to the requester of claim c.                     *)
(***************************************************************************)
\* Faulty variant: one of the two records of the bond stays.
RefundSettlementBond_KeepsRequester(c, requester, bond) ==
  LET moved == AtMost(bond, reserved[requester])
  IN  /\ free' = [free EXCEPT ![requester] = @ + moved]
      /\ reserved' = [reserved EXCEPT ![requester] = @ - moved]
      /\ bondedAttestedAt' = Remove(bondedAttestedAt, {c})
      /\ UNCHANGED bondedRequester

RefundSettlementBond(c, requester, bond) ==
  LET moved == AtMost(bond, reserved[requester])
  IN  /\ free' = [free EXCEPT ![requester] = @ + moved]
      /\ reserved' = [reserved EXCEPT ![requester] = @ - moved]
      /\ bondedAttestedAt' = Remove(bondedAttestedAt, {c})
      /\ bondedRequester' = Remove(bondedRequester, {c})

\* Faulty variant: the bond goes with the request.
DiscardRequest_NoRefund(c) ==
  /\ requests' = Remove(requests, {c})
  /\ UNCHANGED <<balanceVars, bondedAttestedAt, bondedRequester>>

\* discard_settlement_request
DiscardRequest(c) ==
  /\ \/ /\ requests[c].bond > 0
        /\ RefundSettlementBond(c, requests[c].requester, requests[c].bond)
     \/ /\ requests[c].bond = 0
        /\ UNCHANGED <<balanceVars, bondedAttestedAt, bondedRequester>>
  /\ requests' = Remove(requests, {c})

\* Faulty variant: the bundle is verified for the evidence on record.
SupersedeSigned_Recorded(who, c, terms) ==
  BundleFor(who, <<c, requests[c].evidence>> \in Confirmed)

SupersedeSigned(who, c, terms) == BundleFor(who, <<c, terms.evidence>> \in Confirmed)

\* supersede_settlement_request: no TTL on the request it displaces.
SupersedeSettlementRequest(who, c, terms) ==
  /\ who \in members
  /\ CheckedTarget(c, terms.evidence)
  /\ c \in DOMAIN requests
  /\ terms # [evidence |-> requests[c].evidence, direct |-> requests[c].direct]
  /\ SupersedeSigned(who, c, terms)
  /\ DiscardRequest(c)
  /\ SettleAttestedClaims({c})
  /\ settlements' = Put(settlements, Entry(c, terms))
  /\ UNCHANGED slashedRequests

\* post_settlement_bond, for a request stored before requests were bonded.
PostSettlementBond(who, c, bond) ==
  /\ Fresh(c)
  /\ requests[c].requester = who
  /\ requests[c].bond = 0
  /\ c \in DOMAIN claims => ~claims[c].settled
  /\ bond > 0 /\ bond >= MinSettlementBond
  /\ Funded(who, 0, bond)
  /\ free' = [free EXCEPT ![who] = @ - bond]
  /\ reserved' = [reserved EXCEPT ![who] = @ + bond]
  /\ requests' = [requests EXCEPT ![c].bond = bond]
  /\ UNCHANGED <<vars, settlements, bondVars>>

(***************************************************************************)
(* slash_bad_settlement_evidence: the watcher's share, rounded down, then  *)
(* the treasury's, each out of the requester's reserve and each skipped    *)
(* when it is zero.                                                        *)
(***************************************************************************)
WatcherShare(bond) == (bond * AtMost(SlashWatcherShareBps, BpsScale)) \div BpsScale

\* Faulty variant: each share rounded down by itself.
TreasuryShare_Floored(bond) ==
  (bond * (BpsScale - AtMost(SlashWatcherShareBps, BpsScale))) \div BpsScale

TreasuryShare(bond) == bond - WatcherShare(bond)

SlashBadSettlementEvidence(who, c) ==
  LET r == requests[c]
      toWatcher == AtMost(WatcherShare(r.bond), reserved[r.requester])
      toTreasury == AtMost(TreasuryShare(r.bond), reserved[r.requester] - toWatcher)
  IN  /\ who \in members
      /\ Fresh(c)
      /\ r.bond > 0
      /\ BundleFor(who, <<c, r.evidence>> \notin Confirmed)
      /\ WatcherShare(r.bond) > 0 => Alive(who)
      /\ TreasuryShare(r.bond) > 0 => Alive(Treasury)
      /\ free' = [h \in Holders |-> free[h] + (IF h = who THEN toWatcher ELSE 0)
                                            + (IF h = Treasury THEN toTreasury ELSE 0)]
      /\ reserved' = [reserved EXCEPT ![r.requester] = @ - toWatcher - toTreasury]
      /\ slashedRequests' = slashedRequests \cup {<<c, RequestId(r)>>}
      /\ requests' = Remove(requests, {c})
      /\ UNCHANGED <<vars, settlements, bondedAttestedAt, bondedRequester>>

(***************************************************************************)
(* release_settlement_bond, by anyone: after the delay of an attested      *)
(* claim, or of a request that expired unattested.                         *)
(***************************************************************************)
\* Faulty variant: only the bonds of attested claims.
ReleaseSettlementBond_Attested(c) ==
  /\ c \in DOMAIN bondedAttestedAt
  /\ c \in DOMAIN bondedRequester
  /\ block - bondedAttestedAt[c] >= BondReleaseDelayBlocks
  /\ RefundSettlementBond(c, bondedRequester[c].requester, bondedRequester[c].bond)
  /\ UNCHANGED <<vars, requests, settlements, slashedRequests>>

ReleaseSettlementBond(c) ==
  /\ \/ /\ c \in DOMAIN bondedAttestedAt
        /\ c \in DOMAIN bondedRequester
        /\ block - bondedAttestedAt[c] >= BondReleaseDelayBlocks
        /\ RefundSettlementBond(c, bondedRequester[c].requester, bondedRequester[c].bond)
        /\ UNCHANGED requests
     \/ /\ c \in DOMAIN requests \ DOMAIN bondedAttestedAt
        /\ requests[c].bond > 0
        /\ RequestExpired(requests[c].submitted)
        /\ DiscardRequest(c)
  /\ UNCHANGED <<vars, settlements, slashedRequests>>

RequesterCall(who) ==
  \/ \E c \in ClaimIds, terms \in Terms, bond \in Bonds : RequestSettle(who, c, terms, bond)
  \/ \E cs \in SUBSET ClaimIds : \E entries \in [cs -> Terms], bond \in Bonds :
       Cardinality(cs) \in 2 .. MaxBatch /\ RequestBatchSettle(who, entries, bond)
  \/ \E c \in ClaimIds, bond \in Bonds : PostSettlementBond(who, c, bond)

CommitteeSettleCall(who) ==
  \/ \E c \in DOMAIN requests :
       \/ AttestSettle(who, c)
       \/ \E terms \in Terms : SupersedeSettlementRequest(who, c, terms)
       \/ SlashBadSettlementEvidence(who, c)
  \/ \E cs \in SUBSET DOMAIN requests :
       Cardinality(cs) \in 2 .. MaxBatch /\ AttestBatchSettle(who, cs)

PipelineStep ==
  /\ \/ NextBlock
     \/ \E who \in Accounts : SignedCall(who)
     \/ \E who \in members : CommitteeCall(who)
     \/ RootCall
     \/ \E committee \in Committees : RotateCommittee(committee)
  /\ UNCHANGED settlementVars

SettlementNext ==
  \/ PipelineStep
  \/ \E who \in Requesters : RequesterCall(who)
  \/ \E who \in members : CommitteeSettleCall(who)
  \/ \E c \in ClaimIds : ReleaseSettlementBond(c)

SettlementSpec == SettlementInit /\ [][SettlementNext]_allVars

\* Blocks keep coming, and someone asks for every bond that is due: its
\* requester has every reason to, and anyone may.
SettlementFairness ==
  /\ WF_allVars(NextBlock /\ UNCHANGED settlementVars)
  /\ \A c \in ClaimIds : WF_allVars(ReleaseSettlementBond(c))

-----------------------------------------------------------------------------
(***************************************************************************)
(* Properties.                                                             *)
(***************************************************************************)
\* The named reserve of an account is the sum of the bonds it stands behind,
\* pending or attested: no path takes a bond twice, forgets one, or moves
\* another claim's, so a refund never meets a deficit.
PendingBond(c, h) ==
  IF c \in DOMAIN requests /\ requests[c].requester = h THEN requests[c].bond ELSE 0

AttestedBond(c, h) ==
  IF c \in DOMAIN bondedRequester /\ bondedRequester[c].requester = h
  THEN bondedRequester[c].bond ELSE 0

ReserveBacksBonds ==
  \A h \in Holders :
     reserved[h] = SumFunction([c \in ClaimIds |-> PendingBond(c, h) + AttestedBond(c, h)])

\* One bond stands behind a claim, that of a request or an attested one: the
\* two records of an attested bond come and go together and only for a settled
\* claim, and exactly the settled claims name what settled them.
OneBond ==
  /\ DOMAIN requests \cap DOMAIN bondedRequester = {}
  /\ DOMAIN bondedAttestedAt = DOMAIN bondedRequester
  /\ DOMAIN bondedRequester \subseteq DOMAIN settlements
  /\ DOMAIN settlements = DOMAIN claims \ UnsettledClaims

\* A claim is at one stage: it has one bond, and a request is pending only
\* while it is unsettled.
OneStagePerClaim == OneBond /\ DOMAIN requests \subseteq UnsettledClaims

\* A slashed request never comes back under its id, so the signed allegation
\* that slashed it can slash nothing else.
NoSlashedRequestReturns ==
  \A c \in DOMAIN requests : <<c, RequestId(requests[c])>> \notin slashedRequests

\* As long as every bundle needs an honest signer, a claim settles only on
\* evidence that Cardano bears out, on every path, and no bond behind such
\* evidence is ever slashed.
SettledOnConfirmedEvidence ==
  \A c \in DOMAIN settlements : <<c, settlements[c].evidence>> \in Confirmed

HonestIsNeverSlashed ==
  \A s \in slashedRequests : <<s[1], s[2][3]>> \notin Confirmed

\* What settled a claim is never rewritten: no later request, attestation or
\* supersede reaches a settled claim.
SettlementIsFinal ==
  [][\A c \in DOMAIN settlements :
       c \in DOMAIN settlements' /\ settlements'[c] = settlements[c]]_allVars

\* An expired intent never settles (the settle-or-expire dichotomy).
SettleOrExpire ==
  [][\A i \in DOMAIN intents :
       intents[i].status = "Expired" => intents'[i].status # "Settled"]_allVars

\* Every bond comes to rest: it is refunded or slashed, and none is stranded
\* by a lost race, an expired request or a settled claim.
Bonded(c) == c \in DOMAIN bondedRequester \/ (c \in DOMAIN requests /\ requests[c].bond > 0)

EveryBondComesBack == \A c \in ClaimIds : Bonded(c) ~> ~Bonded(c)

\* What the bonds promise, without the reserves, the two bond records or the
\* requests' contents: see BondEscrow.
Escrowed == [c \in {d \in ClaimIds : Bonded(d)} |->
               IF c \in DOMAIN requests
               THEN [owner |-> requests[c].requester, amount |-> requests[c].bond]
               ELSE [owner |-> bondedRequester[c].requester,
                     amount |-> bondedRequester[c].bond]]

Escrow == INSTANCE BondEscrow
            WITH Amounts <- Bonds, wallet <- free, escrow <- Escrowed,
                 settled <- DOMAIN settlements

BondsAreEscrowed == Escrow!Spec

=============================================================================
