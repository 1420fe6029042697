------------------------ MODULE IntentPipelineProofs ------------------------
(***************************************************************************)
(* Proofs about IntentPipeline for every value of its constants.           *)
(***************************************************************************)
EXTENDS IntentPipeline, DataLemmas, TLAPS

\* SetStatus changes the statuses of ids and nothing else.
LEMMA SetStatusMap ==
  ASSUME NEW ids, NEW new \in Statuses, TypeOK
  PROVE  /\ IsMap(SetStatus(ids, new), IntentIds)
         /\ DOMAIN SetStatus(ids, new) = DOMAIN intents
         /\ \A i \in DOMAIN intents :
              /\ SetStatus(ids, new)[i] \in Intent
              /\ SetStatus(ids, new)[i].status =
                   IF i \in ids THEN new ELSE intents[i].status
              /\ SetStatus(ids, new)[i].kind = intents[i].kind
              /\ SetStatus(ids, new)[i].ttlBlock = intents[i].ttlBlock
  BY DEF SetStatus, TypeOK, IsMap, Intent

(***************************************************************************)
(* Type correctness: one lemma per action.                                 *)
(***************************************************************************)
USE DEF intentVars, attestVars, moneyVars, committeeVars

\* What the sweep returns to an account is an amount.
LEMMA RefundsAreAmounts ==
  ASSUME TypeOK, NEW ids \in SUBSET LiveIntents, NEW a \in Accounts
  PROVE  SumFunction([i \in {j \in ids : j[1] = a} |-> Refund(i)]) \in Nat
<1> DEFINE his == {j \in ids : j[1] = a}
<1>1. IsFiniteSet({a} \X (0 .. MaxNonce - 1))
  <2>1. IsFiniteSet(0 .. MaxNonce - 1)
    BY BoundsAssumption, FS_Interval
  <2> QED
    BY <2>1, FS_Singleton, FS_Product
<1>2. his \subseteq {a} \X (0 .. MaxNonce - 1)
  BY DEF TypeOK, IsMap, LiveIntents, IntentIds
<1>3. IsFiniteSet(his)
  BY <1>1, <1>2, FS_Subset
<1>4. \A i \in his : Refund(i) \in Nat
  BY ConstantsAssumption DEF TypeOK, LiveIntents, Intent, Kind, Refund
<1> DEFINE f == [i \in his |-> Refund(i)]
<1>5. DOMAIN f = his /\ \A i \in his : f[i] \in Nat
  BY <1>4
<1> HIDE DEF his
<1>6. SumFunction(f) \in Nat
  <2> HIDE DEF f
  <2> QED
    BY <1>3, <1>5, SumOfMap
<1> QED
  BY <1>6 DEF his

\* The hook that opens a block keeps the types: it sweeps ids that are already
\* intents, and the credit it returns saturates at u64::MAX.
LEMMA TypeNextBlock == TypeOK /\ NextBlock => TypeOK'
<1> SUFFICES ASSUME TypeOK, NextBlock PROVE TypeOK'
  OBVIOUS
<1>1. block' \in Blocks /\ block + 1 \in Blocks
  BY BoundsAssumption DEF TypeOK, NextBlock, Blocks
<1>2. IsMap(intents', IntentIds) /\ \A i \in DOMAIN intents' : intents'[i] \in Intent
  BY SetStatusMap DEF NextBlock, Statuses
<1>3. expiryQueue' \in [Blocks -> SUBSET IntentIds]
  BY <1>1 DEF TypeOK, NextBlock
<1>4. credits' \in [Accounts -> 0 .. MaxAda]
  <2> DEFINE refund == [a \in Accounts |->
               SumFunction([i \in {j \in SweptAt(block + 1) : j[1] = a} |-> Refund(i)])]
  <2>1. SweptAt(block + 1) \subseteq LiveIntents
    BY DEF SweptAt
  <2>2. refund \in [Accounts -> Nat]
    BY <2>1, RefundsAreAmounts
  <2>3. credits' = [a \in Accounts |-> SaturatingAdd(credits[a], refund[a])]
    BY DEF NextBlock
  <2> HIDE DEF refund
  <2> QED
    BY <2>2, <2>3, ConstantsAssumption DEF TypeOK, SaturatingAdd
<1>5. pendingBatches' \subseteq IntentIds
  BY DEF TypeOK, NextBlock, RemoveFromPendingBatches
<1> QED
  BY <1>1, <1>2, <1>3, <1>4, <1>5 DEF TypeOK, NextBlock

\* A submission keeps the types: the ids are below MaxNonce, the sweep is
\* within the horizon and the credit covers the debit.
LEMMA TypeSubmit ==
  ASSUME TypeOK, NEW who \in Accounts, NEW kinds \in Seq(Kinds),
         DoSubmitIntents(who, kinds)
  PROVE  TypeOK'
<1> DEFINE n == Len(kinds)
           new == {<<who, nonces[who] + k - 1>> : k \in 1 .. n}
           rows == [i \in new |-> [kind |-> kinds[i[2] - nonces[who] + 1],
                                   ttlBlock |-> block + IntentTTL, status |-> "Pending"]]
<1>1. n \in Nat /\ nonces[who] \in 0 .. MaxNonce /\ nonces[who] + n <= MaxNonce /\ MaxNonce \in Nat
  BY BoundsAssumption DEF TypeOK, DoSubmitIntents
<1>2. block + IntentTTL \in Blocks
  <2>1. block + IntentTTL <= Horizon
    BY DEF DoSubmitIntents
  <2>2. IntentTTL \in Nat /\ Horizon \in Nat /\ block \in 1 .. Horizon
    BY BoundsAssumption DEF TypeOK, Blocks
  <2> QED
    BY <2>1, <2>2 DEF Blocks
<1>3. \A k \in 1 .. n : <<who, nonces[who] + k - 1>> \in IntentIds
  BY <1>1 DEF IntentIds
<1>4. \A i \in new : rows[i] \in Intent
  <2> SUFFICES ASSUME NEW i \in new, NEW k \in 1 .. n, i = <<who, nonces[who] + k - 1>>
               PROVE  rows[i] \in Intent
    OBVIOUS
  <2>1. i[2] - nonces[who] + 1 = k
    BY <1>1
  <2>2. kinds[k] \in Kinds
    OBVIOUS
  <2>3. rows[i] = [kind |-> kinds[k], ttlBlock |-> block + IntentTTL, status |-> "Pending"]
    BY <2>1
  <2> QED
    BY <2>2, <2>3, <1>2 DEF Intent, Statuses
<1>5. intents' = Put(intents, rows)
  BY DEF DoSubmitIntents
<1>6. IsMap(intents', IntentIds) /\ \A i \in DOMAIN intents' : intents'[i] \in Intent
  <2>1. DOMAIN rows = new /\ DOMAIN rows \subseteq IntentIds
    BY <1>3
  <2>2. \A i \in DOMAIN rows : rows[i] \in Intent
    BY <1>4, <2>1
  <2> HIDE DEF rows, new
  <2>3. IsMap(intents, IntentIds) /\ \A i \in DOMAIN intents : intents[i] \in Intent
    BY DEF TypeOK
  <2> QED
    BY <1>5, <2>1, <2>2, <2>3, PutRows, Zenon
<1>7. nonces' \in [Accounts -> 0 .. MaxNonce]
  BY <1>1 DEF TypeOK, DoSubmitIntents
<1>8. pendingBatches' \subseteq IntentIds
  BY <1>3 DEF TypeOK, DoSubmitIntents
<1>9. expiryQueue' \in [Blocks -> SUBSET IntentIds]
  <2>1. ASSUME NEW queue \in SUBSET IntentIds
        PROVE  Enqueue(queue, <<who, nonces[who]>>, n) \in SUBSET IntentIds
    BY <1>3 DEF Enqueue
  <2> QED
    BY <1>2, <2>1 DEF TypeOK, DoSubmitIntents
<1>10. credits' \in [Accounts -> 0 .. MaxAda]
  BY ConstantsAssumption DEF TypeOK, DoSubmitIntents
<1> QED
  BY <1>6, <1>7, <1>8, <1>9, <1>10 DEF TypeOK, DoSubmitIntents

\* Freezing a bundle writes statuses and sets of keys and nothing else.
LEMMA TypeFreeze ==
  ASSUME TypeOK, NEW ids \in SUBSET IntentIds, NEW sigs \in SUBSET Keys,
         FreezeBundle(ids, sigs)
  PROVE  /\ IsMap(intents', IntentIds)
         /\ \A i \in DOMAIN intents' : intents'[i] \in Intent
         /\ pendingAttestations' \in [IntentIds -> SUBSET Keys]
         /\ attestationSigs' \in [IntentIds -> SUBSET Keys]
<1>1. IsMap(intents', IntentIds) /\ \A i \in DOMAIN intents' : intents'[i] \in Intent
  BY SetStatusMap DEF FreezeBundle, Statuses
<1> QED
  BY <1>1 DEF FreezeBundle, TypeOK

\* One member's attestation keeps the types.
LEMMA TypeAttest ==
  ASSUME TypeOK, NEW who \in members, NEW i \in DOMAIN intents, AttestIntent(who, i)
  PROVE  TypeOK'
<1> DEFINE bundle == pendingAttestations[i] \cup {who}
<1>1. i \in IntentIds /\ bundle \subseteq Keys
  BY DEF TypeOK, IsMap
<1>2. CASE FreezeBundle({i}, bundle)
  BY <1>1, <1>2, TypeFreeze DEF AttestIntent, TypeOK
<1>3. CASE /\ pendingAttestations' = [pendingAttestations EXCEPT ![i] = bundle]
           /\ UNCHANGED <<intents, attestationSigs>>
  BY <1>1, <1>3 DEF AttestIntent, TypeOK
<1> QED
  BY <1>2, <1>3 DEF AttestIntent

\* A batch of attestations under one bundle keeps the types.
LEMMA TypeAttestBatch ==
  ASSUME TypeOK, NEW who, NEW sigs, NEW batch, AttestBatchIntents(who, sigs, batch)
  PROVE  TypeOK'
<1> DEFINE pending == {i \in batch : intents[i].status = "Pending"}
<1>1. pending \subseteq IntentIds /\ sigs \subseteq Keys
  BY DEF TypeOK, IsMap, AttestBatchIntents, LiveIntents, ThresholdSignatures
<1>2. FreezeBundle(pending, sigs)
  BY DEF AttestBatchIntents
<1> HIDE DEF pending
<1>3. /\ IsMap(intents', IntentIds)
      /\ \A i \in DOMAIN intents' : intents'[i] \in Intent
      /\ pendingAttestations' \in [IntentIds -> SUBSET Keys]
      /\ attestationSigs' \in [IntentIds -> SUBSET Keys]
  BY <1>1, <1>2, TypeFreeze
<1> QED
  BY <1>3 DEF AttestBatchIntents, TypeOK

\* A batch of vouchers keeps the types: the coverage it adds is checked against
\* u64::MAX before it is added.
LEMMA TypeVouchers ==
  ASSUME TypeOK, NEW who, NEW cs \in SUBSET ClaimIds, NEW batch \in [cs -> Cover],
         RequestBatchVouchers(who, batch)
  PROVE  TypeOK'
<1> DEFINE bound == {batch[c].intent : c \in DOMAIN batch}
           amount == SumFunction([c \in DOMAIN batch |-> batch[c].ada])
           rows == [c \in DOMAIN batch |-> [intent |-> batch[c].intent,
                                            ada |-> batch[c].ada, settled |-> FALSE]]
<1>1. \A c \in cs : batch[c].intent \in IntentIds /\ batch[c].ada \in 0 .. MaxAda
  BY ConstantsAssumption DEF Cover, TypeOK, IsMap
<1>2. \A c \in DOMAIN rows : rows[c] \in Claim
  BY <1>1 DEF Claim
<1>3. IsMap(claims', ClaimIds) /\ \A c \in DOMAIN claims' : claims'[c] \in Claim
  <2>1. claims' = Put(claims, rows) /\ DOMAIN rows \subseteq ClaimIds
    BY DEF RequestBatchVouchers
  <2>2. IsMap(claims, ClaimIds) /\ \A c \in DOMAIN claims : claims[c] \in Claim
    BY DEF TypeOK
  <2> HIDE DEF rows
  <2> QED
    BY <1>2, <2>1, <2>2, PutRows, Zenon
<1>4. IsMap(intents', IntentIds) /\ \A i \in DOMAIN intents' : intents'[i] \in Intent
  <2>1. intents' = SetStatus(bound, "Vouchered") /\ "Vouchered" \in Statuses
    BY DEF RequestBatchVouchers, Statuses
  <2> HIDE DEF bound
  <2> QED
    BY <2>1, SetStatusMap
<1>5. pool' \in PoolUtilizationParams
  <2>1. pool' = [pool EXCEPT !.outstanding = @ + amount]
        /\ amount \in 0 .. MaxAda - pool.outstanding
    BY DEF RequestBatchVouchers
  <2> HIDE DEF amount
  <2> QED
    BY <2>1, ConstantsAssumption DEF TypeOK, PoolUtilizationParams
<1>6. pendingBatches' \subseteq IntentIds
  BY DEF TypeOK, RequestBatchVouchers, RemoveFromPendingBatches
<1> QED
  BY <1>3, <1>4, <1>5, <1>6 DEF TypeOK, RequestBatchVouchers

\* A deposit keeps the types: both counters saturate.
LEMMA TypeDeposit ==
  ASSUME TypeOK, NEW who, NEW target \in Accounts, NEW tx \in DepositTxs,
         CreditDeposit(who, target, tx)
  PROVE  TypeOK'
<1>1. DepositAda[tx] \in 0 .. MaxAda /\ MaxAda \in Nat
  BY ConstantsAssumption
<1>2. credits' \in [Accounts -> 0 .. MaxAda]
  BY <1>1 DEF TypeOK, CreditDeposit, SaturatingAdd
<1>3. pool' \in PoolUtilizationParams
  BY <1>1 DEF TypeOK, CreditDeposit, SaturatingAdd, PoolUtilizationParams
<1> QED
  BY <1>2, <1>3 DEF TypeOK, CreditDeposit

\* Posting and attesting an expiry keep the types.
LEMMA TypeExpire ==
  ASSUME TypeOK, NEW i \in DOMAIN intents
  PROVE  /\ RequestExpirePolicy(i) => TypeOK'
         /\ \A who : AttestExpirePolicy(who, i) => TypeOK'
<1>1. ASSUME RequestExpirePolicy(i) PROVE TypeOK'
  <2>1. expireRequests' = Put(expireRequests, Entry(i, block))
    BY <1>1 DEF RequestExpirePolicy
  <2>2. /\ IsMap(expireRequests, IntentIds)
        /\ \A j \in DOMAIN expireRequests : expireRequests[j] \in Blocks
    BY DEF TypeOK
  <2>3. /\ DOMAIN Entry(i, block) \subseteq IntentIds
        /\ \A j \in DOMAIN Entry(i, block) : Entry(i, block)[j] \in Blocks
    BY DEF Entry, TypeOK, IsMap
  <2>4. /\ IsMap(expireRequests', IntentIds)
        /\ \A j \in DOMAIN expireRequests' : expireRequests'[j] \in Blocks
    BY <2>1, <2>2, <2>3, PutRows, Zenon
  <2> QED
    BY <1>1, <2>4 DEF TypeOK, RequestExpirePolicy
<1>2. ASSUME NEW who, AttestExpirePolicy(who, i) PROVE TypeOK'
  <2>1. /\ IsMap(intents', IntentIds) /\ \A j \in DOMAIN intents' : intents'[j] \in Intent
        /\ pendingBatches' \subseteq IntentIds
    BY <1>2, SetStatusMap
       DEF AttestExpirePolicy, TypeOK, RemoveFromPendingBatches, Statuses
  <2>2. /\ IsMap(expireRequests', IntentIds)
        /\ \A j \in DOMAIN expireRequests' : expireRequests'[j] \in Blocks
    <3>1. expireRequests' = Remove(expireRequests, {i})
      BY <1>2 DEF AttestExpirePolicy
    <3>2. /\ IsMap(expireRequests, IntentIds)
          /\ \A j \in DOMAIN expireRequests : expireRequests[j] \in Blocks
      BY DEF TypeOK
    <3>3. /\ IsMap(Remove(expireRequests, {i}), IntentIds)
          /\ DOMAIN Remove(expireRequests, {i}) = DOMAIN expireRequests \ {i}
          /\ \A j \in DOMAIN expireRequests \ {i} :
               Remove(expireRequests, {i})[j] = expireRequests[j]
      BY <3>2, RemoveMap
    <3> QED
      BY <3>1, <3>2, <3>3
  <2> QED
    BY <1>2, <2>1, <2>2 DEF TypeOK, AttestExpirePolicy
<1> QED
  BY <1>1, <1>2

\* What a settlement pays is an amount.
LEMMA CoverIsAmount ==
  ASSUME TypeOK, NEW cs \in SUBSET DOMAIN claims
  PROVE  SumFunction([c \in cs |-> claims[c].ada]) \in Nat
<1> DEFINE f == [c \in cs |-> claims[c].ada]
<1>1. IsFiniteSet(cs)
  BY BoundsAssumption, FS_Subset DEF TypeOK, IsMap
<1>2. DOMAIN f = cs /\ \A c \in cs : f[c] \in Nat
  BY DEF TypeOK, Claim
<1> HIDE DEF f
<1>3. SumFunction(f) \in Nat
  BY <1>1, <1>2, SumOfMap
<1> QED
  BY <1>3 DEF f

\* A settlement keeps the types: both counters stop at zero.
LEMMA TypeSettle ==
  ASSUME TypeOK, NEW cs \in SUBSET DOMAIN claims, SettleAttestedClaims(cs)
  PROVE  TypeOK'
<1>1. IsMap(claims', ClaimIds) /\ \A c \in DOMAIN claims' : claims'[c] \in Claim
  BY DEF TypeOK, SettleAttestedClaims, IsMap, Claim
<1>2. IsMap(intents', IntentIds) /\ \A i \in DOMAIN intents' : intents'[i] \in Intent
  BY SetStatusMap DEF SettleAttestedClaims, Statuses
<1>3. pool' \in PoolUtilizationParams
  <2> DEFINE total == SumFunction([c \in cs |-> claims[c].ada])
  <2>1. pool' = ReleaseCover(total)
    BY DEF SettleAttestedClaims
  <2>4. total \in Nat
    BY CoverIsAmount
  <2> HIDE DEF total
  <2>2. pool \in [capBps : Nat, nav : 0 .. MaxAda, outstanding : 0 .. MaxAda] /\ MaxAda \in Nat
    BY ConstantsAssumption DEF TypeOK, PoolUtilizationParams
  <2>3. \A x \in 0 .. MaxAda : SaturatingSub(x, total) \in 0 .. MaxAda
    BY <2>2, <2>4 DEF SaturatingSub
  <2> QED
    BY <2>1, <2>2, <2>3 DEF ReleaseCover, PoolUtilizationParams
<1>4. pendingBatches' \subseteq IntentIds
  BY DEF TypeOK, SettleAttestedClaims, RemoveFromPendingBatches
<1> QED
  BY <1>1, <1>2, <1>3, <1>4 DEF TypeOK, SettleAttestedClaims

\* The calls of Root and a rotation of the committee keep the types.
LEMMA TypeGovern ==
  /\ \A params \in PoolInputs : TypeOK /\ SetPoolUtilization(params) => TypeOK'
  /\ \A new \in MinSignerInputs : TypeOK /\ SetMinSignerThreshold(new) => TypeOK'
  /\ \A committee \in Committees : TypeOK /\ RotateCommittee(committee) => TypeOK'
<1>1. ASSUME NEW params \in PoolInputs, TypeOK, SetPoolUtilization(params) PROVE TypeOK'
  BY <1>1, ConstantsAssumption DEF TypeOK, SetPoolUtilization
<1>2. ASSUME NEW new \in MinSignerInputs, TypeOK, SetMinSignerThreshold(new) PROVE TypeOK'
  BY <1>2, ConstantsAssumption, BoundsAssumption DEF TypeOK, SetMinSignerThreshold
<1>3. ASSUME NEW committee \in Committees, TypeOK, RotateCommittee(committee) PROVE TypeOK'
  BY <1>3, ConstantsAssumption DEF TypeOK, RotateCommittee, Committee
<1> QED
  BY <1>1, <1>2, <1>3

\* Genesis is of the types.
LEMMA TypeInit == Init => TypeOK
<1> SUFFICES ASSUME Init PROVE TypeOK
  OBVIOUS
<1>1. \A keys : IsMap(NoRows, keys) /\ DOMAIN NoRows = {}
  BY DEF IsMap, NoRows
<1>2. /\ block \in Blocks
      /\ members \subseteq Keys /\ threshold \in Nat /\ minSignerThreshold \in Nat
      /\ nonces \in [Accounts -> 0 .. MaxNonce]
      /\ credits \in [Accounts -> 0 .. MaxAda]
      /\ pool \in PoolUtilizationParams
  BY ConstantsAssumption, BoundsAssumption DEF Init, Blocks, Committee
<1> QED
  BY <1>1, <1>2 DEF Init, TypeOK

(***************************************************************************)
(* A step of Next, with the batches of one folded into the batches.        *)
(***************************************************************************)
Submits == \E who \in Accounts, kinds \in Seq(Kinds) : DoSubmitIntents(who, kinds)

Attests == \E who \in members, i \in DOMAIN intents : AttestIntent(who, i)

AttestsBatch ==
  \E who \in members, sigs \in SUBSET members, batch \in SUBSET LiveIntents :
     AttestBatchIntents(who, sigs, batch)

Vouchers ==
  \E who \in members, cs \in SUBSET ClaimIds : \E batch \in [cs -> Cover] :
     RequestBatchVouchers(who, batch)

Expires == \E who \in members, i \in DOMAIN intents : AttestExpirePolicy(who, i)

Settles == \E cs \in SUBSET UnsettledClaims : SettleAttestedClaims(cs)

\* The steps that touch no intent, bundle or claim.
Quiet ==
  \/ \E i \in DOMAIN intents : RequestExpirePolicy(i)
  \/ \E who \in members, target \in Accounts, tx \in DepositTxs :
       CreditDeposit(who, target, tx)
  \/ RootCall
  \/ \E committee \in Committees : RotateCommittee(committee)
  \/ UNCHANGED vars

\* The steps of Next that settle nothing.
Calls ==
  \/ NextBlock
  \/ \E who \in Accounts : SignedCall(who)
  \/ \E who \in members : CommitteeCall(who)
  \/ RootCall
  \/ \E committee \in Committees : RotateCommittee(committee)

\* Each of them is one of these seven, single calls being batches of one.
LEMMA CallCases ==
  Calls => NextBlock \/ Submits \/ Attests \/ AttestsBatch \/ Vouchers \/ Expires \/ Quiet
<1> SUFFICES ASSUME Calls
             PROVE  NextBlock \/ Submits \/ Attests \/ AttestsBatch \/ Vouchers
                      \/ Expires \/ Quiet
  OBVIOUS
<1>1. ASSUME NEW who \in Accounts, SignedCall(who) PROVE Submits \/ Quiet
  <2>1. CASE \E kind \in Kinds : SubmitIntent(who, kind) \/ RequestCreditRefund(who, kind)
    <3> PICK kind \in Kinds : DoSubmitIntents(who, <<kind>>)
      BY <2>1 DEF SubmitIntent, RequestCreditRefund
    <3>1. <<kind>> \in Seq(Kinds)
      OBVIOUS
    <3> QED
      BY <3>1 DEF Submits
  <2>2. CASE \E n \in 2 .. MaxBatch : \E kinds \in [1 .. n -> Kinds] :
               SubmitBatchIntents(who, kinds)
    <3> PICK n \in 2 .. MaxBatch :
               \E kinds \in [1 .. n -> Kinds] : SubmitBatchIntents(who, kinds)
      BY <2>2
    <3> PICK kinds \in [1 .. n -> Kinds] : DoSubmitIntents(who, kinds)
      BY DEF SubmitBatchIntents
    <3>1. kinds \in Seq(Kinds)
      BY BoundsAssumption
    <3> QED
      BY <3>1 DEF Submits
  <2>3. CASE \E i \in DOMAIN intents : RequestExpirePolicy(i)
    BY <2>3 DEF Quiet
  <2> QED
    BY <1>1, <2>1, <2>2, <2>3 DEF SignedCall
<1>2. ASSUME NEW who \in members, CommitteeCall(who)
      PROVE  Attests \/ AttestsBatch \/ Vouchers \/ Expires \/ Quiet
  <2>1. ASSUME NEW c \in ClaimIds, NEW v \in Cover, RequestVoucher(who, c, v.intent, v.ada)
        PROVE  Vouchers
    <3>1. Entry(c, [intent |-> v.intent, ada |-> v.ada]) \in [{c} -> Cover]
      BY DEF Entry, Cover
    <3> QED
      BY <2>1, <3>1 DEF RequestVoucher, Vouchers
  <2> QED
    BY <1>2, <2>1
       DEF CommitteeCall, Attests, AttestsBatch, Vouchers, Expires, Quiet
<1> QED
  BY <1>1, <1>2 DEF Calls, Quiet

\* Every step is one of those or a settlement.
LEMMA StepCases ==
  [Next]_vars => NextBlock \/ Submits \/ Attests \/ AttestsBatch \/ Vouchers
                           \/ Expires \/ Settles \/ Quiet
  BY CallCases, Zenon DEF Next, Calls, Settles, Quiet

\* A quiet step leaves intents, bundles and claims alone.
LEMMA QuietStep == Quiet => UNCHANGED <<nonces, intents, pendingBatches,
                                        pendingAttestations, attestationSigs, claims>>
  BY DEF Quiet, RequestExpirePolicy, CreditDeposit, RootCall, SetPoolUtilization,
         SetMinSignerThreshold, RotateCommittee, vars

\* Every step keeps the types.
LEMMA TypeStep == TypeOK /\ [Next]_vars => TypeOK'
<1> SUFFICES ASSUME TypeOK, [Next]_vars PROVE TypeOK'
  OBVIOUS
<1>1. CASE NextBlock
  BY <1>1, TypeNextBlock
<1>2. CASE Submits
  BY <1>2, TypeSubmit DEF Submits
<1>3. CASE Attests
  BY <1>3, TypeAttest DEF Attests
<1>4. CASE AttestsBatch
  BY <1>4, TypeAttestBatch DEF AttestsBatch
<1>5. CASE Vouchers
  BY <1>5, TypeVouchers DEF Vouchers
<1>6. CASE Expires
  BY <1>6, TypeExpire DEF Expires
<1>7. CASE Settles
  BY <1>7, TypeSettle DEF Settles, UnsettledClaims
<1>8. CASE Quiet
  <2>1. CASE UNCHANGED vars
    BY <2>1 DEF vars, TypeOK
  <2> QED
    BY <1>8, <2>1, TypeExpire, TypeDeposit, TypeGovern DEF Quiet, RootCall
<1> QED
  BY <1>1, <1>2, <1>3, <1>4, <1>5, <1>6, <1>7, <1>8, StepCases

\* Every reachable state is of the types the storage declares: no counter
\* leaves u64, no status, bundle or row appears for an id that does not exist.
THEOREM TypeCorrect == Spec => []TypeOK
  BY TypeInit, TypeStep, PTL DEF Spec

(***************************************************************************)
(* The index of live intents.                                              *)
(***************************************************************************)
\* A status that ends the wait takes its ids out of the live intents; the
\* status Attested, given to live intents, leaves them there.
LEMMA LiveAfter ==
  ASSUME TypeOK, NEW ids, NEW new \in Statuses, intents' = SetStatus(ids, new)
  PROVE  /\ new \notin Live => LiveIntents' = LiveIntents \ ids
         /\ new \in Live /\ ids \subseteq LiveIntents => LiveIntents' = LiveIntents
  BY SetStatusMap DEF LiveIntents

NewIds(who, kinds) == {<<who, nonces[who] + k - 1>> : k \in 1 .. Len(kinds)}

\* The intents of a submission: all new, all Pending, no old one changed.
LEMMA SubmitEffect ==
  ASSUME TypeOK, NEW who \in Accounts, NEW kinds \in Seq(Kinds),
         DoSubmitIntents(who, kinds)
  PROVE  /\ DOMAIN intents' = DOMAIN intents \cup NewIds(who, kinds)
         /\ \A i \in NewIds(who, kinds) : intents'[i].status = "Pending"
         /\ \A i \in DOMAIN intents \ NewIds(who, kinds) : intents'[i] = intents[i]
         /\ pendingBatches' = pendingBatches \cup NewIds(who, kinds)
         /\ nonces' = [nonces EXCEPT ![who] = @ + Len(kinds)]
         /\ UNCHANGED <<pendingAttestations, attestationSigs, claims>>
<1> DEFINE new == NewIds(who, kinds)
           rows == [i \in new |-> [kind |-> kinds[i[2] - nonces[who] + 1],
                                   ttlBlock |-> block + IntentTTL, status |-> "Pending"]]
<1>1. /\ intents' = Put(intents, rows)
      /\ pendingBatches' = pendingBatches \cup new
  BY DEF DoSubmitIntents, NewIds
<1>2. /\ DOMAIN intents' = DOMAIN intents \cup new
      /\ \A i \in new : intents'[i] = rows[i]
      /\ \A i \in DOMAIN intents \ new : intents'[i] = intents[i]
  BY <1>1 DEF Put
<1>3. \A i \in new : rows[i].status = "Pending"
  OBVIOUS
<1> HIDE DEF rows
<1> QED
  BY <1>1, <1>2, <1>3 DEF DoSubmitIntents

\* Every step keeps the index exact.
LEMMA IndexStep == TypeOK /\ IndexIsLive /\ [Next]_vars => IndexIsLive'
<1> SUFFICES ASSUME TypeOK, IndexIsLive, [Next]_vars PROVE pendingBatches' = LiveIntents'
  BY DEF IndexIsLive
<1>1. CASE NextBlock
  BY <1>1, LiveAfter
     DEF NextBlock, RemoveFromPendingBatches, IndexIsLive, Statuses, Live
<1>2. CASE Submits
  <2> PICK who \in Accounts, kinds \in Seq(Kinds) : DoSubmitIntents(who, kinds)
    BY <1>2 DEF Submits
  <2> QED
    BY SubmitEffect DEF IndexIsLive, LiveIntents, Live
<1>3. CASE Attests \/ AttestsBatch
  <2>1. UNCHANGED pendingBatches
    BY <1>3 DEF Attests, AttestsBatch, AttestIntent, AttestBatchIntents
  <2>2. UNCHANGED intents \/ \E ids \in SUBSET LiveIntents : intents' = SetStatus(ids, "Attested")
    <3>1. CASE Attests
      <4> PICK who \in members, i \in DOMAIN intents : AttestIntent(who, i)
        BY <3>1 DEF Attests
      <4>1. {i} \subseteq LiveIntents
        BY DEF AttestIntent, LiveIntents, Live
      <4> QED
        BY <4>1 DEF AttestIntent, FreezeBundle
    <3>2. CASE AttestsBatch
      BY <3>2 DEF AttestsBatch, AttestBatchIntents, FreezeBundle
    <3> QED
      BY <1>3, <3>1, <3>2
  <2> QED
    BY <2>1, <2>2, LiveAfter DEF IndexIsLive, LiveIntents, Statuses, Live
<1>4. CASE Vouchers
  <2> PICK who \in members, cs \in SUBSET ClaimIds :
             \E batch \in [cs -> Cover] : RequestBatchVouchers(who, batch)
    BY <1>4 DEF Vouchers
  <2> PICK ids : /\ intents' = SetStatus(ids, "Vouchered")
                 /\ pendingBatches' = pendingBatches \ ids
    BY DEF RequestBatchVouchers, RemoveFromPendingBatches
  <2> QED
    BY LiveAfter DEF IndexIsLive, Statuses, Live
<1>5. CASE Expires
  <2> PICK who \in members, i \in DOMAIN intents : AttestExpirePolicy(who, i)
    BY <1>5 DEF Expires
  <2>1. CASE UNCHANGED <<intents, pendingBatches>>
    BY <2>1 DEF IndexIsLive, LiveIntents
  <2>2. CASE /\ intents' = SetStatus({i}, "Expired")
             /\ pendingBatches' = pendingBatches \ {i}
    BY <2>2, LiveAfter DEF IndexIsLive, Statuses, Live
  <2> QED
    BY <2>1, <2>2 DEF AttestExpirePolicy, RemoveFromPendingBatches
<1>6. CASE Settles
  <2> PICK ids : /\ intents' = SetStatus(ids, "Settled")
                 /\ pendingBatches' = pendingBatches \ ids
    BY <1>6 DEF Settles, SettleAttestedClaims, RemoveFromPendingBatches
  <2> QED
    BY LiveAfter DEF IndexIsLive, Statuses, Live
<1>7. CASE Quiet
  BY <1>7, QuietStep DEF IndexIsLive, LiveIntents
<1> QED
  BY <1>1, <1>2, <1>3, <1>4, <1>5, <1>6, <1>7, StepCases

\* The index that get_pending_batches serves is exact in every reachable
\* state: each of the calls that end an intent's wait removes it.
THEOREM IndexCorrect == Spec => []IndexIsLive
<1>1. Init => IndexIsLive
  BY DEF Init, IndexIsLive, LiveIntents, NoRows
<1> QED
  BY <1>1, TypeCorrect, IndexStep, PTL DEF Spec

(***************************************************************************)
(* Ids are not reused: the nonce of an account is above its ids.           *)
(***************************************************************************)
IdsAreUsed == \A i \in DOMAIN intents : i[2] < nonces[i[1]]

\* Only a submission adds ids; the intents' kinds and TTLs never change.
LEMMA SameIds ==
  ASSUME TypeOK,
         NextBlock \/ Attests \/ AttestsBatch \/ Vouchers \/ Expires \/ Settles \/ Quiet
  PROVE  UNCHANGED nonces /\ DOMAIN intents' = DOMAIN intents
<1>1. UNCHANGED nonces
  BY QuietStep DEF NextBlock, Attests, AttestIntent, AttestsBatch, AttestBatchIntents,
     Vouchers, RequestBatchVouchers, Expires, AttestExpirePolicy, Settles,
     SettleAttestedClaims
<1>2. UNCHANGED intents \/ \E ids, new : intents' = SetStatus(ids, new)
  BY QuietStep DEF NextBlock, Attests, AttestIntent, AttestsBatch, AttestBatchIntents,
     FreezeBundle, Vouchers, RequestBatchVouchers, Expires, AttestExpirePolicy, Settles,
     SettleAttestedClaims
<1> QED
  BY <1>1, <1>2 DEF SetStatus

\* The ids a submission takes are not in use.
LEMMA NewIdsAreNew ==
  ASSUME TypeOK, IdsAreUsed, NEW who \in Accounts, NEW kinds \in Seq(Kinds)
  PROVE  NewIds(who, kinds) \cap DOMAIN intents = {}
<1> SUFFICES ASSUME NEW k \in 1 .. Len(kinds), <<who, nonces[who] + k - 1>> \in DOMAIN intents
             PROVE  FALSE
  BY DEF NewIds
<1>1. nonces[who] \in Nat /\ k \in Nat /\ k >= 1
  BY BoundsAssumption DEF TypeOK
<1>2. nonces[who] + k - 1 < nonces[who]
  BY DEF IdsAreUsed
<1> QED
  BY <1>1, <1>2

\* Every step keeps the nonces above the ids.
LEMMA UsedStep == TypeOK /\ IdsAreUsed /\ [Next]_vars => IdsAreUsed'
<1> SUFFICES ASSUME TypeOK, IdsAreUsed, [Next]_vars PROVE IdsAreUsed'
  OBVIOUS
<1>1. CASE Submits
  <2> PICK who \in Accounts, kinds \in Seq(Kinds) : DoSubmitIntents(who, kinds)
    BY <1>1 DEF Submits
  <2>1. /\ DOMAIN intents' = DOMAIN intents \cup NewIds(who, kinds)
        /\ nonces' = [nonces EXCEPT ![who] = @ + Len(kinds)]
    BY SubmitEffect
  <2>2. Len(kinds) \in Nat /\ nonces \in [Accounts -> Nat]
    BY BoundsAssumption DEF TypeOK
  <2>3. ASSUME NEW i \in DOMAIN intents PROVE i[2] < nonces'[i[1]]
    <3>1. i \in IntentIds
      BY DEF TypeOK, IsMap
    <3>2. MaxNonce \in Nat
      BY BoundsAssumption
    <3>3. i[1] \in Accounts /\ i[2] \in Int
      BY <3>1, <3>2 DEF IntentIds
    <3>4. i[2] < nonces[i[1]]
      BY DEF IdsAreUsed
    <3> QED
      BY <2>1, <2>2, <3>3, <3>4
  <2>4. ASSUME NEW i \in NewIds(who, kinds) PROVE i[2] < nonces'[i[1]]
    <3> PICK k \in 1 .. Len(kinds) : i = <<who, nonces[who] + k - 1>>
      BY DEF NewIds
    <3> QED
      BY <2>1, <2>2
  <2> QED
    BY <2>1, <2>3, <2>4 DEF IdsAreUsed
<1>2. CASE NextBlock \/ Attests \/ AttestsBatch \/ Vouchers \/ Expires \/ Settles \/ Quiet
  BY <1>2, SameIds DEF IdsAreUsed
<1> QED
  BY <1>1, <1>2, StepCases

(***************************************************************************)
(* Bundles.                                                                *)
(***************************************************************************)
\* Freezing a non-empty bundle for Pending intents keeps bundles and
\* statuses together.
LEMMA FreezeKeepsBundles ==
  ASSUME TypeOK, BundleFollowsStatus, NEW ids \in SUBSET IntentIds,
         \A i \in ids : i \in DOMAIN intents /\ intents[i].status = "Pending",
         NEW sigs, sigs # {}, FreezeBundle(ids, sigs)
  PROVE  BundleFollowsStatus'
<1>1. /\ DOMAIN intents' = DOMAIN intents
      /\ \A i \in DOMAIN intents :
           intents'[i].status = IF i \in ids THEN "Attested" ELSE intents[i].status
  BY SetStatusMap DEF FreezeBundle, Statuses
<1>2. \A i \in IntentIds :
        /\ attestationSigs'[i] = IF i \in ids THEN sigs ELSE attestationSigs[i]
        /\ pendingAttestations'[i] = IF i \in ids THEN {} ELSE pendingAttestations[i]
  BY DEF FreezeBundle
<1> QED
  BY <1>1, <1>2 DEF BundleFollowsStatus

\* A status other than Pending, given to intents that have their bundle
\* where it is one that needs it, does too.
LEMMA MoveKeepsBundles ==
  ASSUME TypeOK, BundleFollowsStatus, NEW ids, NEW new \in Statuses \ {"Pending"},
         new = "Expired" \/ \A i \in ids \cap DOMAIN intents : attestationSigs[i] # {},
         intents' = SetStatus(ids, new), UNCHANGED attestVars
  PROVE  BundleFollowsStatus'
<1>1. /\ DOMAIN intents' = DOMAIN intents
      /\ \A i \in DOMAIN intents :
           intents'[i].status = IF i \in ids THEN new ELSE intents[i].status
  BY SetStatusMap
<1>2. UNCHANGED <<pendingAttestations, attestationSigs>>
  OBVIOUS
<1> QED
  BY <1>1, <1>2 DEF BundleFollowsStatus, Statuses

\* A claim's intent has the frozen bundle it was vouchered with, also when it
\* expired in between.  BundleFollowsStatus is not inductive without it: an
\* Expired intent may have no bundle, and a settlement would make it Settled.
ClaimsHaveBundles == \A c \in DOMAIN claims : attestationSigs[claims[c].intent] # {}

BundleInv == BundleFollowsStatus /\ ClaimsHaveBundles

\* Neither freezing a bundle nor moving a status takes a claim's bundle away.
LEMMA ClaimsKeepBundles ==
  ASSUME TypeOK, ClaimsHaveBundles, UNCHANGED claims,
         \/ UNCHANGED attestationSigs
         \/ \E ids, sigs : sigs # {} /\ FreezeBundle(ids, sigs)
  PROVE  ClaimsHaveBundles'
  BY DEF ClaimsHaveBundles, FreezeBundle, TypeOK, Claim

\* A submission leaves the bundles of its new ids empty.
LEMMA BundleSubmit ==
  ASSUME TypeOK, IdsAreUsed, BundleInv, Submits
  PROVE  BundleInv'
<1> PICK who \in Accounts, kinds \in Seq(Kinds) : DoSubmitIntents(who, kinds)
  BY DEF Submits
<1> DEFINE new == NewIds(who, kinds)
<1>1. /\ DOMAIN intents' = DOMAIN intents \cup new
      /\ \A i \in new : intents'[i].status = "Pending"
      /\ \A i \in DOMAIN intents \ new : intents'[i] = intents[i]
      /\ UNCHANGED <<pendingAttestations, attestationSigs, claims>>
      /\ new \cap DOMAIN intents = {}
  BY SubmitEffect, NewIdsAreNew
<1> HIDE DEF new
<1>2. BundleFollowsStatus'
  BY <1>1 DEF BundleInv, BundleFollowsStatus
<1>3. ClaimsHaveBundles'
  BY <1>1 DEF BundleInv, ClaimsHaveBundles
<1> QED
  BY <1>2, <1>3 DEF BundleInv

\* A batch of vouchers goes to Attested intents, whose bundles are frozen.
LEMMA BundleVouchers ==
  ASSUME TypeOK, BundleInv, Vouchers
  PROVE  BundleInv'
<1> PICK who \in members, cs \in SUBSET ClaimIds :
           \E batch \in [cs -> Cover] : RequestBatchVouchers(who, batch)
  BY DEF Vouchers
<1> PICK batch \in [cs -> Cover] : RequestBatchVouchers(who, batch)
  OBVIOUS
<1> DEFINE bound == {batch[c].intent : c \in DOMAIN batch}
           rows == [c \in DOMAIN batch |-> [intent |-> batch[c].intent,
                                            ada |-> batch[c].ada, settled |-> FALSE]]
<1>1. /\ \A i \in bound : i \in DOMAIN intents /\ intents[i].status = "Attested"
      /\ intents' = SetStatus(bound, "Vouchered")
      /\ UNCHANGED attestVars
      /\ claims' = Put(claims, rows)
  BY DEF RequestBatchVouchers
<1>2. \A i \in bound : attestationSigs[i] # {}
  BY <1>1 DEF BundleInv, BundleFollowsStatus, TypeOK, IsMap
<1>3. /\ DOMAIN claims' = DOMAIN rows \cup DOMAIN claims
      /\ \A c \in DOMAIN rows : claims'[c] = rows[c] /\ rows[c].intent \in bound
      /\ \A c \in DOMAIN claims \ DOMAIN rows : claims'[c] = claims[c]
  BY <1>1 DEF Put
<1> HIDE DEF bound, rows
<1>4. BundleFollowsStatus'
  BY <1>1, <1>2, MoveKeepsBundles DEF BundleInv, Statuses
<1>5. ClaimsHaveBundles'
  BY <1>1, <1>2, <1>3 DEF BundleInv, ClaimsHaveBundles
<1> QED
  BY <1>4, <1>5 DEF BundleInv

\* Every step keeps bundles, statuses and claims together.
LEMMA BundleStep == TypeOK /\ IdsAreUsed /\ BundleInv /\ [Next]_vars => BundleInv'
<1> SUFFICES ASSUME TypeOK, IdsAreUsed, BundleInv, [Next]_vars PROVE BundleInv'
  OBVIOUS
<1>0. BundleFollowsStatus /\ ClaimsHaveBundles
  BY DEF BundleInv
<1>1. CASE NextBlock
  <2>1. /\ intents' = SetStatus(SweptAt(block + 1), "Expired")
        /\ UNCHANGED attestVars /\ UNCHANGED claims
    BY <1>1 DEF NextBlock
  <2> QED
    BY <1>0, <2>1, MoveKeepsBundles, ClaimsKeepBundles DEF BundleInv, Statuses
<1>2. CASE Submits
  BY <1>2, BundleSubmit
<1>3. CASE Attests
  <2> PICK who \in members, i \in DOMAIN intents : AttestIntent(who, i)
    BY <1>3 DEF Attests
  <2> DEFINE bundle == pendingAttestations[i] \cup {who}
  <2>1. i \in IntentIds /\ intents[i].status = "Pending" /\ UNCHANGED claims
    BY DEF AttestIntent, TypeOK, IsMap
  <2>2. CASE FreezeBundle({i}, bundle)
    BY <1>0, <2>1, <2>2, FreezeKeepsBundles, ClaimsKeepBundles DEF BundleInv
  <2>3. CASE /\ pendingAttestations' = [pendingAttestations EXCEPT ![i] = bundle]
             /\ UNCHANGED <<intents, attestationSigs>>
    <3>1. attestationSigs[i] = {}
      BY <1>0, <2>1 DEF BundleFollowsStatus
    <3>2. BundleFollowsStatus'
      BY <1>0, <2>1, <2>3, <3>1 DEF BundleFollowsStatus, TypeOK
    <3> QED
      BY <1>0, <2>1, <2>3, <3>2, ClaimsKeepBundles DEF BundleInv
  <2> QED
    BY <2>2, <2>3 DEF AttestIntent
<1>4. CASE AttestsBatch
  <2> PICK who \in members, sigs \in SUBSET members, batch \in SUBSET LiveIntents :
             AttestBatchIntents(who, sigs, batch)
    BY <1>4 DEF AttestsBatch
  <2> DEFINE pending == {i \in batch : intents[i].status = "Pending"}
  <2>1. /\ FreezeBundle(pending, sigs) /\ sigs # {} /\ UNCHANGED claims
        /\ \A i \in pending : i \in DOMAIN intents /\ intents[i].status = "Pending"
        /\ pending \subseteq IntentIds
    BY DEF AttestBatchIntents, ThresholdSignatures, LiveIntents, TypeOK, IsMap
  <2> HIDE DEF pending
  <2> QED
    BY <1>0, <2>1, FreezeKeepsBundles, ClaimsKeepBundles DEF BundleInv
<1>5. CASE Vouchers
  BY <1>5, BundleVouchers
<1>6. CASE Expires
  <2> PICK who \in members, i \in DOMAIN intents : AttestExpirePolicy(who, i)
    BY <1>6 DEF Expires
  <2>1. UNCHANGED attestVars /\ UNCHANGED claims
        /\ (UNCHANGED intents \/ intents' = SetStatus({i}, "Expired"))
    BY DEF AttestExpirePolicy
  <2>2. ClaimsHaveBundles'
    BY <1>0, <2>1, ClaimsKeepBundles
  <2>3. CASE UNCHANGED intents
    BY <1>0, <2>1, <2>2, <2>3 DEF BundleInv, BundleFollowsStatus
  <2>4. CASE intents' = SetStatus({i}, "Expired")
    BY <1>0, <2>1, <2>2, <2>4, MoveKeepsBundles DEF BundleInv, Statuses
  <2> QED
    BY <2>1, <2>3, <2>4
<1>7. CASE Settles
  <2> PICK cs \in SUBSET UnsettledClaims : SettleAttestedClaims(cs)
    BY <1>7 DEF Settles
  <2> DEFINE paid == {claims[c].intent : c \in cs}
  <2>1. /\ intents' = SetStatus(paid, "Settled") /\ UNCHANGED attestVars
        /\ DOMAIN claims' = DOMAIN claims
        /\ \A c \in DOMAIN claims : claims'[c].intent = claims[c].intent
    BY DEF SettleAttestedClaims, TypeOK, Claim
  <2>2. \A i \in paid : attestationSigs[i] # {}
    BY <1>0 DEF ClaimsHaveBundles, UnsettledClaims
  <2> HIDE DEF paid
  <2>3. BundleFollowsStatus'
    BY <1>0, <2>1, <2>2, MoveKeepsBundles DEF Statuses
  <2>4. ClaimsHaveBundles'
    BY <1>0, <2>1 DEF ClaimsHaveBundles
  <2> QED
    BY <2>3, <2>4 DEF BundleInv
<1>8. CASE Quiet
  BY <1>0, <1>8, QuietStep DEF BundleInv, BundleFollowsStatus, ClaimsHaveBundles
<1> QED
  BY <1>1, <1>2, <1>3, <1>4, <1>5, <1>6, <1>7, <1>8, StepCases

\* No nonce is handed out twice, so no submission overwrites an intent.
THEOREM NonceCorrect == Spec => []IdsAreUsed
<1>1. Init => IdsAreUsed
  BY DEF Init, IdsAreUsed, NoRows
<1> QED
  BY <1>1, TypeCorrect, UsedStep, PTL DEF Spec

\* Whatever was vouchered or settled has the frozen bundle that a keeper shows
\* on Cardano, and no Pending intent has one, in every reachable state.
THEOREM BundleCorrect == Spec => []BundleFollowsStatus
<1>1. Init => BundleInv
  BY DEF Init, BundleInv, BundleFollowsStatus, ClaimsHaveBundles, NoRows
<1>2. BundleInv => BundleFollowsStatus
  BY DEF BundleInv
<1> QED
  BY <1>1, <1>2, TypeCorrect, NonceCorrect, BundleStep, PTL DEF Spec

(***************************************************************************)
(* Claims and intents.                                                     *)
(***************************************************************************)
\* A status change that reaches no claim's intent keeps the two maps matched,
\* unless it hands out a status that only a claim gives.
LEMMA OthersMove ==
  ASSUME TypeOK, ClaimsMatchIntents, UNCHANGED claims,
         NEW ids, NEW new \in Statuses \ {"Vouchered", "Settled"},
         intents' = SetStatus(ids, new),
         \A c \in DOMAIN claims : claims[c].intent \in ids =>
            ~claims[c].settled /\ new = "Expired"
  PROVE  ClaimsMatchIntents'
<1>1. /\ DOMAIN intents' = DOMAIN intents
      /\ \A i \in DOMAIN intents :
           intents'[i].status = IF i \in ids THEN new ELSE intents[i].status
  BY SetStatusMap
<1> QED
  BY <1>1 DEF ClaimsMatchIntents

\* No intent that is Pending or Attested has a claim.
LEMMA LiveHasNoClaim ==
  ASSUME ClaimsMatchIntents, NEW c \in DOMAIN claims
  PROVE  claims[c].intent \notin LiveIntents
  BY DEF ClaimsMatchIntents, LiveIntents, Live

\* A submission adds intents that no claim has.
LEMMA MatchSubmit ==
  ASSUME TypeOK, IdsAreUsed, ClaimsMatchIntents, Submits
  PROVE  ClaimsMatchIntents'
<1> PICK who \in Accounts, kinds \in Seq(Kinds) : DoSubmitIntents(who, kinds)
  BY DEF Submits
<1> DEFINE new == NewIds(who, kinds)
<1>1. /\ DOMAIN intents' = DOMAIN intents \cup new
      /\ \A i \in new : intents'[i].status = "Pending"
      /\ \A i \in DOMAIN intents \ new : intents'[i] = intents[i]
      /\ UNCHANGED claims
      /\ new \cap DOMAIN intents = {}
  BY SubmitEffect, NewIdsAreNew
<1> HIDE DEF new
<1> QED
  BY <1>1 DEF ClaimsMatchIntents

\* Vouchers: the entries' claims are new, their intents distinct and Attested.
LEMMA MatchVouchers ==
  ASSUME TypeOK, ClaimsMatchIntents, Vouchers
  PROVE  ClaimsMatchIntents'
<1> PICK who \in members, cs \in SUBSET ClaimIds :
           \E batch \in [cs -> Cover] : RequestBatchVouchers(who, batch)
  BY DEF Vouchers
<1> PICK batch \in [cs -> Cover] : RequestBatchVouchers(who, batch)
  OBVIOUS
<1> DEFINE bound == {batch[c].intent : c \in cs}
           rows == [c \in cs |-> [intent |-> batch[c].intent,
                                  ada |-> batch[c].ada, settled |-> FALSE]]
<1>1. /\ \A i \in bound : i \in DOMAIN intents /\ intents[i].status = "Attested"
      /\ intents' = SetStatus(bound, "Vouchered")
      /\ claims' = Put(claims, rows)
      /\ cs \cap DOMAIN claims = {}
  BY DEF RequestBatchVouchers
<1>2. /\ DOMAIN claims' = cs \cup DOMAIN claims
      /\ \A c \in cs : claims'[c] = rows[c]
      /\ \A c \in DOMAIN claims \ cs : claims'[c] = claims[c]
  BY <1>1 DEF Put
<1>3. \A c \in cs : rows[c].intent = batch[c].intent /\ rows[c].settled = FALSE
  OBVIOUS
<1>4. \A c, d \in cs : batch[c].intent = batch[d].intent => c = d
  <2>1. IsInjective([c \in cs |-> batch[c].intent])
    BY DEF RequestBatchVouchers, DistinctIntents
  <2> QED
    BY <2>1 DEF IsInjective
<1>5. /\ \A c \in cs : batch[c].intent \in bound
      /\ \A i \in bound : \E c \in cs : batch[c].intent = i
  OBVIOUS
<1>6. /\ DOMAIN intents' = DOMAIN intents
      /\ \A i \in DOMAIN intents :
           intents'[i].status = IF i \in bound THEN "Vouchered" ELSE intents[i].status
  BY <1>1, SetStatusMap DEF Statuses
<1> HIDE DEF bound, rows
<1>7. \A c \in DOMAIN claims : claims[c].intent \notin bound
  BY <1>1, LiveHasNoClaim DEF LiveIntents, Live
<1>8. \A c, d \in DOMAIN claims' : claims'[c].intent = claims'[d].intent => c = d
  BY <1>1, <1>2, <1>3, <1>4, <1>5, <1>7 DEF ClaimsMatchIntents
<1>9. ASSUME NEW c \in DOMAIN claims'
      PROVE  /\ claims'[c].intent \in DOMAIN intents'
             /\ intents'[claims'[c].intent].status \in
                  IF claims'[c].settled THEN {"Settled"} ELSE {"Vouchered", "Expired"}
  BY <1>1, <1>2, <1>3, <1>5, <1>6, <1>7 DEF ClaimsMatchIntents
<1>10. ASSUME NEW i \in DOMAIN intents', intents'[i].status \in {"Vouchered", "Settled"}
       PROVE  \E c \in DOMAIN claims' : claims'[c].intent = i
  <2>1. CASE i \in bound
    BY <1>2, <1>3, <1>5, <2>1
  <2>2. CASE i \notin bound
    BY <1>1, <1>2, <1>6, <1>10, <2>2 DEF ClaimsMatchIntents
  <2> QED
    BY <2>1, <2>2
<1> QED
  BY <1>8, <1>9, <1>10 DEF ClaimsMatchIntents

\* A settlement: the claims it settles were not settled, and no other claim
\* has their intents.
LEMMA MatchSettle ==
  ASSUME TypeOK, ClaimsMatchIntents, Settles
  PROVE  ClaimsMatchIntents'
<1> PICK cs \in SUBSET UnsettledClaims : SettleAttestedClaims(cs)
  BY DEF Settles
<1> DEFINE paid == {claims[c].intent : c \in cs}
<1>1. /\ intents' = SetStatus(paid, "Settled")
      /\ DOMAIN claims' = DOMAIN claims
      /\ \A c \in DOMAIN claims : claims'[c].intent = claims[c].intent
      /\ \A c \in cs : claims'[c].settled = TRUE
      /\ \A c \in DOMAIN claims \ cs : claims'[c] = claims[c]
  BY DEF SettleAttestedClaims, TypeOK, Claim, UnsettledClaims
<1>2. /\ cs \subseteq DOMAIN claims
      /\ \A c \in cs : claims[c].intent \in paid
      /\ \A i \in paid : \E c \in cs : claims[c].intent = i
  BY DEF UnsettledClaims
<1>3. /\ DOMAIN intents' = DOMAIN intents
      /\ \A i \in DOMAIN intents :
           intents'[i].status = IF i \in paid THEN "Settled" ELSE intents[i].status
  BY <1>1, SetStatusMap DEF Statuses
<1> HIDE DEF paid
<1>4. \A c \in DOMAIN claims : claims[c].intent \in paid => c \in cs
  BY <1>2 DEF ClaimsMatchIntents
<1>5. \A c, d \in DOMAIN claims' : claims'[c].intent = claims'[d].intent => c = d
  BY <1>1 DEF ClaimsMatchIntents
<1>6. ASSUME NEW c \in DOMAIN claims'
      PROVE  /\ claims'[c].intent \in DOMAIN intents'
             /\ intents'[claims'[c].intent].status \in
                  IF claims'[c].settled THEN {"Settled"} ELSE {"Vouchered", "Expired"}
  <2>1. CASE c \in cs
    <3>1. claims'[c].intent \in DOMAIN intents' /\ claims'[c].intent \in paid
      BY <1>1, <1>2, <1>3, <2>1 DEF ClaimsMatchIntents
    <3>2. intents'[claims'[c].intent].status = "Settled" /\ claims'[c].settled = TRUE
      BY <1>1, <1>2, <1>3, <2>1, <3>1
    <3> QED
      BY <3>1, <3>2
  <2>2. CASE c \notin cs
    <3>1. claims[c].intent \in DOMAIN intents /\ claims[c].intent \notin paid
      BY <1>1, <1>4, <2>2 DEF ClaimsMatchIntents
    <3>2. claims'[c] = claims[c]
      BY <1>1, <2>2
    <3> QED
      BY <1>1, <1>3, <3>1, <3>2 DEF ClaimsMatchIntents
  <2> QED
    BY <2>1, <2>2
<1>7. \A i \in DOMAIN intents' : intents'[i].status \in {"Vouchered", "Settled"} =>
         \E c \in DOMAIN claims' : claims'[c].intent = i
  BY <1>1, <1>2, <1>3 DEF ClaimsMatchIntents
<1> QED
  BY <1>5, <1>6, <1>7 DEF ClaimsMatchIntents

\* Every step keeps claims and intents matched.
LEMMA MatchStep ==
  TypeOK /\ IdsAreUsed /\ ClaimsMatchIntents /\ [Next]_vars => ClaimsMatchIntents'
<1> SUFFICES ASSUME TypeOK, IdsAreUsed, ClaimsMatchIntents, [Next]_vars
             PROVE  ClaimsMatchIntents'
  OBVIOUS
<1>1. CASE NextBlock
  <2>1. /\ intents' = SetStatus(SweptAt(block + 1), "Expired") /\ UNCHANGED claims
        /\ SweptAt(block + 1) \subseteq LiveIntents
    BY <1>1 DEF NextBlock, SweptAt
  <2>2. \A c \in DOMAIN claims : claims[c].intent \notin SweptAt(block + 1)
    BY <2>1, LiveHasNoClaim
  <2> QED
    BY <2>1, <2>2, OthersMove DEF Statuses
<1>2. CASE Submits
  BY <1>2, MatchSubmit
<1>3. CASE Attests \/ AttestsBatch
  <2> SUFFICES ASSUME NEW ids, ids \subseteq LiveIntents, UNCHANGED claims,
                      intents' = SetStatus(ids, "Attested")
               PROVE  ClaimsMatchIntents'
    <3>1. CASE Attests
      BY <1>3, <3>1 DEF Attests, AttestIntent, FreezeBundle, LiveIntents, Live,
                        ClaimsMatchIntents
    <3>2. CASE AttestsBatch
      BY <1>3, <3>2 DEF AttestsBatch, AttestBatchIntents, FreezeBundle
    <3> QED
      BY <1>3, <3>1, <3>2
  <2>1. \A c \in DOMAIN claims : claims[c].intent \notin ids
    BY LiveHasNoClaim
  <2> QED
    BY <2>1, OthersMove DEF Statuses
<1>4. CASE Vouchers
  BY <1>4, MatchVouchers
<1>5. CASE Expires
  <2> PICK who \in members, i \in DOMAIN intents : AttestExpirePolicy(who, i)
    BY <1>5 DEF Expires
  <2>1. CASE UNCHANGED intents
    BY <2>1 DEF AttestExpirePolicy, ClaimsMatchIntents
  <2>2. CASE Expirable(i) /\ intents' = SetStatus({i}, "Expired")
    <3>1. \A c \in DOMAIN claims : claims[c].intent = i => ~claims[c].settled
      BY <2>2 DEF Expirable, ClaimsMatchIntents
    <3>2. UNCHANGED claims
      BY DEF AttestExpirePolicy
    <3> QED
      BY <2>2, <3>1, <3>2, OthersMove DEF Statuses
  <2> QED
    BY <2>1, <2>2 DEF AttestExpirePolicy
<1>6. CASE Settles
  BY <1>6, MatchSettle
<1>7. CASE Quiet
  BY <1>7, QuietStep DEF ClaimsMatchIntents
<1> QED
  BY <1>1, <1>2, <1>3, <1>4, <1>5, <1>6, <1>7, StepCases

\* An intent backs at most one claim and settles with it and only then.
THEOREM ClaimsCorrect == Spec => []ClaimsMatchIntents
<1>1. Init => ClaimsMatchIntents
  BY DEF Init, ClaimsMatchIntents, NoRows
<1> QED
  BY <1>1, TypeCorrect, NonceCorrect, MatchStep, PTL DEF Spec

(***************************************************************************)
(* The lifecycle.                                                          *)
(***************************************************************************)
\* What StatusAdvances asks of one intent in one step.
Advanced(i) ==
  /\ i \in DOMAIN intents'
  /\ LET step == <<intents[i].status, intents'[i].status>>
     IN  \/ step[1] = step[2]
         \/ step \in Advances
         \/ step = <<"Expired", "Settled">> /\ HasClaim(i)

\* A status change advances the intents it reaches and stops at the others.
LEMMA MoveAdvances ==
  ASSUME TypeOK, NEW ids, NEW new \in Statuses, intents' = SetStatus(ids, new),
         \A i \in ids \cap DOMAIN intents :
            \/ <<intents[i].status, new>> \in Advances
            \/ intents[i].status = "Expired" /\ new = "Settled" /\ HasClaim(i)
  PROVE  \A i \in DOMAIN intents : Advanced(i)
<1>1. /\ DOMAIN intents' = DOMAIN intents
      /\ \A i \in DOMAIN intents :
           intents'[i].status = IF i \in ids THEN new ELSE intents[i].status
  BY SetStatusMap
<1> QED
  BY <1>1 DEF Advanced

\* Every step advances every intent.
LEMMA AdvanceStep ==
  ASSUME TypeOK, IdsAreUsed, ClaimsMatchIntents, [Next]_vars
  PROVE  \A i \in DOMAIN intents : Advanced(i)
<1>1. CASE NextBlock
  <2>1. /\ intents' = SetStatus(SweptAt(block + 1), "Expired")
        /\ \A i \in SweptAt(block + 1) : intents[i].status \in {"Pending", "Attested"}
    BY <1>1 DEF NextBlock, SweptAt, LiveIntents, Live
  <2> QED
    BY <2>1, MoveAdvances DEF Statuses, Advances
<1>2. CASE Submits
  <2> PICK who \in Accounts, kinds \in Seq(Kinds) : DoSubmitIntents(who, kinds)
    BY <1>2 DEF Submits
  <2>1. \A i \in DOMAIN intents : i \in DOMAIN intents' /\ intents'[i] = intents[i]
    BY SubmitEffect, NewIdsAreNew
  <2> QED
    BY <2>1 DEF Advanced
<1>3. CASE Attests \/ AttestsBatch
  <2>1. UNCHANGED intents
        \/ \E ids : /\ intents' = SetStatus(ids, "Attested")
                    /\ \A i \in ids : intents[i].status = "Pending"
    BY <1>3 DEF Attests, AttestIntent, AttestsBatch, AttestBatchIntents, FreezeBundle
  <2>2. CASE UNCHANGED intents
    BY <2>2 DEF Advanced
  <2>3. ASSUME NEW ids, intents' = SetStatus(ids, "Attested"),
               \A i \in ids : intents[i].status = "Pending"
        PROVE  \A i \in DOMAIN intents : Advanced(i)
    BY <2>3, MoveAdvances DEF Statuses, Advances
  <2> QED
    BY <2>1, <2>2, <2>3
<1>4. CASE Vouchers
  <2> PICK ids : /\ intents' = SetStatus(ids, "Vouchered")
                 /\ \A i \in ids : intents[i].status = "Attested"
    BY <1>4 DEF Vouchers, RequestBatchVouchers
  <2> QED
    BY MoveAdvances DEF Statuses, Advances
<1>5. CASE Expires
  <2> PICK who \in members, i \in DOMAIN intents : AttestExpirePolicy(who, i)
    BY <1>5 DEF Expires
  <2>1. CASE UNCHANGED intents
    BY <2>1 DEF Advanced
  <2>2. CASE Expirable(i) /\ intents' = SetStatus({i}, "Expired")
    <3>1. intents[i].status \in {"Pending", "Attested", "Vouchered"}
      BY <2>2 DEF Expirable, TypeOK, Intent, Statuses
    <3> QED
      BY <2>2, <3>1, MoveAdvances DEF Statuses, Advances
  <2> QED
    BY <2>1, <2>2 DEF AttestExpirePolicy
<1>6. CASE Settles
  <2> PICK cs \in SUBSET UnsettledClaims : SettleAttestedClaims(cs)
    BY <1>6 DEF Settles
  <2> DEFINE paid == {claims[c].intent : c \in cs}
  <2>1. \A c \in cs : /\ intents[claims[c].intent].status \in {"Vouchered", "Expired"}
                      /\ HasClaim(claims[c].intent)
    BY DEF UnsettledClaims, ClaimsMatchIntents, HasClaim
  <2>2. intents' = SetStatus(paid, "Settled")
    BY DEF SettleAttestedClaims
  <2>3. \A i \in paid : intents[i].status \in {"Vouchered", "Expired"} /\ HasClaim(i)
    BY <2>1
  <2> HIDE DEF paid
  <2> QED
    BY <2>2, <2>3, MoveAdvances DEF Statuses, Advances
<1>7. CASE Quiet
  BY <1>7, QuietStep DEF Advanced
<1> QED
  BY <1>1, <1>2, <1>3, <1>4, <1>5, <1>6, <1>7, StepCases

\* No call takes an intent back or out of a final status, and an intent whose
\* premium the sweep returned is never paid: out of Expired there is only the
\* settlement of a claim that was already there.
THEOREM StatusCorrect == Spec => StatusAdvances
<1>1. TypeOK /\ IdsAreUsed /\ ClaimsMatchIntents /\ [Next]_vars
        => [\A i \in DOMAIN intents :
              /\ i \in DOMAIN intents'
              /\ LET step == <<intents[i].status, intents'[i].status>>
                 IN  \/ step[1] = step[2]
                     \/ step \in Advances
                     \/ step = <<"Expired", "Settled">> /\ HasClaim(i)]_vars
  BY AdvanceStep DEF Advanced
<1> QED
  BY <1>1, TypeCorrect, NonceCorrect, ClaimsCorrect, PTL DEF Spec, StatusAdvances

(***************************************************************************)
(* Coverage.                                                               *)
(***************************************************************************)
\* What each claim id of a map of claims adds to the coverage.
CoverOf(map) ==
  [c \in ClaimIds |-> IF c \in DOMAIN map /\ ~map[c].settled THEN map[c].ada ELSE 0]

\* The coverage of a map of claims is a sum over all claim ids.
LEMMA CoverageSum ==
  ASSUME NEW map, IsMap(map, ClaimIds), \A c \in DOMAIN map : map[c] \in Claim
  PROVE  /\ SumFunctionOnSet([c \in DOMAIN map |-> map[c].ada],
                             {c \in DOMAIN map : ~map[c].settled})
              = SumFunctionOnSet(CoverOf(map), ClaimIds)
         /\ \A c \in ClaimIds : CoverOf(map)[c] \in Nat
<1> DEFINE ada == [c \in DOMAIN map |-> map[c].ada]
           open == {c \in DOMAIN map : ~map[c].settled}
           cover == CoverOf(map)
<1>1. open \in SUBSET ClaimIds /\ IsFiniteSet(ClaimIds) /\ IsFiniteSet(open)
  BY BoundsAssumption, FS_Subset DEF IsMap
<1>2. /\ \A c \in ClaimIds : cover[c] \in Nat
      /\ \A c \in ClaimIds \ open : cover[c] = 0
      /\ \A c \in open : ada[c] = cover[c] /\ ada[c] \in Nat
  BY DEF CoverOf, IsMap, Claim
<1> HIDE DEF ada, open, cover
<1>3. SumFunctionOnSet(cover, ClaimIds) = SumFunctionOnSet(cover, open)
  BY <1>1, <1>2, SumNonzero
<1>4. SumFunctionOnSet(ada, open) = SumFunctionOnSet(cover, open)
  BY <1>1, <1>2, SumAgree
<1> QED
  BY <1>2, <1>3, <1>4 DEF ada, open, cover

\* So the invariant is about that sum, before a step and after it.
LEMMA CoverageIs ==
  /\ TypeOK => (CoverageIsUnsettledClaims
                  <=> pool.outstanding = SumFunctionOnSet(CoverOf(claims), ClaimIds))
  /\ TypeOK' => (CoverageIsUnsettledClaims'
                  <=> pool.outstanding' = SumFunctionOnSet(CoverOf(claims'), ClaimIds))
<1>1. ASSUME TypeOK
      PROVE  CoverageIsUnsettledClaims
               <=> pool.outstanding = SumFunctionOnSet(CoverOf(claims), ClaimIds)
  <2>1. IsMap(claims, ClaimIds) /\ \A c \in DOMAIN claims : claims[c] \in Claim
    BY <1>1 DEF TypeOK
  <2> QED
    BY <2>1, CoverageSum DEF CoverageIsUnsettledClaims, UnsettledClaims
<1>2. ASSUME TypeOK'
      PROVE  CoverageIsUnsettledClaims'
               <=> pool.outstanding' = SumFunctionOnSet(CoverOf(claims'), ClaimIds)
  <2>1. IsMap(claims', ClaimIds) /\ \A c \in DOMAIN claims' : claims'[c] \in Claim
    BY <1>2 DEF TypeOK
  <2> QED
    BY <2>1, CoverageSum DEF CoverageIsUnsettledClaims, UnsettledClaims
<1> QED
  BY <1>1, <1>2

\* Where the claims of cs change, the sum changes by what they cover.
LEMMA CoverageMoves ==
  ASSUME TypeOK, TypeOK', NEW cs \in SUBSET ClaimIds,
         \A c \in ClaimIds \ cs : CoverOf(claims')[c] = CoverOf(claims)[c]
  PROVE  LET before == CoverOf(claims)
             after == CoverOf(claims')
         IN  /\ IsFiniteSet(cs)
             /\ SumFunctionOnSet(before, cs) \in 0 .. SumFunctionOnSet(before, ClaimIds)
             /\ SumFunctionOnSet(before, ClaimIds) \in Nat
             /\ SumFunctionOnSet(after, cs) \in Nat
             /\ SumFunctionOnSet(after, ClaimIds) =
                  SumFunctionOnSet(before, ClaimIds) - SumFunctionOnSet(before, cs)
                                                     + SumFunctionOnSet(after, cs)
<1> DEFINE before == CoverOf(claims)
           after == CoverOf(claims')
<1>1. IsFiniteSet(ClaimIds) /\ IsFiniteSet(cs)
  BY BoundsAssumption, FS_Subset
<1>2. /\ IsMap(claims, ClaimIds) /\ \A c \in DOMAIN claims : claims[c] \in Claim
      /\ IsMap(claims', ClaimIds) /\ \A c \in DOMAIN claims' : claims'[c] \in Claim
  BY DEF TypeOK
<1>3. \A c \in ClaimIds : before[c] \in Nat /\ after[c] \in Nat
  BY <1>2, CoverageSum
<1>4. \A c \in ClaimIds \ cs : before[c] = after[c]
  OBVIOUS
<1> HIDE DEF before, after
<1>5. SumFunctionOnSet(after, cs) \in Nat
  BY <1>1, <1>3, SumType
<1> QED
  BY <1>1, <1>3, <1>4, <1>5, SumMoves DEF before, after

\* A batch of vouchers covers what it adds to the counter.
LEMMA CoverageVouchers ==
  ASSUME TypeOK, TypeOK', CoverageIsUnsettledClaims, Vouchers
  PROVE  CoverageIsUnsettledClaims'
<1> PICK who \in members, cs \in SUBSET ClaimIds :
           \E batch \in [cs -> Cover] : RequestBatchVouchers(who, batch)
  BY DEF Vouchers
<1> PICK batch \in [cs -> Cover] : RequestBatchVouchers(who, batch)
  OBVIOUS
<1> DEFINE rows == [c \in cs |-> [intent |-> batch[c].intent,
                                  ada |-> batch[c].ada, settled |-> FALSE]]
           ada == [c \in cs |-> batch[c].ada]
           before == CoverOf(claims)
           after == CoverOf(claims')
<1>1. /\ claims' = Put(claims, rows)
      /\ cs \cap DOMAIN claims = {}
      /\ pool' = [pool EXCEPT !.outstanding = @ + SumFunction(ada)]
  BY DEF RequestBatchVouchers
<1>2. /\ DOMAIN claims' = cs \cup DOMAIN claims
      /\ \A c \in cs : claims'[c] = rows[c]
      /\ \A c \in DOMAIN claims \ cs : claims'[c] = claims[c]
  BY <1>1 DEF Put
<1>3. \A c \in cs : rows[c].settled = FALSE /\ rows[c].ada = ada[c] /\ ada[c] \in Nat
  <2>1. \A c \in cs : batch[c].ada \in 0 .. MaxAda
    BY ConstantsAssumption DEF Cover
  <2> QED
    BY <2>1, ConstantsAssumption
<1>4. DOMAIN ada = cs
  OBVIOUS
<1> HIDE DEF rows, ada
<1>5. /\ \A c \in ClaimIds \ cs : after[c] = before[c]
      /\ \A c \in cs : before[c] = 0 /\ after[c] = ada[c]
  BY <1>1, <1>2, <1>3 DEF CoverOf
<1>6. /\ IsFiniteSet(cs)
      /\ SumFunctionOnSet(after, ClaimIds) =
           SumFunctionOnSet(before, ClaimIds) - SumFunctionOnSet(before, cs)
                                              + SumFunctionOnSet(after, cs)
      /\ SumFunctionOnSet(before, ClaimIds) \in Nat
  BY <1>5, CoverageMoves
<1> HIDE DEF before, after
<1>7. SumFunctionOnSet(before, cs) = 0 * Cardinality(cs) /\ 0 * Cardinality(cs) = 0
  BY <1>5, <1>6, SumEqual, FS_CardinalityType
<1>8. SumFunctionOnSet(after, cs) = SumFunction(ada) /\ SumFunction(ada) \in Nat
  BY <1>3, <1>4, <1>5, <1>6, SumPadded
<1>9. pool.outstanding' = pool.outstanding + SumFunction(ada)
  BY <1>1 DEF TypeOK, PoolUtilizationParams
<1>10. pool.outstanding = SumFunctionOnSet(before, ClaimIds)
  BY CoverageIs DEF before
<1>11. pool.outstanding' = SumFunctionOnSet(after, ClaimIds)
  BY <1>6, <1>7, <1>8, <1>9, <1>10
<1> QED
  BY <1>11, CoverageIs DEF after

\* A settlement takes what its claims covered, which is never more than the
\* counter has: it does not saturate.
LEMMA CoverageSettles ==
  ASSUME TypeOK, TypeOK', CoverageIsUnsettledClaims, Settles
  PROVE  CoverageIsUnsettledClaims'
<1> PICK cs \in SUBSET UnsettledClaims : SettleAttestedClaims(cs)
  BY DEF Settles
<1> DEFINE ada == [c \in cs |-> claims[c].ada]
           before == CoverOf(claims)
           after == CoverOf(claims')
<1>1. /\ DOMAIN claims' = DOMAIN claims
      /\ \A c \in cs : claims'[c].settled = TRUE
      /\ \A c \in DOMAIN claims \ cs : claims'[c] = claims[c]
      /\ pool' = ReleaseCover(SumFunction(ada))
  BY DEF SettleAttestedClaims, TypeOK, Claim, UnsettledClaims
<1>2. cs \subseteq ClaimIds /\ \A c \in cs : c \in DOMAIN claims /\ ~claims[c].settled
  BY DEF UnsettledClaims, TypeOK, IsMap
<1>3. DOMAIN ada = cs /\ \A c \in cs : ada[c] = claims[c].ada /\ ada[c] \in Nat
  BY <1>2 DEF TypeOK, Claim
<1> HIDE DEF ada
<1>4. /\ \A c \in ClaimIds \ cs : after[c] = before[c]
      /\ \A c \in cs : after[c] = 0 /\ before[c] = ada[c]
  BY <1>1, <1>2, <1>3 DEF CoverOf
<1>5. /\ IsFiniteSet(cs)
      /\ SumFunctionOnSet(after, ClaimIds) =
           SumFunctionOnSet(before, ClaimIds) - SumFunctionOnSet(before, cs)
                                              + SumFunctionOnSet(after, cs)
      /\ SumFunctionOnSet(before, cs) \in 0 .. SumFunctionOnSet(before, ClaimIds)
      /\ SumFunctionOnSet(before, ClaimIds) \in Nat
  BY <1>2, <1>4, CoverageMoves
<1> HIDE DEF before, after
<1>6. SumFunctionOnSet(after, cs) = 0 * Cardinality(cs) /\ 0 * Cardinality(cs) = 0
  BY <1>4, <1>5, SumEqual, FS_CardinalityType
<1>7. SumFunctionOnSet(before, cs) = SumFunction(ada) /\ SumFunction(ada) \in Nat
  BY <1>3, <1>4, <1>5, SumPadded
<1>8. pool.outstanding' = SaturatingSub(pool.outstanding, SumFunction(ada))
  BY <1>1 DEF TypeOK, PoolUtilizationParams, ReleaseCover
<1>9. pool.outstanding = SumFunctionOnSet(before, ClaimIds)
  BY CoverageIs DEF before
<1>10. pool.outstanding' = SumFunctionOnSet(after, ClaimIds)
  BY <1>5, <1>6, <1>7, <1>8, <1>9 DEF SaturatingSub
<1> QED
  BY <1>10, CoverageIs DEF after

\* Root restates the cap and the fund, and leaves the coverage as it is.
RootKeepsCoverage ==
  \A params \in PoolInputs : SetPoolUtilization(params) => params.outstanding = pool.outstanding

\* Every other step moves coverage only with claims.
LEMMA CoverageStep ==
  ASSUME TypeOK, TypeOK', CoverageIsUnsettledClaims, [Next]_vars, RootKeepsCoverage
  PROVE  CoverageIsUnsettledClaims'
<1> SUFFICES ASSUME ~Vouchers, ~Settles
             PROVE  pool.outstanding' = pool.outstanding /\ UNCHANGED claims
  BY CoverageVouchers, CoverageSettles, CoverageIs
<1>1. CASE Quiet
  <2>1. CASE RootCall
    BY <2>1 DEF RootCall, SetPoolUtilization, SetMinSignerThreshold, RootKeepsCoverage
  <2>2. CASE \E who \in members, target \in Accounts, tx \in DepositTxs :
               CreditDeposit(who, target, tx)
    BY <2>2 DEF CreditDeposit, TypeOK, PoolUtilizationParams
  <2>3. CASE UNCHANGED <<pool, claims>>
    BY <2>3
  <2> QED
    BY <1>1, <2>1, <2>2, <2>3 DEF Quiet, RequestExpirePolicy, RotateCommittee, vars
<1>2. CASE NextBlock \/ Submits \/ Attests \/ AttestsBatch \/ Expires
  <2>1. UNCHANGED <<pool, claims>>
    BY <1>2 DEF NextBlock, Submits, DoSubmitIntents, Attests, AttestIntent, AttestsBatch,
                AttestBatchIntents, Expires, AttestExpirePolicy
  <2> QED
    BY <2>1
<1> QED
  BY <1>1, <1>2, StepCases

\* The coverage counter is exact as long as Root leaves it alone, from a
\* genesis that reports no coverage: no settle path, single or batch, releases
\* a claim's cover twice, forgets it, or drives the counter to its floor.
THEOREM CoverageCorrect ==
  GenesisPool.outstanding = 0 /\ Spec /\ [][RootKeepsCoverage]_vars
    => []CoverageIsUnsettledClaims
<1>1. GenesisPool.outstanding = 0 /\ Init => CoverageIsUnsettledClaims
  <2> SUFFICES ASSUME GenesisPool.outstanding = 0, Init PROVE CoverageIsUnsettledClaims
    OBVIOUS
  <2>1. \A c \in ClaimIds : CoverOf(claims)[c] = 0
    BY DEF Init, NoRows, CoverOf
  <2>2. SumFunctionOnSet(CoverOf(claims), ClaimIds) = 0 * Cardinality(ClaimIds)
        /\ 0 * Cardinality(ClaimIds) = 0
    BY <2>1, BoundsAssumption, SumEqual, FS_CardinalityType
  <2> QED
    BY <2>2, TypeInit, CoverageIs DEF Init
<1>2. TypeOK /\ TypeOK' /\ CoverageIsUnsettledClaims /\ [Next]_vars
        /\ [RootKeepsCoverage]_vars => CoverageIsUnsettledClaims'
  <2>1. CASE UNCHANGED vars
    BY <2>1 DEF vars, CoverageIsUnsettledClaims, UnsettledClaims
  <2> QED
    BY <2>1, CoverageStep
<1> QED
  BY <1>1, <1>2, TypeCorrect, PTL DEF Spec

(***************************************************************************)
(* Credit.                                                                 *)
(***************************************************************************)
\* The ids and the deposits an account may have, and what each counts for.
OwnIds(a) == {a} \X (0 .. MaxNonce - 1)

OwnDeposits(a) == {a} \X DepositTxs

Held(a) ==
  [i \in OwnIds(a) |->
     IF i \in DOMAIN intents /\ ~Returnable(i) THEN Debit(intents[i].kind) ELSE 0]

Paid(a) == [d \in OwnDeposits(a) |-> IF d \in deposits THEN DepositAda[d[2]] ELSE 0]

CreditOf(a) ==
  credits[a] + SumFunctionOnSet(Held(a), OwnIds(a))
    <= SumFunctionOnSet(Paid(a), OwnDeposits(a))

\* An account has finitely many of either.
LEMMA OwnAreFinite ==
  ASSUME NEW a PROVE IsFiniteSet(OwnIds(a)) /\ IsFiniteSet(OwnDeposits(a))
<1>1. IsFiniteSet(0 .. MaxNonce - 1) /\ IsFiniteSet(DepositTxs) /\ IsFiniteSet({a})
  <2>1. MaxNonce - 1 \in Int
    BY BoundsAssumption
  <2>2. IsFiniteSet(0 .. MaxNonce - 1)
    BY <2>1, FS_Interval
  <2>3. IsFiniteSet(DepositTxs)
    BY BoundsAssumption
  <2> QED
    BY <2>2, <2>3, FS_Singleton
<1> QED
  BY <1>1, FS_Product DEF OwnIds, OwnDeposits

\* The debits are amounts.
LEMMA HeldAmounts ==
  /\ TypeOK => \A a : \A i \in OwnIds(a) : Held(a)[i] \in Nat
  /\ TypeOK' => \A a : \A i \in OwnIds(a) : Held(a)'[i] \in Nat
<1>1. \A k \in Kinds : Debit(k) \in Nat
  BY ConstantsAssumption DEF Kind, Debit
<1>2. ASSUME TypeOK, NEW a, NEW i \in OwnIds(a) PROVE Held(a)[i] \in Nat
  BY <1>1, <1>2 DEF Held, TypeOK, Intent
<1>3. ASSUME TypeOK', NEW a, NEW i \in OwnIds(a) PROVE Held(a)'[i] \in Nat
  BY <1>1, <1>3 DEF Held, TypeOK, Intent
<1> QED
  BY <1>2, <1>3

\* So are the deposits.
LEMMA PaidAmounts ==
  ASSUME NEW a
  PROVE  \A d \in OwnDeposits(a) : Paid(a)[d] \in Nat /\ Paid(a)'[d] \in Nat
  BY ConstantsAssumption DEF Paid, OwnDeposits

\* The invariant says CreditOf of every account, before a step and after it.
LEMMA CreditIs ==
  /\ TypeOK => (CreditIsDeposited <=> \A a \in Accounts : CreditOf(a))
  /\ TypeOK' => (CreditIsDeposited' <=> \A a \in Accounts : CreditOf(a)')
<1>1. ASSUME TypeOK, NEW a \in Accounts
      PROVE  /\ SumFunction([i \in {j \in DOMAIN intents : j[1] = a /\ ~Returnable(j)} |->
                               Debit(intents[i].kind)])
                  = SumFunctionOnSet(Held(a), OwnIds(a))
             /\ SumFunction([d \in {e \in deposits : e[1] = a} |-> DepositAda[d[2]]])
                  = SumFunctionOnSet(Paid(a), OwnDeposits(a))
  <2> DEFINE held == [i \in {j \in DOMAIN intents : j[1] = a /\ ~Returnable(j)} |->
                        Debit(intents[i].kind)]
             paid == [d \in {e \in deposits : e[1] = a} |-> DepositAda[d[2]]]
  <2>1. /\ DOMAIN held \subseteq OwnIds(a)
        /\ \A i \in OwnIds(a) \ DOMAIN held : Held(a)[i] = 0
        /\ \A i \in DOMAIN held : held[i] = Held(a)[i]
    BY <1>1 DEF TypeOK, IsMap, IntentIds, OwnIds, Held
  <2>2. /\ DOMAIN paid \subseteq OwnDeposits(a)
        /\ \A d \in OwnDeposits(a) \ DOMAIN paid : Paid(a)[d] = 0
        /\ \A d \in DOMAIN paid : paid[d] = Paid(a)[d]
    BY <1>1 DEF TypeOK, OwnDeposits, Paid
  <2>3. (\A i \in OwnIds(a) : Held(a)[i] \in Nat) /\ \A d \in OwnDeposits(a) : Paid(a)[d] \in Nat
    BY <1>1, HeldAmounts, PaidAmounts
  <2> HIDE DEF held, paid
  <2>4. SumFunction(held) = SumFunctionOnSet(Held(a), OwnIds(a))
    BY <2>1, <2>3, OwnAreFinite, SumPadded
  <2>5. SumFunction(paid) = SumFunctionOnSet(Paid(a), OwnDeposits(a))
    BY <2>2, <2>3, OwnAreFinite, SumPadded
  <2> QED
    BY <2>4, <2>5 DEF held, paid
<1>2. ASSUME TypeOK', NEW a \in Accounts
      PROVE  /\ SumFunction([i \in {j \in DOMAIN intents' : j[1] = a /\ ~Returnable(j)'} |->
                               Debit(intents'[i].kind)])
                  = SumFunctionOnSet(Held(a)', OwnIds(a))
             /\ SumFunction([d \in {e \in deposits' : e[1] = a} |-> DepositAda[d[2]]])
                  = SumFunctionOnSet(Paid(a)', OwnDeposits(a))
  <2> DEFINE held == [i \in {j \in DOMAIN intents' : j[1] = a /\ ~Returnable(j)'} |->
                        Debit(intents'[i].kind)]
             paid == [d \in {e \in deposits' : e[1] = a} |-> DepositAda[d[2]]]
  <2>1. /\ DOMAIN held \subseteq OwnIds(a)
        /\ \A i \in OwnIds(a) \ DOMAIN held : Held(a)'[i] = 0
        /\ \A i \in DOMAIN held : held[i] = Held(a)'[i]
    BY <1>2 DEF TypeOK, IsMap, IntentIds, OwnIds, Held
  <2>2. /\ DOMAIN paid \subseteq OwnDeposits(a)
        /\ \A d \in OwnDeposits(a) \ DOMAIN paid : Paid(a)'[d] = 0
        /\ \A d \in DOMAIN paid : paid[d] = Paid(a)'[d]
    BY <1>2 DEF TypeOK, OwnDeposits, Paid
  <2>3. (\A i \in OwnIds(a) : Held(a)'[i] \in Nat)
        /\ \A d \in OwnDeposits(a) : Paid(a)'[d] \in Nat
    BY <1>2, HeldAmounts, PaidAmounts
  <2> HIDE DEF held, paid
  <2>4. SumFunction(held) = SumFunctionOnSet(Held(a)', OwnIds(a))
    BY <2>1, <2>3, OwnAreFinite, SumPadded
  <2>5. SumFunction(paid) = SumFunctionOnSet(Paid(a)', OwnDeposits(a))
    BY <2>2, <2>3, OwnAreFinite, SumPadded
  <2> QED
    BY <2>4, <2>5 DEF held, paid
<1> QED
  BY <1>1, <1>2 DEF CreditIsDeposited, CreditOf

\* A step that adds no intent holds on to no more than before: kinds do not
\* change, and what could be returned still can.
LEMMA HeldShrinks ==
  ASSUME TypeOK, ClaimsMatchIntents,
         NextBlock \/ Attests \/ AttestsBatch \/ Vouchers \/ Expires \/ Settles \/ Quiet
  PROVE  /\ DOMAIN intents' = DOMAIN intents
         /\ \A i \in DOMAIN intents : /\ intents'[i].kind = intents[i].kind
                                      /\ Returnable(i) => Returnable(i)'
<1>1. DOMAIN intents' = DOMAIN intents
  BY SameIds
<1>2. UNCHANGED intents \/ \E ids : \E new \in Statuses : intents' = SetStatus(ids, new)
  BY QuietStep DEF NextBlock, Attests, AttestIntent, AttestsBatch, AttestBatchIntents,
     FreezeBundle, Vouchers, RequestBatchVouchers, Expires, AttestExpirePolicy, Settles,
     SettleAttestedClaims, Statuses
<1>3. ASSUME NEW i \in DOMAIN intents PROVE intents'[i].kind = intents[i].kind
  BY <1>2, SetStatusMap
<1>4. ASSUME NEW i \in DOMAIN intents, Returnable(i)
      PROVE  intents'[i].status = "Expired" /\ ~HasClaim(i)'
  <2>1. intents[i].status = "Expired" /\ ~HasClaim(i)
    BY <1>4 DEF Returnable
  <2>2. CASE NextBlock \/ Attests \/ AttestsBatch \/ Expires \/ Quiet
    <3>1. UNCHANGED claims
      BY <2>2, QuietStep DEF NextBlock, Attests, AttestIntent, AttestsBatch,
         AttestBatchIntents, Expires, AttestExpirePolicy
    <3>2. intents'[i].status = "Expired"
      <4>1. CASE NextBlock
        BY <2>1, <4>1, SetStatusMap DEF NextBlock, SweptAt, LiveIntents, Live, Statuses
      <4>2. CASE Attests \/ AttestsBatch
        <5>1. UNCHANGED intents
              \/ \E ids : i \notin ids /\ intents' = SetStatus(ids, "Attested")
          <6>1. CASE Attests
            BY <2>1, <6>1 DEF Attests, AttestIntent, FreezeBundle
          <6>2. CASE AttestsBatch
            BY <2>1, <6>2 DEF AttestsBatch, AttestBatchIntents, FreezeBundle
          <6> QED
            BY <4>2, <6>1, <6>2
        <5> QED
          BY <2>1, <5>1, SetStatusMap DEF Statuses
      <4>3. CASE Expires
        BY <2>1, <4>3, SetStatusMap DEF Expires, AttestExpirePolicy, Statuses
      <4>4. CASE Quiet
        BY <2>1, <4>4, QuietStep
      <4> QED
        BY <2>2, <4>1, <4>2, <4>3, <4>4
    <3> QED
      BY <2>1, <3>1, <3>2 DEF HasClaim
  <2>3. CASE Vouchers
    <3> PICK who \in members, cs \in SUBSET ClaimIds :
               \E batch \in [cs -> Cover] : RequestBatchVouchers(who, batch)
      BY <2>3 DEF Vouchers
    <3> PICK batch \in [cs -> Cover] : RequestBatchVouchers(who, batch)
      OBVIOUS
    <3> DEFINE bound == {batch[c].intent : c \in cs}
               rows == [c \in cs |-> [intent |-> batch[c].intent,
                                      ada |-> batch[c].ada, settled |-> FALSE]]
    <3>1. /\ intents' = SetStatus(bound, "Vouchered")
          /\ \A j \in bound : intents[j].status = "Attested"
          /\ claims' = Put(claims, rows)
      BY DEF RequestBatchVouchers
    <3>2. \A c \in cs : rows[c].intent \in bound
      OBVIOUS
    <3> HIDE DEF bound, rows
    <3>3. i \notin bound
      BY <2>1, <3>1
    <3>4. \A c \in DOMAIN claims' : (c \in cs /\ claims'[c] = rows[c])
                                     \/ (c \in DOMAIN claims /\ claims'[c] = claims[c])
      BY <3>1 DEF Put, rows
    <3>5. intents'[i].status = "Expired"
      BY <2>1, <3>1, <3>3, SetStatusMap DEF Statuses
    <3> QED
      BY <2>1, <3>2, <3>3, <3>4, <3>5 DEF HasClaim
  <2>4. CASE Settles
    <3> PICK cs \in SUBSET UnsettledClaims : SettleAttestedClaims(cs)
      BY <2>4 DEF Settles
    <3> DEFINE paid == {claims[c].intent : c \in cs}
    <3>1. /\ intents' = SetStatus(paid, "Settled")
          /\ DOMAIN claims' = DOMAIN claims
          /\ \A c \in DOMAIN claims : claims'[c].intent = claims[c].intent
      BY DEF SettleAttestedClaims, TypeOK, Claim
    <3>2. i \notin paid
      BY <2>1 DEF HasClaim, UnsettledClaims
    <3> HIDE DEF paid
    <3>3. intents'[i].status = "Expired"
      BY <2>1, <3>1, <3>2, SetStatusMap DEF Statuses
    <3> QED
      BY <2>1, <3>1, <3>3 DEF HasClaim
  <2> QED
    BY <2>2, <2>3, <2>4
<1> QED
  BY <1>1, <1>3, <1>4 DEF Returnable, Refund

\* Then each account's debits sum to no more than before.
LEMMA HeldSumShrinks ==
  ASSUME TypeOK, TypeOK', ClaimsMatchIntents, NEW a,
         NextBlock \/ Attests \/ AttestsBatch \/ Vouchers \/ Expires \/ Settles \/ Quiet
  PROVE  /\ SumFunctionOnSet(Held(a)', OwnIds(a)) <= SumFunctionOnSet(Held(a), OwnIds(a))
         /\ SumFunctionOnSet(Held(a)', OwnIds(a)) \in Nat
         /\ SumFunctionOnSet(Held(a), OwnIds(a)) \in Nat
<1>1. \A i \in OwnIds(a) : Held(a)[i] \in Nat /\ Held(a)'[i] \in Nat
  BY HeldAmounts
<1>2. ASSUME NEW i \in OwnIds(a) PROVE Held(a)'[i] = Held(a)[i] \/ Held(a)'[i] = 0
  BY HeldShrinks DEF Held
<1>3. \A i \in OwnIds(a) : Held(a)'[i] <= Held(a)[i]
  BY <1>1, <1>2
<1> QED
  BY <1>1, <1>3, OwnAreFinite, SumMonotone, SumType

\* A step that touches neither credits nor deposits keeps each account covered.
LEMMA CreditIdle ==
  ASSUME TypeOK, TypeOK', ClaimsMatchIntents, CreditIsDeposited, UNCHANGED <<credits, deposits>>,
         Attests \/ AttestsBatch \/ Vouchers \/ Expires \/ Settles \/ Quiet
  PROVE  CreditIsDeposited'
<1> SUFFICES ASSUME NEW a \in Accounts PROVE CreditOf(a)'
  BY CreditIs
<1>1. CreditOf(a) /\ Paid(a)' = Paid(a) /\ credits'[a] = credits[a] /\ credits[a] \in Nat
  BY CreditIs DEF Paid, TypeOK
<1>2. SumFunctionOnSet(Paid(a), OwnDeposits(a)) \in Nat
  BY OwnAreFinite, PaidAmounts, SumType
<1> QED
  BY <1>1, <1>2, HeldSumShrinks DEF CreditOf

\* The sweep: the premium an account gets back is no longer held against it.
LEMMA CreditSwept ==
  ASSUME TypeOK, TypeOK', ClaimsMatchIntents, CreditIsDeposited, NextBlock
  PROVE  CreditIsDeposited'
<1> SUFFICES ASSUME NEW a \in Accounts PROVE CreditOf(a)'
  BY CreditIs
<1> DEFINE swept == SweptAt(block + 1)
           his == [i \in {j \in swept : j[1] = a} |-> Refund(i)]
           back == [i \in OwnIds(a) |-> IF i \in swept THEN Refund(i) ELSE 0]
           before == Held(a)
           after == Held(a)'
<1>1. /\ swept \subseteq LiveIntents
      /\ intents' = SetStatus(swept, "Expired")
      /\ credits'[a] = SaturatingAdd(credits[a], SumFunction(his))
      /\ UNCHANGED <<claims, deposits>>
  BY DEF NextBlock, SweptAt
<1>2. ASSUME NEW i \in OwnIds(a)
      PROVE  before[i] = after[i] + back[i] /\ back[i] \in Nat /\ after[i] \in Nat
  <2>1. before[i] \in Nat /\ after[i] \in Nat
    BY HeldAmounts
  <2>2. CASE i \in swept
    <3>1. /\ i \in DOMAIN intents /\ intents[i].status \in Live /\ i \in DOMAIN intents'
          /\ intents'[i].status = "Expired" /\ intents'[i].kind = intents[i].kind
          /\ intents[i].kind \in Kind
      <4>1. i \in DOMAIN intents /\ intents[i].status \in Live
        BY <1>1, <2>2 DEF LiveIntents
      <4>2. i \in DOMAIN intents' /\ intents'[i].status = "Expired"
            /\ intents'[i].kind = intents[i].kind
        BY <1>1, <2>2, <4>1, SetStatusMap DEF Statuses
      <4>3. intents[i].kind \in Kind
        BY <4>1, ConstantsAssumption DEF TypeOK, Intent
      <4> QED
        BY <4>1, <4>2, <4>3
    <3>2. ~HasClaim(i) /\ (HasClaim(i)' <=> HasClaim(i))
      BY <1>1, <3>1 DEF HasClaim, ClaimsMatchIntents, Live
    <3>3. Refund(i) \in Nat /\ Refund(i)' = Refund(i)
          /\ (Refund(i) > 0 => Refund(i) = Debit(intents[i].kind))
      BY <3>1, ConstantsAssumption DEF Refund, Debit, Kind
    <3>4. ~Returnable(i) /\ (Returnable(i)' <=> Refund(i) > 0)
      BY <3>1, <3>2, <3>3 DEF Returnable, Live
    <3>5. before[i] = Debit(intents[i].kind) /\ back[i] = Refund(i)
          /\ after[i] = IF Refund(i) > 0 THEN 0 ELSE Debit(intents[i].kind)
      BY <2>2, <3>1, <3>4 DEF Held
    <3> QED
      BY <2>1, <3>3, <3>5
  <2>3. CASE i \notin swept
    <3>1. /\ DOMAIN intents' = DOMAIN intents
          /\ i \in DOMAIN intents => /\ intents'[i].kind = intents[i].kind
                                     /\ intents'[i].status = intents[i].status
      BY <1>1, <2>3, SetStatusMap DEF Statuses
    <3>2. i \in DOMAIN intents => (Returnable(i)' <=> Returnable(i))
      BY <1>1, <3>1 DEF Returnable, Refund, HasClaim
    <3>3. before[i] = after[i] /\ back[i] = 0
      BY <2>3, <3>1, <3>2 DEF Held
    <3> QED
      BY <2>1, <3>3
  <2> QED
    BY <2>2, <2>3
<1>3. /\ DOMAIN his \subseteq OwnIds(a)
      /\ \A i \in DOMAIN his : his[i] = back[i]
      /\ \A i \in OwnIds(a) \ DOMAIN his : back[i] = 0
  BY <1>1 DEF LiveIntents, TypeOK, IsMap, IntentIds, OwnIds
<1>4. CreditOf(a) /\ UNCHANGED Paid(a) /\ credits[a] \in Nat /\ MaxAda \in Nat
  BY <1>1, CreditIs, ConstantsAssumption DEF Paid, TypeOK
<1>5. SumFunctionOnSet(Paid(a), OwnDeposits(a)) \in Nat
  BY OwnAreFinite, PaidAmounts, SumType
<1> HIDE DEF his, back, before, after
<1>6. SumFunctionOnSet(before, OwnIds(a)) =
        SumFunctionOnSet(after, OwnIds(a)) + SumFunctionOnSet(back, OwnIds(a))
  BY <1>2, OwnAreFinite, SumPlus
<1>7. /\ SumFunction(his) = SumFunctionOnSet(back, OwnIds(a))
      /\ SumFunction(his) \in Nat
  BY <1>2, <1>3, OwnAreFinite, SumPadded
<1>8. SumFunctionOnSet(after, OwnIds(a)) \in Nat
  BY <1>2, OwnAreFinite, SumType
<1>9. credits'[a] <= credits[a] + SumFunction(his) /\ credits'[a] \in Nat
  BY <1>1, <1>4, <1>7 DEF SaturatingAdd
<1>10. credits[a] + SumFunctionOnSet(before, OwnIds(a))
         <= SumFunctionOnSet(Paid(a), OwnDeposits(a))
  BY <1>4 DEF CreditOf, before
<1>11. credits'[a] + SumFunctionOnSet(after, OwnIds(a))
         <= SumFunctionOnSet(Paid(a), OwnDeposits(a))
  BY <1>4, <1>5, <1>6, <1>7, <1>8, <1>9, <1>10
<1> QED
  BY <1>4, <1>11 DEF CreditOf, after

\* A submission: what leaves the credit is what the new intents hold.
LEMMA CreditSubmits ==
  ASSUME TypeOK, TypeOK', IdsAreUsed, CreditIsDeposited, Submits
  PROVE  CreditIsDeposited'
<1> PICK who \in Accounts, kinds \in Seq(Kinds) : DoSubmitIntents(who, kinds)
  BY DEF Submits
<1> SUFFICES ASSUME NEW a \in Accounts PROVE CreditOf(a)'
  BY CreditIs
<1> DEFINE n == Len(kinds)
           new == NewIds(who, kinds)
           debit == [k \in 1 .. n |-> Debit(kinds[k])]
           before == Held(a)
           after == Held(a)'
<1>1. /\ DOMAIN intents' = DOMAIN intents \cup new
      /\ \A i \in new : intents'[i].status = "Pending"
      /\ \A i \in DOMAIN intents \ new : intents'[i] = intents[i]
      /\ UNCHANGED claims
      /\ new \cap DOMAIN intents = {}
  BY SubmitEffect, NewIdsAreNew
<1>2. /\ SumFunction(debit) \in 0 .. credits[who]
      /\ credits' = [credits EXCEPT ![who] = @ - SumFunction(debit)]
      /\ UNCHANGED deposits
  BY DEF DoSubmitIntents
<1>3. n \in Nat /\ nonces[who] \in Nat /\ IsFiniteSet(1 .. n) /\ nonces[who] + n <= MaxNonce
      /\ MaxNonce \in Nat
  BY BoundsAssumption, FS_Interval DEF TypeOK, DoSubmitIntents
<1>4. \A i \in OwnIds(a) : before[i] \in Nat /\ after[i] \in Nat
  BY HeldAmounts
<1>5. ASSUME NEW i \in OwnIds(a) \ new PROVE before[i] = after[i]
  <2>1. i \in DOMAIN intents' <=> i \in DOMAIN intents
    BY <1>1
  <2>2. i \in DOMAIN intents => (Returnable(i)' <=> Returnable(i))
    BY <1>1, <1>5 DEF Returnable, Refund, HasClaim
  <2> QED
    BY <1>1, <1>5, <2>1, <2>2 DEF Held
<1>6. CreditOf(a) /\ UNCHANGED Paid(a) /\ credits[a] \in Nat
  <2>1. CreditOf(a)
    BY CreditIs
  <2>2. UNCHANGED Paid(a)
    BY <1>2 DEF Paid
  <2>3. credits[a] \in Nat
    BY DEF TypeOK
  <2> QED
    BY <2>1, <2>2, <2>3
<1>7. SumFunctionOnSet(Paid(a), OwnDeposits(a)) \in Nat
  BY OwnAreFinite, PaidAmounts, SumType
<1>8. CASE a # who
  <2>1. OwnIds(a) \ new = OwnIds(a)
    BY <1>8 DEF OwnIds, NewIds
  <2>2. credits'[a] = credits[a]
    BY <1>2, <1>8 DEF TypeOK
  <2> HIDE DEF before, after, new
  <2>3. \A i \in OwnIds(a) : before[i] = after[i] /\ before[i] \in Nat
    BY <1>4, <1>5, <2>1
  <2>4. SumFunctionOnSet(before, OwnIds(a)) = SumFunctionOnSet(after, OwnIds(a))
    BY <2>3, OwnAreFinite, SumAgree
  <2> QED
    BY <1>6, <2>2, <2>4 DEF CreditOf, before, after
<1>9. CASE a = who
  <2> DEFINE to == [k \in 1 .. n |-> <<who, nonces[who] + k - 1>>]
  <2>1. new = {to[k] : k \in 1 .. n}
    BY DEF NewIds
  <2>2. new \in SUBSET OwnIds(a)
    BY <1>3, <1>9 DEF NewIds, OwnIds
  <2>3. ASSUME NEW k \in 1 .. n
        PROVE  debit[k] \in Nat /\ after[to[k]] = debit[k] /\ before[to[k]] = 0
    <3>1. kinds[k] \in Kinds /\ Debit(kinds[k]) \in Nat
      BY ConstantsAssumption DEF Kind, Debit
    <3>2. to[k] \in new /\ to[k] \in OwnIds(a)
      BY <2>1, <2>2
    <3>3. intents'[to[k]].kind = kinds[k]
      BY <1>3 DEF DoSubmitIntents, Put
    <3> DEFINE i == to[k]
    <3> HIDE DEF new, i
    <3>4. i \in new /\ i \in OwnIds(a) /\ intents'[i].kind = kinds[k]
      BY <3>2, <3>3 DEF i
    <3>5. intents'[i].status = "Pending" /\ i \in DOMAIN intents' /\ i \notin DOMAIN intents
      BY <1>1, <3>4
    <3>6. after[i] = Debit(kinds[k]) /\ before[i] = 0
      BY <3>4, <3>5 DEF Held, Returnable
    <3> QED
      BY <3>1, <3>6 DEF i
  <2>4. \A k, l \in 1 .. n : to[k] = to[l] => k = l
    BY <1>3
  <2>5. DOMAIN debit = 1 .. n
    OBVIOUS
  <2>6. IsFiniteSet(new)
    BY <2>2, OwnAreFinite, FS_Subset
  <2> HIDE DEF before, after, new, debit, to, n
  <2>7. SumFunctionOnSet(after, new) = SumFunctionOnSet(debit, 1 .. n)
    <3>1. IsFiniteSet({to[k] : k \in 1 .. n}) /\ IsFiniteSet(1 .. n)
      BY <1>3, <2>1, <2>6
    <3>2. \A k \in 1 .. n : debit[k] \in Nat /\ after[to[k]] = debit[k]
      BY <2>3
    <3> DEFINE places == 1 .. n
    <3>3. /\ IsFiniteSet({to[k] : k \in places}) /\ IsFiniteSet(places)
          /\ \A k, l \in places : to[k] = to[l] => k = l
          /\ \A k \in places : debit[k] \in Nat /\ after[to[k]] = debit[k]
      BY <2>4, <3>1, <3>2
    <3> HIDE DEF places
    <3>4. SumFunctionOnSet(after, {to[k] : k \in places}) = SumFunctionOnSet(debit, places)
      BY <3>3, SumImage
    <3> QED
      BY <2>1, <3>4 DEF places
  <2>8. SumFunctionOnSet(debit, 1 .. n) = SumFunction(debit)
    BY <1>3, <2>3, <2>5, SumOfMap
  <2>9. SumFunctionOnSet(before, new) = 0
    <3>1. \A i \in new : before[i] = 0
      BY <2>1, <2>3
    <3>2. SumFunctionOnSet(before, new) = 0 * Cardinality(new)
      BY <2>6, <3>1, SumEqual
    <3> QED
      BY <2>6, <3>2, FS_CardinalityType
  <2>10. /\ SumFunctionOnSet(before, OwnIds(a)) \in Nat
         /\ SumFunctionOnSet(after, OwnIds(a)) =
              SumFunctionOnSet(before, OwnIds(a)) - SumFunctionOnSet(before, new)
                                                  + SumFunctionOnSet(after, new)
    BY <1>4, <1>5, <2>2, OwnAreFinite, SumMoves
  <2>11. credits'[a] = credits[a] - SumFunction(debit) /\ SumFunction(debit) \in Nat
    BY <1>2, <1>9 DEF TypeOK
  <2>12. credits'[a] + SumFunctionOnSet(after, OwnIds(a))
           = credits[a] + SumFunctionOnSet(before, OwnIds(a))
    BY <1>6, <2>7, <2>8, <2>9, <2>10, <2>11
  <2> QED
    BY <1>6, <2>12 DEF CreditOf, before, after
<1> QED
  BY <1>8, <1>9

\* A deposit credits at most what the transaction paid, once.
LEMMA CreditDeposits ==
  ASSUME TypeOK, TypeOK', ClaimsMatchIntents, CreditIsDeposited,
         NEW who \in members, NEW target \in Accounts, NEW tx \in DepositTxs,
         CreditDeposit(who, target, tx)
  PROVE  CreditIsDeposited'
<1> SUFFICES ASSUME NEW a \in Accounts PROVE CreditOf(a)'
  BY CreditIs
<1>1. /\ <<target, tx>> \notin deposits /\ deposits' = deposits \cup {<<target, tx>>}
      /\ credits' = [credits EXCEPT ![target] = SaturatingAdd(@, DepositAda[tx])]
      /\ UNCHANGED <<intents, claims>>
  BY DEF CreditDeposit
<1>2. UNCHANGED Held(a)
  BY <1>1 DEF Held, Returnable, Refund, HasClaim
<1>3. CreditOf(a) /\ credits[a] \in Nat /\ DepositAda[tx] \in Nat /\ MaxAda \in Nat
  BY CreditIs, ConstantsAssumption DEF TypeOK
<1>4. SumFunctionOnSet(Held(a), OwnIds(a)) \in Nat
  BY OwnAreFinite, HeldAmounts, SumType
<1> DEFINE before == Paid(a)
           after == Paid(a)'
           d == <<target, tx>>
<1>5. \A e \in OwnDeposits(a) : before[e] \in Nat /\ after[e] \in Nat
  BY PaidAmounts
<1>6. \A e \in OwnDeposits(a) \ {d} : before[e] = after[e]
  BY <1>1 DEF Paid
<1>7. CASE a # target
  <2>1. credits'[a] = credits[a]
    BY <1>1, <1>7 DEF TypeOK
  <2>2. \A e \in OwnDeposits(a) : before[e] = after[e] /\ before[e] \in Nat
    BY <1>5, <1>6, <1>7 DEF OwnDeposits
  <2> HIDE DEF before, after
  <2>3. SumFunctionOnSet(before, OwnDeposits(a)) = SumFunctionOnSet(after, OwnDeposits(a))
    BY <2>2, OwnAreFinite, SumAgree
  <2> QED
    BY <1>2, <1>3, <2>1, <2>3 DEF CreditOf, before, after
<1>8. CASE a = target
  <2>1. credits'[a] <= credits[a] + DepositAda[tx] /\ credits'[a] \in Nat
    BY <1>1, <1>3, <1>8 DEF TypeOK, SaturatingAdd
  <2>2. d \in OwnDeposits(a) /\ before[d] = 0 /\ after[d] = DepositAda[tx]
    BY <1>1, <1>8 DEF OwnDeposits, Paid
  <2> HIDE DEF before, after, d
  <2>3. {d} \in SUBSET OwnDeposits(a)
    BY <2>2
  <2>4. SumFunctionOnSet(before, {d}) = 0 /\ SumFunctionOnSet(after, {d}) = DepositAda[tx]
    <3>1. before[d] \in Nat /\ after[d] \in Nat
      BY <1>5, <2>2
    <3>2. /\ SumFunctionOnSet(before, {d}) = before[d]
          /\ SumFunctionOnSet(after, {d}) = after[d]
      BY <3>1, SumSingle
    <3> QED
      BY <2>2, <3>2
  <2>5. /\ SumFunctionOnSet(before, OwnDeposits(a)) \in Nat
        /\ SumFunctionOnSet(after, OwnDeposits(a)) =
             SumFunctionOnSet(before, OwnDeposits(a)) - SumFunctionOnSet(before, {d})
                                                      + SumFunctionOnSet(after, {d})
    BY <1>5, <1>6, <2>3, OwnAreFinite, SumMoves
  <2>6. SumFunctionOnSet(after, OwnDeposits(a)) =
          SumFunctionOnSet(before, OwnDeposits(a)) + DepositAda[tx]
    BY <1>3, <2>4, <2>5
  <2>7. credits[a] + SumFunctionOnSet(Held(a), OwnIds(a))
          <= SumFunctionOnSet(before, OwnDeposits(a))
    BY <1>3 DEF CreditOf, before
  <2>8. credits'[a] + SumFunctionOnSet(Held(a), OwnIds(a))
          <= SumFunctionOnSet(after, OwnDeposits(a))
    BY <1>3, <1>4, <2>1, <2>5, <2>6, <2>7
  <2> QED
    BY <1>2, <2>8 DEF CreditOf, after
<1> QED
  BY <1>7, <1>8

\* Every step keeps each account covered by its deposits.
LEMMA CreditStep ==
  ASSUME TypeOK, TypeOK', IdsAreUsed, ClaimsMatchIntents, CreditIsDeposited, [Next]_vars
  PROVE  CreditIsDeposited'
<1>1. CASE Attests \/ AttestsBatch \/ Vouchers \/ Expires \/ Settles
  <2>1. UNCHANGED <<credits, deposits>>
    BY <1>1 DEF Attests, AttestIntent, AttestsBatch, AttestBatchIntents, Vouchers,
       RequestBatchVouchers, Expires, AttestExpirePolicy, Settles, SettleAttestedClaims
  <2> QED
    BY <1>1, <2>1, CreditIdle
<1>2. CASE Quiet
  <2>1. CASE \E who \in members, target \in Accounts, tx \in DepositTxs :
               CreditDeposit(who, target, tx)
    BY <2>1, CreditDeposits
  <2>2. CASE UNCHANGED <<credits, deposits>>
    BY <1>2, <2>2, CreditIdle
  <2> QED
    BY <1>2, <2>1, <2>2 DEF Quiet, RequestExpirePolicy, RootCall, SetPoolUtilization,
       SetMinSignerThreshold, RotateCommittee, vars
<1> QED
  BY <1>1, <1>2, CreditSwept, CreditSubmits, StepCases

\* No call creates credit: in every reachable state an account's credit and
\* the debits not returned to it are within its deposits, so no premium comes
\* back twice or after its claim, and no deposit counts twice.
THEOREM CreditCorrect == Spec => []CreditIsDeposited
<1>1. Init => CreditIsDeposited
  <2> SUFFICES ASSUME Init, NEW a \in Accounts PROVE CreditOf(a)
    BY TypeInit, CreditIs
  <2>1. credits[a] = 0 /\ \A i \in OwnIds(a) : Held(a)[i] = 0
    BY DEF Init, NoRows, Held
  <2>2. SumFunctionOnSet(Held(a), OwnIds(a)) = 0 * Cardinality(OwnIds(a))
        /\ 0 * Cardinality(OwnIds(a)) = 0
    BY <2>1, OwnAreFinite, SumEqual, FS_CardinalityType
  <2>3. SumFunctionOnSet(Paid(a), OwnDeposits(a)) \in Nat
    BY OwnAreFinite, PaidAmounts, SumType
  <2> QED
    BY <2>1, <2>2, <2>3 DEF CreditOf
<1> QED
  BY <1>1, CreditStep, TypeCorrect, NonceCorrect, ClaimsCorrect, PTL DEF Spec

(***************************************************************************)
(* Partial bundles.                                                        *)
(***************************************************************************)
\* Bundles are finite, and an id without an intent has none.  A Pending intent
\* starts with the bundle its id had, so PendingIsBelowThreshold is not
\* inductive without the second.
PartialInv ==
  /\ PendingIsBelowThreshold
  /\ \A i \in IntentIds : IsFiniteSet(pendingAttestations[i])
  /\ \A i \in IntentIds \ DOMAIN intents : pendingAttestations[i] = {}
  /\ threshold > 0

\* A step that adds no signature and hands out no Pending status keeps
\* partial bundles below the threshold, unless it lowers that.
LEMMA PartialStays ==
  ASSUME TypeOK, TypeOK', PartialInv, threshold' >= threshold,
         DOMAIN intents' = DOMAIN intents,
         \A i \in IntentIds : \/ pendingAttestations'[i] = pendingAttestations[i]
                              \/ pendingAttestations'[i] = {},
         \A i \in DOMAIN intents : intents'[i].status = "Pending" =>
                                     intents[i].status = "Pending"
  PROVE  PartialInv'
<1>1. /\ IsFiniteSet({}) /\ Cardinality({}) = 0
      /\ threshold \in Nat /\ threshold' \in Nat /\ DOMAIN intents \subseteq IntentIds
  BY FS_EmptySet DEF TypeOK, IsMap
<1>2. \A i \in IntentIds : Cardinality(pendingAttestations[i]) \in Nat
  BY FS_CardinalityType DEF PartialInv
<1>3. \A i \in IntentIds : IsFiniteSet(pendingAttestations'[i])
  BY <1>1 DEF PartialInv
<1>4. \A i \in IntentIds \ DOMAIN intents' : pendingAttestations'[i] = {}
  BY <1>1 DEF PartialInv
<1>5. threshold > 0
  BY DEF PartialInv
<1>6. ASSUME NEW i \in DOMAIN intents', intents'[i].status = "Pending"
      PROVE  Cardinality(pendingAttestations'[i]) < threshold'
  <2>1. i \in IntentIds /\ Cardinality(pendingAttestations[i]) < threshold
    BY <1>1, <1>6 DEF PartialInv, PendingIsBelowThreshold
  <2>2. CASE pendingAttestations'[i] = pendingAttestations[i]
    BY <1>1, <1>2, <2>1, <2>2
  <2>3. CASE pendingAttestations'[i] = {}
    BY <1>1, <1>5, <2>3
  <2> QED
    BY <2>1, <2>2, <2>3
<1> QED
  BY <1>1, <1>3, <1>4, <1>5, <1>6 DEF PartialInv, PendingIsBelowThreshold

\* One more signature either reaches the threshold, and the intent is Attested,
\* or stays below it.
LEMMA PartialAttest ==
  ASSUME TypeOK, TypeOK', PartialInv, Attests
  PROVE  PartialInv'
<1> PICK who \in members, i \in DOMAIN intents : AttestIntent(who, i)
  BY DEF Attests
<1> DEFINE bundle == pendingAttestations[i] \cup {who}
<1>1. i \in IntentIds /\ UNCHANGED threshold /\ threshold \in Nat
  BY DEF AttestIntent, TypeOK, IsMap
<1>2. CASE FreezeBundle({i}, bundle)
  <2>1. /\ DOMAIN intents' = DOMAIN intents
        /\ \A j \in DOMAIN intents :
             intents'[j].status = IF j \in {i} THEN "Attested" ELSE intents[j].status
    BY <1>2, SetStatusMap DEF FreezeBundle, Statuses
  <2>2. \A j \in IntentIds : \/ pendingAttestations'[j] = pendingAttestations[j]
                             \/ pendingAttestations'[j] = {}
    BY <1>2 DEF FreezeBundle
  <2> QED
    BY <1>1, <2>1, <2>2, PartialStays
<1>3. CASE /\ ~Reached(bundle)
           /\ pendingAttestations' = [pendingAttestations EXCEPT ![i] = bundle]
           /\ UNCHANGED intents
  <2>1. IsFiniteSet(bundle) /\ Cardinality(bundle) \in Nat
    BY <1>1, FS_AddElement, FS_CardinalityType DEF PartialInv
  <2>2. Cardinality(bundle) < threshold
    BY <1>1, <1>3, <2>1 DEF Reached
  <2>3. pendingAttestations'[i] = bundle
        /\ \A j \in IntentIds \ {i} : pendingAttestations'[j] = pendingAttestations[j]
    BY <1>1, <1>3 DEF TypeOK
  <2>4. DOMAIN intents \subseteq IntentIds
    BY DEF TypeOK, IsMap
  <2> HIDE DEF bundle
  <2> QED
    BY <1>1, <1>3, <2>1, <2>2, <2>3, <2>4 DEF PartialInv, PendingIsBelowThreshold
<1> QED
  BY <1>2, <1>3 DEF AttestIntent

\* A submission starts with empty bundles.
LEMMA PartialSubmits ==
  ASSUME TypeOK, TypeOK', IdsAreUsed, PartialInv, Submits
  PROVE  PartialInv'
<1> PICK who \in Accounts, kinds \in Seq(Kinds) : DoSubmitIntents(who, kinds)
  BY DEF Submits
<1> DEFINE new == NewIds(who, kinds)
<1>1. /\ DOMAIN intents' = DOMAIN intents \cup new
      /\ \A i \in DOMAIN intents \ new : intents'[i] = intents[i]
      /\ UNCHANGED pendingAttestations
      /\ new \cap DOMAIN intents = {}
  BY SubmitEffect, NewIdsAreNew
<1>2. UNCHANGED threshold /\ threshold \in Nat
  BY DEF DoSubmitIntents, TypeOK
<1>3. new \subseteq IntentIds
  BY <1>1 DEF TypeOK, IsMap
<1>4. Cardinality({}) = 0
  BY FS_EmptySet
<1> HIDE DEF new
<1> QED
  BY <1>1, <1>2, <1>3, <1>4 DEF PartialInv, PendingIsBelowThreshold

\* Every step that does not lower the threshold keeps partial bundles below it.
LEMMA PartialStep ==
  ASSUME TypeOK, TypeOK', IdsAreUsed, PartialInv, [Next]_vars, threshold' >= threshold
  PROVE  PartialInv'
<1>1. CASE NextBlock \/ Vouchers \/ Expires \/ Settles \/ Quiet
  <2>1. UNCHANGED pendingAttestations
    BY <1>1, QuietStep DEF NextBlock, Vouchers, RequestBatchVouchers, Expires,
       AttestExpirePolicy, Settles, SettleAttestedClaims
  <2>2. UNCHANGED intents
        \/ \E ids : \E new \in Statuses \ {"Pending"} : intents' = SetStatus(ids, new)
    BY <1>1, QuietStep DEF NextBlock, Vouchers, RequestBatchVouchers, Expires,
       AttestExpirePolicy, Settles, SettleAttestedClaims, Statuses
  <2>3. /\ DOMAIN intents' = DOMAIN intents
        /\ \A i \in DOMAIN intents : intents'[i].status = "Pending" =>
                                       intents[i].status = "Pending"
    BY <2>2, SetStatusMap
  <2> QED
    BY <2>1, <2>3, PartialStays
<1>2. CASE AttestsBatch
  <2> PICK ids, sigs : FreezeBundle(ids, sigs)
    BY <1>2 DEF AttestsBatch, AttestBatchIntents
  <2>1. /\ DOMAIN intents' = DOMAIN intents
        /\ \A i \in DOMAIN intents : intents'[i].status = "Pending" =>
                                       intents[i].status = "Pending"
    BY SetStatusMap DEF FreezeBundle, Statuses
  <2>2. \A j \in IntentIds : \/ pendingAttestations'[j] = pendingAttestations[j]
                             \/ pendingAttestations'[j] = {}
    BY DEF FreezeBundle
  <2> QED
    BY <2>1, <2>2, PartialStays
<1> QED
  BY <1>1, <1>2, PartialAttest, PartialSubmits, StepCases

\* While no rotation lowers the committee's threshold, a Pending intent never
\* sits with a bundle that reaches it: no complete bundle goes unnoticed.
THEOREM PartialCorrect ==
  Spec /\ [][threshold' >= threshold]_vars => []PendingIsBelowThreshold
<1>1. Init => PartialInv
  <2> SUFFICES ASSUME Init PROVE PartialInv
    OBVIOUS
  <2>1. IsFiniteSet({}) /\ FirstCommittee.threshold \in Nat \ {0}
    BY FS_EmptySet, ConstantsAssumption DEF Committee
  <2> QED
    BY <2>1 DEF Init, PartialInv, PendingIsBelowThreshold, NoRows
<1>2. TypeOK /\ TypeOK' /\ IdsAreUsed /\ PartialInv /\ [Next]_vars
        /\ [threshold' >= threshold]_vars => PartialInv'
  <2>1. CASE UNCHANGED vars
    BY <2>1 DEF vars, PartialInv, PendingIsBelowThreshold
  <2> QED
    BY <2>1, PartialStep
<1>3. PartialInv => PendingIsBelowThreshold
  BY DEF PartialInv
<1> QED
  BY <1>1, <1>2, <1>3, TypeCorrect, NonceCorrect, PTL DEF Spec

(***************************************************************************)
(* The expiry queue.                                                       *)
(***************************************************************************)
\* A submission finds room in the queue of its block.
QueueHasRoom ==
  \A who \in Accounts, kinds \in Seq(Kinds) :
     DoSubmitIntents(who, kinds) =>
       Cardinality(expiryQueue[block + IntentTTL]) + Len(kinds) <= MaxExpirePerBlock

QueueInv ==
  /\ LiveIntentIsQueued
  /\ \A b \in Blocks : IsFiniteSet(expiryQueue[b])

\* Where the block and the queue stay, so does what is queued, for intents that
\* were live before and kept their TTL.
LEMMA QueueStays ==
  ASSUME TypeOK, QueueInv, UNCHANGED <<block, expiryQueue>>,
         LiveIntents' \subseteq LiveIntents,
         \A i \in LiveIntents' : intents'[i].ttlBlock = intents[i].ttlBlock
  PROVE  QueueInv'
  BY DEF QueueInv, LiveIntentIsQueued

\* A new intent is queued for the block its TTL ends in.
LEMMA QueueSubmits ==
  ASSUME TypeOK, TypeOK', IdsAreUsed, QueueInv, QueueHasRoom, Submits
  PROVE  QueueInv'
<1> PICK who \in Accounts, kinds \in Seq(Kinds) : DoSubmitIntents(who, kinds)
  BY DEF Submits
<1> DEFINE n == Len(kinds)
           new == NewIds(who, kinds)
           end == block + IntentTTL
           first == <<who, nonces[who]>>
<1>1. /\ DOMAIN intents' = DOMAIN intents \cup new
      /\ \A i \in DOMAIN intents \ new : intents'[i] = intents[i]
  BY SubmitEffect
<1>2. /\ \A i \in new : intents'[i].ttlBlock = end
      /\ expiryQueue' = [expiryQueue EXCEPT ![end] = Enqueue(@, first, n)]
      /\ UNCHANGED block
      /\ end <= Horizon
  BY DEF DoSubmitIntents, NewIds, Put
<1>3. /\ end \in Blocks /\ end > block /\ block \in Nat
      /\ n \in Nat /\ MaxExpirePerBlock \in Nat /\ nonces[who] \in Nat /\ IsFiniteSet(1 .. n)
  <2>1. n \in Nat /\ MaxExpirePerBlock \in Nat /\ nonces[who] \in Nat /\ block \in Blocks
    BY BoundsAssumption DEF TypeOK
  <2>2. IntentTTL \in Nat \ {0} /\ Horizon \in Nat
    BY BoundsAssumption
  <2>3. end \in Blocks /\ end > block /\ block \in Nat
    BY <1>2, <2>1, <2>2 DEF Blocks
  <2>4. IsFiniteSet(1 .. n)
    BY <2>1, FS_Interval
  <2> QED
    BY <2>1, <2>3, <2>4
<1>4. Cardinality(expiryQueue[end]) + n <= MaxExpirePerBlock
      /\ Cardinality(expiryQueue[end]) \in Nat /\ IsFiniteSet(expiryQueue[end])
  BY <1>3, FS_CardinalityType DEF QueueHasRoom, QueueInv
<1>5. expiryQueue'[end] = expiryQueue[end] \cup new
  <2>1. Enqueue(expiryQueue[end], first, n) = expiryQueue[end] \cup new
    <3>1. {j \in 1 .. n : j <= MaxExpirePerBlock - Cardinality(expiryQueue[end])} = 1 .. n
      BY <1>3, <1>4
    <3> QED
      BY <3>1 DEF Enqueue, NewIds
  <2> QED
    BY <1>2, <1>3, <2>1 DEF TypeOK
<1>6. \A b \in Blocks \ {end} : expiryQueue'[b] = expiryQueue[b]
  BY <1>2 DEF TypeOK
<1>7. IsFiniteSet(new)
  <2>1. new \subseteq {who} \X (0 .. MaxNonce - 1)
    BY <1>1 DEF TypeOK, IsMap, IntentIds, NewIds
  <2> QED
    BY <2>1, OwnAreFinite, FS_Subset DEF OwnIds
<1>8. \A b \in Blocks : IsFiniteSet(expiryQueue'[b])
  <2>1. IsFiniteSet(expiryQueue[end] \cup new)
    BY <1>4, <1>7, FS_Union
  <2>2. IsFiniteSet(expiryQueue'[end])
    BY <1>5, <2>1, Zenon
  <2> QED
    BY <1>6, <2>2 DEF QueueInv
<1>9. ASSUME NEW i \in LiveIntents'
      PROVE  intents'[i].ttlBlock > block' /\ i \in expiryQueue'[intents'[i].ttlBlock]
  <2>1. CASE i \in new
    BY <1>2, <1>3, <1>5, <2>1
  <2>2. CASE i \notin new
    <3>1. i \in LiveIntents /\ intents'[i] = intents[i]
      BY <1>1, <2>2 DEF LiveIntents
    <3>2. intents[i].ttlBlock > block /\ i \in expiryQueue[intents[i].ttlBlock]
          /\ intents[i].ttlBlock \in Blocks
      BY <3>1 DEF QueueInv, LiveIntentIsQueued, LiveIntents, TypeOK, Intent
    <3> QED
      BY <1>2, <1>5, <1>6, <3>1, <3>2
  <2> QED
    BY <2>1, <2>2
<1> QED
  BY <1>8, <1>9 DEF QueueInv, LiveIntentIsQueued

\* The sweep empties the queue of the block it opens and ends the wait of
\* every live intent in it.
LEMMA QueueSwept ==
  ASSUME TypeOK, TypeOK', QueueInv, NextBlock
  PROVE  QueueInv'
<1> DEFINE n == block + 1
<1>1. /\ block' = n /\ intents' = SetStatus(SweptAt(n), "Expired")
      /\ expiryQueue' = [expiryQueue EXCEPT ![n] = {}]
  BY DEF NextBlock
<1>2. block \in Nat /\ n \in Blocks
  BY <1>1, BoundsAssumption DEF TypeOK, Blocks
<1>3. \A b \in Blocks : IsFiniteSet(expiryQueue'[b])
  BY <1>1, <1>2, FS_EmptySet DEF TypeOK, QueueInv
<1>4. ASSUME NEW i \in LiveIntents'
      PROVE  intents'[i].ttlBlock > block' /\ i \in expiryQueue'[intents'[i].ttlBlock]
  <2>1. i \in LiveIntents /\ i \notin SweptAt(n)
    BY <1>1, LiveAfter DEF Statuses, Live
  <2>2. intents'[i].ttlBlock = intents[i].ttlBlock /\ intents[i].ttlBlock \in Blocks
    <3>1. i \in DOMAIN intents
      BY <2>1 DEF LiveIntents
    <3>2. intents'[i].ttlBlock = intents[i].ttlBlock
      BY <1>1, <3>1, SetStatusMap DEF Statuses
    <3> QED
      BY <3>1, <3>2 DEF TypeOK, Intent
  <2>3. intents[i].ttlBlock > block /\ i \in expiryQueue[intents[i].ttlBlock]
    BY <2>1 DEF QueueInv, LiveIntentIsQueued
  <2>4. intents[i].ttlBlock # n
    BY <2>1, <2>3 DEF SweptAt
  <2> QED
    BY <1>1, <1>2, <2>2, <2>3, <2>4 DEF TypeOK, Blocks
<1> QED
  BY <1>3, <1>4 DEF QueueInv, LiveIntentIsQueued

\* Every step keeps the live intents queued.
LEMMA QueueStep ==
  ASSUME TypeOK, TypeOK', IdsAreUsed, QueueInv, [Next]_vars, QueueHasRoom
  PROVE  QueueInv'
<1>1. CASE Attests \/ AttestsBatch
  <2>1. UNCHANGED <<block, expiryQueue>>
    BY <1>1 DEF Attests, AttestIntent, AttestsBatch, AttestBatchIntents
  <2>2. UNCHANGED intents
        \/ \E ids \in SUBSET LiveIntents : intents' = SetStatus(ids, "Attested")
    <3>1. CASE Attests
      <4> PICK who \in members, i \in DOMAIN intents : AttestIntent(who, i)
        BY <3>1 DEF Attests
      <4>1. {i} \subseteq LiveIntents
        BY DEF AttestIntent, LiveIntents, Live
      <4> QED
        BY <4>1 DEF AttestIntent, FreezeBundle
    <3>2. CASE AttestsBatch
      BY <3>2 DEF AttestsBatch, AttestBatchIntents, FreezeBundle
    <3> QED
      BY <1>1, <3>1, <3>2
  <2>3. LiveIntents' = LiveIntents
    BY <2>2, LiveAfter DEF LiveIntents, Statuses, Live
  <2>4. \A i \in LiveIntents' : intents'[i].ttlBlock = intents[i].ttlBlock
    BY <2>2, <2>3, SetStatusMap DEF LiveIntents, Statuses
  <2> QED
    BY <2>1, <2>3, <2>4, QueueStays
<1>2. CASE Vouchers \/ Expires \/ Settles \/ Quiet
  <2>1. UNCHANGED <<block, expiryQueue>>
    BY <1>2 DEF Vouchers, RequestBatchVouchers, Expires, AttestExpirePolicy, Settles,
       SettleAttestedClaims, Quiet, RequestExpirePolicy, CreditDeposit, RootCall,
       SetPoolUtilization, SetMinSignerThreshold, RotateCommittee, vars
  <2>2. UNCHANGED intents
        \/ \E ids : \E new \in Statuses \ Live : intents' = SetStatus(ids, new)
    BY <1>2, QuietStep DEF Vouchers, RequestBatchVouchers, Expires, AttestExpirePolicy,
       Settles, SettleAttestedClaims, Statuses, Live
  <2>3. LiveIntents' \subseteq LiveIntents
    BY <2>2, LiveAfter DEF LiveIntents
  <2>4. \A i \in LiveIntents' : intents'[i].ttlBlock = intents[i].ttlBlock
    BY <2>2, <2>3, SetStatusMap DEF LiveIntents
  <2> QED
    BY <2>1, <2>3, <2>4, QueueStays
<1> QED
  BY <1>1, <1>2, QueueSubmits, QueueSwept, StepCases

\* As long as every submission finds room in the expiry queue, a live intent is
\* ahead of its sweep and in the queue of that block: none outlives its TTL.
THEOREM QueueCorrect == Spec /\ [][QueueHasRoom]_vars => []LiveIntentIsQueued
<1>1. Init => QueueInv
  BY FS_EmptySet DEF Init, QueueInv, LiveIntentIsQueued, LiveIntents, NoRows
<1>2. TypeOK /\ TypeOK' /\ IdsAreUsed /\ QueueInv /\ [Next]_vars /\ [QueueHasRoom]_vars
        => QueueInv'
  <2>1. CASE UNCHANGED vars
    BY <2>1 DEF vars, QueueInv, LiveIntentIsQueued, LiveIntents
  <2> QED
    BY <2>1, QueueStep
<1>3. QueueInv => LiveIntentIsQueued
  BY DEF QueueInv
<1> QED
  BY <1>1, <1>2, <1>3, TypeCorrect, NonceCorrect, PTL DEF Spec

=============================================================================
