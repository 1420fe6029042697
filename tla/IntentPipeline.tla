--------------------------- MODULE IntentPipeline ---------------------------
(***************************************************************************)
(* The intent half of pallet-intent-settlement: a user spends credit on an *)
(* intent, the committee attests it and mints a voucher, and the intent    *)
(* ends settled, swept at its TTL, or expired on Cardano evidence.         *)
(*                                                                         *)
(* One action is one dispatched extrinsic or hook.  FRAME runs them one at *)
(* a time and rolls back a call that returns an error, so a call that      *)
(* fails is not a step.  The interleaving is of whole calls by many        *)
(* origins, in any order.  The conditions under which a claim settles are  *)
(* in IntentSettlement; here SettleAttestedClaims may happen at any time.  *)
(***************************************************************************)
EXTENDS Integers, Sequences, FiniteSets, Maps

CONSTANTS
  Accounts,             \* origins that hold credit and submit intents
  Keys,                 \* committee public keys, each with its one account
  ClaimIds,             \* claim ids the keepers pick
  Kinds,                \* intent kinds, records [type, ada]
  CoverAmounts,         \* amounts a voucher may carry
  DepositTxs,           \* Cardano deposit transactions
  DepositAda,           \* the ADA each of them paid
  Committees,           \* committees the governance pallet may install
  FirstCommittee,       \* the one of them in place at genesis
  MinSignerInputs,      \* values Root passes to set_min_signer_threshold
  PoolInputs,           \* values Root passes to set_pool_utilization
  GenesisPool,          \* PoolUtilization of the genesis config
  DefaultMinSignerThreshold,
  IntentTTL,
  SettlementRequestTtl,
  MaxPendingBatches,
  MaxExpirePerBlock,
  MaxCommittee,
  BpsScale,             \* 10_000 in the code
  U32Modulus,           \* 2^32 in the code
  MaxAda,               \* u64::MAX in the code
  MaxNonce,             \* bound: intents one account submits
  MaxBatch,             \* bound: entries of one batch call
  Horizon               \* bound: the last block

KindTypes == {"BuyPolicy", "RequestPayout", "RefundCredit", "PerpAction"}

Kind == [type : KindTypes, ada : 0 .. MaxAda]

PoolUtilizationParams ==
  [capBps : Nat, nav : 0 .. MaxAda, outstanding : 0 .. MaxAda]

\* A key may hold two of the seats that the threshold is held against (see
\* CommitteeGovernance), so there may be fewer keys than the threshold asks.
Committee == [members : SUBSET Keys, threshold : Nat \ {0}]

\* The constants are of the types the storage declares.
ASSUME ConstantsAssumption ==
  /\ Kinds \subseteq Kind
  /\ CoverAmounts \subseteq 0 .. MaxAda
  /\ DepositAda \in [DepositTxs -> 0 .. MaxAda]
  /\ Committees \subseteq Committee
  /\ FirstCommittee \in Committees
  /\ MinSignerInputs \subseteq Nat
  /\ PoolInputs \subseteq PoolUtilizationParams
  /\ GenesisPool \in PoolUtilizationParams
  /\ MaxAda \in Nat

\* The bounds and the Config values that every runtime sets above zero.  Claim
\* ids and transaction ids are hashes of fixed width.
ASSUME BoundsAssumption ==
  /\ IsFiniteSet(ClaimIds) /\ IsFiniteSet(DepositTxs)
  /\ {DefaultMinSignerThreshold, SettlementRequestTtl, MaxPendingBatches,
      MaxExpirePerBlock, MaxCommittee, MaxNonce, MaxBatch} \subseteq Nat
  /\ {IntentTTL, BpsScale, U32Modulus, Horizon} \subseteq Nat \ {0}

VARIABLES
  block,                \* frame_system block number
  nonces,               \* Nonces
  intents,              \* Intents, a map of [kind, ttlBlock, status]
  pendingBatches,       \* PendingBatches, the index of live intents
  expiryQueue,          \* ExpiryQueue, per block
  pendingAttestations,  \* PendingAttestations: signers so far
  attestationSigs,      \* AttestationSigs: signers of the frozen bundle
  credits,              \* Credits
  pool,                 \* PoolUtilization
  deposits,             \* ProcessedDeposits, a set of <<target, tx>>
  claims,               \* Claims and Vouchers, a map of [intent, ada, settled]
  expireRequests,       \* PolicyExpireRequests: block each was submitted in
  members,              \* committee-governance Members
  threshold,            \* committee-governance threshold
  minSignerThreshold    \* MinSignerThreshold

intentVars == <<nonces, intents, pendingBatches, expiryQueue>>
attestVars == <<pendingAttestations, attestationSigs>>
moneyVars == <<credits, pool, deposits>>
committeeVars == <<members, threshold, minSignerThreshold>>
vars == <<block, intentVars, attestVars, moneyVars, claims, expireRequests,
          committeeVars>>

(***************************************************************************)
(* An IntentId hashes (submitter, nonce, kind, block); the nonce makes it  *)
(* unique, so the pair <<submitter, nonce>> stands for it.                 *)
(***************************************************************************)
IntentIds == Accounts \X (0 .. MaxNonce - 1)

Statuses == {"Pending", "Attested", "Vouchered", "Settled", "Expired"}

Live == {"Pending", "Attested"}

Blocks == 1 .. Horizon

Intent == [kind : Kinds, ttlBlock : Blocks, status : Statuses]

Claim == [intent : IntentIds, ada : 0 .. MaxAda, settled : BOOLEAN]

LiveIntents == {i \in DOMAIN intents : intents[i].status \in Live}

UnsettledClaims == {c \in DOMAIN claims : ~claims[c].settled}

SaturatingAdd(x, y) == IF x + y > MaxAda THEN MaxAda ELSE x + y

\* Faulty variant, a plausible slip: plain subtraction.
SaturatingSub_Plain(x, y) == x - y

SaturatingSub(x, y) == IF y > x THEN 0 ELSE x - y

(***************************************************************************)
(* Type invariant.                                                         *)
(***************************************************************************)
TypeOK ==
  /\ block \in Blocks
  /\ nonces \in [Accounts -> 0 .. MaxNonce]
  /\ IsMap(intents, IntentIds) /\ \A i \in DOMAIN intents : intents[i] \in Intent
  /\ pendingBatches \subseteq IntentIds
  /\ expiryQueue \in [Blocks -> SUBSET IntentIds]
  /\ pendingAttestations \in [IntentIds -> SUBSET Keys]
  /\ attestationSigs \in [IntentIds -> SUBSET Keys]
  /\ credits \in [Accounts -> 0 .. MaxAda]
  /\ pool \in PoolUtilizationParams
  /\ deposits \subseteq Accounts \X DepositTxs
  /\ IsMap(claims, ClaimIds) /\ \A c \in DOMAIN claims : claims[c] \in Claim
  /\ IsMap(expireRequests, IntentIds)
  /\ \A i \in DOMAIN expireRequests : expireRequests[i] \in Blocks
  /\ members \subseteq Keys
  /\ threshold \in Nat
  /\ minSignerThreshold \in Nat

Init ==
  /\ block = 1
  /\ nonces = [a \in Accounts |-> 0]
  /\ intents = NoRows
  /\ pendingBatches = {}
  /\ expiryQueue = [b \in Blocks |-> {}]
  /\ pendingAttestations = [i \in IntentIds |-> {}]
  /\ attestationSigs = [i \in IntentIds |-> {}]
  /\ credits = [a \in Accounts |-> 0]
  /\ pool = GenesisPool
  /\ deposits = {}
  /\ claims = NoRows
  /\ expireRequests = NoRows
  /\ members = FirstCommittee.members
  /\ threshold = FirstCommittee.threshold
  /\ minSignerThreshold = DefaultMinSignerThreshold

(***************************************************************************)
(* verify_threshold_signatures.  The signers are a set of keys: a repeated *)
(* key and a signature that does not verify are errors.  Any member may    *)
(* sign any payload at any time, the least the pallet may assume of the    *)
(* committee.                                                              *)
(***************************************************************************)
\* Faulty variant: an unset storage value read as it is.
EffectiveThreshold_Unset == 1

EffectiveThreshold ==
  LET base == IF minSignerThreshold = 0 THEN DefaultMinSignerThreshold
                                        ELSE minSignerThreshold
  IN  IF base > 1 THEN base ELSE 1

ThresholdSignatures(who, sigs) ==
  /\ who \in sigs
  /\ sigs \subseteq members
  /\ Cardinality(sigs) \in EffectiveThreshold .. MaxCommittee

\* Some bundle that carries a call of who exists.
CommitteeSigned(who) == \E sigs \in SUBSET members : ThresholdSignatures(who, sigs)

(***************************************************************************)
(* remove_from_pending_batches, for the ids of a call.                     *)
(***************************************************************************)
\* Faulty variant: only the first id of a batch leaves the index.
RemoveFromPendingBatches_First(ids) ==
  pendingBatches' = pendingBatches \ {i \in ids : i = CHOOSE j \in ids : TRUE}

RemoveFromPendingBatches(ids) == pendingBatches' = pendingBatches \ ids

SetStatus(ids, new) ==
  [i \in DOMAIN intents |->
     IF i \in ids THEN [intents[i] EXCEPT !.status = new] ELSE intents[i]]

(***************************************************************************)
(* do_submit_intent, run for each entry of a call: submit_intent and       *)
(* request_credit_refund pass one, submit_batch_intents several, and a     *)
(* failing entry undoes them all.  The entries debit one account and leave *)
(* the pool alone, so their checks add up: the credit covers the total,    *)
(* each premium is under the cap, and the index has room for all.  (That   *)
(* total bounds the batch's premium sum, so the sum cannot overflow.)      *)
(***************************************************************************)
Debit(k) == IF k.type \in {"BuyPolicy", "RefundCredit"} THEN k.ada ELSE 0

UtilizationBps(premium) ==
  LET nav == IF pool.nav = 0 THEN 1 ELSE pool.nav
      proposed == SaturatingAdd(pool.outstanding, premium)
  IN  ((proposed * BpsScale) \div nav) % U32Modulus   \* the cast "as u32"

WithinCap(k) == k.type = "BuyPolicy" => UtilizationBps(k.ada) <= pool.capBps

\* Faulty variant: off by one at the bound.
Enqueue_OneShort(queue, first, n) ==
  LET room == MaxExpirePerBlock - Cardinality(queue)
  IN  queue \cup {<<first[1], first[2] + k - 1>> : k \in {j \in 1 .. n : j < room}}

\* The new ids that the bounded queue still takes; the rest are dropped.
Enqueue(queue, first, n) ==
  LET room == MaxExpirePerBlock - Cardinality(queue)
  IN  queue \cup {<<first[1], first[2] + k - 1>> : k \in {j \in 1 .. n : j <= room}}

DoSubmitIntents(who, kinds) ==
  LET n == Len(kinds)
      first == <<who, nonces[who]>>
      new == {<<who, nonces[who] + k - 1>> : k \in 1 .. n}
      ttlBlock == block + IntentTTL
      debit == SumFunction([k \in 1 .. n |-> Debit(kinds[k])])
  IN  /\ nonces[who] + n <= MaxNonce
      /\ ttlBlock <= Horizon
      /\ debit \in 0 .. credits[who]
      /\ \A k \in 1 .. n : WithinCap(kinds[k])
      /\ Cardinality(pendingBatches) + n <= MaxPendingBatches
      /\ credits' = [credits EXCEPT ![who] = @ - debit]
      /\ intents' = Put(intents, [i \in new |-> [kind |-> kinds[i[2] - nonces[who] + 1],
                                                 ttlBlock |-> ttlBlock,
                                                 status |-> "Pending"]])
      /\ nonces' = [nonces EXCEPT ![who] = @ + n]
      /\ pendingBatches' = pendingBatches \cup new
      /\ expiryQueue' = [expiryQueue EXCEPT ![ttlBlock] = Enqueue(@, first, n)]
      /\ UNCHANGED <<block, attestVars, pool, deposits, claims, expireRequests,
                     committeeVars>>

SubmitIntent(who, kind) == DoSubmitIntents(who, <<kind>>)

RequestCreditRefund(who, kind) ==
  kind.type = "RefundCredit" /\ DoSubmitIntents(who, <<kind>>)

SubmitBatchIntents(who, kinds) == Len(kinds) > 0 /\ DoSubmitIntents(who, kinds)

(***************************************************************************)
(* Pending -> Attested, the bundle frozen and the partial one dropped.     *)
(***************************************************************************)
\* Faulty variant: the partial bundle stays behind.
FreezeBundle_KeepsPartial(ids, sigs) ==
  /\ intents' = SetStatus(ids, "Attested")
  /\ attestationSigs' =
       [i \in IntentIds |-> IF i \in ids THEN sigs ELSE attestationSigs[i]]
  /\ UNCHANGED pendingAttestations

FreezeBundle(ids, sigs) ==
  /\ intents' = SetStatus(ids, "Attested")
  /\ attestationSigs' =
       [i \in IntentIds |-> IF i \in ids THEN sigs ELSE attestationSigs[i]]
  /\ pendingAttestations' =
       [i \in IntentIds |-> IF i \in ids THEN {} ELSE pendingAttestations[i]]

\* Faulty variant: one signature too many is waited for.
Reached_Above(bundle) == Cardinality(bundle) > threshold

Reached(bundle) == Cardinality(bundle) >= threshold

\* attest_intent: one member adds one signature; the committee's own
\* threshold decides.  On an intent that is not Pending the call changes nothing.
AttestIntent(who, i) ==
  LET bundle == pendingAttestations[i] \cup {who}
  IN  /\ who \in members
      /\ i \in DOMAIN intents
      /\ intents[i].status = "Pending"
      /\ who \notin pendingAttestations[i]
      /\ Cardinality(bundle) <= MaxCommittee
      /\ \/ /\ Reached(bundle)
            /\ FreezeBundle({i}, bundle)
         \/ /\ ~Reached(bundle)
            /\ pendingAttestations' = [pendingAttestations EXCEPT ![i] = bundle]
            /\ UNCHANGED <<intents, attestationSigs>>
      /\ UNCHANGED <<block, nonces, pendingBatches, expiryQueue, moneyVars, claims,
                     expireRequests, committeeVars>>

\* attest_batch_intents: one bundle for the batch, over the pallet's own
\* floor.  Entries already Attested are skipped.
AttestBatchIntents(who, sigs, batch) ==
  LET pending == {i \in batch : intents[i].status = "Pending"}
  IN  /\ who \in members
      /\ batch \subseteq LiveIntents
      /\ pending # {}
      /\ ThresholdSignatures(who, sigs)
      /\ FreezeBundle(pending, sigs)
      /\ UNCHANGED <<block, nonces, pendingBatches, expiryQueue, moneyVars, claims,
                     expireRequests, committeeVars>>

(***************************************************************************)
(* request_batch_vouchers, of which request_voucher is the batch of one:   *)
(* fresh distinct claim ids (the domain of the batch), each on an intent   *)
(* Attested when its entry is reached, so no intent twice.  Fairness       *)
(* proofs and digests that do not check are refused without a change.      *)
(***************************************************************************)
\* Faulty variant: entries checked against the state before the call.
DistinctIntents_Unchecked(batch) == TRUE

DistinctIntents(batch) == IsInjective([c \in DOMAIN batch |-> batch[c].intent])

RequestBatchVouchers(who, batch) ==
  LET bound == {batch[c].intent : c \in DOMAIN batch}
      amount == SumFunction([c \in DOMAIN batch |-> batch[c].ada])
  IN  /\ who \in members
      /\ DOMAIN batch # {}
      /\ DOMAIN batch \cap DOMAIN claims = {}
      /\ CommitteeSigned(who)
      /\ DistinctIntents(batch)
      /\ \A i \in bound : i \in DOMAIN intents /\ intents[i].status = "Attested"
      /\ amount \in 0 .. MaxAda - pool.outstanding
      /\ claims' = Put(claims, [c \in DOMAIN batch |-> [intent |-> batch[c].intent,
                                                        ada |-> batch[c].ada,
                                                        settled |-> FALSE]])
      /\ intents' = SetStatus(bound, "Vouchered")
      /\ RemoveFromPendingBatches(bound)
      /\ pool' = [pool EXCEPT !.outstanding = @ + amount]
      /\ UNCHANGED <<block, nonces, expiryQueue, attestVars, credits, deposits,
                     expireRequests, committeeVars>>

RequestVoucher(who, c, i, ada) ==
  RequestBatchVouchers(who, Entry(c, [intent |-> i, ada |-> ada]))

(***************************************************************************)
(* credit_deposit, idempotent on (target, transaction).  The committee     *)
(* signs the amount the transaction paid on Cardano.                       *)
(***************************************************************************)
CreditDeposit(who, target, tx) ==
  /\ who \in members
  /\ <<target, tx>> \notin deposits
  /\ CommitteeSigned(who)
  /\ deposits' = deposits \cup {<<target, tx>>}
  /\ credits' = [credits EXCEPT ![target] = SaturatingAdd(@, DepositAda[tx])]
  /\ pool' = [pool EXCEPT !.nav = SaturatingAdd(@, DepositAda[tx])]
  /\ UNCHANGED <<block, intentVars, attestVars, claims, expireRequests,
                 committeeVars>>

\* set_pool_utilization, by Root: the counters are overwritten too.
SetPoolUtilization(params) ==
  /\ pool' = params
  /\ UNCHANGED <<block, intentVars, attestVars, credits, deposits, claims,
                 expireRequests, committeeVars>>

\* set_min_signer_threshold, by Root.
SetMinSignerThreshold(new) ==
  LET v == IF new = 0 THEN DefaultMinSignerThreshold ELSE new
  IN  /\ v <= threshold
      /\ minSignerThreshold' = v
      /\ UNCHANGED <<block, intentVars, attestVars, moneyVars, claims,
                     expireRequests, members, threshold>>

(***************************************************************************)
(* A rotation that committee-governance executes: the committee changes    *)
(* under whatever this pallet has in flight.                               *)
(***************************************************************************)
RotateCommittee(committee) ==
  /\ members' = committee.members
  /\ threshold' = committee.threshold
  /\ UNCHANGED <<block, intentVars, attestVars, moneyVars, claims,
                 expireRequests, minSignerThreshold>>

(***************************************************************************)
(* Expiry on Cardano evidence.  Anyone posts a request; the committee      *)
(* attests it within the request TTL.  A request with evidence for another *)
(* network or policy, or too shallow, is refused without a change.         *)
(***************************************************************************)
HasPolicy(i) == intents[i].kind.type \in {"BuyPolicy", "RequestPayout"}

\* Faulty variant: only a repeated expiry is refused.
Expirable_OnceOnly(i) == intents[i].status # "Expired"

Expirable(i) == intents[i].status \notin {"Expired", "Settled"}

RequestExpired(submitted) == block - submitted > SettlementRequestTtl

RequestExpirePolicy(i) ==
  /\ i \in DOMAIN intents
  /\ Expirable(i)
  /\ HasPolicy(i)
  /\ i \in DOMAIN expireRequests => RequestExpired(expireRequests[i])
  /\ expireRequests' = Put(expireRequests, Entry(i, block))
  /\ UNCHANGED <<block, intentVars, attestVars, moneyVars, claims, committeeVars>>

\* The credit of the intent and the coverage of its claim stay as they are.
AttestExpirePolicy(who, i) ==
  /\ who \in members
  /\ i \in DOMAIN expireRequests
  /\ ~RequestExpired(expireRequests[i])
  /\ \/ /\ intents[i].status = "Expired"
        /\ UNCHANGED <<intents, pendingBatches>>
     \/ /\ Expirable(i)
        /\ CommitteeSigned(who)
        /\ intents' = SetStatus({i}, "Expired")
        /\ RemoveFromPendingBatches({i})
  /\ expireRequests' = Remove(expireRequests, {i})
  /\ UNCHANGED <<block, nonces, expiryQueue, attestVars, moneyVars, claims,
                 committeeVars>>

(***************************************************************************)
(* settle_attested_claim, where every settle call of the pallet ends, for  *)
(* the claims of one call.                                                 *)
(***************************************************************************)
\* Faulty variant: the payout leaves the fund, its coverage stays.
ReleaseCover_FundOnly(total) == [pool EXCEPT !.nav = SaturatingSub(@, total)]

ReleaseCover(total) == [pool EXCEPT !.outstanding = SaturatingSub(@, total),
                                    !.nav = SaturatingSub(@, total)]

SettleAttestedClaims(cs) ==
  LET paid == {claims[c].intent : c \in cs}
      total == SumFunction([c \in cs |-> claims[c].ada])
  IN  /\ claims' = [c \in DOMAIN claims |->
                      IF c \in cs THEN [claims[c] EXCEPT !.settled = TRUE] ELSE claims[c]]
      /\ intents' = SetStatus(paid, "Settled")
      /\ RemoveFromPendingBatches(paid)
      /\ pool' = ReleaseCover(total)
      /\ UNCHANGED <<block, nonces, expiryQueue, attestVars, credits, deposits,
                     expireRequests, committeeVars>>

(***************************************************************************)
(* on_initialize: the next block sweeps the intents queued for it.  Of the *)
(* debits only a premium is returned.                                      *)
(***************************************************************************)
\* Faulty variants: no look at the status, and a look for Pending alone.
SweptAt_AnyStatus(b) == expiryQueue[b] \cap DOMAIN intents

SweptAt_PendingOnly(b) ==
  {i \in expiryQueue[b] \cap DOMAIN intents : intents[i].status = "Pending"}

SweptAt(b) == expiryQueue[b] \cap LiveIntents

Refund(i) == IF intents[i].kind.type = "BuyPolicy" THEN intents[i].kind.ada ELSE 0

NextBlock ==
  LET n == block + 1
      swept == SweptAt(n)
      refund == [a \in Accounts |->
                   SumFunction([i \in {j \in swept : j[1] = a} |-> Refund(i)])]
  IN  /\ block < Horizon
      /\ block' = n
      /\ expiryQueue' = [expiryQueue EXCEPT ![n] = {}]
      /\ intents' = SetStatus(swept, "Expired")
      /\ credits' = [a \in Accounts |-> SaturatingAdd(credits[a], refund[a])]
      /\ RemoveFromPendingBatches(swept)
      /\ UNCHANGED <<nonces, attestVars, pool, deposits, claims, expireRequests,
                     committeeVars>>

Cover == [intent : DOMAIN intents, ada : CoverAmounts]

CommitteeCall(who) ==
  \/ \E i \in DOMAIN intents : AttestIntent(who, i) \/ AttestExpirePolicy(who, i)
  \/ \E sigs \in SUBSET members, batch \in SUBSET LiveIntents :
       AttestBatchIntents(who, sigs, batch)
  \/ \E c \in ClaimIds, v \in Cover : RequestVoucher(who, c, v.intent, v.ada)
  \/ \E cs \in SUBSET ClaimIds : \E batch \in [cs -> Cover] :
       Cardinality(cs) \in 2 .. MaxBatch /\ RequestBatchVouchers(who, batch)
  \/ \E target \in Accounts, tx \in DepositTxs : CreditDeposit(who, target, tx)

SignedCall(who) ==
  \/ \E kind \in Kinds : SubmitIntent(who, kind) \/ RequestCreditRefund(who, kind)
  \/ \E n \in 2 .. MaxBatch : \E kinds \in [1 .. n -> Kinds] :
       SubmitBatchIntents(who, kinds)
  \/ \E i \in DOMAIN intents : RequestExpirePolicy(i)

RootCall ==
  \/ \E params \in PoolInputs : SetPoolUtilization(params)
  \/ \E new \in MinSignerInputs : SetMinSignerThreshold(new)

Next ==
  \/ NextBlock
  \/ \E who \in Accounts : SignedCall(who)
  \/ \E who \in members : CommitteeCall(who)
  \/ \E cs \in SUBSET UnsettledClaims : cs # {} /\ SettleAttestedClaims(cs)
  \/ RootCall
  \/ \E committee \in Committees : RotateCommittee(committee)

Spec == Init /\ [][Next]_vars

\* Blocks keep coming; nobody is obliged to send a call.
FairSpec == Spec /\ WF_vars(NextBlock)

-----------------------------------------------------------------------------
(***************************************************************************)
(* Properties.                                                             *)
(***************************************************************************)
\* The PendingBatches index holds exactly the live intents: every call that
\* ends an intent's wait removes it and no call removes another's
\* (get_pending_batches serves keepers from this index alone).
IndexIsLive == pendingBatches = LiveIntents

\* A live intent is still ahead of its sweep and is in that block's queue.
\* Without it an intent outlives its TTL and keeps its submitter's credit.
\* It needs a queue that never overflows.
LiveIntentIsQueued ==
  \A i \in LiveIntents :
     /\ intents[i].ttlBlock > block
     /\ i \in expiryQueue[intents[i].ttlBlock]

\* An intent backs at most one claim, and its status agrees with it: settled
\* with its claim and only then, and past Attested as soon as it has one.
\* No call writes the two maps from the other's contents.
ClaimsMatchIntents ==
  /\ \A c, d \in DOMAIN claims : claims[c].intent = claims[d].intent => c = d
  /\ \A c \in DOMAIN claims :
        /\ claims[c].intent \in DOMAIN intents
        /\ intents[claims[c].intent].status \in
             IF claims[c].settled THEN {"Settled"} ELSE {"Vouchered", "Expired"}
  /\ \A i \in DOMAIN intents : intents[i].status \in {"Vouchered", "Settled"} =>
        \E c \in DOMAIN claims : claims[c].intent = i

\* The coverage counter is the sum of the unsettled claims, whichever of the
\* voucher and settle paths, single or batch, each claim took (Root's
\* overwrite apart).
CoverageIsUnsettledClaims ==
  pool.outstanding = SumFunctionOnSet([c \in DOMAIN claims |-> claims[c].ada],
                                      UnsettledClaims)

\* Nobody's credit comes from nothing: what an account holds, with the debits
\* that were not returned to it, never exceeds what was deposited for it.  A
\* debit is returned at most once, and never once its claim exists.
HasClaim(i) == \E c \in DOMAIN claims : claims[c].intent = i

Returnable(i) == intents[i].status = "Expired" /\ Refund(i) > 0 /\ ~HasClaim(i)

CreditIsDeposited ==
  \A a \in Accounts :
     credits[a] + SumFunction([i \in {j \in DOMAIN intents :
                                        j[1] = a /\ ~Returnable(j)} |->
                                 Debit(intents[i].kind)])
       <= SumFunction([d \in {e \in deposits : e[1] = a} |-> DepositAda[d[2]]])

\* The partial bundle and the frozen one follow the status: a Pending intent
\* has no frozen bundle, an intent with a frozen bundle no partial one, and
\* whatever was vouchered has its frozen bundle for the keeper to show.
BundleFollowsStatus ==
  \A i \in IntentIds :
     /\ attestationSigs[i] # {} =>
          /\ i \in DOMAIN intents
          /\ intents[i].status # "Pending"
          /\ pendingAttestations[i] = {}
     /\ i \in DOMAIN intents /\ intents[i].status \in {"Attested", "Vouchered", "Settled"} =>
          attestationSigs[i] # {}

\* A partial bundle below the committee's threshold is all a Pending intent
\* ever has: the signature that reaches it attests the intent in the same call.
\* It needs a committee whose threshold no rotation lowers.
PendingIsBelowThreshold ==
  \A i \in DOMAIN intents : intents[i].status = "Pending" =>
     Cardinality(pendingAttestations[i]) < threshold

\* An intent moves forward along its lifecycle and is never forgotten.  The
\* one way out of Expired is the settlement of a claim it already backed, so
\* an intent whose premium the sweep returned never pays out.
Advances == {<<"Pending", "Attested">>, <<"Pending", "Expired">>,
             <<"Attested", "Vouchered">>, <<"Attested", "Expired">>,
             <<"Vouchered", "Settled">>, <<"Vouchered", "Expired">>}

StatusAdvances ==
  [][\A i \in DOMAIN intents :
       /\ i \in DOMAIN intents'
       /\ LET step == <<intents[i].status, intents'[i].status>>
          IN  \/ step[1] = step[2]
              \/ step \in Advances
              \/ step = <<"Expired", "Settled">> /\ HasClaim(i)]_vars

\* Every intent stops waiting: it is vouchered or swept, given only that
\* blocks are produced.
EveryIntentLeavesTheIndex ==
  \A i \in IntentIds : i \in pendingBatches ~> i \notin pendingBatches

\* What the documentation says and the code does not do, see the README.
\*
\* Whichever way a waiting BuyPolicy intent expires, its unspent premium
\* returns to the submitter.
ExpiryReturnsPremium ==
  [][\A i \in LiveIntents :
       intents'[i].status = "Expired" /\ Refund(i) > 0 =>
         credits'[i[1]] > credits[i[1]]]_vars

=============================================================================
