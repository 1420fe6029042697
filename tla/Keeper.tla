------------------------------- MODULE Keeper -------------------------------
(***************************************************************************)
(* The keeper process (src/keeper): it polls the chain for attested        *)
(* intents, pays vouchers on Cardano, drives each confirmed payout to a    *)
(* settlement on Materios and gets its settlement bonds back.              *)
(*                                                                         *)
(* A tick is a walk of small steps, and the chain, Cardano, the committee  *)
(* and other requesters move between any two of them: what the keeper read *)
(* may be stale when its extrinsic is included, an extrinsic whose outcome *)
(* it never learnt may be included later, and the process may die with     *)
(* whatever it has not written to disk.                                    *)
(*                                                                         *)
(* IntentSettlement has the pallet's calls in full.  Here they are what    *)
(* the keeper can tell apart: who filed a request, whether it records the  *)
(* keeper's payout, and ages in blocks in place of block numbers.          *)
(***************************************************************************)
EXTENDS Integers, Maps

CONSTANTS
  Claims,             \* claim ids, which the keeper takes to be intent ids
  RequestTtl,         \* SettlementRequestTtl
  ReleaseDelay,       \* BondReleaseDelayBlocks
  BackOffBase,        \* the 10 blocks of backOff
  FeeSpikeMaxAttempts,    \* feeSpikeMaxAttempts: how often a payout is submitted
  SlotDriftMaxRetries,    \* maxRetries: how often one attempt meets slot drift
  MaxFaults           \* bound: crashes, failed calls, lost outcomes, reorgs,
                      \* gaps in what the provider knows, false requests

ASSUME KeeperAssumption ==
  /\ {RequestTtl, ReleaseDelay, MaxFaults} \subseteq Nat
  /\ {BackOffBase, FeeSpikeMaxAttempts, SlotDriftMaxRetries} \subseteq Nat \ {0}

VARIABLES
  intent,             \* Materios: how far each intent is
  old,                \* the intents submitted before the best block
  requests,           \* ClaimSettlementRequests: who, what, and how long ago
  settled,            \* the claims settled at the best block
  bonds,              \* BondedClaimRequester and BondedClaimAttestedAt
  pool,               \* the keeper's extrinsics that are not in a block yet
  payout,             \* Cardano: how deep the payout is that the keeper knows of
  payments,           \* how often submitTx handed over a payout and returned
  strays,             \* and how often one whose hash the keeper never learnt
  alone,              \* whether its one signature meets the threshold
  mem,                \* KeeperPersistedState of the running process
  disk,               \* the same, as last flushed
  reconciled,         \* bondsReconciled
  snapshot,           \* whether committeeSnapshot is there
  tick,               \* where the tick is
  todo,               \* the claims its current loop has not reached
  faults              \* bound: faults so far

chain == <<intent, old, requests, settled, bonds>>
cardano == <<payout, payments, strays>>
process == <<mem, disk, reconciled, snapshot, tick, todo>>
vars == <<chain, pool, cardano, alone, process, faults>>

\* What is persisted: the claims behind the cursor, a submission per claim, the
\* claims whose bond may be held, and those known to be settled.  A submission
\* has a hash while it is "submitted"; atDepth says that confirmedTxSlot is
\* set, and wait counts the blocks left until retryAtBlock.
EmptyState == [passed |-> {}, subs |-> NoRows, held |-> {}, done |-> {}]
Observed == [state |-> "observed", atDepth |-> FALSE, wait |-> 0, failures |-> 0]
Idle == [at |-> "Idle"]

Init ==
  /\ intent = [c \in Claims |-> "Pending"]
  /\ old = {}
  /\ requests = NoRows
  /\ settled = NoRows
  /\ bonds = NoRows
  /\ pool = {}
  /\ payout = [c \in Claims |-> "None"]
  /\ payments = [c \in Claims |-> 0]
  /\ strays = [c \in Claims |-> 0]
  /\ alone \in BOOLEAN
  /\ mem = EmptyState
  /\ disk = EmptyState
  /\ reconciled = FALSE
  /\ snapshot = FALSE
  /\ tick = Idle
  /\ todo = {}
  /\ faults = 0

Fault == faults < MaxFaults /\ faults' = faults + 1
NoFault == UNCHANGED faults

(***************************************************************************)
(* The chain.  A settlement at the best block keeps the request it took    *)
(* away, for a reorganisation to bring back.                               *)
(***************************************************************************)
Expired(c) == requests[c].age > RequestTtl
FreshRequest(c) == c \in DOMAIN requests /\ ~Expired(c)
Final(c) == c \in DOMAIN settled /\ settled[c].final

Aged(r) == [r EXCEPT !.age = IF @ > RequestTtl THEN @ ELSE @ + 1]

\* An attested bond is due ReleaseDelay blocks after its attestation.
Due(c) == bonds[c].age >= ReleaseDelay

Waiting(state) ==
  [state EXCEPT !.subs = [c \in DOMAIN @ |->
                            [@[c] EXCEPT !.wait = IF @ = 0 THEN 0 ELSE @ - 1]]]

NextBlock ==
  /\ old' = Claims
  /\ requests' = [c \in DOMAIN requests |-> Aged(requests[c])]
  /\ settled' = [c \in DOMAIN settled |->
                   [settled[c] EXCEPT !.undone = {Aged(r) : r \in @}]]
  /\ bonds' = [c \in DOMAIN bonds |->
                 [bonds[c] EXCEPT !.age = IF @ < ReleaseDelay THEN @ + 1 ELSE @]]
  /\ mem' = Waiting(mem)
  /\ disk' = Waiting(disk)
  /\ UNCHANGED <<intent, pool, cardano, alone, reconciled, snapshot, tick, todo, faults>>

\* The committee attests the intent, and issues its voucher.
Advance(c) ==
  /\ \/ intent[c] = "Pending" /\ intent' = [intent EXCEPT ![c] = "Attested"]
     \/ intent[c] = "Attested" /\ intent' = [intent EXCEPT ![c] = "Vouchered"]
  /\ UNCHANGED <<old, requests, settled, bonds, pool, cardano, alone, process, faults>>

\* Faulty variant: vouchered intents are served too.
Served_Vouchered == {c \in Claims \ mem.passed : intent[c] # "Pending"}

\* get_pending_batches: the index holds no vouchered intent.
Served == {c \in Claims \ mem.passed : intent[c] = "Attested"}

Settle(c) ==
  /\ settled' = Put(settled, Entry(c, [final |-> FALSE, undone |-> {requests[c]}]))
  /\ requests' = Remove(requests, {c})

Attest(c) ==
  /\ Settle(c)
  /\ bonds' = Put(bonds, Entry(c, [mine |-> requests[c].mine, age |-> 0]))

\* An attested bond goes back, and if there is none, the request with its own.
Release(c) ==
  /\ bonds' = Remove(bonds, {c})
  /\ requests' = IF c \in DOMAIN bonds THEN requests ELSE Remove(requests, {c})
  /\ UNCHANGED settled

\* What a call of the keeper meets when it is included.  A request that was
\* replaced by another is not the one the keeper signed.
Answer(call, c) ==
  CASE call = "request" ->
         IF c \in DOMAIN settled \/ FreshRequest(c) THEN "race" ELSE "ok"
    [] call = "supersede" ->
         IF c \notin DOMAIN requests THEN "race"
         ELSE IF requests[c].records = "payout" THEN "refused"
         ELSE IF ~alone THEN "cannot sign alone" ELSE "ok"
    [] call = "attest" ->
         IF c \notin DOMAIN requests THEN "race"
         ELSE IF Expired(c) \/ requests[c].records # "payout" THEN "refused"
         ELSE IF ~alone THEN "cannot sign alone" ELSE "ok"
    [] call = "release" ->
         IF c \in DOMAIN bonds THEN IF Due(c) THEN "ok" ELSE "refused"
         ELSE IF c \notin DOMAIN requests THEN "not reserved"
         ELSE IF Expired(c) THEN "ok" ELSE "refused"

Effect(call, c) ==
  \/ /\ call = "request"
     /\ requests' = Put(requests, Entry(c, [mine |-> TRUE, records |-> "payout", age |-> 0]))
     /\ UNCHANGED <<settled, bonds>>
  \/ call = "supersede" /\ Settle(c) /\ UNCHANGED bonds
  \/ call = "attest" /\ Attest(c)
  \/ call = "release" /\ Release(c)

\* A block takes an extrinsic; the keeper learns the outcome if it still waits.
Include(call, c) ==
  LET answer == Answer(call, c)
      awaited == tick.at = "Wait" /\ tick.call = call /\ tick.claim = c
  IN  /\ <<call, c>> \in pool
      /\ pool' = pool \ {<<call, c>>}
      /\ IF answer = "ok" THEN Effect(call, c) ELSE UNCHANGED <<requests, settled, bonds>>
      /\ tick' = IF awaited THEN [tick EXCEPT !.at = "Answered", !.answer = answer] ELSE tick
      /\ UNCHANGED <<intent, old, cardano, alone, mem, disk, reconciled, snapshot, todo, faults>>

\* The pool does not take the extrinsic, or the keeper cannot pay for it.
Refuse(call, c) ==
  /\ Fault
  /\ <<call, c>> \in pool
  /\ tick.at = "Wait" /\ tick.call = call /\ tick.claim = c
  /\ pool' = pool \ {<<call, c>>}
  /\ tick' = [tick EXCEPT !.at = "Answered", !.answer = "refused"]
  /\ UNCHANGED <<chain, cardano, alone, mem, disk, reconciled, snapshot, todo>>

\* An extrinsic nobody waits for any more leaves the pool unincluded.
Drop(call, c) ==
  /\ <<call, c>> \in pool
  /\ tick.at = "Wait" => <<tick.call, tick.claim>> # <<call, c>>
  /\ pool' = pool \ {<<call, c>>}
  /\ UNCHANGED <<chain, cardano, alone, process, faults>>

Finalise(c) ==
  /\ c \in DOMAIN settled /\ ~settled[c].final
  /\ settled' = [settled EXCEPT ![c] = [final |-> TRUE, undone |-> {}]]
  /\ UNCHANGED <<intent, old, requests, bonds, pool, cardano, alone, process, faults>>

\* The block of a settlement leaves the best chain.
Reorganise(c) ==
  /\ Fault
  /\ c \in DOMAIN settled /\ ~settled[c].final
  /\ settled' = Remove(settled, {c})
  /\ bonds' = Remove(bonds, {c})
  /\ \E r \in settled[c].undone : requests' = Put(requests, Entry(c, r))
  /\ UNCHANGED <<intent, old, pool, cardano, alone, process>>

\* Another requester files: a request for the payout the keeper knows of, for
\* a stray one that landed, or a false one.
OtherRequests(c) ==
  /\ intent[c] = "Vouchered"
  /\ c \notin DOMAIN settled /\ ~FreshRequest(c)
  /\ \E records \in {"payout", "stray", "nothing"} :
       /\ records = "payout" => payout[c] \in {"Landed", "Confirmed", "Final"}
       /\ records = "stray" => strays[c] > 0
       /\ requests' = Put(requests, Entry(c, [mine |-> FALSE, records |-> records, age |-> 0]))
  /\ Fault
  /\ UNCHANGED <<intent, old, settled, bonds, pool, cardano, alone, process>>

\* The committee attests a fresh request that records a payout.
CommitteeAttests(c) ==
  /\ FreshRequest(c) /\ requests[c].records # "nothing"
  /\ Attest(c)
  /\ UNCHANGED <<intent, old, pool, cardano, alone, process, faults>>

\* Anyone may release a bond that is due.
OtherReleases(c) ==
  /\ Answer("release", c) = "ok"
  /\ Release(c)
  /\ UNCHANGED <<intent, old, pool, cardano, alone, process, faults>>

(***************************************************************************)
(* Cardano: a payout waits in the mempool, lands in a block, which may be  *)
(* rolled back, and reaches the keeper's depth and then the pallet's.  A   *)
(* stray payout may go the same way, or nowhere: no step of the keeper     *)
(* looks at it.                                                            *)
(***************************************************************************)
Deepen(c) ==
  /\ \E step \in {<<"Sent", "Landed">>, <<"Landed", "Confirmed">>, <<"Confirmed", "Final">>} :
       payout[c] = step[1] /\ payout' = [payout EXCEPT ![c] = step[2]]
  /\ UNCHANGED <<chain, pool, payments, strays, alone, process, faults>>

Lose(c) ==
  /\ payout[c] \in {"Sent", "Landed"}
  /\ payout' = [payout EXCEPT ![c] = "None"]
  /\ Fault
  /\ UNCHANGED <<chain, pool, payments, strays, alone, process>>

(***************************************************************************)
(* The keeper.  Its steps change its own state, and send extrinsics.       *)
(***************************************************************************)
Sub(c) == mem.subs[c]
UpdateSubmission(m, c, sub) == [m EXCEPT !.subs = Put(@, Entry(c, sub))]
TrackBond(m, c) == [m EXCEPT !.held = @ \cup {c}]
UntrackBond(m, c) == [m EXCEPT !.held = @ \ {c}]

Outside == UNCHANGED <<chain, cardano, alone>>

\* The tick goes on in its loop without claim c.
LeaveClaim(at, c) == tick' = [at |-> at] /\ todo' = todo \ {c}

\* The first half of runOnce: the committee is read and the batches are
\* fetched; what cannot be read stays as it was, or is empty.  A tick that
\* finds Cardano halted does nothing, and is left out.
StartTick ==
  /\ tick.at = "Idle"
  /\ tick' = [at |-> "Batches"]
  /\ \/ snapshot' = TRUE /\ todo' = Served /\ NoFault
     \/ snapshot' = TRUE /\ todo' = {} /\ Fault
     \/ snapshot' = snapshot /\ todo' = Served /\ Fault
  /\ Outside /\ UNCHANGED <<pool, mem, disk, reconciled>>

\* What processBatch does with a voucher: it notes it, and starts to pay it
\* when its proof is there and valid and the signatures verify.
Unpaid(c) == c \in DOMAIN mem.subs => Sub(c).state \notin {"submitting", "submitted"}

SetState(m, c, state) == UpdateSubmission(m, c, [m.subs[c] EXCEPT !.state = state])

Paying(c, attempt, drifts) ==
  [at |-> "Paying", claim |-> c, attempt |-> attempt, drifts |-> drifts]

ProcessBatch(c) ==
  /\ tick.at = "Batches" /\ c \in todo
  /\ todo' = todo \ {c}
  /\ \/ /\ c \in mem.done \/ intent[c] # "Vouchered"
        /\ UNCHANGED <<mem, tick, faults>>
     \/ /\ c \notin mem.done /\ intent[c] = "Vouchered"
        /\ LET m == IF c \in DOMAIN mem.subs THEN mem ELSE UpdateSubmission(mem, c, Observed)
           IN  \/ mem' = m /\ UNCHANGED <<tick, faults>>
               \/ mem' = SetState(m, c, "failed") /\ UNCHANGED tick /\ Fault
               \/ /\ snapshot /\ Unpaid(c)
                  /\ mem' = SetState(m, c, "submitting")
                  /\ tick' = Paying(c, 0, 0)
                  /\ NoFault
  /\ Outside /\ UNCHANGED <<pool, disk, reconciled, snapshot>>

\* retryWithBackoff after a failed attempt: the payout is built and submitted
\* anew, or given up.
FailAttempt(c) ==
  \/ /\ tick.attempt + 1 < FeeSpikeMaxAttempts
     /\ tick' = Paying(c, tick.attempt + 1, 0)
     /\ UNCHANGED mem
  \/ /\ tick.attempt + 1 >= FeeSpikeMaxAttempts
     /\ tick' = [at |-> "Batches"]
     /\ mem' = SetState(mem, c, "failed")

\* A payout reached Cardano, but the keeper does not learn its hash.
MayStray(c) ==
  /\ strays' \in {strays, [strays EXCEPT ![c] = @ + 1]}
  /\ UNCHANGED <<payout, payments>>

\* buildAndSubmitWithSlotRetry, one submission at a time.  submitTx returns;
\* or the slot it was built for is over, which is a rejection, and the tip is
\* read again; or a call fails, before or after Cardano has the payout.
SubmitPayout ==
  /\ tick.at = "Paying"
  /\ LET c == tick.claim
     IN  \/ /\ payout' = [payout EXCEPT ![c] = "Sent"]
            /\ payments' = [payments EXCEPT ![c] = @ + 1]
            /\ mem' = SetState(mem, c, "submitted")
            /\ tick' = [at |-> "Batches"]
            /\ NoFault /\ UNCHANGED strays
         \/ /\ tick.drifts + 1 < SlotDriftMaxRetries
            /\ tick' = Paying(c, tick.attempt, tick.drifts + 1)
            /\ NoFault /\ UNCHANGED <<mem, cardano>>
         \/ /\ tick.drifts + 1 >= SlotDriftMaxRetries
            /\ FailAttempt(c)
            /\ NoFault /\ UNCHANGED cardano
         \/ FailAttempt(c) /\ Fault /\ MayStray(c)
  /\ UNCHANGED <<chain, pool, alone, disk, reconciled, snapshot, todo>>

\* The cursor moves to the tip, and a fresh process puts every claim it knows
\* on the list of the bond sweep.
AdvanceCursor ==
  /\ tick.at = "Batches" /\ todo = {}
  /\ \E passed \in {mem.passed, mem.passed \cup old} :
       /\ IF passed = mem.passed \cup old THEN NoFault ELSE Fault
       /\ mem' = [mem EXCEPT !.passed = passed,
                             !.held = IF reconciled THEN @
                                      ELSE @ \cup DOMAIN mem.subs \cup mem.done]
  /\ reconciled' = TRUE
  /\ tick' = [at |-> "Reconcile"]
  /\ todo' = {c \in DOMAIN mem.subs : Sub(c).state = "submitted"}
  /\ Outside /\ UNCHANGED <<pool, disk, snapshot>>

\* Faulty variant: settled at the best block.
Finalised_AtBest(c) == c \in DOMAIN settled

Finalised(c) == Final(c)

\* Faulty variant: the bond is not put back on the list.
MarkIfFinalized_Untracked(m, c) ==
  IF ~Finalised(c) THEN m
  ELSE [UpdateSubmission(m, c, [m.subs[c] EXCEPT !.state = "confirmed"])
          EXCEPT !.done = @ \cup {c}]

\* markIfFinalized
MarkIfFinalized(m, c) ==
  IF ~Finalised(c) THEN m
  ELSE [UpdateSubmission(TrackBond(m, c), c, [m.subs[c] EXCEPT !.state = "confirmed"])
          EXCEPT !.done = @ \cup {c}]

\* What isConfirmed says of a payout: a transaction without outputs it knows
\* of has no slot.
SlotKnown(c) == payout[c] \in {"Landed", "Confirmed", "Final"}

\* Faulty variant: a payout can be orphaned after its confirmation.
Orphaned_Always(c, known) == ~known

Orphaned(c, known) == ~Sub(c).atDepth /\ ~known

\* backOff and awaitExpiry
BackOff(m, c) ==
  LET n == m.subs[c].failures
      delay == BackOffBase * 2 ^ n
  IN  UpdateSubmission(m, c, [m.subs[c] EXCEPT
        !.wait = IF delay < RequestTtl THEN delay ELSE RequestTtl,
        !.failures = IF delay < RequestTtl THEN n + 1 ELSE n])

AwaitExpiry(m, c, age) ==
  UpdateSubmission(m, c, [m.subs[c] EXCEPT !.wait = RequestTtl + 1 - age])

Submit(call, c, age) ==
  /\ pool' = pool \cup {<<call, c>>}
  /\ tick' = [at |-> "Wait", call |-> call, claim |-> c, age |-> age, answer |-> "none"]
  /\ UNCHANGED todo

\* settleOnMaterios up to its first extrinsic, for a payout that m has noted
\* as confirmed.  The bond is on disk before the request is filed.
SettleOnMaterios(m, c) ==
  \/ /\ c \in DOMAIN settled
     /\ mem' = MarkIfFinalized(m, c)
     /\ LeaveClaim("Reconcile", c) /\ UNCHANGED <<pool, disk>>
  \/ /\ c \notin DOMAIN settled /\ payout[c] # "Final"
     /\ mem' = m
     /\ LeaveClaim("Reconcile", c) /\ UNCHANGED <<pool, disk>>
  \/ /\ c \notin DOMAIN settled /\ payout[c] = "Final"
     /\ FreshRequest(c)
     /\ mem' = IF requests[c].mine THEN TrackBond(m, c) ELSE m
     /\ Submit(IF requests[c].records = "payout" THEN "attest" ELSE "supersede", c, requests[c].age)
     /\ UNCHANGED disk
  \/ /\ c \notin DOMAIN settled /\ payout[c] = "Final"
     /\ ~FreshRequest(c)
     /\ mem' = TrackBond(m, c)
     /\ disk' = mem'
     /\ Submit("request", c, 0)

\* reconcileInflight for one payout: held back by an earlier attempt, unknown
\* to the provider, not deep enough, or confirmed, once and for all.
Reconcile(c) ==
  /\ tick.at = "Reconcile" /\ c \in todo
  /\ \E known \in {SlotKnown(c), FALSE} :
       LET atDepth == Sub(c).atDepth \/ (known /\ payout[c] # "Landed")
       IN  /\ IF known = SlotKnown(c) THEN NoFault ELSE Fault
           /\ \/ /\ Sub(c).wait > 0
                 /\ mem' = MarkIfFinalized(mem, c)
                 /\ LeaveClaim("Reconcile", c) /\ UNCHANGED <<pool, disk>>
              \/ /\ Sub(c).wait = 0 /\ Orphaned(c, known)
                 /\ mem' = UpdateSubmission(mem, c, [Sub(c) EXCEPT !.state = "observed"])
                 /\ LeaveClaim("Reconcile", c) /\ UNCHANGED <<pool, disk>>
              \/ /\ Sub(c).wait = 0 /\ ~Orphaned(c, known) /\ ~atDepth
                 /\ LeaveClaim("Reconcile", c) /\ UNCHANGED <<mem, pool, disk>>
              \/ /\ Sub(c).wait = 0 /\ ~Orphaned(c, known) /\ atDepth
                 /\ SettleOnMaterios(UpdateSubmission(mem, c, [Sub(c) EXCEPT !.atDepth = TRUE]), c)
  /\ Outside /\ UNCHANGED <<reconciled, snapshot>>

\* settleOnMaterios after the answer to one of its extrinsics: a request that
\* was filed is attested at once, a settled claim is marked once final, and a
\* failure waits for the request to expire or for a while.
Settling == {"request", "supersede", "attest"}

TickAnswered ==
  /\ tick.at = "Answered" /\ tick.call \in Settling
  /\ LET c == tick.claim
         waited == IF tick.call = "attest" /\ c \in DOMAIN requests THEN requests[c].age ELSE tick.age
     IN  IF tick.answer = "ok" /\ tick.call = "request"
         THEN Submit("attest", c, 0) /\ UNCHANGED mem
         ELSE /\ mem' = CASE tick.answer = "ok" -> MarkIfFinalized(mem, c)
                           [] tick.answer = "race" -> mem
                           [] tick.answer = "cannot sign alone" ->
                                IF tick.call = "attest" /\ c \notin DOMAIN requests
                                THEN BackOff(mem, c) ELSE AwaitExpiry(mem, c, waited)
                           [] tick.answer = "refused" -> BackOff(mem, c)
              /\ LeaveClaim("Reconcile", c) /\ UNCHANGED pool
  /\ NoFault /\ Outside /\ UNCHANGED <<disk, reconciled, snapshot>>

\* releaseBonds reads the attested bond and the request one after the other.
StartRelease ==
  /\ tick.at = "Reconcile" /\ todo = {}
  /\ tick' = [at |-> "Release"]
  /\ todo' = mem.held
  /\ NoFault /\ Outside /\ UNCHANGED <<pool, mem, disk, reconciled, snapshot>>

CheckAttestedBond(c) ==
  /\ tick.at = "Release" /\ c \in todo
  /\ \/ /\ c \notin DOMAIN bonds
        /\ tick' = [at |-> "Pending", claim |-> c] /\ UNCHANGED <<mem, pool, todo>>
     \/ /\ c \in DOMAIN bonds /\ ~bonds[c].mine
        /\ mem' = UntrackBond(mem, c) /\ LeaveClaim("Release", c) /\ UNCHANGED pool
     \/ /\ c \in DOMAIN bonds /\ bonds[c].mine /\ Due(c)
        /\ Submit("release", c, 0) /\ UNCHANGED mem
     \/ /\ c \in DOMAIN bonds /\ bonds[c].mine /\ ~Due(c)
        /\ LeaveClaim("Release", c) /\ UNCHANGED <<mem, pool>>
  /\ NoFault /\ Outside /\ UNCHANGED <<disk, reconciled, snapshot>>

\* An expired request is taken back only for a payout that is given up.
GivenUp(c) == c \in DOMAIN mem.subs => Sub(c).state # "submitted"

CheckPendingBond ==
  /\ tick.at = "Pending"
  /\ LET c == tick.claim
         pending == c \in DOMAIN requests /\ requests[c].mine
     IN  \/ /\ ~pending
            /\ mem' = UntrackBond(mem, c) /\ LeaveClaim("Release", c) /\ UNCHANGED pool
         \/ /\ pending
            /\ IF Expired(c) /\ GivenUp(c)
               THEN Submit("release", c, 0)
               ELSE LeaveClaim("Release", c) /\ UNCHANGED pool
            /\ UNCHANGED mem
  /\ NoFault /\ Outside /\ UNCHANGED <<disk, reconciled, snapshot>>

ReleaseAnswered ==
  /\ tick.at = "Answered" /\ tick.call = "release"
  /\ mem' = IF tick.answer \in {"ok", "not reserved"} THEN UntrackBond(mem, tick.claim) ELSE mem
  /\ LeaveClaim("Release", tick.claim)
  /\ NoFault /\ Outside /\ UNCHANGED <<pool, disk, reconciled, snapshot>>

\* An outcome that stays unknown, or a call that fails: the claim is left.
GiveUpOnClaim ==
  /\ Fault
  /\ \/ tick.at = "Wait" /\ tick.call \in Settling /\ LeaveClaim("Reconcile", tick.claim)
     \/ tick.at = "Wait" /\ tick.call = "release" /\ LeaveClaim("Release", tick.claim)
     \/ tick.at = "Pending" /\ LeaveClaim("Release", tick.claim)
     \/ \E c \in todo : tick.at \in {"Reconcile", "Release"} /\ LeaveClaim(tick.at, c)
  /\ Outside /\ UNCHANGED <<pool, mem, disk, reconciled, snapshot>>

\* An exception outside the guarded parts, or a file that cannot be written,
\* ends the tick: what it learnt stays in memory only.
AbortTick ==
  /\ Fault
  /\ tick.at = "Batches" \/ (tick.at = "Release" /\ todo = {})
  /\ tick' = Idle /\ todo' = {}
  /\ Outside /\ UNCHANGED <<pool, mem, disk, reconciled, snapshot>>

EndTick ==
  /\ tick.at = "Release" /\ todo = {}
  /\ disk' = mem
  /\ tick' = Idle
  /\ NoFault /\ Outside /\ UNCHANGED <<pool, mem, reconciled, snapshot, todo>>

\* The process dies and starts again from its file.  A payout it was handing
\* over may be under way.
Crash ==
  /\ Fault
  /\ mem' = disk
  /\ reconciled' = FALSE /\ snapshot' = FALSE
  /\ tick' = Idle /\ todo' = {}
  /\ IF tick.at = "Paying" THEN MayStray(tick.claim) ELSE UNCHANGED cardano
  /\ UNCHANGED <<chain, alone, pool, disk>>

TickStep ==
  \/ StartTick
  \/ \E c \in Claims : ProcessBatch(c)
  \/ SubmitPayout
  \/ AdvanceCursor
  \/ \E c \in Claims : Reconcile(c)
  \/ TickAnswered
  \/ StartRelease
  \/ \E c \in Claims : CheckAttestedBond(c)
  \/ CheckPendingBond
  \/ ReleaseAnswered
  \/ EndTick

Calls == Settling \cup {"release"}

Next ==
  \/ NextBlock
  \/ TickStep \/ GiveUpOnClaim \/ AbortTick \/ Crash
  \/ \E c \in Claims :
       \/ Advance(c)
       \/ Finalise(c) \/ Reorganise(c)
       \/ OtherRequests(c) \/ CommitteeAttests(c) \/ OtherReleases(c)
       \/ Deepen(c) \/ Lose(c)
       \/ \E call \in Calls : Include(call, c) \/ Refuse(call, c) \/ Drop(call, c)

Spec == Init /\ [][Next]_vars

\* The process ticks, or is restarted; blocks come, take what is in the pool
\* and become final; a payout on Cardano gets deeper; and the committee does
\* not miss every request that records a payout.
FairSpec ==
  /\ Spec
  /\ WF_vars(NextBlock) /\ WF_vars(TickStep)
  /\ \A c \in Claims :
       /\ WF_vars(Finalise(c)) /\ WF_vars(Deepen(c)) /\ SF_vars(CommitteeAttests(c))
       /\ \A call \in Calls : WF_vars(Include(call, c))

-----------------------------------------------------------------------------
(***************************************************************************)
(* Properties.                                                             *)
(***************************************************************************)
\* How often Cardano was handed a payout of the claim.
HandedOver(c) == payments[c] + strays[c]

\* A payout is handed to Cardano again only while processBatch retries it,
\* after attempts of that same visit which failed, and at most as often as it
\* may retry.  No later visit pays the claim anew: not after a crash that lost
\* the submission, not for one given up, nor for one taken for orphaned.
PaidInOneVisit ==
  [][\A c \in Claims :
       HandedOver(c)' > HandedOver(c) =>
         /\ tick.at = "Paying" /\ tick.claim = c
         /\ payments[c] = 0 /\ strays[c] <= tick.attempt
         /\ HandedOver(c)' <= FeeSpikeMaxAttempts]_vars

\* A claim the keeper has put down as settled is settled on the best chain,
\* whatever blocks are undone and however often the process restarts.
MarkedStaysSettled == mem.done \cup disk.done \subseteq DOMAIN settled

\* A payout whose confirmation is on disk is resumed after every crash, lost
\* outcome and lost race until the claim is marked as settled.
ConfirmedIsSettled ==
  \A c \in Claims :
    (c \in DOMAIN disk.subs /\ disk.subs[c].atDepth) ~> (c \in disk.done)

\* "The bond is tracked on disk before filing, so neither a crash nor a lost
\* outcome can leave it unreleased": every bond of the keeper comes back,
\* though no one else asks for it.
KeeperBond(c) ==
  \/ c \in DOMAIN requests /\ requests[c].mine
  \/ c \in DOMAIN bonds /\ bonds[c].mine

BondsComeBack == \A c \in Claims : KeeperBond(c) ~> ~KeeperBond(c)

\* "For every Cardano payout confirmed to depth, drives the claim to
\* settlement": a payout of the keeper that is final on Cardano is settled.
PaidIsSettled == \A c \in Claims : (payout[c] = "Final") ~> (c \in DOMAIN settled)

=============================================================================
