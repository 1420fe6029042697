---------------------------- MODULE KeeperProofs ----------------------------
(***************************************************************************)
(* Proofs about Keeper, for any number of claims, crashes, lost outcomes   *)
(* and reorganisations: the keeper pays a claim in one visit only, and     *)
(* what it has put down as settled stays settled.                          *)
(***************************************************************************)
EXTENDS Keeper, TLAPS

\* The state of the process is small records, and so is its tick.
IsState(m) == m = [passed |-> m.passed, subs |-> m.subs, held |-> m.held, done |-> m.done]

USE DEF vars, chain, cardano, process

-----------------------------------------------------------------------------
(***************************************************************************)
(* A claim is paid in one visit of processBatch: one that Cardano was      *)
(* handed a payout of is vouchered, which no query serves any more, and it *)
(* has left the loop over the batch it was paid in.  What was handed over  *)
(* before the current attempt is a stray of an earlier one.                *)
(***************************************************************************)
PaidIsBehind(c) ==
  /\ intent[c] = "Vouchered"
  /\ tick.at \in {"Batches", "Paying"} => c \notin todo

Visit ==
  /\ tick = Paying(tick.claim, tick.attempt, tick.drifts)
  /\ tick.claim \in Claims /\ tick.claim \notin todo
  /\ intent[tick.claim] = "Vouchered"
  /\ tick.attempt \in Nat /\ tick.attempt < FeeSpikeMaxAttempts
  /\ payments[tick.claim] = 0 /\ strays[tick.claim] <= tick.attempt

PayInv ==
  /\ intent \in [Claims -> {"Pending", "Attested", "Vouchered"}]
  /\ payments \in [Claims -> Nat] /\ strays \in [Claims -> Nat]
  /\ "at" \in DOMAIN tick
  /\ tick.at = "Paying" => Visit
  /\ \A c \in Claims : HandedOver(c) > 0 => PaidIsBehind(c)

\* What every step may hand over.
PaysInVisit ==
  \A c \in Claims :
    HandedOver(c)' > HandedOver(c) =>
      /\ tick.at = "Paying" /\ tick.claim = c
      /\ payments[c] = 0 /\ strays[c] <= tick.attempt
      /\ HandedOver(c)' <= FeeSpikeMaxAttempts

\* What most steps do: they pay nothing, serve nothing anew, start no visit,
\* and take no vouchered intent back.
NothingPaid ==
  /\ UNCHANGED <<payments, strays>>
  /\ "at" \in DOMAIN tick'
  /\ tick'.at = "Batches" => tick.at = "Batches" /\ todo' \subseteq todo
  /\ tick'.at = "Paying" => UNCHANGED <<tick, todo>>
  /\ intent' \in [Claims -> {"Pending", "Attested", "Vouchered"}]
  /\ \A c \in Claims : intent[c] = "Vouchered" => intent'[c] = "Vouchered"

\* Such a step keeps the invariant.
LEMMA NothingPaidKeepsPayInv ==
  ASSUME PayInv, NothingPaid
  PROVE  PayInv' /\ PaysInVisit
<1>1. PaysInVisit
  BY DEF NothingPaid, PaysInVisit, HandedOver, PayInv
<1>2. tick'.at = "Paying" => Visit'
  BY DEF PayInv, NothingPaid, Visit, Paying
<1>3. ASSUME NEW c \in Claims, HandedOver(c)' > 0 PROVE PaidIsBehind(c)'
  <2>1. PaidIsBehind(c)
    BY <1>3 DEF PayInv, NothingPaid, HandedOver
  <2> QED
    BY <2>1 DEF PayInv, NothingPaid, PaidIsBehind
<1> QED
  BY <1>1, <1>2, <1>3 DEF PayInv, NothingPaid

\* Steps of the chain, of Cardano and of the extrinsic pool pay nothing.
LEMMA OutsidePaysNothing ==
  ASSUME PayInv, NEW c \in Claims, NEW call \in Calls,
         \/ Advance(c) \/ Finalise(c) \/ Reorganise(c) \/ OtherRequests(c)
         \/ CommitteeAttests(c) \/ OtherReleases(c) \/ Deepen(c) \/ Lose(c)
         \/ Include(call, c) \/ Refuse(call, c) \/ Drop(call, c)
  PROVE  NothingPaid
<1> USE DEF PayInv, NothingPaid
<1>1. CASE Advance(c)
  BY <1>1 DEF Advance
<1>2. CASE Finalise(c) \/ Reorganise(c)
  BY <1>2 DEF Finalise, Reorganise
<1>3. CASE OtherRequests(c) \/ CommitteeAttests(c) \/ OtherReleases(c)
  BY <1>3 DEF OtherRequests, CommitteeAttests, OtherReleases
<1>4. CASE Deepen(c) \/ Lose(c)
  BY <1>4 DEF Deepen, Lose
<1>5. CASE Include(call, c)
  BY <1>5 DEF Include
<1>6. CASE Refuse(call, c) \/ Drop(call, c)
  BY <1>6 DEF Refuse, Drop
<1> QED
  BY <1>1, <1>2, <1>3, <1>4, <1>5, <1>6

\* Leaving a claim, or sending an extrinsic, is not a step into the batches.
LEMMA LeavingTheBatches ==
  ASSUME NEW call, NEW c, NEW age,
         \/ LeaveClaim("Reconcile", c) \/ LeaveClaim("Release", c) \/ Submit(call, c, age)
         \/ tick' = Idle
  PROVE  "at" \in DOMAIN tick' /\ tick'.at \notin {"Batches", "Paying"}
BY DEF LeaveClaim, Submit, Idle

\* Neither do the steps of the keeper other than the query of the batches and
\* its loop over them.
LEMMA LaterStepsPayNothing ==
  ASSUME PayInv,
         \/ AdvanceCursor \/ TickAnswered \/ StartRelease \/ CheckPendingBond
         \/ ReleaseAnswered \/ EndTick \/ GiveUpOnClaim \/ AbortTick
         \/ \E c \in Claims : Reconcile(c) \/ CheckAttestedBond(c)
  PROVE  NothingPaid
<1> USE DEF PayInv, NothingPaid, Outside
<1>1. CASE AdvanceCursor
  BY <1>1 DEF AdvanceCursor
<1>2. ASSUME NEW c \in Claims, Reconcile(c) PROVE NothingPaid
  BY <1>2 DEF Reconcile, LeaveClaim, SettleOnMaterios, Submit
<1>3. CASE TickAnswered
  <2>1. "at" \in DOMAIN tick' /\ tick'.at \notin {"Batches", "Paying"}
    <3>1. \/ Submit("attest", tick.claim, 0)
          \/ LeaveClaim("Reconcile", tick.claim)
      BY <1>3, Zenon DEF TickAnswered
    <3> QED
      BY <3>1, LeavingTheBatches
  <2>2. UNCHANGED <<payments, strays, intent>>
    BY <1>3 DEF TickAnswered
  <2> QED
    BY <2>1, <2>2
<1>4. CASE StartRelease \/ EndTick \/ AbortTick
  BY <1>4 DEF StartRelease, EndTick, AbortTick, Idle
<1>5. CASE CheckPendingBond \/ \E c \in Claims : CheckAttestedBond(c)
  BY <1>5 DEF CheckAttestedBond, CheckPendingBond, LeaveClaim, Submit
<1>6. CASE ReleaseAnswered \/ GiveUpOnClaim
  <2>1. \/ LeaveClaim("Reconcile", tick.claim) \/ LeaveClaim("Release", tick.claim)
        \/ \E c \in todo : LeaveClaim("Reconcile", c) \/ LeaveClaim("Release", c)
    BY <1>6 DEF ReleaseAnswered, GiveUpOnClaim
  <2>2. "at" \in DOMAIN tick' /\ tick'.at \notin {"Batches", "Paying"}
    BY <2>1, LeavingTheBatches
  <2>3. UNCHANGED <<payments, strays, intent>>
    BY <1>6 DEF ReleaseAnswered, GiveUpOnClaim
  <2> QED
    BY <2>2, <2>3
<1> QED
  BY <1>1, <1>2, <1>3, <1>4, <1>5, <1>6

\* A query of the batches serves attested intents, and those are unpaid.
LEMMA StartTickKeepsPayInv ==
  ASSUME PayInv, StartTick
  PROVE  PayInv' /\ PaysInVisit
BY DEF PayInv, PaysInVisit, StartTick, Served, Outside, PaidIsBehind, HandedOver

\* A claim is taken from the loop when its visit starts, so none of it was
\* handed over before.
LEMMA ProcessBatchKeepsPayInv ==
  ASSUME PayInv, NEW c \in Claims, ProcessBatch(c)
  PROVE  PayInv' /\ PaysInVisit
<1>1. /\ tick.at = "Batches" /\ c \in todo /\ todo' = todo \ {c}
      /\ UNCHANGED <<intent, payments, strays>>
  BY DEF ProcessBatch, Outside
<1>2. UNCHANGED tick \/ (intent[c] = "Vouchered" /\ tick' = Paying(c, 0, 0))
  BY DEF ProcessBatch
<1>3. payments[c] = 0 /\ strays[c] = 0
  BY <1>1 DEF PayInv, PaidIsBehind, HandedOver
<1>4. PaysInVisit
  BY <1>1 DEF PaysInVisit, HandedOver, PayInv
<1>5. \A d \in Claims : HandedOver(d)' > 0 => PaidIsBehind(d)'
  BY <1>1 DEF PayInv, PaidIsBehind, HandedOver
<1>6. CASE UNCHANGED tick
  BY <1>1, <1>4, <1>5, <1>6 DEF PayInv
<1>7. CASE intent[c] = "Vouchered" /\ tick' = Paying(c, 0, 0)
  <2>1. "at" \in DOMAIN tick' /\ Visit'
    BY <1>1, <1>3, <1>7, KeeperAssumption DEF Visit, Paying
  <2> QED
    BY <1>1, <1>4, <1>5, <2>1 DEF PayInv
<1> QED
  BY <1>2, <1>6, <1>7

\* A stray of the current attempt is one more than those of the earlier ones.
LEMMA StrayCounts ==
  ASSUME PayInv, tick.at = "Paying", MayStray(tick.claim)
  PROVE  /\ strays' \in [Claims -> Nat] /\ UNCHANGED payments
         /\ strays'[tick.claim] <= tick.attempt + 1
         /\ \A c \in Claims \ {tick.claim} : strays'[c] = strays[c]
         /\ PaysInVisit
<1>1. Visit
  BY DEF PayInv
<1>2. /\ strays' \in [Claims -> Nat] /\ UNCHANGED payments
      /\ strays'[tick.claim] <= tick.attempt + 1
      /\ \A c \in Claims \ {tick.claim} : strays'[c] = strays[c]
  BY <1>1 DEF PayInv, MayStray, Visit
<1>3. PaysInVisit
  BY <1>1, <1>2, KeeperAssumption DEF PayInv, Visit, PaysInVisit, HandedOver
<1> QED
  BY <1>2, <1>3

\* A failed attempt ends the visit, or leaves the claim to the next attempt.
LEMMA FailAttemptKeepsPayInv ==
  ASSUME PayInv, tick.at = "Paying", FailAttempt(tick.claim), UNCHANGED <<intent, todo>>,
         UNCHANGED <<payments, strays>> \/ MayStray(tick.claim)
  PROVE  PayInv' /\ PaysInVisit
<1>1. Visit
  BY DEF PayInv
<1>2. /\ strays' \in [Claims -> Nat] /\ UNCHANGED payments
      /\ strays'[tick.claim] <= tick.attempt + 1
      /\ \A c \in Claims \ {tick.claim} : strays'[c] = strays[c]
      /\ PaysInVisit
  <2>1. CASE UNCHANGED <<payments, strays>>
    BY <1>1, <2>1 DEF PayInv, Visit, PaysInVisit, HandedOver
  <2>2. CASE MayStray(tick.claim)
    BY <2>2, StrayCounts
  <2> QED
    BY <2>1, <2>2
<1>3. ASSUME NEW c \in Claims, HandedOver(c)' > 0
      PROVE  intent'[c] = "Vouchered" /\ c \notin todo'
  BY <1>1, <1>2, <1>3 DEF PayInv, PaidIsBehind, Visit, HandedOver
<1>4. CASE tick' = [at |-> "Batches"]
  BY <1>2, <1>3, <1>4 DEF PayInv, PaidIsBehind
<1>5. CASE /\ tick.attempt + 1 < FeeSpikeMaxAttempts
           /\ tick' = Paying(tick.claim, tick.attempt + 1, 0)
  <2>1. "at" \in DOMAIN tick' /\ Visit'
    BY <1>1, <1>2, <1>5, KeeperAssumption DEF Visit, Paying
  <2> QED
    BY <1>2, <1>3, <2>1 DEF PayInv, PaidIsBehind
<1> QED
  BY <1>4, <1>5 DEF FailAttempt

\* A submission hands over at most one payout, and its return is the last step
\* of the visit.
LEMMA SubmitPayoutKeepsPayInv ==
  ASSUME PayInv, SubmitPayout
  PROVE  PayInv' /\ PaysInVisit
<1> DEFINE c == tick.claim
<1>1. /\ tick.at = "Paying" /\ Visit
      /\ UNCHANGED <<intent, todo>>
  BY DEF SubmitPayout, PayInv
<1>2. CASE /\ payments' = [payments EXCEPT ![c] = @ + 1] /\ UNCHANGED strays
           /\ tick' = [at |-> "Batches"]
  <2>1. payments' \in [Claims -> Nat]
    BY <1>1, <1>2 DEF PayInv, Visit
  <2>2. \A d \in Claims : HandedOver(d)' > 0 => PaidIsBehind(d)'
    BY <1>1, <1>2 DEF PayInv, Visit, PaidIsBehind, HandedOver
  <2>3. PaysInVisit
    BY <1>1, <1>2, KeeperAssumption DEF PayInv, Visit, PaysInVisit, HandedOver
  <2> QED
    BY <1>1, <1>2, <2>1, <2>2, <2>3 DEF PayInv
<1>3. CASE /\ tick' = Paying(c, tick.attempt, tick.drifts + 1)
           /\ UNCHANGED <<payments, strays>>
  <2>1. "at" \in DOMAIN tick' /\ Visit'
    BY <1>1, <1>3 DEF Visit, Paying
  <2>2. PaysInVisit
    BY <1>3 DEF PayInv, PaysInVisit, HandedOver
  <2> QED
    BY <1>1, <1>3, <2>1, <2>2 DEF PayInv, PaidIsBehind, HandedOver
<1>4. CASE FailAttempt(c) /\ (UNCHANGED <<payments, strays>> \/ MayStray(c))
  BY <1>1, <1>4, FailAttemptKeepsPayInv
<1> QED
  BY <1>2, <1>3, <1>4 DEF SubmitPayout

\* A process that dies starts with a tick of its own.
LEMMA CrashKeepsPayInv ==
  ASSUME PayInv, Crash
  PROVE  PayInv' /\ PaysInVisit
<1>1. /\ tick' = Idle /\ todo' = {} /\ UNCHANGED intent
      /\ IF tick.at = "Paying" THEN MayStray(tick.claim) ELSE UNCHANGED cardano
  BY DEF Crash
<1>2. /\ strays' \in [Claims -> Nat] /\ UNCHANGED payments
      /\ \A c \in Claims : strays'[c] = strays[c] \/ intent[c] = "Vouchered"
      /\ PaysInVisit
  <2>1. CASE tick.at = "Paying"
    BY <1>1, <2>1, StrayCounts DEF PayInv, Visit
  <2>2. CASE tick.at # "Paying"
    BY <1>1, <2>2 DEF PayInv, PaysInVisit, HandedOver
  <2> QED
    BY <2>1, <2>2
<1> QED
  BY <1>1, <1>2 DEF PayInv, PaidIsBehind, HandedOver, Idle

\* Every step keeps the invariant, and hands over a payout in a visit only.
LEMMA PayInvNext == PayInv /\ [Next]_vars => PayInv' /\ PaysInVisit
<1> SUFFICES ASSUME PayInv, [Next]_vars PROVE PayInv' /\ PaysInVisit
  OBVIOUS
<1>1. CASE UNCHANGED vars
  BY <1>1, NothingPaidKeepsPayInv DEF PayInv, NothingPaid
<1>2. CASE StartTick
  BY <1>2, StartTickKeepsPayInv
<1>3. ASSUME NEW c \in Claims, ProcessBatch(c) PROVE PayInv' /\ PaysInVisit
  BY <1>3, ProcessBatchKeepsPayInv
<1>4. CASE SubmitPayout
  BY <1>4, SubmitPayoutKeepsPayInv
<1>5. CASE Crash
  BY <1>5, CrashKeepsPayInv
<1>6. CASE \/ AdvanceCursor \/ TickAnswered \/ StartRelease \/ CheckPendingBond
           \/ ReleaseAnswered \/ EndTick \/ GiveUpOnClaim \/ AbortTick
           \/ \E c \in Claims : Reconcile(c) \/ CheckAttestedBond(c)
  BY <1>6, LaterStepsPayNothing, NothingPaidKeepsPayInv
<1>7. CASE NextBlock
  BY <1>7, NothingPaidKeepsPayInv DEF PayInv, NothingPaid, NextBlock
<1>8. ASSUME NEW c \in Claims, NEW call \in Calls,
             \/ Advance(c) \/ Finalise(c) \/ Reorganise(c) \/ OtherRequests(c)
             \/ CommitteeAttests(c) \/ OtherReleases(c) \/ Deepen(c) \/ Lose(c)
             \/ Include(call, c) \/ Refuse(call, c) \/ Drop(call, c)
      PROVE PayInv' /\ PaysInVisit
  BY <1>8, OutsidePaysNothing, NothingPaidKeepsPayInv
<1>9. Calls # {}
  BY DEF Calls
<1> QED
  BY <1>1, <1>2, <1>3, <1>4, <1>5, <1>6, <1>7, <1>8, <1>9 DEF Next, TickStep

\* Nothing is paid at first.
LEMMA PayInvInit == Init => PayInv
BY DEF Init, PayInv, HandedOver, Idle

\* However often the process dies, loses an outcome or takes a payout for
\* orphaned, only the visit that pays a claim hands Cardano another payout of
\* it, and no more of them than it has attempts.
THEOREM PaymentsAreInOneVisit == Spec => PaidInOneVisit
<1>1. PayInv /\ [Next]_vars => [PaysInVisit]_vars
  BY PayInvNext
<1>2. [][PaysInVisit]_vars => PaidInOneVisit
  BY DEF PaysInVisit, PaidInOneVisit
<1> QED
  BY <1>1, <1>2, PayInvInit, PayInvNext, PTL DEF Spec

-----------------------------------------------------------------------------
(***************************************************************************)
(* What is marked stays settled: only a final settlement is put down, a    *)
(* final one is not undone, and a claim that is settled has no request     *)
(* that could settle it again.                                             *)
(***************************************************************************)
SettledRows ==
  \A c \in DOMAIN settled :
    settled[c] = [final |-> settled[c].final, undone |-> settled[c].undone]

\* The outcome of an extrinsic is one that the keeper has a case for.
AnswerKnown ==
  /\ tick.at \in {"Wait", "Answered"} =>
       tick = [at |-> tick.at, call |-> tick.call, claim |-> tick.claim, age |-> tick.age,
               answer |-> tick.answer]
  /\ tick.at = "Answered" /\ tick.call \in Settling =>
       tick.answer \in {"ok", "race", "cannot sign alone", "refused"}

MarkInv ==
  /\ IsState(mem) /\ IsState(disk)
  /\ SettledRows
  /\ DOMAIN requests \cap DOMAIN settled = {}
  /\ \A c \in mem.done \cup disk.done : Final(c)
  /\ AnswerKnown

\* What a step may do to the settlements: the final ones remain, and a claim
\* with a request is not settled.
FinalStays ==
  /\ SettledRows'
  /\ DOMAIN requests' \cap DOMAIN settled' = {}
  /\ \A c : Final(c) => Final(c)'

\* What it may do to the process: only final settlements are marked, and the
\* file holds what the process knew.
MarksFinal ==
  /\ IsState(mem)' /\ IsState(disk)'
  /\ \A c \in mem'.done : c \in mem.done \/ c \in disk.done \/ Final(c)
  /\ \A c \in disk'.done : c \in mem.done \/ c \in disk.done \/ Final(c)

\* A step that does both keeps the invariant.
LEMMA FinalMarksKeepMarkInv ==
  ASSUME MarkInv, FinalStays, MarksFinal, AnswerKnown'
  PROVE  MarkInv'
<1>1. \A c \in mem'.done \cup disk'.done : Final(c)
  BY DEF MarkInv, MarksFinal
<1>2. \A c \in mem'.done \cup disk'.done : Final(c)'
  BY <1>1 DEF FinalStays
<1> QED
  BY <1>2 DEF MarkInv, FinalStays, MarksFinal

\* A settlement is of a claim that has a request, so it replaces none.
LEMMA SettleKeepsFinal ==
  ASSUME MarkInv, NEW c \in DOMAIN requests, Settle(c)
  PROVE  FinalStays
<1>1. c \notin DOMAIN settled
  BY DEF MarkInv
<1>2. /\ DOMAIN settled' = DOMAIN settled \cup {c}
      /\ settled'[c] = [final |-> FALSE, undone |-> {requests[c]}]
      /\ \A d \in DOMAIN settled : settled'[d] = settled[d]
  BY <1>1 DEF Settle, Put, Entry
<1>3. DOMAIN requests' = DOMAIN requests \ {c}
  BY DEF Settle, Remove, Restrict
<1>4. SettledRows'
  BY <1>2 DEF MarkInv, SettledRows
<1> QED
  BY <1>1, <1>2, <1>3, <1>4 DEF MarkInv, FinalStays, Final

\* A request that is filed for a claim that is not settled.
LEMMA FilingKeepsFinal ==
  ASSUME MarkInv, NEW c, c \notin DOMAIN settled, UNCHANGED settled, NEW row,
         requests' = Put(requests, Entry(c, row))
  PROVE  FinalStays
<1>1. DOMAIN requests' = DOMAIN requests \cup {c}
  BY DEF Put, Entry
<1> QED
  BY <1>1 DEF MarkInv, FinalStays, SettledRows, Final

\* A request may also go.
LEMMA FewerRequestsKeepFinal ==
  ASSUME MarkInv, UNCHANGED settled, DOMAIN requests' \subseteq DOMAIN requests
  PROVE  FinalStays
BY DEF MarkInv, FinalStays, SettledRows, Final

\* A released bond takes at most a request with it.
LEMMA ReleaseKeepsFinal ==
  ASSUME MarkInv, NEW c, Release(c)
  PROVE  FinalStays
<1>1. UNCHANGED settled /\ DOMAIN requests' \subseteq DOMAIN requests
  BY DEF Release, Remove, Restrict
<1> QED
  BY <1>1, FewerRequestsKeepFinal

\* An extrinsic of the keeper, whenever a block takes it, meets the chain as
\* it is then.
LEMMA IncludeKeepsFinal ==
  ASSUME MarkInv, NEW c \in Claims, NEW call \in Calls, Include(call, c)
  PROVE  FinalStays
<1>1. CASE Answer(call, c) # "ok"
  <2>1. UNCHANGED <<requests, settled>>
    BY <1>1 DEF Include
  <2> QED
    BY <2>1, FewerRequestsKeepFinal
<1>2. CASE Answer(call, c) = "ok"
  <2>1. Effect(call, c)
    BY <1>2 DEF Include
  <2>2. CASE call = "request"
    <3>1. c \notin DOMAIN settled
      BY <1>2, <2>2 DEF Answer
    <3> QED
      BY <2>1, <2>2, <3>1, FilingKeepsFinal DEF Effect
  <2>3. CASE call = "supersede"
    <3>1. c \in DOMAIN requests
      BY <1>2, <2>3 DEF Answer
    <3> QED
      BY <2>1, <2>3, <3>1, SettleKeepsFinal DEF Effect
  <2>4. CASE call = "attest"
    <3>1. c \in DOMAIN requests
      BY <1>2, <2>4 DEF Answer
    <3> QED
      BY <2>1, <2>4, <3>1, SettleKeepsFinal DEF Effect, Attest
  <2>5. CASE call = "release"
    BY <2>1, <2>5, ReleaseKeepsFinal DEF Effect
  <2> QED
    BY <2>2, <2>3, <2>4, <2>5 DEF Calls, Settling
<1> QED
  BY <1>1, <1>2

\* A reorganisation undoes a settlement that is not final.
LEMMA ReorganiseKeepsFinal ==
  ASSUME MarkInv, NEW c \in Claims, Reorganise(c)
  PROVE  FinalStays
<1>1. /\ c \in DOMAIN settled /\ ~ Final(c)
      /\ DOMAIN settled' = DOMAIN settled \ {c}
      /\ \A d \in DOMAIN settled \ {c} : settled'[d] = settled[d]
  BY DEF Reorganise, Remove, Restrict, Final
<1>2. DOMAIN requests' = DOMAIN requests \cup {c}
  BY DEF Reorganise, Put, Entry
<1>3. SettledRows'
  BY <1>1 DEF MarkInv, SettledRows
<1> QED
  BY <1>1, <1>2, <1>3 DEF MarkInv, FinalStays, Final

\* A block ages everything, and settles nothing.
LEMMA NextBlockKeepsFinal ==
  ASSUME MarkInv, NextBlock
  PROVE  FinalStays
<1>1. DOMAIN settled' = DOMAIN settled /\ DOMAIN requests' = DOMAIN requests
  BY DEF NextBlock
<1>2. ASSUME NEW c \in DOMAIN settled
      PROVE  settled'[c] = [final |-> settled[c].final,
                            undone |-> {Aged(r) : r \in settled[c].undone}]
  <2>1. settled[c] = [final |-> settled[c].final, undone |-> settled[c].undone]
    BY DEF MarkInv, SettledRows
  <2>2. settled'[c] = [settled[c] EXCEPT !.undone = {Aged(r) : r \in @}]
    BY DEF NextBlock
  <2> QED
    BY <2>1, <2>2
<1>3. SettledRows'
  BY <1>1, <1>2 DEF SettledRows
<1> QED
  BY <1>1, <1>2, <1>3 DEF MarkInv, FinalStays, Final

\* The steps of the chain and of Cardano keep every final settlement.
LEMMA OutsideKeepsFinal ==
  ASSUME MarkInv, NEW c \in Claims, NEW call \in Calls,
         \/ Advance(c) \/ Finalise(c) \/ Reorganise(c) \/ OtherRequests(c)
         \/ CommitteeAttests(c) \/ OtherReleases(c) \/ Deepen(c) \/ Lose(c)
         \/ Include(call, c) \/ Refuse(call, c) \/ Drop(call, c)
  PROVE  FinalStays
<1>1. CASE Advance(c) \/ Deepen(c) \/ Lose(c) \/ Refuse(call, c) \/ Drop(call, c)
  <2>1. UNCHANGED <<requests, settled>>
    BY <1>1 DEF Advance, Deepen, Lose, Refuse, Drop
  <2> QED
    BY <2>1, FewerRequestsKeepFinal
<1>2. CASE Finalise(c)
  BY <1>2 DEF Finalise, MarkInv, FinalStays, SettledRows, Final
<1>3. CASE Reorganise(c)
  BY <1>3, ReorganiseKeepsFinal
<1>4. CASE OtherRequests(c)
  BY <1>4, FilingKeepsFinal DEF OtherRequests
<1>5. CASE CommitteeAttests(c)
  BY <1>5, SettleKeepsFinal DEF CommitteeAttests, FreshRequest, Attest
<1>6. CASE OtherReleases(c)
  BY <1>6, ReleaseKeepsFinal DEF OtherReleases
<1>7. CASE Include(call, c)
  BY <1>7, IncludeKeepsFinal
<1> QED
  BY <1>1, <1>2, <1>3, <1>4, <1>5, <1>6, <1>7

\* The same steps leave the state of the process alone.
LEMMA OutsideMarksNothing ==
  ASSUME MarkInv, NEW c \in Claims, NEW call \in Calls,
         \/ Advance(c) \/ Finalise(c) \/ Reorganise(c) \/ OtherRequests(c)
         \/ CommitteeAttests(c) \/ OtherReleases(c) \/ Deepen(c) \/ Lose(c)
         \/ Include(call, c) \/ Refuse(call, c) \/ Drop(call, c)
  PROVE  MarksFinal
<1>1. UNCHANGED <<mem, disk>>
  BY DEF Advance, Finalise, Reorganise, OtherRequests, CommitteeAttests, OtherReleases,
         Deepen, Lose, Include, Refuse, Drop
<1> QED
  BY <1>1 DEF MarkInv, MarksFinal, IsState

\* The state m may replace that of the process: it marks only final ones.
MayReplace(m) == IsState(m) /\ \A c \in m.done : c \in mem.done \/ c \in disk.done \/ Final(c)

\* A submission, a bond and a mark change the state in their places only.
LEMMA StatesOf ==
  ASSUME MarkInv, NEW m, MayReplace(m), NEW c
  PROVE  /\ \A sub : MayReplace(UpdateSubmission(m, c, sub))
         /\ MayReplace(TrackBond(m, c))
         /\ MayReplace(UntrackBond(m, c))
         /\ MayReplace(MarkIfFinalized(m, c))
         /\ MayReplace(BackOff(m, c))
         /\ \A age : MayReplace(AwaitExpiry(m, c, age))
<1>1. ASSUME NEW n, MayReplace(n), NEW sub PROVE MayReplace(UpdateSubmission(n, c, sub))
  BY <1>1 DEF MayReplace, IsState, UpdateSubmission
<1>2. MayReplace(TrackBond(m, c))
  <2>1. m = [passed |-> m.passed, subs |-> m.subs, held |-> m.held, done |-> m.done]
    BY DEF MayReplace, IsState
  <2>2. TrackBond(m, c) = [passed |-> m.passed, subs |-> m.subs, held |-> m.held \cup {c},
                           done |-> m.done]
    BY <2>1 DEF TrackBond
  <2> QED
    BY <2>2 DEF MayReplace, IsState
<1>3. MayReplace(UntrackBond(m, c))
  BY DEF MayReplace, IsState, UntrackBond
<1>4. MayReplace(BackOff(m, c))
  BY <1>1 DEF BackOff
<1>5. \A age : MayReplace(AwaitExpiry(m, c, age))
  BY <1>1 DEF AwaitExpiry
<1>6. MayReplace(MarkIfFinalized(m, c))
  <2>1. CASE ~ Finalised(c)
    BY <2>1 DEF MarkIfFinalized
  <2>2. CASE Finalised(c)
    <3> DEFINE n == UpdateSubmission(TrackBond(m, c), c, [m.subs[c] EXCEPT !.state = "confirmed"])
    <3>1. MayReplace(n)
      BY <1>1, <1>2
    <3>2. MarkIfFinalized(m, c) = [n EXCEPT !.done = @ \cup {c}]
      BY <2>2 DEF MarkIfFinalized
    <3> HIDE DEF n
    <3> QED
      BY <2>2, <3>1, <3>2 DEF MayReplace, IsState, Finalised
  <2> QED
    BY <2>1, <2>2
<1> QED
  BY <1>1, <1>2, <1>3, <1>4, <1>5, <1>6

\* The process may always go on as it is, or from its file.
LEMMA OldStates == MarkInv => MayReplace(mem) /\ MayReplace(disk)
BY DEF MarkInv, MayReplace

\* The loop over the batches marks nothing.
LEMMA ProcessBatchMarksNothing ==
  ASSUME MarkInv, NEW c \in Claims, ProcessBatch(c)
  PROVE  MayReplace(mem') /\ UNCHANGED disk
<1> DEFINE m == IF c \in DOMAIN mem.subs THEN mem ELSE UpdateSubmission(mem, c, Observed)
<1>1. MayReplace(mem)
  BY OldStates
<1>2. MayReplace(m)
  BY <1>1, StatesOf
<1>3. UNCHANGED disk
  BY DEF ProcessBatch
<1>4. mem' \in {mem, m} \/ \E sub : mem' = UpdateSubmission(m, c, sub)
  BY DEF ProcessBatch, SetState
<1> HIDE DEF m
<1>5. \A sub : MayReplace(UpdateSubmission(m, c, sub))
  BY <1>2, StatesOf
<1> QED
  BY <1>1, <1>2, <1>3, <1>4, <1>5

\* Neither does a submission.
LEMMA SubmitPayoutMarksNothing ==
  ASSUME MarkInv, SubmitPayout
  PROVE  MayReplace(mem') /\ UNCHANGED disk
<1>1. mem' = mem \/ \E sub : mem' = UpdateSubmission(mem, tick.claim, sub)
  BY DEF SubmitPayout, FailAttempt, SetState
<1>2. UNCHANGED disk
  BY DEF SubmitPayout
<1> QED
  BY <1>1, <1>2, OldStates, StatesOf

\* settleOnMaterios marks a settlement once it is final.
LEMMA SettleOnMateriosMarksFinal ==
  ASSUME MarkInv, NEW m, MayReplace(m), NEW c, SettleOnMaterios(m, c)
  PROVE  MayReplace(mem') /\ (disk' = mem' \/ UNCHANGED disk)
<1>1. mem' \in {m, MarkIfFinalized(m, c), TrackBond(m, c)}
  BY DEF SettleOnMaterios
<1>2. disk' = mem' \/ UNCHANGED disk
  BY DEF SettleOnMaterios
<1> QED
  BY <1>1, <1>2, StatesOf

\* So does the loop over the payouts.
LEMMA ReconcileMarksFinal ==
  ASSUME MarkInv, NEW c \in Claims, Reconcile(c)
  PROVE  MayReplace(mem') /\ (disk' = mem' \/ UNCHANGED disk)
<1>1. MayReplace(mem)
  BY OldStates
<1>2. CASE mem' \in {mem, MarkIfFinalized(mem, c)} /\ UNCHANGED disk
  BY <1>1, <1>2, StatesOf
<1>3. ASSUME NEW sub, mem' = UpdateSubmission(mem, c, sub) /\ UNCHANGED disk
      PROVE  MayReplace(mem')
  BY <1>1, <1>3, StatesOf
<1>4. ASSUME NEW sub, SettleOnMaterios(UpdateSubmission(mem, c, sub), c)
      PROVE  MayReplace(mem') /\ (disk' = mem' \/ UNCHANGED disk)
  <2>1. MayReplace(UpdateSubmission(mem, c, sub))
    BY <1>1, StatesOf
  <2> QED
    BY <1>4, <2>1, SettleOnMateriosMarksFinal
<1>5. \/ mem' \in {mem, MarkIfFinalized(mem, c)} /\ UNCHANGED disk
      \/ \E sub : mem' = UpdateSubmission(mem, c, sub) /\ UNCHANGED disk
      \/ \E sub : SettleOnMaterios(UpdateSubmission(mem, c, sub), c)
  BY DEF Reconcile
<1> QED
  BY <1>2, <1>3, <1>4, <1>5

\* So does what follows the answer to an extrinsic.
LEMMA TickAnsweredMarksFinal ==
  ASSUME MarkInv, TickAnswered
  PROVE  MayReplace(mem') /\ UNCHANGED disk
<1> DEFINE c == tick.claim
<1>1. MayReplace(mem)
  BY OldStates
<1>2. tick.answer \in {"ok", "race", "cannot sign alone", "refused"}
  BY DEF TickAnswered, MarkInv, AnswerKnown
<1>3. \/ mem' \in {mem, MarkIfFinalized(mem, c), BackOff(mem, c)}
      \/ \E age : mem' = AwaitExpiry(mem, c, age)
  BY <1>2 DEF TickAnswered
<1>4. UNCHANGED disk
  BY DEF TickAnswered
<1> HIDE DEF c
<1> QED
  BY <1>1, <1>3, <1>4, StatesOf

\* The other steps of the process mark nothing.
LEMMA OtherStepsMarkNothing ==
  ASSUME MarkInv,
         \/ StartTick \/ AdvanceCursor \/ StartRelease \/ CheckPendingBond \/ ReleaseAnswered
         \/ EndTick \/ GiveUpOnClaim \/ AbortTick \/ Crash
         \/ \E c \in Claims : CheckAttestedBond(c)
  PROVE  MayReplace(mem') /\ disk' \in {mem, disk}
<1>1. MayReplace(mem) /\ MayReplace(disk)
  BY OldStates
<1>2. CASE StartTick \/ StartRelease \/ EndTick \/ GiveUpOnClaim \/ AbortTick \/ Crash
  BY <1>1, <1>2 DEF StartTick, StartRelease, EndTick, GiveUpOnClaim, AbortTick, Crash
<1>3. CASE AdvanceCursor
  <2>1. PICK passed, held :
          mem' = [mem EXCEPT !.passed = passed, !.held = held]
    BY <1>3 DEF AdvanceCursor
  <2> QED
    BY <1>1, <1>3, <2>1 DEF AdvanceCursor, MayReplace, IsState
<1>4. CASE CheckPendingBond \/ ReleaseAnswered
  <2>1. mem' \in {mem, UntrackBond(mem, tick.claim)} /\ UNCHANGED disk
    BY <1>4 DEF CheckPendingBond, ReleaseAnswered
  <2> QED
    BY <1>1, <2>1, StatesOf
<1>5. ASSUME NEW c \in Claims, CheckAttestedBond(c)
      PROVE  MayReplace(mem') /\ UNCHANGED disk
  <2>1. mem' \in {mem, UntrackBond(mem, c)} /\ UNCHANGED disk
    BY <1>5 DEF CheckAttestedBond
  <2> QED
    BY <1>1, <2>1, StatesOf
<1> QED
  BY <1>2, <1>3, <1>4, <1>5

\* A step of the process leaves the settlements to the chain.
LEMMA ProcessKeepsFinal ==
  ASSUME MarkInv, TickStep \/ GiveUpOnClaim \/ AbortTick \/ Crash
  PROVE  FinalStays
<1>1. UNCHANGED <<requests, settled>>
  BY DEF TickStep, StartTick, ProcessBatch, SubmitPayout, AdvanceCursor, Reconcile, TickAnswered,
         StartRelease, CheckAttestedBond, CheckPendingBond, ReleaseAnswered, EndTick,
         GiveUpOnClaim, AbortTick, Crash, Outside
<1> QED
  BY <1>1, FewerRequestsKeepFinal

\* Outside an extrinsic there is nothing to know.
LEMMA LeavingIsKnown ==
  ASSUME NEW call \in Calls, NEW c, NEW age,
         \/ LeaveClaim("Reconcile", c) \/ LeaveClaim("Release", c) \/ Submit(call, c, age)
         \/ tick' = Idle \/ tick'.at = "Batches" \/ tick'.at = "Paying" \/ tick'.at = "Reconcile"
         \/ tick'.at = "Release" \/ tick'.at = "Pending"
  PROVE  AnswerKnown'
<1>1. CASE Submit(call, c, age)
  <2>1. tick' = [at |-> "Wait", call |-> call, claim |-> c, age |-> age, answer |-> "none"]
    BY <1>1 DEF Submit
  <2> QED
    BY <2>1 DEF AnswerKnown
<1>2. CASE ~ Submit(call, c, age)
  <2>1. tick'.at \notin {"Wait", "Answered"}
    BY <1>2 DEF LeaveClaim, Idle
  <2> QED
    BY <2>1 DEF AnswerKnown
<1> QED
  BY <1>1, <1>2

\* An extrinsic that is included or refused gets an answer of its kind.
LEMMA InclusionIsKnown ==
  ASSUME AnswerKnown, NEW c \in Claims, NEW call \in Calls, Include(call, c) \/ Refuse(call, c)
  PROVE  AnswerKnown'
<1>1. UNCHANGED tick \/ \E answer :
        /\ tick.at = "Wait" /\ tick.call = call
        /\ tick' = [tick EXCEPT !.at = "Answered", !.answer = answer]
        /\ answer = "refused" \/ answer = Answer(call, c)
  BY DEF Include, Refuse
<1>2. CASE UNCHANGED tick
  BY <1>2 DEF AnswerKnown
<1>3. ASSUME NEW answer, tick.at = "Wait", tick.call = call,
             tick' = [tick EXCEPT !.at = "Answered", !.answer = answer],
             answer = "refused" \/ answer = Answer(call, c)
      PROVE  AnswerKnown'
  <2>1. tick = [at |-> tick.at, call |-> tick.call, claim |-> tick.claim, age |-> tick.age,
                answer |-> tick.answer]
    BY <1>3 DEF AnswerKnown
  <2>2. tick' = [at |-> "Answered", call |-> call, claim |-> tick.claim, age |-> tick.age,
                 answer |-> answer]
    BY <1>3, <2>1
  <2>3. call \in Settling => answer \in {"ok", "race", "cannot sign alone", "refused"}
    BY <1>3 DEF Answer, Settling
  <2> QED
    BY <2>2, <2>3 DEF AnswerKnown
<1> QED
  BY <1>1, <1>2, <1>3

\* The steps of the process meet no answer they have no case for.
LEMMA ProcessIsKnown ==
  ASSUME MarkInv, TickStep \/ GiveUpOnClaim \/ AbortTick \/ Crash
  PROVE  AnswerKnown'
<1>1. CASE \E c \in Claims : ProcessBatch(c)
  <2>1. UNCHANGED tick \/ tick'.at = "Paying"
    BY <1>1 DEF ProcessBatch, Paying
  <2> QED
    BY <2>1, LeavingIsKnown DEF MarkInv, AnswerKnown, Calls
<1>2. CASE StartTick \/ SubmitPayout \/ AdvanceCursor \/ StartRelease
  <2>1. tick'.at \in {"Batches", "Paying", "Reconcile", "Release"}
    BY <1>2 DEF StartTick, SubmitPayout, FailAttempt, Paying, AdvanceCursor, StartRelease
  <2> QED
    BY <2>1, LeavingIsKnown DEF Calls
<1>3. CASE EndTick \/ AbortTick \/ Crash
  BY <1>3, LeavingIsKnown DEF EndTick, AbortTick, Crash, Calls
<1>4. ASSUME NEW c \in Claims, Reconcile(c) PROVE AnswerKnown'
  <2>1. \/ LeaveClaim("Reconcile", c)
        \/ \E call \in Calls : \E age : Submit(call, c, age)
    BY <1>4 DEF Reconcile, SettleOnMaterios, Calls, Settling
  <2> QED
    BY <2>1, LeavingIsKnown DEF Calls
<1>5. CASE TickAnswered
  <2>1. \/ Submit("attest", tick.claim, 0)
        \/ LeaveClaim("Reconcile", tick.claim)
    BY <1>5, Zenon DEF TickAnswered
  <2> QED
    BY <2>1, LeavingIsKnown DEF Calls, Settling
<1>6. CASE CheckPendingBond \/ \E c \in Claims : CheckAttestedBond(c)
  <2>1. \/ tick'.at = "Pending"
        \/ \E c : LeaveClaim("Release", c) \/ Submit("release", c, 0)
    BY <1>6 DEF CheckPendingBond, CheckAttestedBond
  <2> QED
    BY <2>1, LeavingIsKnown DEF Calls
<1>7. CASE ReleaseAnswered \/ GiveUpOnClaim
  <2>1. \/ LeaveClaim("Reconcile", tick.claim) \/ LeaveClaim("Release", tick.claim)
        \/ \E c \in todo : LeaveClaim("Reconcile", c) \/ LeaveClaim("Release", c)
    BY <1>7 DEF ReleaseAnswered, GiveUpOnClaim
  <2> QED
    BY <2>1, LeavingIsKnown DEF Calls
<1> QED
  BY <1>1, <1>2, <1>3, <1>4, <1>5, <1>6, <1>7 DEF TickStep

\* The steps around it leave the tick alone, but for the answers.
LEMMA OutsideIsKnown ==
  ASSUME MarkInv, NEW c \in Claims, NEW call \in Calls,
         \/ Advance(c) \/ Finalise(c) \/ Reorganise(c) \/ OtherRequests(c)
         \/ CommitteeAttests(c) \/ OtherReleases(c) \/ Deepen(c) \/ Lose(c)
         \/ Include(call, c) \/ Refuse(call, c) \/ Drop(call, c)
  PROVE  AnswerKnown'
<1>1. CASE Include(call, c) \/ Refuse(call, c)
  BY <1>1, InclusionIsKnown DEF MarkInv
<1>2. CASE ~ (Include(call, c) \/ Refuse(call, c))
  <2>1. UNCHANGED tick
    BY <1>2 DEF Advance, Finalise, Reorganise, OtherRequests, CommitteeAttests,
                OtherReleases, Deepen, Lose, Drop
  <2> QED
    BY <2>1 DEF MarkInv, AnswerKnown
<1> QED
  BY <1>1, <1>2

\* A step of the process marks final settlements only.
LEMMA ProcessMarksFinal ==
  ASSUME MarkInv, TickStep \/ GiveUpOnClaim \/ AbortTick \/ Crash
  PROVE  MarksFinal
<1>1. MayReplace(mem) /\ MayReplace(disk)
  BY OldStates
<1>2. MayReplace(mem') /\ disk' \in {mem, disk, mem'}
  BY ProcessBatchMarksNothing, SubmitPayoutMarksNothing, ReconcileMarksFinal, TickAnsweredMarksFinal,
     OtherStepsMarkNothing DEF TickStep
<1> QED
  BY <1>1, <1>2 DEF MayReplace, MarksFinal, IsState

\* Every step keeps the invariant.
LEMMA MarkInvNext == MarkInv /\ [Next]_vars => MarkInv'
<1> SUFFICES ASSUME MarkInv, [Next]_vars PROVE MarkInv'
  OBVIOUS
<1>1. CASE UNCHANGED vars
  BY <1>1 DEF MarkInv, IsState, SettledRows, Final, AnswerKnown
<1>2. CASE TickStep \/ GiveUpOnClaim \/ AbortTick \/ Crash
  BY <1>2, ProcessKeepsFinal, ProcessMarksFinal, ProcessIsKnown, FinalMarksKeepMarkInv
<1>3. ASSUME NEW c \in Claims, NEW call \in Calls,
             \/ Advance(c) \/ Finalise(c) \/ Reorganise(c) \/ OtherRequests(c)
             \/ CommitteeAttests(c) \/ OtherReleases(c) \/ Deepen(c) \/ Lose(c)
             \/ Include(call, c) \/ Refuse(call, c) \/ Drop(call, c)
      PROVE  MarkInv'
  BY <1>3, OutsideKeepsFinal, OutsideMarksNothing, OutsideIsKnown, FinalMarksKeepMarkInv
<1>4. CASE NextBlock
  <2>1. FinalStays
    BY <1>4, NextBlockKeepsFinal
  <2>2. mem' = Waiting(mem) /\ disk' = Waiting(disk) /\ UNCHANGED tick
    BY <1>4 DEF NextBlock
  <2>3. MarksFinal
    BY <2>2 DEF MarkInv, MarksFinal, IsState, Waiting
  <2>4. AnswerKnown'
    BY <2>2 DEF MarkInv, AnswerKnown
  <2> QED
    BY <2>1, <2>3, <2>4, FinalMarksKeepMarkInv
<1>5. Calls # {}
  BY DEF Calls
<1> QED
  BY <1>1, <1>2, <1>3, <1>4, <1>5 DEF Next

\* Nothing is settled at first.
LEMMA MarkInvInit == Init => MarkInv
BY DEF Init, MarkInv, IsState, SettledRows, AnswerKnown, EmptyState, Idle, NoRows

\* What the keeper has put down as settled, in memory or on disk, is settled
\* on the best chain, whatever blocks are undone and however often it restarts.
THEOREM MarkedClaimsStaySettled == Spec => []MarkedStaysSettled
<1>1. MarkInv => MarkedStaysSettled
  BY DEF MarkInv, MarkedStaysSettled, Final
<1> QED
  BY <1>1, MarkInvInit, MarkInvNext, PTL DEF Spec

=============================================================================
