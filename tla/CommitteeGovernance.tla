------------------------- MODULE CommitteeGovernance -------------------------
(***************************************************************************)
(* pallet-committee-governance: the committee's seats and threshold, which *)
(* IntentPipeline sees change in RotateCommittee.  Root queues events in   *)
(* the one pending rotation; once its timelock is over anyone executes it, *)
(* whole and in order, or not at all; Root may cancel it before.           *)
(***************************************************************************)
EXTENDS Integers, FiniteSets, SequencesExt

CONSTANTS
  Keys,                 \* committee public keys
  ThresholdInputs,      \* values Root passes to propose_threshold_change
  TimelockInputs,       \* values Root passes to set_rotation_timelock
  GenesisMembers,       \* Members of the genesis config
  GenesisThreshold,
  GenesisTimelock,
  DefaultRotationTimelock,
  MaxCommittee,
  MaxRotationEvents,
  Horizon               \* bound: the last block

\* A chain starts with no committee, seeded by a first rotation, or with one
\* that its threshold fits.
ASSUME GenesisAssumption ==
  /\ GenesisMembers \in Seq(Keys)
  /\ Len(GenesisMembers) <= MaxCommittee
  /\ IF GenesisMembers = <<>> THEN GenesisThreshold = 0
                              ELSE GenesisThreshold \in 1 .. Len(GenesisMembers)

ASSUME RangesAssumption ==
  /\ ThresholdInputs \cup TimelockInputs \subseteq Nat
  /\ {GenesisTimelock, MaxCommittee, MaxRotationEvents} \subseteq Nat
  /\ {DefaultRotationTimelock, Horizon} \subseteq Nat \ {0}

VARIABLES
  block,                \* frame_system block number
  members,              \* Members: seats, a sequence of keys
  threshold,            \* Threshold
  rotationTimelock,     \* RotationTimelock
  pendingRotation,      \* PendingRotation
  cardanoMirrorState    \* CardanoMirrorState: committee and block last mirrored

vars == <<block, members, threshold, rotationTimelock, pendingRotation,
          cardanoMirrorState>>

Blocks == 1 .. Horizon

Event ==
  [type : {"Added"}, pubkey : Keys]
    \cup [type : {"Removed"}, pubkey : Keys]
    \cup [type : {"RotatedPubkey"}, old : Keys, new : Keys]
    \cup [type : {"ExpandedThreshold"}, threshold : ThresholdInputs]

Schedule == [events : Seq(Event), proposedBlock : Blocks, effectiveBlock : Blocks]

\* The None of the Option: a schedule is stored with its first event in it.
NoRotation == [events |-> <<>>, proposedBlock |-> 1, effectiveBlock |-> 1]

NoMirror == [members |-> <<>>, threshold |-> 0, block |-> 0]

TypeOK ==
  /\ block \in Blocks
  /\ members \in Seq(Keys) /\ Len(members) <= MaxCommittee
  /\ threshold \in Nat
  /\ rotationTimelock \in Nat \ {0}
  /\ pendingRotation \in Schedule
  /\ Len(pendingRotation.events) <= MaxRotationEvents
  /\ cardanoMirrorState \in [members : Seq(Keys), threshold : Nat, block : {0} \cup Blocks]

Init ==
  /\ block = 1
  /\ members = GenesisMembers
  /\ threshold = GenesisThreshold
  /\ rotationTimelock = IF GenesisTimelock = 0 THEN DefaultRotationTimelock
                                               ELSE GenesisTimelock
  /\ pendingRotation = NoRotation
  /\ cardanoMirrorState = NoMirror

(***************************************************************************)
(* append_rotation_event, where every proposal ends.  A schedule keeps the *)
(* effective block its first event gave it.                                *)
(***************************************************************************)
EffectiveBlock ==
  block + (IF rotationTimelock = 0 THEN DefaultRotationTimelock ELSE rotationTimelock)

AppendRotationEvent(ev) ==
  LET sched == IF pendingRotation = NoRotation
               THEN [events |-> <<>>, proposedBlock |-> block,
                     effectiveBlock |-> EffectiveBlock]
               ELSE pendingRotation
  IN  /\ Len(sched.events) < MaxRotationEvents
      /\ sched.effectiveBlock <= Horizon
      /\ pendingRotation' = [sched EXCEPT !.events = Append(@, ev)]
      /\ UNCHANGED <<block, members, threshold, rotationTimelock, cardanoMirrorState>>

ProposeAddMember(k) == AppendRotationEvent([type |-> "Added", pubkey |-> k])

ProposeRemoveMember(k) == AppendRotationEvent([type |-> "Removed", pubkey |-> k])

ProposeRotatePubkey(old, new) ==
  AppendRotationEvent([type |-> "RotatedPubkey", old |-> old, new |-> new])

\* The seats there will be, as far as the pending events tell.
Pending(type) ==
  Cardinality({j \in DOMAIN pendingRotation.events : pendingRotation.events[j].type = type})

\* Faulty variant: pending removals are left out.
SeatsAfter_AddsOnly == Len(members) + Pending("Added")

SeatsAfter == Len(members) + Pending("Added") - Pending("Removed")

ProposeThresholdChange(new) ==
  /\ new >= 1
  /\ new <= IF SeatsAfter > 1 THEN SeatsAfter ELSE 1
  /\ AppendRotationEvent([type |-> "ExpandedThreshold", threshold |-> new])

(***************************************************************************)
(* execute_rotation, by anyone.  The events apply in order to a committee  *)
(* [members, threshold, valid]; one that does not apply, or a result whose *)
(* threshold does not fit, fails the call and leaves the schedule pending. *)
(***************************************************************************)
Seat(c, k) == SelectInSeq(c.members, LAMBDA m : m = k)

\* Faulty variant: the bound of the committee is not checked.
Full_Never(c) == FALSE

Full(c) == Len(c.members) >= MaxCommittee

Apply(c, ev) ==
  CASE ~c.valid -> c
    [] c.valid /\ ev.type = "Added" ->
         [c EXCEPT !.valid = ev.pubkey \notin ToSet(c.members) /\ ~Full(c),
                   !.members = Append(@, ev.pubkey)]
    [] c.valid /\ ev.type = "Removed" ->
         [c EXCEPT !.valid = ev.pubkey \in ToSet(c.members),
                   !.members = RemoveFirst(@, ev.pubkey)]
    [] c.valid /\ ev.type = "RotatedPubkey" ->
         IF ev.old \in ToSet(c.members)
         THEN [c EXCEPT !.members = ReplaceAt(@, Seat(c, ev.old), ev.new)]
         ELSE [c EXCEPT !.valid = FALSE]
    [] c.valid /\ ev.type = "ExpandedThreshold" ->
         LET fit == IF ev.threshold > Len(c.members) THEN Len(c.members) ELSE ev.threshold
         IN  [c EXCEPT !.threshold = IF fit < 1 THEN 1 ELSE fit]

\* The committee after the first n events.
CommitteeAfter[n \in 0 .. Len(pendingRotation.events)] ==
  IF n = 0 THEN [members |-> members, threshold |-> threshold, valid |-> TRUE]
           ELSE Apply(CommitteeAfter[n - 1], pendingRotation.events[n])

Rotated == CommitteeAfter[Len(pendingRotation.events)]

\* Faulty variant: the result is stored as it comes.
Sane_Unchecked(c) == c.valid

Sane(c) == c.valid /\ c.threshold \in 1 .. Len(c.members)

ExecuteRotation ==
  /\ pendingRotation # NoRotation
  /\ block >= pendingRotation.effectiveBlock
  /\ Sane(Rotated)
  /\ members' = Rotated.members
  /\ threshold' = Rotated.threshold
  /\ pendingRotation' = NoRotation
  /\ UNCHANGED <<block, rotationTimelock, cardanoMirrorState>>

\* cancel_pending_rotation, by Root.
CancelPendingRotation ==
  /\ pendingRotation # NoRotation
  /\ pendingRotation' = NoRotation
  /\ UNCHANGED <<block, members, threshold, rotationTimelock, cardanoMirrorState>>

\* set_rotation_timelock, by Root: a schedule already pending keeps its block.
SetRotationTimelock(blocks) ==
  /\ rotationTimelock' = IF blocks < 1 THEN 1 ELSE blocks
  /\ UNCHANGED <<block, members, threshold, pendingRotation, cardanoMirrorState>>

\* mirror_to_cardano, by anyone: the digest of the committee as it stands.
MirrorToCardano ==
  /\ cardanoMirrorState' = [members |-> members, threshold |-> threshold, block |-> block]
  /\ UNCHANGED <<block, members, threshold, rotationTimelock, pendingRotation>>

NextBlock ==
  /\ block < Horizon
  /\ block' = block + 1
  /\ UNCHANGED <<members, threshold, rotationTimelock, pendingRotation, cardanoMirrorState>>

RootCall ==
  \/ \E k \in Keys : ProposeAddMember(k) \/ ProposeRemoveMember(k)
  \/ \E old, new \in Keys : ProposeRotatePubkey(old, new)
  \/ \E new \in ThresholdInputs : ProposeThresholdChange(new)
  \/ CancelPendingRotation
  \/ \E blocks \in TimelockInputs : SetRotationTimelock(blocks)

Next == NextBlock \/ RootCall \/ ExecuteRotation \/ MirrorToCardano

Spec == Init /\ [][Next]_vars

-----------------------------------------------------------------------------
(***************************************************************************)
(* Properties.                                                             *)
(***************************************************************************)
\* Once there is a committee its threshold fits its seats, whatever bundle of
\* additions, removals and threshold changes was executed.
ThresholdFitsSeats == members = <<>> \/ threshold \in 1 .. Len(members)

\* The threshold that a proposal was accepted with and announced is the one
\* that takes effect, and without one the threshold stays: executed bundles
\* never clamp it, since the seats counted at the proposal are the seats there
\* are when the event's turn comes.  Nothing else changes it.
AnnouncedThreshold ==
  LET events == pendingRotation.events
      proposed == {j \in DOMAIN events : events[j].type = "ExpandedThreshold"}
  IN  IF proposed = {} THEN threshold ELSE events[Max(proposed)].threshold

AnnouncedThresholdTakesEffect ==
  [][/\ ExecuteRotation => threshold' = AnnouncedThreshold
     /\ threshold' # threshold => ExecuteRotation]_vars

=============================================================================
