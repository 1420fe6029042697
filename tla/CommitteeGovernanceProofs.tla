---------------------- MODULE CommitteeGovernanceProofs ----------------------
(***************************************************************************)
(* Proofs about CommitteeGovernance for every value of its constants: its  *)
(* types, that the threshold fits the seats, and that a bundle applies as  *)
(* it was announced.  The last follows an execution event by event.        *)
(***************************************************************************)
EXTENDS CommitteeGovernance, FiniteSetTheorems, SequenceTheorems, TLAPS

Data == INSTANCE DataLemmas

(***************************************************************************)
(* Operators.                                                              *)
(***************************************************************************)
Committee == [members : Seq(Keys), threshold : Nat, valid : BOOLEAN]

\* Of numbers up to n there is a least and a greatest, the ones CHOOSE takes.
LEMMA FirstAndLast ==
  ASSUME NEW n \in Nat, NEW S \in SUBSET (1 .. n), S # {}
  PROVE  /\ Min(S) \in S /\ \A x \in S : Min(S) <= x
         /\ Max(S) \in S /\ \A x \in S : x <= Max(S)
<1>1. \E x \in S : \A y \in S : x <= y
  <2>1. S \in SUBSET Nat
    OBVIOUS
  <2> QED
    BY <2>1, Data!LeastNatural
<1>2. \E x \in S : \A y \in S : x >= y
  <2> DEFINE R == {n - x : x \in S}
  <2>1. R \in SUBSET Nat /\ R # {}
    <3>1. \A x \in S : n - x \in Nat
      OBVIOUS
    <3> QED
      BY <3>1
  <2> HIDE DEF R
  <2>2. PICK r \in R : \A y \in R : r <= y
    BY <2>1, Data!LeastNatural
  <2>3. PICK x \in S : r = n - x
    BY <2>2 DEF R
  <2>4. \A y \in S : n - x <= n - y
    BY <2>2, <2>3 DEF R
  <2> QED
    BY <2>4
<1>3. Min(S) \in S /\ \A x \in S : Min(S) <= x
  BY <1>1 DEF Min
<1>4. Max(S) \in S /\ \A x \in S : Max(S) >= x
  BY <1>2 DEF Max
<1> QED
  BY <1>3, <1>4

\* A key that has a seat is found at one.
LEMMA SeatFound ==
  ASSUME NEW c \in Committee, NEW k \in ToSet(c.members)
  PROVE  /\ Seat(c, k) \in 1 .. Len(c.members)
         /\ c.members[Seat(c, k)] = k
<1> DEFINE I == {i \in 1 .. Len(c.members) : c.members[i] = k}
<1>1. c.members \in Seq(Keys) /\ Len(c.members) \in Nat /\ DOMAIN c.members = 1 .. Len(c.members)
  BY DEF Committee
<1>2. I # {} /\ I \in SUBSET (1 .. Len(c.members))
  BY <1>1 DEF ToSet
<1>3. Seat(c, k) = Min(I)
  BY <1>2 DEF Seat, SelectInSeq
<1> HIDE DEF I
<1>4. Min(I) \in I
  BY <1>1, <1>2, FirstAndLast
<1> QED
  BY <1>3, <1>4 DEF I

\* Its removal takes one seat away.
LEMMA SeatRemoved ==
  ASSUME NEW c \in Committee, NEW k
  PROVE  /\ RemoveFirst(c.members, k) \in Seq(Keys)
         /\ k \in ToSet(c.members) =>
              Len(RemoveFirst(c.members, k)) = Len(c.members) - 1
<1> DEFINE s == c.members
           n == Seat(c, k)
<1>1. s \in Seq(Keys) /\ Len(s) \in Nat /\ DOMAIN s = 1 .. Len(s)
      /\ \A i \in 1 .. Len(s) : s[i] \in Keys
  BY DEF Committee
<1>2. CASE k \in ToSet(s)
  <2>1. n \in 1 .. Len(s)
    BY <1>2, SeatFound
  <2>2. \E i \in 1 .. Len(s) : s[i] = k
    BY <1>1, <1>2 DEF ToSet
  <2>3. RemoveFirst(s, k) = SubSeq(s, 1, n - 1) \o SubSeq(s, n + 1, Len(s))
    BY <2>2 DEF RemoveFirst, RemoveAt, Seat
  <2> HIDE DEF s
  <2>4. /\ SubSeq(s, 1, n - 1) \in Seq(Keys) /\ Len(SubSeq(s, 1, n - 1)) = n - 1
        /\ SubSeq(s, n + 1, Len(s)) \in Seq(Keys)
        /\ Len(SubSeq(s, n + 1, Len(s))) = Len(s) - n
    <3> HIDE DEF n
    <3>1. /\ 1 \in Int /\ n - 1 \in Int /\ n + 1 \in Int /\ Len(s) \in Int
          /\ \A i \in 1 .. n - 1 : s[i] \in Keys
          /\ \A i \in n + 1 .. Len(s) : s[i] \in Keys
      BY <1>1, <2>1
    <3>2. /\ SubSeq(s, 1, n - 1) \in Seq(Keys)
          /\ Len(SubSeq(s, 1, n - 1)) = IF 1 <= n - 1 THEN (n - 1) - 1 + 1 ELSE 0
      BY <3>1, SubSeqProperties
    <3>3. /\ SubSeq(s, n + 1, Len(s)) \in Seq(Keys)
          /\ Len(SubSeq(s, n + 1, Len(s))) =
               IF n + 1 <= Len(s) THEN Len(s) - (n + 1) + 1 ELSE 0
      BY <3>1, SubSeqProperties
    <3>4. Len(s) \in Nat /\ n \in 1 .. Len(s)
      BY <1>1, <2>1
    <3>5. /\ (IF 1 <= n - 1 THEN (n - 1) - 1 + 1 ELSE 0) = n - 1
          /\ (IF n + 1 <= Len(s) THEN Len(s) - (n + 1) + 1 ELSE 0) = Len(s) - n
      BY <3>4
    <3> QED
      BY <3>2, <3>3, <3>5
  <2>5. /\ SubSeq(s, 1, n - 1) \o SubSeq(s, n + 1, Len(s)) \in Seq(Keys)
        /\ Len(SubSeq(s, 1, n - 1) \o SubSeq(s, n + 1, Len(s))) = (n - 1) + (Len(s) - n)
    BY <2>4, ConcatProperties
  <2> HIDE DEF n
  <2>6. (n - 1) + (Len(s) - n) = Len(s) - 1
    BY <1>1, <2>1
  <2>7. RemoveFirst(s, k) \in Seq(Keys) /\ Len(RemoveFirst(s, k)) = Len(s) - 1
    BY <2>3, <2>5, <2>6
  <2> QED
    BY <2>7 DEF s
<1>3. CASE k \notin ToSet(s)
  <2>1. ~ \E i \in 1 .. Len(s) : s[i] = k
    BY <1>1, <1>3 DEF ToSet
  <2>2. RemoveFirst(s, k) = s
    BY <2>1, Zenon DEF RemoveFirst
  <2> QED
    BY <1>1, <1>3, <2>2
<1> QED
  BY <1>2, <1>3

\* An event's key or threshold.
LEMMA EventReads ==
  ASSUME NEW ev \in Event
  PROVE  /\ ev.type \in {"Added", "Removed", "RotatedPubkey", "ExpandedThreshold"}
         /\ ev.type \in {"Added", "Removed"} => ev.pubkey \in Keys
         /\ ev.type = "RotatedPubkey" => ev.old \in Keys /\ ev.new \in Keys
         /\ ev.type = "ExpandedThreshold" => ev.threshold \in ThresholdInputs
                                             /\ ev.threshold \in Nat
  BY RangesAssumption DEF Event

\* What one event does to the seats and the threshold of a valid committee,
\* if it leaves it valid: the seats change as SeatsAfter counts them.
LEMMA ApplyEvent ==
  ASSUME NEW c \in Committee, NEW ev \in Event, MaxCommittee \in Nat
  PROVE  /\ Apply(c, ev) \in Committee
         /\ Apply(c, ev).valid =>
              /\ c.valid
              /\ Len(Apply(c, ev).members) =
                   Len(c.members) + (IF ev.type = "Added" THEN 1 ELSE 0)
                                  - (IF ev.type = "Removed" THEN 1 ELSE 0)
              /\ Len(c.members) <= MaxCommittee => Len(Apply(c, ev).members) <= MaxCommittee
              /\ ev.type # "ExpandedThreshold" => Apply(c, ev).threshold = c.threshold
              /\ ev.type = "ExpandedThreshold" =>
                   \/ Apply(c, ev).threshold = ev.threshold
                   \/ ev.threshold # 1 /\ ev.threshold \notin 1 .. Len(c.members)
<1>1. /\ c.members \in Seq(Keys) /\ Len(c.members) \in Nat /\ c.valid \in BOOLEAN
      /\ c.threshold \in Nat
  BY DEF Committee
<1>2. CASE ~c.valid
  <2>1. Apply(c, ev) = c
    BY <1>2 DEF Apply
  <2> QED
    BY <1>2, <2>1
<1>3. CASE c.valid /\ ev.type = "Added"
  <2> DEFINE d == [c EXCEPT !.valid = ev.pubkey \notin ToSet(c.members) /\ ~Full(c),
                            !.members = Append(c.members, ev.pubkey)]
  <2>1. Apply(c, ev) = d
    BY <1>3 DEF Apply
  <2>2. /\ Append(c.members, ev.pubkey) \in Seq(Keys)
        /\ Len(Append(c.members, ev.pubkey)) = Len(c.members) + 1
    BY <1>1, <1>3, EventReads
  <2>3. /\ d \in Committee /\ d.members = Append(c.members, ev.pubkey)
        /\ d.valid => ~Full(c)
        /\ d.threshold = c.threshold
    BY <2>2 DEF Committee
  <2> QED
    BY <1>1, <1>3, <2>1, <2>2, <2>3 DEF Full
<1>4. CASE c.valid /\ ev.type = "Removed"
  <2> DEFINE d == [c EXCEPT !.valid = ev.pubkey \in ToSet(c.members),
                            !.members = RemoveFirst(c.members, ev.pubkey)]
  <2>1. Apply(c, ev) = d
    BY <1>4 DEF Apply
  <2>2. /\ RemoveFirst(c.members, ev.pubkey) \in Seq(Keys)
        /\ ev.pubkey \in ToSet(c.members) =>
             Len(RemoveFirst(c.members, ev.pubkey)) = Len(c.members) - 1
    BY SeatRemoved
  <2>3. /\ d \in Committee /\ d.members = RemoveFirst(c.members, ev.pubkey)
        /\ d.valid => ev.pubkey \in ToSet(c.members)
        /\ d.threshold = c.threshold
    <3>1. (ev.pubkey \in ToSet(c.members)) \in BOOLEAN
      OBVIOUS
    <3> HIDE DEF ToSet, RemoveFirst
    <3> QED
      BY <2>2, <3>1 DEF Committee
  <2> QED
    BY <1>1, <1>4, <2>1, <2>2, <2>3
<1>5. CASE c.valid /\ ev.type = "RotatedPubkey"
  <2>1. CASE ev.old \in ToSet(c.members)
    <3> DEFINE d == [c EXCEPT !.members = ReplaceAt(c.members, Seat(c, ev.old), ev.new)]
    <3>1. Apply(c, ev) = d
      BY <1>5, <2>1 DEF Apply
    <3>2. /\ ReplaceAt(c.members, Seat(c, ev.old), ev.new) \in Seq(Keys)
          /\ Len(ReplaceAt(c.members, Seat(c, ev.old), ev.new)) = Len(c.members)
      <4>1. Seat(c, ev.old) \in 1 .. Len(c.members) /\ ev.new \in Keys
        BY <1>5, <2>1, SeatFound, EventReads
      <4> QED
        BY <1>1, <4>1, ExceptSeq DEF ReplaceAt
    <3>3. /\ d \in Committee /\ d.threshold = c.threshold
          /\ d.members = ReplaceAt(c.members, Seat(c, ev.old), ev.new)
      BY <3>2 DEF Committee
    <3> QED
      BY <1>1, <1>5, <3>1, <3>2, <3>3
  <2>2. CASE ev.old \notin ToSet(c.members)
    <3>1. Apply(c, ev) = [c EXCEPT !.valid = FALSE]
      BY <1>5, <2>2 DEF Apply
    <3> QED
      BY <1>1, <3>1 DEF Committee
  <2> QED
    BY <2>1, <2>2
<1>6. CASE c.valid /\ ev.type = "ExpandedThreshold"
  <2> DEFINE fit == IF ev.threshold > Len(c.members) THEN Len(c.members) ELSE ev.threshold
             d == [c EXCEPT !.threshold = IF fit < 1 THEN 1 ELSE fit]
  <2>1. Apply(c, ev) = d
    BY <1>6 DEF Apply
  <2>2. ev.threshold \in Nat
    BY <1>6, EventReads
  <2>3. /\ d \in Committee /\ d.members = c.members
        /\ d.threshold = IF fit < 1 THEN 1 ELSE fit
    BY <1>1, <2>2 DEF Committee
  <2> QED
    BY <1>1, <1>6, <2>1, <2>2, <2>3
<1> QED
  BY <1>1, <1>2, <1>3, <1>4, <1>5, <1>6, EventReads

(***************************************************************************)
(* A bundle, event by event.                                               *)
(***************************************************************************)
\* The events of one kind among the first n, and how many they are.
Kind(events, type, n) == {j \in 1 .. n : events[j].type = type}

Counted(events, type, n) == Cardinality(Kind(events, type, n))

\* The seats there will be after the first n events.
SeatsThen(n) ==
  Len(members) + Counted(pendingRotation.events, "Added", n)
               - Counted(pendingRotation.events, "Removed", n)

\* A pending threshold fits the seats there will be when its turn comes.
BundleIsAnnounced ==
  \A j \in DOMAIN pendingRotation.events :
    pendingRotation.events[j].type = "ExpandedThreshold" =>
      \/ pendingRotation.events[j].threshold = 1
      \/ pendingRotation.events[j].threshold \in 1 .. SeatsThen(j - 1)

\* The events of a pending bundle.
LEMMA BundleReads ==
  ASSUME TypeOK
  PROVE  /\ pendingRotation.events \in Seq(Event)
         /\ Len(pendingRotation.events) \in Nat
         /\ DOMAIN pendingRotation.events = 1 .. Len(pendingRotation.events)
         /\ \A j \in 1 .. Len(pendingRotation.events) : pendingRotation.events[j] \in Event
         /\ members \in Seq(Keys) /\ Len(members) \in Nat /\ MaxCommittee \in Nat
         /\ Len(members) <= MaxCommittee /\ threshold \in Nat
<1>1. /\ pendingRotation.events \in Seq(Event)
      /\ members \in Seq(Keys) /\ Len(members) <= MaxCommittee /\ threshold \in Nat
  BY DEF TypeOK, Schedule
<1> QED
  BY <1>1, RangesAssumption

\* The count takes each event into account once.
LEMMA CountedOne ==
  ASSUME NEW events, NEW type, NEW n \in Nat
  PROVE  /\ Counted(events, type, n) \in Nat
         /\ Counted(events, type, 0) = 0
         /\ events[n + 1].type = type =>
              Counted(events, type, n + 1) = Counted(events, type, n) + 1
         /\ events[n + 1].type # type =>
              Counted(events, type, n + 1) = Counted(events, type, n)
<1>1. IsFiniteSet(Kind(events, type, n))
  <2>1. Kind(events, type, n) \in SUBSET (1 .. n) /\ IsFiniteSet(1 .. n)
    BY FS_Interval DEF Kind
  <2> QED
    BY <2>1, FS_Subset
<1>2. n + 1 \notin Kind(events, type, n)
  BY DEF Kind
<1>3. Kind(events, type, n + 1) =
        IF events[n + 1].type = type THEN Kind(events, type, n) \cup {n + 1}
                                     ELSE Kind(events, type, n)
  <2>1. 1 .. n + 1 = (1 .. n) \cup {n + 1}
    OBVIOUS
  <2> QED
    BY <2>1 DEF Kind
<1>4. Kind(events, type, 0) = {}
  BY DEF Kind
<1>5. Cardinality(Kind(events, type, n)) \in Nat
  BY <1>1, FS_CardinalityType
<1>6. Cardinality(Kind(events, type, n) \cup {n + 1}) = Cardinality(Kind(events, type, n)) + 1
  BY <1>1, <1>2, FS_AddElement
<1>7. Cardinality({}) = 0
  BY FS_EmptySet
<1> QED
  BY <1>3, <1>4, <1>5, <1>6, <1>7, Zenon DEF Counted

\* CommitteeAfter is a recursive function: what follows says there is one.
RunStep(g, n) ==
  IF n = 0 THEN [members |-> members, threshold |-> threshold, valid |-> TRUE]
           ELSE Apply(g[n - 1], pendingRotation.events[n])

IsRun(g, n) == g = [k \in 0 .. n |-> RunStep(g, k)]

\* For bundles of every length there is a run.
LEMMA RunExists == \A n \in Nat : \E g : IsRun(g, n)
<1> DEFINE Bad == {n \in Nat : ~ \E g : IsRun(g, n)}
<1> SUFFICES ASSUME Bad # {} PROVE FALSE
  OBVIOUS
<1>1. PICK n \in Bad : \A m \in Bad : n <= m
  <2>1. Bad \in SUBSET Nat
    OBVIOUS
  <2> HIDE DEF Bad
  <2> QED
    BY <2>1, Data!LeastNatural
<1>2. n \in Nat /\ ~ \E g : IsRun(g, n)
  OBVIOUS
<1>3. CASE n = 0
  <2> DEFINE g == [k \in 0 .. n |-> RunStep(<<>>, 0)]
  <2>1. g = [k \in 0 .. n |-> RunStep(g, k)]
    <3>1. \A k \in 0 .. n : RunStep(g, k) = RunStep(<<>>, 0)
      BY <1>3 DEF RunStep
    <3> HIDE DEF g
    <3>2. g = [k \in 0 .. n |-> RunStep(<<>>, 0)]
      BY DEF g
    <3> QED
      BY <3>1, <3>2
  <2> QED
    BY <1>2, <2>1 DEF IsRun
<1>4. CASE n # 0
  <2>1. n - 1 \in Nat /\ n - 1 \notin Bad
    BY <1>1, <1>2, <1>4
  <2>2. PICK h : IsRun(h, n - 1)
    BY <2>1
  <2> HIDE DEF Bad
  <2> DEFINE g == [k \in 0 .. n |-> RunStep(h, k)]
  <2>3. \A k \in 0 .. n - 1 : g[k] = h[k]
    <3>1. h = [k \in 0 .. n - 1 |-> RunStep(h, k)]
      BY <2>2 DEF IsRun
    <3>2. \A k \in 0 .. n - 1 : k \in 0 .. n
      BY <1>2
    <3> QED
      BY <3>1, <3>2
  <2>4. \A k \in 0 .. n : RunStep(g, k) = RunStep(h, k)
    <3> SUFFICES ASSUME NEW k \in 0 .. n PROVE RunStep(g, k) = RunStep(h, k)
      OBVIOUS
    <3>1. k # 0 => k - 1 \in 0 .. n - 1
      BY <1>2
    <3>2. k # 0 => g[k - 1] = h[k - 1]
      BY <2>3, <3>1
    <3> HIDE DEF g
    <3> QED
      BY <3>2, Zenon DEF RunStep
  <2>5. g = [k \in 0 .. n |-> RunStep(g, k)]
    <3>1. g = [k \in 0 .. n |-> RunStep(h, k)]
      OBVIOUS
    <3> HIDE DEF g
    <3> QED
      BY <2>4, <3>1
  <2> QED
    BY <1>2, <2>5 DEF IsRun
<1> QED
  BY <1>3, <1>4

\* CommitteeAfter starts from the committee and applies one event after another.
LEMMA RunReads ==
  ASSUME TypeOK
  PROVE  /\ CommitteeAfter[0] = [members |-> members, threshold |-> threshold, valid |-> TRUE]
         /\ \A n \in 1 .. Len(pendingRotation.events) :
              CommitteeAfter[n] = Apply(CommitteeAfter[n - 1], pendingRotation.events[n])
<1> DEFINE L == Len(pendingRotation.events)
<1>1. L \in Nat
  BY BundleReads
<1> HIDE DEF L
<1>2. CommitteeAfter = CHOOSE g : IsRun(g, L)
  BY Zenon DEF CommitteeAfter, IsRun, RunStep, L
<1>3. IsRun(CommitteeAfter, L)
  <2>1. \E g : IsRun(g, L)
    BY <1>1, RunExists
  <2>2. IsRun(CHOOSE g : IsRun(g, L), L)
    BY <2>1, Zenon
  <2> QED
    BY <1>2, <2>2, Zenon
<1> DEFINE C == CommitteeAfter
<1>4. C = [k \in 0 .. L |-> RunStep(C, k)]
  BY <1>3, Zenon DEF IsRun
<1> HIDE DEF C
<1>5. \A k \in 0 .. L : C[k] = RunStep(C, k)
  BY <1>4
<1>6. C[0] = RunStep(C, 0)
  BY <1>1, <1>5
<1>7. \A n \in 1 .. L : C[n] = RunStep(C, n) /\ n # 0
  BY <1>1, <1>5
<1> QED
  BY <1>6, <1>7, Zenon DEF RunStep, C, L

\* What the committee is after n events, as long as it is valid: the seats are
\* the ones the proposals counted on, and the threshold is the last announced.
AppliedAsAnnounced(n) ==
  /\ CommitteeAfter[n] \in Committee
  /\ CommitteeAfter[n].valid =>
       /\ Len(CommitteeAfter[n].members) = SeatsThen(n)
       /\ Len(CommitteeAfter[n].members) <= MaxCommittee
       /\ LET proposed == Kind(pendingRotation.events, "ExpandedThreshold", n)
          IN  CommitteeAfter[n].threshold = IF proposed = {} THEN threshold
                ELSE pendingRotation.events[Max(proposed)].threshold

\* Before the first event the committee is the sitting one.
LEMMA AppliedFirst ==
  ASSUME TypeOK
  PROVE  AppliedAsAnnounced(0)
<1>1. CommitteeAfter[0] = [members |-> members, threshold |-> threshold, valid |-> TRUE]
  BY RunReads
<1>2. SeatsThen(0) = Len(members)
  BY BundleReads, CountedOne DEF SeatsThen
<1>3. Kind(pendingRotation.events, "ExpandedThreshold", 0) = {}
  BY DEF Kind
<1> QED
  BY <1>1, <1>2, <1>3, BundleReads DEF AppliedAsAnnounced, Committee

\* One more event.
LEMMA AppliedNext ==
  ASSUME TypeOK, BundleIsAnnounced, NEW n \in 1 .. Len(pendingRotation.events),
         AppliedAsAnnounced(n - 1)
  PROVE  AppliedAsAnnounced(n)
<1> DEFINE c == CommitteeAfter[n - 1]
           d == CommitteeAfter[n]
           events == pendingRotation.events
           ev == events[n]
           Before == Kind(events, "ExpandedThreshold", n - 1)
           Now == Kind(events, "ExpandedThreshold", n)
<1>1. d = Apply(c, ev)
  BY RunReads
<1>2. /\ c \in Committee
      /\ c.valid => /\ Len(c.members) = SeatsThen(n - 1)
                    /\ Len(c.members) <= MaxCommittee
                    /\ c.threshold = IF Before = {} THEN threshold
                                                    ELSE events[Max(Before)].threshold
  BY Zenon DEF AppliedAsAnnounced
<1>3. n - 1 \in Nat /\ (n - 1) + 1 = n /\ ev \in Event /\ MaxCommittee \in Nat
      /\ n \in DOMAIN events /\ Len(members) \in Nat
  BY BundleReads
<1>4. /\ d \in Committee
      /\ d.valid =>
           /\ c.valid
           /\ Len(d.members) = Len(c.members) + (IF ev.type = "Added" THEN 1 ELSE 0)
                                              - (IF ev.type = "Removed" THEN 1 ELSE 0)
           /\ Len(c.members) <= MaxCommittee => Len(d.members) <= MaxCommittee
           /\ ev.type # "ExpandedThreshold" => d.threshold = c.threshold
           /\ ev.type = "ExpandedThreshold" =>
                \/ d.threshold = ev.threshold
                \/ ev.threshold # 1 /\ ev.threshold \notin 1 .. Len(c.members)
  <2> HIDE DEF c, d, ev
  <2> QED
    BY <1>1, <1>2, <1>3, ApplyEvent
<1>5. \A type : /\ Counted(events, type, n - 1) \in Nat
                /\ Counted(events, type, n) = Counted(events, type, n - 1)
                                              + (IF ev.type = type THEN 1 ELSE 0)
  <2> SUFFICES ASSUME NEW type
               PROVE  /\ Counted(events, type, n - 1) \in Nat
                      /\ Counted(events, type, n) = Counted(events, type, n - 1)
                                                   + (IF ev.type = type THEN 1 ELSE 0)
    OBVIOUS
  <2>1. /\ Counted(events, type, n - 1) \in Nat
        /\ events[(n - 1) + 1].type = type =>
             Counted(events, type, (n - 1) + 1) = Counted(events, type, n - 1) + 1
        /\ events[(n - 1) + 1].type # type =>
             Counted(events, type, (n - 1) + 1) = Counted(events, type, n - 1)
    <3> HIDE DEF events
    <3> QED
      BY <1>3, CountedOne
  <2> QED
    BY <1>3, <2>1
<1>6. SeatsThen(n) = SeatsThen(n - 1) + (IF ev.type = "Added" THEN 1 ELSE 0)
                                      - (IF ev.type = "Removed" THEN 1 ELSE 0)
  <2>1. /\ SeatsThen(n) = Len(members) + Counted(events, "Added", n)
                                       - Counted(events, "Removed", n)
        /\ SeatsThen(n - 1) = Len(members) + Counted(events, "Added", n - 1)
                                           - Counted(events, "Removed", n - 1)
    BY DEF SeatsThen
  <2> HIDE DEF events, ev
  <2> QED
    BY <1>3, <1>5, <2>1
<1>7. Now = IF ev.type = "ExpandedThreshold" THEN Before \cup {n} ELSE Before
  <2>1. 1 .. n = (1 .. n - 1) \cup {n}
    BY <1>3
  <2> QED
    BY <2>1 DEF Kind
<1>8. ASSUME ev.type = "ExpandedThreshold" PROVE Max(Now) = n /\ Now # {}
  <2>1. Now \in SUBSET (1 .. n) /\ n \in Now
    BY <1>7, <1>8 DEF Kind
  <2>2. Max(Now) \in Now /\ n <= Max(Now)
    <3>1. n \in Nat /\ Now # {}
      BY <2>1
    <3> HIDE DEF Now
    <3> QED
      BY <2>1, <3>1, FirstAndLast
  <2> QED
    BY <2>1, <2>2
<1>9. ev.type = "ExpandedThreshold" =>
        ev.threshold = 1 \/ ev.threshold \in 1 .. SeatsThen(n - 1)
  BY <1>3 DEF BundleIsAnnounced
<1> HIDE DEF c, d, events, ev, Before, Now
<1>10. d.valid =>
         /\ Len(d.members) = SeatsThen(n)
         /\ Len(d.members) <= MaxCommittee
         /\ d.threshold = IF Now = {} THEN threshold ELSE events[Max(Now)].threshold
  <2> SUFFICES ASSUME d.valid
               PROVE  /\ Len(d.members) = SeatsThen(n)
                      /\ Len(d.members) <= MaxCommittee
                      /\ d.threshold = IF Now = {} THEN threshold
                                                   ELSE events[Max(Now)].threshold
    OBVIOUS
  <2>1. /\ c.valid /\ Len(c.members) = SeatsThen(n - 1) /\ Len(c.members) <= MaxCommittee
    BY <1>2, <1>4
  <2>2. Len(d.members) = SeatsThen(n) /\ Len(d.members) <= MaxCommittee
    BY <1>4, <1>6, <2>1
  <2>3. CASE ev.type = "ExpandedThreshold"
    <3>1. d.threshold = ev.threshold
      BY <1>4, <1>9, <2>1, <2>3
    <3> QED
      BY <1>8, <2>2, <2>3, <3>1 DEF ev
  <2>4. CASE ev.type # "ExpandedThreshold"
    BY <1>2, <1>4, <1>7, <2>1, <2>2, <2>4
  <2> QED
    BY <2>3, <2>4
<1> QED
  BY <1>4, <1>10, Zenon DEF AppliedAsAnnounced, d, events, Now

\* A bundle that is announced applies as announced to its last event.
LEMMA AppliedAll ==
  ASSUME TypeOK, BundleIsAnnounced
  PROVE  AppliedAsAnnounced(Len(pendingRotation.events))
<1> DEFINE L == Len(pendingRotation.events)
           Bad == {n \in 0 .. L : ~ AppliedAsAnnounced(n)}
<1>1. L \in Nat
  BY BundleReads
<1> SUFFICES ASSUME Bad # {} PROVE FALSE
  <2> HIDE DEF L
  <2> QED
    BY <1>1 DEF L
<1>2. PICK n \in Bad : \A m \in Bad : n <= m
  <2>1. Bad \in SUBSET Nat
    OBVIOUS
  <2> HIDE DEF Bad
  <2> QED
    BY <2>1, Data!LeastNatural
<1>3. n # 0
  BY AppliedFirst
<1>4. n \in 1 .. L /\ n - 1 \in 0 .. L /\ ~ (n <= n - 1)
  BY <1>1, <1>3
<1>5. AppliedAsAnnounced(n - 1)
  BY <1>2, <1>4
<1> QED
  BY <1>4, <1>5, AppliedNext

(***************************************************************************)
(* The steps.                                                              *)
(***************************************************************************)
\* Genesis is typed, has a committee that its threshold fits, or none, and no
\* bundle.
LEMMA GovernanceInit == Init => TypeOK /\ ThresholdFitsSeats /\ BundleIsAnnounced
<1> SUFFICES ASSUME Init PROVE TypeOK /\ ThresholdFitsSeats /\ BundleIsAnnounced
  OBVIOUS
<1>1. pendingRotation.events = <<>>
  BY DEF Init, NoRotation
<1>2. BundleIsAnnounced
  BY <1>1 DEF BundleIsAnnounced
<1>3. ThresholdFitsSeats
  BY GenesisAssumption DEF Init, ThresholdFitsSeats
<1>4. /\ block \in Blocks /\ Horizon \in Nat /\ 1 \in Blocks
      /\ rotationTimelock \in Nat \ {0} /\ threshold \in Nat
  BY GenesisAssumption, RangesAssumption DEF Init, Blocks
<1>5. NoRotation \in Schedule /\ Len(NoRotation.events) = 0
  BY <1>4, EmptySeq DEF NoRotation, Schedule
<1>6. NoMirror \in [members : Seq(Keys), threshold : Nat, block : {0} \cup Blocks]
  BY EmptySeq DEF NoMirror
<1>7. TypeOK
  BY <1>4, <1>5, <1>6, GenesisAssumption, RangesAssumption DEF Init, TypeOK
<1> QED
  BY <1>2, <1>3, <1>7

\* An event at the end of a bundle leaves the ones before as they are.
LEMMA Appended ==
  ASSUME TypeOK, NEW ev \in Event, AppendRotationEvent(ev)
  PROVE  /\ TypeOK'
         /\ LET events == pendingRotation.events
            IN  /\ pendingRotation'.events \in Seq(Event)
                /\ Len(pendingRotation'.events) = Len(events) + 1
                /\ pendingRotation'.events[Len(events) + 1] = ev
                /\ \A j \in 1 .. Len(events) : pendingRotation'.events[j] = events[j]
<1> DEFINE events == pendingRotation.events
           sched == IF pendingRotation = NoRotation
                    THEN [events |-> <<>>, proposedBlock |-> block,
                          effectiveBlock |-> EffectiveBlock]
                    ELSE pendingRotation
<1>1. /\ Len(sched.events) < MaxRotationEvents /\ sched.effectiveBlock <= Horizon
      /\ pendingRotation' = [sched EXCEPT !.events = Append(sched.events, ev)]
      /\ UNCHANGED <<block, members, threshold, rotationTimelock, cardanoMirrorState>>
  BY DEF AppendRotationEvent
<1>2. /\ events \in Seq(Event) /\ Len(events) \in Nat
      /\ pendingRotation \in Schedule /\ block \in Blocks /\ rotationTimelock \in Nat \ {0}
      /\ Horizon \in Nat /\ MaxRotationEvents \in Nat
  BY BundleReads, RangesAssumption DEF TypeOK
<1>3. sched.events = events
  BY DEF NoRotation
<1>4. /\ Append(events, ev) \in Seq(Event) /\ Len(Append(events, ev)) = Len(events) + 1
      /\ Append(events, ev)[Len(events) + 1] = ev
      /\ \A j \in 1 .. Len(events) : Append(events, ev)[j] = events[j]
  <2> HIDE DEF events
  <2> QED
    BY <1>2
<1>5. EffectiveBlock \in Int /\ EffectiveBlock >= 1
  BY <1>2 DEF EffectiveBlock, Blocks
<1>6. /\ sched.proposedBlock \in Blocks /\ sched.effectiveBlock \in Blocks
      /\ sched = [events |-> events, proposedBlock |-> sched.proposedBlock,
                  effectiveBlock |-> sched.effectiveBlock]
  <2>1. CASE pendingRotation = NoRotation
    <3>1. events = <<>>
      BY <2>1 DEF NoRotation
    <3>2. sched = [events |-> <<>>, proposedBlock |-> block, effectiveBlock |-> EffectiveBlock]
      BY <2>1
    <3> HIDE DEF sched, events
    <3> QED
      BY <1>1, <1>2, <1>5, <3>1, <3>2 DEF Blocks
  <2>2. CASE pendingRotation # NoRotation
    BY <1>2, <2>2 DEF Schedule
  <2> QED
    BY <2>1, <2>2
<1> HIDE DEF sched
<1>7. pendingRotation' = [events |-> Append(events, ev), proposedBlock |-> sched.proposedBlock,
                          effectiveBlock |-> sched.effectiveBlock]
  BY <1>1, <1>3, <1>6
<1>8. pendingRotation'.events = Append(events, ev) /\ pendingRotation' \in Schedule
  BY <1>4, <1>6, <1>7 DEF Schedule
<1>9. Len(pendingRotation'.events) <= MaxRotationEvents
  BY <1>1, <1>2, <1>3, <1>4, <1>8
<1>10. TypeOK'
  BY <1>1, <1>8, <1>9 DEF TypeOK
<1> QED
  BY <1>4, <1>8, <1>10

\* A proposal that is no threshold, or a threshold that fits the seats of the
\* bundle so far.
LEMMA AppendedFits ==
  ASSUME TypeOK, BundleIsAnnounced, NEW ev \in Event, AppendRotationEvent(ev),
         ev.type = "ExpandedThreshold" =>
           ev.threshold = 1 \/ ev.threshold \in 1 .. SeatsThen(Len(pendingRotation.events))
  PROVE  TypeOK' /\ BundleIsAnnounced'
<1> DEFINE events == pendingRotation.events
           L == Len(events)
<1>1. /\ TypeOK'
      /\ pendingRotation'.events \in Seq(Event)
      /\ Len(pendingRotation'.events) = L + 1
      /\ pendingRotation'.events[L + 1] = ev
      /\ \A j \in 1 .. L : pendingRotation'.events[j] = events[j]
  BY Appended
<1>2. /\ L \in Nat /\ DOMAIN events = 1 .. L
      /\ DOMAIN pendingRotation'.events = 1 .. L + 1 /\ members' = members
  BY <1>1, BundleReads DEF AppendRotationEvent
<1>3. \A n \in 0 .. L : \A type : Kind(pendingRotation'.events, type, n) = Kind(events, type, n)
  <2> SUFFICES ASSUME NEW n \in 0 .. L, NEW type
               PROVE  Kind(pendingRotation'.events, type, n) = Kind(events, type, n)
    OBVIOUS
  <2>1. \A j \in 1 .. n : pendingRotation'.events[j] = events[j]
    BY <1>1, <1>2
  <2> QED
    BY <2>1 DEF Kind
<1>4. \A n \in 0 .. L : SeatsThen(n)' = SeatsThen(n)
  BY <1>2, <1>3 DEF SeatsThen, Counted
<1>5. BundleIsAnnounced'
  <2> SUFFICES ASSUME NEW j \in 1 .. L + 1,
                      pendingRotation'.events[j].type = "ExpandedThreshold"
               PROVE  \/ pendingRotation'.events[j].threshold = 1
                      \/ pendingRotation'.events[j].threshold \in 1 .. SeatsThen(j - 1)'
    BY <1>2, Zenon DEF BundleIsAnnounced
  <2>1. j - 1 \in 0 .. L /\ (j \in 1 .. L \/ j = L + 1)
    BY <1>2
  <2>2. SeatsThen(j - 1)' = SeatsThen(j - 1)
    BY <1>4, <2>1
  <2>3. CASE j \in 1 .. L
    <3>1. j \in DOMAIN events /\ pendingRotation'.events[j] = events[j]
      BY <1>1, <1>2, <2>3
    <3> QED
      BY <2>2, <3>1 DEF BundleIsAnnounced
  <2>4. CASE j = L + 1
    <3>1. j - 1 = L /\ pendingRotation'.events[j] = ev
      BY <1>1, <1>2, <2>4
    <3> QED
      BY <2>2, <3>1
  <2> QED
    BY <2>1, <2>3, <2>4
<1> QED
  BY <1>1, <1>5

\* A bundle that was announced is executed as announced.
LEMMA ExecutedAsAnnounced ==
  ASSUME TypeOK, BundleIsAnnounced, ExecuteRotation
  PROVE  /\ members' \in Seq(Keys) /\ Len(members') <= MaxCommittee /\ threshold' \in Nat
         /\ threshold' \in 1 .. Len(members')
         /\ threshold' = AnnouncedThreshold
<1> DEFINE L == Len(pendingRotation.events)
           proposed == Kind(pendingRotation.events, "ExpandedThreshold", L)
<1>1. /\ Rotated.valid /\ Rotated.threshold \in 1 .. Len(Rotated.members)
      /\ members' = Rotated.members /\ threshold' = Rotated.threshold
  BY DEF ExecuteRotation, Sane
<1>2. Rotated = CommitteeAfter[L]
  BY Zenon DEF Rotated
<1>3. /\ Rotated \in Committee
      /\ Len(Rotated.members) <= MaxCommittee
      /\ Rotated.threshold = IF proposed = {} THEN threshold
                             ELSE pendingRotation.events[Max(proposed)].threshold
  BY <1>1, <1>2, AppliedAll, Zenon DEF AppliedAsAnnounced
<1>4. threshold' = AnnouncedThreshold
  <2>1. proposed = {j \in DOMAIN pendingRotation.events :
                     pendingRotation.events[j].type = "ExpandedThreshold"}
    BY BundleReads, Zenon DEF Kind
  <2>2. AnnouncedThreshold = IF proposed = {} THEN threshold
                             ELSE pendingRotation.events[Max(proposed)].threshold
    BY <2>1, Zenon DEF AnnouncedThreshold
  <2> HIDE DEF proposed
  <2> QED
    BY <1>1, <1>3, <2>2
<1>5. Rotated.members \in Seq(Keys) /\ Rotated.threshold \in Nat
  BY <1>3 DEF Committee
<1> QED
  BY <1>1, <1>3, <1>4, <1>5

\* Types and the announced bundle are kept together: an execution stores what
\* the bundle makes of the committee, every other call leaves the committee,
\* and a proposal counts the seats of the bundle that it joins.
LEMMA GovernanceNext ==
  TypeOK /\ BundleIsAnnounced /\ [Next]_vars => TypeOK' /\ BundleIsAnnounced'
<1> SUFFICES ASSUME TypeOK, BundleIsAnnounced, [Next]_vars
             PROVE  TypeOK' /\ BundleIsAnnounced'
  OBVIOUS
<1>1. /\ block \in Blocks /\ Horizon \in Nat \ {0} /\ NoRotation \in Schedule
      /\ NoRotation.events = <<>> /\ Len(NoRotation.events) = 0
      /\ MaxRotationEvents \in Nat /\ pendingRotation \in Schedule
      /\ Len(pendingRotation.events) <= MaxRotationEvents
  <2>1. NoRotation \in Schedule
    BY EmptySeq, RangesAssumption DEF NoRotation, Schedule, Blocks
  <2> QED
    BY <2>1, RangesAssumption DEF TypeOK, NoRotation
<1>2. pendingRotation' = NoRotation => BundleIsAnnounced'
  BY <1>1 DEF BundleIsAnnounced
<1>3. UNCHANGED <<members, pendingRotation>> => BundleIsAnnounced'
  BY DEF BundleIsAnnounced, SeatsThen, Counted, Kind
<1>4. CASE ExecuteRotation
  <2>1. /\ members' \in Seq(Keys) /\ Len(members') <= MaxCommittee /\ threshold' \in Nat
    BY <1>4, ExecutedAsAnnounced
  <2>2. pendingRotation' = NoRotation /\ UNCHANGED <<block, rotationTimelock, cardanoMirrorState>>
    BY <1>4 DEF ExecuteRotation
  <2> QED
    BY <1>1, <1>2, <2>1, <2>2 DEF TypeOK
<1>5. CASE CancelPendingRotation
  BY <1>1, <1>2, <1>5 DEF CancelPendingRotation, TypeOK
<1>6. ASSUME NEW blocks \in TimelockInputs, SetRotationTimelock(blocks)
      PROVE  TypeOK' /\ BundleIsAnnounced'
  BY <1>3, <1>6, RangesAssumption DEF SetRotationTimelock, TypeOK
<1>7. CASE MirrorToCardano
  BY <1>3, <1>7 DEF MirrorToCardano, TypeOK
<1>8. CASE NextBlock
  BY <1>1, <1>3, <1>8 DEF NextBlock, TypeOK, Blocks
<1>9. CASE UNCHANGED vars
  BY <1>3, <1>9 DEF vars, TypeOK
<1>10. ASSUME NEW k \in Keys, ProposeAddMember(k) \/ ProposeRemoveMember(k)
       PROVE  TypeOK' /\ BundleIsAnnounced'
  <2>1. PICK ev \in [type : {"Added", "Removed"}, pubkey : Keys] : AppendRotationEvent(ev)
    BY <1>10 DEF ProposeAddMember, ProposeRemoveMember
  <2>2. ev \in Event /\ ev.type # "ExpandedThreshold"
    BY DEF Event
  <2> QED
    BY <2>1, <2>2, AppendedFits
<1>11. ASSUME NEW old \in Keys, NEW new \in Keys, ProposeRotatePubkey(old, new)
       PROVE  TypeOK' /\ BundleIsAnnounced'
  <2>1. PICK ev \in [type : {"RotatedPubkey"}, old : Keys, new : Keys] : AppendRotationEvent(ev)
    BY <1>11 DEF ProposeRotatePubkey
  <2>2. ev \in Event /\ ev.type # "ExpandedThreshold"
    BY DEF Event
  <2> QED
    BY <2>1, <2>2, AppendedFits
<1>12. ASSUME NEW new \in ThresholdInputs, ProposeThresholdChange(new)
       PROVE  TypeOK' /\ BundleIsAnnounced'
  <2> DEFINE ev == [type |-> "ExpandedThreshold", threshold |-> new]
             L == Len(pendingRotation.events)
  <2>1. /\ new >= 1 /\ new <= IF SeatsAfter > 1 THEN SeatsAfter ELSE 1
        /\ AppendRotationEvent(ev)
    BY <1>12 DEF ProposeThresholdChange
  <2>2. ev \in Event /\ ev.threshold = new /\ new \in Nat
    BY RangesAssumption DEF Event
  <2>3. SeatsAfter = SeatsThen(L)
    BY BundleReads, Zenon DEF SeatsAfter, SeatsThen, Pending, Counted, Kind
  <2>4. SeatsThen(L) \in Int
    BY BundleReads, CountedOne DEF SeatsThen
  <2>5. new = 1 \/ new \in 1 .. SeatsThen(L)
    BY <2>1, <2>2, <2>3, <2>4
  <2> HIDE DEF ev, L
  <2> QED
    BY <2>1, <2>2, <2>5, AppendedFits DEF L
<1>13. CASE RootCall
  BY <1>5, <1>6, <1>10, <1>11, <1>12, <1>13, Zenon DEF RootCall
<1> QED
  BY <1>4, <1>7, <1>8, <1>9, <1>13, Zenon DEF Next

\* Only an execution changes the threshold, to one that fits the seats and is
\* the last announced, if one was.
LEMMA ThresholdNext ==
  /\ ThresholdFitsSeats /\ TypeOK /\ BundleIsAnnounced /\ [Next]_vars => ThresholdFitsSeats'
  /\ TypeOK /\ BundleIsAnnounced /\ [Next]_vars =>
       [/\ ExecuteRotation => threshold' = AnnouncedThreshold
        /\ threshold' # threshold => ExecuteRotation]_vars
<1>1. CASE ExecuteRotation
  BY <1>1, ExecutedAsAnnounced DEF ThresholdFitsSeats
<1>2. CASE ~ ExecuteRotation /\ (NextBlock \/ RootCall \/ MirrorToCardano \/ UNCHANGED vars)
  <2>1. UNCHANGED <<members, threshold>>
    BY <1>2 DEF NextBlock, RootCall, MirrorToCardano, ProposeAddMember,
       ProposeRemoveMember, ProposeRotatePubkey, ProposeThresholdChange,
       AppendRotationEvent, CancelPendingRotation, SetRotationTimelock, vars
  <2> QED
    BY <1>2, <2>1 DEF ThresholdFitsSeats
<1> QED
  BY <1>1, <1>2 DEF Next

(***************************************************************************)
(* Theorems.                                                               *)
(***************************************************************************)
\* The committee never has more seats than MaxCommittee, a bundle never more
\* events than MaxRotationEvents: execute_rotation checks the first after each
\* addition, append_rotation_event the second.
THEOREM GovernanceTypes == Spec => []TypeOK
  BY GovernanceInit, GovernanceNext, PTL DEF Spec

\* The threshold fits the seats in every reachable state, for any inputs of
\* Root and any bundles.
THEOREM ThresholdFitsSeatsAlways == Spec => []ThresholdFitsSeats
<1>1. ThresholdFitsSeats /\ TypeOK /\ BundleIsAnnounced /\ [Next]_vars => ThresholdFitsSeats'
  BY ThresholdNext
<1> QED
  BY <1>1, GovernanceInit, GovernanceNext, PTL DEF Spec

\* execute_rotation never clamps a threshold, for bundles of any length and
\* committees of any size: propose_threshold_change counts the seats that
\* there are when its event's turn comes.
THEOREM AnnouncedThresholds == Spec => AnnouncedThresholdTakesEffect
<1>1. TypeOK /\ BundleIsAnnounced /\ [Next]_vars =>
        [/\ ExecuteRotation => threshold' = AnnouncedThreshold
         /\ threshold' # threshold => ExecuteRotation]_vars
  BY ThresholdNext
<1> QED
  BY <1>1, GovernanceInit, GovernanceNext, PTL DEF Spec, AnnouncedThresholdTakesEffect

=============================================================================
