-------------------------- MODULE PipelineV1Proofs --------------------------
(***************************************************************************)
(* Theorems about a version 1 run, for every set of bundles and any number *)
(* of faults, signals and edits: whatever a run leaves behind the loader   *)
(* takes, and what it records and answers is what happened.                *)
(***************************************************************************)
EXTENDS PipelineV1, FiniteSetTheorems, SequenceTheorems, TLAPS

-----------------------------------------------------------------------------
(* Counting the events of a kind.                                          *)

KindAt(es, kind, n) == {i \in 1..n : es[i].kind = kind}
Counted(es, kind, n) == Cardinality(KindAt(es, kind, n))

\* The validator's count of a kind of event is the cardinality of its positions.
LEMMA CountIs ==
  ASSUME NEW d, NEW kind, NEW n
  PROVE  CountOf(d, kind, n) = Counted(d.events, kind, n)
BY DEF CountOf, Counted, KindAt

\* The positions of a kind of event in a prefix of a journal are finitely many.
LEMMA CountType ==
  ASSUME NEW es, NEW kind, NEW n \in Nat
  PROVE  IsFiniteSet(KindAt(es, kind, n)) /\ Counted(es, kind, n) \in Nat
<1>1. IsFiniteSet(1..n) /\ KindAt(es, kind, n) \subseteq 1..n
  BY FS_Interval DEF KindAt
<1>2. IsFiniteSet(KindAt(es, kind, n))
  BY <1>1, FS_Subset
<1>3. QED
  BY <1>2, FS_CardinalityType DEF Counted

\* A prefix one event longer counts that event, when it is of the kind.
LEMMA CountStep ==
  ASSUME NEW es, NEW kind, NEW n \in Nat
  PROVE  Counted(es, kind, n + 1) =
           Counted(es, kind, n) + IF es[n + 1].kind = kind THEN 1 ELSE 0
<1> DEFINE old == KindAt(es, kind, n)
<1>1. IsFiniteSet(old) /\ n + 1 \notin old /\ Counted(es, kind, n) \in Nat
  BY CountType DEF KindAt
<1>2. CASE es[n + 1].kind = kind
  <2>1. KindAt(es, kind, n + 1) = old \cup {n + 1}
    BY <1>2 DEF KindAt
  <2>2. Cardinality(old \cup {n + 1}) = Cardinality(old) + 1
    <3> HIDE DEF old
    <3>1. QED
      BY <1>1, FS_AddElement
  <2>3. QED
    BY <1>2, <2>1, <2>2 DEF Counted
<1>3. CASE es[n + 1].kind # kind
  <2>1. KindAt(es, kind, n + 1) = old
    BY <1>3 DEF KindAt
  <2>2. QED
    BY <1>1, <1>3, <2>1 DEF Counted
<1>4. QED
  BY <1>2, <1>3

\* A longer prefix of a journal counts no fewer events of a kind.
LEMMA CountGrows ==
  ASSUME NEW es, NEW kind, NEW n \in Nat, NEW m \in 0..n
  PROVE  Counted(es, kind, m) <= Counted(es, kind, n)
<1>1. KindAt(es, kind, m) \subseteq KindAt(es, kind, n)
  BY DEF KindAt
<1>2. QED
  BY <1>1, CountType, FS_Subset DEF Counted

\* Journals that agree on a prefix count the same events in it.
LEMMA CountSame ==
  ASSUME NEW es, NEW fs, NEW kind, NEW n \in Nat,
         \A i \in 1..n : es[i] = fs[i]
  PROVE  Counted(es, kind, n) = Counted(fs, kind, n)
<1>1. KindAt(es, kind, n) = KindAt(fs, kind, n)
  BY DEF KindAt
<1>2. QED
  BY <1>1 DEF Counted

-----------------------------------------------------------------------------
(* What a command makes of the document, field by field.                   *)

Events == [kind : EventKinds, payload : Payloads]

\* Two documents that differ in what is named.
SameOrigin(d, e) == e.entry = d.entry /\ e.budget = d.budget
SameWalk(d, e) == e.cursor = d.cursor /\ e.count = d.count /\ e.transitions = d.transitions
SameEnd(d, e) == e.status = d.status /\ e.terminal = d.terminal /\ e.failure = d.failure

\* The types of a document's fields, and a document is not the absent one.
LEMMA DocumentFields ==
  ASSUME NEW d \in Document
  PROVE  /\ d.status \in Statuses /\ d.phase \in RunPhases
         /\ d.entry \in Names /\ d.budget \in Int /\ d.cursor \in Names /\ d.count \in Nat
         /\ d.terminal \in Maybe([state : Names, result : {"success", "failed"}])
         /\ d.failure \in Maybe(FailureReasons)
         /\ d.activations \in Seq(Activations) /\ d.transitions \in Seq(Transitions)
         /\ d.events \in Seq(Events)
         /\ d # None
BY DocumentAssumption DEF Document, Events

\* A payload of two fields is its own first two fields.
LEMMA Pairs ==
  ASSUME NEW s, NEW i
  PROVE  /\ <<s, i>> \o <<>> = <<s, i>>
         /\ SubSeq(<<s, i>>, 1, 2) = <<s, i>>
<1> DEFINE t == <<s, i>>
<1>1. t \in Seq({s, i}) /\ Len(t) = 2
  OBVIOUS
<1>2. t \o <<>> = t
  <2> HIDE DEF t
  <2>1. QED
    BY <1>1, ConcatEmptySeq
<1>3. SubSeq(t, 1, Len(t)) = t
  <2> HIDE DEF t
  <2>1. QED
    BY <1>1, SubSeqFull
<1>4. QED
  BY <1>1, <1>2, <1>3

\* A sequence with one more element: its length, its elements and its last one.
LEMMA AppendIs ==
  ASSUME NEW S, NEW q \in Seq(S), NEW x \in S
  PROVE  /\ Append(q, x) \in Seq(S)
         /\ Len(Append(q, x)) = Len(q) + 1
         /\ \A k \in 1..Len(q) : Append(q, x)[k] = q[k]
         /\ Append(q, x)[Len(q) + 1] = x
         /\ Last(Append(q, x)) = x /\ Append(q, x) # <<>>
BY DEF Last

\* A sequence of three elements is the one of two with a third added.
LEMMA SameThree ==
  ASSUME NEW S, NEW u \in Seq(S), NEW v \in Seq(S), NEW n \in Nat,
         n = 2, Len(u) = 3, Len(v) = n + 1,
         u[1] = v[1], u[2] = v[2], u[3] = v[n + 1]
  PROVE  u = v
<1>1. \A k \in 1..Len(u) : u[k] = v[k]
  OBVIOUS
<1>2. QED
  BY <1>1, SeqEqual

\* Adding a third field to a payload of two: what it is, and its first two fields.
LEMMA OneMore ==
  ASSUME NEW S, NEW t \in Seq(S), NEW u \in Seq(S), NEW x \in S
  PROVE  Len(t) = 2 /\ Len(u) = 3 /\ u[1] = t[1] /\ u[2] = t[2] /\ u[3] = x =>
           t \o <<x>> = u /\ SubSeq(u, 1, 2) = t
<1> DEFINE v == Append(t, x)
<1>1. /\ v \in Seq(S) /\ Len(v) = Len(t) + 1 /\ v[Len(t) + 1] = x
      /\ \A k \in 1..Len(t) : v[k] = t[k]
  BY AppendIs
<1>2. HAVE Len(t) = 2 /\ Len(u) = 3 /\ u[1] = t[1] /\ u[2] = t[2] /\ u[3] = x
<1>4. v = u
  <2> HIDE DEF v
  <2>1. v[1] = t[1] /\ v[2] = t[2]
    BY <1>1, <1>2
  <2>2. QED
    BY <1>1, <1>2, <2>1, SameThree
<1>5. t \o <<x>> = v
  BY AppendIsConcat, Zenon
<1>6. SubSeq(u, 1, 2) \in Seq(S) /\ Len(SubSeq(u, 1, 2)) = 2
  BY <1>2
<1>7. \A k \in 1..2 : SubSeq(u, 1, 2)[k] = t[k]
  BY <1>2
<1>8. QED
  BY <1>2, <1>4, <1>5, <1>6, <1>7, SeqEqual

\* A payload of three fields has the two it was made of as its first two.
LEMMA Triples ==
  ASSUME NEW s, NEW i, NEW x
  PROVE  /\ <<s, i>> \o <<x>> = <<s, i, x>>
         /\ SubSeq(<<s, i, x>>, 1, 2) = <<s, i>>
<1> DEFINE S == {s, i, x}
           t == <<s, i>>
           u == <<s, i, x>>
<1>1. t \in Seq(S) /\ u \in Seq(S) /\ Len(t) = 2 /\ Len(u) = 3 /\ x \in S
  OBVIOUS
<1>2. u[1] = t[1] /\ u[2] = t[2] /\ u[3] = x
  OBVIOUS
<1>3. t \o <<x>> = u /\ SubSeq(u, 1, 2) = t
  <2> HIDE DEF t, u, S
  <2>1. QED
    BY <1>1, <1>2, OneMore
<1>4. QED
  BY <1>3

\* The reducer's log appends one event and leaves the rest of the document alone.
LEMMA LogIs ==
  ASSUME NEW d \in Document, NEW kind \in EventKinds, NEW payload \in Payloads
  PROVE  LET e == Log(d, kind, payload) IN
         /\ e \in Document /\ SameOrigin(d, e) /\ SameWalk(d, e) /\ SameEnd(d, e)
         /\ e.phase = d.phase /\ e.activations = d.activations
         /\ e.events = Append(d.events, Event(kind, payload))
<1> DEFINE event == Event(kind, payload)
           es == Append(d.events, event)
<1>1. event \in Events
  BY DEF Event, Events
<1>2. es \in Seq(Events)
  <2> HIDE DEF event
  <2>1. QED
    BY <1>1, DocumentFields
<1>3. Log(d, kind, payload) = [d EXCEPT !.events = es]
  BY DEF Log
<1> HIDE DEF es
<1>4. [d EXCEPT !.events = es] \in Document
  BY <1>2 DEF Document, Events
<1>5. QED
  BY <1>3, <1>4 DEF Document, SameOrigin, SameWalk, SameEnd, es
-----------------------------------------------------------------------------
(* The journal after one more event.                                       *)

\* The journal of a document that logs an event: the old journal, then the event.
LEMMA EventAdded ==
  ASSUME NEW d \in Document, NEW event \in Events, NEW e,
         e.events = Append(d.events, event)
  PROVE  /\ e.events \in Seq(Events) /\ e.events # <<>> /\ Last(e.events) = event
         /\ Len(d.events) \in Nat /\ Len(e.events) = Len(d.events) + 1
         /\ e.events[Len(d.events) + 1] = event
         /\ \A m \in 1..Len(d.events) : e.events[m] = d.events[m]
         /\ DOMAIN e.events = 1..(Len(d.events) + 1)
         /\ DOMAIN d.events = 1..Len(d.events)
<1>1. d.events \in Seq(Events)
  BY DocumentFields
<1> DEFINE es == d.events
<1> HIDE DEF es
<1>2. /\ Append(es, event) \in Seq(Events) /\ Append(es, event) # <<>>
      /\ Last(Append(es, event)) = event
      /\ Len(Append(es, event)) = Len(es) + 1
      /\ Append(es, event)[Len(es) + 1] = event
      /\ \A m \in 1..Len(es) : Append(es, event)[m] = es[m]
  BY <1>1, AppendIs DEF es
<1>3. Len(es) \in Nat /\ DOMAIN es = 1..Len(es)
  BY <1>1 DEF es
<1>4. DOMAIN Append(es, event) = 1..(Len(es) + 1)
  BY <1>2
<1>5. QED
  BY <1>2, <1>3, <1>4 DEF es

\* The counts of the events before the new one stay, and the new one adds its own.
LEMMA CountsAdded ==
  ASSUME NEW d \in Document, NEW event \in Events, NEW e,
         e.events = Append(d.events, event), NEW kind
  PROVE  /\ \A m \in 0..Len(d.events) : CountOf(e, kind, m) = CountOf(d, kind, m)
         /\ CountOf(e, kind, Len(e.events)) =
              CountOf(d, kind, Len(d.events)) + IF event.kind = kind THEN 1 ELSE 0
         /\ \A m \in 0..Len(d.events) : CountOf(d, kind, m) \in Nat
<1> DEFINE n == Len(d.events)
<1>1. /\ n \in Nat /\ Len(e.events) = n + 1 /\ e.events[n + 1] = event
      /\ \A m \in 1..n : e.events[m] = d.events[m]
  BY EventAdded
<1> HIDE DEF n
<1>2. ASSUME NEW m \in 0..n
      PROVE  Counted(e.events, kind, m) = Counted(d.events, kind, m)
  <2>1. m \in Nat /\ \A i \in 1..m : e.events[i] = d.events[i]
    BY <1>1
  <2>2. QED
    BY <2>1, CountSame, Zenon
<1>3. Counted(e.events, kind, n + 1) =
        Counted(e.events, kind, n) + IF e.events[n + 1].kind = kind THEN 1 ELSE 0
  <2>1. n \in Nat
    BY <1>1
  <2>2. QED
    BY <2>1, CountStep, Zenon
<1>4. \A m \in 0..n : Counted(d.events, kind, m) \in Nat
  BY <1>1, CountType
<1>5. \A m : CountOf(e, kind, m) = Counted(e.events, kind, m)
             /\ CountOf(d, kind, m) = Counted(d.events, kind, m)
  BY CountIs, Zenon
<1>6. n \in 0..n
  BY <1>1
<1>7. QED
  BY <1>1, <1>2, <1>3, <1>4, <1>5, <1>6 DEF n

\* The kinds of the journal gain the kind of the new event.
LEMMA KindsAdded ==
  ASSUME NEW d \in Document, NEW event \in Events, NEW e,
         e.events = Append(d.events, event)
  PROVE  Kinds(e) = Kinds(d) \cup {event.kind}
<1> DEFINE n == Len(d.events)
<1>1. /\ n \in Nat /\ e.events[n + 1] = event
      /\ \A m \in 1..n : e.events[m] = d.events[m]
      /\ DOMAIN e.events = 1..(n + 1) /\ DOMAIN d.events = 1..n
  BY EventAdded
<1> HIDE DEF n
<1>2. QED
  BY <1>1 DEF Kinds

\* A journal in order stays in order when the new event may follow its last one.
LEMMA OrderAdded ==
  ASSUME NEW d \in Document, NEW event \in Events, NEW e,
         e.events = Append(d.events, event),
         EventOrder(d), event.kind \in Successors(Last(d.events).kind)
  PROVE  EventOrder(e)
<1> DEFINE n == Len(d.events)
<1>1. /\ n \in Nat /\ e.events[n + 1] = event /\ e.events # <<>> /\ Len(e.events) = n + 1
      /\ \A m \in 1..n : e.events[m] = d.events[m]
  BY EventAdded
<1>2. n >= 1
  BY DocumentFields DEF EventOrder
<1>3. Last(d.events) = d.events[n]
  BY DEF Last
<1> HIDE DEF n
<1>4. e.events[1].kind = "run_created"
  BY <1>1, <1>2 DEF EventOrder
<1>5. ASSUME NEW i \in 2..(n + 1)
      PROVE  e.events[i].kind \in Successors(e.events[i - 1].kind)
  <2>1. CASE i = n + 1
    BY <1>1, <1>2, <1>3, <2>1
  <2>2. CASE i \in 2..n
    <3>1. e.events[i] = d.events[i] /\ e.events[i - 1] = d.events[i - 1]
      BY <1>1, <2>2
    <3>2. d.events[i].kind \in Successors(d.events[i - 1].kind)
      BY <2>2 DEF EventOrder, n
    <3>3. QED
      BY <3>1, <3>2
  <2>3. QED
    BY <1>1, <2>1, <2>2
<1>6. QED
  BY <1>1, <1>4, <1>5 DEF EventOrder

\* The stages the journal shows of activation i gain the new event, when it is the
\* last activation's.
LEMMA StagesAdded ==
  ASSUME NEW d \in Document, NEW event \in Events, NEW e,
         e.events = Append(d.events, event), NEW i
  PROVE  SeenStages(e, i) =
           SeenStages(d, i) \cup
           IF event.kind \in Stages /\ CountOf(e, Started, Len(e.events)) = i
           THEN {event.kind} ELSE {}
<1> DEFINE n == Len(d.events)
<1>1. /\ n \in Nat /\ e.events[n + 1] = event /\ Len(e.events) = n + 1
      /\ \A m \in 1..n : e.events[m] = d.events[m]
      /\ DOMAIN e.events = 1..(n + 1) /\ DOMAIN d.events = 1..n
  BY EventAdded
<1>2. \A m \in 1..n : CountOf(e, Started, m) = CountOf(d, Started, m)
  BY CountsAdded, <1>1
<1> HIDE DEF n
<1> DEFINE About(f, m) == f.events[m].kind \in Stages /\ CountOf(f, Started, m) = i
<1>3. SeenStages(d, i) = {d.events[m].kind : m \in {k \in 1..n : About(d, k)}}
  BY <1>1 DEF SeenStages
<1>4. SeenStages(e, i) = {e.events[m].kind : m \in {k \in 1..(n + 1) : About(e, k)}}
  BY <1>1 DEF SeenStages
<1>5. \A m \in 1..n : About(e, m) = About(d, m) /\ e.events[m].kind = d.events[m].kind
  BY <1>1, <1>2
<1>6. About(e, n + 1) = (event.kind \in Stages /\ CountOf(e, Started, Len(e.events)) = i)
  BY <1>1
<1> HIDE DEF About
<1> DEFINE new == IF event.kind \in Stages /\ CountOf(e, Started, Len(e.events)) = i
                  THEN {event.kind} ELSE {}
<1>7. ASSUME NEW k \in SeenStages(e, i)
      PROVE  k \in SeenStages(d, i) \cup new
  <2>1. PICK m \in 1..(n + 1) : About(e, m) /\ k = e.events[m].kind
    BY <1>4
  <2>2. CASE m = n + 1
    BY <1>1, <1>6, <2>1, <2>2
  <2>3. CASE m \in 1..n
    BY <1>3, <1>5, <2>1, <2>3
  <2>4. QED
    BY <1>1, <2>2, <2>3
<1>8. ASSUME NEW k \in SeenStages(d, i)
      PROVE  k \in SeenStages(e, i)
  <2>1. PICK m \in 1..n : About(d, m) /\ k = d.events[m].kind
    BY <1>3
  <2>2. m \in 1..(n + 1) /\ About(e, m) /\ k = e.events[m].kind
    BY <1>1, <1>5, <2>1
  <2>3. QED
    BY <1>4, <2>2
<1>9. new \subseteq SeenStages(e, i)
  <2>1. CASE About(e, n + 1)
    <3>1. n + 1 \in 1..(n + 1) /\ e.events[n + 1].kind = event.kind
      BY <1>1
    <3>2. event.kind \in SeenStages(e, i)
      BY <1>4, <2>1, <3>1
    <3>3. QED
      BY <3>2
  <2>2. CASE ~About(e, n + 1)
    BY <1>6, <2>2
  <2>3. QED
    BY <2>1, <2>2
<1>10. QED
  BY <1>7, <1>8, <1>9

\* What the journal of d speaks of stands in e.
Grows(d, e) ==
  /\ Len(d.activations) <= Len(e.activations)
  /\ \A i \in DOMAIN d.activations :
       /\ e.activations[i].state = d.activations[i].state
       /\ d.activations[i].session # None =>
            e.activations[i].session = d.activations[i].session
  /\ Len(d.transitions) <= Len(e.transitions)
  /\ \A i \in DOMAIN d.transitions : e.transitions[i] = d.transitions[i]
  /\ d.terminal # None => e.terminal = d.terminal

\* An event keeps agreeing with its document while the document only grows.
LEMMA PayloadKept ==
  ASSUME NEW d \in Document, NEW event \in Events, NEW e \in Document,
         e.events = Append(d.events, event), Grows(d, e),
         NEW m \in DOMAIN d.events, PayloadCoherent(d, m)
  PROVE  PayloadCoherent(e, m)
<1> DEFINE index == CountOf(d, Started, m)
           step == CountOf(d, TransitionCommitted, m)
           ev == d.events[m]
<1>1. m \in 1..Len(d.events) /\ e.events[m] = ev /\ m \in 0..Len(d.events)
  BY EventAdded
<1>2. CountOf(e, Started, m) = index /\ CountOf(e, TransitionCommitted, m) = step
  BY <1>1, CountsAdded
<1>3. /\ index \in DOMAIN d.activations => index \in DOMAIN e.activations
      /\ step \in DOMAIN d.transitions => step \in DOMAIN e.transitions
  <2>1. /\ d.activations \in Seq(Activations) /\ e.activations \in Seq(Activations)
        /\ d.transitions \in Seq(Transitions) /\ e.transitions \in Seq(Transitions)
    BY DocumentFields
  <2>2. Len(d.activations) <= Len(e.activations) /\ Len(d.transitions) <= Len(e.transitions)
    BY DEF Grows
  <2> HIDE DEF index, step
  <2>3. QED
    BY <2>1, <2>2
<1> HIDE DEF index, step, ev
<1>4. /\ index \in DOMAIN d.activations =>
           /\ e.activations[index].state = d.activations[index].state
           /\ d.activations[index].session # None =>
                e.activations[index].session = d.activations[index].session
      /\ step \in DOMAIN d.transitions => e.transitions[step] = d.transitions[step]
      /\ d.terminal # None => e.terminal = d.terminal
  BY DEF Grows
<1>5. QED
  BY <1>1, <1>2, <1>3, <1>4 DEF PayloadCoherent, index, step, ev
-----------------------------------------------------------------------------
(* A run that has not ended: what every command of the runner preserves.    *)

\* The kind of the last event, as the rest of the document tells it.
Point(d) ==
  IF d.terminal # None THEN TerminalReached
  ELSE IF d.activations = <<>> THEN "run_created"
  ELSE CASE Last(d.activations).phase = "creating_session" -> Started
         [] Last(d.activations).phase = "session_cleanup_completed" ->
              IF Len(d.transitions) = LastIndex(d) THEN TransitionCommitted
              ELSE CleanupCompleted
         [] Last(d.activations).phase = "failed" -> ActivationFailed
         [] OTHER -> Last(d.activations).phase

Facts(d) ==
  /\ d.status = "active" /\ d.failure = None
  /\ d.phase = IF d.terminal # None THEN "finalizing"
               ELSE IF d.activations = <<>> THEN "validating" ELSE "running"
  /\ ActivationsCoherent(d)
  /\ CursorCoherent(d)
  /\ LastIndex(d) \in {Len(d.transitions), Len(d.transitions) + 1}
  /\ d.terminal # None => LastIndex(d) = Len(d.transitions) /\ d.cursor = d.terminal.state

Journal(d) ==
  /\ EventOrder(d)
  /\ Last(d.events).kind = Point(d)
  /\ (RunEnds \cup {"run_succeeded"}) \cap Kinds(d) = {}
  /\ JournalConfirms(d)

Active(d) == Facts(d) /\ Journal(d)

\* An activation in flight is the last one and has no transition yet.
LEMMA FlightFacts ==
  ASSUME NEW d \in Document, Facts(d), InFlight(d)
  PROVE  /\ LastIndex(d) \in Nat /\ LastIndex(d) >= 1
         /\ DOMAIN d.activations = 1..LastIndex(d)
         /\ Last(d.activations) = d.activations[LastIndex(d)]
         /\ Last(d.activations) \in Activations
         /\ Last(d.activations).phase \in ActivationPhases \ Finished
         /\ Len(d.transitions) = LastIndex(d) - 1
         /\ d.terminal = None /\ d.phase = "running"
         /\ Point(d) = IF Last(d.activations).phase = "creating_session" THEN Started
                       ELSE Last(d.activations).phase
<1>1. d.activations \in Seq(Activations) /\ d.transitions \in Seq(Transitions)
  BY DocumentFields
<1>2. /\ LastIndex(d) \in Nat /\ LastIndex(d) >= 1
      /\ DOMAIN d.activations = 1..LastIndex(d)
      /\ Last(d.activations) = d.activations[LastIndex(d)]
  BY <1>1 DEF InFlight, LastIndex, Last
<1>3. Last(d.activations) \in Activations
  BY <1>1, <1>2
<1>4. Last(d.activations).phase \in ActivationPhases \ Finished
  BY <1>3 DEF Activations, InFlight
<1>5. LastIndex(d) # Len(d.transitions)
  <2>1. SUFFICES ASSUME LastIndex(d) = Len(d.transitions) PROVE FALSE
    OBVIOUS
  <2>2. LastIndex(d) \in DOMAIN d.transitions
    BY <1>1, <1>2, <2>1
  <2>3. d.activations[LastIndex(d)].phase = "session_cleanup_completed"
    BY <2>2 DEF Facts, CursorCoherent, TransitionCoherent
  <2>4. QED
    BY <1>2, <1>4, <2>3 DEF Finished
<1>6. Len(d.transitions) = LastIndex(d) - 1
  BY <1>1, <1>2, <1>5 DEF Facts
<1>7. d.terminal = None
  BY <1>5 DEF Facts
<1>8. d.activations # <<>>
  BY DEF InFlight
<1>9. d.phase = "running"
  BY <1>7, <1>8 DEF Facts
<1>10. Point(d) = IF Last(d.activations).phase = "creating_session" THEN Started
                  ELSE Last(d.activations).phase
  BY <1>4, <1>7, <1>8 DEF Point, Finished
<1>11. QED
  BY <1>2, <1>3, <1>4, <1>6, <1>7, <1>9, <1>10

\* advanceActivation replaces the last activation and logs the event with its payload.
LEMMA AdvanceIs ==
  ASSUME NEW d \in Document, LastIndex(d) \in DOMAIN d.activations,
         NEW a \in Activations, NEW kind \in EventKinds, NEW extra,
         <<a.state, LastIndex(d)>> \o extra \in Payloads
  PROVE  LET e == Advance(d, a, kind, extra) IN
         /\ e \in Document /\ SameOrigin(d, e) /\ SameWalk(d, e) /\ SameEnd(d, e)
         /\ e.phase = d.phase
         /\ e.activations = [d.activations EXCEPT ![LastIndex(d)] = a]
         /\ e.events = Append(d.events, Event(kind, <<a.state, LastIndex(d)>> \o extra))
<1> DEFINE as == [d.activations EXCEPT ![LastIndex(d)] = a]
           f == [d EXCEPT !.activations = as]
<1>1. as \in Seq(Activations)
  BY DocumentFields DEF LastIndex
<1>2. [d EXCEPT !.activations[LastIndex(d)] = a] = f
  OBVIOUS
<1> HIDE DEF as
<1>3. f \in Document
  BY <1>1 DEF Document
<1>4. /\ SameOrigin(d, f) /\ SameWalk(d, f) /\ SameEnd(d, f)
      /\ f.phase = d.phase /\ f.activations = as /\ f.events = d.events
  BY DEF Document, SameOrigin, SameWalk, SameEnd
<1> HIDE DEF f
<1>5. Advance(d, a, kind, extra) = Log(f, kind, <<a.state, LastIndex(d)>> \o extra)
  BY <1>2 DEF Advance
<1> DEFINE e == Log(f, kind, <<a.state, LastIndex(d)>> \o extra)
<1>6. /\ e \in Document /\ SameOrigin(f, e) /\ SameWalk(f, e) /\ SameEnd(f, e)
      /\ e.phase = f.phase /\ e.activations = f.activations
      /\ e.events = Append(f.events, Event(kind, <<a.state, LastIndex(d)>> \o extra))
  BY <1>3, LogIs
<1> HIDE DEF e
<1>7. QED
  BY <1>4, <1>5, <1>6 DEF SameOrigin, SameWalk, SameEnd, e, as
-----------------------------------------------------------------------------
(* The record of the activation in flight moves on.                        *)

\* The kind of the event that says an activation has come to a phase.
PhaseEvent(phase) == IF phase = "failed" THEN ActivationFailed ELSE phase

\* What record a makes of the last one, and the event of it.
Moves(last, a, kind, extra) ==
  /\ a.state = last.state
  /\ ActivationCoherent(a)
  /\ a.session = last.session \/ (last.session = None /\ a.session # None)
  /\ a.phase # "creating_session" /\ kind = PhaseEvent(a.phase)
  /\ kind \in Successors(IF last.phase = "creating_session" THEN Started ELSE last.phase)
  /\ IF kind = SessionCreated THEN extra = <<a.session>> /\ a.session \in Nat ELSE extra = <<>>
  /\ a.session # None => last.session # None \/ kind = SessionCreated
  /\ Required(a.phase) \subseteq Required(last.phase) \cup {kind}
  /\ Forbidden(a.phase) \subseteq Forbidden(last.phase) \ {kind}
  /\ (a.digest # None) = (last.digest # None \/ kind = ResultAccepted)
  /\ a.phase = "failed" => a.reason # None /\ a.cleanup # None

\* Record a takes the place of the last one of d.
Replaces(d, e, a) ==
  /\ Facts(d) /\ InFlight(d)
  /\ SameOrigin(d, e) /\ SameWalk(d, e) /\ e.terminal = d.terminal
  /\ e.activations = [d.activations EXCEPT ![LastIndex(d)] = a]

\* Replacing the last activation keeps the others, their number and their order.
LEMMA ReplacedActivations ==
  ASSUME NEW d \in Document, NEW e \in Document, NEW a \in Activations,
         Replaces(d, e, a)
  PROVE  /\ DOMAIN e.activations = 1..LastIndex(d) /\ LastIndex(e) = LastIndex(d)
         /\ e.activations # <<>>
         /\ e.activations[LastIndex(d)] = a /\ Last(e.activations) = a
         /\ \A i \in 1..(LastIndex(d) - 1) : e.activations[i] = d.activations[i]
<1>1. /\ LastIndex(d) \in Nat /\ LastIndex(d) >= 1
      /\ DOMAIN d.activations = 1..LastIndex(d)
  BY FlightFacts DEF Replaces
<1>2. e.activations \in Seq(Activations) /\ e.activations = [d.activations EXCEPT ![LastIndex(d)] = a]
  BY DocumentFields DEF Replaces
<1>3. DOMAIN e.activations = 1..LastIndex(d)
  BY <1>1, <1>2
<1>4. LastIndex(e) = LastIndex(d)
  BY <1>1, <1>2, <1>3 DEF LastIndex
<1>5. e.activations[LastIndex(d)] = a
  BY <1>1, <1>2
<1>6. \A i \in 1..(LastIndex(d) - 1) : e.activations[i] = d.activations[i]
  BY <1>1, <1>2
<1>7. Last(e.activations) = a
  BY <1>4, <1>5 DEF Last, LastIndex
<1>8. e.activations # <<>>
  BY <1>1, <1>3
<1>9. QED
  BY <1>3, <1>4, <1>5, <1>6, <1>7, <1>8

\* A document whose last activation is replaced by a coherent one, of its session or
\* of a new one, stays coherent.
LEMMA ReplacedFacts ==
  ASSUME NEW d \in Document, NEW e \in Document, NEW a \in Activations,
         Replaces(d, e, a), ActivationCoherent(a),
         \/ a.session \in {Last(d.activations).session, None}
         \/ \A i \in DOMAIN d.activations : d.activations[i].session # a.session
  PROVE  ActivationsCoherent(e) /\ CursorCoherent(e)
<1> DEFINE k == LastIndex(d)
<1>1. /\ k \in Nat /\ k >= 1 /\ Len(d.transitions) = k - 1
      /\ DOMAIN d.activations = 1..k /\ Last(d.activations) = d.activations[k]
  BY FlightFacts DEF Replaces
<1>2. /\ DOMAIN e.activations = 1..k /\ LastIndex(e) = k /\ e.activations[k] = a
      /\ \A i \in 1..(k - 1) : e.activations[i] = d.activations[i]
  BY ReplacedActivations
<1>3. ActivationsCoherent(d) /\ CursorCoherent(d)
  BY DEF Replaces, Facts
<1>4. ActivationType(a)
  BY DEF Activations, ActivationType, Maybe
<1> HIDE DEF k
<1>5. SessionsDistinct(e)
  <2>1. SUFFICES ASSUME NEW i \in 1..k, NEW j \in 1..k, i # j,
                        e.activations[i].session = e.activations[j].session,
                        e.activations[i].session # None
                 PROVE  FALSE
    BY <1>2, Zenon DEF SessionsDistinct
  <2>2. \A m, n \in 1..k : d.activations[m].session = d.activations[n].session =>
          m = n \/ d.activations[m].session = None
    BY <1>1, <1>3 DEF ActivationsCoherent, SessionsDistinct
  <2>3. CASE i # k /\ j # k
    <3>1. i \in 1..(k - 1) /\ j \in 1..(k - 1)
      BY <1>1, <2>3
    <3>2. QED
      BY <1>2, <2>1, <2>2, <3>1
  <2>4. ASSUME NEW m \in 1..k, m # k, e.activations[m].session = a.session, a.session # None
        PROVE  FALSE
    <3>1. m \in 1..(k - 1) /\ k \in 1..k
      BY <1>1, <2>4
    <3>2. d.activations[m].session = a.session
      BY <1>2, <2>4, <3>1
    <3>3. a.session = d.activations[k].session
      BY <1>1, <2>4, <3>2
    <3>4. QED
      BY <2>2, <2>4, <3>1, <3>2, <3>3
  <2>5. QED
    BY <1>2, <2>1, <2>3, <2>4
<1>6. ASSUME NEW i \in 1..k
      PROVE  /\ ActivationType(e.activations[i]) /\ ActivationCoherent(e.activations[i])
             /\ i < k => e.activations[i].phase \in Finished
  <2>1. CASE i = k
    BY <1>1, <1>2, <1>4, <2>1
  <2>2. CASE i # k
    <3>1. i \in 1..(k - 1) /\ i < k /\ i \in DOMAIN d.activations
      BY <1>1, <2>2
    <3>2. QED
      BY <1>2, <1>3, <3>1 DEF ActivationsCoherent, k
  <2>3. QED
    BY <2>1, <2>2
<1>7. ActivationsCoherent(e)
  BY <1>2, <1>5, <1>6 DEF ActivationsCoherent
<1>8. /\ e.transitions = d.transitions /\ e.budget = d.budget /\ e.count = d.count
      /\ e.cursor = d.cursor /\ e.entry = d.entry
  BY DEF Replaces, SameOrigin, SameWalk
<1>9. ASSUME NEW i \in DOMAIN e.transitions
      PROVE  TransitionCoherent(e, i)
  <2>1. d.transitions \in Seq(Transitions) /\ i \in DOMAIN d.transitions
    BY <1>8, DocumentFields
  <2>2. i \in 1..(k - 1)
    BY <1>1, <2>1
  <2>3. i \in DOMAIN e.activations /\ e.activations[i] = d.activations[i]
    BY <1>1, <1>2, <2>2
  <2>4. TransitionCoherent(d, i)
    BY <1>3, <2>1 DEF CursorCoherent
  <2>5. QED
    BY <1>8, <2>3, <2>4 DEF TransitionCoherent
<1>10. CursorCoherent(e)
  BY <1>3, <1>8, <1>9 DEF CursorCoherent
<1>11. QED
  BY <1>7, <1>10
\* The records of an activation that the new event is not about.
LEMMA StagesKept ==
  ASSUME NEW d, NEW e, NEW i, e.activations[i] = d.activations[i],
         SeenStages(e, i) = SeenStages(d, i),
         RunEnds \cap Kinds(d) = {}, StagesConfirmed(d, i)
  PROVE  StagesConfirmed(e, i)
<1>1. d.activations[i].phase = "failed" => ActivationFailed \in SeenStages(d, i)
  BY Zenon DEF StagesConfirmed, FailureConfirmed
<1>2. e.activations[i].phase = "failed" => FailureConfirmed(e, i)
  BY <1>1 DEF StagesConfirmed, FailureConfirmed
<1>3. QED
  BY <1>2 DEF StagesConfirmed

\* A new record of the activation in flight leaves the journal's word standing.
LEMMA ReplacedJournal ==
  ASSUME NEW d \in Document, NEW e \in Document, NEW a \in Activations,
         NEW event \in Events,
         Active(d), Replaces(d, e, a), e.events = Append(d.events, event),
         a.state = Last(d.activations).state,
         a.session = Last(d.activations).session \/ Last(d.activations).session = None,
         event.kind \in Stages \cup RunEnds,
         event.kind \in Successors(Point(d))
  PROVE  /\ EventOrder(e) /\ Last(e.events) = event
         /\ Kinds(e) = Kinds(d) \cup {event.kind}
         /\ \A m \in DOMAIN d.events : PayloadCoherent(e, m)
         /\ CountOf(e, Started, Len(e.events)) = LastIndex(d)
         /\ CountOf(e, TransitionCommitted, Len(e.events)) = Len(e.transitions)
         /\ CountOf(e, TerminalReached, Len(e.events)) = 0
         /\ \A i \in 1..(LastIndex(d) - 1) : StagesConfirmed(e, i)
         /\ SeenStages(e, LastIndex(d)) =
              SeenStages(d, LastIndex(d)) \cup ({event.kind} \cap Stages)
         /\ StagesConfirmed(d, LastIndex(d))
<1> DEFINE k == LastIndex(d)
<1>1. /\ k \in Nat /\ k >= 1 /\ Len(d.transitions) = k - 1 /\ d.terminal = None
      /\ DOMAIN d.activations = 1..k /\ Last(d.activations) = d.activations[k]
  BY FlightFacts DEF Replaces
<1>2. /\ DOMAIN e.activations = 1..k /\ LastIndex(e) = k /\ e.activations[k] = a
      /\ \A i \in 1..(k - 1) : e.activations[i] = d.activations[i]
  BY ReplacedActivations
<1>3. Journal(d) /\ JournalConfirms(d) /\ RunEnds \cap Kinds(d) = {}
  BY DEF Active, Journal
<1>4. event.kind \notin {Started, TransitionCommitted, TerminalReached}
  BY DEF Stages, RunEnds, Started, TransitionCommitted, TerminalReached, SessionCreated,
         AgentRunning, ResultAccepted, CleanupCompleted, ActivationFailed
<1>5. EventOrder(e)
  BY <1>3, OrderAdded DEF Journal
<1>6. Last(e.events) = event /\ Kinds(e) = Kinds(d) \cup {event.kind}
  <2>1. Last(e.events) = event
    <3>1. Len(e.events) = Len(d.events) + 1 /\ e.events[Len(d.events) + 1] = event
      BY EventAdded
    <3>2. QED
      BY <3>1 DEF Last
  <2>2. Kinds(e) = Kinds(d) \cup {event.kind}
    BY KindsAdded, Zenon
  <2>3. QED
    BY <2>1, <2>2
<1>7. Grows(d, e)
  <2> HIDE DEF k
  <2>1. Len(d.activations) <= Len(e.activations)
    BY <1>1, <1>2 DEF LastIndex, k
  <2>2. e.transitions = d.transitions /\ e.terminal = d.terminal
    BY DEF Replaces, SameWalk
  <2>3. Len(d.transitions) <= Len(e.transitions)
    BY <1>1, <2>2
  <2>4. ASSUME NEW i \in DOMAIN d.activations
        PROVE  /\ e.activations[i].state = d.activations[i].state
               /\ d.activations[i].session # None =>
                    e.activations[i].session = d.activations[i].session
    <3>1. CASE i = k
      BY <1>1, <1>2, <3>1
    <3>2. CASE i # k
      <4>1. i \in 1..(k - 1)
        BY <1>1, <2>4, <3>2
      <4>2. QED
        BY <1>2, <4>1
    <3>3. QED
      BY <3>1, <3>2
  <2>5. QED
    BY <2>1, <2>2, <2>3, <2>4 DEF Grows
<1>8. ASSUME NEW m \in DOMAIN d.events
      PROVE  PayloadCoherent(e, m)
  <2>1. PayloadCoherent(d, m)
    BY <1>3, <1>8 DEF JournalConfirms
  <2>2. QED
    BY <1>7, <2>1, PayloadKept
<1>9. /\ CountOf(e, Started, Len(e.events)) = CountOf(d, Started, Len(d.events))
      /\ CountOf(e, TransitionCommitted, Len(e.events)) =
           CountOf(d, TransitionCommitted, Len(d.events))
      /\ CountOf(e, TerminalReached, Len(e.events)) =
           CountOf(d, TerminalReached, Len(d.events))
  <2>1. Len(d.events) \in 0..Len(d.events)
    BY DocumentFields
  <2>2. ASSUME NEW kind, kind # event.kind
        PROVE  CountOf(e, kind, Len(e.events)) = CountOf(d, kind, Len(d.events))
    <3>1. CountOf(e, kind, Len(e.events)) =
            CountOf(d, kind, Len(d.events)) + IF event.kind = kind THEN 1 ELSE 0
      BY CountsAdded
    <3>2. CountOf(d, kind, Len(d.events)) \in Nat
      BY <2>1, CountsAdded, Zenon
    <3>3. QED
      BY <2>2, <3>1, <3>2
  <2>3. QED
    BY <1>4, <2>2
<1>10. /\ CountOf(d, Started, Len(d.events)) = k
       /\ CountOf(d, TransitionCommitted, Len(d.events)) = Len(d.transitions)
       /\ CountOf(d, TerminalReached, Len(d.events)) = 0
  BY <1>1, <1>3 DEF JournalConfirms
<1>11. ASSUME NEW i \in 1..(k - 1)
       PROVE  StagesConfirmed(e, i)
  <2>1. i \in DOMAIN d.activations /\ i # k
    BY <1>1, <1>11
  <2>2. StagesConfirmed(d, i)
    BY <1>3, <2>1 DEF JournalConfirms
  <2>3. SeenStages(e, i) = SeenStages(d, i)
    <3>1. SeenStages(e, i) =
            SeenStages(d, i) \cup
            IF event.kind \in Stages /\ CountOf(e, Started, Len(e.events)) = i
            THEN {event.kind} ELSE {}
      BY StagesAdded
    <3>2. QED
      BY <1>9, <1>10, <2>1, <3>1
  <2>4. QED
    BY <1>2, <1>3, <1>11, <2>2, <2>3, StagesKept
<1>12. SeenStages(e, k) = SeenStages(d, k) \cup ({event.kind} \cap Stages)
  <2>1. SeenStages(e, k) = SeenStages(d, k) \cup IF event.kind \in Stages THEN {event.kind} ELSE {}
    BY <1>9, <1>10, StagesAdded
  <2>2. QED
    BY <2>1
<1>13. StagesConfirmed(d, k)
  <2>1. k \in DOMAIN d.activations
    BY <1>1
  <2>2. QED
    BY <1>3, <2>1 DEF JournalConfirms
<1>14. e.transitions = d.transitions
  BY DEF Replaces, SameWalk
<1>15. QED
  BY <1>5, <1>6, <1>8, <1>9, <1>10, <1>11, <1>12, <1>13, <1>14
\* The event of a stage names the activation it is about.
LEMMA StagePayload ==
  ASSUME NEW d, NEW n, NEW event, d.events[n] = event, event.kind \in Stages \cup {Started},
         NEW k \in DOMAIN d.activations, CountOf(d, Started, n) = k,
         SubSeq(event.payload, 1, 2) = <<d.activations[k].state, k>>,
         event.kind = SessionCreated =>
           d.activations[k].session # None /\ event.payload[3] = d.activations[k].session
  PROVE  PayloadCoherent(d, n)
BY DEF PayloadCoherent, Stages, Started, SessionCreated, AgentRunning, ResultAccepted,
       CleanupCompleted, ActivationFailed, TransitionCommitted, TerminalReached

\* Every record of the activation in flight that the runner makes.
LEMMA AdvanceKeeps ==
  ASSUME NEW d \in Document, Active(d), InFlight(d),
         NEW a \in Activations, NEW kind \in Stages, NEW extra,
         Moves(Last(d.activations), a, kind, extra),
         \/ a.session \in {Last(d.activations).session, None}
         \/ \A i \in DOMAIN d.activations : d.activations[i].session # a.session
  PROVE  LET e == Advance(d, a, kind, extra) IN
         /\ e \in Document /\ Active(e)
         /\ Replaces(d, e, a) /\ e.status = d.status
<1> DEFINE e == Advance(d, a, kind, extra)
           k == LastIndex(d)
           last == Last(d.activations)
           payload == <<a.state, k>> \o extra
           event == Event(kind, payload)
<1>1. /\ k \in Nat /\ k >= 1 /\ Len(d.transitions) = k - 1 /\ d.terminal = None
      /\ DOMAIN d.activations = 1..k /\ last = d.activations[k]
      /\ last.phase \in ActivationPhases \ Finished /\ d.phase = "running"
      /\ Point(d) = IF last.phase = "creating_session" THEN Started ELSE last.phase
  BY FlightFacts DEF Active
<1>2. kind \in EventKinds
  BY DEF EventKinds
<1>3. a.state \in Names
  BY DEF Activations
<1>4. /\ kind = SessionCreated => extra = <<a.session>> /\ a.session \in Nat
      /\ kind # SessionCreated => extra = <<>>
  BY DEF Moves
<1>5. /\ payload \in Payloads /\ SubSeq(payload, 1, 2) = <<a.state, k>>
      /\ kind = SessionCreated => payload[3] = a.session
  <2>1. CASE kind = SessionCreated
    <3>1. payload = <<a.state, k, a.session>> /\ SubSeq(payload, 1, 2) = <<a.state, k>>
      BY <1>4, <2>1, Triples
    <3>2. <<a.state, k, a.session>> \in Names \X Nat \X Nat
      BY <1>1, <1>3, <1>4, <2>1
    <3>3. <<a.state, k, a.session>>[3] = a.session
      OBVIOUS
    <3> HIDE DEF payload
    <3>4. QED
      BY <3>1, <3>2, <3>3 DEF Payloads
  <2>2. CASE kind # SessionCreated
    <3>1. payload = <<a.state, k>> /\ SubSeq(payload, 1, 2) = <<a.state, k>>
      BY <1>4, <2>2, Pairs
    <3>2. <<a.state, k>> \in Names \X Nat
      BY <1>1, <1>3
    <3> HIDE DEF payload
    <3>3. QED
      BY <2>2, <3>1, <3>2 DEF Payloads
  <2>3. QED
    BY <2>1, <2>2
<1>6. k \in DOMAIN d.activations
  BY <1>1
<1>7. /\ e \in Document /\ SameOrigin(d, e) /\ SameWalk(d, e) /\ SameEnd(d, e)
      /\ e.phase = d.phase
      /\ e.activations = [d.activations EXCEPT ![k] = a]
      /\ e.events = Append(d.events, event)
  <2> HIDE DEF payload
  <2>1. payload \in Payloads
    BY <1>5
  <2>2. QED
    BY <1>2, <1>6, <2>1, AdvanceIs DEF payload
<1> HIDE DEF e
<1>8. event \in Events /\ event.kind = kind /\ event.payload = payload
  <2> HIDE DEF payload
  <2>1. QED
    BY <1>2, <1>5 DEF Event, Events
<1>9. Replaces(d, e, a)
  BY <1>7 DEF Replaces, Active, SameEnd
<1>10. /\ DOMAIN e.activations = 1..k /\ LastIndex(e) = k /\ e.activations # <<>>
       /\ e.activations[k] = a /\ Last(e.activations) = a
  BY ZenonT(30), <1>7, <1>9, ReplacedActivations
<1>11. ActivationsCoherent(e) /\ CursorCoherent(e)
  BY <1>7, <1>9, ReplacedFacts DEF Moves
<1>12. Facts(d)
  BY DEF Active
<1>13. Facts(e)
  <2>1. /\ e.status = d.status /\ e.failure = d.failure /\ e.terminal = d.terminal
        /\ e.transitions = d.transitions
    BY <1>7 DEF SameEnd, SameWalk
  <2>2. LastIndex(e) \in {Len(e.transitions), Len(e.transitions) + 1}
    BY <1>1, <1>10, <2>1
  <2>3. QED
    BY <1>1, <1>7, <1>10, <1>11, <1>12, <2>1, <2>2 DEF Facts
<1>14. kind \in Successors(Point(d))
  BY <1>1 DEF Moves
<1>15. /\ a.state = last.state /\ (a.session = last.session \/ last.session = None)
  BY DEF Moves
<1> HIDE DEF payload, event, last
<1> DEFINE first == event.kind \in Stages \cup RunEnds
<1>0. Active(d) /\ first /\ event.kind \in Successors(Point(d))
      /\ a.state = Last(d.activations).state
      /\ (a.session = Last(d.activations).session \/ Last(d.activations).session = None)
  BY <1>8, <1>14, <1>15 DEF last
<1>16. /\ EventOrder(e) /\ Last(e.events) = event
       /\ Kinds(e) = Kinds(d) \cup {kind}
       /\ \A m \in DOMAIN d.events : PayloadCoherent(e, m)
       /\ CountOf(e, Started, Len(e.events)) = k
       /\ CountOf(e, TransitionCommitted, Len(e.events)) = Len(e.transitions)
       /\ CountOf(e, TerminalReached, Len(e.events)) = 0
       /\ \A i \in 1..(k - 1) : StagesConfirmed(e, i)
       /\ SeenStages(e, k) = SeenStages(d, k) \cup {kind}
       /\ StagesConfirmed(d, k)
  <2>1. /\ EventOrder(e) /\ Last(e.events) = event
        /\ Kinds(e) = Kinds(d) \cup {event.kind}
        /\ \A m \in DOMAIN d.events : PayloadCoherent(e, m)
        /\ CountOf(e, Started, Len(e.events)) = LastIndex(d)
        /\ CountOf(e, TransitionCommitted, Len(e.events)) = Len(e.transitions)
        /\ CountOf(e, TerminalReached, Len(e.events)) = 0
        /\ \A i \in 1..(LastIndex(d) - 1) : StagesConfirmed(e, i)
        /\ SeenStages(e, LastIndex(d)) =
             SeenStages(d, LastIndex(d)) \cup ({event.kind} \cap Stages)
        /\ StagesConfirmed(d, LastIndex(d))
    BY <1>0, <1>7, <1>8, <1>9, ReplacedJournal
  <2>2. {event.kind} \cap Stages = {kind}
    BY <1>8
  <2>3. QED
    BY <1>8, <2>1, <2>2
<1>17. Last(e.events).kind = Point(e)
  <2>1. e.terminal = None /\ Len(e.transitions) = k - 1
    BY <1>1, <1>7 DEF SameEnd, SameWalk
  <2>2. a.phase # "creating_session" /\ kind = PhaseEvent(a.phase)
    BY DEF Moves
  <2>3. Point(e) = kind
    BY <1>1, <1>10, <2>1, <2>2 DEF Point, PhaseEvent, CleanupCompleted, ActivationFailed
  <2>4. QED
    BY <1>8, <1>16, <2>3
<1>18. (RunEnds \cup {"run_succeeded"}) \cap Kinds(e) = {}
  <2>1. (RunEnds \cup {"run_succeeded"}) \cap Kinds(d) = {}
    BY DEF Active, Journal
  <2>2. kind \notin RunEnds \cup {"run_succeeded"}
    BY DEF Stages, RunEnds, SessionCreated, AgentRunning, ResultAccepted, CleanupCompleted,
           ActivationFailed
  <2>3. QED
    BY <1>16, <2>1, <2>2
<1>19. \A m \in DOMAIN e.events : PayloadCoherent(e, m)
  <2>1. /\ DOMAIN e.events = 1..(Len(d.events) + 1) /\ DOMAIN d.events = 1..Len(d.events)
        /\ Len(d.events) \in Nat /\ e.events[Len(d.events) + 1] = event
        /\ Len(e.events) = Len(d.events) + 1
    BY <1>7, <1>8, EventAdded
  <2>2. PayloadCoherent(e, Len(d.events) + 1)
    <3>1. CountOf(e, Started, Len(d.events) + 1) = k /\ k \in DOMAIN e.activations
      BY <1>1, <1>10, <1>16, <2>1
    <3>2. kind = SessionCreated => a.session # None
      BY <1>4, NoneAssumption
    <3>3. SubSeq(event.payload, 1, 2) = <<e.activations[k].state, k>>
      BY <1>5, <1>8, <1>10
    <3>4. kind = SessionCreated =>
            e.activations[k].session # None /\ event.payload[3] = e.activations[k].session
      BY <1>5, <1>8, <1>10, <3>2
    <3>5. QED
      BY <1>8, <2>1, <3>1, <3>3, <3>4, StagePayload
  <2>3. QED
    BY <1>16, <2>1, <2>2
<1>20. StagesConfirmed(e, k)
  <2> DEFINE seen == SeenStages(d, k)
  <2>1. /\ last.session # None => SessionCreated \in seen
        /\ Required(last.phase) \subseteq seen
        /\ Forbidden(last.phase) \cap seen = {}
        /\ (last.digest # None) = (ResultAccepted \in seen)
    BY <1>1, <1>16 DEF StagesConfirmed
  <2>2. /\ a.session # None => last.session # None \/ kind = SessionCreated
        /\ Required(a.phase) \subseteq Required(last.phase) \cup {kind}
        /\ Forbidden(a.phase) \subseteq Forbidden(last.phase) \ {kind}
        /\ (a.digest # None) = (last.digest # None \/ kind = ResultAccepted)
        /\ a.phase = "failed" => a.reason # None /\ a.cleanup # None /\ kind = ActivationFailed
    BY DEF Moves, PhaseEvent, last
  <2>3. SeenStages(e, k) = seen \cup {kind} /\ e.activations[k] = a
    BY <1>10, <1>16
  <2> HIDE DEF seen
  <2>4. a.phase = "failed" => FailureConfirmed(e, k)
    BY <2>2, <2>3 DEF FailureConfirmed
  <2>5. /\ a.session # None => SessionCreated \in seen \cup {kind}
        /\ Required(a.phase) \subseteq seen \cup {kind}
        /\ Forbidden(a.phase) \cap (seen \cup {kind}) = {}
        /\ (a.digest # None) = (ResultAccepted \in seen \cup {kind})
    BY <2>1, <2>2
  <2>6. QED
    BY <2>3, <2>4, <2>5 DEF StagesConfirmed
<1>21. JournalConfirms(e)
  <2>1. \A i \in DOMAIN e.activations : StagesConfirmed(e, i)
    BY <1>1, <1>10, <1>16, <1>20
  <2>2. e.terminal = None
    BY <1>1, <1>7 DEF SameEnd
  <2>3. QED
    BY <1>10, <1>16, <1>19, <2>1, <2>2 DEF JournalConfirms
<1>22. Active(e)
  BY <1>13, <1>16, <1>17, <1>18, <1>21 DEF Active, Journal
<1>23. QED
  BY <1>7, <1>9, <1>22 DEF e, SameEnd
\* Document e is d with record a in the place of its last one.
Moved(d, e, a) ==
  /\ e \in Document /\ Active(e)
  /\ SameOrigin(d, e) /\ SameWalk(d, e) /\ e.terminal = d.terminal
  /\ LastIndex(e) = LastIndex(d) /\ LastIndex(d) \in Nat \ {0}
  /\ DOMAIN e.activations = 1..LastIndex(d) /\ DOMAIN d.activations = 1..LastIndex(d)
  /\ Last(e.activations) = a /\ e.activations[LastIndex(d)] = a /\ e.activations # <<>>
  /\ \A i \in 1..(LastIndex(d) - 1) : e.activations[i] = d.activations[i]

\* A stage of the last activation that its move allows keeps the document at its
\* position: the reducer's advance and the validator's order of stages agree.
LEMMA AdvanceMoves ==
  ASSUME NEW d \in Document, Active(d), InFlight(d),
         NEW a \in Activations, NEW kind \in Stages, NEW extra,
         Moves(Last(d.activations), a, kind, extra),
         \/ a.session \in {Last(d.activations).session, None}
         \/ \A i \in DOMAIN d.activations : d.activations[i].session # a.session
  PROVE  Moved(d, Advance(d, a, kind, extra), a)
<1> DEFINE e == Advance(d, a, kind, extra)
<1>1. e \in Document /\ Active(e) /\ Replaces(d, e, a)
  BY AdvanceKeeps
<1> HIDE DEF e
<1>2. /\ DOMAIN e.activations = 1..LastIndex(d) /\ LastIndex(e) = LastIndex(d)
      /\ e.activations # <<>>
      /\ e.activations[LastIndex(d)] = a /\ Last(e.activations) = a
      /\ \A i \in 1..(LastIndex(d) - 1) : e.activations[i] = d.activations[i]
  BY <1>1, ReplacedActivations
<1>3. LastIndex(d) \in Nat \ {0} /\ DOMAIN d.activations = 1..LastIndex(d)
  BY FlightFacts DEF Active
<1>4. SameOrigin(d, e) /\ SameWalk(d, e) /\ e.terminal = d.terminal
  BY <1>1 DEF Replaces
<1>5. QED
  BY <1>1, <1>2, <1>3, <1>4 DEF Moved, e

\* What the activation in flight records of itself.
LEMMA FlightRecord ==
  ASSUME NEW d \in Document, Active(d), InFlight(d)
  PROVE  LET a == Last(d.activations) IN
         /\ a \in Activations /\ ActivationCoherent(a)
         /\ a.phase \in {"creating_session", "session_created", "agent_running",
                         "result_accepted"}
         /\ a.cleanup = None /\ a.reason = None
<1>1. /\ LastIndex(d) \in DOMAIN d.activations
      /\ Last(d.activations) = d.activations[LastIndex(d)]
      /\ Last(d.activations) \in Activations
      /\ Last(d.activations).phase \in ActivationPhases \ Finished
  BY FlightFacts DEF Active
<1>2. ActivationCoherent(Last(d.activations))
  BY <1>1 DEF Active, Facts, ActivationsCoherent
<1>3. QED
  BY <1>1, <1>2 DEF ActivationPhases, Finished, Unaccepted, ActivationCoherent

\* What a step from phase p to phase q with an event of this kind asks for.
Follows(p, q, kind) ==
  /\ kind = PhaseEvent(q)
  /\ kind \in Successors(IF p = "creating_session" THEN Started ELSE p)
  /\ Required(q) \subseteq Required(p) \cup {kind}
  /\ Forbidden(q) \subseteq Forbidden(p) \ {kind}

\* The stages the reducer admits after each phase are those the validator expects next.
LEMMA StageSteps ==
  /\ Follows("creating_session", "session_created", SessionCreated)
  /\ Follows("session_created", "agent_running", AgentRunning)
  /\ Follows("agent_running", "result_accepted", ResultAccepted)
  /\ Follows("result_accepted", "session_cleanup_completed", CleanupCompleted)
  /\ \A p \in {"creating_session", "session_created", "agent_running", "result_accepted"} :
       Follows(p, "failed", ActivationFailed)
<1> USE DEF Stages, Started, SessionCreated, AgentRunning, ResultAccepted, CleanupCompleted,
            ActivationFailed, Ends, TransitionCommitted, TerminalReached, RunEnds
<1>1. \A p \in {"creating_session", "session_created", "agent_running", "result_accepted"} :
        ActivationFailed \in Successors(IF p = "creating_session" THEN Started ELSE p)
  BY DEF Successors
<1>2. /\ SessionCreated \in Successors(Started) /\ AgentRunning \in Successors("session_created")
      /\ ResultAccepted \in Successors("agent_running")
      /\ CleanupCompleted \in Successors("result_accepted")
  BY DEF Successors
<1>3. \A p \in {"creating_session", "session_created", "agent_running", "result_accepted"} :
        /\ Required("failed") \subseteq Required(p) \cup {ActivationFailed}
        /\ Forbidden("failed") \subseteq Forbidden(p) \ {ActivationFailed}
  BY DEF Required, Forbidden
<1>4. /\ Required("session_created") = {SessionCreated}
      /\ Required("agent_running") = {SessionCreated, AgentRunning}
      /\ Required("result_accepted") = {SessionCreated, AgentRunning, ResultAccepted}
      /\ Required("session_cleanup_completed") = Stages \ {ActivationFailed}
      /\ Required("creating_session") = {}
  BY DEF Required
<1>5. \A p : p # "failed" => Forbidden(p) = Stages \ Required(p)
  BY DEF Forbidden
<1>6. QED
  BY <1>1, <1>2, <1>3, <1>4, <1>5 DEF Follows, PhaseEvent

\* Recording the session of the activation in flight moves the document one stage on.
LEMMA SessionMoves ==
  ASSUME NEW d \in Document, Active(d), NEW session_ \in Nat, AdmitsSession(d, session_)
  PROVE  Moved(d, RecordSession(d, session_),
               [Last(d.activations) EXCEPT !.session = session_, !.phase = "session_created"])
<1> DEFINE last == Last(d.activations)
           a == [last EXCEPT !.session = session_, !.phase = "session_created"]
<1>1. InFlight(d) /\ last.phase = "creating_session"
      /\ \A i \in DOMAIN d.activations : d.activations[i].session # session_
  BY DEF AdmitsSession
<1>2. last \in Activations /\ ActivationCoherent(last) /\ last.cleanup = None /\ last.reason = None
  BY <1>1, FlightRecord
<1> HIDE DEF last
<1>3. /\ a \in Activations /\ a.state = last.state /\ a.session = session_
      /\ a.phase = "session_created" /\ a.cleanup = last.cleanup
      /\ a.digest = last.digest /\ a.reason = last.reason
  BY <1>2 DEF Activations, Maybe, ActivationPhases, Unaccepted
<1> HIDE DEF a
<1>4. session_ # None
  BY NoneAssumption
<1>5. last.session = None /\ last.digest = None
  BY <1>1, <1>2 DEF ActivationCoherent, Unaccepted
<1>6. ActivationCoherent(a)
  BY <1>2, <1>3, <1>4, <1>5 DEF ActivationCoherent, Unaccepted, Finished
<1>7. Moves(last, a, SessionCreated, <<session_>>)
  BY <1>1, <1>2, <1>3, <1>4, <1>5, <1>6, StageSteps
     DEF Moves, Follows, SessionCreated, AgentRunning, ResultAccepted, CleanupCompleted,
         ActivationFailed
<1>8. RecordSession(d, session_) = Advance(d, a, SessionCreated, <<session_>>)
  BY DEF RecordSession, a, last
<1>9. SessionCreated \in Stages
  BY DEF Stages
<1>10. \A i \in DOMAIN d.activations : d.activations[i].session # a.session
  BY <1>1, <1>3
<1>11. Moved(d, Advance(d, a, SessionCreated, <<session_>>), a)
  BY <1>1, <1>3, <1>7, <1>9, <1>10, AdvanceMoves DEF last
<1>12. QED
  BY <1>8, <1>11 DEF a, last

\* Recording that the agent runs moves the document one stage on.
LEMMA AgentMoves ==
  ASSUME NEW d \in Document, Active(d), AdmitsAgentRunning(d)
  PROVE  Moved(d, RecordAgentRunning(d),
               [Last(d.activations) EXCEPT !.phase = "agent_running"])
<1> DEFINE last == Last(d.activations)
           a == [last EXCEPT !.phase = "agent_running"]
<1>1. InFlight(d) /\ last.phase = "session_created"
  BY DEF AdmitsAgentRunning
<1>2. last \in Activations /\ ActivationCoherent(last) /\ last.cleanup = None /\ last.reason = None
  BY <1>1, FlightRecord
<1> HIDE DEF last
<1>3. /\ a \in Activations /\ a.state = last.state /\ a.session = last.session
      /\ a.phase = "agent_running" /\ a.cleanup = last.cleanup
      /\ a.digest = last.digest /\ a.reason = last.reason
  BY <1>2 DEF Activations, Maybe, ActivationPhases, Unaccepted
<1> HIDE DEF a
<1>4. last.session # None /\ last.digest = None
  BY <1>1, <1>2 DEF ActivationCoherent, Unaccepted
<1>5. ActivationCoherent(a)
  BY <1>2, <1>3, <1>4 DEF ActivationCoherent, Unaccepted, Finished
<1>6. Moves(last, a, AgentRunning, <<>>)
  BY <1>1, <1>2, <1>3, <1>4, <1>5, StageSteps
     DEF Moves, Follows, SessionCreated, AgentRunning, ResultAccepted, CleanupCompleted,
         ActivationFailed
<1>7. RecordAgentRunning(d) = Advance(d, a, AgentRunning, <<>>)
  BY DEF RecordAgentRunning, a, last
<1>8. AgentRunning \in Stages
  BY DEF Stages
<1>9. Moved(d, Advance(d, a, AgentRunning, <<>>), a)
  BY <1>1, <1>3, <1>6, <1>8, AdvanceMoves DEF last
<1>10. QED
  BY <1>7, <1>9 DEF a, last

\* Recording the accepted result moves the document one stage on.
LEMMA ResultMoves ==
  ASSUME NEW d \in Document, Active(d), NEW digest_ \in Nat, AdmitsResult(d)
  PROVE  Moved(d, RecordResult(d, digest_),
               [Last(d.activations) EXCEPT !.phase = "result_accepted", !.digest = digest_])
<1> DEFINE last == Last(d.activations)
           a == [last EXCEPT !.phase = "result_accepted", !.digest = digest_]
<1>1. InFlight(d) /\ last.phase = "agent_running"
  BY DEF AdmitsResult
<1>2. last \in Activations /\ ActivationCoherent(last) /\ last.cleanup = None /\ last.reason = None
  BY <1>1, FlightRecord
<1> HIDE DEF last
<1>3. /\ a \in Activations /\ a.state = last.state /\ a.session = last.session
      /\ a.phase = "result_accepted" /\ a.cleanup = last.cleanup
      /\ a.digest = digest_ /\ a.reason = last.reason
  BY <1>2 DEF Activations, Maybe, ActivationPhases
<1> HIDE DEF a
<1>4. last.session # None /\ digest_ # None
  BY <1>1, <1>2, NoneAssumption DEF ActivationCoherent
<1>5. ActivationCoherent(a)
  BY <1>2, <1>3, <1>4 DEF ActivationCoherent, Unaccepted, Finished
<1>6. Moves(last, a, ResultAccepted, <<>>)
  BY <1>1, <1>2, <1>3, <1>4, <1>5, StageSteps
     DEF Moves, Follows, SessionCreated, AgentRunning, ResultAccepted, CleanupCompleted,
         ActivationFailed
<1>7. RecordResult(d, digest_) = Advance(d, a, ResultAccepted, <<>>)
  BY DEF RecordResult, a, last
<1>8. ResultAccepted \in Stages
  BY DEF Stages
<1>9. Moved(d, Advance(d, a, ResultAccepted, <<>>), a)
  BY <1>1, <1>3, <1>6, <1>8, AdvanceMoves DEF last
<1>10. QED
  BY <1>7, <1>9 DEF a, last

\* Recording the session's deletion moves the document one stage on.
LEMMA CleanupMoves ==
  ASSUME NEW d \in Document, Active(d), AdmitsCleanup(d)
  PROVE  Moved(d, RecordCleanup(d),
               [Last(d.activations) EXCEPT !.phase = "session_cleanup_completed",
                                           !.cleanup = "completed"])
<1> DEFINE last == Last(d.activations)
           a == [last EXCEPT !.phase = "session_cleanup_completed", !.cleanup = "completed"]
<1>1. InFlight(d) /\ last.phase = "result_accepted" /\ last.session # None
  BY DEF AdmitsCleanup
<1>2. last \in Activations /\ ActivationCoherent(last) /\ last.cleanup = None /\ last.reason = None
  BY <1>1, FlightRecord
<1> HIDE DEF last
<1>3. /\ a \in Activations /\ a.state = last.state /\ a.session = last.session
      /\ a.phase = "session_cleanup_completed" /\ a.cleanup = "completed"
      /\ a.digest = last.digest /\ a.reason = last.reason
  BY <1>2 DEF Activations, Maybe, ActivationPhases, Finished
<1> HIDE DEF a
<1>4. last.digest # None /\ "completed" # None
  BY <1>1, <1>2, NoneAssumption DEF ActivationCoherent, Unaccepted
<1>5. ActivationCoherent(a)
  BY <1>1, <1>2, <1>3, <1>4 DEF ActivationCoherent, Unaccepted, Finished
<1>6. Moves(last, a, CleanupCompleted, <<>>)
  BY <1>1, <1>2, <1>3, <1>4, <1>5, StageSteps
     DEF Moves, Follows, SessionCreated, AgentRunning, ResultAccepted, CleanupCompleted,
         ActivationFailed
<1>7. RecordCleanup(d) = Advance(d, a, CleanupCompleted, <<>>)
  BY DEF RecordCleanup, a, last
<1>8. CleanupCompleted \in Stages
  BY DEF Stages
<1>9. Moved(d, Advance(d, a, CleanupCompleted, <<>>), a)
  BY <1>1, <1>3, <1>6, <1>8, AdvanceMoves DEF last
<1>10. QED
  BY <1>7, <1>9 DEF a, last

\* Recording the activation's failure moves the document to its failed stage.
LEMMA FailureMoves ==
  ASSUME NEW d \in Document, Active(d), NEW reason \in FailureReasons,
         NEW cleanup \in {"completed", "failed"}, AdmitsFailure(d, reason, cleanup)
  PROVE  Moved(d, RecordFailure(d, reason, cleanup),
               [Last(d.activations) EXCEPT !.phase = "failed", !.reason = reason,
                                           !.cleanup = cleanup])
<1> DEFINE last == Last(d.activations)
           a == [last EXCEPT !.phase = "failed", !.reason = reason, !.cleanup = cleanup]
<1>1. InFlight(d)
  BY DEF AdmitsFailure
<1>2. /\ last \in Activations /\ ActivationCoherent(last) /\ last.cleanup = None /\ last.reason = None
      /\ last.phase \in {"creating_session", "session_created", "agent_running",
                         "result_accepted"}
  BY <1>1, FlightRecord
<1> HIDE DEF last
<1>3. /\ a \in Activations /\ a.state = last.state /\ a.session = last.session
      /\ a.phase = "failed" /\ a.cleanup = cleanup
      /\ a.digest = last.digest /\ a.reason = reason
  BY <1>2 DEF Activations, Maybe, ActivationPhases, Finished
<1> HIDE DEF a
<1>4. cleanup # None /\ reason # None
  BY NoneAssumption
<1>5. ActivationCoherent(a)
  BY <1>2, <1>3, <1>4 DEF ActivationCoherent, Unaccepted, Finished
<1>6. Moves(last, a, ActivationFailed, <<>>)
  BY <1>2, <1>3, <1>4, <1>5, StageSteps
     DEF Moves, Follows, SessionCreated, AgentRunning, ResultAccepted, CleanupCompleted,
         ActivationFailed
<1>7. RecordFailure(d, reason, cleanup) = Advance(d, a, ActivationFailed, <<>>)
  BY DEF RecordFailure, a, last
<1>8. ActivationFailed \in Stages
  BY DEF Stages
<1>9. Moved(d, Advance(d, a, ActivationFailed, <<>>), a)
  BY <1>1, <1>3, <1>6, <1>8, AdvanceMoves DEF last
<1>10. QED
  BY <1>7, <1>9 DEF a, last
-----------------------------------------------------------------------------
(* The commands that leave the records of the activations as they are.      *)

\* An event that is no stage of an activation, and may follow the last one, keeps the
\* journal in order and the payloads of the events before it true.
LEMMA JournalExtends ==
  ASSUME NEW d \in Document, NEW e \in Document, NEW event \in Events,
         Active(d), Grows(d, e), e.events = Append(d.events, event),
         \A i \in DOMAIN d.activations : e.activations[i] = d.activations[i],
         event.kind \notin Stages, event.kind \in Successors(Point(d))
  PROVE  /\ EventOrder(e) /\ Last(e.events) = event
         /\ Kinds(e) = Kinds(d) \cup {event.kind}
         /\ \A m \in DOMAIN d.events : PayloadCoherent(e, m)
         /\ DOMAIN e.events = DOMAIN d.events \cup {Len(e.events)}
         /\ e.events[Len(e.events)] = event
         /\ CountOf(e, Started, Len(e.events)) =
              LastIndex(d) + IF event.kind = Started THEN 1 ELSE 0
         /\ CountOf(e, TransitionCommitted, Len(e.events)) =
              Len(d.transitions) + IF event.kind = TransitionCommitted THEN 1 ELSE 0
         /\ CountOf(e, TerminalReached, Len(e.events)) =
              (IF d.terminal = None THEN 0 ELSE 1)
              + IF event.kind = TerminalReached THEN 1 ELSE 0
         /\ \A i \in DOMAIN d.activations : StagesConfirmed(e, i)
         /\ \A i : SeenStages(e, i) = SeenStages(d, i)
<1>1. Journal(d) /\ JournalConfirms(d) /\ RunEnds \cap Kinds(d) = {}
  BY DEF Active, Journal
<1>2. EventOrder(e)
  BY <1>1, OrderAdded DEF Journal
<1>3. /\ Len(e.events) = Len(d.events) + 1 /\ e.events[Len(d.events) + 1] = event
      /\ DOMAIN e.events = 1..(Len(d.events) + 1) /\ DOMAIN d.events = 1..Len(d.events)
      /\ Len(d.events) \in Nat
  BY EventAdded
<1>4. Last(e.events) = event
  BY <1>3 DEF Last
<1>5. Kinds(e) = Kinds(d) \cup {event.kind}
  BY KindsAdded
<1>6. \A m \in DOMAIN d.events : PayloadCoherent(e, m)
  <2>1. ASSUME NEW m \in DOMAIN d.events
        PROVE  PayloadCoherent(e, m)
    <3>1. PayloadCoherent(d, m)
      BY <1>1, <2>1 DEF JournalConfirms
    <3>2. QED
      BY <3>1, PayloadKept
  <2>2. QED
    BY <2>1
<1>7. ASSUME NEW kind
      PROVE  CountOf(e, kind, Len(e.events)) =
               CountOf(d, kind, Len(d.events)) + IF event.kind = kind THEN 1 ELSE 0
  BY CountsAdded
<1>8. /\ CountOf(d, Started, Len(d.events)) = LastIndex(d)
      /\ CountOf(d, TransitionCommitted, Len(d.events)) = Len(d.transitions)
      /\ CountOf(d, TerminalReached, Len(d.events)) = IF d.terminal = None THEN 0 ELSE 1
  BY <1>1 DEF JournalConfirms
<1>9. ASSUME NEW i
      PROVE  SeenStages(e, i) = SeenStages(d, i)
  <2>1. SeenStages(e, i) =
          SeenStages(d, i) \cup
          IF event.kind \in Stages /\ CountOf(e, Started, Len(e.events)) = i
          THEN {event.kind} ELSE {}
    BY StagesAdded
  <2>2. QED
    BY <2>1
<1>10. ASSUME NEW i \in DOMAIN d.activations
       PROVE  StagesConfirmed(e, i)
  <2>1. StagesConfirmed(d, i)
    BY <1>1, <1>10 DEF JournalConfirms
  <2>2. e.activations[i] = d.activations[i]
    BY <1>10
  <2>3. QED
    BY <1>1, <1>9, <2>1, <2>2, StagesKept
<1>11. DOMAIN e.events = DOMAIN d.events \cup {Len(e.events)}
  BY <1>3
<1>12. e.events[Len(e.events)] = event
  BY <1>3
<1>13. QED
  BY <1>2, <1>4, <1>5, <1>6, <1>7, <1>8, <1>9, <1>10, <1>11, <1>12

\* The last activation has its transition.
Settled(d) == LastIndex(d) = Len(d.transitions)

\* When the last activation has its transition, every session was deleted, and the
\* journal stands at its creation or at the last transition.
LEMMA SettledFacts ==
  ASSUME NEW d \in Document, Facts(d), Settled(d)
  PROVE  /\ \A i \in DOMAIN d.activations : d.activations[i].phase = "session_cleanup_completed"
         /\ DOMAIN d.activations = 1..LastIndex(d) /\ LastIndex(d) \in Nat
         /\ d.terminal = None =>
              Point(d) = IF d.activations = <<>> THEN "run_created" ELSE TransitionCommitted
<1>1. d.activations \in Seq(Activations) /\ d.transitions \in Seq(Transitions)
  BY DocumentFields
<1>2. DOMAIN d.activations = 1..LastIndex(d) /\ LastIndex(d) \in Nat
  BY <1>1 DEF LastIndex
<1>3. ASSUME NEW i \in DOMAIN d.activations
      PROVE  d.activations[i].phase = "session_cleanup_completed"
  <2>1. i \in DOMAIN d.transitions
    BY <1>1, <1>2, <1>3 DEF Settled
  <2>2. QED
    BY <2>1 DEF Facts, CursorCoherent, TransitionCoherent
<1>4. d.activations # <<>> => Last(d.activations).phase = "session_cleanup_completed"
  BY <1>1, <1>2, <1>3 DEF Last, LastIndex
<1>5. d.terminal = None =>
        Point(d) = IF d.activations = <<>> THEN "run_created" ELSE TransitionCommitted
  BY <1>4 DEF Point, Settled
<1>6. QED
  BY <1>2, <1>3, <1>5

\* A run may start its next activation only when the last one has its transition.
LEMMA StartSettled ==
  ASSUME NEW d \in Document, Facts(d), NEW state, AdmitsStart(d, state)
  PROVE  Settled(d)
<1>1. d.activations \in Seq(Activations) /\ d.transitions \in Seq(Transitions)
  BY DocumentFields
<1>2. CASE d.activations = <<>>
  BY <1>1, <1>2 DEF Facts, LastIndex, Settled
<1>3. CASE d.activations # <<>>
  <2>1. d.transitions # <<>> /\ Last(d.transitions).activation = LastIndex(d)
    BY <1>3 DEF AdmitsStart
  <2>2. /\ Len(d.transitions) \in DOMAIN d.transitions
        /\ Last(d.transitions) = d.transitions[Len(d.transitions)]
    BY <1>1, <2>1 DEF Last
  <2>3. d.transitions[Len(d.transitions)].activation = Len(d.transitions)
    BY <2>2 DEF Facts, CursorCoherent, TransitionCoherent
  <2>4. QED
    BY <2>1, <2>2, <2>3 DEF Settled
<1>4. QED
  BY <1>2, <1>3
\* What no event is about yet has no stages in the journal.
LEMMA NoStages ==
  ASSUME NEW d \in Document, NEW i,
         \A m \in DOMAIN d.events : CountOf(d, Started, m) # i
  PROVE  SeenStages(d, i) = {}
BY DEF SeenStages

\* Starting an activation gives a document a load takes, with one more activation.
LEMMA StartKeeps ==
  ASSUME NEW d \in Document, Active(d), NEW state \in Names, AdmitsStart(d, state)
  PROVE  LET e == Start(d, state) IN
         /\ e \in Document /\ Active(e)
         /\ SameOrigin(d, e) /\ SameWalk(d, e) /\ e.terminal = None
         /\ e.activations = Append(d.activations, FreshActivation(state))
<1> DEFINE e == Start(d, state)
           fresh == FreshActivation(state)
           as == Append(d.activations, fresh)
           f == [d EXCEPT !.activations = as, !.phase = "running"]
           k == LastIndex(d)
           payload == <<state, k + 1>>
           event == Event(Started, payload)
<1>1. /\ Settled(d) /\ Facts(d) /\ d.terminal = None /\ state = d.cursor
  BY StartSettled DEF Active, AdmitsStart
<1>2. /\ d.activations \in Seq(Activations) /\ d.transitions \in Seq(Transitions)
  BY DocumentFields
<1>3. /\ DOMAIN d.activations = 1..k /\ k \in Nat /\ k = Len(d.transitions)
      /\ \A i \in 1..k : d.activations[i].phase = "session_cleanup_completed"
      /\ Point(d) = IF d.activations = <<>> THEN "run_created" ELSE TransitionCommitted
  BY <1>1, SettledFacts DEF Settled
<1>4. /\ fresh \in Activations /\ fresh.state = state /\ fresh.phase = "creating_session"
      /\ fresh.session = None /\ fresh.cleanup = None /\ fresh.digest = None
      /\ fresh.reason = None
  BY DEF FreshActivation, Activations, ActivationPhases, Unaccepted, Maybe
<1> HIDE DEF fresh
<1>5. /\ as \in Seq(Activations) /\ Len(as) = k + 1 /\ as[k + 1] = fresh
      /\ \A i \in 1..k : as[i] = d.activations[i]
      /\ as # <<>> /\ Last(as) = fresh
  BY <1>2, <1>4, AppendIs DEF LastIndex
<1> HIDE DEF as, k
<1>3a. k \in Nat /\ k = Len(d.transitions) /\ k = Len(d.activations)
  BY <1>3 DEF k, LastIndex
<1>5a. Len(as) = k + 1 /\ as[k + 1] = fresh
  BY <1>5
<1>6. /\ f \in Document /\ SameOrigin(d, f) /\ SameWalk(d, f) /\ SameEnd(d, f)
      /\ f.phase = "running" /\ f.activations = as /\ f.events = d.events
  BY <1>5 DEF Document, RunPhases, SameOrigin, SameWalk, SameEnd
<1> HIDE DEF f
<1>7. payload \in Payloads /\ Started \in EventKinds
  <2>1. payload \in Names \X Nat
    BY <1>3
  <2> HIDE DEF payload
  <2>2. QED
    BY <2>1 DEF Payloads, EventKinds
<1>8. SubSeq(payload, 1, 2) = <<state, k + 1>>
  BY Pairs
<1> HIDE DEF payload
<1>9. e = Log(f, Started, payload)
  BY DEF Start, f, as, fresh, payload, k
<1> HIDE DEF e
<1>10. /\ e \in Document /\ SameOrigin(f, e) /\ SameWalk(f, e) /\ SameEnd(f, e)
       /\ e.phase = f.phase /\ e.activations = f.activations
       /\ e.events = Append(f.events, event)
  BY <1>6, <1>7, <1>9, LogIs
<1>11. event \in Events /\ event.kind = Started /\ event.payload = payload
  BY <1>7 DEF Event, Events
<1> HIDE DEF event
<1>12. /\ SameOrigin(d, e) /\ SameWalk(d, e) /\ SameEnd(d, e) /\ e.phase = "running"
       /\ e.activations = as /\ e.events = Append(d.events, event)
       /\ LastIndex(e) = k + 1 /\ DOMAIN e.activations = 1..(k + 1)
  <2>1. SameOrigin(d, e) /\ SameWalk(d, e) /\ SameEnd(d, e) /\ e.phase = "running"
        /\ e.activations = as /\ e.events = Append(d.events, event)
    BY <1>6, <1>10 DEF SameOrigin, SameWalk, SameEnd
  <2>2. LastIndex(e) = k + 1 /\ DOMAIN e.activations = 1..(k + 1)
    <3>1. DOMAIN as = 1..(k + 1)
      BY <1>5
    <3>2. QED
      BY <1>5, <2>1, <3>1 DEF LastIndex
  <2>3. QED
    BY <2>1, <2>2
<1>12a. e.activations = as /\ DOMAIN e.activations = 1..(k + 1)
  BY <1>12
<1>13. ActivationsCoherent(d) /\ CursorCoherent(d)
  BY <1>1 DEF Facts
<1>14. ActivationsCoherent(e)
  <2>1. SessionsDistinct(e)
    <3>1. ASSUME NEW i \in 1..(k + 1), NEW j \in 1..(k + 1),
                 as[i].session = as[j].session, as[i].session # None
          PROVE  i = j
      <4>1. i # k + 1 /\ j # k + 1
        BY <1>4, <1>5, <3>1
      <4>2. i \in 1..k /\ j \in 1..k
        BY <1>3, <4>1
      <4>3. QED
        BY <1>3, <1>5, <1>13, <3>1, <4>2 DEF ActivationsCoherent, SessionsDistinct
    <3>2. QED
      BY <1>12, <3>1 DEF SessionsDistinct
  <2>2. ASSUME NEW i \in 1..(k + 1)
        PROVE  /\ ActivationType(as[i]) /\ ActivationCoherent(as[i])
               /\ i < k + 1 => as[i].phase \in Finished
    <3>1. CASE i = k + 1
      <4>1. ActivationType(fresh) /\ ActivationCoherent(fresh)
        BY <1>4 DEF ActivationType, ActivationCoherent, ActivationPhases, Unaccepted, Finished
      <4>2. as[i] = fresh
        BY <1>5, <3>1
      <4>3. ~(i < k + 1)
        BY <1>3a, <3>1
      <4>4. QED
        BY <4>1, <4>2, <4>3
    <3>2. CASE i # k + 1
      <4>1. i \in 1..k
        BY <1>3, <3>2
      <4>2. QED
        BY <1>3, <1>5, <1>13, <4>1 DEF ActivationsCoherent, Finished
    <3>3. QED
      BY <3>1, <3>2
  <2>3. QED
    BY <1>12, <2>1, <2>2 DEF ActivationsCoherent
<1>15. /\ e.transitions = d.transitions /\ e.budget = d.budget /\ e.count = d.count
       /\ e.cursor = d.cursor /\ e.entry = d.entry
  BY <1>12 DEF SameOrigin, SameWalk
<1>16. CursorCoherent(e)
  <2>1. ASSUME NEW i \in DOMAIN d.transitions
        PROVE  TransitionCoherent(e, i)
    <3>1. i \in 1..k /\ i \in DOMAIN e.activations
      BY <1>2, <1>3, <1>12
    <3>2. e.activations[i] = d.activations[i]
      BY <1>5, <1>12, <3>1
    <3>3. TransitionCoherent(d, i)
      BY <1>13 DEF CursorCoherent
    <3>4. QED
      BY <1>15, <3>1, <3>2, <3>3 DEF TransitionCoherent
  <2>2. QED
    BY <1>13, <1>15, <2>1 DEF CursorCoherent
<1>17. Facts(e)
  BY <1>1, <1>3, <1>5, <1>12, <1>14, <1>15, <1>16 DEF Facts, SameEnd
<1>18. Grows(d, e)
  <2>1. Len(d.activations) <= Len(e.activations)
    <3>1. Len(d.activations) = k
      BY <1>3a
    <3>2. Len(e.activations) = k + 1
      BY <1>5a, <1>12a
    <3>3. QED
      BY <1>3a, <3>1, <3>2
  <2>2. Len(d.transitions) <= Len(e.transitions)
    BY <1>2, <1>15
  <2>3. \A i \in DOMAIN d.activations : e.activations[i] = d.activations[i]
    BY <1>3, <1>5, <1>12
  <2>4. QED
    BY <1>12, <1>15, <2>1, <2>2, <2>3 DEF Grows, SameEnd
<1>19. /\ event.kind \notin Stages
       /\ event.kind \in Successors(Point(d))
       /\ event.kind \notin {TransitionCommitted, TerminalReached}
  BY <1>3, <1>11
     DEF Successors, Stages, Started, SessionCreated, AgentRunning, ResultAccepted,
         CleanupCompleted, ActivationFailed, TransitionCommitted, TerminalReached
<1>20. \A i \in DOMAIN d.activations : e.activations[i] = d.activations[i]
  BY <1>3, <1>5, <1>12
<1>21. /\ EventOrder(e) /\ Last(e.events) = event
       /\ Kinds(e) = Kinds(d) \cup {event.kind}
       /\ \A m \in DOMAIN d.events : PayloadCoherent(e, m)
       /\ DOMAIN e.events = DOMAIN d.events \cup {Len(e.events)}
       /\ e.events[Len(e.events)] = event
       /\ CountOf(e, Started, Len(e.events)) =
            LastIndex(d) + IF event.kind = Started THEN 1 ELSE 0
       /\ CountOf(e, TransitionCommitted, Len(e.events)) =
            Len(d.transitions) + IF event.kind = TransitionCommitted THEN 1 ELSE 0
       /\ CountOf(e, TerminalReached, Len(e.events)) =
            (IF d.terminal = None THEN 0 ELSE 1)
            + IF event.kind = TerminalReached THEN 1 ELSE 0
       /\ \A i \in DOMAIN d.activations : StagesConfirmed(e, i)
       /\ \A i : SeenStages(e, i) = SeenStages(d, i)
  BY <1>10, <1>11, <1>12, <1>18, <1>19, <1>20, JournalExtends
<1>22. /\ CountOf(e, Started, Len(e.events)) = k + 1
       /\ CountOf(e, TransitionCommitted, Len(e.events)) = Len(e.transitions)
       /\ CountOf(e, TerminalReached, Len(e.events)) = 0
  <2>1. CountOf(e, Started, Len(e.events)) = k + 1
    BY <1>3a, <1>11, <1>21 DEF k
  <2>2. CountOf(e, TransitionCommitted, Len(e.events)) = Len(e.transitions)
    <3>1. CountOf(e, TransitionCommitted, Len(e.events)) =
            Len(d.transitions) + IF event.kind = TransitionCommitted THEN 1 ELSE 0
      BY <1>21
    <3>2. event.kind # TransitionCommitted
      BY <1>19
    <3>3. Len(d.transitions) \in Nat /\ Len(e.transitions) = Len(d.transitions)
      BY <1>3a, <1>15
    <3>4. QED
      BY <3>1, <3>2, <3>3
  <2>3. CountOf(e, TerminalReached, Len(e.events)) = 0
    BY <1>1, <1>19, <1>21
  <2>4. QED
    BY <2>1, <2>2, <2>3
<1>23. PayloadCoherent(e, Len(e.events))
  <2>1. k + 1 \in DOMAIN e.activations /\ e.activations[k + 1].state = state
    <3>1. k + 1 \in 1..(k + 1)
      BY <1>3a
    <3>2. k + 1 \in DOMAIN e.activations
      BY <1>12a, <3>1
    <3>3. e.activations[k + 1] = fresh
      BY <1>5a, <1>12a
    <3>4. QED
      BY <1>4, <3>2, <3>3
  <2>2. SubSeq(event.payload, 1, 2) = <<e.activations[k + 1].state, k + 1>>
    BY <1>8, <1>11, <2>1
  <2>3. event.kind \in Stages \cup {Started} /\ event.kind # SessionCreated
    BY <1>11, <1>19 DEF Started, SessionCreated
  <2>4. QED
    BY <1>21, <1>22, <2>1, <2>2, <2>3, StagePayload
<1>24. StagesConfirmed(e, k + 1)
  <2>1. ASSUME NEW m \in DOMAIN d.events
        PROVE  CountOf(d, Started, m) # k + 1
    <3>1. Len(d.events) \in Nat /\ m \in 0..Len(d.events) /\ Len(d.events) \in 0..Len(d.events)
      BY DocumentFields
    <3>2. Counted(d.events, Started, m) <= Counted(d.events, Started, Len(d.events))
      BY <3>1, CountGrows
    <3>3. CountOf(d, Started, Len(d.events)) = k
      BY DEF Active, Journal, JournalConfirms, k
    <3>4. Counted(d.events, Started, m) \in Nat
      BY <3>1, CountType
    <3>5. /\ CountOf(d, Started, m) = Counted(d.events, Started, m)
          /\ CountOf(d, Started, Len(d.events)) = Counted(d.events, Started, Len(d.events))
      BY CountIs, Zenon
    <3>6. QED
      BY <1>3, <3>2, <3>3, <3>4, <3>5
  <2>2. SeenStages(d, k + 1) = {}
    BY <2>1, NoStages
  <2>3. SeenStages(e, k + 1) = {}
    BY <1>21, <2>2
  <2>4. e.activations[k + 1] = fresh
    BY <1>5, <1>12
  <2>5. Required("creating_session") = {}
    BY DEF Required
  <2>6. QED
    BY <1>4, <2>3, <2>4, <2>5 DEF StagesConfirmed
<1>25. JournalConfirms(e)
  <2>1. \A i \in DOMAIN e.activations : StagesConfirmed(e, i)
    BY <1>3, <1>12, <1>21, <1>24
  <2>2. \A m \in DOMAIN e.events : PayloadCoherent(e, m)
    BY <1>21, <1>23
  <2>3. e.terminal = None
    BY <1>1, <1>12 DEF SameEnd
  <2>4. QED
    BY <1>12, <1>22, <2>1, <2>2, <2>3 DEF JournalConfirms
<1>26. Last(e.events).kind = Point(e)
  <2>1. e.terminal = None /\ e.activations # <<>> /\ Last(e.activations) = fresh
    BY <1>1, <1>5, <1>12 DEF SameEnd
  <2>2. Point(e) = Started
    BY <1>4, <2>1 DEF Point
  <2>3. QED
    BY <1>11, <1>21, <2>2
<1>27. (RunEnds \cup {"run_succeeded"}) \cap Kinds(e) = {}
  <2>1. (RunEnds \cup {"run_succeeded"}) \cap Kinds(d) = {}
    BY DEF Active, Journal
  <2>2. event.kind \notin RunEnds \cup {"run_succeeded"}
    BY <1>11 DEF RunEnds, Started
  <2>3. QED
    BY <1>21, <2>1, <2>2
<1>28. Active(e)
  BY <1>17, <1>21, <1>25, <1>26, <1>27 DEF Active, Journal
<1>29. QED
  BY <1>1, <1>10, <1>12, <1>28 DEF SameEnd, e, as, fresh
\* A command that changes no activation: what is left to show of its event.
LEMMA ExtendsConfirms ==
  ASSUME NEW d \in Document, NEW e \in Document, NEW event \in Events,
         Active(d), Grows(d, e), e.events = Append(d.events, event),
         e.activations = d.activations,
         event.kind \notin Stages \cup {Started}, event.kind \in Successors(Point(d)),
         Len(e.transitions) =
           Len(d.transitions) + IF event.kind = TransitionCommitted THEN 1 ELSE 0,
         (IF e.terminal = None THEN 0 ELSE 1) =
           (IF d.terminal = None THEN 0 ELSE 1) + IF event.kind = TerminalReached THEN 1 ELSE 0,
         PayloadCoherent(e, Len(e.events))
  PROVE  /\ EventOrder(e) /\ Last(e.events) = event
         /\ Kinds(e) = Kinds(d) \cup {event.kind}
         /\ JournalConfirms(e)
<1>1. /\ EventOrder(e) /\ Last(e.events) = event
      /\ Kinds(e) = Kinds(d) \cup {event.kind}
      /\ \A m \in DOMAIN d.events : PayloadCoherent(e, m)
      /\ DOMAIN e.events = DOMAIN d.events \cup {Len(e.events)}
      /\ CountOf(e, Started, Len(e.events)) =
           LastIndex(d) + IF event.kind = Started THEN 1 ELSE 0
      /\ CountOf(e, TransitionCommitted, Len(e.events)) =
           Len(d.transitions) + IF event.kind = TransitionCommitted THEN 1 ELSE 0
      /\ CountOf(e, TerminalReached, Len(e.events)) =
           (IF d.terminal = None THEN 0 ELSE 1)
           + IF event.kind = TerminalReached THEN 1 ELSE 0
      /\ \A i \in DOMAIN d.activations : StagesConfirmed(e, i)
  <2>1. event.kind \notin Stages /\ \A i \in DOMAIN d.activations : e.activations[i] = d.activations[i]
    OBVIOUS
  <2>2. QED
    BY ZenonT(30), <2>1, JournalExtends
<1>2. CountOf(e, Started, Len(e.events)) = LastIndex(e)
  <2>1. LastIndex(d) \in Nat /\ LastIndex(e) = LastIndex(d)
    BY DocumentFields DEF LastIndex
  <2>2. event.kind # Started
    OBVIOUS
  <2>3. CountOf(e, Started, Len(e.events)) = LastIndex(d) + IF event.kind = Started THEN 1 ELSE 0
    BY <1>1
  <2>4. QED
    BY <2>1, <2>2, <2>3
<1>3. CountOf(e, TransitionCommitted, Len(e.events)) = Len(e.transitions)
  BY <1>1
<1>4. CountOf(e, TerminalReached, Len(e.events)) = IF e.terminal = None THEN 0 ELSE 1
  BY <1>1
<1>5. \A m \in DOMAIN e.events : PayloadCoherent(e, m)
  BY <1>1
<1>6. \A i \in DOMAIN e.activations : StagesConfirmed(e, i)
  BY <1>1
<1>7. JournalConfirms(e)
  BY <1>2, <1>3, <1>4, <1>5, <1>6 DEF JournalConfirms
<1>8. QED
  BY <1>1, <1>7

\* Committing the transition of the last activation, which has none yet, gives a
\* document a load takes, whose cursor is the transition's target.
LEMMA CommitKeeps ==
  ASSUME NEW d \in Document, Active(d), NEW step \in Steps, NEW index, NEW digest_,
         AdmitsTransition(d, step, index, digest_), ~Settled(d)
  PROVE  LET e == CommitTransition(d, step, index, digest_) IN
         /\ e \in Document /\ Active(e) /\ Settled(e) /\ SameOrigin(d, e)
         /\ e.activations = d.activations /\ e.terminal = None
         /\ e.cursor = step.to /\ e.count = d.count + 1
<1> DEFINE e == CommitTransition(d, step, index, digest_)
           committed == [step |-> step, activation |-> index, digest |-> digest_]
           ts == Append(d.transitions, committed)
           f == [d EXCEPT !.transitions = ts, !.cursor = step.to, !.count = @ + 1]
           k == LastIndex(d)
           payload == <<step, index>>
           event == Event(TransitionCommitted, payload)
           last == Last(d.activations)
<1>1. /\ d.phase = "running" /\ d.terminal = None /\ d.activations # <<>>
      /\ last.phase = "session_cleanup_completed" /\ index = k
      /\ digest_ = last.digest /\ step.from = d.cursor /\ d.count < d.budget
      /\ step.from = last.state
  BY DEF AdmitsTransition
<1>2. d.activations \in Seq(Activations) /\ d.transitions \in Seq(Transitions)
  BY DocumentFields
<1>3. /\ k \in Nat /\ k >= 1 /\ DOMAIN d.activations = 1..k /\ last = d.activations[k]
  BY <1>1, <1>2 DEF Last, LastIndex
<1>4. Facts(d) /\ ActivationsCoherent(d) /\ CursorCoherent(d)
  BY DEF Active, Facts
<1>5. Len(d.transitions) = k - 1
  BY <1>2, <1>3, <1>4 DEF Facts, Settled
<1>6. last \in Activations /\ ActivationCoherent(last)
  BY <1>2, <1>3, <1>4 DEF ActivationsCoherent
<1>7. last.digest # None
  BY <1>1, <1>6 DEF ActivationCoherent, Unaccepted
<1> HIDE DEF k, last
<1>8. /\ committed \in Transitions /\ committed.step = step /\ committed.activation = k
      /\ committed.digest = last.digest
  BY <1>1, <1>3, <1>6 DEF Transitions, Activations
<1> HIDE DEF committed
<1>9. /\ ts \in Seq(Transitions) /\ Len(ts) = Len(d.transitions) + 1
      /\ ts[Len(d.transitions) + 1] = committed
      /\ \A i \in 1..Len(d.transitions) : ts[i] = d.transitions[i]
      /\ ts # <<>> /\ Last(ts) = committed
  BY <1>2, <1>8, AppendIs
<1>10. /\ Len(ts) = k /\ ts[k] = committed /\ \A i \in 1..(k - 1) : ts[i] = d.transitions[i]
       /\ ts \in Seq(Transitions) /\ ts # <<>> /\ Last(ts) = committed /\ DOMAIN ts = 1..k
  <2> HIDE DEF ts
  <2>1. k \in Nat /\ k - 1 + 1 = k
    BY <1>3
  <2>2. Len(ts) = k /\ ts[k] = committed
    BY <1>5, <1>9, <2>1
  <2>3. QED
    BY <1>5, <1>9, <2>1, <2>2
<1> HIDE DEF ts
<1>11. step.to \in Names /\ d.count \in Nat
  BY DocumentFields DEF Steps
<1>12. /\ f \in Document /\ SameOrigin(d, f) /\ SameEnd(d, f)
       /\ f.phase = d.phase /\ f.activations = d.activations /\ f.events = d.events
       /\ f.cursor = step.to /\ f.count = d.count + 1 /\ f.transitions = ts
  <2>1. d.count + 1 \in Nat /\ ts \in Seq(Transitions)
    BY <1>10, <1>11
  <2>2. f \in Document
    <3> DEFINE n == d.count + 1
               to == step.to
               f1 == [d EXCEPT !.transitions = ts]
               f2 == [f1 EXCEPT !.cursor = to]
               f3 == [f2 EXCEPT !.count = n]
    <3>1. n \in Nat /\ to \in Names
      BY <1>11, <2>1
    <3>2. f = [d EXCEPT !.transitions = ts, !.cursor = to, !.count = n]
      OBVIOUS
    <3> HIDE DEF n, to, f
    <3>3. f1 \in Document
      BY <2>1 DEF Document
    <3>4. f2 \in Document
      <4> HIDE DEF f1
      <4>1. QED
        BY <3>1, <3>3 DEF Document
    <3>5. f3 \in Document
      <4> HIDE DEF f2
      <4>1. QED
        BY <3>1, <3>4 DEF Document
    <3>6. f = f3
      BY <3>2
    <3>7. QED
      BY <3>5, <3>6
  <2>3. /\ f.cursor = step.to /\ f.count = d.count + 1 /\ f.transitions = ts
        /\ f.phase = d.phase /\ f.activations = d.activations /\ f.events = d.events
        /\ f.status = d.status /\ f.terminal = d.terminal /\ f.failure = d.failure
        /\ f.entry = d.entry /\ f.budget = d.budget
    BY DEF Document
  <2>4. QED
    BY <2>2, <2>3 DEF SameOrigin, SameEnd
<1> HIDE DEF f
<1>13. payload \in Payloads /\ TransitionCommitted \in EventKinds
  <2>1. payload \in Steps \X Nat
    BY <1>1, <1>3
  <2> HIDE DEF payload
  <2>2. QED
    BY <2>1 DEF Payloads, EventKinds
<1> HIDE DEF payload
<1>14. e = Log(f, TransitionCommitted, payload)
  BY DEF CommitTransition, f, ts, committed, payload
<1> HIDE DEF e
<1>15. /\ e \in Document /\ SameOrigin(f, e) /\ SameWalk(f, e) /\ SameEnd(f, e)
       /\ e.phase = f.phase /\ e.activations = f.activations
       /\ e.events = Append(f.events, event)
  BY <1>12, <1>13, <1>14, LogIs
<1>16. event \in Events /\ event.kind = TransitionCommitted /\ event.payload = payload
  BY <1>13 DEF Event, Events
<1> HIDE DEF event
<1>17. /\ e.events = Append(d.events, event)
       /\ SameOrigin(d, e) /\ SameEnd(d, e)
  BY <1>12, <1>15 DEF SameOrigin, SameEnd
<1>18. /\ e.phase = "running" /\ e.activations = d.activations /\ e.transitions = ts
       /\ e.cursor = step.to /\ e.count = d.count + 1
       /\ e.budget = d.budget /\ e.entry = d.entry /\ LastIndex(e) = k
       /\ e.terminal = None /\ e.status = d.status /\ e.failure = d.failure
  BY <1>1, <1>12, <1>15, <1>17 DEF SameOrigin, SameWalk, SameEnd, LastIndex, k
<1>19. ActivationsCoherent(e)
  BY <1>4, <1>18 DEF ActivationsCoherent, SessionsDistinct, LastIndex
<1>20. ASSUME NEW i \in 1..k
       PROVE  TransitionCoherent(e, i)
  <2>1. CASE i = k
    <3>1. d.cursor = IF k = 1 THEN d.entry ELSE ts[k - 1].step.to
      <4>1. CASE k = 1
        BY <1>2, <1>4, <1>5, <4>1 DEF CursorCoherent
      <4>2. CASE k # 1
        <5>1. k - 1 \in 1..(k - 1) /\ d.transitions # <<>>
          BY <1>2, <1>3, <1>5, <4>2
        <5>2. Last(d.transitions) = d.transitions[k - 1]
          BY <1>5 DEF Last
        <5>3. ts[k - 1] = d.transitions[k - 1]
          BY <1>10, <5>1
        <5>4. d.cursor = Last(d.transitions).step.to
          BY <1>4, <5>1 DEF CursorCoherent
        <5>5. QED
          BY <4>2, <5>2, <5>3, <5>4
      <4>3. QED
        BY <4>1, <4>2
    <3>2. k \in DOMAIN e.activations /\ e.activations[k] = last
      BY <1>3, <1>18
    <3>3. e.transitions[k] = committed
      BY <1>10, <1>18
    <3>4. QED
      BY <1>1, <1>7, <1>8, <1>18, <2>1, <3>1, <3>2, <3>3 DEF TransitionCoherent
  <2>2. CASE i # k
    <3>1. i \in 1..(k - 1) /\ (i # 1 => i - 1 \in 1..(k - 1)) /\ i \in DOMAIN d.transitions
      BY <1>2, <1>3, <1>5, <2>2
    <3>2. /\ e.transitions[i] = d.transitions[i]
          /\ i # 1 => e.transitions[i - 1] = d.transitions[i - 1]
      BY <1>10, <1>18, <3>1
    <3>3. TransitionCoherent(d, i)
      BY <1>4, <3>1 DEF CursorCoherent
    <3>4. QED
      BY <1>18, <3>2, <3>3 DEF TransitionCoherent
  <2>3. QED
    BY <2>1, <2>2
<1>21. CursorCoherent(e)
  <2>1. d.budget \in Int /\ d.count = k - 1
    BY <1>4, <1>5, DocumentFields DEF CursorCoherent
  <2>2. Len(e.transitions) = k /\ DOMAIN e.transitions = 1..k /\ e.transitions # <<>>
        /\ Last(e.transitions) = committed
    BY <1>10, <1>18
  <2>3. e.count = k /\ k <= e.budget
    BY <1>1, <1>3, <1>18, <2>1
  <2>4. QED
    BY <1>8, <1>18, <1>20, <2>2, <2>3 DEF CursorCoherent
<1>22. Settled(e)
  BY <1>10, <1>18 DEF Settled
<1>23. Facts(e)
  BY <1>1, <1>4, <1>18, <1>19, <1>21, <1>22 DEF Facts, Settled
<1>24. Grows(d, e)
  <2>1. \A i \in DOMAIN d.transitions : e.transitions[i] = d.transitions[i]
    BY <1>2, <1>5, <1>10, <1>18
  <2>2. Len(d.transitions) <= Len(e.transitions)
    BY <1>3, <1>5, <1>10, <1>18
  <2>3. Len(d.activations) <= Len(e.activations)
    BY <1>2, <1>18
  <2>4. QED
    BY <1>1, <1>18, <2>1, <2>2, <2>3 DEF Grows
<1>25. /\ event.kind \notin Stages \cup {Started}
       /\ event.kind \in Successors(Point(d))
       /\ event.kind \notin {TerminalReached} \cup RunEnds \cup {"run_succeeded"}
  <2>1. Point(d) = CleanupCompleted
    BY <1>1 DEF Point, last, Settled
  <2>2. QED
    BY <1>16, <2>1
       DEF Successors, Stages, Started, SessionCreated, AgentRunning, ResultAccepted,
           CleanupCompleted, ActivationFailed, TransitionCommitted, TerminalReached, RunEnds
<1>26. Len(e.transitions) =
         Len(d.transitions) + IF event.kind = TransitionCommitted THEN 1 ELSE 0
  BY <1>3, <1>5, <1>10, <1>16, <1>18
<1>27. PayloadCoherent(e, Len(e.events))
  <2>1. e.events[Len(e.events)] = event
    BY <1>16, <1>17, EventAdded
  <2>2. CountOf(e, TransitionCommitted, Len(e.events)) = k
    <3>1. CountOf(e, TransitionCommitted, Len(e.events)) =
            CountOf(d, TransitionCommitted, Len(d.events))
            + IF event.kind = TransitionCommitted THEN 1 ELSE 0
      BY <1>16, <1>17, CountsAdded
    <3>2. CountOf(d, TransitionCommitted, Len(d.events)) = k - 1
      BY <1>5 DEF Active, Journal, JournalConfirms
    <3>3. QED
      BY <1>3, <1>16, <3>1, <3>2
  <2>3. k \in DOMAIN e.transitions /\ e.transitions[k] = committed
    BY <1>3, <1>10, <1>18
  <2>4. event.payload = <<committed.step, committed.activation>>
    BY <1>1, <1>8, <1>16 DEF payload
  <2>5. QED
    BY <1>16, <2>1, <2>2, <2>3, <2>4
       DEF PayloadCoherent, Stages, Started, SessionCreated, AgentRunning, ResultAccepted,
           CleanupCompleted, ActivationFailed, TransitionCommitted, TerminalReached
<1>28. /\ EventOrder(e) /\ Last(e.events) = event
       /\ Kinds(e) = Kinds(d) \cup {event.kind}
       /\ JournalConfirms(e)
  <2>1. (IF e.terminal = None THEN 0 ELSE 1) =
           (IF d.terminal = None THEN 0 ELSE 1) + IF event.kind = TerminalReached THEN 1 ELSE 0
    BY <1>1, <1>18, <1>25
  <2>2. QED
    BY <1>15, <1>16, <1>17, <1>18, <1>24, <1>25, <1>26, <1>27, <2>1, ExtendsConfirms
<1>29. Point(e) = TransitionCommitted
  BY <1>1, <1>18, <1>22 DEF Point, Settled, last
<1>30. (RunEnds \cup {"run_succeeded"}) \cap Kinds(e) = {}
  <2>1. (RunEnds \cup {"run_succeeded"}) \cap Kinds(d) = {}
    BY DEF Active, Journal
  <2>2. QED
    BY <1>25, <1>28, <2>1
<1>31. Active(e)
  BY <1>16, <1>23, <1>28, <1>29, <1>30 DEF Active, Journal
<1>32. QED
  BY <1>15, <1>17, <1>18, <1>22, <1>31 DEF e, ts, committed

\* Reaching the terminal gives a document a load takes, with the terminal recorded.
LEMMA TerminalKeeps ==
  ASSUME NEW d \in Document, Active(d), NEW state \in Names, NEW result_ \in {"success", "failed"},
         AdmitsTerminal(d, state)
  PROVE  LET e == ReachTerminal(d, state, result_) IN
         /\ e \in Document /\ Active(e) /\ SameOrigin(d, e)
         /\ e.activations = d.activations /\ e.transitions = d.transitions
         /\ e.terminal # None /\ e.terminal.result = result_
<1> DEFINE e == ReachTerminal(d, state, result_)
           end == [state |-> state, result |-> result_]
           f == [d EXCEPT !.terminal = end, !.phase = "finalizing"]
           payload == <<state>>
           event == Event(TerminalReached, payload)
<1>1. /\ d.terminal = None /\ state = d.cursor
      /\ LastIndex(d) <= Len(d.transitions)
  BY DEF AdmitsTerminal, LastIndex
<1>2. d.activations \in Seq(Activations) /\ d.transitions \in Seq(Transitions)
  BY DocumentFields
<1>3. Facts(d) /\ ActivationsCoherent(d) /\ CursorCoherent(d)
  BY DEF Active, Facts
<1>4. Settled(d)
  BY <1>1, <1>2, <1>3 DEF Facts, Settled, LastIndex
<1>5. Point(d) = IF d.activations = <<>> THEN "run_created" ELSE TransitionCommitted
  BY <1>1, <1>3, <1>4, SettledFacts
<1>6. /\ end \in [state : Names, result : {"success", "failed"}] /\ end.state = state
      /\ end.result = result_
  OBVIOUS
<1> HIDE DEF end
<1>7. end # None
  BY <1>6, DocumentAssumption
<1>8. /\ f \in Document /\ SameOrigin(d, f) /\ SameWalk(d, f)
      /\ f.phase = "finalizing" /\ f.activations = d.activations /\ f.events = d.events
      /\ f.terminal = end /\ f.status = d.status /\ f.failure = d.failure
  BY <1>6 DEF Document, Maybe, RunPhases, SameOrigin, SameWalk
<1> HIDE DEF f
<1>9. payload \in Payloads /\ TerminalReached \in EventKinds
  <2>1. payload \in {<<s>> : s \in Names}
    OBVIOUS
  <2> HIDE DEF payload
  <2>2. QED
    BY <2>1 DEF Payloads, EventKinds
<1> HIDE DEF payload
<1>10. e = Log(f, TerminalReached, payload)
  BY DEF ReachTerminal, f, end, payload
<1> HIDE DEF e
<1>11. /\ e \in Document /\ SameOrigin(f, e) /\ SameWalk(f, e) /\ SameEnd(f, e)
       /\ e.phase = f.phase /\ e.activations = f.activations
       /\ e.events = Append(f.events, event)
  BY <1>8, <1>9, <1>10, LogIs
<1>12. event \in Events /\ event.kind = TerminalReached /\ event.payload = payload
  BY <1>9 DEF Event, Events
<1> HIDE DEF event
<1>13. e.events = Append(d.events, event) /\ SameOrigin(d, e)
  BY <1>8, <1>11 DEF SameOrigin
<1>14. /\ e.phase = "finalizing" /\ e.activations = d.activations /\ e.transitions = d.transitions
       /\ e.cursor = d.cursor /\ e.count = d.count
       /\ e.budget = d.budget /\ e.entry = d.entry /\ LastIndex(e) = LastIndex(d)
       /\ e.terminal = end /\ e.status = d.status /\ e.failure = d.failure
  BY <1>8, <1>11 DEF SameOrigin, SameWalk, SameEnd, LastIndex
<1>15. ActivationsCoherent(e)
  BY <1>3, <1>14 DEF ActivationsCoherent, SessionsDistinct
<1>16. CursorCoherent(e)
  <2>1. \A i \in DOMAIN d.transitions : TransitionCoherent(e, i)
    BY <1>3, <1>14 DEF CursorCoherent, TransitionCoherent
  <2>2. QED
    BY <1>3, <1>14, <2>1 DEF CursorCoherent
<1>17. Facts(e)
  BY <1>1, <1>3, <1>4, <1>6, <1>7, <1>14, <1>15, <1>16 DEF Facts, Settled
<1>18. Grows(d, e)
  BY <1>1, <1>2, <1>14 DEF Grows
<1>19. /\ event.kind \notin Stages \cup {Started}
       /\ event.kind \in Successors(Point(d))
       /\ event.kind \notin {TransitionCommitted} \cup RunEnds \cup {"run_succeeded"}
  BY <1>5, <1>12
     DEF Successors, Stages, Started, SessionCreated, AgentRunning, ResultAccepted,
         CleanupCompleted, ActivationFailed, TransitionCommitted, TerminalReached, RunEnds
<1>20. Len(e.transitions) =
         Len(d.transitions) + IF event.kind = TransitionCommitted THEN 1 ELSE 0
  <2>1. event.kind # TransitionCommitted
    BY <1>19
  <2>2. Len(d.transitions) \in Nat /\ Len(e.transitions) = Len(d.transitions)
    BY <1>2, <1>14
  <2>3. QED
    BY <2>1, <2>2
<1>21. PayloadCoherent(e, Len(e.events))
  <2>1. e.events[Len(e.events)] = event
    BY <1>12, <1>13, EventAdded
  <2>2. event.payload = <<e.terminal.state>> /\ e.terminal # None
    BY <1>6, <1>7, <1>12, <1>14 DEF payload
  <2>3. QED
    BY <1>12, <2>1, <2>2
       DEF PayloadCoherent, Stages, Started, SessionCreated, AgentRunning, ResultAccepted,
           CleanupCompleted, ActivationFailed, TransitionCommitted, TerminalReached
<1>22. /\ EventOrder(e) /\ Last(e.events) = event
       /\ Kinds(e) = Kinds(d) \cup {event.kind}
       /\ JournalConfirms(e)
  <2>1. (IF e.terminal = None THEN 0 ELSE 1) =
           (IF d.terminal = None THEN 0 ELSE 1) + IF event.kind = TerminalReached THEN 1 ELSE 0
    BY <1>1, <1>7, <1>12, <1>14
  <2>2. QED
    BY <1>11, <1>12, <1>13, <1>14, <1>18, <1>19, <1>20, <1>21, <2>1, ExtendsConfirms
<1>23. Point(e) = TerminalReached
  BY <1>7, <1>14 DEF Point
<1>24. (RunEnds \cup {"run_succeeded"}) \cap Kinds(e) = {}
  <2>1. (RunEnds \cup {"run_succeeded"}) \cap Kinds(d) = {}
    BY DEF Active, Journal
  <2>2. QED
    BY <1>19, <1>22, <2>1
<1>25. Active(e)
  BY <1>12, <1>17, <1>22, <1>23, <1>24 DEF Active, Journal
<1>26. QED
  BY <1>6, <1>7, <1>11, <1>13, <1>14, <1>25 DEF e

-----------------------------------------------------------------------------
(* The last command of a run: a load takes what it makes.                  *)

\* What finishing a run changes of the document.
LEMMA FinishIs ==
  ASSUME NEW d \in Document, NEW status \in Statuses
  PROVE  LET e == Finish(d, status) IN
         /\ e \in Document /\ SameOrigin(d, e) /\ SameWalk(d, e)
         /\ e.status = status /\ e.phase = "finished" /\ e.terminal = d.terminal
         /\ e.failure = d.failure /\ e.activations = d.activations /\ e.events = d.events
BY DEF Finish, Document, RunPhases, SameOrigin, SameWalk

\* A run that succeeds leaves a document a load takes.
LEMMA SucceedKeeps ==
  ASSUME NEW d \in Document, Active(d), AdmitsSuccess(d)
  PROVE  LET e == Succeed(d) IN
         /\ e \in Document /\ Loads(e) /\ SameOrigin(d, e) /\ SameWalk(d, e)
         /\ e.status = "success" /\ e.failure = None /\ e.activations = d.activations
<1> DEFINE e == Succeed(d)
           f == Finish(d, "success")
           event == Event("run_succeeded", <<>>)
<1>1. d.terminal # None /\ d.terminal.result = "success"
  BY DEF AdmitsSuccess
<1>2. d.activations \in Seq(Activations) /\ d.transitions \in Seq(Transitions)
  BY DocumentFields
<1>3. Facts(d) /\ ActivationsCoherent(d) /\ CursorCoherent(d) /\ d.failure = None
      /\ Settled(d) /\ d.cursor = d.terminal.state
  BY <1>1 DEF Active, Facts, Settled
<1>4. \A i \in DOMAIN d.activations : d.activations[i].phase = "session_cleanup_completed"
  BY <1>3, SettledFacts
<1>5. /\ f \in Document /\ SameOrigin(d, f) /\ SameWalk(d, f)
      /\ f.status = "success" /\ f.phase = "finished" /\ f.terminal = d.terminal
      /\ f.failure = d.failure /\ f.activations = d.activations /\ f.events = d.events
  BY FinishIs DEF Statuses
<1> HIDE DEF f
<1>6. e = Log(f, "run_succeeded", <<>>)
  BY DEF Succeed, f
<1>7. <<>> \in Payloads /\ "run_succeeded" \in EventKinds
  BY DEF Payloads, EventKinds
<1> HIDE DEF e
<1>8. /\ e \in Document /\ SameOrigin(f, e) /\ SameWalk(f, e) /\ SameEnd(f, e)
      /\ e.phase = f.phase /\ e.activations = f.activations
      /\ e.events = Append(f.events, event)
  BY <1>5, <1>6, <1>7, LogIs
<1>9. event \in Events /\ event.kind = "run_succeeded"
  BY <1>7 DEF Event, Events
<1> HIDE DEF event
<1>10. e.events = Append(d.events, event) /\ SameOrigin(d, e) /\ SameWalk(d, e)
  BY <1>5, <1>8 DEF SameOrigin, SameWalk
<1>11. /\ e.phase = "finished" /\ e.activations = d.activations /\ e.transitions = d.transitions
       /\ e.cursor = d.cursor /\ e.count = d.count
       /\ e.budget = d.budget /\ e.entry = d.entry /\ LastIndex(e) = LastIndex(d)
       /\ e.terminal = d.terminal /\ e.status = "success" /\ e.failure = None
  BY <1>3, <1>5, <1>8, <1>10 DEF SameOrigin, SameWalk, SameEnd, LastIndex
<1>12. ActivationsCoherent(e)
  BY <1>3, <1>11 DEF ActivationsCoherent, SessionsDistinct
<1>13. CursorCoherent(e)
  <2>1. \A i \in DOMAIN d.transitions : TransitionCoherent(e, i)
    BY <1>3, <1>11 DEF CursorCoherent, TransitionCoherent
  <2>2. QED
    BY <1>3, <1>11, <2>1 DEF CursorCoherent
<1>14. Grows(d, e)
  BY <1>2, <1>11 DEF Grows
<1>15. /\ event.kind \notin Stages \cup {Started}
       /\ event.kind \in Successors(Point(d))
       /\ event.kind \notin {TransitionCommitted, TerminalReached}
  <2>1. Point(d) = TerminalReached
    BY <1>1 DEF Point
  <2>2. QED
    BY <1>9, <2>1
       DEF Successors, Stages, Started, SessionCreated, AgentRunning, ResultAccepted,
           CleanupCompleted, ActivationFailed, TransitionCommitted, TerminalReached, RunEnds
<1>16. PayloadCoherent(e, Len(e.events))
  <2>1. e.events[Len(e.events)] = event
    BY <1>9, <1>10, EventAdded
  <2>2. QED
    BY <1>9, <2>1
       DEF PayloadCoherent, Stages, Started, SessionCreated, AgentRunning, ResultAccepted,
           CleanupCompleted, ActivationFailed, TransitionCommitted, TerminalReached
<1>17. /\ EventOrder(e) /\ Last(e.events) = event
       /\ JournalConfirms(e)
  <2>1. (IF e.terminal = None THEN 0 ELSE 1) =
           (IF d.terminal = None THEN 0 ELSE 1) + IF event.kind = TerminalReached THEN 1 ELSE 0
    BY <1>1, <1>11, <1>15
  <2>2. Len(e.transitions) =
          Len(d.transitions) + IF event.kind = TransitionCommitted THEN 1 ELSE 0
    <3>1. event.kind # TransitionCommitted
      BY <1>15
    <3>2. Len(d.transitions) \in Nat /\ Len(e.transitions) = Len(d.transitions)
      BY <1>2, <1>11
    <3>3. QED
      BY <3>1, <3>2
  <2>3. QED
    BY <1>8, <1>9, <1>10, <1>11, <1>14, <1>15, <1>16, <2>1, <2>2, ExtendsConfirms
<1>18. StatusCoherent(e)
  BY <1>1, <1>4, <1>9, <1>11, <1>17 DEF StatusCoherent
<1>19. TerminalCoherent(e)
  BY <1>2, <1>3, <1>11 DEF TerminalCoherent, Settled, LastIndex
<1>20. QED
  BY <1>8, <1>10, <1>11, <1>12, <1>13, <1>17, <1>18, <1>19 DEF Loads, e
\* The two commands that end a run without success.
Ending(d, status, kind, reason, outcome) ==
  Log([MarkLast(Finish(d, status), reason, outcome) EXCEPT !.failure = reason], kind, <<>>)
Unsuccessful(status, kind, reason, outcome) ==
  \/ status = "failed" /\ kind = "run_failed" /\ outcome = "completed"
  \/ /\ status = "cleanup_failed" /\ kind = "run_cleanup_failed" /\ outcome = "failed"
     /\ reason = "session_cleanup_failed"
Marked(last, reason, outcome) ==
  [last EXCEPT !.phase = "failed", !.reason = reason,
               !.cleanup = IF last.session = None THEN "completed" ELSE outcome]

\* An unsuccessful end finishes the run, marks the activation in flight as failed and
\* logs the end.
LEMMA EndingIs ==
  ASSUME NEW d \in Document, Facts(d), NEW status, NEW kind,
         NEW reason \in FailureReasons, NEW outcome, Unsuccessful(status, kind, reason, outcome)
  PROVE  LET e == Ending(d, status, kind, reason, outcome) IN
         /\ e \in Document /\ SameOrigin(d, e) /\ SameWalk(d, e) /\ e.terminal = d.terminal
         /\ e.status = status /\ e.phase = "finished" /\ e.failure = reason
         /\ e.activations =
              IF InFlight(d)
              THEN [d.activations EXCEPT ![LastIndex(d)] =
                      Marked(Last(d.activations), reason, outcome)]
              ELSE d.activations
         /\ e.events = Append(d.events, Event(kind, <<>>))
         /\ InFlight(d) => Marked(Last(d.activations), reason, outcome) \in Activations
<1> DEFINE e == Ending(d, status, kind, reason, outcome)
           f == Finish(d, status)
           g == MarkLast(f, reason, outcome)
           h == [g EXCEPT !.failure = reason]
           a == Marked(Last(d.activations), reason, outcome)
           as == IF InFlight(d) THEN [d.activations EXCEPT ![LastIndex(d)] = a]
                 ELSE d.activations
<1>1. /\ status \in Statuses /\ kind \in EventKinds
      /\ outcome \in {"completed", "failed"}
  BY DEF Unsuccessful, Statuses, EventKinds, RunEnds
<1>2. /\ f \in Document /\ SameOrigin(d, f) /\ SameWalk(d, f)
      /\ f.status = status /\ f.phase = "finished" /\ f.terminal = d.terminal
      /\ f.failure = d.failure /\ f.activations = d.activations /\ f.events = d.events
  BY <1>1, FinishIs
<1> HIDE DEF f
<1>3. /\ InFlight(f) = InFlight(d) /\ LastIndex(f) = LastIndex(d)
      /\ Last(f.activations) = Last(d.activations)
  BY <1>2 DEF InFlight, LastIndex
<1>4. InFlight(d) => a \in Activations
  <2>1. SUFFICES ASSUME InFlight(d) PROVE a \in Activations
    OBVIOUS
  <2>2. Last(d.activations) \in Activations
    BY <2>1, FlightFacts
  <2> DEFINE last == Last(d.activations)
             cleaned == IF last.session = None THEN "completed" ELSE outcome
  <2>3. cleaned \in {"completed", "failed"}
    BY <1>1
  <2>4. a = [last EXCEPT !.phase = "failed", !.reason = reason, !.cleanup = cleaned]
    BY DEF Marked
  <2> HIDE DEF cleaned, last, a
  <2>5. last \in Activations
    BY <2>2 DEF last
  <2>6. [last EXCEPT !.phase = "failed", !.reason = reason, !.cleanup = cleaned] \in Activations
    BY <2>3, <2>5 DEF Activations, Maybe, ActivationPhases, Finished
  <2>7. QED
    BY <2>4, <2>6
<1>5. as \in Seq(Activations)
  <2>1. d.activations \in Seq(Activations)
    BY DocumentFields
  <2> HIDE DEF a
  <2>2. CASE InFlight(d)
    <3>1. a \in Activations /\ LastIndex(d) \in DOMAIN d.activations
      BY <1>4, <2>2, FlightFacts
    <3>2. [d.activations EXCEPT ![LastIndex(d)] = a] \in Seq(Activations)
      BY <2>1, <3>1
    <3>3. QED
      BY <2>2, <3>2
  <2>3. CASE ~InFlight(d)
    BY <2>1, <2>3
  <2>4. QED
    BY <2>2, <2>3
<1>6. g = [f EXCEPT !.activations = as]
  <2>1. CASE InFlight(d)
    <3>1. g = [f EXCEPT !.activations[LastIndex(f)] = a]
      BY <1>3, <2>1 DEF MarkLast, Marked
    <3> HIDE DEF g, a
    <3>2. [f EXCEPT !.activations[LastIndex(f)] = a] = [f EXCEPT !.activations = as]
      BY <1>2, <1>3, <2>1
    <3>3. QED
      BY <3>1, <3>2
  <2>2. CASE ~InFlight(d)
    <3>1. g = f
      BY <1>3, <2>2 DEF MarkLast
    <3>2. as = f.activations
      BY <1>2, <2>2
    <3> HIDE DEF as, g
    <3>3. [f EXCEPT !.activations = as] = f
      BY <1>2, <3>2 DEF Document
    <3>4. QED
      BY <3>1, <3>3
  <2>3. QED
    BY <2>1, <2>2
<1> HIDE DEF as, g
<1>7. /\ g \in Document /\ g.activations = as /\ g.status = status /\ g.phase = "finished"
      /\ g.entry = d.entry /\ g.budget = d.budget
      /\ g.cursor = d.cursor /\ g.count = d.count /\ g.transitions = d.transitions
      /\ g.terminal = d.terminal /\ g.events = d.events
  <2>1. g \in Document
    BY <1>2, <1>5, <1>6 DEF Document
  <2>2. QED
    BY <1>2, <1>6, <2>1 DEF Document, SameOrigin, SameWalk
<1>8. /\ h \in Document /\ h.activations = as /\ h.status = status /\ h.phase = "finished"
      /\ h.entry = d.entry /\ h.budget = d.budget
      /\ h.cursor = d.cursor /\ h.count = d.count /\ h.transitions = d.transitions
      /\ h.terminal = d.terminal /\ h.events = d.events /\ h.failure = reason
  <2>1. h \in Document
    BY <1>7 DEF Document, Maybe
  <2>2. QED
    BY <1>7, <2>1 DEF Document
<1> HIDE DEF h
<1>9. e = Log(h, kind, <<>>)
  BY DEF Ending, h, g, f
<1> HIDE DEF e
<1>10. <<>> \in Payloads
  BY DEF Payloads
<1>11. /\ e \in Document /\ SameOrigin(h, e) /\ SameWalk(h, e) /\ SameEnd(h, e)
       /\ e.phase = h.phase /\ e.activations = h.activations
       /\ e.events = Append(h.events, Event(kind, <<>>))
  BY <1>1, <1>8, <1>9, <1>10, LogIs
<1>12. /\ SameOrigin(d, e) /\ SameWalk(d, e) /\ e.terminal = d.terminal
       /\ e.status = status /\ e.phase = "finished" /\ e.failure = reason
       /\ e.activations = as /\ e.events = Append(d.events, Event(kind, <<>>))
  BY <1>8, <1>11 DEF SameOrigin, SameWalk, SameEnd
<1>13. QED
  BY <1>4, <1>11, <1>12 DEF e, as, a

\* Every point of a run may be followed by either end.
LEMMA EndsFollow ==
  ASSUME NEW d \in Document, Facts(d)
  PROVE  RunEnds \subseteq Successors(Point(d))
<1> DEFINE Points == {"run_created", Started, SessionCreated, AgentRunning, ResultAccepted,
                      CleanupCompleted, ActivationFailed, TransitionCommitted, TerminalReached}
<1>1. Point(d) \in Points
  <2>1. CASE d.terminal # None
    BY <2>1 DEF Point
  <2>2. CASE d.terminal = None /\ d.activations = <<>>
    BY <2>2 DEF Point
  <2>3. CASE d.terminal = None /\ d.activations # <<>>
    <3>1. Last(d.activations) \in Activations
      BY <2>3, DocumentFields DEF Last
    <3>2. Last(d.activations).phase \in ActivationPhases
      BY <3>1 DEF Activations
    <3>3. QED
      BY <2>3, <3>2 DEF Point, ActivationPhases, Unaccepted, Finished, SessionCreated,
        AgentRunning, ResultAccepted, CleanupCompleted, ActivationFailed
  <2>4. QED
    BY <2>1, <2>2, <2>3
<1>2. \A p \in Points : RunEnds \subseteq Successors(p)
  BY DEF Successors, Ends, Started, SessionCreated, AgentRunning, ResultAccepted,
         CleanupCompleted, ActivationFailed, TransitionCommitted, TerminalReached
<1>3. QED
  BY <1>1, <1>2

\* The transitions and the terminal of a run that ends as it stands.
LEMMA EndingTerminal ==
  ASSUME NEW d \in Document, Facts(d), NEW e, SameWalk(d, e), e.terminal = d.terminal,
         e.phase = "finished", LastIndex(e) = LastIndex(d)
  PROVE  TerminalCoherent(e)
<1>1. d.activations \in Seq(Activations) /\ d.transitions \in Seq(Transitions)
  BY DocumentFields
<1>2. /\ LastIndex(d) \in Nat /\ Len(d.transitions) \in Nat
      /\ LastIndex(d) \in {Len(d.transitions), Len(d.transitions) + 1}
  BY <1>1 DEF Facts, LastIndex
<1>3. \A i \in 1..(LastIndex(e) - 1) : Len(e.transitions) >= i
  BY <1>2 DEF SameWalk
<1>4. e.terminal # None => e.cursor = e.terminal.state /\ LastIndex(e) <= Len(e.transitions)
  BY <1>2 DEF Facts, SameWalk
<1>5. QED
  BY <1>3, <1>4 DEF TerminalCoherent

\* An unsuccessful end leaves a document a load takes, unless the session of the
\* activation in flight was never recorded.
LEMMA EndingLoads ==
  ASSUME NEW d \in Document, Active(d), NEW status, NEW kind,
         NEW reason \in FailureReasons, NEW outcome, Unsuccessful(status, kind, reason, outcome)
  PROVE  LET e == Ending(d, status, kind, reason, outcome) IN
         \/ Loads(e)
         \/ SessionUnrecorded(e) /\ InFlight(d) /\ Last(d.activations).session = None
<1> DEFINE e == Ending(d, status, kind, reason, outcome)
           event == Event(kind, <<>>)
           k == LastIndex(d)
           last == Last(d.activations)
           a == Marked(last, reason, outcome)
<1>1. Facts(d) /\ ActivationsCoherent(d) /\ CursorCoherent(d)
  BY DEF Active, Facts
<1>2. /\ e \in Document /\ SameOrigin(d, e) /\ SameWalk(d, e) /\ e.terminal = d.terminal
      /\ e.status = status /\ e.phase = "finished" /\ e.failure = reason
      /\ e.activations = IF InFlight(d) THEN [d.activations EXCEPT ![k] = a] ELSE d.activations
      /\ e.events = Append(d.events, event)
      /\ InFlight(d) => a \in Activations
  BY <1>1, EndingIs
<1> HIDE DEF e
<1>3. event \in Events /\ event.kind = kind /\ kind \in RunEnds
  BY DEF Unsuccessful, Event, Events, RunEnds, EventKinds, Payloads
<1> HIDE DEF event
<1>4. /\ event.kind \notin Stages \cup {Started, TransitionCommitted, TerminalReached}
      /\ event.kind \in Successors(Point(d))
  <2>1. event.kind \in Successors(Point(d))
    BY <1>1, <1>3, EndsFollow
  <2>2. QED
    BY <1>3, <2>1
       DEF Stages, Started, SessionCreated, AgentRunning, ResultAccepted,
           CleanupCompleted, ActivationFailed, TransitionCommitted, TerminalReached, RunEnds
<1>5. e.events[Len(e.events)] = event
  BY <1>2, <1>3, EventAdded
<1>6. PayloadCoherent(e, Len(e.events))
  BY <1>4, <1>5 DEF PayloadCoherent, Stages, SessionCreated
<1>7. /\ reason # None
      /\ Last(e.events) = event => StatusCoherent(e)
  <2>1. reason # None
    BY NoneAssumption
  <2>2. ASSUME Last(e.events) = event
        PROVE  StatusCoherent(e)
    BY <1>2, <1>3, <2>1, <2>2 DEF StatusCoherent, Unsuccessful
  <2>3. QED
    BY <2>1, <2>2
<1>8. CASE ~InFlight(d)
  <2>1. /\ e.activations = d.activations /\ LastIndex(e) = LastIndex(d)
        /\ e.transitions = d.transitions /\ e.budget = d.budget /\ e.count = d.count
        /\ e.cursor = d.cursor /\ e.entry = d.entry
    BY <1>2, <1>8 DEF SameOrigin, SameWalk, LastIndex
  <2>2. ActivationsCoherent(e)
    BY <1>1, <2>1 DEF ActivationsCoherent, SessionsDistinct
  <2>3. CursorCoherent(e)
    <3>1. \A i \in DOMAIN d.transitions : TransitionCoherent(e, i)
      BY <1>1, <2>1 DEF CursorCoherent, TransitionCoherent
    <3>2. QED
      BY <1>1, <2>1, <3>1 DEF CursorCoherent
  <2>4. TerminalCoherent(e)
    BY <1>1, <1>2, <2>1, EndingTerminal
  <2>5. EventOrder(e) /\ Last(e.events) = event /\ JournalConfirms(e)
    <3>1. d.activations \in Seq(Activations) /\ d.transitions \in Seq(Transitions)
      BY DocumentFields
    <3>2. Grows(d, e)
      BY <1>2, <2>1, <3>1 DEF Grows
    <3>3. Len(e.transitions) =
            Len(d.transitions) + IF event.kind = TransitionCommitted THEN 1 ELSE 0
      <4>1. event.kind # TransitionCommitted
        BY <1>4
      <4>2. Len(d.transitions) \in Nat /\ Len(e.transitions) = Len(d.transitions)
        BY <2>1, <3>1
      <4>3. QED
        BY <4>1, <4>2
    <3>4. (IF e.terminal = None THEN 0 ELSE 1) =
           (IF d.terminal = None THEN 0 ELSE 1) + IF event.kind = TerminalReached THEN 1 ELSE 0
      BY <1>2, <1>4
    <3>5. event.kind \notin Stages \cup {Started}
      BY <1>4
    <3>6. QED
      BY <1>2, <1>3, <1>4, <1>6, <2>1, <3>2, <3>3, <3>4, <3>5, ExtendsConfirms
  <2>6. QED
    BY <1>7, <2>2, <2>3, <2>4, <2>5 DEF Loads, e
<1>9. CASE InFlight(d) /\ last.session = None /\ outcome = "failed"
  <2>1. e.status = "cleanup_failed"
    BY <1>2, <1>9 DEF Unsuccessful
  <2>2. /\ k \in DOMAIN d.activations /\ Len(d.activations) = k /\ k \in Nat \ {0}
    BY <1>1, <1>9, FlightFacts DEF LastIndex
  <2>3. a.session = None
    BY <1>1, <1>9, FlightFacts DEF Marked, Activations
  <2>4. e.activations # <<>> /\ Last(e.activations) = a
    <3>1. Len(e.activations) = k /\ e.activations[k] = a
      <4>1. d.activations \in Seq(Activations)
        BY DocumentFields
      <4>2. e.activations = [d.activations EXCEPT ![k] = a] /\ a \in Activations
        BY <1>2, <1>9
      <4> HIDE DEF a, k
      <4>3. QED
        BY <2>2, <4>1, <4>2
    <3>2. QED
      BY <2>2, <3>1 DEF Last
  <2>5. QED
    BY <1>9, <2>1, <2>3, <2>4 DEF SessionUnrecorded, e
<1>10. CASE InFlight(d) /\ ~(last.session = None /\ outcome = "failed")
  <2>1. last \in Activations /\ ActivationCoherent(last)
        /\ last.phase \in {"creating_session", "session_created", "agent_running",
                           "result_accepted"}
    BY <1>10, FlightRecord
  <2>2. /\ a \in Activations /\ a.state = last.state /\ a.session = last.session
        /\ a.phase = "failed" /\ a.digest = last.digest /\ a.reason = reason
        /\ a.cleanup = outcome
    <3>1. a \in Activations
      BY <1>2, <1>10
    <3>2. outcome \in {"completed", "failed"}
      BY DEF Unsuccessful
    <3>3. QED
      BY <1>10, <2>1, <3>1, <3>2 DEF Marked, Activations
  <2>3. outcome # None
    BY NoneAssumption DEF Unsuccessful
  <2>4. ActivationCoherent(a)
    BY <1>7, <2>1, <2>2, <2>3 DEF ActivationCoherent, Unaccepted, Finished
  <2>5. Replaces(d, e, a)
    BY <1>1, <1>2, <1>10 DEF Replaces
  <2> HIDE DEF a, last, k
  <2>6. /\ DOMAIN e.activations = 1..k /\ LastIndex(e) = k /\ e.activations[k] = a
    BY <1>2, <2>2, <2>5, ReplacedActivations DEF k
  <2>7. ActivationsCoherent(e) /\ CursorCoherent(e)
    BY <1>2, <2>2, <2>4, <2>5, ReplacedFacts DEF last
  <2>8. TerminalCoherent(e)
    BY <1>1, <1>2, <2>6, EndingTerminal DEF k
  <2>9. /\ EventOrder(e) /\ Last(e.events) = event
        /\ Kinds(e) = Kinds(d) \cup {event.kind}
        /\ \A m \in DOMAIN d.events : PayloadCoherent(e, m)
        /\ CountOf(e, Started, Len(e.events)) = k
        /\ CountOf(e, TransitionCommitted, Len(e.events)) = Len(e.transitions)
        /\ CountOf(e, TerminalReached, Len(e.events)) = 0
        /\ \A i \in 1..(k - 1) : StagesConfirmed(e, i)
        /\ SeenStages(e, k) = SeenStages(d, k) \cup ({event.kind} \cap Stages)
        /\ StagesConfirmed(d, k)
    <3>1. event.kind \in Stages \cup RunEnds
      BY <1>3
    <3>2. a.state = Last(d.activations).state /\ a.session = Last(d.activations).session
      BY <2>2 DEF last
    <3>3. QED
      BY <1>2, <1>3, <1>4, <2>2, <2>5, <3>1, <3>2, ReplacedJournal DEF k
  <2>10. StagesConfirmed(e, k)
    <3> DEFINE seen == SeenStages(d, k)
    <3>1. SeenStages(e, k) = seen
      BY <1>4, <2>9
    <3>2. d.activations[k] = last
      BY <1>1, <1>10, FlightFacts DEF last, k
    <3>3. /\ last.session # None => SessionCreated \in seen
          /\ Forbidden(last.phase) \cap seen = {}
          /\ (last.digest # None) = (ResultAccepted \in seen)
      BY <2>9, <3>2 DEF StagesConfirmed
    <3>4. Forbidden("failed") \subseteq Forbidden(last.phase)
      BY <2>1, StageSteps DEF Follows
    <3>5. Required("failed") = {}
      BY DEF Required
    <3>6. /\ k = LastIndex(e) /\ RunEnds \cap Kinds(e) # {} /\ a.reason = e.failure
          /\ a.cleanup = IF "run_cleanup_failed" \in Kinds(e) THEN "failed" ELSE "completed"
      <4>1. RunEnds \cap Kinds(d) = {}
        BY DEF Active, Journal
      <4>2. Kinds(e) = Kinds(d) \cup {kind}
        BY <1>3, <2>9
      <4>3. ("run_cleanup_failed" \in Kinds(e)) <=> kind = "run_cleanup_failed"
        BY <4>1, <4>2 DEF RunEnds
      <4>4. outcome = IF kind = "run_cleanup_failed" THEN "failed" ELSE "completed"
        BY DEF Unsuccessful
      <4>5. QED
        BY <1>2, <1>3, <2>2, <2>6, <4>2, <4>3, <4>4
    <3>7. FailureConfirmed(e, k)
      BY <1>7, <2>2, <2>3, <2>6, <3>6 DEF FailureConfirmed
    <3> HIDE DEF seen
    <3>8. QED
      BY <2>2, <2>6, <3>1, <3>3, <3>4, <3>5, <3>7 DEF StagesConfirmed
  <2>11. JournalConfirms(e)
    <3>1. \A i \in DOMAIN e.activations : StagesConfirmed(e, i)
      <4>1. k \in Nat
        BY <1>1, <1>10, FlightFacts DEF k
      <4>2. QED
        BY <2>6, <2>9, <2>10, <4>1
    <3>2. \A m \in DOMAIN e.events : PayloadCoherent(e, m)
      <4>1. DOMAIN e.events = DOMAIN d.events \cup {Len(e.events)}
        <5>1. /\ DOMAIN e.events = 1..(Len(d.events) + 1) /\ DOMAIN d.events = 1..Len(d.events)
              /\ Len(d.events) \in Nat /\ Len(e.events) = Len(d.events) + 1
          BY <1>2, <1>3, EventAdded
        <5>2. QED
          BY <5>1
      <4>2. QED
        BY <1>6, <2>9, <4>1
    <3>3. e.terminal = None
      BY <1>1, <1>2, <1>10, FlightFacts
    <3>4. QED
      BY <2>6, <2>9, <3>1, <3>2, <3>3 DEF JournalConfirms
  <2>12. QED
    BY <1>7, <2>7, <2>8, <2>9, <2>11 DEF Loads, e
<1>11. QED
  BY <1>8, <1>9, <1>10
\* What an ending leaves of the activations' sessions and digests.
SameRecords(d, e) ==
  /\ DOMAIN e.activations = DOMAIN d.activations
  /\ \A i \in DOMAIN d.activations :
       /\ e.activations[i].session = d.activations[i].session
       /\ e.activations[i].digest = d.activations[i].digest
       /\ e.activations[i].phase = "session_cleanup_completed" =>
            d.activations[i].phase = "session_cleanup_completed"

\* An unsuccessful end keeps the sessions, the results and the deletions on record.
LEMMA EndingRecords ==
  ASSUME NEW d \in Document, Facts(d), NEW status, NEW kind,
         NEW reason \in FailureReasons, NEW outcome, Unsuccessful(status, kind, reason, outcome)
  PROVE  SameRecords(d, Ending(d, status, kind, reason, outcome))
<1> DEFINE e == Ending(d, status, kind, reason, outcome)
           k == LastIndex(d)
           last == Last(d.activations)
           a == Marked(last, reason, outcome)
<1>1. /\ e.activations = IF InFlight(d) THEN [d.activations EXCEPT ![k] = a] ELSE d.activations
      /\ InFlight(d) => a \in Activations
  BY EndingIs
<1> HIDE DEF e
<1>2. CASE ~InFlight(d)
  BY <1>1, <1>2 DEF SameRecords, e
<1>3. CASE InFlight(d)
  <2>1. last \in Activations /\ last = d.activations[k] /\ k \in DOMAIN d.activations
    BY <1>3, FlightFacts
  <2>2. a.session = last.session /\ a.digest = last.digest /\ a.phase = "failed"
    BY <2>1 DEF Marked, Activations
  <2> HIDE DEF a, last, k
  <2>3. /\ DOMAIN e.activations = DOMAIN d.activations /\ e.activations[k] = a
        /\ \A i \in DOMAIN d.activations : i # k => e.activations[i] = d.activations[i]
    BY <1>1, <1>3, <2>1
  <2>4. QED
    BY <2>1, <2>2, <2>3 DEF SameRecords, e
<1>4. QED
  BY <1>2, <1>3

\* A load takes every document that has not ended.
LEMMA ActiveLoads ==
  ASSUME NEW d \in Document, Active(d)
  PROVE  Loads(d)
<1>1. d.activations \in Seq(Activations) /\ d.transitions \in Seq(Transitions)
      /\ d.events \in Seq(Events)
  BY DocumentFields
<1>2. LastIndex(d) \in Nat /\ Len(d.transitions) \in Nat
  BY <1>1 DEF LastIndex
<1>3. Facts(d) /\ Journal(d)
  BY DEF Active
<1>4. Last(d.events).kind \notin RunEnds \cup {"run_succeeded"}
  <2>1. Len(d.events) \in DOMAIN d.events /\ Last(d.events) = d.events[Len(d.events)]
    BY <1>1, <1>3 DEF Journal, EventOrder, Last
  <2>2. Last(d.events).kind \in Kinds(d)
    BY <2>1 DEF Kinds
  <2>3. QED
    BY <1>3, <2>2 DEF Journal
<1>5. StatusCoherent(d)
  BY <1>3, <1>4 DEF Facts, StatusCoherent
<1>6. TerminalCoherent(d)
  <2>1. d.terminal # None => LastIndex(d) <= Len(d.transitions)
    BY <1>2, <1>3 DEF Facts
  <2>2. \A i \in 1..(LastIndex(d) - 1) : Len(d.transitions) >= i
    BY <1>2, <1>3 DEF Facts
  <2>3. QED
    BY <1>3, <2>1, <2>2 DEF Facts, TerminalCoherent
<1>7. QED
  BY <1>3, <1>5, <1>6 DEF Facts, Journal, Loads

\* The document a run starts with.
LEMMA CreateKeeps ==
  ASSUME NEW p, p.entry_state \in Names, p.max_transitions \in Int, p.max_transitions > 0
  PROVE  LET e == CreateRun(p) IN
         /\ e \in Document /\ Active(e) /\ Settled(e)
         /\ e.entry = p.entry_state /\ e.cursor = p.entry_state
         /\ e.budget = p.max_transitions /\ e.count = 0
         /\ e.activations = <<>> /\ e.terminal = None
<1> DEFINE e == CreateRun(p)
           event == Event("run_created", <<>>)
           es == <<event>>
<1>1. event \in Events /\ event.kind = "run_created"
  BY DEF Event, Events, EventKinds, Payloads
<1> HIDE DEF event
<1>2. es \in Seq(Events) /\ Len(es) = 1 /\ es[1] = event /\ es # <<>> /\ DOMAIN es = 1..1
  BY <1>1
<1> HIDE DEF es
<1>3. /\ e.status = "active" /\ e.phase = "validating" /\ e.entry = p.entry_state
      /\ e.budget = p.max_transitions /\ e.cursor = p.entry_state /\ e.count = 0
      /\ e.terminal = None /\ e.failure = None /\ e.activations = <<>>
      /\ e.transitions = <<>> /\ e.events = es
  BY DEF CreateRun, es, event
<1>4. e \in Document
  <2>1. e = [status |-> "active", phase |-> "validating",
             entry |-> p.entry_state, budget |-> p.max_transitions,
             cursor |-> p.entry_state, count |-> 0, terminal |-> None,
             failure |-> None, activations |-> <<>>, transitions |-> <<>>,
             events |-> es]
    BY DEF CreateRun, es, event
  <2>2. <<>> \in Seq(Activations) /\ <<>> \in Seq(Transitions)
    OBVIOUS
  <2> HIDE DEF e
  <2>3. QED
    BY <1>2, <2>1, <2>2 DEF Document, Statuses, RunPhases, Maybe, Events
<1> HIDE DEF e
<1>5. Facts(e)
  <2>1. LastIndex(e) = 0 /\ Len(e.transitions) = 0 /\ DOMAIN e.activations = {}
        /\ DOMAIN e.transitions = {}
    BY <1>3 DEF LastIndex
  <2>2. ActivationsCoherent(e)
    BY <2>1 DEF ActivationsCoherent, SessionsDistinct
  <2>3. CursorCoherent(e)
    BY <1>3, <2>1 DEF CursorCoherent
  <2>4. QED
    BY <1>3, <2>1, <2>2, <2>3 DEF Facts
<1>6. EventOrder(e) /\ Last(e.events) = event
  <2>1. e.events # <<>> /\ Len(e.events) = 1 /\ e.events[1] = event
    BY <1>2, <1>3
  <2>2. 2..Len(e.events) = {}
    BY <2>1
  <2>3. QED
    BY <1>1, <2>1, <2>2 DEF EventOrder, Last
<1>7. Kinds(e) = {"run_created"}
  BY <1>1, <1>2, <1>3 DEF Kinds
<1>8. Point(e) = "run_created"
  BY <1>3 DEF Point
<1>9. ASSUME NEW kind, kind # "run_created"
      PROVE  CountOf(e, kind, Len(e.events)) = 0
  <2>1. {i \in 1..Len(e.events) : e.events[i].kind = kind} = {}
    <3>1. Len(e.events) = 1 /\ e.events[1] = event
      BY <1>2, <1>3
    <3>2. \A i \in 1..Len(e.events) : e.events[i] = event
      BY <3>1
    <3>3. QED
      BY <1>1, <1>9, <3>2
  <2>2. QED
    BY <2>1, FS_EmptySet DEF CountOf
<1>10. JournalConfirms(e)
  <2>1. \A n \in DOMAIN e.events : e.events[n].kind = "run_created"
    BY <1>1, <1>2, <1>3
  <2>2. \A n \in DOMAIN e.events : PayloadCoherent(e, n)
    BY <2>1 DEF PayloadCoherent, Stages, Started, SessionCreated, AgentRunning, ResultAccepted,
         CleanupCompleted, ActivationFailed, TransitionCommitted, TerminalReached
  <2>3. /\ CountOf(e, Started, Len(e.events)) = 0
        /\ CountOf(e, TransitionCommitted, Len(e.events)) = 0
        /\ CountOf(e, TerminalReached, Len(e.events)) = 0
    BY <1>9 DEF Started, TransitionCommitted, TerminalReached
  <2>4. LastIndex(e) = 0 /\ Len(e.transitions) = 0 /\ DOMAIN e.activations = {}
    BY <1>3 DEF LastIndex
  <2>5. QED
    BY <1>3, <2>2, <2>3, <2>4 DEF JournalConfirms
<1>11. Active(e)
  BY <1>1, <1>5, <1>6, <1>7, <1>8, <1>10 DEF Active, Journal, RunEnds
<1>12. QED
  BY <1>3, <1>4, <1>11 DEF e, Settled, LastIndex

-----------------------------------------------------------------------------
(* The graph of an admitted bundle, and one command at a time.             *)

\* An id of a bundle's is the id of the state it names.
LEMMA StateIs ==
  ASSUME NEW p \in Pipelines, NEW id \in Ids(p)
  PROVE  /\ id \in Names
         /\ \E i \in DOMAIN p.states : State(p, id) = p.states[i] /\ p.states[i].id = id
<1>1. PICK i \in DOMAIN p.states : p.states[i].id = id
  BY DEF Ids
<1>2. LET j == CHOOSE j \in DOMAIN p.states : p.states[j].id = id
      IN j \in DOMAIN p.states /\ p.states[j].id = id
  BY <1>1
<1>3. id \in Names
  BY DEF Names
<1>4. QED
  BY <1>2, <1>3 DEF State

\* A terminal has one of the two results, and every other state is an agent.
LEMMA StateType ==
  ASSUME NEW p \in Pipelines, NEW id \in Ids(p)
  PROVE  /\ State(p, id).type \in {"agent", "terminal"}
         /\ State(p, id).type = "terminal" => State(p, id).result \in {"success", "failed"}
BY StateIs, BundleAssumption

\* What passed every gate starts at a state of its own, may take a step, and the
\* engine compiles it.
LEMMA AdmittedGraph ==
  ASSUME NEW p \in Pipelines, Admitted(p)
  PROVE  /\ p.entry_state \in Ids(p) /\ p.entry_state \in Names
         /\ p.max_transitions \in Int /\ p.max_transitions > 0
         /\ Compiles(p)
<1>1. Parses(p) /\ CheckGraphShape(p)
  BY DEF Admitted, LoadPipeline, CheckGraph
<1>2. p.entry_state \in Ids(p) /\ p.max_transitions > 0
  BY <1>1 DEF Parses, CheckGraphShape
<1>3. p.entry_state \in Names /\ p.max_transitions \in Int
  BY <1>2, StateIs, BundleAssumption
<1>4. Prologue(p)
  BY <1>1 DEF Parses, Prologue
<1>5. CompiledStates(p) /\ FinishedGraph(p)
  BY <1>1 DEF Parses, CheckGraphShape, CompiledStates, FinishedGraph
<1>6. QED
  BY <1>2, <1>3, <1>4, <1>5 DEF Compiles

\* An agent of a planned bundle has one step, to a state of the bundle.
LEMMA AgentStep ==
  ASSUME NEW p \in Pipelines, Admitted(p), NEW id \in Ids(p), State(p, id).type = "agent"
  PROVE  /\ ResolveTransition(p, id, "completed") # <<>>
         /\ LET step == ResolveTransition(p, id, "completed")[1] IN
            step \in Steps /\ step.from = id /\ step.to \in Ids(p)
<1> DEFINE s == State(p, id)
           match == {i \in DOMAIN s.transitions : s.transitions[i].outcome = "completed"}
<1>1. PICK i \in DOMAIN p.states : s = p.states[i] /\ p.states[i].id = id
  BY StateIs
<1>2. i \in Agents(p)
  BY <1>1 DEF Agents
<1>3. /\ Len(s.transitions) = 1 /\ s.transitions[1].outcome = "completed"
      /\ Targets(s) \subseteq Ids(p)
  BY <1>1, <1>2 DEF Admitted, PlanMultiState, LoadPipeline, CheckGraph, CheckGraphShape
<1>4. s.transitions \in Seq(Range(s.transitions))
  BY <1>1, BundleAssumption
<1> HIDE DEF s
<1>5. DOMAIN s.transitions = {1}
  BY <1>3, <1>4
<1>6. match = {1}
  BY <1>3, <1>5
<1>7. Min(match) = 1
  BY <1>6 DEF Min
<1>8. s.transitions[1].to \in Ids(p)
  BY <1>3, <1>5 DEF Targets
<1>9. s.transitions[1].to \in Names /\ id \in Names
  BY <1>8, StateIs
<1> DEFINE step == [from |-> id, outcome |-> "completed", to |-> s.transitions[1].to, index |-> 1]
<1>10. ResolveTransition(p, id, "completed") = <<step>>
  BY <1>6, <1>7 DEF ResolveTransition, s
<1>11. step \in Steps /\ step.from = id /\ step.to \in Ids(p)
  BY <1>8, <1>9 DEF Steps
<1> HIDE DEF step
<1>12. QED
  BY <1>10, <1>11

\* What each command asks of a document, and what it makes of it.
LEMMA CommandIs ==
  ASSUME NEW d, NEW x, NEW y, NEW z
  PROVE  /\ LET c == [kind |-> "start_activation", state |-> x] IN
            /\ Admits(d, c) = (d.status = "active" /\ AdmitsStart(d, x))
            /\ Reduce(d, c) = Start(d, x)
         /\ LET c == [kind |-> "activation_session_created", session |-> x] IN
            /\ Admits(d, c) = (d.status = "active" /\ AdmitsSession(d, x))
            /\ Reduce(d, c) = RecordSession(d, x)
         /\ LET c == [kind |-> "activation_agent_running"] IN
            /\ Admits(d, c) = (d.status = "active" /\ AdmitsAgentRunning(d))
            /\ Reduce(d, c) = RecordAgentRunning(d)
         /\ LET c == [kind |-> "activation_result_accepted", digest |-> x] IN
            /\ Admits(d, c) = (d.status = "active" /\ AdmitsResult(d))
            /\ Reduce(d, c) = RecordResult(d, x)
         /\ LET c == [kind |-> "activation_cleanup_completed"] IN
            /\ Admits(d, c) = (d.status = "active" /\ AdmitsCleanup(d))
            /\ Reduce(d, c) = RecordCleanup(d)
         /\ LET c == [kind |-> "activation_failed", reason |-> x, cleanup |-> y] IN
            /\ Admits(d, c) = (d.status = "active" /\ AdmitsFailure(d, x, y))
            /\ Reduce(d, c) = RecordFailure(d, x, y)
         /\ LET c == [kind |-> "transition_committed", step |-> x, index |-> y, digest |-> z] IN
            /\ Admits(d, c) = (d.status = "active" /\ AdmitsTransition(d, x, y, z))
            /\ Reduce(d, c) = CommitTransition(d, x, y, z)
         /\ LET c == [kind |-> "terminal_reached", state |-> x, result |-> y] IN
            /\ Admits(d, c) = (d.status = "active" /\ AdmitsTerminal(d, x))
            /\ Reduce(d, c) = ReachTerminal(d, x, y)
         /\ LET c == [kind |-> "run_succeeded"] IN
            /\ Admits(d, c) = (d.status = "active" /\ AdmitsSuccess(d))
            /\ Reduce(d, c) = Succeed(d)
         /\ LET c == [kind |-> "run_failed", reason |-> x] IN
            /\ Admits(d, c) = (d.status = "active")
            /\ Reduce(d, c) = Fail(d, x)
         /\ LET c == [kind |-> "run_cleanup_failed", reason |-> x] IN
            /\ Admits(d, c) = (d.status = "active")
            /\ Reduce(d, c) = FailCleanup(d, x)
BY DEF Admits, Reduce
-----------------------------------------------------------------------------
(* The inductive invariant of the run.                                      *)

SessionRecords ==
  [live : BOOLEAN, known : BOOLEAN, worker : {"none", "running", "exited_0", "exited_1"},
   cause : Maybe({"timeout", "user_signal"})]
Gates == [cleanup : BOOLEAN, abort : Maybe({"SIGINT", "SIGTERM"}), open : BOOLEAN]

\* What the runner of an admitted bundle may throw.
Causes ==
  FailureReasons \ {"invalid_graph", "missing_state", "unknown_outcome", "invalid_outcome",
                    "session_cleanup_failed"}

\* The points of the runner, by what they have in common.
Opening == {"prepare", "inputs", "protect", "create", "record_session"}
Recorded == {"pull", "announce"}
Working == {"launch", "work", "verify", "read", "accept"}
Inside == Opening \cup Recorded \cup Working
Outside == {"turn", "start", "terminal"}
Over == {"freeze", "finalize", "reinitialize", "done"}
Quiet == {"load", "initialize", "authorize", "confirm", "commit"} \cup Inside \cup Outside
Held == {"record_session"} \cup Recorded \cup Working

\* The catch of an activation that has not failed, and what follows it.
Accepted == pc = "confirm" \/ (pc = "clean" /\ failure = None)

Variables ==
  /\ pipeline \in Pipelines
  /\ current \in Maybe(Document) /\ stored = current
  /\ poisoned \in BOOLEAN /\ intact \in BOOLEAN
  /\ pc \in PointsOfRunner
  /\ count \in Nat
  /\ session \in Maybe(Nat) /\ digest \in Maybe(Nat)
  /\ failure \in Maybe(Causes)
  /\ gate \in Gates
  /\ exit \in Maybe({0, 1, 130, 143})
  /\ sessions \in Seq(SessionRecords)
  /\ result \in Results

\* When there is a document, and what its bundle is.
Present ==
  /\ pc \in {"load", "initialize", "reinitialize"} => current = None
  /\ pc \notin {"load", "initialize", "freeze", "reinitialize", "done"} => current # None
  /\ pc \notin {"load", "done"} => Admitted(pipeline)
  /\ pc # "done" => exit = None
  /\ current # None => current.budget = pipeline.max_transitions

\* A document that has not ended is as the reducer makes it; one that has, loads.
Kept ==
  current # None =>
    IF current.status = "active" THEN Active(current)
    ELSE /\ pc = "done" /\ CursorCoherent(current)
         /\ Loads(current) \/ SessionUnrecorded(current)
         /\ (current.status = "cleanup_failed") = gate.cleanup

\* What the failure in flight goes with.
Failing ==
  /\ pc \in Quiet \/ Accepted => failure = None /\ ~poisoned
  /\ pc \in {"fail", "fail_cleanup", "reinitialize"} => failure # None
  /\ pc \in {"freeze", "finalize"} /\ failure = None =>
       /\ ~poisoned /\ current # None /\ current.terminal # None
       /\ current.terminal.result = "success"
  /\ pc = "fail_cleanup" => gate.cleanup
  /\ gate.cleanup => pc \in {"fail_cleanup"} \cup Over
  /\ failure \in {"signal_sigint", "signal_sigterm"} => Aborted
  /\ failure = "worker_timeout" => \E i \in DOMAIN sessions : sessions[i].cause = "timeout"

\* The engine's cursor is the document's, between the activations and in one.
Walking ==
  /\ pc \in {"load", "initialize"} => count = 0
  /\ pc = "authorize" =>
       /\ Settled(current) /\ current.terminal = None /\ count = 0 /\ current.count = 0
       /\ current.cursor = pipeline.entry_state
  /\ pc \in Inside \cup Outside \cup {"commit"} \/ Accepted =>
       at = current.cursor /\ at \in Ids(pipeline) /\ count = current.count
  /\ pc \in Outside => Settled(current) /\ current.terminal = None
  /\ pc \in Inside \cup {"start", "commit"} \/ Accepted =>
       State(pipeline, at).type = "agent" /\ count < pipeline.max_transitions
  /\ pc = "terminal" => State(pipeline, at).type = "terminal"

\* The record of the activation is where the runner is in it.
Flying ==
  /\ pc \in Inside \cup {"clean", "confirm", "fail", "fail_cleanup"} => InFlight(current)
  /\ pc \in Inside \cup {"commit"} \/ Accepted => Last(current.activations).state = at
  /\ pc \in Opening => Last(current.activations).phase = "creating_session"
  /\ pc \in Inside \cup {"clean"} /\ session # None =>
       \A i \in 1..(LastIndex(current) - 1) : current.activations[i].session # session
  /\ pc \in Recorded => Last(current.activations).phase = "session_created"
  /\ pc \in Working => Last(current.activations).phase = "agent_running"
  /\ pc \in Recorded \cup Working \cup {"commit"} \/ Accepted =>
       Last(current.activations).session = session
  /\ Accepted => Last(current.activations).phase = "result_accepted" /\ digest = session
  /\ pc = "commit" =>
       /\ Last(current.activations).phase = "session_cleanup_completed"
       /\ ~Settled(current) /\ current.terminal = None
  /\ pc = "commit" \/ Accepted => Last(current.activations).digest = digest

\* The helper's sessions: only the one in flight lives, and its worker.
Hosting ==
  /\ session # None => session \in DOMAIN sessions
  /\ \A i \in DOMAIN sessions :
       /\ sessions[i].worker = "running" => pc = "work" /\ i = session /\ sessions[i].live
       /\ sessions[i].known /\ sessions[i].live =>
            i = session /\ (pc \in Held \cup {"clean"} \/ gate.cleanup)
  /\ pc \in Held => session # None /\ sessions[session].live
  /\ pc \in {"verify", "read", "accept"} \/ Accepted =>
       /\ session # None
       /\ sessions[session].worker = "exited_0" /\ sessions[session].cause # "timeout"
  /\ pc = "confirm" => ~sessions[session].live
  /\ pc \in {"prepare", "inputs", "protect", "create"} => session = None

\* What a record says of its activation's session is what became of it.
Told(a, hosts) ==
  /\ a.session # None => a.session \in DOMAIN hosts
  /\ a.digest # None =>
       /\ a.digest = a.session
       /\ hosts[a.session].worker = "exited_0" /\ hosts[a.session].cause # "timeout"
  /\ a.phase = "session_cleanup_completed" => ~hosts[a.session].live
Truthful(d, hosts) == \A i \in DOMAIN d.activations : Told(d.activations[i], hosts)

\* The only command the reducer may have refused.
Refusing ==
  refused # {} =>
    /\ refused = {"activation_failed"} /\ gate.cleanup /\ pc \in Over
    /\ current # None /\ current.activations # <<>> /\ Last(current.activations).session = None

RunInv ==
  /\ Variables /\ Present /\ Kept /\ Failing /\ Walking /\ Flying /\ Hosting
  /\ current # None => Truthful(current, sessions)
  /\ Refusing /\ OutcomeAgrees

-----------------------------------------------------------------------------
(* The sink: what an answer says of the document.                          *)

\* A command is done, refused, or lost with the sink as it was or poisoned.
LEMMA Dispatched ==
  ASSUME NEW c, NEW answer, Dispatch(c, answer), stored = current, poisoned \in BOOLEAN
  PROVE  /\ stored' = current'
         /\ poisoned' \in BOOLEAN
         /\ answer \in {"done", "durability_unknown"} =>
              /\ ~poisoned /\ current # None /\ Admits(current, c)
              /\ current' = Reduce(current, c) /\ refused' = refused
              /\ poisoned' = (answer = "durability_unknown")
         /\ answer \notin {"done", "durability_unknown"} =>
              current' = current /\ poisoned' = poisoned
         /\ answer # "rejected" => refused' = refused
         /\ answer = "rejected" =>
              /\ ~poisoned /\ ~(current # None /\ Admits(current, c))
              /\ refused' = refused \cup {c.kind}
<1>1. answer \in Answers(current # None /\ Admits(current, c))
      /\ Settle(Reduce(current, c), c.kind, answer)
  BY DEF Dispatch
<1>2. CASE poisoned
  BY <1>1, <1>2 DEF Answers, Settle
<1>3. CASE ~poisoned /\ ~(current # None /\ Admits(current, c))
  BY <1>1, <1>3 DEF Answers, Settle
<1>4. CASE ~poisoned /\ current # None /\ Admits(current, c)
  BY <1>1, <1>4 DEF Answers, Settle
<1>5. QED
  BY <1>2, <1>3, <1>4

\* So it is with the making of the document.
LEMMA Created ==
  ASSUME NEW answer, Create(answer), stored = current, current = None, poisoned \in BOOLEAN
  PROVE  /\ stored' = current' /\ refused' = refused
         /\ poisoned' \in BOOLEAN
         /\ answer \in {"done", "durability_unknown"} =>
              /\ ~poisoned /\ current' = CreateRun(pipeline)
              /\ poisoned' = (answer = "durability_unknown")
         /\ answer \notin {"done", "durability_unknown"} =>
              current' = None /\ poisoned' = poisoned
<1>1. answer \in Answers(stored = None) /\ Settle(CreateRun(pipeline), "create_run", answer)
  BY DEF Create
<1>2. CASE poisoned
  BY <1>1, <1>2 DEF Answers, Settle
<1>3. CASE ~poisoned
  BY <1>1, <1>3 DEF Answers, Settle
<1>4. QED
  BY <1>2, <1>3

-----------------------------------------------------------------------------
(* The steps that neither ask the sink nor change what the helper has.      *)

\* Nothing changes but where the runner is, the failure in flight and the bounds.
Stays ==
  UNCHANGED <<pipeline, stored, current, poisoned, at, count, session, digest, gate,
              exit, sessions, result, refused>>

\* A failure that may be thrown here.
Thrown(cause) ==
  /\ cause \in Causes
  /\ cause \in {"signal_sigint", "signal_sigterm"} => Aborted
  /\ cause = "worker_timeout" => \E i \in DOMAIN sessions : sessions[i].cause = "timeout"

\* A signal that has come may be thrown.
LEMMA AbortThrown ==
  ASSUME RunInv, Aborted
  PROVE  Thrown(SignalReason(gate.abort))
BY DEF RunInv, Variables, Gates, Maybe, Thrown, SignalReason, Causes, FailureReasons, Aborted

\* The straight way through an activation.
GoesOn ==
  {<<"prepare", "inputs">>, <<"inputs", "protect">>, <<"protect", "create">>,
   <<"pull", "announce">>, <<"work", "verify">>, <<"verify", "read">>, <<"read", "accept">>}

\* A step of an activation that succeeds, without the sink or the helper.
LEMMA OnKeeps ==
  ASSUME RunInv, Stays, intact' \in BOOLEAN, <<pc, pc'>> \in GoesOn, failure' = failure,
         pc = "work" =>
           sessions[session].worker = "exited_0" /\ sessions[session].cause # "timeout"
  PROVE  RunInv'
<1> USE DEF Opening, Recorded, Working, Inside, Outside, Over, Quiet, Held, Accepted
<1>1. /\ pc \in Inside \ {"launch"} /\ pc' \in Inside \ {"launch"}
      /\ pc \in Opening <=> pc' \in Opening
      /\ pc \in Recorded <=> pc' \in Recorded
      /\ pc \in Working <=> pc' \in Working
      /\ pc \in Held <=> pc' \in Held
      /\ pc' \in {"prepare", "inputs", "protect", "create"} => 
           pc \in {"prepare", "inputs", "protect", "create"}
      /\ pc' \notin {"work", "record_session"}
      /\ pc' \in {"verify", "read", "accept"} => pc \in {"work", "verify", "read", "accept"}
  BY DEF GoesOn
<1>2. Variables'
  BY <1>1 DEF RunInv, Variables, PointsOfRunner, Stays
<1>3. Present'
  BY <1>1 DEF RunInv, Present, Stays
<1>4. Kept' /\ current' = current /\ (current # None => current.status = "active")
  BY <1>1 DEF RunInv, Kept, Stays
<1>5. Failing'
  BY <1>1 DEF RunInv, Failing, Stays, Aborted
<1>6. Walking'
  BY <1>1 DEF RunInv, Walking, Stays
<1>7. Flying'
  BY <1>1 DEF RunInv, Flying, Stays
<1>8. Hosting'
  BY <1>1 DEF RunInv, Hosting, Stays
<1>9. (current # None => Truthful(current, sessions))' /\ Refusing'
  BY <1>1 DEF RunInv, Refusing, Stays
<1>10. OutcomeAgrees'
  BY <1>1, <1>2, <1>3, <1>4, NoneAssumption DEF OutcomeAgrees, Variables, Maybe, Causes, FailureReasons, Present, Stays
<1>11. QED
  BY <1>2, <1>3, <1>4, <1>5, <1>6, <1>7, <1>8, <1>9, <1>10 DEF RunInv

\* A step of an activation that fails.
LEMMA CleanKeeps ==
  ASSUME RunInv, Stays, intact' \in BOOLEAN, pc \in Inside, pc' = "clean",
         Thrown(failure'), pc = "work" => sessions[session].worker # "running"
  PROVE  RunInv'
<1> USE DEF Opening, Recorded, Working, Inside, Outside, Over, Quiet, Held, Accepted
<1>1. failure' # None
  BY NoneAssumption DEF Thrown, Causes
<1>2. Variables'
  BY DEF RunInv, Variables, PointsOfRunner, Stays, Thrown, Maybe
<1>3. Present'
  BY DEF RunInv, Present, Stays
<1>4. Kept' /\ current' = current /\ (current # None => current.status = "active")
  BY DEF RunInv, Kept, Stays
<1>5. Failing'
  BY <1>1 DEF RunInv, Failing, Stays, Thrown, Aborted
<1>6. Walking'
  BY <1>1 DEF RunInv, Walking, Stays
<1>7. Flying'
  BY <1>1 DEF RunInv, Flying, Stays
<1>8. Hosting'
  BY <1>1 DEF RunInv, Hosting, Stays
<1>9. (current # None => Truthful(current, sessions))' /\ Refusing'
  BY DEF RunInv, Refusing, Stays
<1>10. OutcomeAgrees'
  BY <1>2, <1>3, <1>4, NoneAssumption DEF OutcomeAgrees, Variables, Maybe, Causes, FailureReasons, Present, Stays
<1>11. QED
  BY <1>2, <1>3, <1>4, <1>5, <1>6, <1>7, <1>8, <1>9, <1>10 DEF RunInv

\* A failure outside of the activations.
LEMMA FreezeKeeps ==
  ASSUME RunInv, UNCHANGED <<pipeline, stored, current, poisoned, session, digest, gate,
                             exit, sessions, result, refused>>,
         intact' \in BOOLEAN, count' = count, pc \in {"authorize"} \cup Outside, pc' = "freeze",
         Thrown(failure')
  PROVE  RunInv'
<1> USE DEF Opening, Recorded, Working, Inside, Outside, Over, Quiet, Held, Accepted
<1>1. failure' # None
  BY NoneAssumption DEF Thrown, Causes
<1>2. Variables'
  BY DEF RunInv, Variables, PointsOfRunner, Thrown, Maybe
<1>3. Present'
  BY DEF RunInv, Present
<1>4. Kept' /\ current' = current /\ (current # None => current.status = "active")
  BY DEF RunInv, Kept
<1>5. Failing'
  BY <1>1 DEF RunInv, Failing, Thrown, Aborted
<1>6. Walking'
  BY <1>1 DEF RunInv, Walking
<1>7. Flying'
  BY <1>1 DEF RunInv, Flying
<1>8. Hosting'
  BY <1>1 DEF RunInv, Hosting
<1>9. (current # None => Truthful(current, sessions))' /\ Refusing'
  BY DEF RunInv, Refusing
<1>10. OutcomeAgrees'
  BY <1>2, <1>3, <1>4, NoneAssumption DEF OutcomeAgrees, Variables, Maybe, Causes, FailureReasons, Present
<1>11. QED
  BY <1>2, <1>3, <1>4, <1>5, <1>6, <1>7, <1>8, <1>9, <1>10 DEF RunInv

-----------------------------------------------------------------------------
(* Each step of an activation that asks the sink nothing.                   *)

\* What such a step leaves alone.
LEMMA Untouched ==
  ASSUME RunInv,
         BuildControlTree \/ CheckInputs \/ VerifyBefore \/ Pull \/ Collect
         \/ VerifyAfter \/ ReadResult
  PROVE  Stays /\ intact' \in BOOLEAN
BY DEF RunInv, Variables, Stays, BuildControlTree, CheckInputs, VerifyBefore, Pull, Collect,
       VerifyAfter, ReadResult, document, engine, host

\* A failure of the files, of the inputs or of the result may be thrown anywhere.
LEMMA FileThrown ==
  ASSUME NEW cause \in {"control_path_invalid", "runtime_input_missing",
                        "protected_input_modified", "agent_result_invalid",
                        "worker_failed", "internal_error", "transition_budget_exhausted",
                        "state_persist_failed", "execution_failed"}
  PROVE  Thrown(cause)
BY DEF Thrown, Causes, FailureReasons

\* The directories are made, or the activation fails.
LEMMA BuildControlTreeKeeps ==
  ASSUME RunInv, BuildControlTree
  PROVE  RunInv'
<1>1. Stays /\ intact' \in BOOLEAN
  BY Untouched
<1>2. pc = "prepare" /\ pc \in Inside
  BY DEF BuildControlTree, Inside, Opening, Recorded, Working
<1>3. CASE pc' = "inputs" /\ failure' = failure
  BY <1>1, <1>2, <1>3, OnKeeps DEF GoesOn
<1>4. CASE pc' = "clean" /\ Thrown(failure')
  BY <1>1, <1>2, <1>4, CleanKeeps
<1>5. (pc' = "inputs" /\ failure' = failure) \/ (pc' = "clean" /\ Thrown(failure'))
  BY FileThrown DEF BuildControlTree, Goto, Throw
<1>6. QED
  BY <1>3, <1>4, <1>5

\* The inputs are there, or the activation fails.
LEMMA CheckInputsKeeps ==
  ASSUME RunInv, CheckInputs
  PROVE  RunInv'
<1>1. Stays /\ intact' \in BOOLEAN
  BY Untouched
<1>2. pc = "inputs" /\ pc \in Inside
  BY DEF CheckInputs, Inside, Opening, Recorded, Working
<1>3. CASE pc' = "protect" /\ failure' = failure
  BY <1>1, <1>2, <1>3, OnKeeps DEF GoesOn
<1>4. CASE pc' = "clean" /\ Thrown(failure')
  BY <1>1, <1>2, <1>4, CleanKeeps
<1>5. (pc' = "protect" /\ failure' = failure) \/ (pc' = "clean" /\ Thrown(failure'))
  BY FileThrown DEF CheckInputs, Goto, Throw
<1>6. QED
  BY <1>3, <1>4, <1>5

\* The protected inputs are as they were and no signal came, or it fails.
LEMMA VerifyBeforeKeeps ==
  ASSUME RunInv, VerifyBefore
  PROVE  RunInv'
<1>1. Stays /\ intact' \in BOOLEAN
  BY Untouched
<1>2. pc = "protect" /\ pc \in Inside
  BY DEF VerifyBefore, Inside, Opening, Recorded, Working
<1>3. CASE pc' = "create" /\ failure' = failure
  BY <1>1, <1>2, <1>3, OnKeeps DEF GoesOn
<1>4. CASE pc' = "clean" /\ Thrown(failure')
  BY <1>1, <1>2, <1>4, CleanKeeps
<1>5. (pc' = "create" /\ failure' = failure) \/ (pc' = "clean" /\ Thrown(failure'))
  BY FileThrown, AbortThrown DEF VerifyBefore, Protected, CheckAbort, Goto, Throw
<1>6. QED
  BY <1>3, <1>4, <1>5

\* The image is pulled, unless a signal came.
LEMMA PullKeeps ==
  ASSUME RunInv, Pull
  PROVE  RunInv'
<1>1. Stays /\ intact' \in BOOLEAN
  BY Untouched
<1>2. pc = "pull" /\ pc \in Inside
  BY DEF Pull, Inside, Opening, Recorded, Working
<1>3. CASE pc' = "announce" /\ failure' = failure
  BY <1>1, <1>2, <1>3, OnKeeps DEF GoesOn
<1>4. CASE pc' = "clean" /\ Thrown(failure')
  BY <1>1, <1>2, <1>4, CleanKeeps
<1>5. (pc' = "announce" /\ failure' = failure) \/ (pc' = "clean" /\ Thrown(failure'))
  BY AbortThrown DEF Pull, CheckAbort, Goto, Throw
<1>6. QED
  BY <1>3, <1>4, <1>5

\* The protected inputs are still as they were, or the activation fails.
LEMMA VerifyAfterKeeps ==
  ASSUME RunInv, VerifyAfter
  PROVE  RunInv'
<1>1. Stays /\ intact' \in BOOLEAN
  BY Untouched
<1>2. pc = "verify" /\ pc \in Inside
  BY DEF VerifyAfter, Inside, Opening, Recorded, Working
<1>3. CASE pc' = "read" /\ failure' = failure
  BY <1>1, <1>2, <1>3, OnKeeps DEF GoesOn
<1>4. CASE pc' = "clean" /\ Thrown(failure')
  BY <1>1, <1>2, <1>4, CleanKeeps
<1>5. (pc' = "read" /\ failure' = failure) \/ (pc' = "clean" /\ Thrown(failure'))
  BY FileThrown DEF VerifyAfter, Protected, Goto, Throw
<1>6. QED
  BY <1>3, <1>4, <1>5

\* The result is one that may be accepted, or the activation fails.
LEMMA ReadResultKeeps ==
  ASSUME RunInv, ReadResult
  PROVE  RunInv'
<1>1. Stays /\ intact' \in BOOLEAN
  BY Untouched
<1>2. pc = "read" /\ pc \in Inside
  BY DEF ReadResult, Inside, Opening, Recorded, Working
<1>3. CASE pc' = "accept" /\ failure' = failure
  BY <1>1, <1>2, <1>3, OnKeeps DEF GoesOn
<1>4. CASE pc' = "clean" /\ Thrown(failure')
  BY <1>1, <1>2, <1>4, CleanKeeps
<1>5. (pc' = "accept" /\ failure' = failure) \/ (pc' = "clean" /\ Thrown(failure'))
  BY FileThrown DEF ReadResult, Goto, Throw
<1>6. QED
  BY <1>3, <1>4, <1>5

\* The worker has ended by itself, or the activation fails: it is the deadline
\* that is blamed only if it stopped the worker.
LEMMA CollectKeeps ==
  ASSUME RunInv, Collect
  PROVE  RunInv'
<1>1. Stays /\ intact' \in BOOLEAN
  BY Untouched
<1>2. pc = "work" /\ pc \in Inside /\ pc \in Held /\ sessions[session].worker # "running"
  BY DEF Collect, Inside, Opening, Recorded, Working, Held, Worker
<1>3. session \in DOMAIN sessions
  BY <1>2 DEF RunInv, Hosting
<1>4. CASE Ended = "ended"
  <2>1. sessions[session].worker = "exited_0" /\ sessions[session].cause # "timeout"
    BY <1>4 DEF Ended, Worker, HelperReason
  <2>2. pc' = "verify" /\ failure' = failure
    BY <1>4 DEF Collect, Goto
  <2>3. QED
    BY <1>1, <1>2, <2>1, <2>2, OnKeeps DEF GoesOn
<1>5. CASE Ended # "ended"
  <2>1. pc' = "clean" /\ failure' = Ended
    BY <1>5 DEF Collect, Throw
  <2>2. Ended = "worker_timeout" \/ Ended = "worker_failed"
    BY <1>5 DEF Ended, HelperReason
  <2>3. Ended = "worker_timeout" => sessions[session].cause = "timeout"
    BY <1>5 DEF Ended, HelperReason, Worker
  <2>4. Thrown("worker_timeout") \/ sessions[session].cause # "timeout"
    BY <1>3 DEF Thrown, Causes, FailureReasons
  <2>5. Thrown(failure')
    BY <2>1, <2>2, <2>3, <2>4, FileThrown
  <2>6. QED
    BY <1>1, <1>2, <2>1, <2>5, CleanKeeps
<1>6. QED
  BY <1>4, <1>5

-----------------------------------------------------------------------------
(* Before the first activation, between two of them, and the cutoff.        *)

\* A run starts with no document and no session.
LEMMA InitInv ==
  ASSUME Init
  PROVE  RunInv
<1> USE DEF Init, Opening, Recorded, Working, Inside, Outside, Over, Quiet, Held, Accepted
<1>1. Variables
  <2>1. gate \in Gates
    BY DEF Gates, Maybe
  <2>2. sessions \in Seq(SessionRecords)
    BY EmptySeq
  <2>3. QED
    BY <2>1, <2>2 DEF Variables, Maybe, PointsOfRunner, Results
<1>2. Present /\ Kept
  BY DEF Present, Kept
<1>3. Failing /\ Walking
  BY NoneAssumption DEF Failing, Walking, FailureReasons
<1>4. Flying /\ Hosting
  BY DEF Flying, Hosting
<1>5. Refusing /\ OutcomeAgrees
  BY NoneAssumption DEF Refusing, OutcomeAgrees, FailureReasons
<1>6. QED
  BY <1>1, <1>2, <1>3, <1>4, <1>5 DEF RunInv

\* A bundle that fails a gate leaves nothing behind.
LEMMA LoadKeeps ==
  ASSUME RunInv, Load
  PROVE  RunInv'
<1> USE DEF Load, Opening, Recorded, Working, Inside, Outside, Over, Quiet, Held, Accepted,
            document, engine, host, bounds
<1>1. current = None /\ stored = None /\ failure = None /\ ~gate.cleanup /\ ~poisoned
  BY DEF RunInv, Variables, Present, Failing
<1>2. Variables'
  BY DEF RunInv, Variables, Maybe, PointsOfRunner
<1>3. Present' /\ Kept'
  BY <1>1 DEF RunInv, Present, Kept
<1>4. Failing' /\ Walking'
  BY <1>1, NoneAssumption DEF RunInv, Failing, Walking, FailureReasons
<1>5. Flying' /\ Hosting'
  BY <1>1 DEF RunInv, Flying, Hosting
<1>6. Refusing' /\ OutcomeAgrees'
  BY <1>1, NoneAssumption DEF RunInv, Present, Refusing, OutcomeAgrees, FailureReasons
<1>7. QED
  BY <1>1, <1>2, <1>3, <1>4, <1>5, <1>6 DEF RunInv

\* The engine takes its bundle, unless the host, the launcher or a signal stops it.
LEMMA AuthorizeKeeps ==
  ASSUME RunInv, Authorize
  PROVE  RunInv'
<1> USE DEF Opening, Recorded, Working, Inside, Outside, Over, Quiet, Held, Accepted
<1>1. /\ pc = "authorize" /\ current # None /\ current.status = "active"
      /\ Admitted(pipeline) /\ pipeline \in Pipelines
      /\ UNCHANGED <<pipeline, stored, current, poisoned, session, digest, gate,
                     exit, sessions, result, refused, intact, count>>
      /\ intact' \in BOOLEAN
  BY DEF Authorize, RunInv, Variables, Present, Kept, document, engine, host
<1>2. pipeline.entry_state \in Ids(pipeline) /\ Compiles(pipeline)
  BY <1>1, AdmittedGraph
<1>3. \/ pc' = "freeze" /\ Thrown(failure')
      \/ pc' = "turn" /\ failure' = failure /\ at' = pipeline.entry_state
  BY <1>2, FileThrown, AbortThrown
     DEF Authorize, Throw, Goto, CheckAbort, HelperReason
<1>4. CASE pc' = "freeze" /\ Thrown(failure')
  BY <1>1, <1>4, FreezeKeeps
<1>5. CASE pc' = "turn" /\ failure' = failure /\ at' = pipeline.entry_state
  <2>1. Variables'
    BY <1>1, <1>5 DEF RunInv, Variables, PointsOfRunner
  <2>2. Present' /\ Kept'
    BY <1>1, <1>5 DEF RunInv, Present, Kept
  <2>3. Failing' /\ Walking'
    BY <1>1, <1>2, <1>5 DEF RunInv, Failing, Walking, Aborted
  <2>4. Flying' /\ Hosting'
    BY <1>1, <1>5 DEF RunInv, Flying, Hosting
  <2>5. (current # None => Truthful(current, sessions))' /\ Refusing'
    BY <1>1, <1>5 DEF RunInv, Refusing
  <2>6. OutcomeAgrees'
    BY <1>1, <1>5, <2>1, <2>2, NoneAssumption
       DEF OutcomeAgrees, Variables, Maybe, Causes, FailureReasons, Present
  <2>7. QED
    BY <2>1, <2>2, <2>3, <2>4, <2>5, <2>6 DEF RunInv
<1>6. QED
  BY <1>3, <1>4, <1>5

\* The engine turns to a terminal, to an agent it may still run, or gives up.
LEMMA TurnKeeps ==
  ASSUME RunInv, Turn
  PROVE  RunInv'
<1> USE DEF Opening, Recorded, Working, Inside, Outside, Over, Quiet, Held, Accepted
<1>1. /\ pc = "turn" /\ current # None /\ current.status = "active"
      /\ Admitted(pipeline) /\ pipeline \in Pipelines /\ at \in Ids(pipeline) /\ count \in Nat
      /\ UNCHANGED <<pipeline, stored, current, poisoned, session, digest, gate,
                     exit, sessions, result, refused, intact, count, at>>
      /\ intact' \in BOOLEAN
  BY DEF Turn, RunInv, Variables, Present, Kept, Walking, document, engine, host
<1>2. /\ State(pipeline, at).type \in {"agent", "terminal"}
      /\ pipeline.max_transitions \in Int
  BY <1>1, StateType, AdmittedGraph
<1>3. \/ pc' = "freeze" /\ Thrown(failure')
      \/ pc' = "terminal" /\ failure' = failure /\ State(pipeline, at).type = "terminal"
      \/ /\ pc' = "start" /\ failure' = failure
         /\ State(pipeline, at).type = "agent" /\ count < pipeline.max_transitions
  BY <1>1, <1>2, FileThrown, AbortThrown DEF Turn, Throw, Goto, CheckAbort
<1>4. CASE pc' = "freeze" /\ Thrown(failure')
  BY <1>1, <1>4, FreezeKeeps
<1>5. CASE ~(pc' = "freeze" /\ Thrown(failure'))
  <2>1. /\ pc' \in {"terminal", "start"} /\ failure' = failure
        /\ pc' = "terminal" => State(pipeline, at).type = "terminal"
        /\ pc' = "start" =>
             State(pipeline, at).type = "agent" /\ count < pipeline.max_transitions
    BY <1>3, <1>5
  <2>2. Variables'
    BY <1>1, <2>1 DEF RunInv, Variables, PointsOfRunner
  <2>3. Present' /\ Kept'
    BY <1>1, <2>1 DEF RunInv, Present, Kept
  <2>4. Failing'
    BY <1>1, <2>1 DEF RunInv, Failing, Aborted
  <2>5. Walking'
    BY <1>1, <2>1 DEF RunInv, Walking
  <2>6. Flying' /\ Hosting'
    BY <1>1, <2>1 DEF RunInv, Flying, Hosting
  <2>7. (current # None => Truthful(current, sessions))' /\ Refusing'
    BY <1>1, <2>1 DEF RunInv, Refusing
  <2>8. OutcomeAgrees'
    BY <1>1, <2>1, <2>2, <2>3, NoneAssumption
       DEF OutcomeAgrees, Variables, Maybe, Causes, FailureReasons, Present
  <2>9. QED
    BY <2>2, <2>3, <2>4, <2>5, <2>6, <2>7, <2>8 DEF RunInv
<1>6. QED
  BY <1>4, <1>5

\* The cutoff: no signal counts from here on.
LEMMA FreezeStepKeeps ==
  ASSUME RunInv, Freeze
  PROVE  RunInv'
<1> USE DEF Opening, Recorded, Working, Inside, Outside, Over, Quiet, Held, Accepted
<1>1. /\ pc = "freeze" /\ pc' = (IF current = None THEN "reinitialize" ELSE "finalize")
      /\ failure' = failure
      /\ UNCHANGED <<pipeline, stored, current, poisoned, session, digest,
                     exit, sessions, result, refused, intact, count, at>>
      /\ gate' \in Gates /\ gate'.abort = gate.abort /\ gate'.cleanup = gate.cleanup
  BY DEF Freeze, Goto, RunInv, Variables, Gates, document, engine, host
<1>2. current # None => current.status = "active"
  BY <1>1 DEF RunInv, Kept
<1>3. Variables'
  BY <1>1 DEF RunInv, Variables, PointsOfRunner
<1>4. Present' /\ Kept'
  BY <1>1 DEF RunInv, Present, Kept
<1>5. Failing'
  BY <1>1 DEF RunInv, Failing, Aborted
<1>6. Walking'
  BY <1>1 DEF RunInv, Walking
<1>7. Flying' /\ Hosting'
  BY <1>1 DEF RunInv, Flying, Hosting
<1>8. (current # None => Truthful(current, sessions))' /\ Refusing'
  BY <1>1 DEF RunInv, Refusing
<1>9. OutcomeAgrees'
  BY <1>1, <1>2, <1>3, <1>4, NoneAssumption
     DEF OutcomeAgrees, Variables, Maybe, Causes, FailureReasons, Present
<1>10. QED
  BY <1>3, <1>4, <1>5, <1>6, <1>7, <1>8, <1>9 DEF RunInv

-----------------------------------------------------------------------------
(* What the helper has: sessions made, workers run, stopped and deleted.    *)

\* The records of a document speak of no session but theirs.
LEMMA TruthfulOthers ==
  ASSUME NEW d, NEW g, NEW h, Truthful(d, h), DOMAIN h \subseteq DOMAIN g,
         \A i \in DOMAIN d.activations :
           LET a == d.activations[i] IN
           a.digest # None \/ a.phase = "session_cleanup_completed" =>
             g[a.session] = h[a.session]
  PROVE  Truthful(d, g)
BY DEF Truthful, Told

\* What a document says of an activation that is not the one in flight is about
\* another session than the session in flight.
LEMMA OthersTold ==
  ASSUME RunInv, pc \in Working \cup {"create", "record_session", "clean"}, session # None
  PROVE  /\ current # None /\ current \in Document
         /\ DOMAIN current.activations = 1..LastIndex(current) /\ LastIndex(current) \in Nat
         /\ \A i \in 1..LastIndex(current) :
              i # LastIndex(current) => current.activations[i].session # session
         /\ LastIndex(current) \in DOMAIN current.activations
         /\ Last(current.activations) = current.activations[LastIndex(current)]
         /\ Last(current.activations).phase # "session_cleanup_completed"
         /\ Last(current.activations).phase \in Unaccepted =>
              Last(current.activations).digest = None
<1>1. current # None /\ current \in Document /\ Active(current) /\ InFlight(current)
  BY DEF RunInv, Variables, Maybe, Present, Kept, Flying, Inside, Opening, Working
<1>2. Facts(current)
  BY <1>1 DEF Active
<1>3. /\ LastIndex(current) \in Nat /\ LastIndex(current) >= 1
      /\ DOMAIN current.activations = 1..LastIndex(current)
      /\ Last(current.activations) = current.activations[LastIndex(current)]
  BY <1>1, <1>2, FlightFacts
<1>4. Last(current.activations).phase # "session_cleanup_completed"
  BY <1>1 DEF InFlight, Finished
<1>5. \A i \in 1..(LastIndex(current) - 1) : current.activations[i].session # session
  BY DEF RunInv, Flying, Inside, Opening, Working
<1>6. ActivationCoherent(Last(current.activations))
  BY <1>1, FlightRecord
<1>7. \A i \in 1..LastIndex(current) :
        i # LastIndex(current) => current.activations[i].session # session
  BY <1>3, <1>5
<1>8. QED
  BY <1>1, <1>3, <1>4, <1>6, <1>7 DEF ActivationCoherent

\* No document tells yet of the session whose worker may still run.
LEMMA WorkUntold ==
  ASSUME RunInv, pc \in Working, session # None, NEW r
  PROVE  Truthful(current, [sessions EXCEPT ![session] = r])
<1> DEFINE g == [sessions EXCEPT ![session] = r]
<1>1. Truthful(current, sessions) /\ Last(current.activations).phase \in Unaccepted
  BY OthersTold DEF RunInv, Flying, Working, Unaccepted
<1>2. \A i \in DOMAIN current.activations :
        LET a == current.activations[i] IN
        a.digest # None \/ a.phase = "session_cleanup_completed" =>
          g[a.session] = sessions[a.session]
  <2> SUFFICES ASSUME NEW i \in DOMAIN current.activations,
                      \/ current.activations[i].digest # None
                      \/ current.activations[i].phase = "session_cleanup_completed"
               PROVE  g[current.activations[i].session] = sessions[current.activations[i].session]
    OBVIOUS
  <2>1. current.activations[i].session # session
    BY <1>1, OthersTold
  <2>2. QED
    BY <2>1
<1>3. DOMAIN sessions \subseteq DOMAIN g
  OBVIOUS
<1> HIDE DEF g
<1>4. Truthful(current, g)
  BY <1>1, <1>2, <1>3, TruthfulOthers
<1>5. QED
  BY <1>4 DEF g

\* The record of the session in flight changes while no document tells of it.
LEMMA WorkKeeps ==
  ASSUME RunInv, pc = "work", pc' = pc,
         UNCHANGED <<pipeline, stored, current, poisoned, at, count, session, digest,
                     failure, exit, refused>>,
         result' \in Results, intact' \in BOOLEAN,
         gate' \in Gates, gate'.cleanup = gate.cleanup,
         gate.abort # None => gate'.abort = gate.abort,
         NEW r \in SessionRecords, sessions' = [sessions EXCEPT ![session] = r],
         r.live = sessions[session].live, r.known = sessions[session].known,
         sessions[session].cause = "timeout" => r.cause = "timeout"
  PROVE  RunInv'
<1> USE DEF Opening, Recorded, Working, Inside, Outside, Over, Quiet, Held, Accepted
<1>1. /\ session # None /\ session \in DOMAIN sessions /\ sessions \in Seq(SessionRecords)
      /\ current # None /\ current.status = "active"
  BY DEF RunInv, Hosting, Present, Variables, Kept
<1>2. /\ sessions' \in Seq(SessionRecords) /\ DOMAIN sessions' = DOMAIN sessions
      /\ sessions'[session] = r
      /\ \A i \in DOMAIN sessions : i # session => sessions'[i] = sessions[i]
  BY <1>1
<1>3. Variables'
  BY <1>2 DEF RunInv, Variables
<1>4. Present' /\ Kept'
  BY DEF RunInv, Present, Kept
<1>5. Failing' /\ Walking'
  BY <1>2 DEF RunInv, Failing, Walking, Aborted
<1>6. Flying'
  BY DEF RunInv, Flying
<1>7. Hosting'
  BY <1>1, <1>2 DEF RunInv, Hosting
<1>8. Truthful(current, sessions')
  BY <1>1, WorkUntold
<1>9. Refusing'
  BY DEF RunInv, Refusing
<1>10. OutcomeAgrees'
  BY <1>1, <1>3, <1>4, NoneAssumption
     DEF OutcomeAgrees, Variables, Maybe, Causes, FailureReasons, Present
<1>11. QED
  BY <1>3, <1>4, <1>5, <1>6, <1>7, <1>8, <1>9, <1>10 DEF RunInv

\* A result written, a protected input changed, a signal taken: the run itself
\* stays where it is.
LEMMA AroundKeeps ==
  ASSUME RunInv, pc # "done",
         UNCHANGED <<pipeline, stored, current, poisoned, pc, at, count, session, digest,
                     failure, exit, sessions, refused>>,
         result' \in Results, intact' \in BOOLEAN,
         gate' \in Gates, gate'.cleanup = gate.cleanup,
         gate.abort # None => gate'.abort = gate.abort
  PROVE  RunInv'
<1> USE DEF Opening, Recorded, Working, Inside, Outside, Over, Quiet, Held, Accepted
<1>1. Variables'
  BY DEF RunInv, Variables
<1>2. Present' /\ Kept'
  BY DEF RunInv, Present, Kept
<1>3. Failing' /\ Walking'
  BY DEF RunInv, Failing, Walking, Aborted
<1>4. Flying' /\ Hosting'
  BY DEF RunInv, Flying, Hosting
<1>5. (current # None => Truthful(current, sessions))' /\ Refusing'
  BY DEF RunInv, Refusing
<1>6. current # None => current.status = "active"
  BY DEF RunInv, Kept
<1>7. OutcomeAgrees'
  BY <1>1, <1>2, <1>6, NoneAssumption
     DEF OutcomeAgrees, Variables, Maybe, Causes, FailureReasons, Present
<1>8. QED
  BY <1>1, <1>2, <1>3, <1>4, <1>5, <1>7 DEF RunInv

\* The session in flight at the worker.
LEMMA AtWork ==
  ASSUME RunInv, pc = "work"
  PROVE  /\ session \in DOMAIN sessions /\ sessions[session] \in SessionRecords
         /\ sessions \in Seq(SessionRecords)
         /\ result \in Results /\ intact \in BOOLEAN /\ gate \in Gates
BY DEF RunInv, Hosting, Variables, Working, Held

\* Each step of the worker, of its deadline and of who signals or edits.
LEMMA EnvironmentKeeps ==
  ASSUME RunInv, Environment
  PROVE  RunInv'
<1> USE DEF document, engine, host, bounds
<1>1. result \in Results /\ intact \in BOOLEAN /\ gate \in Gates
  BY DEF RunInv, Variables
<1>2. CASE WorkerWrites
  BY <1>1, <1>2, AroundKeeps DEF WorkerWrites, WorkerRuns, Signalable
<1>3. CASE WorkerExits
  <2>1. pc = "work"
    BY <1>3 DEF WorkerExits, WorkerRuns, Signalable
  <2>2. PICK code \in {"exited_0", "exited_1"} :
          sessions' = [sessions EXCEPT ![session].worker = code]
    BY <1>3 DEF WorkerExits
  <2> DEFINE r == [sessions[session] EXCEPT !.worker = code]
  <2>3. sessions[session] \in SessionRecords
    BY <2>1, AtWork
  <2>4. /\ r \in SessionRecords /\ r.live = sessions[session].live
        /\ r.known = sessions[session].known /\ r.cause = sessions[session].cause
    BY <2>3 DEF SessionRecords
  <2>5. sessions' = [sessions EXCEPT ![session] = r]
    BY <2>2
  <2> HIDE DEF r
  <2>6. QED
    BY <1>1, <1>3, <2>1, <2>4, <2>5, WorkKeeps DEF WorkerExits
<1>4. CASE Deadline
  <2>1. pc = "work" /\ sessions' = [sessions EXCEPT ![session].cause = "timeout"]
    BY <1>4 DEF Deadline, Signalable
  <2> DEFINE r == [sessions[session] EXCEPT !.cause = "timeout"]
  <2>2. sessions[session] \in SessionRecords
    BY <2>1, AtWork
  <2>3. /\ r \in SessionRecords /\ r.live = sessions[session].live
        /\ r.known = sessions[session].known /\ r.cause = "timeout"
    BY <2>2 DEF SessionRecords, Maybe
  <2>4. sessions' = [sessions EXCEPT ![session] = r]
    BY <2>1
  <2> HIDE DEF r
  <2>5. QED
    BY <1>1, <1>4, <2>1, <2>3, <2>4, WorkKeeps DEF Deadline
<1>5. CASE Signal
  <2>1. gate' \in Gates /\ gate'.cleanup = gate.cleanup
        /\ (gate.abort # None => gate'.abort = gate.abort)
    BY <1>1, <1>5 DEF Signal, Gates, Maybe, Aborted
  <2>2. CASE sessions' = sessions
    BY <1>1, <1>5, <2>1, <2>2, AroundKeeps DEF Signal
  <2>3. CASE sessions' # sessions
    <3>1. /\ pc = "work" /\ sessions[session].cause = None
          /\ sessions' = [sessions EXCEPT ![session].cause = "user_signal"]
      BY <1>5, <2>3 DEF Signal, Signalable, Worker
    <3> DEFINE r == [sessions[session] EXCEPT !.cause = "user_signal"]
    <3>2. sessions[session] \in SessionRecords
      BY <3>1, AtWork
    <3>3. /\ r \in SessionRecords /\ r.live = sessions[session].live
          /\ r.known = sessions[session].known
      BY <3>2 DEF SessionRecords, Maybe
    <3>4. sessions' = [sessions EXCEPT ![session] = r]
      BY <3>1
    <3>5. sessions[session].cause # "timeout"
      BY <3>1, NoneAssumption
    <3> HIDE DEF r
    <3>6. QED
      BY <1>1, <1>5, <2>1, <3>1, <3>3, <3>4, <3>5, WorkKeeps DEF Signal
  <2>4. QED
    BY <2>2, <2>3
<1>6. CASE Edit
  BY <1>1, <1>6, AroundKeeps DEF Edit
<1>7. QED
  BY <1>2, <1>3, <1>4, <1>5, <1>6 DEF Environment

\* The worker starts in the session of its activation, unless something lies in
\* its way or a signal came.
LEMMA LaunchKeeps ==
  ASSUME RunInv, Launch
  PROVE  RunInv'
<1> USE DEF Opening, Recorded, Working, Inside, Outside, Over, Quiet, Held, Accepted
<1>1. /\ pc = "launch" /\ session # None /\ session \in DOMAIN sessions
      /\ sessions \in Seq(SessionRecords) /\ sessions[session].live
      /\ current # None /\ current.status = "active"
      /\ UNCHANGED <<pipeline, stored, current, poisoned, at, count, session, digest,
                     gate, exit, result, intact, refused>>
      /\ intact' \in BOOLEAN
  BY DEF Launch, RunInv, Hosting, Present, Variables, Kept, document, engine
<1>2. \/ pc' = "clean" /\ Thrown(failure') /\ sessions' = sessions
      \/ /\ pc' = "work" /\ failure' = failure
         /\ sessions' = [sessions EXCEPT ![session].worker = "running"]
  BY FileThrown, AbortThrown DEF Launch, Throw, Goto, CheckAbort
<1>3. CASE pc' = "clean" /\ Thrown(failure') /\ sessions' = sessions
  BY <1>1, <1>3, CleanKeeps DEF Stays
<1>4. CASE /\ pc' = "work" /\ failure' = failure
           /\ sessions' = [sessions EXCEPT ![session].worker = "running"]
  <2> DEFINE r == [sessions[session] EXCEPT !.worker = "running"]
  <2> sessions[session] \in SessionRecords
    BY <1>1
  <2>1. /\ r \in SessionRecords /\ r.live = sessions[session].live
        /\ r.known = sessions[session].known /\ r.cause = sessions[session].cause
    BY DEF SessionRecords
  <2>2. sessions' = [sessions EXCEPT ![session] = r]
    BY <1>4
  <2> HIDE DEF r
  <2>3. /\ sessions' \in Seq(SessionRecords) /\ DOMAIN sessions' = DOMAIN sessions
        /\ sessions'[session] = r
        /\ \A i \in DOMAIN sessions : i # session => sessions'[i] = sessions[i]
    BY <1>1, <2>1, <2>2
  <2>4. Variables'
    BY <1>1, <1>4, <2>3 DEF RunInv, Variables, PointsOfRunner
  <2>5. Present' /\ Kept'
    BY <1>1, <1>4 DEF RunInv, Present, Kept
  <2>6. Failing' /\ Walking'
    BY <1>1, <1>4, <2>1, <2>3 DEF RunInv, Failing, Walking, Aborted
  <2>7. Flying'
    BY <1>1, <1>4 DEF RunInv, Flying
  <2>8. Hosting'
    BY <1>1, <1>4, <2>1, <2>3 DEF RunInv, Hosting
  <2>9. Truthful(current, sessions')
    BY <1>1, <2>2, WorkUntold
  <2>10. Refusing'
    BY <1>1, <1>4 DEF RunInv, Refusing
  <2>11. OutcomeAgrees'
    BY <1>1, <2>4, <2>5, <1>4, NoneAssumption
       DEF OutcomeAgrees, Variables, Maybe, Causes, FailureReasons, Present
  <2>12. QED
    BY <1>1, <2>4, <2>5, <2>6, <2>7, <2>8, <2>9, <2>10, <2>11 DEF RunInv
<1>5. QED
  BY <1>2, <1>3, <1>4

\* The sessions a document speaks of are some that the helper has made.
LEMMA ToldSessions ==
  ASSUME RunInv, current # None, current.status = "active",
         NEW i \in DOMAIN current.activations
  PROVE  LET a == current.activations[i] IN
         /\ a.session # None => a.session \in DOMAIN sessions
         /\ a.digest # None \/ a.phase = "session_cleanup_completed" => a.session # None
         /\ a.phase \notin {"creating_session", "failed"} => a.session # None
<1> DEFINE a == current.activations[i]
<1>1. Told(a, sessions)
  BY DEF RunInv, Truthful
<1>2. ActivationCoherent(a)
  BY DEF RunInv, Kept, Active, Facts, ActivationsCoherent
<1>3. a.phase \notin {"creating_session", "failed"} => a.session # None
  BY <1>2 DEF ActivationCoherent
<1>4. a.digest # None => a.session # None
  BY <1>1 DEF Told
<1>5. QED
  BY <1>1, <1>3, <1>4 DEF Told

\* A session is made, or not, or made unknown to the runner: no document tells
\* of it yet.
LEMMA CreateSessionKeeps ==
  ASSUME RunInv, CreateChildSession
  PROVE  RunInv'
<1> USE DEF Opening, Recorded, Working, Inside, Outside, Over, Quiet, Held, Accepted
<1> DEFINE id == Len(sessions) + 1
<1>1. /\ pc = "create" /\ session = None /\ ~gate.cleanup
      /\ sessions \in Seq(SessionRecords) /\ id \in Nat
      /\ DOMAIN sessions = 1..Len(sessions) /\ Len(sessions) \in Nat
      /\ current # None /\ current \in Document /\ current.status = "active"
      /\ UNCHANGED <<pipeline, stored, current, poisoned, at, count, digest,
                     gate, exit, result, intact, refused>>
  BY DEF CreateChildSession, RunInv, Hosting, Failing, Present, Variables, Maybe, Kept,
         document, engine
<1>2. /\ \/ sessions' = sessions /\ session' = None
         \/ /\ \E r \in SessionRecords :
                 /\ sessions' = Append(sessions, r) /\ r.worker = "none" /\ r.live
                 /\ session' = IF r.known THEN id ELSE None
      /\ \/ pc' = "clean" /\ Thrown(failure')
         \/ pc' = "record_session" /\ failure' = failure /\ session' = id
  <2>1. NewSession \in SessionRecords /\ NewSession.known /\ NewSession.live
        /\ NewSession.worker = "none"
    BY DEF NewSession, SessionRecords, Maybe
  <2>2. CASE /\ sessions' = Append(sessions, NewSession) /\ session' = id
             /\ Goto("record_session")
    BY <2>1, <2>2 DEF Goto
  <2>3. CASE \E problem \in CreateProblems :
             /\ sessions' = IF problem.made
                            THEN Append(sessions, [NewSession EXCEPT !.known = problem.named])
                            ELSE sessions
             /\ session' = IF problem.named THEN id ELSE session
             /\ Throw(HelperReason(problem.kind), "clean")
    <3>1. PICK problem \in CreateProblems :
             /\ sessions' = IF problem.made
                            THEN Append(sessions, [NewSession EXCEPT !.known = problem.named])
                            ELSE sessions
             /\ session' = IF problem.named THEN id ELSE session
             /\ Throw(HelperReason(problem.kind), "clean")
      BY <2>3
    <3>2. /\ problem.made \in BOOLEAN /\ problem.named \in BOOLEAN
          /\ problem.named => problem.made
      <4>1. CASE \E made \in BOOLEAN, kind \in {"cli_failure", "unexpected_response"} :
                   problem = [made |-> made, named |-> FALSE, kind |-> kind]
        BY <4>1
      <4>2. CASE problem = [made |-> TRUE, named |-> TRUE, kind |-> "unexpected_response"]
        BY <4>2
      <4>3. QED
        BY <4>1, <4>2 DEF CreateProblems
    <3>3. pc' = "clean" /\ Thrown(failure')
      BY <3>1, FileThrown DEF Throw, HelperReason
    <3> DEFINE r == [NewSession EXCEPT !.known = problem.named]
    <3>4. r \in SessionRecords /\ r.worker = "none" /\ r.live /\ r.known = problem.named
      BY <2>1, <3>2 DEF SessionRecords
    <3> HIDE DEF r
    <3>5. QED
      BY <1>1, <3>1, <3>2, <3>3, <3>4 DEF r
  <2>4. QED
    BY <2>2, <2>3 DEF CreateChildSession
<1> HIDE DEF id
<1>3. /\ sessions' \in Seq(SessionRecords) /\ DOMAIN sessions \subseteq DOMAIN sessions'
      /\ \A i \in DOMAIN sessions : sessions'[i] = sessions[i]
      /\ \A i \in DOMAIN sessions' :
           i \in DOMAIN sessions \/
           (sessions'[i].worker = "none" /\ sessions'[i].live /\
            (sessions'[i].known => i = session'))
      /\ session' \in {None, id} /\ session' # None => session' \in DOMAIN sessions'
      /\ session' # None => sessions'[session'].live
      /\ id \notin DOMAIN sessions /\ id # None
  <2>1. id \notin DOMAIN sessions /\ id # None
    BY <1>1, NoneAssumption DEF id
  <2>2. CASE sessions' = sessions /\ session' = None
    BY <1>1, <2>1, <2>2
  <2>3. CASE ~(sessions' = sessions /\ session' = None)
    <3>1. PICK r \in SessionRecords :
                 /\ sessions' = Append(sessions, r) /\ r.worker = "none" /\ r.live
                 /\ session' = IF r.known THEN id ELSE None
      BY <1>2, <2>3
    <3>2. /\ sessions' \in Seq(SessionRecords) /\ DOMAIN sessions' = 1..id
          /\ sessions'[id] = r /\ \A i \in 1..Len(sessions) : sessions'[i] = sessions[i]
      BY <1>1, <3>1, AppendIs DEF id
    <3>3. \A i \in 1..id : i \in 1..Len(sessions) \/ i = id
      BY <1>1 DEF id
    <3>4. id \in 1..id /\ 1..Len(sessions) \subseteq 1..id
      BY <1>1 DEF id
    <3>5. QED
      BY <1>1, <2>1, <3>1, <3>2, <3>3, <3>4
  <2>4. QED
    BY <2>2, <2>3
<1>4. failure' \in Maybe(Causes) /\ (pc' = "clean" => failure' # None)
  BY <1>1, <1>2, NoneAssumption DEF Thrown, Maybe, Causes, RunInv, Variables
<1>5. Variables'
  BY <1>1, <1>2, <1>3, <1>4 DEF RunInv, Variables, PointsOfRunner, Maybe
<1>6. Present' /\ Kept'
  BY <1>1, <1>2 DEF RunInv, Present, Kept
<1>7. Failing' /\ Walking'
  BY <1>1, <1>2, <1>3, <1>4 DEF RunInv, Failing, Walking, Aborted, Thrown
<1>8. Flying'
  <2>1. /\ InFlight(current) /\ Last(current.activations).state = at
        /\ Last(current.activations).phase = "creating_session"
    BY <1>1 DEF RunInv, Flying
  <2>2. \A i \in 1..(LastIndex(current) - 1) : current.activations[i].session # id
    <3>1. 1..(LastIndex(current) - 1) \subseteq DOMAIN current.activations
      BY <1>1, <2>1, FlightFacts DEF RunInv, Kept, Active
    <3>2. QED
      BY <1>1, <1>3, <3>1, ToldSessions
  <2>3. QED
    BY <1>1, <1>2, <1>3, <1>4, <2>1, <2>2 DEF Flying
<1>9. Hosting'
  BY <1>1, <1>2, <1>3, <1>4 DEF RunInv, Hosting
<1>10. Truthful(current, sessions')
  <2>1. \A i \in DOMAIN current.activations :
          LET a == current.activations[i] IN
          a.digest # None \/ a.phase = "session_cleanup_completed" =>
            sessions'[a.session] = sessions[a.session]
    BY <1>1, <1>3, ToldSessions
  <2>2. QED
    BY <1>1, <1>3, <2>1, TruthfulOthers DEF RunInv
<1>11. Refusing'
  BY <1>1, <1>2 DEF RunInv, Refusing
<1>12. OutcomeAgrees'
  BY <1>1, <1>2, <1>5, <1>6, NoneAssumption
     DEF OutcomeAgrees, Variables, Maybe, Causes, FailureReasons, Present
<1>13. QED
  BY <1>1, <1>5, <1>6, <1>7, <1>8, <1>9, <1>10, <1>11, <1>12 DEF RunInv

\* The session is gone, or its deletion has failed: it was none that a document
\* calls gone.
LEMMA DeleteSessionKeeps ==
  ASSUME RunInv, DeleteChildSession
  PROVE  RunInv'
<1> USE DEF Opening, Recorded, Working, Inside, Outside, Over, Quiet, Held, Accepted
<1>1. /\ pc = "clean" /\ ~gate.cleanup
      /\ sessions \in Seq(SessionRecords)
      /\ session # None => session \in DOMAIN sessions
      /\ current # None /\ current \in Document /\ current.status = "active"
      /\ failure = None => session # None
      /\ UNCHANGED <<pipeline, stored, current, poisoned, at, count, session, digest,
                     exit, result, intact, refused>>
  BY DEF DeleteChildSession, RunInv, Hosting, Failing, Present, Variables, Maybe, Kept,
         document, engine
<1>2. /\ \/ /\ session = None /\ sessions' = sessions
            /\ pc' = AfterClean /\ failure' = failure /\ gate' = gate
         \/ /\ session # None /\ pc' = AfterClean /\ failure' = failure /\ gate' = gate
            /\ sessions' = [sessions EXCEPT ![session].live = FALSE]
         \/ /\ session # None /\ pc' = "fail_cleanup" /\ gate' = [gate EXCEPT !.cleanup = TRUE]
            /\ failure' \in {"worker_failed", "internal_error"}
            /\ \E live \in BOOLEAN : sessions' = [sessions EXCEPT ![session].live = live]
  BY <1>1 DEF DeleteChildSession, Goto, Throw, HelperReason, DeleteProblems
<1>3. /\ gate \in Gates /\ gate' \in Gates /\ gate'.abort = gate.abort
      /\ gate'.cleanup = (pc' = "fail_cleanup")
      /\ pc' = "confirm" <=> (failure = None /\ pc' # "fail_cleanup")
      /\ pc' \in {"confirm", "fail", "fail_cleanup"}
      /\ pc' # "fail_cleanup" => failure' = failure
      /\ pc' = "fail_cleanup" => failure' # None /\ Thrown(failure')
      /\ failure' \in Maybe(Causes)
  BY ZenonT(30), <1>1, <1>2, FileThrown, NoneAssumption
     DEF RunInv, Variables, Gates, AfterClean, Thrown, Maybe, Causes, FailureReasons
<1>4. /\ sessions' \in Seq(SessionRecords) /\ DOMAIN sessions' = DOMAIN sessions
      /\ \A i \in DOMAIN sessions :
           /\ i # session => sessions'[i] = sessions[i]
           /\ sessions'[i].worker = sessions[i].worker /\ sessions'[i].cause = sessions[i].cause
           /\ sessions'[i].known = sessions[i].known
      /\ pc' # "fail_cleanup" /\ session # None => ~sessions'[session].live
      /\ \A i : i # session => sessions'[i] = sessions[i]
  <2>1. CASE sessions' = sessions /\ session = None
    BY <1>1, <2>1
  <2>2. CASE session # None
    <3>1. PICK live \in BOOLEAN :
            /\ sessions' = [sessions EXCEPT ![session].live = live]
            /\ pc' # "fail_cleanup" => ~live
      BY <1>2, <2>2 DEF AfterClean
    <3> DEFINE r == [sessions[session] EXCEPT !.live = live]
    <3>2. sessions[session] \in SessionRecords
      BY <1>1, <2>2
    <3>3. /\ r \in SessionRecords /\ r.live = live /\ r.worker = sessions[session].worker
          /\ r.cause = sessions[session].cause /\ r.known = sessions[session].known
      BY <3>2 DEF SessionRecords
    <3>4. sessions' = [sessions EXCEPT ![session] = r]
      BY <3>1
    <3> HIDE DEF r
    <3>5. QED
      BY <1>1, <2>2, <3>1, <3>3, <3>4
  <2>3. QED
    BY <1>2, <2>1, <2>2
<1>5. Variables'
  BY <1>1, <1>3, <1>4 DEF RunInv, Variables, PointsOfRunner
<1>6. Present' /\ Kept'
  BY <1>1, <1>3 DEF RunInv, Present, Kept
<1>7. Failing' /\ Walking'
  BY <1>1, <1>3, <1>4 DEF RunInv, Failing, Walking, Aborted, Thrown
<1>8. Flying'
  BY <1>1, <1>3 DEF RunInv, Flying
<1>9. Hosting'
  <2>1. \A i \in DOMAIN sessions :
          /\ sessions[i].worker # "running"
          /\ sessions[i].known /\ sessions[i].live => i = session
    BY <1>1 DEF RunInv, Hosting
  <2>2. \A i \in DOMAIN sessions' :
          /\ sessions'[i].worker # "running"
          /\ sessions'[i].known /\ sessions'[i].live => i = session /\ gate'.cleanup
    <3> SUFFICES ASSUME NEW i \in DOMAIN sessions
                 PROVE  /\ sessions'[i].worker # "running"
                        /\ sessions'[i].known /\ sessions'[i].live =>
                             i = session /\ gate'.cleanup
      BY <1>4
    <3>1. CASE i # session
      BY <1>4, <2>1, <3>1
    <3>2. CASE i = session
      <4>1. sessions'[i].worker # "running"
        BY <1>4, <2>1
      <4>2. pc' # "fail_cleanup" => ~sessions'[i].live
        BY <1>4, <3>2, NoneAssumption, <1>1
      <4>3. pc' = "fail_cleanup" => gate'.cleanup
        BY <1>3
      <4>4. QED
        BY <3>2, <4>1, <4>2, <4>3
    <3>3. QED
      BY <3>1, <3>2
  <2>3. failure = None =>
          /\ session # None
          /\ sessions[session].worker = "exited_0" /\ sessions[session].cause # "timeout"
    BY <1>1 DEF RunInv, Hosting
  <2>4. failure = None =>
          sessions'[session].worker = "exited_0" /\ sessions'[session].cause # "timeout"
    BY <1>1, <1>4, <2>3
  <2>5. QED
    BY <1>1, <1>3, <1>4, <2>2, <2>3, <2>4 DEF Hosting
<1>10. Truthful(current, sessions')
  <2>1. CASE session = None
    BY <1>1, <1>2, <2>1 DEF RunInv
  <2>2. CASE session # None
    <3>1. Truthful(current, sessions)
      BY <1>1 DEF RunInv
    <3>2. \A i \in DOMAIN current.activations : Told(current.activations[i], sessions')
      <4> SUFFICES ASSUME NEW i \in DOMAIN current.activations
                   PROVE  Told(current.activations[i], sessions')
        OBVIOUS
      <4>1. Told(current.activations[i], sessions)
        BY <3>1 DEF Truthful
      <4>2. CASE current.activations[i].session # session
        BY <1>4, <4>1, <4>2 DEF Told
      <4>3. CASE current.activations[i].session = session
        <5>1. current.activations[i].phase # "session_cleanup_completed"
          BY <1>1, <2>2, <4>3, OthersTold
        <5>2. QED
          BY <1>1, <1>4, <2>2, <4>1, <4>3, <5>1 DEF Told
      <4>4. QED
        BY <4>2, <4>3
    <3>3. QED
      BY <3>2 DEF Truthful
  <2>3. QED
    BY <2>1, <2>2
<1>11. Refusing'
  BY <1>1, <1>3 DEF RunInv, Refusing
<1>12. OutcomeAgrees'
  BY <1>1, <1>3, <1>5, <1>6, NoneAssumption
     DEF OutcomeAgrees, Variables, Maybe, Causes, FailureReasons, Present
<1>13. QED
  BY <1>1, <1>5, <1>6, <1>7, <1>8, <1>9, <1>10, <1>11, <1>12 DEF RunInv

-----------------------------------------------------------------------------
(* The steps that ask the sink: what is common to them.                    *)

\* A run that is not at its end has a document that has not ended either.
LEMMA StillActive ==
  ASSUME RunInv, pc \notin {"load", "initialize", "freeze", "reinitialize", "done"}
  PROVE  /\ current # None /\ current \in Document /\ stored = current
         /\ current.status = "active" /\ Active(current) /\ Facts(current)
         /\ Truthful(current, sessions)
         /\ Admitted(pipeline) /\ pipeline \in Pipelines
         /\ current.budget = pipeline.max_transitions /\ exit = None
         /\ poisoned \in BOOLEAN
BY DEF RunInv, Variables, Maybe, Present, Kept, Active

\* A record in the place of the last one leaves the document true to the helper.
LEMMA MovedTruthful ==
  ASSUME NEW d \in Document, NEW e, NEW a, NEW hosts,
         Moved(d, e, a), Truthful(d, hosts), Told(a, hosts)
  PROVE  /\ Truthful(e, hosts) /\ e # None
         /\ \A i \in 1..(LastIndex(e) - 1) : e.activations[i] = d.activations[i]
         /\ InFlight(e) <=> a.phase \notin Finished
<1>1. /\ e \in Document /\ LastIndex(d) \in Nat \ {0} /\ LastIndex(e) = LastIndex(d)
      /\ DOMAIN e.activations = 1..LastIndex(d) /\ DOMAIN d.activations = 1..LastIndex(d)
      /\ e.activations[LastIndex(d)] = a /\ Last(e.activations) = a /\ e.activations # <<>>
      /\ \A i \in 1..(LastIndex(d) - 1) : e.activations[i] = d.activations[i]
  BY DEF Moved
<1>2. \A i \in 1..LastIndex(d) : Told(e.activations[i], hosts)
  <2> SUFFICES ASSUME NEW i \in 1..LastIndex(d)
               PROVE  Told(e.activations[i], hosts)
    OBVIOUS
  <2>1. CASE i = LastIndex(d)
    BY <1>1, <2>1
  <2>2. CASE i # LastIndex(d)
    <3>1. i \in 1..(LastIndex(d) - 1)
      BY <1>1, <2>2
    <3>2. QED
      BY <1>1, <3>1 DEF Truthful
  <2>3. QED
    BY <2>1, <2>2
<1>3. Truthful(e, hosts)
  BY <1>1, <1>2 DEF Truthful
<1>4. e # None
  BY <1>1, DocumentFields
<1>5. QED
  BY <1>1, <1>3, <1>4 DEF InFlight

\* The run stops at the sink with the activation in flight: it goes to the catch.
LEMMA LostInside ==
  ASSUME RunInv, pc \in Inside, pc' = "clean", Thrown(failure'), pc # "work",
         UNCHANGED <<pipeline, at, count, session, digest, gate, exit, sessions, result,
                     intact, refused>>,
         stored' = current', poisoned' \in BOOLEAN,
         current' \in Document, current'.status = "active", Active(current'),
         InFlight(current'), current'.budget = current.budget, Truthful(current', sessions),
         \A i \in 1..(LastIndex(current') - 1) :
           session # None => current'.activations[i].session # session
  PROVE  RunInv'
<1> USE DEF Opening, Recorded, Working, Inside, Outside, Over, Quiet, Held, Accepted
<1>1. /\ current # None /\ current.budget = pipeline.max_transitions /\ current' # None
      /\ Admitted(pipeline) /\ exit = None /\ failure' # None
  BY StillActive, DocumentFields, NoneAssumption DEF Thrown, Causes
<1>2. Variables'
  BY <1>1 DEF RunInv, Variables, PointsOfRunner, Maybe, Thrown
<1>3. Present' /\ Kept'
  BY <1>1 DEF Present, Kept
<1>4. Failing' /\ Walking'
  BY <1>1 DEF RunInv, Failing, Walking, Thrown, Aborted
<1>5. Flying'
  BY <1>1 DEF Flying
<1>6. Hosting'
  BY <1>1 DEF RunInv, Hosting
<1>7. Refusing'
  BY DEF RunInv, Refusing
<1>8. OutcomeAgrees'
  BY <1>1, NoneAssumption DEF OutcomeAgrees, Thrown, Causes, FailureReasons
<1>9. QED
  BY <1>1, <1>2, <1>3, <1>4, <1>5, <1>6, <1>7, <1>8 DEF RunInv

\* The run stops at the sink with no activation in flight: it goes to the cutoff.
LEMMA LostOutside ==
  ASSUME RunInv, pc \in {"confirm", "commit"} \cup Outside, pc' = "freeze", Thrown(failure'),
         UNCHANGED <<pipeline, at, count, digest, gate, exit, sessions, intact, refused>>,
         session' \in {session, None}, result' \in Results,
         stored' = current', poisoned' \in BOOLEAN,
         current' \in Document, current'.status = "active", Active(current'),
         current'.budget = current.budget, Truthful(current', sessions)
  PROVE  RunInv'
<1> USE DEF Opening, Recorded, Working, Inside, Outside, Over, Quiet, Held, Accepted
<1>1. /\ current # None /\ current.budget = pipeline.max_transitions /\ current' # None
      /\ Admitted(pipeline) /\ exit = None /\ failure' # None
  BY StillActive, DocumentFields, NoneAssumption DEF Thrown, Causes
<1>2. Variables'
  BY <1>1 DEF RunInv, Variables, PointsOfRunner, Maybe, Thrown
<1>3. Present' /\ Kept'
  BY <1>1 DEF Present, Kept
<1>4. Failing' /\ Walking'
  BY <1>1 DEF RunInv, Failing, Walking, Thrown, Aborted
<1>5. Flying'
  BY <1>1 DEF Flying
<1>6. Hosting'
  <2>1. ~gate.cleanup
    BY DEF RunInv, Failing
  <2>2. \A i \in DOMAIN sessions :
          sessions[i].worker # "running" /\ ~(sessions[i].known /\ sessions[i].live)
    BY <2>1 DEF RunInv, Hosting
  <2>3. session' # None => session' \in DOMAIN sessions
    BY DEF RunInv, Hosting
  <2>4. QED
    BY <2>2, <2>3 DEF Hosting
<1>7. Refusing'
  BY DEF RunInv, Refusing
<1>8. OutcomeAgrees'
  BY <1>1, NoneAssumption DEF OutcomeAgrees, Thrown, Causes, FailureReasons
<1>9. QED
  BY <1>1, <1>2, <1>3, <1>4, <1>5, <1>6, <1>7, <1>8 DEF RunInv

\* An activation starts when the last one has its transition, and so is admitted.
LEMMA StartStepKeeps ==
  ASSUME RunInv, StartActivation
  PROVE  RunInv'
<1> USE DEF Opening, Recorded, Working, Inside, Outside, Over, Quiet, Held, Accepted
<1> DEFINE c == [kind |-> "start_activation", state |-> at]
           e == Start(current, at)
<1>1. /\ pc = "start" /\ session' = None /\ result' = "absent"
      /\ UNCHANGED <<pipeline, at, count, digest, gate, exit, sessions, intact>>
  BY DEF StartActivation, engine
<1>2. /\ current # None /\ current \in Document /\ stored = current
      /\ current.status = "active" /\ Active(current) /\ Facts(current)
      /\ Truthful(current, sessions) /\ Admitted(pipeline) /\ pipeline \in Pipelines
      /\ current.budget = pipeline.max_transitions /\ exit = None /\ poisoned \in BOOLEAN
  BY <1>1, StillActive
<1>3. /\ ~poisoned /\ failure = None /\ ~gate.cleanup
      /\ Settled(current) /\ current.terminal = None
      /\ at = current.cursor /\ at \in Ids(pipeline) /\ count = current.count
      /\ State(pipeline, at).type = "agent" /\ count < pipeline.max_transitions
  BY <1>1 DEF RunInv, Failing, Walking
<1>4. at \in Names
  BY <1>2, <1>3, StateIs
<1>5. AdmitsStart(current, at)
  <2>1. current.phase \in {"validating", "running"}
    BY <1>2, <1>3 DEF Facts
  <2>2. ASSUME current.activations # <<>>
        PROVE  /\ Last(current.activations).phase = "session_cleanup_completed"
               /\ current.transitions # <<>>
               /\ Last(current.transitions).activation = LastIndex(current)
    <3>1. current.activations \in Seq(Activations) /\ current.transitions \in Seq(Transitions)
      BY <1>2, DocumentFields
    <3> DEFINE n == LastIndex(current)
    <3>2. n \in Nat /\ n >= 1 /\ Len(current.transitions) = n /\ Len(current.activations) = n
      BY <1>3, <2>2, <3>1 DEF LastIndex, Settled
    <3>3. /\ Last(current.activations) = current.activations[n] /\ n \in DOMAIN current.activations
          /\ Last(current.transitions) = current.transitions[n] /\ n \in DOMAIN current.transitions
          /\ current.transitions # <<>>
      BY <3>1, <3>2 DEF Last
    <3>4. current.activations[n].phase = "session_cleanup_completed"
      BY <1>2, <1>3, <3>3, SettledFacts
    <3>5. current.transitions[n].activation = n
      BY <1>2, <3>3 DEF Facts, CursorCoherent, TransitionCoherent
    <3>6. QED
      BY <3>3, <3>4, <3>5
  <2>3. QED
    BY <1>3, <2>1, <2>2 DEF AdmitsStart
<1>6. /\ e \in Document /\ Active(e)
      /\ SameOrigin(current, e) /\ SameWalk(current, e) /\ e.terminal = None
      /\ e.activations = Append(current.activations, FreshActivation(at))
  BY <1>2, <1>4, <1>5, StartKeeps
<1>7. Admits(current, c) /\ Reduce(current, c) = e
  BY <1>2, <1>5, CommandIs
<1>8. /\ e # None /\ e.status = "active" /\ e.budget = current.budget
      /\ e.cursor = current.cursor /\ e.count = current.count
  BY <1>6, DocumentFields DEF SameOrigin, SameWalk, Active, Facts
<1> DEFINE fresh == FreshActivation(at)
<1>9. /\ DOMAIN current.activations = 1..LastIndex(current) /\ LastIndex(current) \in Nat
      /\ LastIndex(e) = LastIndex(current) + 1
      /\ DOMAIN e.activations = 1..(LastIndex(current) + 1)
      /\ \A i \in 1..LastIndex(current) : e.activations[i] = current.activations[i]
      /\ e.activations[LastIndex(current) + 1] = fresh /\ Last(e.activations) = fresh
      /\ e.activations # <<>>
  <2>1. fresh \in Activations
    BY <1>4 DEF FreshActivation, Activations, Maybe, ActivationPhases, Unaccepted
  <2>2. current.activations \in Seq(Activations)
    BY <1>2, DocumentFields
  <2> HIDE DEF fresh
  <2>3. e.activations = Append(current.activations, fresh)
    BY <1>6 DEF fresh
  <2> HIDE DEF e
  <2>4. /\ e.activations \in Seq(Activations)
        /\ Len(e.activations) = Len(current.activations) + 1
        /\ \A i \in 1..Len(current.activations) : e.activations[i] = current.activations[i]
        /\ e.activations[Len(current.activations) + 1] = fresh
        /\ Last(e.activations) = fresh /\ e.activations # <<>>
    BY <2>1, <2>2, <2>3, AppendIs
  <2>5. QED
    BY <2>2, <2>4 DEF LastIndex
<1>10. /\ fresh.state = at /\ fresh.phase = "creating_session" /\ fresh.session = None
       /\ Told(fresh, sessions)
  BY DEF FreshActivation, Told
<1> HIDE DEF e, fresh
<1>11. InFlight(e)
  BY <1>9, <1>10 DEF InFlight, Finished
<1>12. Truthful(e, sessions)
  <2>1. \A i \in 1..LastIndex(current) : Told(current.activations[i], sessions)
    BY <1>2, <1>9 DEF Truthful
  <2>2. \A i \in 1..(LastIndex(current) + 1) :
          i \in 1..LastIndex(current) \/ i = LastIndex(current) + 1
    BY <1>9
  <2>3. QED
    BY <1>9, <1>10, <2>1, <2>2 DEF Truthful
<1>13. PICK answer \in AllAnswers :
         /\ Dispatch(c, answer)
         /\ IF answer = "done" THEN Goto("prepare") ELSE Throw("state_persist_failed", "freeze")
  BY DEF StartActivation, Record
<1> HIDE DEF c
<1>14. /\ stored' = current' /\ poisoned' \in BOOLEAN /\ refused' = refused
       /\ answer \in {"done", "durability_unknown"} => current' = e
       /\ answer \notin {"done", "durability_unknown"} => current' = current
       /\ answer = "done" => ~poisoned'
  BY <1>2, <1>7, <1>13, Dispatched
<1>15. CASE answer # "done"
  <2>1. pc' = "freeze" /\ Thrown(failure')
    BY <1>13, <1>15, FileThrown DEF Throw
  <2>2. /\ current' \in Document /\ current'.status = "active" /\ Active(current')
        /\ current'.budget = current.budget /\ Truthful(current', sessions)
    BY <1>2, <1>6, <1>8, <1>12, <1>14
  <2>3. QED
    BY <1>1, <1>14, <2>1, <2>2, LostOutside DEF Results
<1>16. CASE answer = "done"
  <2>1. pc' = "prepare" /\ failure' = failure /\ current' = e /\ stored' = e /\ ~poisoned'
        /\ poisoned' \in BOOLEAN
    BY <1>13, <1>14, <1>16 DEF Goto
  <2>2. Variables'
    BY <1>1, <1>6, <2>1 DEF RunInv, Variables, PointsOfRunner, Maybe, Results
  <2>3. Present' /\ Kept'
    BY <1>1, <1>2, <1>6, <1>8, <2>1 DEF RunInv, Present, Kept
  <2>4. Failing'
    BY <1>1, <1>3, <2>1, NoneAssumption DEF Failing, FailureReasons
  <2>5. Walking'
    BY <1>1, <1>3, <1>8, <2>1 DEF Walking
  <2>6. Flying'
    BY <1>1, <1>9, <1>10, <1>11, <2>1 DEF Flying
  <2>7. Hosting'
    <3>1. \A i \in DOMAIN sessions :
            sessions[i].worker # "running" /\ ~(sessions[i].known /\ sessions[i].live)
      BY <1>1, <1>3 DEF RunInv, Hosting
    <3>2. QED
      BY <1>1, <2>1, <3>1 DEF Hosting
  <2>8. Refusing'
    BY <1>1, <1>3, <1>14 DEF RunInv, Refusing
  <2>9. OutcomeAgrees'
    BY <1>1, <1>2, <1>3, <1>8, <2>1, NoneAssumption DEF OutcomeAgrees, FailureReasons
  <2>10. QED
    BY <1>1, <1>12, <2>1, <2>2, <2>3, <2>4, <2>5, <2>6, <2>7, <2>8, <2>9 DEF RunInv
<1>17. QED
  BY <1>15, <1>16

\* What the steps of an activation's records start from.
LEMMA InFlightThere ==
  ASSUME RunInv, pc \in Inside \cup {"confirm"}
  PROVE  LET last == Last(current.activations) IN
         /\ current # None /\ current \in Document /\ stored = current
         /\ current.status = "active" /\ Active(current) /\ InFlight(current)
         /\ Truthful(current, sessions) /\ Told(last, sessions)
         /\ last \in Activations /\ ActivationCoherent(last) /\ last.state = at
         /\ poisoned = FALSE /\ failure = None /\ ~gate.cleanup /\ exit = None
         /\ session \in Maybe(Nat)
<1> USE DEF Opening, Recorded, Working, Inside, Outside, Over, Quiet, Held, Accepted
<1>1. /\ current # None /\ current \in Document /\ stored = current
      /\ current.status = "active" /\ Active(current) /\ Facts(current)
      /\ Truthful(current, sessions) /\ exit = None /\ poisoned \in BOOLEAN
  BY StillActive
<1>2. /\ InFlight(current) /\ Last(current.activations).state = at
      /\ poisoned = FALSE /\ failure = None /\ ~gate.cleanup /\ session \in Maybe(Nat)
  BY <1>1 DEF RunInv, Flying, Failing, Variables
<1>3. /\ Last(current.activations) \in Activations
      /\ ActivationCoherent(Last(current.activations))
  BY <1>1, <1>2, FlightRecord
<1>4. Told(Last(current.activations), sessions)
  <2>1. /\ DOMAIN current.activations = 1..LastIndex(current)
        /\ LastIndex(current) \in Nat /\ LastIndex(current) >= 1
        /\ Last(current.activations) = current.activations[LastIndex(current)]
    BY <1>1, <1>2, FlightFacts
  <2>2. LastIndex(current) \in DOMAIN current.activations
    BY <2>1
  <2>3. QED
    BY <1>1, <2>1, <2>2 DEF Truthful
<1>5. QED
  BY <1>1, <1>2, <1>3, <1>4

\* The sink loses a record of the activation in flight, or takes it without its
\* confirmation, or a signal came while it took it.
LEMMA RecordLost ==
  ASSUME RunInv, pc \in Inside, pc # "work", pc' = "clean", Thrown(failure'),
         UNCHANGED <<pipeline, at, count, session, digest, gate, exit, sessions, result,
                     intact, refused>>,
         stored' = current', poisoned' \in BOOLEAN,
         NEW e, NEW a, Moved(current, e, a), Told(a, sessions), a.phase \notin Finished,
         current' \in {current, e}
  PROVE  RunInv'
<1>1. /\ current # None /\ current \in Document /\ current.status = "active"
      /\ Active(current) /\ InFlight(current) /\ Truthful(current, sessions)
  BY InFlightThere
<1>2. \A i \in 1..(LastIndex(current) - 1) :
        session # None => current.activations[i].session # session
  BY DEF RunInv, Flying
<1>3. CASE current' = current
  BY <1>1, <1>2, <1>3, LostInside
<1>4. CASE current' = e
  <2>1. /\ Truthful(e, sessions) /\ InFlight(e)
        /\ \A i \in 1..(LastIndex(e) - 1) : e.activations[i] = current.activations[i]
    BY <1>1, MovedTruthful
  <2>2. /\ e \in Document /\ Active(e) /\ e.budget = current.budget
        /\ LastIndex(e) = LastIndex(current) /\ e.status = "active"
    BY DEF Moved, SameOrigin, Active, Facts
  <2>3. QED
    BY <1>2, <1>4, <2>1, <2>2, LostInside
<1>5. QED
  BY <1>3, <1>4

\* The sink takes a record of the activation in flight, and the activation goes on.
LEMMA RecordTaken ==
  ASSUME RunInv, failure' = failure,
         <<pc, pc'>> \in {<<"record_session", "pull">>, <<"announce", "launch">>,
                          <<"accept", "clean">>},
         UNCHANGED <<pipeline, at, count, session, gate, exit, sessions, result,
                     intact, refused>>,
         digest' \in Maybe(Nat), stored' = current', poisoned' = FALSE,
         NEW a, Moved(current, current', a), Told(a, sessions),
         a.state = at, a.session = session,
         a.phase = CASE pc = "record_session" -> "session_created"
                     [] pc = "announce" -> "agent_running"
                     [] OTHER -> "result_accepted",
         pc = "accept" => digest' = session /\ a.digest = session
  PROVE  RunInv'
<1> USE DEF Opening, Recorded, Working, Inside, Outside, Over, Quiet, Held, Accepted
<1>1. /\ pc \in {"record_session", "announce", "accept"}
      /\ pc' \in {"pull", "launch", "clean"}
      /\ pc = "record_session" <=> pc' = "pull"
      /\ pc = "announce" <=> pc' = "launch"
      /\ pc = "accept" <=> pc' = "clean"
  OBVIOUS
<1>2. /\ current # None /\ current \in Document /\ current.status = "active"
      /\ Active(current) /\ InFlight(current) /\ Truthful(current, sessions)
      /\ failure = None /\ ~gate.cleanup /\ exit = None
  BY <1>1, InFlightThere
<1>3. /\ Truthful(current', sessions) /\ current' # None
      /\ \A i \in 1..(LastIndex(current') - 1) :
           current'.activations[i] = current.activations[i]
      /\ a.phase \in {"session_created", "agent_running", "result_accepted"}
      /\ InFlight(current')
  <2>1. a.phase \in {"session_created", "agent_running", "result_accepted"}
    BY <1>1
  <2>2. QED
    BY <1>2, <2>1, MovedTruthful DEF Finished
<1>4. /\ current' \in Document /\ Active(current') /\ current'.budget = current.budget
      /\ current'.cursor = current.cursor /\ current'.count = current.count
      /\ LastIndex(current') = LastIndex(current) /\ current'.status = "active"
      /\ Last(current'.activations) = a
  BY DEF Moved, SameOrigin, SameWalk, Active, Facts
<1>5. Variables'
  BY ZenonT(30), <1>1, <1>4 DEF RunInv, Variables, PointsOfRunner, Maybe
<1>6. Present' /\ Kept'
  BY <1>1, <1>2, <1>3, <1>4 DEF RunInv, Present, Kept
<1>7. Failing' /\ Walking'
  BY <1>1, <1>2, <1>4, NoneAssumption DEF RunInv, Failing, Walking, FailureReasons
<1>8. Flying'
  <2>1. \A i \in 1..(LastIndex(current) - 1) :
          session # None => current.activations[i].session # session
    BY <1>1 DEF RunInv, Flying
  <2>2. QED
    BY <1>1, <1>2, <1>3, <1>4, <2>1 DEF Flying
<1>9. Hosting'
  BY <1>1, <1>2 DEF RunInv, Hosting
<1>10. Refusing'
  BY <1>1, <1>2 DEF RunInv, Refusing
<1>11. OutcomeAgrees'
  BY <1>2, <1>4, NoneAssumption DEF OutcomeAgrees, FailureReasons
<1>12. QED
  BY <1>3, <1>5, <1>6, <1>7, <1>8, <1>9, <1>10, <1>11 DEF RunInv

\* What an answer to a command that is admitted leaves.
LEMMA Answered ==
  ASSUME RunInv, pc \in Inside \cup {"confirm", "commit", "start", "terminal"},
         NEW c, NEW answer, Dispatch(c, answer), Admits(current, c)
  PROVE  /\ stored' = current' /\ poisoned' \in BOOLEAN /\ refused' = refused
         /\ answer = "done" => current' = Reduce(current, c) /\ poisoned' = FALSE
         /\ answer # "done" => current' \in {current, Reduce(current, c)}
<1>1. current # None /\ stored = current /\ poisoned \in BOOLEAN
  BY StillActive DEF Inside, Opening, Recorded, Working
<1>2. QED
  BY <1>1, Dispatched

\* The session in flight is recorded: no activation has had it before.
LEMMA SessionStepKeeps ==
  ASSUME RunInv, RecordSessionCreated
  PROVE  RunInv'
<1> USE DEF Opening, Recorded, Working, Inside, Outside, Over, Quiet, Held, Accepted
<1> DEFINE last == Last(current.activations)
           c == [kind |-> "activation_session_created", session |-> session]
           a == [last EXCEPT !.session = session, !.phase = "session_created"]
           e == RecordSession(current, session)
<1>1. /\ pc = "record_session"
      /\ UNCHANGED <<pipeline, at, count, session, digest, gate, exit, sessions, result, intact>>
  BY DEF RecordSessionCreated, engine, host
<1>2. /\ current # None /\ current \in Document /\ current.status = "active"
      /\ Active(current) /\ InFlight(current) /\ Facts(current)
      /\ Told(last, sessions) /\ last \in Activations /\ ActivationCoherent(last)
      /\ last.state = at /\ failure = None /\ session \in Maybe(Nat)
  BY <1>1, InFlightThere DEF Active
<1>3. last.phase = "creating_session" /\ session # None /\ session \in DOMAIN sessions
  BY <1>1 DEF RunInv, Flying, Hosting
<1>4. session \in Nat
  BY <1>2, <1>3 DEF Maybe
<1>5. \A i \in DOMAIN current.activations : current.activations[i].session # session
  <2>1. last.session = None
    BY <1>2, <1>3 DEF ActivationCoherent
  <2>2. \A i \in 1..LastIndex(current) :
          i # LastIndex(current) => current.activations[i].session # session
    BY <1>1, <1>3, OthersTold
  <2>3. DOMAIN current.activations = 1..LastIndex(current)
        /\ last = current.activations[LastIndex(current)]
    BY <1>2, FlightFacts
  <2>4. QED
    BY <1>3, <2>1, <2>2, <2>3
<1>6. AdmitsSession(current, session)
  BY <1>2, <1>3, <1>5 DEF AdmitsSession
<1>7. Moved(current, e, a)
  BY <1>2, <1>4, <1>6, SessionMoves
<1>8. Admits(current, c) /\ Reduce(current, c) = e
  BY <1>2, <1>6, CommandIs
<1>9. /\ a.state = at /\ a.session = session /\ a.phase = "session_created"
      /\ a.digest = None
  BY <1>2, <1>3 DEF Activations, ActivationCoherent, Unaccepted
<1> HIDE DEF a, e
<1>10. Told(a, sessions) /\ a.phase \notin Finished
  BY <1>3, <1>9 DEF Told, Finished
<1>11. PICK answer \in AllAnswers :
         /\ Dispatch(c, answer)
         /\ IF answer = "done" THEN CheckAbort("pull", "clean")
            ELSE Throw("state_persist_failed", "clean")
  BY DEF RecordSessionCreated, Record
<1> HIDE DEF c
<1>12. /\ stored' = current' /\ poisoned' \in BOOLEAN /\ refused' = refused
       /\ answer = "done" => current' = e /\ poisoned' = FALSE
       /\ answer # "done" => current' \in {current, e}
  BY <1>1, <1>8, <1>11, Answered
<1>13. CASE answer = "done" /\ ~Aborted
  <2>1. pc' = "pull" /\ failure' = failure
    BY <1>11, <1>13 DEF CheckAbort, Goto
  <2>2. digest' \in Maybe(Nat)
    BY <1>1 DEF RunInv, Variables
  <2>3. QED
    BY <1>1, <1>7, <1>9, <1>10, <1>12, <1>13, <2>1, <2>2, RecordTaken
<1>14. CASE ~(answer = "done" /\ ~Aborted)
  <2>1. pc' = "clean" /\ Thrown(failure')
    BY <1>11, <1>14, FileThrown, AbortThrown DEF CheckAbort, Throw
  <2>2. QED
    BY <1>1, <1>7, <1>10, <1>12, <2>1, RecordLost
<1>15. QED
  BY <1>13, <1>14

\* The agent is recorded as running before it is launched.
LEMMA RunningStepKeeps ==
  ASSUME RunInv, RecordRunning
  PROVE  RunInv'
<1> USE DEF Opening, Recorded, Working, Inside, Outside, Over, Quiet, Held, Accepted
<1> DEFINE last == Last(current.activations)
           c == [kind |-> "activation_agent_running"]
           a == [last EXCEPT !.phase = "agent_running"]
           e == RecordAgentRunning(current)
<1>1. /\ pc = "announce"
      /\ UNCHANGED <<pipeline, at, count, session, digest, gate, exit, sessions, result, intact>>
  BY DEF RecordRunning, engine, host
<1>2. /\ current # None /\ current \in Document /\ current.status = "active"
      /\ Active(current) /\ InFlight(current)
      /\ Told(last, sessions) /\ last \in Activations /\ ActivationCoherent(last)
      /\ last.state = at /\ failure = None
  BY <1>1, InFlightThere
<1>3. last.phase = "session_created" /\ last.session = session
  BY <1>1 DEF RunInv, Flying
<1>4. AdmitsAgentRunning(current)
  BY <1>2, <1>3 DEF AdmitsAgentRunning
<1>5. Moved(current, e, a)
  BY <1>2, <1>4, AgentMoves
<1>6. Admits(current, c) /\ Reduce(current, c) = e
  BY <1>2, <1>4, CommandIs
<1>7. /\ a.state = at /\ a.session = session /\ a.phase = "agent_running"
      /\ a.digest = last.digest
  BY <1>2, <1>3 DEF Activations
<1> HIDE DEF a, e
<1>8. Told(a, sessions) /\ a.phase \notin Finished
  BY <1>2, <1>3, <1>7 DEF Told, Finished
<1>9. PICK answer \in AllAnswers :
         /\ Dispatch(c, answer)
         /\ IF answer = "done" THEN Goto("launch") ELSE Throw("state_persist_failed", "clean")
  BY DEF RecordRunning, Record
<1> HIDE DEF c
<1>10. /\ stored' = current' /\ poisoned' \in BOOLEAN /\ refused' = refused
       /\ answer = "done" => current' = e /\ poisoned' = FALSE
       /\ answer # "done" => current' \in {current, e}
  BY <1>1, <1>6, <1>9, Answered
<1>11. CASE answer = "done"
  <2>1. pc' = "launch" /\ failure' = failure
    BY <1>9, <1>11 DEF Goto
  <2>2. digest' \in Maybe(Nat)
    BY <1>1 DEF RunInv, Variables
  <2>3. QED
    BY <1>1, <1>5, <1>7, <1>8, <1>10, <1>11, <2>1, <2>2, RecordTaken
<1>12. CASE answer # "done"
  <2>1. pc' = "clean" /\ Thrown(failure')
    BY <1>9, <1>12, FileThrown DEF Throw
  <2>2. QED
    BY <1>1, <1>5, <1>8, <1>10, <1>12, <2>1, RecordLost
<1>13. QED
  BY <1>11, <1>12

\* The result is recorded of a worker that ended by itself in time.
LEMMA AcceptedStepKeeps ==
  ASSUME RunInv, RecordAccepted
  PROVE  RunInv'
<1> USE DEF Opening, Recorded, Working, Inside, Outside, Over, Quiet, Held, Accepted
<1> DEFINE last == Last(current.activations)
           c == [kind |-> "activation_result_accepted", digest |-> session]
           a == [last EXCEPT !.phase = "result_accepted", !.digest = session]
           e == RecordResult(current, session)
<1>1. /\ pc = "accept"
      /\ UNCHANGED <<pipeline, at, count, session, gate, exit, sessions, result, intact>>
      /\ digest' = IF failure' = None THEN session ELSE digest
  BY DEF RecordAccepted, engine, host
<1>2. /\ current # None /\ current \in Document /\ current.status = "active"
      /\ Active(current) /\ InFlight(current)
      /\ Told(last, sessions) /\ last \in Activations /\ ActivationCoherent(last)
      /\ last.state = at /\ failure = None /\ session \in Maybe(Nat)
  BY <1>1, InFlightThere
<1>3. /\ last.phase = "agent_running" /\ last.session = session /\ session # None
      /\ session \in DOMAIN sessions
      /\ sessions[session].worker = "exited_0" /\ sessions[session].cause # "timeout"
  BY <1>1 DEF RunInv, Flying, Hosting
<1>4. session \in Nat
  BY <1>2, <1>3 DEF Maybe
<1>5. AdmitsResult(current)
  BY <1>2, <1>3 DEF AdmitsResult
<1>6. Moved(current, e, a)
  BY <1>2, <1>4, <1>5, ResultMoves
<1>7. Admits(current, c) /\ Reduce(current, c) = e
  BY <1>2, <1>5, CommandIs
<1>8. /\ a.state = at /\ a.session = session /\ a.phase = "result_accepted"
      /\ a.digest = session
  BY <1>2, <1>3 DEF Activations
<1> HIDE DEF a, e
<1>9. Told(a, sessions) /\ a.phase \notin Finished
  BY <1>3, <1>8 DEF Told, Finished
<1>10. PICK answer \in AllAnswers :
         /\ Dispatch(c, answer)
         /\ IF answer = "done" THEN Goto("clean") ELSE Throw("state_persist_failed", "clean")
  BY DEF RecordAccepted, Record
<1> HIDE DEF c
<1>11. /\ stored' = current' /\ poisoned' \in BOOLEAN /\ refused' = refused
       /\ answer = "done" => current' = e /\ poisoned' = FALSE
       /\ answer # "done" => current' \in {current, e}
  BY <1>1, <1>7, <1>10, Answered
<1>12. CASE answer = "done"
  <2>1. pc' = "clean" /\ failure' = failure /\ digest' = session
    BY <1>1, <1>2, <1>10, <1>12 DEF Goto
  <2>2. QED
    BY <1>1, <1>2, <1>6, <1>8, <1>9, <1>11, <1>12, <2>1, RecordTaken
<1>13. CASE answer # "done"
  <2>1. pc' = "clean" /\ Thrown(failure') /\ failure' = "state_persist_failed"
    BY <1>10, <1>13, FileThrown DEF Throw
  <2>2. digest' = digest
    BY <1>1, <2>1, NoneAssumption DEF FailureReasons
  <2>3. QED
    BY <1>1, <1>6, <1>9, <1>11, <1>13, <2>1, <2>2, RecordLost
<1>14. QED
  BY <1>12, <1>13

\* The cleanup is recorded of a session that is gone; its transition is next.
LEMMA CleanupStepKeeps ==
  ASSUME RunInv, RecordCleanupCompleted
  PROVE  RunInv'
<1> USE DEF Opening, Recorded, Working, Inside, Outside, Over, Quiet, Held, Accepted
<1> DEFINE last == Last(current.activations)
           c == [kind |-> "activation_cleanup_completed"]
           a == [last EXCEPT !.phase = "session_cleanup_completed", !.cleanup = "completed"]
           e == RecordCleanup(current)
<1>1. /\ pc = "confirm"
      /\ UNCHANGED <<pipeline, at, count, session, digest, gate, exit, sessions, result, intact>>
  BY DEF RecordCleanupCompleted, engine, host
<1>2. /\ current # None /\ current \in Document /\ current.status = "active"
      /\ Active(current) /\ InFlight(current) /\ Facts(current)
      /\ Truthful(current, sessions) /\ Told(last, sessions)
      /\ last \in Activations /\ ActivationCoherent(last)
      /\ last.state = at /\ failure = None /\ ~gate.cleanup /\ exit = None
  BY <1>1, InFlightThere DEF Active
<1>3. /\ last.phase = "result_accepted" /\ last.session = session /\ session # None
      /\ last.digest = digest /\ ~sessions[session].live
  BY <1>1 DEF RunInv, Flying, Hosting
<1>4. AdmitsCleanup(current)
  BY <1>2, <1>3 DEF AdmitsCleanup
<1>5. Moved(current, e, a)
  BY <1>2, <1>4, CleanupMoves
<1>6. Admits(current, c) /\ Reduce(current, c) = e
  BY <1>2, <1>4, CommandIs
<1>7. /\ a.state = at /\ a.session = session /\ a.phase = "session_cleanup_completed"
      /\ a.digest = last.digest
  BY <1>2, <1>3 DEF Activations
<1> HIDE DEF a, e
<1>8. Told(a, sessions)
  BY <1>2, <1>3, <1>7 DEF Told
<1>9. /\ Truthful(e, sessions) /\ e # None /\ e \in Document /\ Active(e)
      /\ e.budget = current.budget /\ e.cursor = current.cursor /\ e.count = current.count
      /\ e.terminal = current.terminal /\ e.status = "active"
      /\ Last(e.activations) = a /\ LastIndex(e) = LastIndex(current)
      /\ e.transitions = current.transitions
  BY <1>2, <1>5, <1>8, MovedTruthful DEF Moved, SameOrigin, SameWalk, Active, Facts
<1>10. ~Settled(e) /\ e.terminal = None
  BY <1>2, <1>9, FlightFacts DEF Settled
<1>11. PICK answer \in AllAnswers :
         /\ Dispatch(c, answer)
         /\ IF answer = "done" THEN Goto("commit") ELSE Throw("state_persist_failed", "freeze")
  BY DEF RecordCleanupCompleted, Record
<1> HIDE DEF c
<1>12. /\ stored' = current' /\ poisoned' \in BOOLEAN /\ refused' = refused
       /\ answer = "done" => current' = e /\ poisoned' = FALSE
       /\ answer # "done" => current' \in {current, e}
  BY <1>1, <1>6, <1>11, Answered
<1>13. CASE answer = "done"
  <2>1. pc' = "commit" /\ failure' = failure /\ current' = e /\ poisoned' = FALSE
    BY <1>11, <1>12, <1>13 DEF Goto
  <2>2. Variables'
    BY <1>1, <1>9, <1>12, <2>1 DEF RunInv, Variables, PointsOfRunner, Maybe
  <2>3. Present' /\ Kept'
    BY <1>1, <1>9, <2>1 DEF RunInv, Present, Kept
  <2>4. Failing' /\ Walking'
    BY <1>1, <1>2, <1>9, <2>1, NoneAssumption DEF RunInv, Failing, Walking, FailureReasons
  <2>5. Flying'
    BY <1>1, <1>3, <1>7, <1>9, <1>10, <2>1 DEF Flying
  <2>6. Hosting'
    BY <1>1, <1>2, <1>3, <2>1 DEF RunInv, Hosting
  <2>7. Refusing'
    BY <1>1, <1>2, <1>12 DEF RunInv, Refusing
  <2>8. OutcomeAgrees'
    BY <1>1, <1>2, <1>9, <1>12, <2>1, NoneAssumption DEF OutcomeAgrees, FailureReasons
  <2>9. QED
    BY <1>1, <1>9, <2>1, <2>2, <2>3, <2>4, <2>5, <2>6, <2>7, <2>8 DEF RunInv
<1>14. CASE answer # "done"
  <2>1. pc' = "freeze" /\ Thrown(failure')
    BY <1>11, <1>14, FileThrown DEF Throw
  <2>2. /\ current' \in Document /\ current'.status = "active" /\ Active(current')
        /\ current'.budget = current.budget /\ Truthful(current', sessions)
    BY <1>2, <1>9, <1>12, <1>14
  <2>3. result \in Results
    BY DEF RunInv, Variables
  <2>4. QED
    BY <1>1, <1>12, <2>1, <2>2, <2>3, LostOutside
<1>15. QED
  BY <1>13, <1>14

\* The failure of an activation is recorded, lost, or refused because the session
\* whose deletion failed was never recorded.
LEMMA FailedStepKeeps ==
  ASSUME RunInv, RecordActivationFailed
  PROVE  RunInv'
<1> USE DEF Opening, Recorded, Working, Inside, Outside, Over, Quiet, Held, Accepted
<1> DEFINE last == Last(current.activations)
           r == IF pc = "fail" THEN Classify(failure, gate.abort) ELSE "session_cleanup_failed"
           o == IF pc = "fail" THEN "completed" ELSE "failed"
           c == [kind |-> "activation_failed", reason |-> r, cleanup |-> o]
           a == [last EXCEPT !.phase = "failed", !.reason = r, !.cleanup = o]
           e == RecordFailure(current, r, o)
<1>1. /\ pc \in {"fail", "fail_cleanup"} /\ pc' = "freeze" /\ failure' = failure
      /\ UNCHANGED <<pipeline, at, count, session, digest, gate, exit, sessions, result, intact>>
  BY DEF RecordActivationFailed, Goto, engine, host
<1>2. /\ current # None /\ current \in Document /\ stored = current
      /\ current.status = "active" /\ Active(current) /\ Facts(current)
      /\ Truthful(current, sessions) /\ exit = None /\ poisoned \in BOOLEAN
      /\ Admitted(pipeline) /\ current.budget = pipeline.max_transitions
  BY <1>1, StillActive
<1>3. /\ InFlight(current) /\ failure # None /\ failure \in Maybe(Causes)
      /\ gate.cleanup = (pc = "fail_cleanup") /\ refused = {}
      /\ gate.abort \in Maybe({"SIGINT", "SIGTERM"})
  BY <1>1 DEF RunInv, Flying, Failing, Variables, Gates, Refusing
<1>4. /\ r \in FailureReasons /\ o \in {"completed", "failed"}
      /\ pc = "fail" => r # "session_cleanup_failed" /\ o = "completed"
      /\ pc = "fail_cleanup" => o = "failed"
  BY <1>1, <1>3, NoneAssumption
     DEF Classify, SignalReason, Maybe, Causes, FailureReasons
<1>5. /\ last \in Activations
      /\ current.activations # <<>>
  BY <1>2, <1>3, FlightRecord DEF InFlight
<1>6. c.kind = "activation_failed"
  OBVIOUS
<1>7. PICK answer \in AllAnswers : Dispatch(c, answer)
  BY DEF RecordActivationFailed
<1> HIDE DEF r, o
<1>8. /\ Admits(current, c) = (current.status = "active" /\ AdmitsFailure(current, r, o))
      /\ Reduce(current, c) = e
  BY DEF Admits, Reduce
<1>9. AdmitsFailure(current, r, o) => Moved(current, e, a)
  BY <1>2, <1>4, FailureMoves
<1>10. ~AdmitsFailure(current, r, o) => pc = "fail_cleanup" /\ last.session = None
  BY <1>1, <1>3, <1>4 DEF AdmitsFailure
<1>11. /\ a.session = last.session /\ a.digest = last.digest /\ a.phase = "failed"
  BY <1>5 DEF Activations
<1> HIDE DEF c, a, e
<1>12. /\ stored' = current' /\ poisoned' \in BOOLEAN
       /\ refused' = {} \/ (refused' = {"activation_failed"} /\ ~AdmitsFailure(current, r, o))
       /\ current' = current \/ (current' = e /\ AdmitsFailure(current, r, o))
  BY <1>2, <1>3, <1>6, <1>7, <1>8, Dispatched
<1>13. Told(a, sessions)
  BY <1>2, <1>3, <1>11, FlightFacts DEF Truthful, Told
<1>14. /\ current' # None /\ current' \in Document /\ current'.status = "active"
       /\ Active(current') /\ current'.budget = current.budget /\ Truthful(current', sessions)
       /\ current'.activations # <<>>
       /\ Last(current'.activations).session = last.session
  <2>1. CASE current' = current
    BY <1>2, <1>5, <2>1
  <2>2. CASE current' = e /\ AdmitsFailure(current, r, o)
    BY <1>2, <1>9, <1>11, <1>13, <2>2, MovedTruthful DEF Moved, SameOrigin, Active, Facts
  <2>3. QED
    BY <1>12, <2>1, <2>2
<1>15. Variables'
  BY <1>1, <1>12, <1>14 DEF RunInv, Variables, PointsOfRunner, Maybe
<1>16. Present' /\ Kept'
  BY <1>1, <1>2, <1>14 DEF RunInv, Present, Kept
<1>17. Failing' /\ Walking'
  BY <1>1, <1>3 DEF RunInv, Failing, Walking, Aborted
<1>18. Flying' /\ Hosting'
  BY <1>1 DEF RunInv, Flying, Hosting
<1>19. Refusing'
  BY <1>1, <1>3, <1>10, <1>12, <1>14 DEF Refusing
<1>20. OutcomeAgrees'
  BY <1>1, <1>2, <1>3, <1>12, <1>14, NoneAssumption
     DEF OutcomeAgrees, Maybe, Causes, FailureReasons
<1>21. QED
  BY <1>1, <1>14, <1>15, <1>16, <1>17, <1>18, <1>19, <1>20 DEF RunInv

\* The transition of an activation whose session is gone: the engine's cursor
\* moves with the document's.
LEMMA CommitStepKeeps ==
  ASSUME RunInv, Commit
  PROVE  RunInv'
<1> USE DEF Opening, Recorded, Working, Inside, Outside, Over, Quiet, Held, Accepted
<1> DEFINE match == ResolveTransition(pipeline, at, "completed")
           step == match[1]
           k == LastIndex(current)
           c == [kind |-> "transition_committed", step |-> step, index |-> k, digest |-> digest]
           e == CommitTransition(current, step, k, digest)
<1>1. /\ pc = "commit"
      /\ UNCHANGED <<pipeline, session, digest, gate, exit, sessions, result, intact>>
  BY DEF Commit, host
<1>2. /\ current # None /\ current \in Document /\ stored = current
      /\ current.status = "active" /\ Active(current) /\ Facts(current)
      /\ Truthful(current, sessions) /\ exit = None /\ poisoned \in BOOLEAN
      /\ Admitted(pipeline) /\ pipeline \in Pipelines
      /\ current.budget = pipeline.max_transitions
  BY <1>1, StillActive
<1>3. /\ failure = None /\ ~gate.cleanup
      /\ at = current.cursor /\ at \in Ids(pipeline) /\ count = current.count /\ count \in Nat
      /\ State(pipeline, at).type = "agent" /\ count < pipeline.max_transitions
      /\ Last(current.activations).state = at /\ Last(current.activations).digest = digest
      /\ Last(current.activations).phase = "session_cleanup_completed"
      /\ ~Settled(current) /\ current.terminal = None
  BY <1>1 DEF RunInv, Failing, Walking, Flying, Variables
<1>4. match # <<>> /\ step \in Steps /\ step.from = at /\ step.to \in Ids(pipeline)
  BY <1>2, <1>3, AgentStep
<1>5. AdmitsTransition(current, step, k, digest)
  <2>1. current.activations # <<>>
    <3>1. current.activations \in Seq(Activations) /\ current.transitions \in Seq(Transitions)
      BY <1>2, DocumentFields
    <3>2. LastIndex(current) \in {Len(current.transitions), Len(current.transitions) + 1}
      BY <1>2 DEF Facts
    <3>3. Len(current.activations) # 0
      BY <1>3, <3>1, <3>2 DEF Settled, LastIndex
    <3>4. QED
      BY <3>1, <3>3
  <2>2. current.phase = "running"
    BY <1>2, <1>3, <2>1 DEF Facts
  <2>3. QED
    BY <1>2, <1>3, <1>4, <2>1, <2>2 DEF AdmitsTransition
<1> HIDE DEF match, step, k
<1>6. /\ e \in Document /\ Active(e) /\ Settled(e) /\ SameOrigin(current, e)
      /\ e.activations = current.activations /\ e.terminal = None
      /\ e.cursor = step.to /\ e.count = current.count + 1
  BY <1>2, <1>3, <1>4, <1>5, CommitKeeps
<1>7. Admits(current, c) /\ Reduce(current, c) = e
  BY <1>2, <1>5, CommandIs
<1>8. /\ e # None /\ e.status = "active" /\ e.budget = current.budget
      /\ Truthful(e, sessions)
  BY <1>2, <1>6, DocumentFields DEF SameOrigin, Active, Facts, Truthful
<1>9. PICK answer \in AllAnswers :
        /\ Dispatch(c, answer)
        /\ IF answer = "done"
           THEN Goto("turn") /\ at' = step.to /\ count' = count + 1
           ELSE Throw("state_persist_failed", "freeze") /\ UNCHANGED engine
  BY <1>4 DEF Commit, match, step, k
<1> HIDE DEF c, e
<1>10. /\ stored' = current' /\ poisoned' \in BOOLEAN /\ refused' = refused
       /\ answer = "done" => current' = e /\ poisoned' = FALSE
       /\ answer # "done" => current' \in {current, e}
  BY <1>1, <1>7, <1>9, Answered
<1>11. CASE answer = "done"
  <2>1. /\ pc' = "turn" /\ failure' = failure /\ current' = e /\ poisoned' = FALSE
        /\ at' = step.to /\ count' = count + 1
    BY <1>9, <1>10, <1>11 DEF Goto
  <2>2. Variables'
    BY <1>1, <1>3, <1>6, <1>10, <2>1 DEF RunInv, Variables, PointsOfRunner, Maybe
  <2>3. Present' /\ Kept'
    BY <1>1, <1>2, <1>6, <1>8, <2>1 DEF RunInv, Present, Kept
  <2>4. Failing'
    BY <1>1, <1>3, <2>1, NoneAssumption DEF Failing, FailureReasons
  <2>5. Walking'
    BY <1>1, <1>3, <1>4, <1>6, <2>1 DEF Walking
  <2>6. Flying' /\ Hosting'
    BY <1>1, <1>3, <2>1 DEF RunInv, Flying, Hosting
  <2>7. Refusing'
    BY <1>1, <1>3, <1>10 DEF RunInv, Refusing
  <2>8. OutcomeAgrees'
    BY <1>1, <1>2, <1>3, <1>8, <1>10, <2>1, NoneAssumption DEF OutcomeAgrees, FailureReasons
  <2>9. QED
    BY <1>1, <1>8, <2>1, <2>2, <2>3, <2>4, <2>5, <2>6, <2>7, <2>8 DEF RunInv
<1>12. CASE answer # "done"
  <2>1. pc' = "freeze" /\ Thrown(failure') /\ UNCHANGED <<at, count>>
    BY <1>9, <1>12, FileThrown DEF Throw, engine
  <2>2. /\ current' \in Document /\ current'.status = "active" /\ Active(current')
        /\ current'.budget = current.budget /\ Truthful(current', sessions)
    BY <1>2, <1>6, <1>8, <1>10, <1>12
  <2>3. result \in Results
    BY DEF RunInv, Variables
  <2>4. QED
    BY <1>1, <1>10, <2>1, <2>2, <2>3, LostOutside
<1>13. QED
  BY <1>11, <1>12

\* The terminal the engine reached is recorded: the run succeeds only at one that
\* says so.
LEMMA TerminalStepKeeps ==
  ASSUME RunInv, RecordTerminal
  PROVE  RunInv'
<1> USE DEF Opening, Recorded, Working, Inside, Outside, Over, Quiet, Held, Accepted
<1> DEFINE reached == State(pipeline, at).result
           c == [kind |-> "terminal_reached", state |-> at, result |-> reached]
           e == ReachTerminal(current, at, reached)
<1>1. /\ pc = "terminal"
      /\ UNCHANGED <<pipeline, at, count, session, digest, gate, exit, sessions, result, intact>>
  BY DEF RecordTerminal, host, engine
<1>2. /\ current # None /\ current \in Document /\ stored = current
      /\ current.status = "active" /\ Active(current) /\ Facts(current)
      /\ Truthful(current, sessions) /\ exit = None /\ poisoned \in BOOLEAN
      /\ Admitted(pipeline) /\ pipeline \in Pipelines
      /\ current.budget = pipeline.max_transitions
  BY <1>1, StillActive
<1>3. /\ failure = None /\ ~gate.cleanup
      /\ at = current.cursor /\ at \in Ids(pipeline)
      /\ State(pipeline, at).type = "terminal"
      /\ Settled(current) /\ current.terminal = None
  BY <1>1 DEF RunInv, Failing, Walking
<1>4. reached \in {"success", "failed"} /\ at \in Names
  BY <1>2, <1>3, StateType, StateIs
<1>5. AdmitsTerminal(current, at)
  <2>1. current.activations \in Seq(Activations) /\ current.transitions \in Seq(Transitions)
    BY <1>2, DocumentFields
  <2>2. Len(current.activations) <= Len(current.transitions)
    BY <1>3, <2>1 DEF Settled, LastIndex
  <2>3. current.phase \in {"validating", "running"}
    BY <1>2, <1>3 DEF Facts
  <2>4. current.activations # <<>> =>
          Last(current.activations).phase = "session_cleanup_completed"
    <3> SUFFICES ASSUME current.activations # <<>>
                 PROVE  Last(current.activations).phase = "session_cleanup_completed"
      OBVIOUS
    <3>1. /\ Len(current.activations) \in DOMAIN current.activations
          /\ Last(current.activations) = current.activations[Len(current.activations)]
      BY <2>1 DEF Last
    <3>2. QED
      BY <1>2, <1>3, <3>1, SettledFacts
  <2>5. QED
    BY <1>3, <2>2, <2>3, <2>4 DEF AdmitsTerminal
<1>6. /\ e \in Document /\ Active(e) /\ SameOrigin(current, e)
      /\ e.activations = current.activations
      /\ e.terminal # None /\ e.terminal.result = reached
  BY <1>2, <1>4, <1>5, TerminalKeeps
<1>7. Admits(current, c) /\ Reduce(current, c) = e
  BY ZenonT(30), <1>2, <1>5, CommandIs
<1>8. /\ e # None /\ e.status = "active" /\ e.budget = current.budget
      /\ Truthful(e, sessions)
  BY <1>2, <1>6, DocumentFields DEF SameOrigin, Active, Facts, Truthful
<1>9. PICK answer \in AllAnswers :
        /\ Dispatch(c, answer)
        /\ IF answer # "done" THEN Throw("state_persist_failed", "freeze")
           ELSE IF reached = "success" THEN Goto("freeze")
           ELSE Throw("execution_failed", "freeze")
  BY DEF RecordTerminal
<1> HIDE DEF reached, c, e
<1>10. /\ stored' = current' /\ poisoned' \in BOOLEAN /\ refused' = refused
       /\ answer = "done" => current' = e /\ poisoned' = FALSE
       /\ answer # "done" => current' \in {current, e}
  BY <1>1, <1>7, <1>9, Answered
<1>11. CASE answer = "done" /\ reached = "success"
  <2>1. pc' = "freeze" /\ failure' = failure /\ current' = e /\ poisoned' = FALSE
    BY <1>9, <1>10, <1>11 DEF Goto
  <2>2. Variables'
    BY <1>1, <1>6, <1>10, <2>1 DEF RunInv, Variables, PointsOfRunner, Maybe
  <2>3. Present' /\ Kept'
    BY <1>1, <1>2, <1>6, <1>8, <2>1 DEF RunInv, Present, Kept
  <2>4. Failing'
    BY <1>1, <1>3, <1>6, <1>8, <1>11, <2>1, NoneAssumption DEF Failing, FailureReasons
  <2>5. Walking' /\ Flying' /\ Hosting'
    BY <1>1, <1>3, <2>1 DEF RunInv, Walking, Flying, Hosting
  <2>6. Refusing'
    BY <1>1, <1>3, <1>10 DEF RunInv, Refusing
  <2>7. OutcomeAgrees'
    BY <1>1, <1>2, <1>3, <1>8, <1>10, <2>1, NoneAssumption DEF OutcomeAgrees, FailureReasons
  <2>8. QED
    BY <1>1, <1>8, <2>1, <2>2, <2>3, <2>4, <2>5, <2>6, <2>7 DEF RunInv
<1>12. CASE ~(answer = "done" /\ reached = "success")
  <2>1. pc' = "freeze" /\ Thrown(failure')
    BY <1>9, <1>12, FileThrown DEF Throw
  <2>2. /\ current' \in Document /\ current'.status = "active" /\ Active(current')
        /\ current'.budget = current.budget /\ Truthful(current', sessions)
    BY <1>2, <1>6, <1>8, <1>10
  <2>3. result \in Results
    BY DEF RunInv, Variables
  <2>4. QED
    BY <1>1, <1>10, <2>1, <2>2, <2>3, LostOutside
<1>13. QED
  BY <1>11, <1>12

-----------------------------------------------------------------------------
(* The making of the document and the last command.                        *)

\* The document of an admitted bundle's run.
LEMMA FreshDocument ==
  ASSUME NEW p \in Pipelines, Admitted(p)
  PROVE  LET e == CreateRun(p) IN
         /\ e \in Document /\ e # None /\ Active(e) /\ Settled(e) /\ e.status = "active"
         /\ e.cursor = p.entry_state /\ e.budget = p.max_transitions /\ e.count = 0
         /\ e.terminal = None
         /\ \A hosts : Truthful(e, hosts)
<1> DEFINE e == CreateRun(p)
<1>1. /\ e \in Document /\ Active(e) /\ Settled(e)
      /\ e.cursor = p.entry_state /\ e.budget = p.max_transitions /\ e.count = 0
      /\ e.terminal = None /\ e.activations = <<>>
  BY AdmittedGraph, CreateKeeps
<1> HIDE DEF e
<1>2. e # None /\ e.status = "active"
  BY <1>1, DocumentFields DEF Active, Facts
<1>3. \A hosts : Truthful(e, hosts)
  BY <1>1 DEF Truthful
<1>4. QED
  BY <1>1, <1>2, <1>3 DEF e

\* The document is made, or the run goes to the cutoff without one.
LEMMA InitializeKeeps ==
  ASSUME RunInv, Initialize
  PROVE  RunInv'
<1> USE DEF Opening, Recorded, Working, Inside, Outside, Over, Quiet, Held, Accepted
<1> DEFINE e == CreateRun(pipeline)
<1>1. /\ pc = "initialize"
      /\ UNCHANGED <<pipeline, at, count, session, digest, gate, exit, sessions, result, intact>>
  BY DEF Initialize, engine, host
<1>2. /\ stored = current /\ current = None /\ poisoned \in BOOLEAN /\ failure = None
      /\ ~gate.cleanup /\ exit = None /\ Admitted(pipeline) /\ pipeline \in Pipelines
      /\ count = 0 /\ pipeline.max_transitions \in Int
      /\ pipeline.entry_state \in Ids(pipeline)
  BY <1>1, AdmittedGraph DEF RunInv, Variables, Present, Failing, Walking
<1>3. /\ e \in Document /\ e # None /\ Active(e) /\ Settled(e) /\ e.status = "active"
      /\ e.cursor = pipeline.entry_state /\ e.budget = pipeline.max_transitions
      /\ e.count = 0 /\ e.terminal = None /\ Truthful(e, sessions)
  BY <1>2, FreshDocument
<1>4. PICK answer \in AllAnswers :
        /\ Create(answer)
        /\ IF answer = "done" THEN Goto("authorize")
           ELSE Throw("state_persist_failed", "freeze")
  BY DEF Initialize
<1> HIDE DEF e
<1>5. /\ stored' = current' /\ refused' = refused /\ poisoned' \in BOOLEAN
      /\ answer = "done" => current' = e /\ poisoned' = FALSE
      /\ answer # "done" => current' \in {None, e}
  BY <1>2, <1>4, Created DEF e
<1>6. /\ \/ pc' = "authorize" /\ failure' = None /\ current' = e /\ poisoned' = FALSE
         \/ pc' = "freeze" /\ failure' = "state_persist_failed"
      /\ current' \in {None, e}
  BY <1>2, <1>4, <1>5 DEF Goto, Throw
<1>7. Variables'
  BY <1>1, <1>3, <1>5, <1>6
     DEF RunInv, Variables, PointsOfRunner, Maybe, Causes, FailureReasons
<1>8. Present' /\ Kept'
  BY <1>1, <1>2, <1>3, <1>6 DEF RunInv, Present, Kept
<1>9. Failing' /\ Walking'
  BY <1>1, <1>2, <1>3, <1>6, NoneAssumption DEF RunInv, Failing, Walking, FailureReasons
<1>10. Flying' /\ Hosting'
  BY <1>1, <1>2, <1>6 DEF RunInv, Flying, Hosting
<1>11. (current # None => Truthful(current, sessions))' /\ Refusing'
  BY <1>1, <1>2, <1>3, <1>5, <1>6 DEF RunInv, Refusing
<1>12. OutcomeAgrees'
  BY <1>1, <1>2, <1>3, <1>5, <1>6, NoneAssumption DEF OutcomeAgrees, FailureReasons
<1>13. QED
  BY <1>7, <1>8, <1>9, <1>10, <1>11, <1>12 DEF RunInv

\* What each exit code says of the run.
LEMMA ExitCodes ==
  ASSUME RunInv, NEW cause
  PROVE  /\ ExitCode(cause) \in {0, 1, 130, 143}
         /\ ExitCode(cause) = 0 => ~gate.cleanup /\ ~Aborted /\ cause = None
         /\ ExitCode(cause) \in {130, 143} => ~gate.cleanup /\ Aborted
         /\ ~gate.cleanup /\ Aborted => ExitCode(cause) = SignalExitCode(gate.abort)
         /\ ~gate.cleanup /\ ~Aborted /\ cause = None => ExitCode(cause) = 0
BY DEF ExitCode, SignalExitCode

\* Finalize makes the document that was never made, or ends the run without one.
LEMMA ReinitializeKeeps ==
  ASSUME RunInv, Reinitialize
  PROVE  RunInv'
<1> USE DEF Opening, Recorded, Working, Inside, Outside, Over, Quiet, Held, Accepted
<1> DEFINE e == CreateRun(pipeline)
<1>1. /\ pc = "reinitialize"
      /\ UNCHANGED <<pipeline, at, count, session, digest, gate, sessions, result, intact>>
  BY DEF Reinitialize, engine, host
<1>2. /\ stored = current /\ current = None /\ poisoned \in BOOLEAN
      /\ failure # None /\ failure \in Maybe(Causes)
      /\ exit = None /\ Admitted(pipeline) /\ pipeline \in Pipelines
  BY <1>1 DEF RunInv, Variables, Present, Failing
<1>3. /\ e \in Document /\ e # None /\ Active(e) /\ e.status = "active"
      /\ e.budget = pipeline.max_transitions /\ Truthful(e, sessions)
  BY <1>2, FreshDocument
<1>4. PICK answer \in AllAnswers :
        /\ Create(answer)
        /\ IF answer = "done" THEN Goto("finalize") /\ UNCHANGED exit
           ELSE Leave(FinalizeFailed)
  BY DEF Reinitialize
<1> HIDE DEF e
<1>5. /\ stored' = current' /\ refused' = refused /\ poisoned' \in BOOLEAN
      /\ answer = "done" => current' = e
      /\ answer # "done" => current' \in {None, e}
  BY <1>2, <1>4, Created DEF e
<1>6. /\ \/ pc' = "finalize" /\ current' = e /\ exit' = None
         \/ pc' = "done" /\ exit' \in {1, 130, 143}
      /\ failure' = failure /\ current' \in {None, e}
  BY <1>2, <1>4, <1>5, ExitCodes DEF Goto, Leave, FinalizeFailed
<1>7. Variables'
  BY <1>1, <1>2, <1>3, <1>5, <1>6 DEF RunInv, Variables, PointsOfRunner, Maybe
<1>8. Present' /\ Kept'
  BY <1>1, <1>2, <1>3, <1>6 DEF RunInv, Present, Kept
<1>9. Failing' /\ Walking'
  BY <1>1, <1>2, <1>6 DEF RunInv, Failing, Walking, Aborted
<1>10. Flying' /\ Hosting'
  BY <1>1, <1>2, <1>6 DEF RunInv, Flying, Hosting
<1>11. (current # None => Truthful(current, sessions))' /\ Refusing'
  BY <1>1, <1>2, <1>3, <1>5, <1>6 DEF RunInv, Refusing
<1>12. OutcomeAgrees'
  BY <1>1, <1>2, <1>3, <1>5, <1>6, NoneAssumption
     DEF OutcomeAgrees, Maybe, Causes, FailureReasons
<1>13. QED
  BY <1>7, <1>8, <1>9, <1>10, <1>11, <1>12 DEF RunInv

\* An ending leaves the committed transitions with their activations.
LEMMA EndingWalk ==
  ASSUME NEW d \in Document, Facts(d), NEW status, NEW kind,
         NEW reason \in FailureReasons, NEW outcome, Unsuccessful(status, kind, reason, outcome)
  PROVE  CursorCoherent(Ending(d, status, kind, reason, outcome))
<1> DEFINE e == Ending(d, status, kind, reason, outcome)
           a == Marked(Last(d.activations), reason, outcome)
<1>1. /\ SameOrigin(d, e) /\ SameWalk(d, e)
      /\ e.activations =
           IF InFlight(d) THEN [d.activations EXCEPT ![LastIndex(d)] = a] ELSE d.activations
  BY EndingIs
<1> HIDE DEF e, a
<1>2. CursorCoherent(d)
  BY DEF Facts
<1>3. /\ e.transitions = d.transitions /\ e.entry = d.entry /\ e.budget = d.budget
      /\ e.cursor = d.cursor /\ e.count = d.count
  BY <1>1 DEF SameOrigin, SameWalk
<1>4. d.activations \in Seq(Activations) /\ d.transitions \in Seq(Transitions)
  BY DocumentFields
<1>5. DOMAIN e.activations = DOMAIN d.activations
  BY <1>1
<1>6. \A i \in DOMAIN d.transitions : e.activations[i] = d.activations[i]
  <2>1. CASE ~InFlight(d)
    BY <1>1, <2>1
  <2>2. CASE InFlight(d)
    <3>1. LastIndex(d) \in Nat /\ Len(d.transitions) = LastIndex(d) - 1
      BY <2>2, FlightFacts
    <3>2. LastIndex(d) \notin DOMAIN d.transitions
      BY <1>4, <3>1
    <3>3. QED
      BY <1>1, <2>2, <3>2
  <2>3. QED
    BY <2>1, <2>2
<1>7. \A i \in DOMAIN e.transitions : TransitionCoherent(e, i)
  BY <1>2, <1>3, <1>5, <1>6 DEF CursorCoherent, TransitionCoherent
<1>8. CursorCoherent(e)
  BY <1>2, <1>3, <1>7 DEF CursorCoherent
<1>9. QED
  BY <1>8 DEF e

\* What an ending leaves of the fields that do not depend on its activations.
LEMMA EndingFields ==
  ASSUME NEW d \in Document, Facts(d), NEW status, NEW kind,
         NEW reason \in FailureReasons, NEW outcome, Unsuccessful(status, kind, reason, outcome)
  PROVE  LET e == Ending(d, status, kind, reason, outcome) IN
         e \in Document /\ SameOrigin(d, e) /\ e.status = status /\ e.failure = reason
<1> DEFINE e == Ending(d, status, kind, reason, outcome)
<1>1. /\ e \in Document /\ SameOrigin(d, e) /\ SameWalk(d, e) /\ e.terminal = d.terminal
      /\ e.status = status /\ e.phase = "finished" /\ e.failure = reason
      /\ e.activations =
           IF InFlight(d)
           THEN [d.activations EXCEPT ![LastIndex(d)] =
                   Marked(Last(d.activations), reason, outcome)]
           ELSE d.activations
      /\ e.events = Append(d.events, Event(kind, <<>>))
      /\ InFlight(d) => Marked(Last(d.activations), reason, outcome) \in Activations
  BY EndingIs
<1> HIDE DEF e
<1>2. e \in Document /\ SameOrigin(d, e) /\ e.status = status /\ e.failure = reason
  BY <1>1
<1>3. QED
  BY <1>2 DEF e

\* What an ending says of the sessions is what the run said before it.
LEMMA RecordsTruthful ==
  ASSUME NEW d, NEW e, NEW hosts, SameRecords(d, e), Truthful(d, hosts)
  PROVE  Truthful(e, hosts)
BY DEF SameRecords, Truthful, Told

\* What the last command leaves of document d: its bundle's budget, its walk, its
\* records, and a document that loads but for one whose session was never recorded.
Closed(d, e) ==
  /\ e \in Document /\ e # None /\ e.budget = d.budget /\ CursorCoherent(e)
  /\ Loads(e) \/ SessionUnrecorded(e)
  /\ SameRecords(d, e)

\* The failure of a run closes its document.
LEMMA FailCloses ==
  ASSUME NEW d \in Document, Active(d), NEW reason \in FailureReasons
  PROVE  /\ Closed(d, Fail(d, reason))
         /\ Fail(d, reason).status = "failed" /\ Fail(d, reason).failure = reason
<1> DEFINE e == Ending(d, "failed", "run_failed", reason, "completed")
<1>1. Unsuccessful("failed", "run_failed", reason, "completed")
  BY DEF Unsuccessful
<1>2. Facts(d)
  BY DEF Active
<1>3. e \in Document /\ SameOrigin(d, e) /\ e.status = "failed" /\ e.failure = reason
  BY <1>1, <1>2, EndingFields
<1>4. CursorCoherent(e)
  BY <1>1, <1>2, EndingWalk
<1>5. Loads(e) \/ SessionUnrecorded(e)
  BY <1>1, EndingLoads
<1>6. SameRecords(d, e)
  BY <1>1, <1>2, EndingRecords
<1>7. Fail(d, reason) = e
  BY DEF Fail, Ending
<1> HIDE DEF e
<1>8. e # None
  BY <1>3, DocumentFields
<1>9. QED
  BY <1>3, <1>4, <1>5, <1>6, <1>7, <1>8 DEF Closed, SameOrigin

\* The end of a run whose cleanup failed.
LEMMA FailCleanupCloses ==
  ASSUME NEW d \in Document, Active(d)
  PROVE  LET e == FailCleanup(d, "session_cleanup_failed") IN
         Closed(d, e) /\ e.status = "cleanup_failed"
<1> DEFINE reason == "session_cleanup_failed"
           e == Ending(d, "cleanup_failed", "run_cleanup_failed", reason, "failed")
<1>1. /\ Unsuccessful("cleanup_failed", "run_cleanup_failed", reason, "failed")
      /\ reason \in FailureReasons
  BY DEF Unsuccessful, FailureReasons
<1>2. Facts(d)
  BY DEF Active
<1> HIDE DEF reason
<1>3. e \in Document /\ SameOrigin(d, e) /\ e.status = "cleanup_failed"
  BY <1>1, <1>2, EndingFields
<1>4. CursorCoherent(e)
  BY <1>1, <1>2, EndingWalk
<1>5. Loads(e) \/ SessionUnrecorded(e)
  BY <1>1, EndingLoads
<1>6. SameRecords(d, e)
  BY <1>1, <1>2, EndingRecords
<1>7. FailCleanup(d, reason) = e
  BY DEF FailCleanup, Ending
<1> HIDE DEF e
<1>8. e # None
  BY <1>3, DocumentFields
<1>9. Closed(d, e) /\ e.status = "cleanup_failed"
  BY <1>3, <1>4, <1>5, <1>6, <1>8 DEF Closed, SameOrigin
<1>10. QED
  BY <1>7, <1>9 DEF reason

\* The end of a run that succeeds.
LEMMA SucceedCloses ==
  ASSUME NEW d \in Document, Active(d), AdmitsSuccess(d)
  PROVE  Closed(d, Succeed(d)) /\ Succeed(d).status = "success"
<1> DEFINE e == Succeed(d)
<1>1. /\ e \in Document /\ Loads(e) /\ SameOrigin(d, e) /\ e.status = "success"
      /\ e.activations = d.activations
  BY SucceedKeeps
<1> HIDE DEF e
<1>2. e # None /\ CursorCoherent(e) /\ SameRecords(d, e)
  BY <1>1, DocumentFields DEF Loads, SameRecords
<1>3. QED
  BY <1>1, <1>2 DEF Closed, SameOrigin, e

\* The last command is never refused, and what it makes tells how the run went.
LEMMA FinalCloses ==
  ASSUME RunInv, pc = "finalize"
  PROVE  LET e == Reduce(current, FinalCommand) IN
         /\ Admits(current, FinalCommand)
         /\ Closed(current, e)
         /\ e.status = IF gate.cleanup THEN "cleanup_failed"
                       ELSE IF failure = None /\ ~Aborted THEN "success" ELSE "failed"
         /\ ~gate.cleanup /\ ~(failure = None /\ ~Aborted) =>
              e.failure = Classify(failure, gate.abort)
<1>1. /\ current # None /\ current \in Document /\ current.status = "active"
      /\ Active(current) /\ Facts(current)
  BY StillActive
<1>2. CASE gate.cleanup
  <2> DEFINE c == [kind |-> "run_cleanup_failed", reason |-> "session_cleanup_failed"]
  <2>1. FinalCommand = c
    BY <1>2 DEF FinalCommand
  <2>2. Admits(current, c) /\ Reduce(current, c) = FailCleanup(current, "session_cleanup_failed")
    BY <1>1, CommandIs
  <2>3. QED
    BY <1>1, <1>2, <2>1, <2>2, FailCleanupCloses
<1>3. CASE ~gate.cleanup /\ failure = None /\ ~Aborted
  <2> DEFINE c == [kind |-> "run_succeeded"]
  <2>1. FinalCommand = c
    BY <1>3 DEF FinalCommand
  <2>2. current.terminal # None /\ current.terminal.result = "success"
    BY <1>3 DEF RunInv, Failing
  <2>3. AdmitsSuccess(current)
    BY <1>1, <2>2 DEF AdmitsSuccess, Facts
  <2>4. Admits(current, c) /\ Reduce(current, c) = Succeed(current)
    BY <1>1, <2>3, CommandIs
  <2>5. QED
    BY <1>1, <1>3, <2>1, <2>3, <2>4, SucceedCloses
<1>4. CASE ~gate.cleanup /\ ~(failure = None /\ ~Aborted)
  <2> DEFINE r == Classify(failure, gate.abort)
             c == [kind |-> "run_failed", reason |-> r]
  <2>1. FinalCommand = c
    BY <1>4 DEF FinalCommand
  <2>2. r \in FailureReasons
    BY DEF RunInv, Variables, Maybe, Gates, Causes, Classify, SignalReason, FailureReasons
  <2> HIDE DEF r
  <2>3. Admits(current, c) /\ Reduce(current, c) = Fail(current, r)
    BY <1>1, CommandIs
  <2>4. QED
    BY <1>1, <1>4, <2>1, <2>2, <2>3, FailCloses DEF r
<1>5. QED
  BY <1>2, <1>3, <1>4

\* The run ends: its status, its exit code and what it leaves agree.
LEMMA FinalizeKeeps ==
  ASSUME RunInv, Finalize
  PROVE  RunInv'
<1> USE DEF Opening, Recorded, Working, Inside, Outside, Over, Quiet, Held, Accepted
<1> DEFINE c == FinalCommand
           e == Reduce(current, c)
<1>1. /\ pc = "finalize" /\ pc' = "done"
      /\ UNCHANGED <<pipeline, at, count, session, digest, gate, sessions, result, intact>>
  BY DEF Finalize, Leave, engine, host
<1>2. /\ current # None /\ current \in Document /\ stored = current
      /\ current.status = "active" /\ Active(current) /\ Truthful(current, sessions)
      /\ exit = None /\ poisoned \in BOOLEAN
      /\ Admitted(pipeline) /\ current.budget = pipeline.max_transitions
  BY <1>1, StillActive
<1>3. /\ Admits(current, c) /\ Closed(current, e)
      /\ e.status = IF gate.cleanup THEN "cleanup_failed"
                    ELSE IF failure = None /\ ~Aborted THEN "success" ELSE "failed"
      /\ ~gate.cleanup /\ ~(failure = None /\ ~Aborted) =>
           e.failure = Classify(failure, gate.abort)
  BY <1>1, FinalCloses
<1>4. PICK answer \in AllAnswers :
        /\ Dispatch(c, answer)
        /\ Leave(IF answer = "done" THEN failure ELSE FinalizeFailed)
  BY DEF Finalize
<1> HIDE DEF c, e
<1>5. /\ stored' = current' /\ refused' = refused /\ poisoned' \in BOOLEAN
      /\ answer \in {"done", "durability_unknown"} =>
           current' = e /\ poisoned' = (answer = "durability_unknown")
      /\ answer \notin {"done", "durability_unknown"} => current' = current
  BY <1>2, <1>3, <1>4, Dispatched DEF e
<1>6. /\ e \in Document /\ e # None /\ e.budget = current.budget /\ CursorCoherent(e)
      /\ Loads(e) \/ SessionUnrecorded(e)
      /\ SameRecords(current, e)
  BY <1>3 DEF Closed
<1>7. Truthful(e, sessions)
  BY <1>2, <1>6, RecordsTruthful
<1>8. current' \in {current, e} /\ current' # None /\ Truthful(current', sessions)
  BY <1>2, <1>5, <1>6, <1>7
<1> DEFINE cause == IF answer = "done" THEN failure ELSE FinalizeFailed
<1>9. failure' = cause /\ exit' = ExitCode(cause)
  BY <1>4 DEF Leave
<1>10. /\ failure \in Maybe(Causes) /\ cause \in Maybe(Causes)
       /\ failure # None => cause = failure
       /\ cause # failure => cause = "state_persist_failed"
       /\ answer # "done" => cause # None
       /\ answer = "done" => cause = failure
  BY NoneAssumption
     DEF RunInv, Variables, FinalizeFailed, Maybe, Causes, FailureReasons
<1> HIDE DEF cause
<1>11. /\ exit' \in {0, 1, 130, 143}
       /\ exit' = 0 => ~gate.cleanup /\ ~Aborted /\ cause = None
       /\ exit' \in {130, 143} => ~gate.cleanup /\ Aborted
       /\ ~gate.cleanup /\ Aborted => exit' = SignalExitCode(gate.abort)
       /\ ~gate.cleanup /\ ~Aborted /\ cause = None => exit' = 0
  BY <1>9, ExitCodes
<1>12. Variables'
  BY <1>1, <1>2, <1>5, <1>6, <1>8, <1>9, <1>10, <1>11
     DEF RunInv, Variables, PointsOfRunner, Maybe
<1>13. Present'
  BY <1>1, <1>2, <1>6, <1>8 DEF RunInv, Present
<1>14. Kept'
  <2>1. gate.cleanup \in BOOLEAN
    BY DEF RunInv, Variables, Gates
  <2>2. CASE current' = current
    BY <1>2, <2>2 DEF Kept
  <2>3. CASE current' = e
    <3>1. e.status # "active"
      BY <1>3
    <3>2. (e.status = "cleanup_failed") = gate.cleanup
      BY <1>3, <2>1
    <3>3. QED
      BY <1>1, <1>6, <2>3, <3>1, <3>2 DEF Kept
  <2>4. QED
    BY <1>8, <2>2, <2>3
<1>15. Failing'
  <2>1. failure \in {"signal_sigint", "signal_sigterm"} => Aborted
    BY DEF RunInv, Failing
  <2>2. failure = "worker_timeout" => \E i \in DOMAIN sessions : sessions[i].cause = "timeout"
    BY DEF RunInv, Failing
  <2>3. QED
    BY <1>1, <1>9, <1>10, <2>1, <2>2 DEF Failing, Aborted
<1>16. Walking' /\ Flying' /\ Hosting'
  BY <1>1 DEF RunInv, Walking, Flying, Hosting
<1>17. Refusing'
  <2>1. ASSUME refused # {}
        PROVE  /\ refused = {"activation_failed"} /\ gate.cleanup
               /\ current'.activations # <<>> /\ Last(current'.activations).session = None
    <3>1. /\ refused = {"activation_failed"} /\ gate.cleanup
          /\ current.activations # <<>> /\ Last(current.activations).session = None
      BY <2>1 DEF RunInv, Refusing
    <3>2. e.activations # <<>> /\ Last(e.activations).session = None
      <4>1. current.activations \in Seq(Activations) /\ e.activations \in Seq(Activations)
        BY <1>2, <1>6, DocumentFields
      <4>2. DOMAIN e.activations = DOMAIN current.activations
        BY <1>6 DEF SameRecords
      <4>3. Len(e.activations) = Len(current.activations)
        BY <4>1, <4>2
      <4>4. Len(current.activations) \in DOMAIN current.activations
        BY <3>1, <4>1
      <4>5. e.activations[Len(current.activations)].session =
              current.activations[Len(current.activations)].session
        BY <1>6, <4>4 DEF SameRecords
      <4>6. QED
        BY <3>1, <4>1, <4>3, <4>4, <4>5 DEF Last
    <3>3. QED
      BY <1>8, <3>1, <3>2
  <2>2. QED
    BY <1>1, <1>5, <1>8, <2>1 DEF Refusing
<1>18. OutcomeAgrees'
  <2>1. SignalReason(gate.abort) \in {"signal_sigint", "signal_sigterm"}
    BY DEF SignalReason
  <2>2. exit' = 0 =>
          current'.status = "success" /\ ~poisoned' /\ ~Aborted /\ ~gate.cleanup
    BY <1>3, <1>5, <1>10, <1>11
  <2>3. current'.status = "success" => exit' = 0 \/ poisoned'
    BY <1>2, <1>3, <1>5, <1>10, <1>11
  <2>4. ASSUME current'.status = "failed"
        PROVE  /\ exit' \in {130, 143} => current'.failure = SignalReason(gate.abort)
               /\ current'.failure \in {"signal_sigint", "signal_sigterm"} =>
                    Aborted /\ exit' \in {None, SignalExitCode(gate.abort)}
               /\ current'.failure = "worker_timeout" =>
                    \E i \in DOMAIN sessions : sessions[i].cause = "timeout"
    <3>1. /\ current' = e /\ ~gate.cleanup
          /\ e.failure = Classify(failure, gate.abort)
      BY <1>2, <1>3, <1>8, <2>4
    <3>2. CASE Aborted
      <4>1. e.failure = SignalReason(gate.abort)
        BY <3>1, <3>2 DEF Classify, Aborted
      <4>2. QED
        BY <1>11, <2>1, <3>1, <3>2, <4>1
    <3>3. CASE ~Aborted
      <4>1. e.failure = IF failure = None THEN "internal_error" ELSE failure
        BY <3>1, <3>3 DEF Classify, Aborted
      <4>2. failure \in {"signal_sigint", "signal_sigterm"} => Aborted
        BY DEF RunInv, Failing
      <4>3. failure = "worker_timeout" => \E i \in DOMAIN sessions : sessions[i].cause = "timeout"
        BY DEF RunInv, Failing
      <4>4. QED
        BY <1>11, <3>1, <3>3, <4>1, <4>2, <4>3
    <3>4. QED
      BY <3>2, <3>3
  <2>5. failure' \notin {"invalid_graph", "missing_state", "unknown_outcome", "invalid_outcome"}
    BY <1>9, <1>10, NoneAssumption DEF Maybe, Causes, FailureReasons
  <2>6. QED
    BY <1>1, <1>5, <1>8, <2>2, <2>3, <2>4, <2>5 DEF OutcomeAgrees, Aborted
<1>19. QED
  BY <1>1, <1>8, <1>12, <1>13, <1>14, <1>15, <1>16, <1>17, <1>18 DEF RunInv

-----------------------------------------------------------------------------
(* The theorems.                                                           *)

\* Nothing changes.
LEMMA StutterKeeps ==
  ASSUME RunInv, UNCHANGED vars
  PROVE  RunInv'
<1> USE DEF vars
<1>1. Variables' /\ Present' /\ Kept'
  BY DEF RunInv, Variables, Present, Kept
<1>2. Failing' /\ Walking'
  BY DEF RunInv, Failing, Walking, Accepted, Aborted
<1>3. Flying' /\ Hosting'
  BY DEF RunInv, Flying, Hosting, Accepted
<1>4. Refusing' /\ OutcomeAgrees'
  BY DEF RunInv, Refusing, OutcomeAgrees, Aborted
<1>5. QED
  BY <1>1, <1>2, <1>3, <1>4 DEF RunInv

\* Every step keeps the invariant of the run.
LEMMA NextKeeps ==
  ASSUME RunInv, [Next]_vars
  PROVE  RunInv'
<1>1. CASE Activation
  BY <1>1, StartStepKeeps, BuildControlTreeKeeps, CheckInputsKeeps, VerifyBeforeKeeps,
     CreateSessionKeeps, SessionStepKeeps, PullKeeps, RunningStepKeeps, LaunchKeeps,
     CollectKeeps, VerifyAfterKeeps, ReadResultKeeps, AcceptedStepKeeps, DeleteSessionKeeps,
     FailedStepKeeps, CleanupStepKeeps DEF Activation
<1>2. CASE Runner
  BY <1>1, <1>2, LoadKeeps, InitializeKeeps, AuthorizeKeeps, TurnKeeps, CommitStepKeeps,
     TerminalStepKeeps, FreezeStepKeeps, ReinitializeKeeps, FinalizeKeeps DEF Runner
<1>3. CASE Environment
  BY <1>3, EnvironmentKeeps
<1>4. CASE UNCHANGED vars
  BY <1>4, StutterKeeps
<1>5. QED
  BY <1>2, <1>3, <1>4 DEF Next

\* The invariant of the run holds of every state of it.
THEOREM RunInvAlways == Spec => []RunInv
<1>1. Init => RunInv
  BY InitInv
<1>2. RunInv /\ [Next]_vars => RunInv'
  BY NextKeeps
<1>3. QED
  BY <1>1, <1>2, PTL DEF Spec

\* The reducer and the validator agree on the whole life of a run: whatever a run
\* leaves behind whenever it stops, a load takes, but for the one document whose
\* last activation's session was never recorded; and the reducer refuses the
\* runner nothing but the recording of that session's deletion.
THEOREM DocumentSoundAlways == Spec => []DocumentSound
<1>1. RunInv => V1TypeOK
  <2> SUFFICES ASSUME RunInv PROVE V1TypeOK
    OBVIOUS
  <2>1. current # None =>
          /\ current \in Document
          /\ ActivationsCoherent(current) \/ SessionUnrecorded(current)
    BY DEF RunInv, Variables, Maybe, Kept, Active, Facts, Loads
  <2>2. Documents(current)
    <3>1. ASSUME current # None
          PROVE  /\ current.status \in Statuses /\ current.phase \in RunPhases
                 /\ current.failure \in FailureReasons \cup {None}
                 /\ \A i \in DOMAIN current.activations : ActivationType(current.activations[i])
      <4>1. current \in Document
        BY <3>1 DEF RunInv, Variables, Maybe
      <4>2. \A i \in DOMAIN current.activations : current.activations[i] \in Activations
        BY <4>1, DocumentFields
      <4>3. \A i \in DOMAIN current.activations : ActivationType(current.activations[i])
        BY <4>2 DEF Activations, ActivationType, Maybe
      <4>4. QED
        BY <4>1, <4>3, DocumentFields DEF Maybe
    <3>2. QED
      BY <3>1 DEF Documents
  <2>3. Documents(stored)
    BY <2>2 DEF RunInv, Variables
  <2>4. /\ poisoned \in BOOLEAN /\ intact \in BOOLEAN /\ pc \in PointsOfRunner
        /\ failure \in FailureReasons \cup {None} /\ exit \in {None, 0, 1, 130, 143}
        /\ result \in Results
    BY DEF RunInv, Variables, Maybe, Causes
  <2>5. gate.abort \in {None, "SIGINT", "SIGTERM"} /\ gate.cleanup \in BOOLEAN
    BY DEF RunInv, Variables, Gates, Maybe
  <2>6. session = None \/ session \in DOMAIN sessions
    BY DEF RunInv, Hosting
  <2>7. QED
    BY <2>2, <2>3, <2>4, <2>5, <2>6 DEF V1TypeOK
<1>2. RunInv => ReducerMeetsLoader
  <2> SUFFICES ASSUME RunInv PROVE ReducerMeetsLoader
    OBVIOUS
  <2>1. stored = current /\ current \in Maybe(Document)
    BY DEF RunInv, Variables
  <2>2. DocumentLoads \/ SessionUnrecorded(stored)
    <3>1. CASE current = None
      BY <2>1, <3>1 DEF DocumentLoads
    <3>2. CASE current # None /\ current.status = "active"
      <4>1. current \in Document /\ Active(current)
        BY <2>1, <3>2 DEF RunInv, Kept, Maybe
      <4>2. QED
        BY <2>1, <4>1, ActiveLoads DEF DocumentLoads
    <3>3. CASE current # None /\ current.status # "active"
      BY <2>1, <3>3 DEF RunInv, Kept, DocumentLoads
    <3>4. QED
      BY <3>1, <3>2, <3>3
  <2>3. refused \subseteq {"activation_failed"}
        /\ (refused # {} => gate.cleanup /\ Last(current.activations).session = None)
    BY DEF RunInv, Refusing
  <2>4. QED
    BY <2>2, <2>3 DEF ReducerMeetsLoader
<1>3. RunInv => DocumentSound
  BY <1>1, <1>2 DEF DocumentSound
<1>4. QED
  BY <1>3, RunInvAlways, PTL

\* What a run records and answers is what happened: every session it knew of is
\* gone or its deletion failed, every transition was earned by a worker that ended
\* by itself in time, and the exit code, the status and the reason agree.
THEOREM RunHonestAlways == Spec => []RunHonest
<1>1. RunInv => SessionsSettled
  <2> SUFFICES ASSUME RunInv PROVE SessionsSettled
    OBVIOUS
  <2>1. \A i \in DOMAIN sessions :
          /\ sessions[i].worker = "running" => sessions[i].live
          /\ sessions[i].known /\ sessions[i].live =>
               i = session /\ (pc \in Held \cup {"clean"} \/ gate.cleanup)
    BY DEF RunInv, Hosting
  <2>2. Cardinality({i \in Known : sessions[i].live}) <= 1
    <3> DEFINE S == {i \in Known : sessions[i].live}
    <3>1. S \subseteq {session}
      BY <2>1 DEF Known
    <3>2. IsFiniteSet({session}) /\ Cardinality({session}) = 1
      BY FS_Singleton
    <3>3. Cardinality(S) <= Cardinality({session})
      BY <3>1, <3>2, FS_Subset
    <3>4. QED
      BY <3>2, <3>3
  <2>3. pc \in {"freeze", "finalize", "done"} => pc \notin Held \cup {"clean"}
    BY DEF Held, Recorded, Working
  <2>4. /\ stored = current
        /\ stored # None /\ stored.status \in {"success", "failed"} => pc = "done" /\ ~gate.cleanup
        /\ stored # None /\ stored.status = "cleanup_failed" => gate.cleanup
    BY DEF RunInv, Variables, Kept, Active, Facts
  <2>5. QED
    BY <2>1, <2>2, <2>3, <2>4 DEF SessionsSettled, Known
<1>2. RunInv => ProgressEarned
  <2> SUFFICES ASSUME RunInv, stored # None, NEW i \in DOMAIN stored.transitions
               PROVE  LET id == stored.activations[i].session IN
                      /\ stored.transitions[i].digest = id
                      /\ sessions[id].worker = "exited_0"
                      /\ sessions[id].cause # "timeout"
                      /\ ~sessions[id].live
    BY DEF ProgressEarned
  <2>1. stored = current /\ CursorCoherent(current) /\ Truthful(current, sessions)
    BY DEF RunInv, Variables, Kept, Active, Facts
  <2>2. /\ i \in DOMAIN current.activations
        /\ current.activations[i].phase = "session_cleanup_completed"
        /\ current.activations[i].digest # None
        /\ current.activations[i].digest = current.transitions[i].digest
    BY <2>1 DEF CursorCoherent, TransitionCoherent
  <2>3. Told(current.activations[i], sessions)
    BY <2>1, <2>2 DEF Truthful
  <2>4. QED
    BY <2>1, <2>2, <2>3 DEF Told
<1>3. RunInv => RunHonest
  BY <1>1, <1>2 DEF RunHonest, RunInv
<1>4. QED
  BY <1>3, RunInvAlways, PTL
=============================================================================
