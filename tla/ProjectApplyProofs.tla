------------------------- MODULE ProjectApplyProofs -------------------------
(***************************************************************************)
(* Theorems about the apply of a reviewed result, for any paths, reviews,  *)
(* processes, failures and edits: the plan is the reviewed change in its   *)
(* order, no writer touches what is not its own, progress is kept, and the *)
(* journal, the package, the project and the temps agree.                  *)
(***************************************************************************)
EXTENDS ProjectApply, FiniteSetTheorems, TLAPS

-----------------------------------------------------------------------------
(* The steps of a plan. *)

\* What a planned step is: the removal of an object of another kind, the creation that
\* follows it, a publication over an object of the same kind, or a change of its mode.
Removal(r, s) ==
  LET old == r.operator[s.path]
      new == r.result[s.path]
  IN  /\ Phase(s) = 10 /\ s.kind = RemoveKind(old)
      /\ s.before = old /\ s.after = Absent /\ old # Absent /\ old.kind # new.kind
Creation(r, s) ==
  LET old == r.operator[s.path]
      new == r.result[s.path]
  IN  /\ Phase(s) \in {30, 40, 50} /\ s.kind = CreateKind(new)
      /\ s.before = Absent /\ s.after = new /\ new # Absent /\ old.kind # new.kind
Replacement(r, s) ==
  LET old == r.operator[s.path]
      new == r.result[s.path]
  IN  /\ Phase(s) \in {30, 40, 50} /\ s.kind = CreateKind(new)
      /\ s.before = old /\ s.after = new /\ old.kind = new.kind /\ old.data # new.data
Retouch(r, s) ==
  LET old == r.operator[s.path]
      new == r.result[s.path]
  IN  /\ Phase(s) = 60 /\ s.kind = "set_mode"
      /\ s.before = old /\ s.after = new /\ old.kind = new.kind /\ old.data = new.data

LEMMA RawStepIs ==
  ASSUME NEW r, NEW s \in RawSteps(r)
  PROVE  /\ s = Step(s.path, s.kind, s.before, s.after)
         /\ s.path \in Transformed(r)
         /\ \/ Removal(r, s) \/ Creation(r, s) \/ Replacement(r, s) \/ Retouch(r, s)
<1>1. PICK p \in Transformed(r) :
        s \in Substitution(p, r.operator[p], r.result[p])
                \cup Revision(p, r.operator[p], r.result[p])
  BY DEF RawSteps
<1> DEFINE old == r.operator[p]
           new == r.result[p]
<1>2. /\ RemoveKind(old) \in {"remove_leaf", "remove_directory"}
      /\ CreateKind(new) \in {"create_directory", "publish_regular_file", "publish_symlink"}
  BY DEF RemoveKind, CreateKind
<1> HIDE DEF old, new
<1>3. \/ s = Step(p, RemoveKind(old), old, Absent) /\ old # Absent /\ old.kind # new.kind
      \/ s = Step(p, CreateKind(new), Absent, new) /\ new # Absent /\ old.kind # new.kind
      \/ s = Step(p, CreateKind(new), old, new) /\ old.kind = new.kind /\ old.data # new.data
      \/ s = Step(p, "set_mode", old, new) /\ old.kind = new.kind /\ old.data = new.data
  BY <1>1 DEF Substitution, Revision, old, new
<1>4. s = Step(p, s.kind, s.before, s.after) /\ s.path = p BY <1>3 DEF Step
<1>5. old = r.operator[s.path] /\ new = r.result[s.path] BY <1>4 DEF old, new
<1>6. CASE s = Step(p, RemoveKind(old), old, Absent) /\ old # Absent /\ old.kind # new.kind
  <2>1. s.kind = RemoveKind(old) /\ s.before = old /\ s.after = Absent BY <1>6 DEF Step
  <2>2. Phase(s) = 10 BY <1>2, <2>1 DEF Phase
  <2>3. QED BY <1>1, <1>4, <1>5, <1>6, <2>1, <2>2 DEF Removal
<1>7. CASE s = Step(p, CreateKind(new), Absent, new) /\ new # Absent /\ old.kind # new.kind
  <2>1. s.kind = CreateKind(new) /\ s.before = Absent /\ s.after = new BY <1>7 DEF Step
  <2>2. Phase(s) \in {30, 40, 50} BY <1>2, <2>1 DEF Phase
  <2>3. QED BY <1>1, <1>4, <1>5, <1>7, <2>1, <2>2 DEF Creation
<1>8. CASE /\ s = Step(p, CreateKind(new), old, new)
           /\ old.kind = new.kind /\ old.data # new.data
  <2>1. s.kind = CreateKind(new) /\ s.before = old /\ s.after = new BY <1>8 DEF Step
  <2>2. Phase(s) \in {30, 40, 50} BY <1>2, <2>1 DEF Phase
  <2>3. QED BY <1>1, <1>4, <1>5, <1>8, <2>1, <2>2 DEF Replacement
<1>9. CASE /\ s = Step(p, "set_mode", old, new)
           /\ old.kind = new.kind /\ old.data = new.data
  <2>1. s.kind = "set_mode" /\ s.before = old /\ s.after = new BY <1>9 DEF Step
  <2>2. Phase(s) = 60 BY <2>1 DEF Phase
  <2>3. QED BY <1>1, <1>4, <1>5, <1>9, <2>1, <2>2 DEF Retouch
<1>10. QED BY <1>3, <1>6, <1>7, <1>8, <1>9

\* A path has one step in each phase.
LEMMA RawStepsDiffer ==
  ASSUME NEW r, NEW s \in RawSteps(r), NEW t \in RawSteps(r),
         s.path = t.path, Phase(s) = Phase(t)
  PROVE  s = t
BY RawStepIs DEF Removal, Creation, Replacement, Retouch, Step

\* Of two steps on one path one removes and the other creates.
LEMMA RawStepsPair ==
  ASSUME NEW r, NEW s \in RawSteps(r), NEW t \in RawSteps(r),
         s.path = t.path, Phase(s) < Phase(t)
  PROVE  Removal(r, s) /\ Creation(r, t)
<1>1. ~Replacement(r, s) /\ ~Retouch(r, s) /\ ~Removal(r, t)
  BY RawStepIs DEF Removal, Creation, Replacement, Retouch
<1>2. QED BY RawStepIs, <1>1 DEF Removal, Creation, Replacement, Retouch

\* A review has finitely many paths and each of them finitely many steps.
LEMMA RawStepsFinite == ASSUME NEW r PROVE IsFiniteSet(RawSteps(r))
<1> DEFINE F(p) == Substitution(p, r.operator[p], r.result[p])
                     \cup Revision(p, r.operator[p], r.result[p])
           T == {F(p) : p \in Transformed(r)}
<1>1. IsFiniteSet(Paths)
  <2>1. IsFiniteSet(DOMAIN PathOrder) BY PathsAreSequences, FS_Interval
  <2>2. PathOrder \in Surjection(DOMAIN PathOrder, Paths) BY PathsAreSequences DEF Paths, Surjection
  <2>3. QED BY <2>1, <2>2, FS_Surjection
<1>2. IsFiniteSet(Transformed(r)) BY <1>1, FS_Subset DEF Transformed, Changes
<1>3. IsFiniteSet(T)
  <2> DEFINE f == [p \in Transformed(r) |-> F(p)]
  <2> HIDE DEF F
  <2>1. f \in Surjection(Transformed(r), T) BY DEF Surjection
  <2>2. QED BY <1>2, <2>1, FS_Surjection
<1>4. ASSUME NEW p \in Transformed(r) PROVE IsFiniteSet(F(p))
  <2> DEFINE old == r.operator[p]
             new == r.result[p]
             a == Step(p, RemoveKind(old), old, Absent)
             b == Step(p, CreateKind(new), Absent, new)
             c == Step(p, CreateKind(new), old, new)
             d == Step(p, "set_mode", old, new)
             G == (({a} \cup {b}) \cup {c}) \cup {d}
  <2>1. F(p) \subseteq G BY DEF Substitution, Revision
  <2>2. IsFiniteSet(G)
    <3> HIDE DEF a, b, c, d
    <3>1. IsFiniteSet({a} \cup {b}) BY FS_Singleton, FS_AddElement, Zenon
    <3>2. IsFiniteSet(({a} \cup {b}) \cup {c}) BY <3>1, FS_AddElement
    <3>3. QED BY <3>2, FS_AddElement
  <2>3. QED BY <2>1, <2>2, FS_Subset
<1>5. RawSteps(r) = UNION T BY DEF RawSteps
<1>6. QED
  <2> HIDE DEF F
  <2>1. \A X \in T : IsFiniteSet(X) BY <1>4
  <2> HIDE DEF T
  <2>2. QED BY <1>3, <1>5, <2>1, FS_UNION

-----------------------------------------------------------------------------
(* Their order. *)

LEMMA RankIs ==
  ASSUME NEW p \in Paths
  PROVE  Len(p) \in Nat /\ Rank(p) \in Nat /\ PathOrder[Rank(p)] = p
<1>1. PICK k \in DOMAIN PathOrder : PathOrder[k] = p BY DEF Paths
<1>2. Rank(p) \in DOMAIN PathOrder /\ PathOrder[Rank(p)] = p BY <1>1 DEF Rank
<1>3. p \in Seq(Names) BY <1>1, PathsAreSequences
<1>4. QED BY <1>2, <1>3, PathsAreSequences

\* The order is strict and, between the steps of one review, total.
LEMMA PrecedesIsStrict ==
  ASSUME NEW r, NEW s \in RawSteps(r), NEW t \in RawSteps(r), NEW u \in RawSteps(r)
  PROVE  /\ ~Precedes(s, s)
         /\ Precedes(s, t) /\ Precedes(t, u) => Precedes(s, u)
         /\ s # t => Precedes(s, t) \/ Precedes(t, s)
<1>1. \A x \in {s, t, u} :
        /\ Phase(x) \in {10, 30, 40, 50, 60} /\ x.path \in Paths
        /\ Len(x.path) \in Nat /\ Rank(x.path) \in Nat
  BY RawStepIs, RankIs
     DEF Removal, Creation, Replacement, Retouch, Transformed, Changes
<1>2. ~Precedes(s, s) BY <1>1 DEF Precedes
<1>3. Precedes(s, t) /\ Precedes(t, u) => Precedes(s, u) BY <1>1 DEF Precedes
<1>4. s # t => Precedes(s, t) \/ Precedes(t, s)
  <2>1. ASSUME Phase(s) = Phase(t), Rank(s.path) = Rank(t.path) PROVE s = t
    BY <1>1, <2>1, RankIs, RawStepsDiffer
  <2>2. QED BY <1>1, <2>1 DEF Precedes
<1>5. QED BY <1>2, <1>3, <1>4

\* A step that comes first has the smaller place, and every place is taken.
LEMMA PlaceIs ==
  ASSUME NEW r
  PROVE  LET S == RawSteps(r)
             n == Cardinality(S)
         IN  /\ n \in Nat
             /\ \A s \in S : Place(S, s) \in 1..n
             /\ \A s, t \in S : Precedes(s, t) => Place(S, s) < Place(S, t)
             /\ \A k \in 1..n : \E s \in S : Place(S, s) = k
<1> DEFINE S == RawSteps(r)
           n == Cardinality(S)
           B(s) == {t \in S : Precedes(t, s)}
<1>0. IsFiniteSet(S) BY RawStepsFinite
<1>1. n \in Nat BY <1>0, FS_CardinalityType
<1>2. ASSUME NEW s \in S
      PROVE  /\ IsFiniteSet(B(s)) /\ Cardinality(B(s)) \in Nat
             /\ Cardinality(B(s)) < n /\ Place(S, s) = Cardinality(B(s)) + 1
  <2>1. s \notin B(s) /\ B(s) \in SUBSET S BY PrecedesIsStrict
  <2>2. Place(S, s) = Cardinality(B(s)) + 1 BY DEF Place
  <2> HIDE DEF S, B
  <2>3. IsFiniteSet(B(s)) /\ Cardinality(B(s)) <= n /\ Cardinality(B(s)) # n
    BY <1>0, <2>1, FS_Subset
  <2>4. Cardinality(B(s)) \in Nat BY <2>3, FS_CardinalityType
  <2>5. QED BY <1>1, <2>2, <2>3, <2>4
<1>3. ASSUME NEW s \in S, NEW t \in S, Precedes(s, t) PROVE  Place(S, s) < Place(S, t)
  <2>1. B(s) \in SUBSET B(t) /\ s \in B(t) /\ s \notin B(s) BY <1>3, PrecedesIsStrict
  <2> HIDE DEF B
  <2>2. Cardinality(B(s)) <= Cardinality(B(t)) /\ Cardinality(B(s)) # Cardinality(B(t))
    BY <1>2, <2>1, FS_Subset
  <2>3. QED BY <1>2, <2>2
<1>4. \A s \in S : Place(S, s) \in 1..n
  <2> SUFFICES ASSUME NEW s \in S PROVE Place(S, s) \in 1..n OBVIOUS
  <2> HIDE DEF S, B, n
  <2>1. QED BY <1>1, <1>2
<1>5. \A s, t \in S : s # t => Place(S, s) # Place(S, t)
  <2> SUFFICES ASSUME NEW s \in S, NEW t \in S, s # t PROVE Place(S, s) # Place(S, t) OBVIOUS
  <2>1. Precedes(s, t) \/ Precedes(t, s) BY PrecedesIsStrict
  <2>2. Place(S, s) \in Nat /\ Place(S, t) \in Nat BY <1>1, <1>4
  <2>3. QED BY <1>3, <2>1, <2>2
<1>6. \A k \in 1..n : \E s \in S : Place(S, s) = k
  <2> DEFINE f == [s \in S |-> Place(S, s)]
  <2> HIDE DEF S, n
  <2>1. f \in Injection(S, 1..n) BY <1>4, <1>5 DEF Injection, IsInjective
  <2>2. IsFiniteSet(1..n) /\ Cardinality(1..n) = n BY <1>1, FS_Interval
  <2>3. f \in Surjection(S, 1..n) BY <2>1, <2>2, FS_Injection DEF n
  <2>4. QED BY <2>3, Zenon DEF Surjection
<1>7. QED BY <1>1, <1>3, <1>4, <1>6

\* The plan's steps are the raw steps, each once, in their order.
LEMMA OrderedIs ==
  ASSUME NEW r
  PROVE  LET steps == Ordered(RawSteps(r))
         IN  /\ steps \in Seq(RawSteps(r))
             /\ DOMAIN steps = 1..Len(steps) /\ Len(steps) \in Nat
             /\ \A s \in RawSteps(r) : \E k \in DOMAIN steps : steps[k] = s
             /\ \A i, j \in DOMAIN steps : i < j => Precedes(steps[i], steps[j])
<1> DEFINE S == RawSteps(r)
           n == Cardinality(S)
           steps == Ordered(S)
<1>1. /\ n \in Nat
      /\ \A s \in S : Place(S, s) \in 1..n
      /\ \A s, t \in S : Precedes(s, t) => Place(S, s) < Place(S, t)
      /\ \A k \in 1..n : \E s \in S : Place(S, s) = k
  BY PlaceIs
<1>2. \A s, t \in S : s # t => Precedes(s, t) \/ Precedes(t, s) BY PrecedesIsStrict
<1>3. steps = [k \in 1..n |-> CHOOSE s \in S : Place(S, s) = k] BY DEF Ordered
<1> HIDE DEF S, n, steps
<1>4. \A k \in 1..n : steps[k] \in S /\ Place(S, steps[k]) = k BY <1>1, <1>3
<1>5. steps \in Seq(S) /\ Len(steps) = n /\ DOMAIN steps = 1..n
  <2>1. steps \in [1..n -> S] BY <1>3, <1>4
  <2>2. QED BY <1>1, <2>1
<1>6. ASSUME NEW s \in S PROVE \E k \in DOMAIN steps : steps[k] = s
  <2>1. PICK k \in 1..n : k = Place(S, s) BY <1>1
  <2>2. steps[k] \in S /\ Place(S, steps[k]) = Place(S, s) BY <1>4, <2>1
  <2>3. Place(S, s) \in Nat BY <1>1
  <2>4. steps[k] = s BY <1>1, <1>2, <2>2, <2>3
  <2>5. QED BY <1>5, <2>4
<1>7. ASSUME NEW i \in 1..n, NEW j \in 1..n, i < j PROVE Precedes(steps[i], steps[j])
  <2>1. steps[i] # steps[j] /\ ~(Place(S, steps[j]) < Place(S, steps[i])) BY <1>1, <1>4, <1>7
  <2>2. QED BY <1>1, <1>2, <1>4, <2>1
<1>8. QED BY <1>1, <1>5, <1>6, <1>7 DEF S, n, steps

-----------------------------------------------------------------------------
(* What a call's step does to the other calls. *)

\* The others keep their state, but for the currency of their copies.
OthersSame(c) ==
  \A d \in Calls \ {c} :
    \/ calls'[d] = calls[d]
    \/ calls'[d] = [calls[d] EXCEPT !.current = FALSE]

\* A call enters a section only if its mode of the lock admits it.
LockHeld(c) ==
  /\ calls'[c].pc \in ExclusiveSteps =>
       \/ calls[c].pc \in ExclusiveSteps
       \/ \A d \in Calls : calls[d].pc \notin SharedSteps \cup ExclusiveSteps
  /\ calls'[c].pc \in SharedSteps =>
       \/ calls[c].pc \in SharedSteps
       \/ \A d \in Calls : calls[d].pc \notin ExclusiveSteps

\* What every step of a call does: it commits alone, publishes the plan once, and
\* changes the project only inside the exclusive section.
Framed(c) ==
  /\ calls' \in [Calls -> Call]
  /\ OthersSame(c)
  /\ operation' # operation => \A d \in Calls \ {c} : ~calls'[d].current
  /\ LockHeld(c)
  /\ review' = review
  /\ plan' = plan \/ plan = None
  /\ lapses \subseteq lapses'
  /\ UNCHANGED <<tree, temps, edited>> \/ calls[c].pc \in ExclusiveSteps

LEMMA OthersKeep ==
  ASSUME ApplyInv, NEW c \in Calls, Framed(c), NEW d \in Calls, d # c
  PROVE  CallTrue(d)'
<1>1. /\ calls'[d].pc = calls[d].pc /\ calls'[d].op = calls[d].op
      /\ calls'[d].completed = calls[d].completed /\ calls'[d].temp = calls[d].temp
      /\ calls'[d].intent = calls[d].intent
      /\ calls'[d].current => calls[d].current /\ operation' = operation
  BY DEF Framed, OthersSame, ApplyInv, Call
<1>2. CallTrue(d) /\ calls[d] \in Call BY DEF ApplyInv
<1>3. CopyTrue(d)' BY <1>1, <1>2 DEF CallTrue, CopyTrue, Framed
<1>4. calls[d].pc \in {"lock_exclusive"} \cup ExclusiveSteps => plan' = plan
  BY <1>2 DEF CallTrue, WriterReady, Framed
<1>5. WriterReady(d)'
  <2>1. Started \subseteq ExclusiveSteps /\ InStep \subseteq ExclusiveSteps BY DEF Started, InStep
  <2>2. Durable(calls'[d].op) = Durable(calls[d].op) BY <1>1 DEF Durable
  <2>3. "late_call" \notin lapses' => "late_call" \notin lapses BY DEF Framed
  <2>4. QED BY <1>1, <1>2, <1>4, <2>1, <2>2, <2>3 DEF CallTrue, WriterReady, Durable
<1>6. calls[d].pc \in ExclusiveSteps => UNCHANGED <<tree, temps, edited>>
  BY DEF Framed, ApplyInv, LockExcludes
<1>7. TempOurs(d)'
  <2>1. Holding \subseteq ExclusiveSteps BY DEF Holding, ExclusiveSteps
  <2>2. QED BY <1>1, <1>2, <1>6, <2>1 DEF CallTrue, TempOurs
<1>8. PathViewed(d)'
  <2>1. {"chmod", "set_mode", "replace"} \cup Publishing \cup Altering \subseteq ExclusiveSteps
    BY DEF ExclusiveSteps, Publishing, Altering
  <2>2. CASE calls[d].pc \notin ExclusiveSteps BY <1>1, <2>1, <2>2 DEF PathViewed, KindAt
  <2>3. CASE calls[d].pc \in ExclusiveSteps
    <3>1. StepOf(d)' = StepOf(d) /\ PathOf(d)' = PathOf(d) /\ UNCHANGED <<tree, edited>>
      BY <1>1, <1>4, <1>6, <2>3 DEF StepOf, PathOf, StepIndex
    <3>2. QED BY <1>1, <1>2, <3>1 DEF CallTrue, PathViewed, KindAt, FoundAt
  <2>4. QED BY <2>2, <2>3
<1>9. PlanAdmitted(d)' BY <1>1, <1>2 DEF CallTrue, PlanAdmitted, Framed, Plannable
<1>10. QED BY <1>3, <1>5, <1>7, <1>8, <1>9 DEF CallTrue

\* So a step keeps the invariant if it keeps the journal, the project's types and what
\* concerns its own call.
LEMMA StepKeeps ==
  ASSUME ApplyInv, NEW c \in Calls, Framed(c), ProjectTyped', JournalTrue', CallTrue(c)'
  PROVE  ApplyInv'
<1>1. \A d \in Calls : CallTrue(d)' BY OthersKeep
<1>2. LockExcludes'
  <2> SUFFICES ASSUME NEW a \in Calls, NEW b \in Calls, a # b,
                      calls'[a].pc \in ExclusiveSteps
               PROVE  calls'[b].pc \notin SharedSteps \cup ExclusiveSteps
    BY DEF LockExcludes
  <2>1. \A d \in Calls \ {c} : calls'[d].pc = calls[d].pc BY DEF Framed, OthersSame, ApplyInv, Call
  <2>2. SharedSteps \cap ExclusiveSteps = {} BY DEF SharedSteps, ExclusiveSteps
  <2>3. LockExcludes /\ LockHeld(c) BY DEF ApplyInv, Framed
  <2>4. CASE a = c BY <2>1, <2>2, <2>3, <2>4 DEF LockExcludes, LockHeld
  <2>5. CASE b = c BY <2>1, <2>2, <2>3, <2>5 DEF LockExcludes, LockHeld
  <2>6. CASE a # c /\ b # c BY <2>1, <2>3, <2>6 DEF LockExcludes
  <2>7. QED BY <2>4, <2>5, <2>6
<1>3. calls' \in [Calls -> Call] BY DEF Framed
<1>4. QED BY <1>1, <1>2, <1>3 DEF ApplyInv

-----------------------------------------------------------------------------
(* The ways a call moves. *)

\* The call is now r, and the others know that the journal changed.
Becomes(c, r) ==
  /\ calls' \in [Calls -> Call]
  /\ calls'[c] = r
  /\ OthersSame(c)
  /\ operation' # operation => \A d \in Calls \ {c} : ~calls'[d].current

LEMMA AloneBecomes ==
  ASSUME calls \in [Calls -> Call], NEW c \in Calls, NEW r \in Call,
         calls' = [calls EXCEPT ![c] = r], operation' = operation
  PROVE  Becomes(c, r)
BY DEF Becomes, OthersSame

LEMMA StoredBecomes ==
  ASSUME calls \in [Calls -> Call], NEW c \in Calls, NEW r \in Call,
         calls' = [d \in Calls |-> IF d = c THEN r ELSE [calls[d] EXCEPT !.current = FALSE]]
  PROVE  Becomes(c, r)
<1>1. \A d \in Calls : [calls[d] EXCEPT !.current = FALSE] \in Call BY Zenon DEF Call
<1>2. calls' \in [Calls -> Call] /\ calls'[c] = r BY <1>1
<1>3. \A d \in Calls \ {c} : ~calls'[d].current BY DEF Call
<1>4. QED BY <1>2, <1>3 DEF Becomes, OthersSame

LEMMA NobodyIs == Nobody \in Call
BY DEF Nobody, Call, Pcs

LEMMA LeaveBecomes ==
  ASSUME calls \in [Calls -> Call], NEW c \in Calls, Leave(c), operation' = operation
  PROVE  Becomes(c, Nobody)
BY NobodyIs, AloneBecomes, Zenon DEF Leave

LEMMA GotoBecomes ==
  ASSUME calls \in [Calls -> Call], NEW c \in Calls, NEW pc \in Pcs, Goto(c, pc),
         operation' = operation
  PROVE  Becomes(c, [calls[c] EXCEPT !.pc = pc])
<1>1. [calls[c] EXCEPT !.pc = pc] \in Call BY DEF Call
<1>2. calls' = [calls EXCEPT ![c] = [calls[c] EXCEPT !.pc = pc]] BY DEF Goto
<1>3. QED BY <1>1, <1>2, AloneBecomes, Zenon

\* A call that records why it ends leaves; the journal is the record, or as it was.
LEMMA RecordBecomes ==
  ASSUME calls \in [Calls -> Call], NEW c \in Calls, NEW last, Record(c, last)
  PROVE  /\ Becomes(c, Nobody)
         /\ \/ operation' = operation
            \/ operation' = last /\ ValidOperation(last) /\ calls[c].current
<1>1. CASE calls[c].current /\ ValidOperation(last) BY <1>1, NobodyIs, StoredBecomes DEF Record
<1>2. CASE ~(calls[c].current /\ ValidOperation(last)) BY <1>2, LeaveBecomes DEF Record
<1>3. QED BY <1>1, <1>2

Copied(c, op, pc) == [calls[c] EXCEPT !.op = op, !.current = TRUE, !.pc = pc]

\* A commit is refused and the call leaves, or the call goes on with the journal as its
\* copy: what it committed, or the advance it found.
LEMMA CommitBecomes ==
  ASSUME calls \in [Calls -> Call], NEW c \in Calls, NEW next \in Operations,
         NEW advance \in BOOLEAN, NEW pc \in Pcs, operation \in Operations \cup {None},
         Commit(c, next, advance, pc)
  PROVE  \/ Becomes(c, Nobody) /\ operation' = operation
         \/ /\ Becomes(c, Copied(c, operation', pc))
            /\ \/ operation' = next /\ ValidOperation(next) /\ calls[c].current
               \/ /\ operation' = operation /\ operation # None /\ advance
                  /\ ~calls[c].current /\ ValidOperation(next)
<1>1. \A op \in Operations \cup {None} : Copied(c, op, pc) \in Call BY Zenon DEF Call, Copied
<1>2. CASE ~ValidOperation(next) BY <1>2, LeaveBecomes DEF Commit
<1>3. CASE ValidOperation(next) /\ calls[c].current
  <2>1. Copied(c, next, pc) \in Call BY <1>1
  <2>2. calls' = [d \in Calls |-> IF d = c THEN Copied(c, next, pc)
                                  ELSE [calls[d] EXCEPT !.current = FALSE]]
        /\ operation' = next
    BY <1>3 DEF Commit, Store, Copied
  <2>3. Becomes(c, Copied(c, next, pc)) BY <2>1, <2>2, StoredBecomes
  <2>4. QED BY <1>3, <2>2, <2>3
<1>4. CASE ValidOperation(next) /\ ~calls[c].current /\ operation # None /\ advance
  <2>1. Copied(c, operation, pc) \in Call BY <1>1
  <2>2. calls' = [calls EXCEPT ![c] = Copied(c, operation, pc)] /\ operation' = operation
    BY <1>4, Zenon DEF Commit, Copied
  <2>3. QED BY <1>4, <2>1, <2>2, AloneBecomes, Zenon
<1>5. CASE ValidOperation(next) /\ ~calls[c].current /\ ~(operation # None /\ advance)
  BY <1>5, LeaveBecomes DEF Commit
<1>6. QED BY <1>2, <1>3, <1>4, <1>5

-----------------------------------------------------------------------------
(* What a move keeps. *)

Quiet(c) ==
  /\ review' = review /\ plan' = plan
  /\ lapses \subseteq lapses'
  /\ UNCHANGED <<tree, temps, edited>> \/ calls[c].pc \in ExclusiveSteps

\* What ProgressMonotone says of one step.
Onward ==
  operation # None /\ operation' # operation /\ "late_call" \notin lapses
    => Durable(operation') >= Durable(operation)

LEMMA JournalKept ==
  ASSUME ApplyInv, review' = review, plan' = plan,
         \/ operation' = operation
         \/ /\ operation' \in Operations /\ ValidOperation(operation')
            /\ operation'.plan \in {None, plan}
  PROVE  JournalTrue'
<1>1. JournalTrue BY DEF ApplyInv
<1>2. plan' # None => Plannable(review)' BY <1>1 DEF JournalTrue, Plannable
<1>3. PlanOf(review') = PlanOf(review) OBVIOUS
<1>4. operation' # None =>
        operation' \in Operations /\ ValidOperation(operation')
          /\ operation'.plan \in {None, plan'}
  BY <1>1 DEF JournalTrue
<1>5. QED BY <1>1, <1>2, <1>3, <1>4 DEF JournalTrue

LEMMA ProjectSame ==
  ASSUME ApplyInv, UNCHANGED <<tree, temps, edited>>
  PROVE  ProjectTyped'
BY DEF ApplyInv, ProjectTyped

LEMMA QuietFrames ==
  ASSUME ApplyInv, NEW c \in Calls, NEW r, Becomes(c, r), Quiet(c), LockHeld(c)
  PROVE  Framed(c)
BY DEF Becomes, Quiet, Framed

\* A call that ends keeps everything.
LEMMA LeaveKeeps ==
  ASSUME ApplyInv, NEW c \in Calls, Becomes(c, Nobody), Quiet(c), ProjectTyped', JournalTrue'
  PROVE  ApplyInv'
<1>1. /\ calls'[c].pc = "idle" /\ ~calls'[c].current /\ calls'[c].op = None BY DEF Becomes, Nobody
<1>2. LockHeld(c) BY <1>1 DEF LockHeld, SharedSteps, ExclusiveSteps
<1>3. CallTrue(c)'
  <2>1. CopyTrue(c)' BY <1>1 DEF CopyTrue, Loaded, ExclusiveSteps
  <2>2. WriterReady(c)' BY <1>1 DEF WriterReady, ExclusiveSteps, Started, InStep
  <2>3. TempOurs(c)' /\ PathViewed(c)' /\ PlanAdmitted(c)'
    BY <1>1 DEF TempOurs, Holding, PathViewed, KindAt, Publishing, Altering, PlanAdmitted
  <2>4. QED BY <2>1, <2>2, <2>3 DEF CallTrue
<1>4. QED BY <1>2, <1>3, QuietFrames, StepKeeps

\* A call that goes on with the copy it has, where it may go.
LEMMA GotoKeeps ==
  ASSUME ApplyInv, NEW c \in Calls, NEW pc \in Pcs, Goto(c, pc), operation' = operation,
         Quiet(c), ProjectTyped',
         pc \in Loaded => calls[c].op # None,
         pc \in SharedSteps => calls[c].pc \in SharedSteps \/ ~HeldIn(ExclusiveSteps),
         pc \in ExclusiveSteps =>
           calls[c].pc \in ExclusiveSteps \/ ~HeldIn(SharedSteps \cup ExclusiveSteps),
         pc \in {"lock_exclusive"} \cup ExclusiveSteps =>
           calls[c].pc \in {"lock_exclusive"} \cup ExclusiveSteps,
         pc \in Started => calls[c].pc \in Started,
         pc \in InStep => calls[c].completed < Len(plan.steps),
         pc \in Holding =>
           calls[c].temp \in DOMAIN temps' /\ temps'[calls[c].temp].owner = "writer",
         pc \in Altering \cup Publishing => KindAt(c, pc),
         pc \in Altering => PathOf(c) \in edited' \/ FoundAt(c, pc, tree'[PathOf(c)]),
         pc = "publish_plan" => Plannable(review)
  PROVE  ApplyInv'
<1>1. Becomes(c, [calls[c] EXCEPT !.pc = pc]) BY GotoBecomes DEF ApplyInv
<1>2. calls[c] \in Call /\ CallTrue(c) BY DEF ApplyInv
<1>3. /\ calls'[c].pc = pc /\ calls'[c].op = calls[c].op
      /\ calls'[c].current = calls[c].current /\ calls'[c].completed = calls[c].completed
      /\ calls'[c].temp = calls[c].temp
  BY <1>1, <1>2 DEF Becomes, Call
<1>4. review' = review /\ plan' = plan /\ lapses \subseteq lapses' BY DEF Quiet
<1>5. LockHeld(c) BY <1>3 DEF LockHeld, HeldIn
<1>6. CopyTrue(c)' BY <1>2, <1>3, <1>4 DEF CallTrue, CopyTrue
<1>7. WriterReady(c)'
  <2>1. Durable(calls'[c].op) = Durable(calls[c].op) BY <1>3 DEF Durable
  <2>2. InStep \subseteq Started /\ Started \subseteq ExclusiveSteps BY DEF InStep, Started
  <2>3. QED BY <1>2, <1>3, <1>4, <2>1, <2>2 DEF CallTrue, WriterReady, Durable
<1>8. TempOurs(c)' BY <1>3 DEF TempOurs
<1>9. PathViewed(c)'
  <2>1. {"chmod", "set_mode", "replace"} \subseteq Altering BY DEF Altering
  <2>2. StepOf(c)' = StepOf(c) /\ PathOf(c)' = PathOf(c) BY <1>3, <1>4 DEF StepOf, PathOf, StepIndex
  <2>3. KindAt(c, pc) BY <2>1 DEF KindAt
  <2>4. QED BY <1>3, <2>2, <2>3 DEF PathViewed, KindAt, FoundAt
<1>10. PlanAdmitted(c)' BY <1>3, <1>4 DEF PlanAdmitted, Plannable
<1>11. CallTrue(c)' /\ JournalTrue' BY <1>4, <1>6, <1>7, <1>8, <1>9, <1>10, JournalKept DEF CallTrue
<1>12. QED BY <1>1, <1>5, <1>11, QuietFrames, StepKeeps

\* A call outside the writer's section that goes on with the journal as its copy.
LEMMA CopyKeeps ==
  ASSUME ApplyInv, NEW c \in Calls, NEW pc \in Pcs, Becomes(c, Copied(c, operation', pc)),
         Quiet(c), UNCHANGED <<tree, temps, edited>>, JournalTrue',
         pc \notin {"publish_plan", "lock_exclusive"} \cup ExclusiveSteps,
         pc \in Loaded => operation' # None,
         pc \in SharedSteps => calls[c].pc \in SharedSteps
  PROVE  ApplyInv'
<1>1. calls[c] \in Call BY DEF ApplyInv
<1>2. calls'[c].pc = pc /\ calls'[c].op = operation' BY <1>1 DEF Becomes, Copied, Call
<1>3. LockHeld(c) BY <1>2 DEF LockHeld
<1>4. CopyTrue(c)' BY <1>2 DEF CopyTrue, JournalTrue
<1>5. WriterReady(c)'
  <2>1. InStep \subseteq ExclusiveSteps /\ Started \subseteq ExclusiveSteps BY DEF InStep, Started
  <2>2. QED BY <1>2, <2>1 DEF WriterReady
<1>6. TempOurs(c)' /\ PathViewed(c)' /\ PlanAdmitted(c)'
  BY <1>2 DEF TempOurs, PathViewed, KindAt, Publishing, Altering, PlanAdmitted, Holding,
              ExclusiveSteps
<1>7. CallTrue(c)' BY <1>4, <1>5, <1>6 DEF CallTrue
<1>8. ProjectTyped' BY ProjectSame
<1>9. QED BY <1>3, <1>7, <1>8, QuietFrames, StepKeeps

-----------------------------------------------------------------------------
(* Preparation. *)

LEMMA SharedAreLoaded ==
  /\ SharedSteps \cap ({"lock_exclusive"} \cup ExclusiveSteps) = {}
  /\ Holding \cap SharedSteps = {} /\ (Altering \cup Publishing) \cap SharedSteps = {}
  /\ Started \cap SharedSteps = {} /\ InStep \cap SharedSteps = {}
BY DEF SharedSteps, ExclusiveSteps, Holding, Altering, Publishing, Started, InStep

\* A goto of a call that prepares.
LEMMA PrepareGotoKeeps ==
  ASSUME ApplyInv, NEW c \in Calls, NEW pc \in SharedSteps, Goto(c, pc),
         UNCHANGED operation, Quiet(c), UNCHANGED <<tree, temps, edited>>,
         pc \in Loaded => calls[c].op # None,
         calls[c].pc \in SharedSteps \/ ~HeldIn(ExclusiveSteps),
         pc = "publish_plan" => Plannable(review)
  PROVE  ApplyInv'
<1>1. pc \in Pcs BY DEF Pcs
<1>2. ProjectTyped' BY ProjectSame
<1>3. pc \notin Altering \cup Publishing /\ pc \notin Holding \cup Started \cup InStep \cup ExclusiveSteps
        /\ pc \notin {"lock_exclusive"} \cup ExclusiveSteps
  BY SharedAreLoaded
<1>4. QED BY <1>1, <1>2, <1>3, GotoKeeps

\* A call that leaves and commits nothing.
LEMMA LeaveStepKeeps ==
  ASSUME ApplyInv, NEW c \in Calls, Leave(c), UNCHANGED operation, Quiet(c),
         UNCHANGED <<tree, temps, edited>>
  PROVE  ApplyInv' /\ Onward
<1>1. Becomes(c, Nobody) BY LeaveBecomes DEF ApplyInv
<1>2. QED BY <1>1, JournalKept, ProjectSame, LeaveKeeps DEF Quiet, Onward

\* A call that leaves, whatever it does to the project first.
LEMMA LeaveQuietKeeps ==
  ASSUME ApplyInv, NEW c \in Calls, Leave(c), UNCHANGED operation, Quiet(c), ProjectTyped'
  PROVE  ApplyInv' /\ Onward
<1>1. Becomes(c, Nobody) BY LeaveBecomes DEF ApplyInv
<1>2. QED BY <1>1, JournalKept, LeaveKeeps DEF Quiet, Onward

LEMMA LockSharedKeeps ==
  ASSUME ApplyInv, NEW c \in Calls, LockShared(c)
  PROVE  ApplyInv' /\ Onward
<1>1. Quiet(c) /\ UNCHANGED <<tree, temps, edited>> /\ UNCHANGED operation
  BY DEF LockShared, UnchangedProject, UnchangedPackage, Quiet
<1>2. CASE HeldIn(ExclusiveSteps) BY <1>1, <1>2, LeaveStepKeeps DEF LockShared, AcquireShared
<1>3. CASE ~HeldIn(ExclusiveSteps)
  <2>1. "open" \in SharedSteps /\ "open" \notin Loaded BY DEF SharedSteps, Loaded, ExclusiveSteps
  <2>2. Goto(c, "open") BY <1>3 DEF LockShared, AcquireShared
  <2>3. QED BY <1>1, <1>3, <2>1, <2>2, PrepareGotoKeeps DEF Onward
<1>4. QED BY <1>2, <1>3

LEMMA OpenOperationKeeps ==
  ASSUME ApplyInv, NEW c \in Calls, OpenOperation(c)
  PROVE  ApplyInv' /\ Onward
<1>1. Quiet(c) /\ UNCHANGED <<tree, temps, edited>> /\ UNCHANGED operation
  BY DEF OpenOperation, UnchangedProject, UnchangedPackage, Quiet
<1>2. CASE Leave(c) BY <1>1, <1>2, LeaveStepKeeps
<1>3. CASE Goto(c, "load")
  <2>1. "load" \in Pcs /\ "load" \notin Loaded /\ "load" \notin SharedSteps
        /\ "load" \notin {"lock_exclusive"} \cup ExclusiveSteps
        /\ "load" \notin Started /\ "load" \notin InStep /\ "load" \notin Holding
        /\ "load" \notin Altering \cup Publishing
    BY DEF Pcs, Loaded, SharedSteps, ExclusiveSteps, Started, InStep, Holding, Altering,
           Publishing
  <2>2. ProjectTyped' BY <1>1, ProjectSame
  <2>3. QED BY <1>1, <1>3, <2>1, <2>2, GotoKeeps DEF Onward
<1>4. CASE calls' = [calls EXCEPT ![c].op = operation, ![c].current = TRUE,
                                  ![c].pc = "observe"]
  <2>1. calls \in [Calls -> Call] /\ operation \in Operations \cup {None}
    BY DEF ApplyInv, JournalTrue
  <2>2. Copied(c, operation, "observe") \in Call BY <2>1, Zenon DEF Call, Copied, Pcs, SharedSteps
  <2>3. Becomes(c, Copied(c, operation, "observe"))
    BY <1>1, <1>4, <2>1, <2>2, AloneBecomes, Zenon DEF Copied
  <2>4. /\ "observe" \in Pcs /\ calls[c].pc \in SharedSteps
        /\ "observe" \notin {"publish_plan", "lock_exclusive"} \cup ExclusiveSteps
        /\ "observe" \notin Loaded
    BY DEF Pcs, SharedSteps, ExclusiveSteps, Loaded, OpenOperation, At
  <2>5. JournalTrue' BY <1>1, JournalKept DEF Quiet
  <2>6. QED BY <1>1, <2>3, <2>4, <2>5, CopyKeeps DEF Onward
<1>5. QED BY <1>2, <1>3, <1>4 DEF OpenOperation

LEMMA ObserveKeeps ==
  ASSUME ApplyInv, NEW c \in Calls, Observe(c)
  PROVE  ApplyInv' /\ Onward
<1>1. Quiet(c) /\ UNCHANGED <<tree, temps, edited>> /\ UNCHANGED operation
  BY DEF Observe, UnchangedProject, UnchangedPackage, Quiet
<1>2. CASE Leave(c) BY <1>1, <1>2, LeaveStepKeeps
<1>3. CASE Goto(c, "create")
  <2>1. "create" \in SharedSteps /\ "create" \notin Loaded /\ calls[c].pc \in SharedSteps
    BY DEF SharedSteps, Loaded, ExclusiveSteps, Observe, At
  <2>2. QED BY <1>1, <1>3, <2>1, PrepareGotoKeeps DEF Onward
<1>4. QED BY <1>2, <1>3 DEF Observe

LEMMA CreateOperationKeeps ==
  ASSUME ApplyInv, NEW c \in Calls, CreateOperation(c)
  PROVE  ApplyInv' /\ Onward
<1>1. Quiet(c) /\ UNCHANGED <<tree, temps, edited>>
  BY DEF CreateOperation, UnchangedProject, UnchangedPackage, Quiet
<1>2. /\ "probe" \in SharedSteps /\ "probe" \in Pcs /\ calls[c].pc \in SharedSteps
      /\ "probe" \notin {"publish_plan", "lock_exclusive"} \cup ExclusiveSteps
  BY DEF Pcs, SharedSteps, ExclusiveSteps, CreateOperation, At
<1>3. calls \in [Calls -> Call] /\ operation \in Operations \cup {None} BY DEF ApplyInv, JournalTrue
<1>4. CASE Op(c) # None
  <2>1. Goto(c, "probe") /\ UNCHANGED operation BY <1>4 DEF CreateOperation
  <2>2. QED BY <1>1, <1>2, <1>4, <2>1, PrepareGotoKeeps DEF Onward, Op
<1>5. CASE Op(c) = None /\ operation # None
  <2>1. /\ calls' = [calls EXCEPT ![c].op = operation, ![c].current = TRUE, ![c].pc = "probe"]
        /\ UNCHANGED operation
    BY <1>5 DEF CreateOperation
  <2>2. Copied(c, operation, "probe") \in Call BY <1>2, <1>3, Zenon DEF Call, Copied
  <2>3. Becomes(c, Copied(c, operation, "probe"))
    BY <1>3, <2>1, <2>2, AloneBecomes, Zenon DEF Copied
  <2>4. JournalTrue' BY <1>1, <2>1, JournalKept DEF Quiet
  <2>5. QED BY <1>1, <1>2, <1>5, <2>1, <2>3, <2>4, CopyKeeps DEF Onward
<1>6. CASE Op(c) = None /\ operation = None
  <2>1. Store(c, Preparing, "probe") BY <1>6 DEF CreateOperation
  <2>2. Preparing \in Operations /\ ValidOperation(Preparing) /\ Preparing.plan = None
    <3>1. Preparing \in Operations BY DEF Preparing, Operations, Statuses
    <3>2. /\ Preparing.status = "preparing" /\ Preparing.failed = FALSE
          /\ Preparing.execution = None /\ Preparing.plan = None
      BY DEF Preparing
    <3>3. ValidExecution(Preparing) BY <3>2 DEF ValidExecution
    <3>4. ValidOperation(Preparing)
      <4>1. (Preparing.status \in {"failed", "conflict", "recovery_required"}) = FALSE BY <3>2
      <4>2. Preparing.status \notin Running \cup {"prepared"} /\ Preparing.status # "prepared"
        BY <3>2 DEF Running
      <4>3. Preparing.failed = (Preparing.status \in {"failed", "conflict", "recovery_required"})
        BY <3>2, <4>1, Zenon
      <4>4. QED BY <3>3, <4>2, <4>3, Zenon DEF ValidOperation
    <3>5. QED BY <3>1, <3>2, <3>4
  <2>3. Preparing # None BY <2>2, NoneAssumption
  <2>4. Copied(c, Preparing, "probe") \in Call
    <3>1. Preparing \in Operations \cup {None} /\ TRUE \in BOOLEAN BY <2>2
    <3>2. QED BY <1>2, <1>3, <3>1, Zenon DEF Call, Copied
  <2>5. Becomes(c, Copied(c, Preparing, "probe")) /\ operation' = Preparing
    BY <1>3, <2>1, <2>4, StoredBecomes DEF Copied, Store
  <2>6. JournalTrue' BY <1>1, <2>2, <2>5, JournalKept DEF Quiet
  <2>7. QED BY <1>1, <1>2, <1>6, <2>3, <2>5, <2>6, CopyKeeps DEF Onward
<1>7. QED BY <1>4, <1>5, <1>6

LEMMA LoadedIs ==
  ASSUME ApplyInv, NEW c \in Calls, calls[c].pc \in Loaded
  PROVE  /\ Op(c) \in Operations /\ ValidOperation(Op(c)) /\ Op(c).plan \in {None, plan}
         /\ calls[c].current => operation = Op(c)
<1>1. calls[c] \in Call /\ CopyTrue(c) BY DEF ApplyInv, CallTrue
<1>2. QED BY <1>1 DEF CopyTrue, Call, Op

\* A call that records why it ends keeps the invariant, and the progress it knew.
LEMMA RecordKeeps ==
  ASSUME ApplyInv, NEW c \in Calls, calls[c].pc \in Loaded, NEW last \in Operations,
         last.plan \in {None, plan}, Record(c, last), Quiet(c), ProjectTyped',
         "late_call" \notin lapses => Durable(last) >= Durable(Op(c))
  PROVE  ApplyInv' /\ Onward
<1>1. /\ Becomes(c, Nobody)
      /\ \/ operation' = operation
         \/ operation' = last /\ ValidOperation(last) /\ calls[c].current
  BY RecordBecomes DEF ApplyInv
<1>2. JournalTrue' BY <1>1, JournalKept DEF Quiet
<1>3. ApplyInv' BY <1>1, <1>2, LeaveKeeps
<1>4. Onward BY <1>1, LoadedIs DEF Onward
<1>5. QED BY <1>3, <1>4

\* So does a call that commits and goes on outside the writer's section.
LEMMA CommitKeeps ==
  ASSUME ApplyInv, NEW c \in Calls, calls[c].pc \in Loaded, NEW next \in Operations,
         next.plan \in {None, plan}, NEW advance \in BOOLEAN, NEW pc \in Pcs,
         Commit(c, next, advance, pc), Quiet(c), UNCHANGED <<tree, temps, edited>>,
         pc \notin {"publish_plan", "lock_exclusive"} \cup ExclusiveSteps,
         pc \in SharedSteps => calls[c].pc \in SharedSteps,
         "late_call" \notin lapses => Durable(next) >= Durable(Op(c))
  PROVE  ApplyInv' /\ Onward
<1>1. calls \in [Calls -> Call] /\ operation \in Operations \cup {None} BY DEF ApplyInv, JournalTrue
<1>2. \/ Becomes(c, Nobody) /\ operation' = operation
      \/ /\ Becomes(c, Copied(c, operation', pc))
         /\ \/ operation' = next /\ ValidOperation(next) /\ calls[c].current
            \/ operation' = operation /\ operation # None /\ advance /\ ~calls[c].current
  BY <1>1, CommitBecomes
<1>3. JournalTrue' BY <1>2, JournalKept DEF Quiet
<1>4. Onward BY <1>2, LoadedIs DEF Onward
<1>5. CASE Becomes(c, Nobody) BY <1>3, <1>4, <1>5, LeaveKeeps, ProjectSame
<1>6. CASE Becomes(c, Copied(c, operation', pc)) /\ operation' # None BY <1>3, <1>4, <1>6, CopyKeeps
<1>7. QED BY <1>2, <1>5, <1>6, NoneAssumption

LEMMA RecordFailureKeeps ==
  ASSUME ApplyInv, NEW c \in Calls, calls[c].pc \in Loaded, RecordFailure(c), Quiet(c),
         UNCHANGED <<tree, temps, edited>>
  PROVE  ApplyInv' /\ Onward
<1>1. CASE Op(c).status = "prepared" BY <1>1, LeaveStepKeeps DEF RecordFailure
<1>2. CASE Op(c).status # "prepared"
  <2> DEFINE last == [Op(c) EXCEPT !.status = "failed", !.failed = TRUE]
  <2>1. Op(c) \in Operations /\ Op(c).plan \in {None, plan} BY LoadedIs
  <2>2. /\ last \in Operations /\ last.plan = Op(c).plan /\ last.execution = Op(c).execution
    BY <2>1, Zenon DEF Operations, Statuses
  <2>3. Record(c, last) BY <1>2 DEF RecordFailure
  <2> HIDE DEF last
  <2>4. Durable(last) = Durable(Op(c)) /\ Durable(Op(c)) \in Nat
    BY <2>1, <2>2 DEF Durable, Operations, Executions
  <2>5. QED BY <2>1, <2>2, <2>3, <2>4, RecordKeeps, ProjectSame
<1>3. QED BY <1>1, <1>2

LEMMA ProbeKeeps ==
  ASSUME ApplyInv, NEW c \in Calls, Probe(c)
  PROVE  ApplyInv' /\ Onward
<1>1. Quiet(c) /\ UNCHANGED <<tree, temps, edited>>
  BY DEF Probe, UnchangedProject, UnchangedPackage, Quiet
<1>2. calls[c].pc \in Loaded /\ calls[c].pc \in SharedSteps BY DEF Probe, At, Loaded, SharedSteps
<1>3. CASE Goto(c, "plan") /\ UNCHANGED operation
  <2>1. "plan" \in SharedSteps BY DEF SharedSteps
  <2>2. Op(c) # None BY <1>2, LoadedIs, NoneAssumption
  <2>3. QED BY <1>1, <1>2, <1>3, <2>1, <2>2, PrepareGotoKeeps DEF Onward, Op
<1>4. CASE RecordFailure(c) BY <1>1, <1>2, <1>4, RecordFailureKeeps
<1>5. QED BY <1>3, <1>4 DEF Probe

LEMMA BuildPlanKeeps ==
  ASSUME ApplyInv, NEW c \in Calls, BuildPlan(c)
  PROVE  ApplyInv' /\ Onward
<1>1. Quiet(c) /\ UNCHANGED <<tree, temps, edited>>
  BY DEF BuildPlan, UnchangedProject, UnchangedPackage, Quiet
<1>2. calls[c].pc \in Loaded /\ calls[c].pc \in SharedSteps
  BY DEF BuildPlan, At, Loaded, SharedSteps
<1>3. CASE ~Plannable(review) BY <1>1, <1>2, <1>3, RecordFailureKeeps DEF BuildPlan
<1>4. CASE Plannable(review)
  <2>1. "publish_plan" \in SharedSteps BY DEF SharedSteps
  <2>2. Op(c) # None BY <1>2, LoadedIs, NoneAssumption
  <2>3. Goto(c, "publish_plan") /\ UNCHANGED operation BY <1>4 DEF BuildPlan
  <2>4. QED BY <1>1, <1>2, <1>4, <2>1, <2>2, <2>3, PrepareGotoKeeps DEF Onward, Op
<1>5. QED BY <1>3, <1>4

LEMMA PublishPlanKeeps ==
  ASSUME ApplyInv, NEW c \in Calls, PublishPlan(c)
  PROVE  ApplyInv' /\ Onward
<1>1. /\ calls[c].pc = "publish_plan" /\ review' = review /\ lapses' = lapses
      /\ UNCHANGED <<tree, temps, edited>> /\ operation' = operation
  BY DEF PublishPlan, UnchangedProject, At
<1>2. CASE Leave(c) /\ UNCHANGED plan BY <1>1, <1>2, LeaveStepKeeps DEF Quiet
<1>3. CASE Goto(c, "commit_plan") /\ plan' = PlanOf(review) /\ plan \in {None, PlanOf(review)}
  <2>1. calls[c] \in Call /\ CallTrue(c) /\ JournalTrue /\ calls \in [Calls -> Call] BY DEF ApplyInv
  <2>2. "commit_plan" \in Pcs BY DEF Pcs, SharedSteps
  <2>3. Becomes(c, [calls[c] EXCEPT !.pc = "commit_plan"]) BY <1>1, <1>3, <2>1, <2>2, GotoBecomes
  <2>4. /\ calls'[c].pc = "commit_plan" /\ calls'[c].op = calls[c].op
        /\ calls'[c].current = calls[c].current
    BY <2>1, <2>3 DEF Becomes, Call
  <2>5. LockHeld(c) BY <1>1, <2>4 DEF LockHeld, SharedSteps, ExclusiveSteps
  <2>6. Framed(c) BY <1>1, <1>3, <2>3, <2>5 DEF Becomes, Framed
  <2>7. JournalTrue'
    <3>1. Plannable(review)' BY <1>1, <2>1 DEF CallTrue, PlanAdmitted, Plannable
    <3>2. plan' = PlanOf(review') BY <1>1, <1>3
    <3>3. QED BY <1>1, <1>3, <2>1, <3>1, <3>2 DEF JournalTrue
  <2>8. CallTrue(c)'
    <3>1. calls[c].op # None BY <1>1, <2>1 DEF CallTrue, CopyTrue, Loaded
    <3>2. CopyTrue(c)' BY <1>1, <1>3, <2>1, <2>4, <3>1 DEF CallTrue, CopyTrue
    <3>3. WriterReady(c)' /\ TempOurs(c)' /\ PathViewed(c)' /\ PlanAdmitted(c)'
      BY <2>4 DEF WriterReady, TempOurs, PathViewed, KindAt, Altering, Publishing, PlanAdmitted, Started, InStep,
                  Holding, ExclusiveSteps
    <3>4. QED BY <3>2, <3>3 DEF CallTrue
  <2>9. QED BY <1>1, <2>6, <2>7, <2>8, StepKeeps, ProjectSame DEF Onward
<1>4. QED BY <1>2, <1>3 DEF PublishPlan

LEMMA PlanIs ==
  ASSUME ApplyInv
  PROVE  plan \in Plans \cup {None}
BY DEF ApplyInv, JournalTrue, Plans

\* The copy with its preparation advanced: the execution is as it was.
LEMMA AdvancedCopy ==
  ASSUME ApplyInv, NEW c \in Calls, calls[c].pc \in Loaded,
         NEW p \in {None, plan}, NEW n \in Nat, NEW s \in Statuses, NEW f \in BOOLEAN,
         NEW next,
         next = [Op(c) EXCEPT !.plan = p, !.sealed = n, !.status = s, !.failed = f]
  PROVE  /\ next \in Operations /\ next.plan \in {None, plan}
         /\ Durable(next) >= Durable(Op(c))
<1>1. Op(c) \in Operations /\ p \in Plans \cup {None} BY LoadedIs, PlanIs
<1>2. next \in Operations /\ next.plan = p /\ next.execution = Op(c).execution
  BY <1>1, Zenon DEF Operations
<1>3. Durable(next) = Durable(Op(c)) /\ Durable(Op(c)) \in Nat
  BY <1>1, <1>2 DEF Durable, Operations, Executions
<1>4. QED BY <1>2, <1>3

LEMMA CommitPlanKeeps ==
  ASSUME ApplyInv, NEW c \in Calls, CommitPlan(c)
  PROVE  ApplyInv' /\ Onward
<1>1. Quiet(c) /\ UNCHANGED <<tree, temps, edited>>
  BY DEF CommitPlan, UnchangedProject, UnchangedPackage, Quiet
<1>2. /\ calls[c].pc \in Loaded /\ calls[c].pc \in SharedSteps
      /\ "seal" \in SharedSteps /\ "seal" \in Pcs
      /\ "seal" \notin {"publish_plan", "lock_exclusive"} \cup ExclusiveSteps
  BY DEF CommitPlan, At, Loaded, SharedSteps, Pcs, ExclusiveSteps
<1>3. Op(c) \in Operations /\ Op(c) # None BY <1>2, LoadedIs, NoneAssumption
<1>4. CASE Op(c).plan # None
  <2>1. Goto(c, "seal") /\ UNCHANGED operation BY <1>4 DEF CommitPlan
  <2>2. QED BY <1>1, <1>2, <1>3, <2>1, PrepareGotoKeeps DEF Onward, Op
<1>5. CASE Op(c).plan = None
  <2> DEFINE next == [Op(c) EXCEPT !.plan = plan, !.status = Resumed(Op(c))]
  <2>1. Commit(c, next, operation.plan = plan, "seal") BY <1>5 DEF CommitPlan
  <2>2. Resumed(Op(c)) \in Statuses /\ plan \in Plans \cup {None}
    BY <1>3, PlanIs DEF Resumed, Operations, Statuses
  <2>3. next \in Operations /\ next.plan = plan /\ next.execution = Op(c).execution
    BY <1>3, <2>2, Zenon DEF Operations
  <2> HIDE DEF next
  <2>4. Durable(next) >= Durable(Op(c)) BY <1>3, <2>3 DEF Durable, Operations, Executions
  <2>5. QED BY <1>1, <1>2, <2>1, <2>3, <2>4, CommitKeeps, Zenon
<1>6. QED BY <1>4, <1>5

LEMMA SealKeeps ==
  ASSUME ApplyInv, NEW c \in Calls, Seal(c)
  PROVE  ApplyInv' /\ Onward
<1>1. Quiet(c) /\ UNCHANGED <<tree, temps, edited>> /\ UNCHANGED operation
  BY DEF Seal, UnchangedProject, Quiet
<1>2. /\ calls[c].pc \in Loaded /\ calls[c].pc \in SharedSteps
      /\ "complete" \in SharedSteps /\ "commit_payload" \in SharedSteps
  BY DEF Seal, At, Loaded, SharedSteps
<1>3. calls[c].op # None BY <1>2, LoadedIs, NoneAssumption DEF Op
<1>4. Goto(c, "complete") \/ Goto(c, "commit_payload") BY DEF Seal
<1>5. QED BY <1>1, <1>2, <1>3, <1>4, PrepareGotoKeeps DEF Onward

LEMMA CommitPayloadKeeps ==
  ASSUME ApplyInv, NEW c \in Calls, CommitPayload(c)
  PROVE  ApplyInv' /\ Onward
<1> DEFINE k == Op(c).sealed + 1
           next == [Op(c) EXCEPT !.sealed = k, !.status = Resumed(Op(c)), !.failed = FALSE]
<1>1. Quiet(c) /\ UNCHANGED <<tree, temps, edited>>
  BY DEF CommitPayload, UnchangedProject, UnchangedPackage, Quiet
<1>2. /\ calls[c].pc \in Loaded /\ calls[c].pc \in SharedSteps
      /\ "seal" \in SharedSteps /\ "seal" \in Pcs
      /\ "seal" \notin {"publish_plan", "lock_exclusive"} \cup ExclusiveSteps
  BY DEF CommitPayload, At, Loaded, SharedSteps, Pcs, ExclusiveSteps
<1>3. Op(c) \in Operations /\ Op(c).plan \in {None, plan} BY <1>2, LoadedIs
<1>4. Commit(c, next, operation.sealed >= k, "seal") BY DEF CommitPayload
<1>5. next = [Op(c) EXCEPT !.plan = Op(c).plan, !.sealed = k,
                           !.status = Resumed(Op(c)), !.failed = FALSE]
  BY <1>3, Zenon DEF Operations
<1>6. Resumed(Op(c)) \in Statuses /\ k \in Nat BY <1>3 DEF Resumed, Operations, Statuses
<1> HIDE DEF next, k
<1>7. next \in Operations /\ next.plan \in {None, plan} /\ Durable(next) >= Durable(Op(c))
  BY <1>2, <1>3, <1>5, <1>6, AdvancedCopy, Zenon
<1>8. (operation.sealed >= k) \in BOOLEAN OBVIOUS
<1>9. QED BY <1>1, <1>2, <1>4, <1>7, <1>8, CommitKeeps, Zenon

LEMMA CommitPreparedKeeps ==
  ASSUME ApplyInv, NEW c \in Calls, CommitPrepared(c)
  PROVE  ApplyInv' /\ Onward
<1> DEFINE next == [Op(c) EXCEPT !.status = "prepared", !.failed = FALSE]
           advance == operation.status = "prepared" /\ operation.plan = plan
<1>1. Quiet(c) /\ UNCHANGED <<tree, temps, edited>>
  BY DEF CommitPrepared, UnchangedProject, UnchangedPackage, Quiet
<1>2. /\ calls[c].pc \in Loaded
      /\ "load" \notin SharedSteps /\ "load" \in Pcs
      /\ "load" \notin {"publish_plan", "lock_exclusive"} \cup ExclusiveSteps
  BY DEF CommitPrepared, At, Loaded, SharedSteps, Pcs, ExclusiveSteps
<1>3. Op(c) \in Operations /\ Op(c).plan \in {None, plan} BY <1>2, LoadedIs
<1>4. CASE ~PackageWhole(Op(c))
  <2>1. Leave(c) /\ UNCHANGED operation BY <1>4 DEF CommitPrepared
  <2>2. QED BY <1>1, <2>1, LeaveStepKeeps
<1>5. CASE PackageWhole(Op(c))
  <2>1. Commit(c, next, advance, "load") BY <1>5 DEF CommitPrepared
  <2>2. next = [Op(c) EXCEPT !.plan = Op(c).plan, !.sealed = Op(c).sealed,
                             !.status = "prepared", !.failed = FALSE]
    BY <1>3, Zenon DEF Operations
  <2>3. "prepared" \in Statuses /\ Op(c).sealed \in Nat BY <1>3 DEF Operations, Statuses
  <2> HIDE DEF next
  <2>4. next \in Operations /\ next.plan \in {None, plan} /\ Durable(next) >= Durable(Op(c))
    BY <1>2, <1>3, <2>2, <2>3, AdvancedCopy, Zenon
  <2>5. advance \in BOOLEAN OBVIOUS
  <2> HIDE DEF advance
  <2>6. QED BY <1>1, <1>2, <2>1, <2>4, <2>5, CommitKeeps
<1>6. QED BY <1>4, <1>5

LEMMA PrepareKeeps ==
  ASSUME ApplyInv, NEW c \in Calls, PrepareStep(c)
  PROVE  ApplyInv' /\ Onward /\ UNCHANGED <<tree, temps, edited>>
<1>1. ApplyInv' /\ Onward
  BY LockSharedKeeps, OpenOperationKeeps, ObserveKeeps, CreateOperationKeeps, ProbeKeeps,
     BuildPlanKeeps, PublishPlanKeeps, CommitPlanKeeps, SealKeeps, CommitPayloadKeeps,
     CommitPreparedKeeps DEF PrepareStep
<1>2. UNCHANGED <<tree, temps, edited>>
  BY DEF PrepareStep, LockShared, OpenOperation, Observe, CreateOperation, Probe, BuildPlan,
         PublishPlan, CommitPlan, Seal, CommitPayload, CommitPrepared, UnchangedProject
<1>3. QED BY <1>1, <1>2

-----------------------------------------------------------------------------
(* The step a writer is at. *)

\* A writer's plan is the review's, and its next step is one of the raw steps.
LEMMA WriterPlan ==
  ASSUME ApplyInv, NEW c \in Calls, calls[c].pc \in {"lock_exclusive"} \cup ExclusiveSteps
  PROVE  /\ plan # None /\ plan = PlanOf(review) /\ Op(c).plan = plan
         /\ plan.steps = Ordered(RawSteps(review)) /\ Plannable(review) /\ review \in Reviews
         /\ DOMAIN plan.steps = 1..Len(plan.steps) /\ Len(plan.steps) \in Nat
         /\ calls[c].pc \in Loaded /\ calls[c].completed \in Nat
<1>1. WriterReady(c) /\ JournalTrue /\ calls[c] \in Call BY DEF ApplyInv, CallTrue
<1>2. plan # None /\ plan = PlanOf(review) /\ Op(c).plan = plan /\ Plannable(review)
        /\ review \in Reviews
  BY <1>1 DEF WriterReady, JournalTrue, Op
<1>3. plan.steps = Ordered(RawSteps(review)) BY <1>2 DEF PlanOf
<1>4. calls[c].pc \in Loaded /\ calls[c].completed \in Nat BY <1>1 DEF Loaded, Call
<1>5. DOMAIN plan.steps = 1..Len(plan.steps) /\ Len(plan.steps) \in Nat BY <1>3, OrderedIs
<1>6. QED BY <1>2, <1>3, <1>4, <1>5

LEMMA StepIs ==
  ASSUME ApplyInv, NEW c \in Calls, calls[c].pc \in ExclusiveSteps,
         calls[c].completed < Len(plan.steps)
  PROVE  /\ StepIndex(c) \in DOMAIN plan.steps /\ StepOf(c) \in RawSteps(review)
         /\ PathOf(c) \in Transformed(review) /\ PathOf(c) \in Paths
         /\ StepIndex(c) \in StepsOn(plan.steps, PathOf(c))
<1>1. /\ plan.steps = Ordered(RawSteps(review)) /\ calls[c].completed \in Nat
      /\ DOMAIN plan.steps = 1..Len(plan.steps) /\ Len(plan.steps) \in Nat
  BY WriterPlan
<1>2. StepIndex(c) \in DOMAIN plan.steps BY <1>1 DEF StepIndex
<1>3. StepOf(c) \in RawSteps(review) BY <1>1, <1>2, OrderedIs DEF StepOf
<1>4. PathOf(c) \in Transformed(review) BY <1>3, RawStepIs DEF PathOf
<1>5. QED BY <1>2, <1>3, <1>4 DEF Transformed, Changes, StepsOn, PathOf, StepOf

\* A step starts at its before state: an earlier step on the path can only be the
\* removal that makes room for a creation.
LEMMA ModelStateIs ==
  ASSUME NEW r, plan.steps = Ordered(RawSteps(r)), NEW k \in DOMAIN plan.steps
  PROVE  ModelState(plan, k) = plan.steps[k].before
<1> DEFINE p == plan.steps[k].path
           earlier == {l \in StepsOn(plan.steps, p) : l < k}
<1>1. /\ plan.steps \in Seq(RawSteps(r)) /\ DOMAIN plan.steps = 1..Len(plan.steps)
      /\ Len(plan.steps) \in Nat
      /\ \A i, j \in DOMAIN plan.steps : i < j => Precedes(plan.steps[i], plan.steps[j])
  BY OrderedIs
<1>2. CASE earlier = {} BY <1>2 DEF ModelState
<1>3. CASE earlier # {}
  <2>1. ASSUME NEW l \in earlier
        PROVE  /\ plan.steps[l] \in RawSteps(r) /\ plan.steps[k] \in RawSteps(r)
               /\ plan.steps[l].after = Absent /\ plan.steps[k].before = Absent
               /\ Phase(plan.steps[l]) = 10
    <3>1. /\ l \in DOMAIN plan.steps /\ plan.steps[l].path = p /\ l < k
          /\ plan.steps[l] \in RawSteps(r) /\ plan.steps[k] \in RawSteps(r)
      BY <1>1 DEF StepsOn
    <3>2. Precedes(plan.steps[l], plan.steps[k]) BY <1>1, <3>1
    <3>3. Phase(plan.steps[l]) # Phase(plan.steps[k])
      <4>1. ~Precedes(plan.steps[l], plan.steps[l]) BY <3>1, PrecedesIsStrict
      <4>2. QED BY <3>1, <3>2, <4>1, RawStepsDiffer
    <3>4. Phase(plan.steps[l]) < Phase(plan.steps[k]) BY <3>2, <3>3 DEF Precedes
    <3>5. Removal(r, plan.steps[l]) /\ Creation(r, plan.steps[k]) BY <3>1, <3>4, RawStepsPair
    <3>6. QED BY <3>1, <3>5 DEF Removal, Creation
  <2>2. \A l, m \in earlier : l = m
    <3> SUFFICES ASSUME NEW l \in earlier, NEW m \in earlier, l < m PROVE FALSE BY <1>1 DEF StepsOn
    <3>1. plan.steps[l] = plan.steps[m] BY <2>1, RawStepsDiffer DEF StepsOn
    <3>2. Precedes(plan.steps[l], plan.steps[m]) BY <1>1 DEF StepsOn
    <3>3. QED BY <2>1, <3>1, <3>2, PrecedesIsStrict
  <2>3. PICK l \in earlier : TRUE BY <1>3
  <2>4. LastOf(earlier) = l
    <3>1. l \in earlier /\ \A m \in earlier : m <= l BY <1>1, <2>2 DEF StepsOn
    <3> HIDE DEF earlier
    <3>2. LastOf(earlier) \in earlier BY <3>1 DEF LastOf
    <3>3. QED BY <2>2, <3>2
  <2>5. ModelState(plan, k) = plan.steps[l].after BY <1>3, <2>4 DEF ModelState
  <2>6. QED BY <2>1, <2>3, <2>5
<1>4. QED BY <1>2, <1>3

\* What a step of each kind does.
LEMMA KindIs ==
  ASSUME NEW r \in Reviews, NEW s \in RawSteps(r)
  PROVE  /\ s.kind \in {"remove_leaf", "remove_directory", "create_directory", "set_mode"}
                         \cup Publications
         /\ s.kind = "remove_leaf" => ~IsDirectory(s.before) /\ s.after = Absent
         /\ s.kind = "remove_directory" => IsDirectory(s.before) /\ s.after = Absent
         /\ s.kind = "create_directory" => s.before = Absent /\ s.after = Directory(s.after.mode)
         /\ s.kind = "set_mode" => s.before.kind = s.after.kind /\ s.before.data = s.after.data
         /\ s.kind \in Publications =>
              ~IsDirectory(s.before) /\ ~IsDirectory(s.after) /\ s.after # Absent
         /\ s.kind \in {"remove_leaf", "remove_directory"} => s.before # Absent
         /\ s.after = [kind |-> s.after.kind, mode |-> s.after.mode, data |-> s.after.data]
         /\ s.after.kind = "absent" => s.after = Absent
<1> DEFINE old == r.operator[s.path]
           new == r.result[s.path]
<1>1. s.path \in Paths BY RawStepIs DEF Transformed, Changes
<1>2. IsNode(old) /\ IsNode(new) BY <1>1, ReviewsAssumption, Zenon DEF IsProject
<1> HIDE DEF old, new
<1>3. /\ old.kind = "directory" => old = Directory(old.mode)
      /\ new.kind = "directory" => new = Directory(new.mode)
  BY <1>2 DEF IsNode, Absent, Directory, File, Symlink
<1>4. /\ new.kind \in {"absent", "directory", "regular_file", "symlink"}
      /\ new.kind = "absent" => new = Absent
  BY <1>2 DEF IsNode, Absent, Directory, File, Symlink
<1>a. /\ \A node : IsNode(node) =>
           node = [kind |-> node.kind, mode |-> node.mode, data |-> node.data]
      /\ IsNode(Absent)
  BY DEF IsNode, Absent, Directory, File, Symlink
<1>5. CASE Removal(r, s)
  <2>1. s.kind = RemoveKind(old) /\ s.before = old /\ s.after = Absent /\ old # Absent
    BY <1>5 DEF Removal, old
  <2>2. s.after = [kind |-> s.after.kind, mode |-> s.after.mode, data |-> s.after.data]
    BY <1>a, <2>1
  <2>3. QED BY <2>1, <2>2 DEF RemoveKind, Publications
<1>6. CASE Creation(r, s)
  <2>1. s.kind = CreateKind(new) /\ s.before = Absent /\ s.after = new /\ new # Absent
    BY <1>6 DEF Creation, new
  <2>2. /\ s.after = [kind |-> s.after.kind, mode |-> s.after.mode, data |-> s.after.data]
        /\ s.after.kind = "absent" => s.after = Absent
    BY <1>2, <1>4, <1>a, <2>1
  <2>3. QED BY <1>3, <1>4, <2>1, <2>2 DEF CreateKind, Publications, IsDirectory, Absent
<1>7. CASE Replacement(r, s)
  <2>1. /\ s.kind = CreateKind(new) /\ s.before = old /\ s.after = new
        /\ old.kind = new.kind /\ old.data # new.data
    BY <1>7 DEF Replacement, old, new
  <2>2. new.kind # "directory" BY <1>3, <2>1 DEF Directory
  <2>3. new # Absent
    <3>1. old.kind = "absent" => old = Absent BY <1>2 DEF IsNode, Absent, Directory, File, Symlink
    <3>2. QED BY <2>1, <3>1 DEF Absent
  <2>4. /\ s.after = [kind |-> s.after.kind, mode |-> s.after.mode, data |-> s.after.data]
        /\ s.after.kind = "absent" => s.after = Absent
    BY <1>2, <1>4, <1>a, <2>1
  <2>5. QED BY <2>1, <2>2, <2>3, <2>4 DEF CreateKind, Publications, IsDirectory
<1>8. CASE Retouch(r, s)
  <2>1. s.kind = "set_mode" /\ s.before.kind = s.after.kind /\ s.before.data = s.after.data
    BY <1>8 DEF Retouch
  <2>2. /\ s.after = [kind |-> s.after.kind, mode |-> s.after.mode, data |-> s.after.data]
        /\ s.after.kind = "absent" => s.after = Absent
    BY <1>2, <1>4, <1>8, <1>a DEF Retouch, new
  <2>3. QED BY <2>1, <2>2 DEF Publications
<1>9. QED BY <1>5, <1>6, <1>7, <1>8, RawStepIs

-----------------------------------------------------------------------------
(* The writer's moves. *)

\* A writer that goes on inside its section with a copy of the journal.
LEMMA WriterMoves ==
  ASSUME ApplyInv, NEW c \in Calls, calls[c].pc \in ExclusiveSteps, NEW r \in Call,
         Becomes(c, r), Quiet(c), ProjectTyped', JournalTrue',
         r.pc \in ExclusiveSteps \ Altering, r.op # None, ValidOperation(r.op),
         r.op.plan = plan, r.current => operation' = r.op,
         r.completed <= Len(plan.steps),
         r.pc \in InStep => r.completed < Len(plan.steps),
         "late_call" \notin lapses' => r.completed = Durable(r.op),
         r.pc \in Holding => r.temp \in DOMAIN temps' /\ temps'[r.temp].owner = "writer",
         r.pc \in Publishing =>
           r.completed = calls[c].completed /\ StepOf(c).kind \in Publications
  PROVE  ApplyInv'
<1>1. calls'[c] = r /\ plan' = plan BY DEF Becomes, Quiet
<1>2. LockHeld(c) BY <1>1, SharedAreLoaded DEF LockHeld
<1>3. CopyTrue(c)' BY <1>1 DEF CopyTrue
<1>4. plan # None BY WriterPlan
<1>5. WriterReady(c)' BY <1>1, <1>4 DEF WriterReady, Durable
<1>6. TempOurs(c)' /\ PathViewed(c)'
  <2>1. {"chmod", "set_mode", "replace"} \subseteq Altering BY DEF Altering
  <2>2. r.pc \in Publishing => StepOf(c)' = StepOf(c) BY <1>1 DEF StepOf, StepIndex
  <2>3. QED BY <1>1, <2>1, <2>2 DEF TempOurs, PathViewed, KindAt
<1>7. PlanAdmitted(c)' BY <1>1 DEF PlanAdmitted, ExclusiveSteps
<1>8. QED BY <1>2, <1>3, <1>5, <1>6, <1>7, QuietFrames, StepKeeps DEF CallTrue

\* What a writer's copy says of its progress.
LEMMA CopyIs ==
  ASSUME ApplyInv, NEW c \in Calls, calls[c].pc \in ExclusiveSteps
  PROVE  /\ Op(c) \in Operations /\ ValidOperation(Op(c)) /\ Op(c).plan = plan
         /\ Durable(Op(c)) \in Nat /\ Durable(Op(c)) <= Len(plan.steps)
         /\ ActiveOf(Op(c)) \in Intents \cup {None}
         /\ ActiveOf(Op(c)) # None => ActiveOf(Op(c)).step = Durable(Op(c)) + 1
         /\ calls[c].current => operation = Op(c)
<1>1. /\ Op(c) \in Operations /\ ValidOperation(Op(c)) /\ Op(c).plan = plan
      /\ Len(plan.steps) \in Nat /\ calls[c].current => operation = Op(c)
  BY WriterPlan, LoadedIs
<1>2. ValidExecution(Op(c)) BY <1>1 DEF ValidOperation
<1>3. CASE Op(c).execution = None
  <2>1. Durable(Op(c)) = 0 /\ ActiveOf(Op(c)) = None BY <1>3 DEF Durable, ActiveOf
  <2>2. 0 <= Len(plan.steps) BY <1>1
  <2>3. QED BY <1>1, <2>1, <2>2
<1>4. CASE Op(c).execution # None
  <2>1. /\ Durable(Op(c)) = Op(c).execution.completed
        /\ ActiveOf(Op(c)) = Op(c).execution.active
        /\ Op(c).execution \in Executions
    BY <1>1, <1>4 DEF Durable, ActiveOf, Operations
  <2>2. QED BY <1>1, <1>2, <1>4, <2>1 DEF ValidExecution, Executions
<1>5. QED BY <1>3, <1>4

LEMMA WithIs ==
  ASSUME ApplyInv, NEW c \in Calls, calls[c].pc \in ExclusiveSteps,
         NEW state \in Statuses, NEW e \in Executions
  PROVE  /\ With(c, state, e) \in Operations /\ With(c, state, e).plan = plan
         /\ With(c, state, e).status = state /\ With(c, state, e).execution = e
         /\ With(c, state, e).failed = (state \in {"conflict", "recovery_required"})
         /\ Durable(With(c, state, e)) = e.completed
<1>1. Op(c) \in Operations /\ Op(c).plan = plan BY CopyIs
<1>2. /\ With(c, state, e) \in Operations /\ With(c, state, e).plan = plan
      /\ With(c, state, e).status = state /\ With(c, state, e).execution = e
      /\ With(c, state, e).failed = (state \in {"conflict", "recovery_required"})
  <2> DEFINE f == state \in {"conflict", "recovery_required"}
             w == With(c, state, e)
  <2>1. f \in BOOLEAN OBVIOUS
  <2>2. w = [Op(c) EXCEPT !.status = state, !.execution = e, !.failed = f] BY DEF With
  <2> HIDE DEF f, w
  <2>3. w = [status |-> state, failed |-> f, plan |-> Op(c).plan, sealed |-> Op(c).sealed,
             execution |-> e]
    BY <1>1, <2>2, Zenon DEF Operations
  <2>4. w \in Operations /\ w.plan = plan /\ w.status = state /\ w.execution = e /\ w.failed = f
    BY <1>1, <2>1, <2>3 DEF Operations
  <2>5. QED BY <2>4 DEF f, w
<1>3. e # None BY NoneAssumption
<1>4. QED BY <1>2, <1>3 DEF Durable

\* A writer that refuses keeps everything.
LEMMA RefusalKeeps ==
  ASSUME ApplyInv, NEW c \in Calls, calls[c].pc \in Started, NEW active \in Intents \cup {None},
         \/ Record(c, Refusal(c, active))
         \/ Record(c, With(c, "recovery_required", Execution(calls[c].completed, active))),
         Quiet(c), ProjectTyped'
  PROVE  ApplyInv' /\ Onward
<1>1. calls[c].pc \in ExclusiveSteps BY DEF Started
<1>2. /\ calls[c].completed \in Nat /\ calls[c].pc \in Loaded /\ WriterReady(c)
      /\ Op(c).plan = plan
  BY <1>1, WriterPlan DEF ApplyInv, CallTrue
<1>3. PICK state \in Statuses, a \in Intents \cup {None} :
        Record(c, With(c, state, Execution(calls[c].completed, a)))
  <2>1. "conflict" \in Statuses /\ "recovery_required" \in Statuses BY DEF Statuses
  <2>2. QED BY <2>1 DEF Refusal
<1> DEFINE e == Execution(calls[c].completed, a)
           last == With(c, state, e)
<1>4. e \in Executions /\ e.completed = calls[c].completed BY <1>2 DEF Execution, Executions
<1>5. "late_call" \notin lapses => calls[c].completed = Durable(Op(c)) BY <1>2 DEF WriterReady, Op
<1>6. Record(c, last) BY <1>3
<1> HIDE DEF e
<1>7. last \in Operations /\ last.plan = plan /\ Durable(last) = calls[c].completed
  BY <1>1, <1>4, WithIs
<1>8. "late_call" \notin lapses => Durable(last) >= Durable(Op(c)) BY <1>2, <1>5, <1>7
<1> HIDE DEF last
<1>9. QED BY <1>2, <1>6, <1>7, <1>8, RecordKeeps

LEMMA LoadForExecutionKeeps ==
  ASSUME ApplyInv, NEW c \in Calls, LoadForExecution(c)
  PROVE  ApplyInv' /\ Onward
<1>1. /\ Quiet(c) /\ UNCHANGED <<tree, temps, edited>> /\ UNCHANGED operation
      /\ calls[c].pc = "load"
  BY DEF LoadForExecution, UnchangedProject, UnchangedPackage, Quiet, At
<1>2. CASE Leave(c) BY <1>1, <1>2, LeaveStepKeeps
<1>3. CASE /\ operation # None /\ PackageWhole(operation)
           /\ calls' = [calls EXCEPT ![c].op = operation, ![c].current = TRUE,
                                     ![c].pc = "lock_exclusive"]
  <2>1. calls \in [Calls -> Call] /\ JournalTrue /\ operation \in Operations
    BY <1>3 DEF ApplyInv, JournalTrue
  <2> DEFINE r == Copied(c, operation, "lock_exclusive")
  <2>2. r \in Call /\ r.pc = "lock_exclusive" /\ r.op = operation
    BY <2>1, Zenon DEF Call, Copied, Pcs
  <2>3. Becomes(c, r)
    <3>1. calls' = [calls EXCEPT ![c] = r] BY <1>3, Zenon DEF Copied
    <3> HIDE DEF r
    <3>2. QED BY <1>1, <2>1, <2>2, <3>1, AloneBecomes, Zenon
  <2> HIDE DEF r
  <2>4. calls'[c].pc = "lock_exclusive" /\ calls'[c].op = operation BY <2>2, <2>3 DEF Becomes
  <2>5. LockHeld(c) BY <2>4 DEF LockHeld, SharedSteps, ExclusiveSteps
  <2>6. JournalTrue' /\ ProjectTyped' BY <1>1, JournalKept, ProjectSame DEF Quiet
  <2>7. CallTrue(c)'
    <3>1. plan' # None /\ operation.plan = plan' BY <1>1, <1>3 DEF PackageWhole, Quiet
    <3>2. CopyTrue(c)' BY <1>1, <1>3, <2>1, <2>4, <3>1 DEF CopyTrue, JournalTrue
    <3>3. WriterReady(c)' BY <2>4, <3>1 DEF WriterReady, Started, InStep, ExclusiveSteps
    <3>4. TempOurs(c)' /\ PathViewed(c)' /\ PlanAdmitted(c)'
      BY <2>4 DEF TempOurs, PathViewed, KindAt, Altering, Publishing, PlanAdmitted, Holding
    <3>5. QED BY <3>2, <3>3, <3>4 DEF CallTrue
  <2>8. QED BY <1>1, <2>3, <2>5, <2>6, <2>7, QuietFrames, StepKeeps DEF Onward
<1>4. QED BY <1>2, <1>3 DEF LoadForExecution

LEMMA LockExclusiveKeeps ==
  ASSUME ApplyInv, NEW c \in Calls, LockExclusive(c)
  PROVE  ApplyInv' /\ Onward
<1>1. /\ Quiet(c) /\ UNCHANGED <<tree, temps, edited>> /\ UNCHANGED operation
      /\ calls[c].pc = "lock_exclusive"
  BY DEF LockExclusive, UnchangedProject, UnchangedPackage, Quiet, At
<1>2. CASE HeldIn(SharedSteps \cup ExclusiveSteps)
  BY <1>1, <1>2, LeaveStepKeeps DEF LockExclusive, AcquireExclusive
<1>3. CASE ~HeldIn(SharedSteps \cup ExclusiveSteps)
  <2>1. Goto(c, "walk") BY <1>3 DEF LockExclusive, AcquireExclusive
  <2>2. /\ "walk" \in Pcs /\ "walk" \notin SharedSteps \cup Started \cup InStep \cup Holding
        /\ "walk" \notin Altering \cup Publishing
    BY DEF Pcs, SharedSteps, ExclusiveSteps, Started, InStep, Holding, Altering, Publishing
  <2>3. calls[c].op # None
    <3>1. calls[c].pc \in Loaded BY <1>1 DEF Loaded
    <3>2. QED BY <3>1, LoadedIs, NoneAssumption DEF Op
  <2>4. ProjectTyped' BY <1>1, ProjectSame
  <2>5. QED BY <1>1, <1>3, <2>1, <2>2, <2>3, <2>4, GotoKeeps, Zenon DEF Onward
<1>4. QED BY <1>2, <1>3

LEMMA ApplyingIsValid ==
  ASSUME ApplyInv, NEW c \in Calls, calls[c].pc \in ExclusiveSteps, NEW e \in Executions,
         e.completed <= Len(plan.steps),
         e.active # None => e.active.step = e.completed + 1
  PROVE  ValidOperation(With(c, "applying", e))
<1> DEFINE w == With(c, "applying", e)
<1>1. "applying" \in Statuses BY DEF Statuses
<1>2. /\ w.plan = plan /\ w.status = "applying" /\ w.execution = e
      /\ w.failed = ("applying" \in {"conflict", "recovery_required"})
  BY <1>1, WithIs
<1> HIDE DEF w
<1>3. e # None /\ plan # None BY NoneAssumption, WriterPlan
<1>4. ValidExecution(w) BY <1>2, <1>3 DEF ValidExecution, Running
<1>5. w.failed = (w.status \in {"failed", "conflict", "recovery_required"})
  <2>1. ("applying" \in {"conflict", "recovery_required"}) = FALSE OBVIOUS
  <2>2. (w.status \in {"failed", "conflict", "recovery_required"}) = FALSE BY <1>2
  <2>3. QED BY <1>2, <2>1, <2>2
<1>6. w.status # "prepared" /\ w.plan # None BY <1>2, <1>3
<1>7. ValidOperation(w) BY <1>4, <1>5, <1>6, Zenon DEF ValidOperation
<1>8. QED BY <1>7 DEF w

\* A stored operation that has an execution is one of this plan.
LEMMA StoredIs ==
  ASSUME ApplyInv, operation # None, operation.execution # None
  PROVE  /\ operation \in Operations /\ ValidOperation(operation) /\ operation.plan = plan
         /\ ActiveOf(operation) \in Intents \cup {None}
<1>1. operation \in Operations /\ ValidOperation(operation) /\ operation.plan \in {None, plan}
  BY DEF ApplyInv, JournalTrue
<1>2. operation.status \in Running BY <1>1 DEF ValidOperation, ValidExecution
<1>3. operation.plan # None BY <1>1, <1>2 DEF ValidOperation
<1>4. ActiveOf(operation) \in Intents \cup {None} BY <1>1 DEF ActiveOf, Operations, Executions
<1>5. QED BY <1>1, <1>3, <1>4

LEMMA WalkKeeps ==
  ASSUME ApplyInv, NEW c \in Calls, Walk(c)
  PROVE  ApplyInv' /\ Onward
<1> DEFINE op == Op(c)
           n == Durable(op)
           started == [calls EXCEPT ![c].completed = n, ![c].intent = ActiveOf(op),
                                    ![c].pc = "step"]
           next == With(c, "applying", Execution(n, ActiveOf(op)))
           first == [calls[c] EXCEPT !.completed = n, !.intent = ActiveOf(op), !.pc = "step"]
<1>1. /\ calls[c].pc = "walk" /\ UNCHANGED <<tree, temps, edited>> /\ Quiet(c)
      /\ calls[c].pc \in ExclusiveSteps /\ calls[c].pc \in Loaded
  BY Zenon DEF Walk, UnchangedProject, UnchangedPackage, Quiet, At, ExclusiveSteps, Loaded
<1>2. /\ op \in Operations /\ ValidOperation(op) /\ op.plan = plan
      /\ n \in Nat /\ n <= Len(plan.steps)
      /\ ActiveOf(op) \in Intents \cup {None}
      /\ ActiveOf(op) # None => ActiveOf(op).step = n + 1
      /\ calls[c].current => operation = op
  BY <1>1, CopyIs
<1>3. calls \in [Calls -> Call] /\ op = calls[c].op /\ ProjectTyped'
  BY <1>1, ProjectSame DEF ApplyInv, Op
<1>4. /\ "step" \in ExclusiveSteps \ Altering /\ "step" \notin InStep \cup Holding \cup Publishing
      /\ "step" \in Pcs
  BY DEF ExclusiveSteps, InStep, Started, Holding, Pcs, Altering, Publishing
<1>5. /\ first \in Call /\ first.pc = "step" /\ first.op = op /\ first.completed = n
      /\ first.current = calls[c].current
      /\ started = [calls EXCEPT ![c] = first] /\ started[c] = first
  <2>1. calls[c] \in Call BY <1>3
  <2>2. started = [calls EXCEPT ![c] = first] BY Zenon
  <2>3. started[c] = first BY <1>3, <2>2
  <2>4. /\ first \in Call /\ first.pc = "step" /\ first.op = op /\ first.completed = n
        /\ first.current = calls[c].current
    BY <1>2, <1>3, <1>4, <2>1, Zenon DEF Call
  <2>5. QED BY <2>2, <2>3, <2>4
<1>6. Execution(n, ActiveOf(op)) \in Executions
      /\ Execution(n, ActiveOf(op)).completed = n
      /\ Execution(n, ActiveOf(op)).active = ActiveOf(op)
  BY <1>2 DEF Execution, Executions
<1>7. /\ next \in Operations /\ next.plan = plan /\ Durable(next) = n /\ ValidOperation(next)
      /\ next.execution # None
  <2>1. "applying" \in Statuses BY DEF Statuses
  <2> DEFINE e == Execution(n, ActiveOf(op))
  <2>2. e \in Executions /\ e.completed = n /\ e.active = ActiveOf(op) BY <1>6
  <2>3. e # None BY <2>2, NoneAssumption
  <2> HIDE DEF e, op, n
  <2>4. QED BY <1>1, <1>2, <2>1, <2>2, <2>3, WithIs, ApplyingIsValid DEF e
<1> HIDE DEF op, n, first, started
<1>8. CASE ~WalkPasses(tree, plan, n, TRUE)
  <2> DEFINE state == IF n = 0 THEN "conflict" ELSE "recovery_required"
             e == Execution(n, IF n = 0 THEN None ELSE ActiveOf(op))
             refused == [op EXCEPT !.failed = TRUE, !.status = state, !.execution = e]
  <2>1. Record(c, refused) BY <1>8 DEF Walk, op, n
  <2>2. e \in Executions /\ e.completed = n /\ state \in Statuses
    BY <1>2 DEF Execution, Executions, Statuses
  <2> HIDE DEF state, e
  <2>3. refused \in Operations /\ refused.plan = plan /\ refused.execution = e
    BY <1>2, <2>2, Zenon DEF Operations
  <2>4. e # None BY <2>2, NoneAssumption
  <2> HIDE DEF refused
  <2>5. Durable(refused) >= Durable(Op(c)) BY <1>2, <2>2, <2>3, <2>4 DEF Durable, op, n
  <2>6. QED BY <1>1, <1>3, <2>1, <2>3, <2>5, RecordKeeps
<1>9. CASE /\ calls' = started /\ UNCHANGED operation
  <2>4. Becomes(c, first) BY <1>3, <1>5, <1>9, AloneBecomes, Zenon
  <2>5. JournalTrue' BY <1>1, <1>9, JournalKept DEF Quiet
  <2>6. n = Durable(op) /\ op # None BY <1>2, NoneAssumption DEF n
  <2>7. ApplyInv' BY <1>1, <1>2, <1>3, <1>4, <1>5, <1>9, <2>4, <2>5, <2>6, WriterMoves
  <2>8. QED BY <1>9, <2>7 DEF Onward
<1>10. CASE /\ calls[c].current /\ operation' = next
            /\ calls' = [d \in Calls |-> IF d = c THEN [started[c] EXCEPT !.op = next]
                                         ELSE [calls[d] EXCEPT !.current = FALSE]]
  <2> DEFINE r == [first EXCEPT !.op = next]
  <2> HIDE DEF next
  <2>1. r \in Call /\ r.pc = "step" /\ r.op = next /\ r.completed = n BY <1>5, <1>7 DEF Call
  <2>2. [started[c] EXCEPT !.op = next] = r BY <1>5
  <2>4. calls' = [d \in Calls |-> IF d = c THEN r ELSE [calls[d] EXCEPT !.current = FALSE]]
    BY <1>10, <2>2
  <2> HIDE DEF r
  <2>5. Becomes(c, r) BY <1>3, <2>1, <2>4, StoredBecomes
  <2>6. JournalTrue' BY <1>1, <1>7, <1>10, JournalKept DEF Quiet
  <2>7. next # None BY <1>7, NoneAssumption
  <2>8. ApplyInv' BY <1>1, <1>2, <1>3, <1>4, <1>7, <1>10, <2>1, <2>5, <2>6, <2>7, WriterMoves
  <2>9. Onward BY <1>2, <1>7, <1>10 DEF Onward, n
  <2>10. QED BY <2>8, <2>9
<1>11. CASE /\ UNCHANGED operation /\ operation # None /\ operation.status = "applying"
            /\ calls' = [calls EXCEPT ![c] = [started[c] EXCEPT
                           !.op = operation, !.current = TRUE, !.intent = ActiveOf(operation)]]
            /\ lapses' = lapses \cup {"late_call"}
  <2>1. operation.execution # None
    BY <1>11 DEF ApplyInv, JournalTrue, ValidOperation, ValidExecution
  <2>2. /\ operation \in Operations /\ ValidOperation(operation) /\ operation.plan = plan
        /\ ActiveOf(operation) \in Intents \cup {None}
    BY <1>11, <2>1, StoredIs
  <2> DEFINE r == [first EXCEPT !.op = operation, !.current = TRUE, !.intent = ActiveOf(operation)]
  <2>3. r \in Call /\ r.pc = "step" /\ r.op = operation /\ r.completed = n
    BY <1>5, <2>2, Zenon DEF Call
  <2>4. calls' = [calls EXCEPT ![c] = r] BY <1>5, <1>11
  <2> HIDE DEF r
  <2>6. Becomes(c, r) BY <1>3, <1>11, <2>3, <2>4, AloneBecomes, Zenon
  <2>7. JournalTrue' BY <1>1, <1>11, JournalKept DEF Quiet
  <2>8. ApplyInv' BY <1>1, <1>2, <1>3, <1>4, <1>11, <2>2, <2>3, <2>6, <2>7, WriterMoves
  <2>9. QED BY <1>11, <2>8 DEF Onward
<1>12. CASE Leave(c) /\ UNCHANGED operation BY <1>1, <1>12, LeaveStepKeeps
<1>13. QED BY <1>8, <1>9, <1>10, <1>11, <1>12, Zenon DEF Walk, Advanced, op, n, started

-----------------------------------------------------------------------------
(* What a writer does to the project. *)

Safe == TreeSafe /\ TempsSafe

LEMMA SameIsSafe == UNCHANGED <<tree, temps>> => Safe
BY DEF Safe, TreeSafe, TempsSafe

\* A goto inside a writer's section.
LEMMA WriterGotoKeeps ==
  ASSUME ApplyInv, NEW c \in Calls, calls[c].pc \in Started, NEW pc \in Started,
         Goto(c, pc), UNCHANGED operation, Quiet(c), ProjectTyped',
         pc \in InStep => calls[c].completed < Len(plan.steps),
         pc \in Holding =>
           calls[c].temp \in DOMAIN temps' /\ temps'[calls[c].temp].owner = "writer",
         pc \in Altering \cup Publishing => KindAt(c, pc),
         pc \in Altering => PathOf(c) \in edited' \/ FoundAt(c, pc, tree'[PathOf(c)])
  PROVE  ApplyInv' /\ Onward
<1>1. /\ pc \in Pcs /\ pc \notin SharedSteps /\ pc \in ExclusiveSteps
      /\ pc # "publish_plan" /\ calls[c].pc \in ExclusiveSteps
  BY DEF Pcs, Started, SharedSteps, ExclusiveSteps
<1>2. calls[c].op # None BY <1>1, CopyIs, NoneAssumption DEF Op
<1>3. QED BY <1>1, <1>2, GotoKeeps DEF Onward

\* What a call found as it looked is what the plan says it should be.
LEMMA FoundIsPlanned ==
  ASSUME NEW c \in Calls, NEW pc \in Altering, KindAt(c, pc), NEW node, FoundAt(c, pc, node)
  PROVE  AsPlanned(StepOf(c), node)
<1>1. CASE pc \in {"mutate", "replace"} BY <1>1 DEF FoundAt, AsPlanned
<1>2. CASE pc = "chmod" BY <1>2 DEF FoundAt, KindAt, AsPlanned
<1>3. CASE pc = "set_mode" BY <1>3 DEF FoundAt, KindAt, AsPlanned
<1>4. QED BY <1>1, <1>2, <1>3 DEF Altering

\* A step writes its own path, which is as planned or as the operator left it, and loses
\* an object there only if it may.
LEMMA PathIsSafe ==
  ASSUME ApplyInv, NEW c \in Calls, calls[c].pc \in ExclusiveSteps,
         calls[c].completed < Len(plan.steps), NEW node, SetPath(c, node),
         PathOf(c) \in edited \/ AsPlanned(StepOf(c), tree[PathOf(c)]),
         Loses(tree[PathOf(c)], node) =>
           /\ StepOf(c).before # Absent /\ StepOf(c).kind # "set_mode"
           /\ IsDirectory(tree[PathOf(c)]) => node = Absent /\ EmptyAt(PathOf(c))
  PROVE  TreeSafe /\ tree' = [p \in Paths |-> tree'[p]] /\ tree'[PathOf(c)] = node
<1>1. tree = [p \in Paths |-> tree[p]] /\ PathOf(c) \in Paths BY StepIs DEF ApplyInv, ProjectTyped
<1>2. tree' = [p \in Paths |-> IF p = PathOf(c) THEN node ELSE tree[p]] BY <1>1 DEF SetPath
<1>3. StepWarrants(c) BY <1>1, <1>2 DEF StepWarrants
<1>4. QED BY <1>1, <1>2, <1>3 DEF TreeSafe

\* A writer that drops a temp of its own, or the name its rename freed.
LEMMA DropIsSafe ==
  ASSUME ApplyInv, NEW name, temps' = WithoutTemp(name),
         name \in DOMAIN temps /\ temps[name].owner = "operator" =>
           \E c \in Calls : Published(c) /\ calls[c].temp = name
  PROVE  /\ TempsSafe /\ temps' = [n \in DOMAIN temps' |-> temps'[n]]
         /\ IsFiniteSet(DOMAIN temps')
<1>1. temps' = [n \in DOMAIN temps \ {name} |-> temps[n]] /\ DOMAIN temps' = DOMAIN temps \ {name}
  BY DEF WithoutTemp
<1>2. IsFiniteSet(DOMAIN temps') BY <1>1, FS_Subset DEF ApplyInv, ProjectTyped
<1>3. QED BY <1>1, <1>2 DEF TempsSafe

LEMMA ReadyIs ==
  ASSUME ApplyInv, NEW c \in Calls, calls[c].pc \in ExclusiveSteps,
         calls[c].completed < Len(plan.steps), StepReady(tree, plan, StepIndex(c))
  PROVE  tree[PathOf(c)] = StepOf(c).before
BY WriterPlan, StepIs, ModelStateIs DEF StepReady, PathOf, StepOf

LEMMA RefuseKeeps ==
  ASSUME ApplyInv, NEW c \in Calls, calls[c].pc \in Started,
         Refuse(c) \/ RefuseForeignTemp(c), Quiet(c), ProjectTyped'
  PROVE  ApplyInv' /\ Onward
<1>1. ActiveOf(Op(c)) \in Intents \cup {None} BY CopyIs DEF Started
<1>2. QED BY <1>1, RefusalKeeps DEF Refuse, RefuseForeignTemp

\* Where a call is inside a step.
LEMMA InsideIs ==
  ASSUME ApplyInv, NEW c \in Calls, calls[c].pc \in InStep
  PROVE  /\ calls[c].pc \in ExclusiveSteps /\ calls[c].pc \in Started
         /\ calls[c] \in Call /\ calls \in [Calls -> Call]
         /\ calls[c].completed < Len(plan.steps) /\ calls[c].completed \in Nat
         /\ Len(plan.steps) \in Nat
         /\ StepOf(c) \in RawSteps(review) /\ PathOf(c) \in Paths /\ review \in Reviews
         /\ KindAt(c, calls[c].pc)
         /\ calls[c].pc \in Altering =>
              PathOf(c) \in edited \/ AsPlanned(StepOf(c), tree[PathOf(c)])
<1>1. calls[c].pc \in ExclusiveSteps /\ calls[c].pc \in Started BY DEF InStep, Started
<1>2. CallTrue(c) /\ calls[c] \in Call /\ calls \in [Calls -> Call] BY DEF ApplyInv
<1>3. /\ calls[c].completed < Len(plan.steps) /\ calls[c].completed \in Nat
      /\ Len(plan.steps) \in Nat /\ review \in Reviews
  BY <1>1, <1>2, WriterPlan DEF CallTrue, WriterReady
<1>4. StepOf(c) \in RawSteps(review) /\ PathOf(c) \in Paths BY <1>1, <1>3, StepIs
<1>5. /\ KindAt(c, calls[c].pc)
      /\ calls[c].pc \in Altering =>
           PathOf(c) \in edited \/ FoundAt(c, calls[c].pc, tree[PathOf(c)])
  BY <1>2 DEF CallTrue, PathViewed
<1>6. QED BY <1>1, <1>2, <1>3, <1>4, <1>5, FoundIsPlanned

LEMMA ExecuteStepKeeps ==
  ASSUME ApplyInv, NEW c \in Calls, ExecuteStep(c)
  PROVE  ApplyInv' /\ Onward /\ Safe
<1>1. /\ calls[c].pc = "step" /\ calls[c].pc \in ExclusiveSteps /\ calls[c].pc \in Started
      /\ Quiet(c) /\ UNCHANGED <<tree, temps>>
  BY DEF ExecuteStep, UnchangedPackage, Quiet, At, ExclusiveSteps, Started
<1>2. /\ calls[c].completed \in Nat /\ Len(plan.steps) \in Nat
      /\ calls[c].completed <= Len(plan.steps)
  BY <1>1, WriterPlan DEF ApplyInv, CallTrue, WriterReady
<1>3. Safe /\ ProjectTyped' BY <1>1, SameIsSafe DEF ProjectTyped, ApplyInv
<1>4. /\ {"progress", "final", "temp", "mutate"} \subseteq Started
      /\ {"progress", "final", "temp", "mutate"} \cap Holding = {}
      /\ {"progress", "final"} \cap (Altering \cup Publishing) = {}
      /\ "final" \notin InStep /\ "mutate" \notin Publishing /\ "temp" \notin Altering
  BY DEF Started, ExclusiveSteps, Holding, InStep, Altering, Publishing
<1>5. CASE Goto(c, "final") /\ UNCHANGED operation BY <1>1, <1>3, <1>4, <1>5, WriterGotoKeeps
<1>6. CASE calls[c].completed # Len(plan.steps) /\ Goto(c, "progress") /\ UNCHANGED operation
  <2>1. calls[c].completed < Len(plan.steps) BY <1>2, <1>6
  <2>2. QED BY <1>1, <1>3, <1>4, <1>6, <2>1, WriterGotoKeeps
<1>7. CASE Refuse(c) BY <1>1, <1>3, <1>7, RefuseKeeps
<1>8. CASE /\ calls[c].completed # Len(plan.steps) /\ StepReady(tree, plan, StepIndex(c))
           /\ Goto(c, IF StepOf(c).kind \in Publications THEN "temp" ELSE "mutate")
           /\ UNCHANGED operation
  <2> DEFINE pc == IF StepOf(c).kind \in Publications THEN "temp" ELSE "mutate"
  <2>1. calls[c].completed < Len(plan.steps) BY <1>2, <1>8
  <2>2. tree'[PathOf(c)] = StepOf(c).before BY <1>1, <1>8, <2>1, ReadyIs
  <2>3. /\ pc \in {"temp", "mutate"}
        /\ pc = "temp" => StepOf(c).kind \in Publications
    OBVIOUS
  <2> HIDE DEF pc
  <2>4. pc \in Altering \cup Publishing => KindAt(c, pc) BY <1>4, <2>3 DEF KindAt
  <2>5. FoundAt(c, pc, tree'[PathOf(c)]) BY <2>2, <2>3 DEF FoundAt
  <2>6. Goto(c, pc) /\ UNCHANGED operation BY <1>8 DEF pc
  <2>7. pc \in Started /\ pc \notin Holding BY <1>4, <2>3
  <2>8. QED BY <1>1, <1>3, <2>1, <2>4, <2>5, <2>6, <2>7, WriterGotoKeeps
<1>9. QED BY <1>5, <1>6, <1>7, <1>8 DEF ExecuteStep

\* A step that changes its path and no temp.
LEMMA PathKeeps ==
  ASSUME ApplyInv, NEW c \in Calls, calls[c].pc \in InStep, NEW node,
         SetPath(c, node), temps' = temps,
         PathOf(c) \in edited \/ AsPlanned(StepOf(c), tree[PathOf(c)]),
         Loses(tree[PathOf(c)], node) =>
           /\ StepOf(c).before # Absent /\ StepOf(c).kind # "set_mode"
           /\ IsDirectory(tree[PathOf(c)]) => node = Absent /\ EmptyAt(PathOf(c))
  PROVE  Safe /\ ProjectTyped' /\ tree'[PathOf(c)] = node
<1>1. ProjectTyped /\ calls[c].pc \in ExclusiveSteps /\ calls[c].completed < Len(plan.steps)
  BY InsideIs DEF ApplyInv
<1>2. TreeSafe /\ tree' = [p \in Paths |-> tree'[p]] /\ tree'[PathOf(c)] = node BY <1>1, PathIsSafe
<1>3. QED BY <1>1, <1>2 DEF Safe, TempsSafe, ProjectTyped

\* A step that goes on to look at what it left.
LEMMA VerifyNextKeeps ==
  ASSUME ApplyInv, NEW c \in Calls, calls[c].pc \in InStep, Goto(c, "verify"),
         UNCHANGED operation, Quiet(c), ProjectTyped'
  PROVE  ApplyInv' /\ Onward
<1>1. "verify" \in Started /\ "verify" \notin Holding \cup Altering \cup Publishing
  BY DEF Started, ExclusiveSteps, Holding, Altering, Publishing
<1>2. calls[c].pc \in Started /\ calls[c].completed < Len(plan.steps) BY InsideIs
<1>3. QED BY <1>1, <1>2, WriterGotoKeeps

\* The facts a mutation starts from.
LEMMA MutatingIs ==
  ASSUME ApplyInv, NEW c \in Calls, calls[c].pc \in Altering, UNCHANGED <<review, plan, lapses>>
  PROVE  /\ Quiet(c) /\ calls[c].pc \in InStep /\ calls[c].pc \in Started
         /\ PathOf(c) \in edited \/ AsPlanned(StepOf(c), tree[PathOf(c)])
         /\ StepOf(c) \in RawSteps(review) /\ review \in Reviews /\ KindAt(c, calls[c].pc)
         /\ calls[c].completed < Len(plan.steps)
<1>1. calls[c].pc \in InStep BY DEF Altering, InStep, Started, ExclusiveSteps
<1>2. QED BY <1>1, InsideIs DEF Quiet

LEMMA RemoveLeafKeeps ==
  ASSUME ApplyInv, NEW c \in Calls, RemoveLeaf(c)
  PROVE  ApplyInv' /\ Onward /\ Safe
<1>1. /\ calls[c].pc \in Altering /\ StepOf(c).kind = "remove_leaf"
      /\ UNCHANGED <<review, plan, lapses, temps, edited, operation>>
  BY DEF RemoveLeaf, Mutating, At, UnchangedElse, UnchangedView, UnchangedPackage, Altering
<1>2. /\ Quiet(c) /\ calls[c].pc \in InStep
      /\ PathOf(c) \in edited \/ AsPlanned(StepOf(c), tree[PathOf(c)])
      /\ StepOf(c) \in RawSteps(review) /\ review \in Reviews
  BY <1>1, MutatingIs
<1>3. CASE Leave(c) /\ UNCHANGED tree BY <1>1, <1>2, <1>3, LeaveStepKeeps, SameIsSafe
<1>4. CASE /\ ~IsDirectory(Seen(c)) /\ Goto(c, "verify")
           /\ IF Gone(c) THEN UNCHANGED tree ELSE SetPath(c, Absent)
  <2>1. (SetPath(c, Absent) /\ ~IsDirectory(tree[PathOf(c)])) \/ tree' = tree BY <1>4 DEF Seen
  <2>2. StepOf(c).before # Absent BY <1>1, <1>2, KindIs
  <2>3. Safe /\ ProjectTyped'
    <3>1. CASE SetPath(c, Absent) /\ ~IsDirectory(tree[PathOf(c)])
      BY <1>1, <1>2, <2>2, <3>1, PathKeeps
    <3>2. CASE tree' = tree BY <1>1, <3>2, SameIsSafe, ProjectSame
    <3>3. QED BY <2>1, <3>1, <3>2
  <2>4. QED BY <1>1, <1>2, <1>4, <2>3, VerifyNextKeeps
<1>5. QED BY <1>3, <1>4 DEF RemoveLeaf

LEMMA RemoveDirectoryKeeps ==
  ASSUME ApplyInv, NEW c \in Calls, RemoveDirectory(c)
  PROVE  ApplyInv' /\ Onward /\ Safe
<1>1. /\ calls[c].pc \in Altering /\ StepOf(c).kind = "remove_directory"
      /\ UNCHANGED <<review, plan, lapses, temps, edited>>
  BY DEF RemoveDirectory, Mutating, At, UnchangedElse, UnchangedView, UnchangedPackage, Altering
<1>2. /\ Quiet(c) /\ calls[c].pc \in InStep /\ calls[c].pc \in Started
      /\ PathOf(c) \in edited \/ AsPlanned(StepOf(c), tree[PathOf(c)])
      /\ StepOf(c) \in RawSteps(review) /\ review \in Reviews
  BY <1>1, MutatingIs
<1>3. tree' = tree => Safe /\ ProjectTyped' BY <1>1, SameIsSafe, ProjectSame
<1>4. CASE Goto(c, "verify") /\ UNCHANGED <<tree, operation>> BY <1>2, <1>3, <1>4, VerifyNextKeeps
<1>5. CASE Leave(c) /\ UNCHANGED <<tree, operation>> BY <1>1, <1>2, <1>3, <1>5, LeaveStepKeeps
<1>6. CASE Refuse(c) /\ UNCHANGED tree BY <1>2, <1>3, <1>6, RefuseKeeps
<1>7. CASE /\ Seen(c) # Absent /\ EmptyAt(PathOf(c)) /\ SetPath(c, Absent)
           /\ Goto(c, "verify") /\ UNCHANGED operation
  <2>1. StepOf(c).before # Absent BY <1>1, <1>2, KindIs
  <2>2. Safe /\ ProjectTyped' BY <1>1, <1>2, <1>7, <2>1, PathKeeps
  <2>3. QED BY <1>2, <1>7, <2>2, VerifyNextKeeps
<1>8. QED BY <1>4, <1>5, <1>6, <1>7 DEF RemoveDirectory

LEMMA CreateDirectoryKeeps ==
  ASSUME ApplyInv, NEW c \in Calls, CreateDirectory(c)
  PROVE  ApplyInv' /\ Onward /\ Safe
<1>1. /\ calls[c].pc \in Altering /\ StepOf(c).kind = "create_directory"
      /\ UNCHANGED <<review, plan, lapses, temps, edited>>
  BY DEF CreateDirectory, Mutating, At, UnchangedElse, UnchangedView, UnchangedPackage, Altering
<1>2. /\ Quiet(c) /\ calls[c].pc \in InStep /\ calls[c].pc \in Started
      /\ PathOf(c) \in edited \/ AsPlanned(StepOf(c), tree[PathOf(c)])
      /\ calls[c].completed < Len(plan.steps)
  BY <1>1, MutatingIs
<1>3. tree' = tree => Safe /\ ProjectTyped' BY <1>1, SameIsSafe, ProjectSame
<1>4. CASE Leave(c) /\ UNCHANGED <<tree, operation>> BY <1>1, <1>2, <1>3, <1>4, LeaveStepKeeps
<1>5. CASE Goto(c, "verify") /\ UNCHANGED <<tree, operation>> BY <1>2, <1>3, <1>5, VerifyNextKeeps
<1>6. CASE Refuse(c) /\ UNCHANGED tree BY <1>2, <1>3, <1>6, RefuseKeeps
<1>7. CASE /\ ~Gone(c) /\ Seen(c) = Absent /\ SetPath(c, Directory(PrivateMode))
           /\ Goto(c, "chmod") /\ UNCHANGED operation
  <2>1. tree[PathOf(c)] = Absent BY <1>7 DEF Seen
  <2>2. ~Loses(tree[PathOf(c)], Directory(PrivateMode)) BY <2>1 DEF Loses
  <2>3. Safe /\ ProjectTyped' /\ tree'[PathOf(c)] = Directory(PrivateMode)
    BY <1>1, <1>2, <1>7, <2>2, PathKeeps
  <2>4. KindAt(c, "chmod") /\ FoundAt(c, "chmod", tree'[PathOf(c)])
    BY <1>1, <2>3 DEF KindAt, FoundAt, Publishing
  <2>5. "chmod" \in Started /\ "chmod" \notin Holding BY DEF Started, ExclusiveSteps, Holding
  <2>6. QED BY <1>2, <1>7, <2>3, <2>4, <2>5, WriterGotoKeeps
<1>8. QED BY <1>4, <1>5, <1>6, <1>7 DEF CreateDirectory

LEMMA ChmodDirectoryKeeps ==
  ASSUME ApplyInv, NEW c \in Calls, ChmodDirectory(c)
  PROVE  ApplyInv' /\ Onward /\ Safe
<1>1. /\ calls[c].pc \in Altering /\ calls[c].pc = "chmod"
      /\ UNCHANGED <<review, plan, lapses, temps, edited, operation>>
  BY DEF ChmodDirectory, At, UnchangedElse, UnchangedView, UnchangedPackage, Altering
<1>2. /\ Quiet(c) /\ calls[c].pc \in InStep
      /\ PathOf(c) \in edited \/ AsPlanned(StepOf(c), tree[PathOf(c)])
      /\ StepOf(c) \in RawSteps(review) /\ review \in Reviews
      /\ StepOf(c).kind = "create_directory"
  BY <1>1, MutatingIs DEF KindAt
<1>3. CASE Leave(c) /\ UNCHANGED tree BY <1>1, <1>2, <1>3, LeaveStepKeeps, SameIsSafe
<1>4. CASE IsDirectory(Seen(c)) /\ SetPath(c, StepOf(c).after) /\ Goto(c, "verify")
  <2>1. IsDirectory(tree[PathOf(c)]) BY <1>4 DEF Seen, IsDirectory, Absent
  <2>2. StepOf(c).after.kind = "directory"
    <3> DEFINE after == StepOf(c).after
    <3>1. after = Directory(after.mode) BY <1>2, KindIs
    <3>2. \A mode : Directory(mode).kind = "directory" BY DEF Directory
    <3> HIDE DEF after
    <3>3. after.kind = "directory" BY <3>1, <3>2, Zenon
    <3>4. QED BY <3>3 DEF after
  <2>3. ~Loses(tree[PathOf(c)], StepOf(c).after) BY <2>1, <2>2 DEF Loses, IsDirectory
  <2>4. Safe /\ ProjectTyped' BY <1>1, <1>2, <1>4, <2>3, PathKeeps
  <2>5. QED BY <1>1, <1>2, <1>4, <2>4, VerifyNextKeeps
<1>5. QED BY <1>3, <1>4 DEF ChmodDirectory

LEMMA OpenForModeKeeps ==
  ASSUME ApplyInv, NEW c \in Calls, OpenForMode(c)
  PROVE  ApplyInv' /\ Onward /\ Safe
<1>1. /\ calls[c].pc \in Altering /\ StepOf(c).kind = "set_mode"
      /\ UNCHANGED <<review, plan, lapses, temps, tree>>
  BY DEF OpenForMode, Mutating, At, UnchangedPackage, Altering
<1>2. /\ Quiet(c) /\ calls[c].pc \in InStep /\ calls[c].pc \in Started
      /\ StepOf(c) \in RawSteps(review) /\ review \in Reviews
      /\ calls[c].completed < Len(plan.steps)
  BY <1>1, MutatingIs
<1>3. Safe /\ ProjectTyped' BY <1>1, SameIsSafe DEF ProjectTyped, ApplyInv
<1>4. CASE Leave(c) /\ UNCHANGED operation BY <1>2, <1>3, <1>4, LeaveQuietKeeps
<1>5. CASE Refuse(c) BY <1>2, <1>3, <1>5, RefuseKeeps
<1>6. CASE /\ Seen(c).kind # "absent"
           /\ Seen(c).kind = StepOf(c).after.kind /\ Seen(c).data = StepOf(c).after.data
           /\ Goto(c, "set_mode") /\ UNCHANGED operation
  <2>1. tree'[PathOf(c)] = Seen(c) BY <1>1, <1>6 DEF Seen, Absent
  <2>2. /\ StepOf(c).before.kind = StepOf(c).after.kind
        /\ StepOf(c).before.data = StepOf(c).after.data
    BY <1>1, <1>2, KindIs
  <2>3. KindAt(c, "set_mode") /\ FoundAt(c, "set_mode", tree'[PathOf(c)])
    BY <1>1, <1>6, <2>1, <2>2 DEF KindAt, FoundAt, Publishing
  <2>4. "set_mode" \in Started /\ "set_mode" \notin Holding BY DEF Started, ExclusiveSteps, Holding
  <2>5. QED BY <1>2, <1>3, <1>6, <2>3, <2>4, WriterGotoKeeps
<1>7. QED BY <1>3, <1>4, <1>5, <1>6, Zenon DEF OpenForMode

LEMMA SetModeKeeps ==
  ASSUME ApplyInv, NEW c \in Calls, SetMode(c)
  PROVE  ApplyInv' /\ Onward /\ Safe
<1> DEFINE p == PathOf(c)
           node == [kind |-> StepOf(c).after.kind, mode |-> StepOf(c).after.mode,
                    data |-> tree[p].data]
<1>1. /\ calls[c].pc \in Altering /\ Goto(c, "verify")
      /\ UNCHANGED <<review, plan, lapses, temps, edited, operation>>
      /\ \/ tree' = tree
         \/ tree[p].kind = StepOf(c).after.kind /\ SetPath(c, node)
  BY Zenon DEF SetMode, At, UnchangedElse, UnchangedView, UnchangedPackage, Altering
<1>2. /\ Quiet(c) /\ calls[c].pc \in InStep
      /\ p \in edited \/ AsPlanned(StepOf(c), tree[p])
  BY <1>1, MutatingIs
<1>3. CASE tree' = tree BY <1>1, <1>2, <1>3, SameIsSafe, ProjectSame, VerifyNextKeeps
<1>4. CASE tree[p].kind = StepOf(c).after.kind /\ SetPath(c, node)
  <2>1. node.kind = tree[p].kind /\ node.data = tree[p].data BY <1>4
  <2> HIDE DEF node
  <2>2. ~Loses(tree[p], node) BY <2>1 DEF Loses
  <2>3. Safe /\ ProjectTyped' BY <1>1, <1>2, <1>4, <2>2, PathKeeps
  <2>4. QED BY <1>1, <1>2, <2>3, VerifyNextKeeps
<1>5. QED BY <1>1, <1>3, <1>4

-----------------------------------------------------------------------------
(* A publication's temp. *)

LEMMA HoldingIs ==
  ASSUME ApplyInv, NEW c \in Calls, calls[c].pc \in InStep
  PROVE  /\ calls[c].pc \in ExclusiveSteps /\ calls[c].pc \in Started
         /\ calls[c] \in Call /\ calls \in [Calls -> Call]
         /\ calls[c].completed < Len(plan.steps) /\ calls[c].completed \in Nat
         /\ Len(plan.steps) \in Nat
         /\ "late_call" \notin lapses => calls[c].completed = Durable(Op(c))
         /\ calls[c].pc \in Holding =>
              calls[c].temp \in DOMAIN temps /\ temps[calls[c].temp].owner = "writer"
         /\ calls[c].pc \in Publishing => StepOf(c).kind \in Publications
<1>1. calls[c].pc \in ExclusiveSteps /\ calls[c].pc \in Started BY DEF InStep, Started
<1>2. CallTrue(c) /\ calls[c] \in Call /\ calls \in [Calls -> Call] BY DEF ApplyInv
<1>3. QED BY <1>1, <1>2, WriterPlan DEF CallTrue, WriterReady, TempOurs, PathViewed, KindAt, Op

\* A temp of the call's own is cleaned, or what is at the name its rename freed.
LEMMA CleanedIsSafe ==
  ASSUME ApplyInv, NEW c \in Calls, calls[c].pc \in InStep, Cleaned(c),
         calls[c].pc \in Holding \/ Published(c)
  PROVE  /\ TempsSafe /\ temps' = [n \in DOMAIN temps' |-> temps'[n]]
         /\ IsFiniteSet(DOMAIN temps')
         /\ tree' = tree => Safe /\ ProjectTyped'
<1>1. calls[c].temp \in DOMAIN temps /\ temps[calls[c].temp].owner = "operator" =>
        \E d \in Calls : Published(d) /\ calls[d].temp = calls[c].temp
  BY HoldingIs
<1>2. /\ TempsSafe /\ temps' = [n \in DOMAIN temps' |-> temps'[n]]
      /\ IsFiniteSet(DOMAIN temps')
  BY <1>1, DropIsSafe DEF Cleaned
<1>3. QED BY <1>2 DEF Safe, TreeSafe, ProjectTyped, ApplyInv

\* The frontier's document.
LEMMA FrontierIs ==
  ASSUME ApplyInv, NEW c \in Calls, calls[c].pc \in InStep, NEW owned \in BOOLEAN,
         NEW name \in Nat
  PROVE  /\ Frontier(c, owned, name) \in Operations /\ Frontier(c, owned, name) # None
         /\ Frontier(c, owned, name).plan = plan
         /\ Durable(Frontier(c, owned, name)) = calls[c].completed
<1> DEFINE e == Execution(calls[c].completed, Intent(StepIndex(c), name, owned))
           w == [Op(c) EXCEPT !.execution = e]
<1>1. calls[c].completed \in Nat /\ Op(c) \in Operations /\ Op(c).plan = plan BY HoldingIs, CopyIs
<1>2. Intent(StepIndex(c), name, owned) \in Intents BY <1>1 DEF Intent, Intents, StepIndex
<1>3. e \in Executions /\ e.completed = calls[c].completed BY <1>1, <1>2 DEF Execution, Executions
<1>4. e # None BY <1>3, NoneAssumption
<1> HIDE DEF e
<1>5. w \in Operations /\ w.plan = plan /\ w.execution = e BY <1>1, <1>3 DEF Operations
<1> HIDE DEF w
<1>6. Durable(w) = calls[c].completed /\ w # None BY <1>3, <1>4, <1>5, NoneAssumption DEF Durable
<1>7. QED BY <1>5, <1>6 DEF Frontier, w, e

\* There is always a name that is neither taken nor the earlier attempt's.
LEMMA FreshNameIs ==
  ASSUME ApplyInv, NEW c \in Calls
  PROVE  FreshName(c) \in Nat
<1> DEFINE n == Cardinality(DOMAIN temps)
           taken == DOMAIN temps \cup {calls[c].intent.temp}
<1>1. IsFiniteSet(DOMAIN temps) BY DEF ApplyInv, ProjectTyped
<1>2. n \in Nat BY <1>1, FS_CardinalityType
<1>3. IsFiniteSet(taken) /\ Cardinality(taken) <= n + 1 /\ Cardinality(taken) \in Nat
  <2> DEFINE m == calls[c].intent.temp
             D == DOMAIN temps
  <2> HIDE DEF m, D
  <2>1. /\ IsFiniteSet(D \cup {m})
        /\ Cardinality(D \cup {m}) = IF m \in D THEN Cardinality(D) ELSE Cardinality(D) + 1
    BY <1>1, FS_AddElement DEF D
  <2>2. Cardinality(D) \in Nat /\ n = Cardinality(D) /\ taken = D \cup {m} BY <1>2 DEF D, m
  <2> HIDE DEF n, taken
  <2>3. QED BY <2>1, <2>2
<1>4. IsFiniteSet(1..(n + 2)) /\ Cardinality(1..(n + 2)) = n + 2 BY <1>2, FS_Interval
<1>5. \E m \in 1..(n + 2) : m \notin taken
  <2> HIDE DEF taken, n
  <2> SUFFICES ASSUME 1..(n + 2) \subseteq taken PROVE FALSE OBVIOUS
  <2>1. Cardinality(1..(n + 2)) <= Cardinality(taken) BY <1>3, FS_Subset, Zenon
  <2>2. QED BY <1>2, <1>3, <1>4, <2>1
<1>6. \E m \in 1..(n + 2) :
        ~HasTemp(m) /\ (calls[c].intent # None => m # calls[c].intent.temp)
  BY <1>5 DEF HasTemp
<1> HIDE DEF n, taken
<1>7. FreshName(c) \in 1..(n + 2) BY <1>6 DEF FreshName, n
<1>8. QED BY <1>2, <1>7

LEMMA PrepareTempKeeps ==
  ASSUME ApplyInv, NEW c \in Calls, PrepareTemp(c)
  PROVE  ApplyInv' /\ Onward /\ Safe
<1> DEFINE prior == Prior(c)
           moved(pc) == [calls[c] EXCEPT !.temp = prior.temp, !.pc = pc]
<1>1. /\ calls[c].pc = "temp" /\ calls[c].pc \in InStep
      /\ Quiet(c) /\ UNCHANGED <<tree, temps, edited>>
  BY DEF PrepareTemp, UnchangedProject, UnchangedPackage, Quiet, At, ExclusiveSteps, Started,
         InStep
<1>2. /\ calls[c].pc \in ExclusiveSteps /\ calls[c].pc \in Started
      /\ calls[c] \in Call /\ calls \in [Calls -> Call]
      /\ calls[c].completed < Len(plan.steps) /\ calls[c].completed \in Nat
      /\ Len(plan.steps) \in Nat
      /\ "late_call" \notin lapses => calls[c].completed = Durable(Op(c))
      /\ StepOf(c).kind \in Publications
  BY <1>1, HoldingIs DEF Publishing
<1>3. Safe /\ ProjectTyped' BY <1>1, SameIsSafe, ProjectSame
<1>4. /\ {"fresh", "create_temp", "clean", "rename"} \subseteq Started \ Altering
      /\ {"create_temp", "clean", "rename"} \subseteq Pcs
      /\ {"create_temp", "clean", "rename"} \subseteq ExclusiveSteps \ Altering
      /\ "fresh" \notin Holding /\ "create_temp" \notin Holding
  BY DEF Started, ExclusiveSteps, Holding, Pcs, Altering
<1>5. CASE Goto(c, "fresh") /\ UNCHANGED operation
  <2>1. KindAt(c, "fresh") BY <1>2 DEF KindAt
  <2>2. QED BY <1>1, <1>2, <1>3, <1>4, <1>5, <2>1, WriterGotoKeeps
<1>6. CASE RefuseForeignTemp(c) BY <1>1, <1>2, <1>3, <1>6, RefuseKeeps
<1>7. CASE Leave(c) /\ UNCHANGED operation BY <1>1, <1>3, <1>7, LeaveStepKeeps
<1>8. ASSUME NEW pc \in {"create_temp", "clean", "rename"}, prior # None,
             pc \in Holding => HasTemp(prior.temp) /\ ~ForeignAt(prior),
             calls' = [calls EXCEPT ![c].temp = prior.temp, ![c].pc = pc],
             UNCHANGED operation
      PROVE  ApplyInv' /\ Onward
  <2>1. prior \in Intents BY <1>2, <1>8 DEF Prior, Call
  <2>2. prior.temp \in Nat BY <2>1 DEF Intents
  <2> DEFINE r == moved(pc)
  <2>3. pc \in Holding => prior.temp \in DOMAIN temps /\ temps[prior.temp].owner = "writer"
    BY <1>8 DEF ForeignAt, HasTemp
  <2> HIDE DEF prior
  <2>4. /\ r \in Call /\ r.pc = pc /\ r.op = Op(c) /\ r.current = calls[c].current
        /\ r.completed = calls[c].completed /\ r.temp = prior.temp
    BY <1>2, <1>4, <1>8, <2>2, Zenon DEF Call, Op
  <2>5. calls' = [calls EXCEPT ![c] = r] BY <1>8, Zenon
  <2> HIDE DEF r
  <2>6. Becomes(c, r) BY <1>2, <1>8, <2>4, <2>5, AloneBecomes, Zenon
  <2>7. JournalTrue' BY <1>1, <1>8, JournalKept DEF Quiet
  <2>8. /\ Op(c) # None /\ ValidOperation(Op(c)) /\ Op(c).plan = plan
        /\ calls[c].current => operation = Op(c)
    BY <1>2, CopyIs, NoneAssumption
  <2>9. /\ "late_call" \notin lapses' => r.completed = Durable(r.op)
        /\ r.completed <= Len(plan.steps)
        /\ r.pc \in Holding => r.temp \in DOMAIN temps' /\ temps'[r.temp].owner = "writer"
    BY <1>1, <1>2, <2>3, <2>4 DEF Quiet
  <2>10. ApplyInv' BY <1>2, <1>1, <1>3, <1>4, <1>8, <2>4, <2>6, <2>7, <2>8, <2>9, WriterMoves
  <2>11. QED BY <1>8, <2>10 DEF Onward
<1>9. QED
  <2>1. CASE prior = None \/ ForeignAt(prior) BY <1>3, <1>5, <1>6, <2>1 DEF PrepareTemp
  <2>2. CASE prior # None /\ ~ForeignAt(prior) /\ ~HasTemp(prior.temp)
    BY <1>3, <1>4, <1>5, <1>8, <2>2 DEF PrepareTemp
  <2>3. CASE prior # None /\ ~ForeignAt(prior) /\ HasTemp(prior.temp)
    BY <1>3, <1>7, <1>8, <2>3 DEF PrepareTemp
  <2>4. QED BY <2>1, <2>2, <2>3

LEMMA CleanTempKeeps ==
  ASSUME ApplyInv, NEW c \in Calls, CleanTemp(c)
  PROVE  ApplyInv' /\ Onward /\ Safe
<1>1. /\ calls[c].pc = "clean" /\ calls[c].pc \in InStep /\ calls[c].pc \in Holding
      /\ calls[c].pc \in Publishing /\ UNCHANGED operation /\ Goto(c, "fresh") /\ tree' = tree
      /\ temps' = WithoutTemp(calls[c].temp)
  BY DEF CleanTemp, At, ExclusiveSteps, Started, InStep, Holding, Publishing
<1>2. /\ calls[c].pc \in Started /\ calls[c].pc \in ExclusiveSteps
      /\ calls[c].completed < Len(plan.steps)
      /\ StepOf(c).kind \in Publications
  BY <1>1, HoldingIs
<1>3. Quiet(c) BY <1>2 DEF CleanTemp, UnchangedPackage, Quiet
<1>4. Safe /\ ProjectTyped' BY <1>1, CleanedIsSafe DEF Cleaned
<1>5. "fresh" \in Started \ Altering /\ "fresh" \notin Holding /\ KindAt(c, "fresh")
  BY <1>2 DEF Started, ExclusiveSteps, Holding, Altering, KindAt
<1>6. QED BY <1>1, <1>2, <1>3, <1>4, <1>5, WriterGotoKeeps

LEMMA CommitIntentKeeps ==
  ASSUME ApplyInv, NEW c \in Calls, CommitIntent(c)
  PROVE  ApplyInv' /\ Onward /\ Safe
<1> DEFINE name == FreshName(c)
           named == [calls EXCEPT ![c].temp = name]
           next == Frontier(c, FALSE, name)
           r == [calls[c] EXCEPT !.temp = name, !.op = next, !.pc = "create_temp"]
<1>1. /\ calls[c].pc = "fresh" /\ calls[c].pc \in InStep /\ calls[c].pc \in Publishing
      /\ Quiet(c) /\ UNCHANGED <<tree, temps, edited>>
  BY DEF CommitIntent, UnchangedProject, UnchangedPackage, Quiet, At, ExclusiveSteps, Started,
         InStep, Publishing
<1>2. /\ calls[c].pc \in ExclusiveSteps /\ calls[c] \in Call /\ calls \in [Calls -> Call]
      /\ calls[c].completed < Len(plan.steps) /\ calls[c].completed \in Nat
      /\ Len(plan.steps) \in Nat
      /\ "late_call" \notin lapses => calls[c].completed = Durable(Op(c))
      /\ StepOf(c).kind \in Publications
  BY <1>1, HoldingIs
<1>3. Safe /\ ProjectTyped' BY <1>1, SameIsSafe, ProjectSame
<1>4. CASE Leave(c) /\ UNCHANGED operation BY <1>1, <1>3, <1>4, LeaveStepKeeps
<1>5. CASE /\ calls[c].current /\ ValidOperation(next) /\ operation' = next
           /\ calls' = [d \in Calls |->
                IF d = c THEN [named[c] EXCEPT !.op = next, !.pc = "create_temp"]
                ELSE [calls[d] EXCEPT !.current = FALSE]]
  <2>1. /\ name \in Nat
        /\ next \in Operations /\ next # None /\ next.plan = plan
        /\ Durable(next) = calls[c].completed
    <3>1. name \in Nat /\ FALSE \in BOOLEAN BY FreshNameIs
    <3> HIDE DEF name
    <3>2. QED BY <1>1, <3>1, FrontierIs, Zenon
  <2> HIDE DEF next, name
  <2>2. "create_temp" \in ExclusiveSteps \ Altering /\ "create_temp" \in Pcs
        /\ "create_temp" \notin Holding
    BY DEF ExclusiveSteps, Pcs, Holding, Altering
  <2>3. /\ r \in Call /\ r.pc = "create_temp" /\ r.op = next
        /\ r.completed = calls[c].completed
    BY <1>2, <2>1, <2>2, Zenon DEF Call
  <2>4. [named[c] EXCEPT !.op = next, !.pc = "create_temp"] = r BY <1>2
  <2>5. calls' = [d \in Calls |-> IF d = c THEN r ELSE [calls[d] EXCEPT !.current = FALSE]]
    BY <1>5, <2>4
  <2> HIDE DEF r, named
  <2>6. Becomes(c, r) BY <1>2, <2>3, <2>5, StoredBecomes
  <2>7. JournalTrue' BY <1>1, <1>5, <2>1, JournalKept DEF Quiet
  <2>8. r.completed <= Len(plan.steps) /\ r.completed < Len(plan.steps)
        /\ r.completed = Durable(r.op)
    BY <1>2, <2>1, <2>3
  <2>9. ApplyInv' BY <1>1, <1>2, <1>3, <1>5, <2>1, <2>2, <2>3, <2>6, <2>7, <2>8, WriterMoves
  <2>10. Onward BY <1>2, <1>5, <2>1, CopyIs DEF Onward
  <2>11. QED BY <1>3, <2>9, <2>10
<1>6. QED BY <1>4, <1>5, Zenon DEF CommitIntent

LEMMA CreateTempKeeps ==
  ASSUME ApplyInv, NEW c \in Calls, CreateTemp(c)
  PROVE  ApplyInv' /\ Onward /\ Safe
<1>1. /\ calls[c].pc = "create_temp" /\ calls[c].pc \in InStep /\ tree' = tree
      /\ edited' = edited /\ calls[c].pc \in Publishing
  BY DEF CreateTemp, At, ExclusiveSteps, Started, InStep, Publishing, UnchangedView
<1>2. /\ calls[c].pc \in Started /\ calls[c].pc \in ExclusiveSteps
      /\ calls[c].completed < Len(plan.steps) /\ StepOf(c).kind \in Publications
  BY <1>1, HoldingIs
<1>3. Quiet(c) BY <1>2 DEF CreateTemp, UnchangedPackage, Quiet
<1>4. CASE RefuseForeignTemp(c) /\ UNCHANGED temps
  BY <1>1, <1>2, <1>3, <1>4, RefuseKeeps, SameIsSafe, ProjectSame
<1>5. CASE /\ ~HasTemp(calls[c].temp)
           /\ temps' = [n \in DOMAIN temps \cup {calls[c].temp} |->
                          IF n = calls[c].temp THEN OwnTemp(~IsFile(c), TempMode)
                          ELSE temps[n]]
           /\ Goto(c, "identity") /\ UNCHANGED operation
  <2> DEFINE name == calls[c].temp
             own == OwnTemp(~IsFile(c), TempMode)
  <2>1. own.owner = "writer" BY DEF OwnTemp
  <2> HIDE DEF own, name
  <2>2. /\ temps' = [n \in DOMAIN temps \cup {name} |-> IF n = name THEN own ELSE temps[n]]
        /\ name \notin DOMAIN temps
    BY <1>5 DEF HasTemp, own, name
  <2>3. name \in DOMAIN temps' /\ temps'[name].owner = "writer" BY <2>1, <2>2
  <2>4. TempsSafe /\ temps' = [n \in DOMAIN temps' |-> temps'[n]] BY <2>2 DEF TempsSafe
  <2>5. IsFiniteSet(DOMAIN temps')
    <3>1. IsFiniteSet(DOMAIN temps) /\ DOMAIN temps' = DOMAIN temps \cup {name}
      BY <2>2 DEF ApplyInv, ProjectTyped
    <3>2. QED BY <3>1, FS_AddElement
  <2>6. Safe /\ ProjectTyped' BY <1>1, <2>4, <2>5 DEF Safe, TreeSafe, ProjectTyped, ApplyInv
  <2>7. "identity" \in Started \ Altering /\ KindAt(c, "identity")
    BY <1>2 DEF Started, ExclusiveSteps, Altering, KindAt
  <2>8. QED BY <1>2, <1>3, <1>5, <2>3, <2>6, <2>7, WriterGotoKeeps, Zenon DEF name
<1>6. CASE Leave(c) /\ UNCHANGED <<operation, temps>>
  BY <1>1, <1>3, <1>6, LeaveStepKeeps, SameIsSafe
<1>7. QED BY <1>4, <1>5, <1>6 DEF CreateTemp

LEMMA CommitIdentityKeeps ==
  ASSUME ApplyInv, NEW c \in Calls, CommitIdentity(c)
  PROVE  ApplyInv' /\ Onward /\ Safe
<1> DEFINE name == calls[c].temp
           next == Frontier(c, TRUE, name)
           pc == IF IsFile(c) THEN "write" ELSE "rename"
           r == Copied(c, operation', pc)
           Adopted(again) == again /\ AdvancedTo(c, TRUE, name, operation)
           Fails(again) == ~ValidOperation(next) \/ (~calls[c].current /\ ~Adopted(again))
<1>1. PICK again \in BOOLEAN :
        /\ Commit(c, next, Adopted(again), pc)
        /\ temps' = IF Fails(again) /\ IsFile(c) THEN WithoutTemp(name) ELSE temps
  BY Zenon DEF CommitIdentity
<1> DEFINE advance == Adopted(again)
           fails == Fails(again)
<1>2. /\ calls[c].pc = "identity" /\ calls[c].pc \in InStep /\ calls[c].pc \in Holding
      /\ tree' = tree /\ edited' = edited /\ calls[c].pc \in Publishing
  BY Zenon DEF CommitIdentity, At, ExclusiveSteps, Started, InStep, Holding, Publishing,
               UnchangedView
<1>3. /\ calls[c].pc \in ExclusiveSteps /\ calls[c] \in Call /\ calls \in [Calls -> Call]
      /\ calls[c].completed < Len(plan.steps) /\ calls[c].completed \in Nat
      /\ Len(plan.steps) \in Nat
      /\ "late_call" \notin lapses => calls[c].completed = Durable(Op(c))
      /\ name \in DOMAIN temps /\ temps[name].owner = "writer"
      /\ StepOf(c).kind \in Publications
  BY <1>2, HoldingIs
<1>4. Quiet(c) BY <1>3, Zenon DEF CommitIdentity, UnchangedPackage, Quiet
<1>5. Commit(c, next, advance, pc)
      /\ temps' = IF fails /\ IsFile(c) THEN WithoutTemp(name) ELSE temps
  BY <1>1, Zenon
<1>6. Safe /\ ProjectTyped'
  <2> HIDE DEF fails, name
  <2>1. CASE temps' = temps BY <1>2, <2>1, SameIsSafe, ProjectSame
  <2>2. CASE temps' = WithoutTemp(name)
    <3>1. /\ TempsSafe /\ temps' = [n \in DOMAIN temps' |-> temps'[n]]
          /\ IsFiniteSet(DOMAIN temps')
      BY <1>3, <2>2, DropIsSafe
    <3>2. QED BY <1>2, <3>1 DEF Safe, TreeSafe, ProjectTyped, ApplyInv
  <2>3. QED BY <1>5, <2>1, <2>2
<1>7. /\ next \in Operations /\ next # None /\ next.plan = plan
      /\ Durable(next) = calls[c].completed
  <2>1. name \in Nat /\ TRUE \in BOOLEAN BY <1>3 DEF Call
  <2> HIDE DEF name
  <2>2. QED BY <1>2, <2>1, FrontierIs, Zenon
<1>8. pc \in Pcs /\ pc \in ExclusiveSteps \ Altering /\ advance \in BOOLEAN
  BY DEF Pcs, ExclusiveSteps, AdvancedTo, Altering
<1> HIDE DEF next, pc, advance
<1>9. \/ Becomes(c, Nobody) /\ operation' = operation
      \/ /\ Becomes(c, r)
         /\ \/ operation' = next /\ ValidOperation(next) /\ calls[c].current
            \/ /\ operation' = operation /\ operation # None /\ advance
               /\ ~calls[c].current /\ ValidOperation(next)
  <2>1. operation \in Operations \cup {None} BY DEF ApplyInv, JournalTrue
  <2>2. QED BY <1>3, <1>5, <1>7, <1>8, <2>1, CommitBecomes
<1>10. JournalTrue' BY <1>4, <1>7, <1>9, JournalKept DEF Quiet
<1>11. Onward BY <1>3, <1>7, <1>9, CopyIs DEF Onward
<1>12. CASE Becomes(c, Nobody) BY <1>4, <1>6, <1>10, <1>11, <1>12, LeaveKeeps
<1>13. ASSUME Becomes(c, r), ~fails, operation' # None, operation' \in Operations,
              ValidOperation(operation'), operation'.plan = plan,
              "late_call" \notin lapses => Durable(operation') = calls[c].completed
       PROVE  ApplyInv'
  <2>1. /\ r \in Call /\ r.pc = pc /\ r.op = operation' /\ r.completed = calls[c].completed
        /\ r.temp = name
    BY <1>3, <1>8, <1>13, Zenon DEF Copied, Call
  <2>2. temps' = temps BY <1>5, <1>13
  <2>3. /\ r.completed <= Len(plan.steps) /\ r.completed < Len(plan.steps)
        /\ "late_call" \notin lapses' => r.completed = Durable(r.op)
        /\ r.pc \in Holding => r.temp \in DOMAIN temps' /\ temps'[r.temp].owner = "writer"
    BY <1>3, <1>4, <1>13, <2>1, <2>2 DEF Quiet
  <2> HIDE DEF r
  <2>4. QED BY <1>3, <1>4, <1>6, <1>8, <1>10, <1>13, <2>1, <2>3, WriterMoves
<1>14. CASE /\ Becomes(c, r) /\ operation' = next /\ ValidOperation(next) /\ calls[c].current
  BY <1>6, <1>7, <1>11, <1>13, <1>14
<1>15. CASE /\ Becomes(c, r) /\ operation' = operation /\ operation # None /\ advance
            /\ ~calls[c].current /\ ValidOperation(next)
  <2>1. operation.execution # None
        /\ operation.execution.active = Intent(StepIndex(c), name, TRUE)
    BY <1>15 DEF advance, AdvancedTo
  <2>2. /\ operation \in Operations /\ ValidOperation(operation) /\ operation.plan = plan
    BY <1>15, <2>1, StoredIs
  <2>3. Durable(operation) = calls[c].completed
    <3> DEFINE i == Intent(StepIndex(c), name, TRUE)
    <3>1. i.step = StepIndex(c) /\ StepIndex(c) = calls[c].completed + 1 BY DEF Intent, StepIndex
    <3>2. i \in Intents BY <1>3 DEF Intent, Intents, StepIndex, Call
    <3>3. i # None BY <3>2, NoneAssumption, Zenon
    <3> HIDE DEF i
    <3>4. i.step = operation.execution.completed + 1
      BY <2>1, <2>2, <3>3, Zenon DEF ValidOperation, ValidExecution, i
    <3>5. operation.execution.completed \in Nat BY <2>1, <2>2 DEF Operations, Executions
    <3>6. Durable(operation) = operation.execution.completed BY <2>1 DEF Durable
    <3>7. QED BY <1>3, <3>1, <3>4, <3>5, <3>6
  <2>4. ~fails BY <1>15, Zenon DEF advance
  <2>5. QED BY <1>6, <1>11, <1>13, <1>15, <2>2, <2>3, <2>4
<1>16. QED BY <1>6, <1>9, <1>11, <1>12, <1>14, <1>15

LEMMA WriteTempKeeps ==
  ASSUME ApplyInv, NEW c \in Calls, WriteTemp(c)
  PROVE  ApplyInv' /\ Onward /\ Safe
<1> DEFINE name == calls[c].temp
           own == OwnTemp(TRUE, StepOf(c).after.mode)
<1>1. /\ calls[c].pc = "write" /\ calls[c].pc \in InStep /\ calls[c].pc \in Holding
      /\ UNCHANGED operation /\ Goto(c, "rename") /\ tree' = tree
      /\ calls[c].pc \in Publishing
      /\ temps' = [temps EXCEPT ![name] = own]
  BY DEF WriteTemp, At, ExclusiveSteps, Started, InStep, Holding, Publishing
<1>2. /\ calls[c].pc \in Started /\ calls[c].pc \in ExclusiveSteps
      /\ calls[c].completed < Len(plan.steps)
      /\ name \in DOMAIN temps /\ temps[name].owner = "writer"
      /\ StepOf(c).kind \in Publications
  BY <1>1, HoldingIs
<1>3. Quiet(c) BY <1>2, Zenon DEF WriteTemp, UnchangedPackage, Quiet
<1>4. own.owner = "writer" BY DEF OwnTemp
<1> HIDE DEF own, name
<1>5. /\ temps' = [n \in DOMAIN temps |-> IF n = name THEN own ELSE temps[n]]
      /\ DOMAIN temps' = DOMAIN temps
  BY <1>1, Zenon DEF ApplyInv, ProjectTyped
<1>6. Safe BY <1>1, <1>2, <1>5 DEF Safe, TreeSafe, TempsSafe
<1>7. ProjectTyped' BY <1>1, <1>5, Zenon DEF ApplyInv, ProjectTyped
<1>8. "rename" \in Started \ Altering /\ KindAt(c, "rename")
  BY <1>2 DEF Started, ExclusiveSteps, Altering, KindAt
<1>9. name \in DOMAIN temps' /\ temps'[name].owner = "writer" BY <1>2, <1>4, <1>5
<1>10. QED BY <1>1, <1>2, <1>3, <1>6, <1>7, <1>8, <1>9, WriterGotoKeeps DEF name

\* What a call that publishes, or looks at what it published, starts from.
LEMMA RenamingIs ==
  ASSUME ApplyInv, NEW c \in Calls, calls[c].pc \in {"rename", "replace"},
         UNCHANGED <<review, plan, lapses>>
  PROVE  /\ Quiet(c) /\ calls[c].pc \in InStep /\ calls[c].pc \in Started
         /\ calls[c].pc \in Holding /\ calls[c].completed < Len(plan.steps)
         /\ calls[c].temp \in DOMAIN temps /\ temps[calls[c].temp].owner = "writer"
         /\ StepOf(c).kind \in Publications
         /\ StepOf(c) \in RawSteps(review) /\ review \in Reviews /\ KindAt(c, calls[c].pc)
         /\ calls[c].pc = "replace" =>
              PathOf(c) \in edited \/ AsPlanned(StepOf(c), tree[PathOf(c)])
<1>1. /\ calls[c].pc \in InStep /\ calls[c].pc \in Holding /\ calls[c].pc \in Publishing
      /\ calls[c].pc = "replace" => calls[c].pc \in Altering
  BY DEF Altering, InStep, Started, ExclusiveSteps, Holding, Publishing
<1>2. QED BY <1>1, InsideIs, HoldingIs DEF Quiet

\* The object goes to its path, and its temp with it.
LEMMA RenamedKeeps ==
  ASSUME ApplyInv, NEW c \in Calls, calls[c].pc \in {"rename", "replace"},
         UNCHANGED <<review, plan, lapses, operation>>,
         SetPath(c, StepOf(c).after), Cleaned(c), Goto(c, "verify"),
         PathOf(c) \in edited \/ AsPlanned(StepOf(c), tree[PathOf(c)]),
         ~IsDirectory(tree[PathOf(c)]),
         tree[PathOf(c)] # Absent => StepOf(c).before # Absent
  PROVE  ApplyInv' /\ Onward /\ Safe
<1>1. /\ Quiet(c) /\ calls[c].pc \in InStep /\ calls[c].pc \in Holding
      /\ calls[c].pc \in ExclusiveSteps /\ calls[c].completed < Len(plan.steps)
      /\ StepOf(c).kind \in Publications
  BY RenamingIs, InsideIs
<1>2. Loses(tree[PathOf(c)], StepOf(c).after) =>
        /\ StepOf(c).before # Absent /\ StepOf(c).kind # "set_mode"
        /\ IsDirectory(tree[PathOf(c)]) =>
             StepOf(c).after = Absent /\ EmptyAt(PathOf(c))
  BY <1>1 DEF Loses, Publications
<1>3. TreeSafe /\ tree' = [p \in Paths |-> tree'[p]] BY <1>1, <1>2, PathIsSafe
<1>4. /\ TempsSafe /\ temps' = [n \in DOMAIN temps' |-> temps'[n]]
      /\ IsFiniteSet(DOMAIN temps')
  BY <1>1, CleanedIsSafe
<1>5. Safe /\ ProjectTyped' BY <1>3, <1>4 DEF Safe, ProjectTyped
<1>6. QED BY <1>1, <1>5, VerifyNextKeeps

LEMMA PublishNewKeeps ==
  ASSUME ApplyInv, NEW c \in Calls, PublishNew(c)
  PROVE  ApplyInv' /\ Onward /\ Safe
<1> DEFINE p == PathOf(c)
           step == StepOf(c)
<1>1. /\ calls[c].pc = "rename" /\ step.before = Absent
      /\ UNCHANGED <<review, plan, lapses, edited>>
  BY DEF PublishNew, At, UnchangedView, UnchangedPackage
<1>2. /\ Quiet(c) /\ calls[c].pc \in InStep /\ calls[c].pc \in Started
      /\ calls[c].pc \in Holding /\ step.kind \in Publications
  BY <1>1, RenamingIs
<1>3. Cleaned(c) /\ tree' = tree => Safe /\ ProjectTyped' BY <1>2, CleanedIsSafe
<1>4. CASE Leave(c) /\ Cleaned(c) /\ UNCHANGED <<tree, operation>>
  BY <1>2, <1>3, <1>4, LeaveQuietKeeps
<1>5. CASE /\ tree[p] = Absent /\ SetPath(c, step.after) /\ Cleaned(c)
           /\ Goto(c, "verify") /\ UNCHANGED operation
  <2>1. AsPlanned(step, tree[p]) BY <1>1, <1>2, <1>5 DEF AsPlanned, Publications
  <2>2. ~IsDirectory(tree[p]) BY <1>5 DEF IsDirectory, Absent
  <2>3. QED BY <1>1, <1>5, <2>1, <2>2, RenamedKeeps
<1>6. CASE Goto(c, "verify") /\ UNCHANGED <<tree, temps, operation>>
  <2>1. Safe /\ ProjectTyped' BY <1>1, <1>6, SameIsSafe, ProjectSame
  <2>2. QED BY <1>2, <1>6, <2>1, VerifyNextKeeps
<1>7. CASE Refuse(c) /\ Cleaned(c) /\ UNCHANGED tree BY <1>2, <1>3, <1>7, RefuseKeeps
<1>8. QED BY <1>4, <1>5, <1>6, <1>7 DEF PublishNew

LEMMA CheckReplacedKeeps ==
  ASSUME ApplyInv, NEW c \in Calls, CheckReplaced(c)
  PROVE  ApplyInv' /\ Onward /\ Safe
<1> DEFINE step == StepOf(c)
<1>1. /\ calls[c].pc = "rename" /\ step.before # Absent
      /\ UNCHANGED <<review, plan, lapses, tree>>
  BY DEF CheckReplaced, At, UnchangedPackage
<1>2. /\ Quiet(c) /\ calls[c].pc \in InStep /\ calls[c].pc \in Started
      /\ calls[c].pc \in Holding /\ step.kind \in Publications
      /\ calls[c].completed < Len(plan.steps)
      /\ calls[c].temp \in DOMAIN temps /\ temps[calls[c].temp].owner = "writer"
  BY <1>1, RenamingIs
<1>3. CASE /\ Seen(c) = step.before /\ Goto(c, "replace") /\ edited' = {}
           /\ UNCHANGED <<operation, temps>>
  <2>1. tree'[PathOf(c)] = step.before BY <1>1, <1>3 DEF Seen
  <2>2. KindAt(c, "replace") /\ FoundAt(c, "replace", tree'[PathOf(c)])
    BY <1>1, <1>2, <2>1 DEF KindAt, FoundAt
  <2>3. Safe /\ ProjectTyped' BY <1>1, <1>3, SameIsSafe DEF ProjectTyped, ApplyInv
  <2>4. "replace" \in Started BY DEF Started, ExclusiveSteps
  <2> HIDE DEF step
  <2>5. QED BY <1>2, <1>3, <2>2, <2>3, <2>4, WriterGotoKeeps
<1>4. CASE Refuse(c) /\ Cleaned(c)
  <2>1. Safe /\ ProjectTyped' BY <1>1, <1>2, <1>4, CleanedIsSafe
  <2>2. QED BY <1>2, <1>4, <2>1, RefuseKeeps
<1>5. QED BY <1>3, <1>4 DEF CheckReplaced

LEMMA PublishReplacementKeeps ==
  ASSUME ApplyInv, NEW c \in Calls, PublishReplacement(c)
  PROVE  ApplyInv' /\ Onward /\ Safe
<1>1. /\ calls[c].pc = "replace" /\ UNCHANGED <<review, plan, lapses, edited, operation>>
      /\ Cleaned(c)
  BY DEF PublishReplacement, At, UnchangedView, UnchangedPackage
<1>2. /\ Quiet(c) /\ calls[c].pc \in InStep /\ calls[c].pc \in Holding
      /\ KindAt(c, "replace")
      /\ PathOf(c) \in edited \/ AsPlanned(StepOf(c), tree[PathOf(c)])
  BY <1>1, RenamingIs
<1>3. CASE Leave(c) /\ UNCHANGED tree
  <2>1. Safe /\ ProjectTyped' BY <1>1, <1>2, <1>3, CleanedIsSafe
  <2>2. QED BY <1>1, <1>2, <1>3, <2>1, LeaveQuietKeeps
<1>4. CASE /\ ~IsDirectory(tree[PathOf(c)]) /\ SetPath(c, StepOf(c).after)
           /\ Goto(c, "verify")
  <2>1. StepOf(c).before # Absent BY <1>2 DEF KindAt
  <2>2. QED BY <1>1, <1>2, <1>4, <2>1, RenamedKeeps
<1>5. QED BY <1>3, <1>4 DEF PublishReplacement

LEMMA VerifyKeeps ==
  ASSUME ApplyInv, NEW c \in Calls, Verify(c)
  PROVE  ApplyInv' /\ Onward /\ Safe
<1>1. /\ calls[c].pc = "verify" /\ calls[c].pc \in InStep
      /\ UNCHANGED <<review, plan, lapses, tree, edited>>
  BY DEF Verify, At, UnchangedView, UnchangedPackage, InStep, Started, ExclusiveSteps
<1>2. /\ calls[c].pc \in Started /\ calls[c].pc \in ExclusiveSteps
      /\ calls[c].completed < Len(plan.steps)
  BY <1>1, InsideIs
<1>3. Quiet(c) BY <1>1, <1>2 DEF Quiet
<1>4. CASE Goto(c, "progress") /\ UNCHANGED <<operation, temps>>
  <2>1. Safe /\ ProjectTyped' BY <1>1, <1>4, SameIsSafe, ProjectSame
  <2>2. "progress" \in Started /\ "progress" \notin Holding \cup Altering \cup Publishing
    BY DEF Started, ExclusiveSteps, Holding, Altering, Publishing
  <2>3. QED BY <1>2, <1>3, <1>4, <2>1, <2>2, WriterGotoKeeps
<1>5. CASE /\ Refuse(c)
           /\ IF Published(c) THEN Cleaned(c) ELSE UNCHANGED temps
  <2>1. Safe /\ ProjectTyped' BY <1>1, <1>5, CleanedIsSafe, SameIsSafe, ProjectSame
  <2>2. QED BY <1>2, <1>3, <1>5, <2>1, RefuseKeeps
<1>6. QED BY <1>4, <1>5 DEF Verify

-----------------------------------------------------------------------------
(* Progress and the end. *)

LEMMA CommitProgressKeeps ==
  ASSUME ApplyInv, NEW c \in Calls, CommitProgress(c)
  PROVE  ApplyInv' /\ Onward /\ Safe
<1> DEFINE k == StepIndex(c)
           e == Execution(k, None)
           next == [Op(c) EXCEPT !.execution = e]
           adopts == /\ ~calls[c].current /\ ValidOperation(next)
                     /\ operation # None /\ Durable(operation) >= k
<1>1. /\ calls[c].pc = "progress" /\ calls[c].pc \in InStep
      /\ calls[c].pc \in ExclusiveSteps
      /\ UNCHANGED <<review, plan, tree, edited>>
      /\ lapses' = lapses \cup {l \in {"late_call"} : adopts}
  BY DEF CommitProgress, UnchangedView, UnchangedPackage, At, ExclusiveSteps, Started, InStep
<1>2. /\ calls[c].pc \in ExclusiveSteps /\ calls[c] \in Call /\ calls \in [Calls -> Call]
      /\ calls[c].completed < Len(plan.steps) /\ calls[c].completed \in Nat
      /\ Len(plan.steps) \in Nat
      /\ "late_call" \notin lapses => calls[c].completed = Durable(Op(c))
  BY <1>1, HoldingIs
<1>3. k = calls[c].completed + 1 /\ k \in Nat /\ k <= Len(plan.steps) BY <1>2 DEF StepIndex
<1>q. Quiet(c) BY <1>1 DEF Quiet
<1>4. temps' = temps \/ (Published(c) /\ Cleaned(c)) => Safe /\ ProjectTyped'
  BY <1>1, CleanedIsSafe, SameIsSafe, ProjectSame
<1>5. /\ next \in Operations /\ next # None /\ next.plan = plan /\ Durable(next) = k
  <2>1. e \in Executions /\ e.completed = k BY <1>3 DEF Execution, Executions
  <2>2. e # None BY <2>1, NoneAssumption
  <2>3. Op(c) \in Operations /\ Op(c).plan = plan BY <1>2, CopyIs
  <2> HIDE DEF e
  <2>4. next \in Operations /\ next.plan = plan /\ next.execution = e BY <2>1, <2>3 DEF Operations
  <2> HIDE DEF next
  <2>5. QED BY <2>1, <2>2, <2>4, NoneAssumption DEF Durable
<1>6. ASSUME NEW op \in Operations
      PROVE  /\ Settled(c, op) \in Call /\ Settled(c, op).pc = "step"
             /\ Settled(c, op).op = op /\ Settled(c, op).completed = k
  <2>1. "step" \in Pcs /\ IntentAfter(c) \in Intents \cup {None}
    BY <1>2 DEF Pcs, ExclusiveSteps, IntentAfter, Call
  <2> HIDE DEF k
  <2>2. QED BY <1>2, <1>3, <2>1, Zenon DEF Settled, Call, k
<1>7. "step" \in ExclusiveSteps \ Altering
      /\ "step" \notin InStep /\ "step" \notin Holding \cup Publishing
  BY DEF ExclusiveSteps, InStep, Started, Holding, Altering, Publishing
<1>8. CASE /\ Leave(c) /\ UNCHANGED operation
           /\ IF Published(c) THEN Cleaned(c) ELSE UNCHANGED temps
  BY <1>q, <1>4, <1>8, LeaveQuietKeeps
<1>9. CASE /\ calls[c].current /\ ValidOperation(next) /\ operation' = next /\ UNCHANGED temps
           /\ calls' = [d \in Calls |-> IF d = c THEN Settled(c, next)
                                        ELSE [calls[d] EXCEPT !.current = FALSE]]
  <2> DEFINE r == Settled(c, next)
  <2> HIDE DEF next, k
  <2>1. r \in Call /\ r.pc = "step" /\ r.op = next /\ r.completed = k BY <1>5, <1>6
  <2>2. calls' = [d \in Calls |-> IF d = c THEN r ELSE [calls[d] EXCEPT !.current = FALSE]] BY <1>9
  <2> HIDE DEF r
  <2>3. Becomes(c, r) BY <1>2, <2>1, <2>2, StoredBecomes
  <2>4. JournalTrue' BY <1>1, <1>5, <1>9, <1>q, JournalKept DEF Quiet
  <2>5. ApplyInv'
    BY <1>q, <1>2, <1>3, <1>4, <1>5, <1>7, <1>9, <2>1, <2>3, <2>4, WriterMoves DEF Quiet
  <2>6. Onward
    <3>1. calls[c].current => operation = Op(c) BY <1>2, CopyIs
    <3>2. QED BY <1>2, <1>3, <1>5, <1>9, <3>1 DEF Onward
  <2>7. QED BY <1>4, <1>9, <2>5, <2>6
<1>10. CASE adopts /\ UNCHANGED <<operation, temps>> /\ calls' = [calls EXCEPT ![c] = Settled(c, operation)]
  <2>1. operation.execution # None
    <3>1. k > 0 /\ Durable(operation) >= k BY <1>2, <1>3, <1>10
    <3> HIDE DEF k
    <3>2. Durable(operation) # 0 BY <1>3, <3>1
    <3>3. QED BY <3>2 DEF Durable
  <2>2. operation \in Operations /\ ValidOperation(operation) /\ operation.plan = plan
    BY <1>10, <2>1, StoredIs
  <2> DEFINE r == Settled(c, operation)
  <2> HIDE DEF next, k
  <2>3. r \in Call /\ r.pc = "step" /\ r.op = operation /\ r.completed = k BY <1>6, <2>2
  <2>4. calls' = [calls EXCEPT ![c] = r] BY <1>10
  <2> HIDE DEF r
  <2>5. Becomes(c, r) BY <1>2, <1>10, <2>3, <2>4, AloneBecomes, Zenon
  <2>6. JournalTrue' BY <1>1, <1>10, <1>q, JournalKept DEF Quiet
  <2>7. "late_call" \in lapses' BY <1>1, <1>10
  <2>8. ApplyInv' BY <1>q, <1>2, <1>3, <1>4, <1>7, <1>10, <2>2, <2>3, <2>5, <2>6, <2>7, WriterMoves
  <2>9. QED BY <1>4, <1>10, <2>8 DEF Onward
<1>11. QED
  <2> HIDE DEF next, k
  <2>1. \/ /\ Leave(c) /\ UNCHANGED operation
           /\ IF Published(c) THEN Cleaned(c) ELSE UNCHANGED temps
        \/ /\ calls[c].current /\ ValidOperation(next) /\ operation' = next /\ UNCHANGED temps
           /\ calls' = [d \in Calls |-> IF d = c THEN Settled(c, next)
                                        ELSE [calls[d] EXCEPT !.current = FALSE]]
        \/ adopts /\ UNCHANGED <<operation, temps>> /\ calls' = [calls EXCEPT ![c] = Settled(c, operation)]
    BY DEF CommitProgress, next, k
  <2>2. QED BY <1>8, <1>9, <1>10, <2>1

LEMMA FinalWalkKeeps ==
  ASSUME ApplyInv, NEW c \in Calls, FinalWalk(c)
  PROVE  ApplyInv' /\ Onward /\ Safe
<1>1. /\ calls[c].pc = "final" /\ calls[c].pc \in Started
      /\ Quiet(c) /\ UNCHANGED <<tree, temps, edited>>
  BY DEF FinalWalk, UnchangedProject, UnchangedPackage, Quiet, At, ExclusiveSteps, Started
<1>2. Safe /\ ProjectTyped' BY <1>1, SameIsSafe, ProjectSame
<1>3. CASE Goto(c, "finish") /\ UNCHANGED operation
  <2>1. /\ "finish" \in Started \ (Altering \cup Publishing)
        /\ "finish" \notin InStep /\ "finish" \notin Holding
    BY DEF Started, ExclusiveSteps, InStep, Holding, Altering, Publishing
  <2>2. QED BY <1>1, <1>2, <1>3, <2>1, WriterGotoKeeps
<1>4. CASE Record(c, Refusal(c, None))
  <2>1. None \in Intents \cup {None} OBVIOUS
  <2>2. QED BY <1>1, <1>2, <1>4, <2>1, RefusalKeeps
<1>5. QED BY <1>3, <1>4, Zenon DEF FinalWalk

LEMMA FinishKeeps ==
  ASSUME ApplyInv, NEW c \in Calls, Finish(c)
  PROVE  ApplyInv' /\ Onward /\ Safe
<1> DEFINE e == Execution(Len(plan.steps), None)
           next == With(c, "applied", e)
           advance == Advanced("applied", operation)
<1>1. /\ calls[c].pc = "finish" /\ calls[c].pc \in Started /\ calls[c].pc \in ExclusiveSteps
      /\ calls[c].pc \in Loaded /\ Quiet(c) /\ UNCHANGED <<tree, temps, edited>>
  BY DEF Finish, UnchangedProject, UnchangedPackage, Quiet, At, ExclusiveSteps, Started, Loaded
<1>2. Len(plan.steps) \in Nat /\ Durable(Op(c)) \in Nat /\ Durable(Op(c)) <= Len(plan.steps)
  BY <1>1, WriterPlan, CopyIs
<1>3. e \in Executions /\ e.completed = Len(plan.steps) BY <1>2 DEF Execution, Executions
<1>4. next \in Operations /\ next.plan = plan /\ Durable(next) = Len(plan.steps)
  <2>1. "applied" \in Statuses BY DEF Statuses
  <2> HIDE DEF e
  <2>2. QED BY <1>1, <1>3, <2>1, WithIs
<1>5. Commit(c, next, advance, "done") /\ advance \in BOOLEAN BY DEF Finish, Advanced
<1>6. /\ "done" \in Pcs /\ "done" \notin SharedSteps
      /\ "done" \notin {"publish_plan", "lock_exclusive"} \cup ExclusiveSteps
  BY DEF Pcs, SharedSteps, ExclusiveSteps
<1> HIDE DEF next, advance
<1>7. ApplyInv' /\ Onward BY <1>1, <1>2, <1>4, <1>5, <1>6, CommitKeeps
<1>8. QED BY <1>1, <1>7, SameIsSafe

LEMMA DoneKeeps ==
  ASSUME ApplyInv, NEW c \in Calls, Done(c)
  PROVE  ApplyInv' /\ Onward /\ Safe
BY LeaveStepKeeps, SameIsSafe DEF Done, UnchangedProject, UnchangedPackage, Quiet

LEMMA WriteKeeps ==
  ASSUME ApplyInv, NEW c \in Calls, WriteStep(c)
  PROVE  ApplyInv' /\ Onward /\ Safe
<1>1. LoadForExecution(c) \/ LockExclusive(c) \/ Walk(c) => UNCHANGED <<tree, temps, edited>>
  BY Zenon DEF LoadForExecution, LockExclusive, Walk, UnchangedProject
<1>2. QED
  BY <1>1, LoadForExecutionKeeps, LockExclusiveKeeps, WalkKeeps, ExecuteStepKeeps,
     RemoveLeafKeeps, RemoveDirectoryKeeps, CreateDirectoryKeeps, ChmodDirectoryKeeps,
     OpenForModeKeeps, SetModeKeeps, PrepareTempKeeps, CleanTempKeeps, CommitIntentKeeps,
     CreateTempKeeps, CommitIdentityKeeps, WriteTempKeeps, PublishNewKeeps,
     CheckReplacedKeeps, PublishReplacementKeeps, VerifyKeeps,
     CommitProgressKeeps, FinalWalkKeeps, FinishKeeps, DoneKeeps, SameIsSafe DEF WriteStep

-----------------------------------------------------------------------------
(* Calls begin and end; the operator edits. *)

LEMMA BeginKeeps ==
  ASSUME ApplyInv, NEW c \in Calls, Begin(c)
  PROVE  ApplyInv' /\ Onward /\ Safe
<1>1. /\ Goto(c, "lock_shared") /\ UNCHANGED operation /\ Quiet(c) /\ UNCHANGED <<tree, temps, edited>>
  BY DEF Begin, UnchangedPackage, UnchangedView, Quiet
<1>2. /\ "lock_shared" \in Pcs /\ "lock_shared" # "publish_plan"
      /\ "lock_shared" \notin Altering \cup Publishing
      /\ "lock_shared" \notin Loaded \cup SharedSteps \cup Started \cup InStep \cup Holding
      /\ "lock_shared" \notin {"lock_exclusive"} \cup ExclusiveSteps
  BY DEF Pcs, Loaded, SharedSteps, Started, InStep, Holding, ExclusiveSteps, Altering, Publishing
<1>3. Safe /\ ProjectTyped' BY <1>1, SameIsSafe, ProjectSame
<1>4. QED BY <1>1, <1>2, <1>3, GotoKeeps DEF Onward

LEMMA DieKeeps ==
  ASSUME ApplyInv, NEW c \in Calls, Die(c)
  PROVE  ApplyInv' /\ Onward /\ Safe
BY LeaveStepKeeps, SameIsSafe DEF Die, UnchangedProject, Quiet

LEMMA ErrKeeps ==
  ASSUME ApplyInv, NEW c \in Calls, Err(c)
  PROVE  ApplyInv' /\ Onward /\ Safe
<1>1. /\ Leave(c) /\ tree' = tree /\ operation' = operation /\ review' = review /\ plan' = plan
      /\ edited' = edited
      /\ lapses \subseteq lapses'
      /\ temps' = IF Cleans(c) THEN WithoutTemp(calls[c].temp) ELSE temps
  BY DEF Err, UnchangedView
<1>2. CASE ~Cleans(c) BY <1>1, <1>2, LeaveStepKeeps, SameIsSafe DEF Quiet
<1>3. CASE Cleans(c)
  <2>1. calls[c].pc \in InStep /\ (calls[c].pc \in Holding \/ Published(c))
    BY <1>3 DEF Cleans, Published, InStep, Started, ExclusiveSteps, Holding
  <2>2. Safe /\ ProjectTyped' BY <1>1, <1>3, <2>1, CleanedIsSafe DEF Cleaned
  <2>3. Quiet(c) BY <1>1, <2>1, HoldingIs DEF Quiet
  <2>4. QED BY <1>1, <2>2, <2>3, LeaveQuietKeeps
<1>4. QED BY <1>2, <1>3

LEMMA OperatorEditKeeps ==
  ASSUME ApplyInv, OperatorEdit
  PROVE  ApplyInv' /\ Onward /\ Safe
<1>1. PICK p \in Paths : \E node \in Nodes(p) : tree' = Replaced(p, node) BY Zenon DEF OperatorEdit
<1>2. PICK node \in Nodes(p) : tree' = Replaced(p, node) BY <1>1
<1>3. UNCHANGED <<review, temps, operation, plan, sealed, calls, lapses>> /\ edits' = edits + 1
      /\ edits < MaxEdits
  BY DEF OperatorEdit
<1>4. tree' = [q \in Paths |-> IF q = p THEN node
                ELSE IF q \in Below(p) /\ ~IsDirectory(node) THEN Absent ELSE tree[q]]
  BY <1>2 DEF Replaced
<1>a. /\ edited \subseteq edited'
      /\ \A q \in Paths : q \in edited' \/ tree'[q] = tree[q]
  <2>1. PICK p1 \in Paths : \E node1 \in Nodes(p1) \ {tree[p1]} :
          /\ tree' = Replaced(p1, node1)
          /\ edited' = edited \cup {q \in Paths : Replaced(p1, node1)[q] # tree[q]}
    BY Zenon DEF OperatorEdit
  <2>2. PICK node1 : /\ tree' = Replaced(p1, node1)
                     /\ edited' = edited \cup {q \in Paths : Replaced(p1, node1)[q] # tree[q]}
    BY <2>1
  <2>3. QED BY <2>2
<1>5. ProjectTyped' BY <1>3, <1>4 DEF ApplyInv, ProjectTyped
<1>6. JournalTrue' /\ LockExcludes' /\ calls' \in [Calls -> Call]
  BY <1>3, JournalKept DEF ApplyInv, LockExcludes
<1>7. ASSUME NEW c \in Calls PROVE CallTrue(c)'
  <2>1. CallTrue(c) BY DEF ApplyInv
  <2>2. CopyTrue(c)' /\ TempOurs(c)' /\ PlanAdmitted(c)'
    BY <1>3, <2>1 DEF CallTrue, CopyTrue, TempOurs, PlanAdmitted, Plannable
  <2>3. WriterReady(c)' BY <1>3, <2>1 DEF CallTrue, WriterReady, Durable
  <2>4. PathViewed(c)'
    <3>1. /\ StepOf(c)' = StepOf(c) /\ PathOf(c)' = PathOf(c)
          /\ calls'[c].pc = calls[c].pc
      BY <1>3 DEF StepOf, PathOf, StepIndex
    <3>2. KindAt(c, calls[c].pc)' BY <2>1, <3>1 DEF CallTrue, PathViewed, KindAt
    <3>3. calls[c].pc \in Altering =>
            /\ PathOf(c) \in edited' \/ tree'[PathOf(c)] = tree[PathOf(c)]
            /\ edited \subseteq edited'
      <4>1. calls[c].pc \in Altering => PathOf(c) \in Paths
        BY InsideIs DEF Altering, InStep, Started, ExclusiveSteps
      <4>2. QED BY <1>a, <4>1
    <3>4. calls[c].pc \in Altering =>
            PathOf(c) \in edited' \/ FoundAt(c, calls[c].pc, tree'[PathOf(c)])
      BY <2>1, <3>3 DEF CallTrue, PathViewed
    <3>5. calls[c].pc \in Altering =>
            PathOf(c)' \in edited' \/ FoundAt(c, calls[c].pc, tree[PathOf(c)])'
      BY <3>1, <3>4 DEF FoundAt
    <3>6. QED BY <3>1, <3>2, <3>5 DEF PathViewed
  <2>5. QED BY <2>2, <2>3, <2>4 DEF CallTrue
<1>8. Safe /\ Onward
  <2>1. TempsSafe /\ Onward BY <1>3 DEF TempsSafe, Onward
  <2>2. TreeSafe BY <1>3 DEF TreeSafe
  <2>3. QED BY <2>1, <2>2 DEF Safe
<1>9. QED BY <1>5, <1>6, <1>7, <1>8 DEF ApplyInv

LEMMA OperatorTakesNameKeeps ==
  ASSUME ApplyInv, OperatorTakesName
  PROVE  ApplyInv' /\ Onward /\ Safe
<1> DEFINE name == ActiveOf(operation).temp
<1>1. /\ UNCHANGED <<review, tree, operation, plan, sealed, calls, lapses, edited>>
      /\ name \notin DOMAIN temps
      /\ temps' = [n \in DOMAIN temps \cup {name} |-> IF n = name THEN ForeignTemp ELSE temps[n]]
  BY DEF OperatorTakesName, HasTemp, UnchangedView
<1> HIDE DEF name
<1>2. /\ DOMAIN temps' = DOMAIN temps \cup {name}
      /\ \A n \in DOMAIN temps : temps'[n] = temps[n]
  BY <1>1
<1>3. ProjectTyped'
  <2>1. IsFiniteSet(DOMAIN temps') BY <1>2, FS_AddElement DEF ApplyInv, ProjectTyped
  <2>2. QED BY <1>1, <1>2, <2>1 DEF ApplyInv, ProjectTyped
<1>4. JournalTrue' /\ LockExcludes' /\ calls' \in [Calls -> Call]
  BY <1>1, JournalKept DEF ApplyInv, LockExcludes
<1>5. ASSUME NEW c \in Calls PROVE CallTrue(c)'
  <2>1. CallTrue(c) BY DEF ApplyInv
  <2>2. CopyTrue(c)' /\ PlanAdmitted(c)' /\ PathViewed(c)'
    BY <1>1, <2>1 DEF CallTrue, CopyTrue, PlanAdmitted, Plannable, PathViewed, KindAt,
                      FoundAt, StepOf, PathOf, StepIndex
  <2>3. WriterReady(c)' BY <1>1, <2>1 DEF CallTrue, WriterReady, Durable
  <2>4. TempOurs(c)' BY <1>1, <1>2, <2>1 DEF CallTrue, TempOurs
  <2>5. QED BY <2>2, <2>3, <2>4 DEF CallTrue
<1>6. Safe /\ Onward BY <1>1, <1>2 DEF Safe, TreeSafe, TempsSafe, Onward
<1>7. QED BY <1>3, <1>4, <1>5, <1>6 DEF ApplyInv

-----------------------------------------------------------------------------
(* Every step keeps the invariant. *)

LEMMA ApplyInit == InitApply => ApplyInv
<1> SUFFICES ASSUME InitApply PROVE ApplyInv OBVIOUS
<1>1. /\ review \in Reviews /\ tree = review.operator /\ temps = << >> /\ operation = None
      /\ plan = None /\ calls = [c \in Calls |-> Nobody]
  BY DEF InitApply
<1>2. calls \in [Calls -> Call] BY <1>1, NobodyIs
<1>3. ProjectTyped
  <2>1. tree = [p \in Paths |-> tree[p]] BY <1>1, ReviewsAssumption, Zenon DEF IsProject
  <2>2. DOMAIN temps = {} /\ temps = [n \in DOMAIN temps |-> temps[n]] BY <1>1
  <2>3. QED BY <2>1, <2>2, FS_EmptySet DEF ProjectTyped
<1>4. JournalTrue BY <1>1 DEF JournalTrue
<1>5. \A c \in Calls : calls[c].pc = "idle" /\ ~calls[c].current /\ calls[c].op = None
  BY <1>1 DEF Nobody
<1>6. LockExcludes BY <1>5 DEF LockExcludes, ExclusiveSteps
<1>7. ASSUME NEW c \in Calls PROVE CallTrue(c)
  <2>1. CopyTrue(c) BY <1>5 DEF CopyTrue, Loaded, ExclusiveSteps
  <2>2. WriterReady(c) BY <1>5 DEF WriterReady, ExclusiveSteps, Started, InStep
  <2>3. TempOurs(c) /\ PathViewed(c) /\ PlanAdmitted(c)
    BY <1>5 DEF TempOurs, Holding, PathViewed, KindAt, Altering, Publishing, PlanAdmitted
  <2>4. QED BY <2>1, <2>2, <2>3 DEF CallTrue
<1>8. QED BY <1>2, <1>3, <1>4, <1>6, <1>7 DEF ApplyInv

LEMMA ApplyStep ==
  ASSUME ApplyInv, [ApplyNext]_applyVars
  PROVE  ApplyInv' /\ Onward /\ Safe
<1>1. CASE UNCHANGED applyVars
  <2>1. UNCHANGED <<review, tree, temps, operation, plan, calls, lapses, edited>>
    BY <1>1 DEF applyVars
  <2>2. ProjectTyped' /\ JournalTrue' /\ LockExcludes' /\ calls' \in [Calls -> Call]
    BY <2>1, JournalKept DEF ApplyInv, LockExcludes, ProjectTyped
  <2>3. ASSUME NEW c \in Calls PROVE CallTrue(c)'
    <3>1. CallTrue(c) BY DEF ApplyInv
    <3>2. CopyTrue(c)' /\ PlanAdmitted(c)' /\ PathViewed(c)' /\ TempOurs(c)'
      BY <2>1, <3>1 DEF CallTrue, CopyTrue, PlanAdmitted, Plannable, PathViewed, KindAt,
                        FoundAt, StepOf, PathOf, StepIndex, TempOurs
    <3>3. WriterReady(c)' BY <2>1, <3>1 DEF CallTrue, WriterReady, Durable
    <3>4. QED BY <3>2, <3>3 DEF CallTrue
  <2>4. QED BY <2>1, <2>2, <2>3, SameIsSafe DEF ApplyInv, Onward
<1>2. CASE ApplyNext
  <2>1. CASE \E c \in Calls : Begin(c) \/ CallStep(c) \/ Die(c) \/ Err(c)
    BY <2>1, BeginKeeps, DieKeeps, ErrKeeps, PrepareKeeps, WriteKeeps, SameIsSafe DEF CallStep
  <2>2. CASE OperatorEdit \/ OperatorTakesName BY <2>2, OperatorEditKeeps, OperatorTakesNameKeeps
  <2>3. QED BY <1>2, <2>1, <2>2 DEF ApplyNext
<1>3. QED BY <1>1, <1>2

-----------------------------------------------------------------------------
(* What a prefix of the plan leaves. *)

\* Every nonempty set of natural numbers has a least element.
LEMMA LeastElement ==
  ASSUME NEW S, S \subseteq Nat, S # {}
  PROVE  \E n \in S : \A m \in S : n <= m
<1> DEFINE T == {0..n : n \in S}
<1>1. T \subseteq FiniteSubsetsOf(Nat) /\ T # {}
  <2>1. \A n \in S : 0..n \subseteq Nat /\ IsFiniteSet(0..n) BY FS_Interval
  <2>2. QED BY <2>1, Zenon DEF FiniteSubsetsOf
<1>2. PICK x \in T : \A y \in T : <<y, x>> \notin StrictSubsetOrdering(Nat)
  BY <1>1, WFMin, FS_StrictSubsetOrderingWellFounded, Zenon
<1>3. PICK n \in S : x = 0..n OBVIOUS
<1>4. ASSUME NEW m \in S, m < n PROVE FALSE
  <2>1. 0..m \subseteq 0..n /\ n \in 0..n /\ n \notin 0..m BY <1>4
  <2>2. <<0..m, 0..n>> \in StrictSubsetOrdering(Nat) BY <2>1 DEF StrictSubsetOrdering
  <2>3. QED BY <1>2, <1>3, <2>2, Zenon
<1>5. QED BY <1>4

\* So a nonempty set of positions has a first and a last one.
LEMMA FirstAndLast ==
  ASSUME NEW N \in Nat, NEW S, S \subseteq 1..N, S # {}
  PROVE  /\ FirstOf(S) \in S /\ \A k \in S : FirstOf(S) <= k
         /\ LastOf(S) \in S /\ \A k \in S : k <= LastOf(S)
<1> DEFINE D == {N - n : n \in S}
<1>1. PICK f \in S : \A k \in S : f <= k
  <2>1. S \subseteq Nat OBVIOUS
  <2>2. QED BY <2>1, LeastElement, Zenon
<1>2. PICK d \in D : \A m \in D : d <= m
  <2>1. D \subseteq Nat /\ D # {} OBVIOUS
  <2> HIDE DEF D
  <2>2. QED BY <2>1, LeastElement, Zenon
<1>3. PICK l \in S : d = N - l OBVIOUS
<1>4. \A k \in S : k <= l
  <2> SUFFICES ASSUME NEW k \in S PROVE k <= l OBVIOUS
  <2>1. N - k \in D OBVIOUS
  <2>2. N - l <= N - k BY <1>2, <1>3, <2>1
  <2>3. k \in Nat /\ l \in Nat OBVIOUS
  <2> HIDE DEF D
  <2>4. QED BY <2>2, <2>3
<1>5. QED BY <1>1, <1>4, Zenon DEF FirstOf, LastOf

\* The plan of a review, as the lemmas below use it.
Follows(r) == r \in Reviews /\ plan = PlanOf(r)

LEMMA StepsAre ==
  ASSUME NEW r, Follows(r)
  PROVE  /\ plan.steps = Ordered(RawSteps(r))
         /\ DOMAIN plan.steps = 1..Len(plan.steps) /\ Len(plan.steps) \in Nat
         /\ \A k \in DOMAIN plan.steps :
              /\ plan.steps[k] \in RawSteps(r)
              /\ plan.steps[k].path \in Transformed(r) /\ plan.steps[k].path \in Paths
         /\ \A s \in RawSteps(r) : \E k \in DOMAIN plan.steps : plan.steps[k] = s
         /\ \A i, j \in DOMAIN plan.steps : i < j => Precedes(plan.steps[i], plan.steps[j])
<1>1. plan.steps = Ordered(RawSteps(r)) BY DEF Follows, PlanOf
<1>2. /\ plan.steps \in Seq(RawSteps(r)) /\ DOMAIN plan.steps = 1..Len(plan.steps)
      /\ Len(plan.steps) \in Nat
      /\ \A s \in RawSteps(r) : \E k \in DOMAIN plan.steps : plan.steps[k] = s
      /\ \A i, j \in DOMAIN plan.steps : i < j => Precedes(plan.steps[i], plan.steps[j])
  BY <1>1, OrderedIs
<1>3. \A k \in DOMAIN plan.steps : plan.steps[k] \in RawSteps(r) BY <1>2
<1>4. \A k \in DOMAIN plan.steps :
        plan.steps[k].path \in Transformed(r) /\ plan.steps[k].path \in Paths
  BY <1>3, RawStepIs DEF Transformed, Changes
<1>5. QED BY <1>1, <1>2, <1>3, <1>4

\* Of two steps on a path the first removes and the second creates.
LEMMA TwoSteps ==
  ASSUME NEW r, Follows(r), NEW k \in DOMAIN plan.steps, NEW l \in DOMAIN plan.steps,
         k < l, plan.steps[k].path = plan.steps[l].path
  PROVE  Removal(r, plan.steps[k]) /\ Creation(r, plan.steps[l])
<1>1. /\ plan.steps[k] \in RawSteps(r) /\ plan.steps[l] \in RawSteps(r)
      /\ Precedes(plan.steps[k], plan.steps[l])
  BY StepsAre
<1>2. ~Precedes(plan.steps[k], plan.steps[k]) BY <1>1, PrecedesIsStrict
<1>3. Phase(plan.steps[k]) # Phase(plan.steps[l]) BY <1>1, <1>2, RawStepsDiffer
<1>4. Phase(plan.steps[k]) < Phase(plan.steps[l]) BY <1>1, <1>3 DEF Precedes
<1>5. QED BY <1>1, <1>4, RawStepsPair

\* A step takes its path from one state to another, and neither it nor a later one takes
\* the path back.
LEMMA BeforeDiffers ==
  ASSUME NEW r, Follows(r), NEW k \in DOMAIN plan.steps
  PROVE  LET p == plan.steps[k].path IN
         /\ plan.steps[k].before # plan.steps[k].after
         /\ plan.steps[k].before # FinalState(plan, p)
<1> DEFINE s == plan.steps[k]
           on == StepsOn(plan.steps, s.path)
           l == LastOf(on)
<1>1. s \in RawSteps(r) /\ DOMAIN plan.steps = 1..Len(plan.steps) /\ Len(plan.steps) \in Nat
  BY StepsAre
<1>2. s.before # s.after
  <2>1. s.path \in Transformed(r) BY <1>1, RawStepIs
  <2>2. r.operator[s.path] # r.result[s.path] BY <2>1 DEF Transformed
  <2> HIDE DEF s
  <2>3. QED BY <1>1, <2>2, RawStepIs DEF Removal, Creation, Replacement, Retouch
<1>3. k \in on /\ on \subseteq 1..Len(plan.steps) BY <1>1 DEF StepsOn
<1>4. l \in on /\ k <= l
  <2> HIDE DEF on
  <2>1. QED BY <1>1, <1>3, FirstAndLast
<1>5. CASE k = l BY <1>2, <1>5 DEF FinalState
<1>6. CASE k # l
  <2>1. /\ l \in DOMAIN plan.steps /\ plan.steps[l].path = s.path /\ k < l
    BY <1>1, <1>4, <1>6 DEF StepsOn
  <2>2. Removal(r, s) /\ Creation(r, plan.steps[l]) BY <2>1, TwoSteps
  <2>3. s.before # plan.steps[l].after BY <2>1, <2>2 DEF Removal, Creation
  <2>4. QED BY <1>2, <2>3 DEF FinalState
<1>7. QED BY <1>5, <1>6

\* What a path's last step before n left, where there is one.
DoneOn(p, n) == {k \in StepsOn(plan.steps, p) : k <= n}

LEMMA DoneOnIs ==
  ASSUME NEW r, Follows(r), NEW p, NEW n
  PROVE  /\ DoneOn(p, n) \subseteq 1..Len(plan.steps) /\ Len(plan.steps) \in Nat
         /\ DoneOn(p, n) # {} => /\ LastOf(DoneOn(p, n)) \in DoneOn(p, n)
                                 /\ \A k \in DoneOn(p, n) : k <= LastOf(DoneOn(p, n))
<1>1. DoneOn(p, n) \subseteq 1..Len(plan.steps) /\ Len(plan.steps) \in Nat
  BY StepsAre DEF DoneOn, StepsOn
<1>2. QED BY <1>1, FirstAndLast

LEMMA AfterIs ==
  ASSUME NEW start, NEW n, NEW p \in Paths
  PROVE  /\ After(start, plan.steps, n) = [q \in Paths |-> After(start, plan.steps, n)[q]]
         /\ After(start, plan.steps, n)[p] =
              IF DoneOn(p, n) = {} THEN start[p] ELSE plan.steps[LastOf(DoneOn(p, n))].after
BY DEF After, DoneOn

\* The first n + 1 steps are the first n and the next one.
LEMMA NextDone ==
  ASSUME NEW r, Follows(r), NEW n \in 0..Len(plan.steps) - 1, NEW p
  PROVE  DoneOn(p, n + 1) = IF plan.steps[n + 1].path = p THEN DoneOn(p, n) \cup {n + 1}
                            ELSE DoneOn(p, n)
<1>1. DOMAIN plan.steps = 1..Len(plan.steps) /\ Len(plan.steps) \in Nat BY StepsAre
<1>2. \A k \in DOMAIN plan.steps : k <= n + 1 <=> k <= n \/ k = n + 1 BY <1>1
<1>3. n + 1 \in DOMAIN plan.steps /\ ~(n + 1 <= n) BY <1>1
<1>4. QED BY <1>2, <1>3 DEF DoneOn, StepsOn

LEMMA AfterStep ==
  ASSUME NEW r, Follows(r), NEW start, NEW n \in 0..Len(plan.steps) - 1
  PROVE  After(start, plan.steps, n + 1)
           = [After(start, plan.steps, n) EXCEPT ![plan.steps[n + 1].path]
                = plan.steps[n + 1].after]
<1> DEFINE p == plan.steps[n + 1].path
           old == After(start, plan.steps, n)
           new == After(start, plan.steps, n + 1)
<1>1. new = [q \in Paths |-> new[q]] /\ old = [q \in Paths |-> old[q]] BY DEF After
<1>2. ASSUME NEW q \in Paths, q # p PROVE new[q] = old[q]
  <2>1. DoneOn(q, n + 1) = DoneOn(q, n) BY <1>2, NextDone, Zenon
  <2>2. /\ new[q] = IF DoneOn(q, n + 1) = {} THEN start[q]
                    ELSE plan.steps[LastOf(DoneOn(q, n + 1))].after
        /\ old[q] = IF DoneOn(q, n) = {} THEN start[q]
                    ELSE plan.steps[LastOf(DoneOn(q, n))].after
    BY DEF After, DoneOn
  <2> HIDE DEF old, new
  <2>3. QED BY <2>1, <2>2
<1>3. p \in Paths => new[p] = plan.steps[n + 1].after
  <2>1. DoneOn(p, n + 1) = DoneOn(p, n) \cup {n + 1} BY NextDone, Zenon
  <2>2. /\ LastOf(DoneOn(p, n + 1)) \in DoneOn(p, n + 1)
        /\ n + 1 <= LastOf(DoneOn(p, n + 1))
    BY <2>1, DoneOnIs
  <2>3. LastOf(DoneOn(p, n + 1)) = n + 1 BY <2>2, DoneOnIs DEF DoneOn
  <2>4. p \in Paths =>
          new[p] = IF DoneOn(p, n + 1) = {} THEN start[p]
                   ELSE plan.steps[LastOf(DoneOn(p, n + 1))].after
    BY DEF After, DoneOn
  <2> HIDE DEF p, new
  <2>5. QED BY <2>1, <2>3, <2>4, Zenon
<1> HIDE DEF p, old, new
<1>4. QED BY <1>1, <1>2, <1>3 DEF p, old, new

\* A creation in place of another object comes with the removal of that object.
LEMMA RemovalGoesAlong ==
  ASSUME NEW r, NEW s \in RawSteps(r), Creation(r, s), NEW old, old = r.operator[s.path],
         old # Absent
  PROVE  \E t \in RawSteps(r) : t.path = s.path /\ Phase(t) = 10
<1> DEFINE p == s.path
           new == r.result[p]
           kind == RemoveKind(old)
           t == Step(p, kind, old, Absent)
<1>1. p \in Transformed(r) BY RawStepIs
<1>2. old.kind # new.kind BY DEF Creation
<1>3. kind \in {"remove_leaf", "remove_directory"} BY DEF RemoveKind
<1> HIDE DEF p, new, kind
<1>4. t.path = p /\ t.kind = kind BY DEF Step
<1>5. t \in RawSteps(r)
  <2>1. t \in Substitution(p, old, new) BY <1>2 DEF Substitution, kind
  <2>2. old = r.operator[p] /\ new = r.result[p] BY DEF p, new
  <2> HIDE DEF t
  <2>3. QED BY <1>1, <2>1, <2>2 DEF RawSteps
<1> HIDE DEF t
<1>6. Phase(t) = 10 BY <1>3, <1>4 DEF Phase
<1>7. QED BY <1>4, <1>5, <1>6 DEF p

LEMMA RemovalOrCreation ==
  ASSUME NEW r, NEW s, Removal(r, s)
  PROVE  ~Creation(r, s)
BY Zenon DEF Removal, Creation

\* The reviewed project is where each path's first step starts.
LEMMA FirstBefore ==
  ASSUME NEW r, Follows(r), NEW k \in DOMAIN plan.steps,
         DoneOn(plan.steps[k].path, k - 1) = {}
  PROVE  plan.steps[k].before = r.operator[plan.steps[k].path]
<1> DEFINE s == plan.steps[k]
           p == s.path
           old == r.operator[p]
<1>1. /\ s \in RawSteps(r) /\ DOMAIN plan.steps = 1..Len(plan.steps) BY StepsAre
<1> HIDE DEF p, old
<1>2. CASE Creation(r, s) /\ old # Absent
  <2>1. PICK t \in RawSteps(r) : t.path = p /\ Phase(t) = 10
    <3> HIDE DEF s
    <3>1. old = r.operator[s.path] BY DEF old, p
    <3>2. QED BY <1>1, <1>2, <3>1, RemovalGoesAlong DEF p
  <2>2. PICK l \in DOMAIN plan.steps : plan.steps[l] = t BY <2>1, StepsAre
  <2>3. plan.steps[l].path = p /\ ~(l < k)
    <3>1. l < k => l \in DoneOn(p, k - 1) BY <1>1, <2>1, <2>2 DEF DoneOn, StepsOn
    <3>2. QED BY <2>1, <2>2, <3>1 DEF p
  <2>4. l # k BY <1>2, <2>1, <2>2 DEF Creation
  <2>5. k < l /\ plan.steps[k].path = plan.steps[l].path BY <1>1, <2>3, <2>4 DEF p
  <2>6. Removal(r, s) BY <2>5, TwoSteps
  <2>7. QED BY <1>2, <2>6, RemovalOrCreation
<1>3. CASE ~(Creation(r, s) /\ old # Absent)
  <2> HIDE DEF s
  <2>1. s.before = old BY <1>1, <1>3, RawStepIs DEF Removal, Creation, Replacement, Retouch, old, p
  <2>2. QED BY <2>1 DEF s, p, old
<1>4. QED BY <1>2, <1>3

\* After the first steps the next one finds its path where it starts.
LEMMA StartIs ==
  ASSUME NEW r, Follows(r), NEW k \in DOMAIN plan.steps
  PROVE  After(r.operator, plan.steps, k - 1)[plan.steps[k].path] = plan.steps[k].before
<1> DEFINE p == plan.steps[k].path
           l == LastOf(DoneOn(p, k - 1))
           before == plan.steps[k].before
<1>1. p \in Paths /\ DOMAIN plan.steps = 1..Len(plan.steps) /\ Len(plan.steps) \in Nat BY StepsAre
<1>2. DoneOn(p, k - 1) = {} => before = r.operator[p] BY FirstBefore
<1>3. \A m \in DoneOn(p, k - 1) :
        m \in DOMAIN plan.steps /\ m < k /\ plan.steps[m].path = plan.steps[k].path
  BY <1>1 DEF DoneOn, StepsOn
<1> HIDE DEF before, p
<1>4. After(r.operator, plan.steps, k - 1)[p]
        = IF DoneOn(p, k - 1) = {} THEN r.operator[p] ELSE plan.steps[l].after
  BY <1>1, AfterIs, Zenon
<1>5. CASE DoneOn(p, k - 1) # {}
  <2>1. l \in DoneOn(p, k - 1) BY <1>5, DoneOnIs
  <2> HIDE DEF l
  <2>2. Removal(r, plan.steps[l]) /\ Creation(r, plan.steps[k]) BY <1>3, <2>1, TwoSteps
  <2>3. plan.steps[l].after = Absent BY <2>2 DEF Removal
  <2>4. before = Absent BY <2>2 DEF Creation, before
  <2>5. QED BY <1>4, <1>5, <2>3, <2>4 DEF l, p, before
<1>6. QED BY <1>2, <1>4, <1>5 DEF p, before

\* And the steps before it have brought theirs where the step or the plan takes them.
LEMMA DoneIs ==
  ASSUME NEW r, Follows(r), NEW n \in Nat, NEW k \in DOMAIN plan.steps, k <= n, NEW start
  PROVE  After(start, plan.steps, n)[plan.steps[k].path]
           \in {FinalState(plan, plan.steps[k].path), plan.steps[k].after}
<1> DEFINE p == plan.steps[k].path
           l == LastOf(DoneOn(p, n))
           f == LastOf(StepsOn(plan.steps, p))
<1>1. p \in Paths /\ DOMAIN plan.steps = 1..Len(plan.steps) /\ Len(plan.steps) \in Nat BY StepsAre
<1>2. k \in DoneOn(p, n) BY DEF DoneOn, StepsOn
<1>3. After(start, plan.steps, n)[p] = plan.steps[l].after BY <1>1, <1>2 DEF After, DoneOn
<1>4. l \in DoneOn(p, n) /\ k <= l BY <1>2, DoneOnIs
<1>5. l \in DOMAIN plan.steps /\ plan.steps[l].path = p BY <1>4 DEF DoneOn, StepsOn
<1> HIDE DEF l, f
<1>6. CASE k = l BY <1>3, <1>6
<1>7. CASE k # l
  <2>1. Creation(r, plan.steps[l]) BY <1>1, <1>4, <1>5, <1>7, TwoSteps
  <2>2. f \in StepsOn(plan.steps, p) /\ l <= f
    <3> DEFINE on == StepsOn(plan.steps, p)
    <3>1. on \subseteq 1..Len(plan.steps) /\ l \in on BY <1>1, <1>5 DEF StepsOn
    <3>2. f = LastOf(on) BY DEF f
    <3> HIDE DEF on
    <3>3. f \in on /\ l <= f BY <1>1, <3>1, <3>2, FirstAndLast
    <3>4. QED BY <3>3 DEF on
  <2>3. f \in DOMAIN plan.steps /\ plan.steps[f].path = p BY <2>2 DEF StepsOn
  <2>4. ~(l < f)
    <3>1. l < f => Removal(r, plan.steps[l]) BY <1>5, <2>3, TwoSteps
    <3>2. QED BY <2>1, <3>1, RemovalOrCreation
  <2>5. f = l BY <1>1, <1>5, <2>2, <2>3, <2>4
  <2>6. QED BY <1>3, <2>5 DEF FinalState, f
<1>8. QED BY <1>6, <1>7

-----------------------------------------------------------------------------
(* The project stays a tree. *)

LEMMA NothingBelow ==
  ASSUME NEW t, IsTree(t), NEW p \in Paths, ~IsDirectory(t[p])
  PROVE  Below(p) \cap Present(t) = {}
BY DEF IsTree, Below, Above, Present

LEMMA PresentReached ==
  ASSUME NEW t, IsTree(t), NEW p \in Paths, t[p] # Absent
  PROVE  Reachable(t, p)
BY DEF IsTree, Present, Reachable, Broken

\* An object that lies in directories and holds what lies in it can be put at a path.
LEMMA TreePut ==
  ASSUME NEW t, t = [q \in Paths |-> t[q]], IsTree(t), NEW p \in Paths, NEW node,
         node = Absent \/ Reachable(t, p),
         IsDirectory(node) \/ Below(p) \cap Present(t) = {}
  PROVE  IsTree([t EXCEPT ![p] = node])
<1> DEFINE u == [t EXCEPT ![p] = node]
<1>1. \A q \in Paths : u[q] = IF q = p THEN node ELSE t[q] OBVIOUS
<1> HIDE DEF u
<1>2. SUFFICES ASSUME NEW q \in Present(u), NEW a \in Above(q) PROVE IsDirectory(u[a])
  BY DEF IsTree, u
<1>3. q \in Paths /\ a \in Paths /\ a # q /\ q \in Below(a) /\ u[q] # Absent
  BY DEF Present, Above, Below, IsStrictPrefix
<1>4. CASE q = p BY <1>1, <1>3, <1>4 DEF Reachable, Broken
<1>5. CASE q # p
  <2>1. q \in Present(t) BY <1>1, <1>3, <1>5 DEF Present
  <2>2. IsDirectory(t[a]) BY <2>1 DEF IsTree
  <2>3. QED BY <1>1, <1>3, <2>1, <2>2
<1>6. QED BY <1>4, <1>5

-----------------------------------------------------------------------------
(* The outcomes of a call's step. *)

\* The call ends; ends and says why in the journal; goes on with what it knows; commits
\* and goes on; or goes on with what the journal says now.
Left(c) == Becomes(c, Nobody) /\ operation' = operation
Ended(c, last) ==
  Becomes(c, Nobody) /\ operation' = last /\ ValidOperation(last) /\ calls[c].current
Moved(c, pc) == Becomes(c, [calls[c] EXCEPT !.pc = pc]) /\ operation' = operation
Stored(c, next, pc) ==
  /\ Becomes(c, Copied(c, next, pc))
  /\ operation' = next /\ ValidOperation(next) /\ calls[c].current
Taken(c, pc) == Becomes(c, Copied(c, operation, pc)) /\ operation' = operation

LEMMA LeaveMoves ==
  ASSUME ApplyInv, NEW c \in Calls, Leave(c), operation' = operation
  PROVE  Left(c)
BY LeaveBecomes DEF ApplyInv, Left

LEMMA GotoMoves ==
  ASSUME ApplyInv, NEW c \in Calls, NEW pc \in Pcs, Goto(c, pc), operation' = operation
  PROVE  Moved(c, pc)
BY GotoBecomes DEF ApplyInv, Moved

LEMMA RecordMoves ==
  ASSUME ApplyInv, NEW c \in Calls, NEW last, Record(c, last)
  PROVE  Left(c) \/ Ended(c, last)
BY RecordBecomes DEF ApplyInv, Left, Ended

LEMMA CommitMoves ==
  ASSUME ApplyInv, NEW c \in Calls, NEW next \in Operations, NEW advance \in BOOLEAN,
         NEW pc \in Pcs, Commit(c, next, advance, pc)
  PROVE  \/ /\ Left(c)
            /\ \/ ~ValidOperation(next)
               \/ ~calls[c].current /\ ~(operation # None /\ advance)
         \/ Stored(c, next, pc)
         \/ Taken(c, pc) /\ operation # None /\ advance /\ ~calls[c].current
<1>1. calls \in [Calls -> Call] /\ operation \in Operations \cup {None} BY DEF ApplyInv, JournalTrue
<1>2. \A op \in Operations \cup {None} : Copied(c, op, pc) \in Call BY <1>1, Zenon DEF Call, Copied
<1>3. CASE ~ValidOperation(next)
  <2>1. Leave(c) /\ operation' = operation BY <1>3 DEF Commit
  <2>2. Left(c) BY <2>1, LeaveMoves
  <2>3. QED BY <1>3, <2>2
<1>4. CASE ValidOperation(next) /\ calls[c].current
  <2>1. calls' = [d \in Calls |-> IF d = c THEN Copied(c, next, pc)
                                  ELSE [calls[d] EXCEPT !.current = FALSE]]
        /\ operation' = next
    BY <1>4 DEF Commit, Store, Copied
  <2>2. Becomes(c, Copied(c, next, pc)) BY <1>1, <1>2, <2>1, StoredBecomes
  <2>3. QED BY <1>4, <2>1, <2>2 DEF Stored
<1>5. CASE ValidOperation(next) /\ ~calls[c].current /\ operation # None /\ advance
  <2>1. calls' = [calls EXCEPT ![c] = Copied(c, operation, pc)] /\ operation' = operation
    BY <1>5, Zenon DEF Commit, Copied
  <2>2. QED BY <1>1, <1>2, <1>5, <2>1, AloneBecomes, Zenon DEF Taken
<1>6. CASE ValidOperation(next) /\ ~calls[c].current /\ ~(operation # None /\ advance)
  <2>1. Leave(c) /\ operation' = operation BY <1>6 DEF Commit
  <2>2. Left(c) BY <2>1, LeaveMoves
  <2>3. QED BY <1>6, <2>2
<1>7. QED BY <1>3, <1>4, <1>5, <1>6

\* What a call is after each.
LEMMA LeftIs ==
  ASSUME NEW c \in Calls, Becomes(c, Nobody)
  PROVE  /\ OthersSame(c) /\ calls'[c].pc = "idle" /\ calls'[c].op = None
         /\ calls'[c].completed = 0 /\ calls'[c].intent = None /\ ~calls'[c].current
BY DEF Becomes, Nobody

LEMMA MovedIs ==
  ASSUME ApplyInv, NEW c \in Calls, NEW pc, Moved(c, pc)
  PROVE  /\ OthersSame(c) /\ operation' = operation
         /\ calls'[c].pc = pc /\ calls'[c].op = calls[c].op
         /\ calls'[c].completed = calls[c].completed /\ calls'[c].intent = calls[c].intent
         /\ calls'[c].temp = calls[c].temp /\ calls'[c].current = calls[c].current
<1>1. calls[c] \in Call BY DEF ApplyInv
<1>2. QED BY <1>1 DEF Moved, Becomes, Call

LEMMA CopiedIs ==
  ASSUME ApplyInv, NEW c \in Calls, NEW op, NEW pc, Becomes(c, Copied(c, op, pc))
  PROVE  /\ OthersSame(c)
         /\ calls'[c].pc = pc /\ calls'[c].op = op /\ calls'[c].current
         /\ calls'[c].completed = calls[c].completed /\ calls'[c].intent = calls[c].intent
         /\ calls'[c].temp = calls[c].temp
<1>1. calls[c] \in Call BY DEF ApplyInv
<1>2. QED BY <1>1 DEF Copied, Becomes, Call

LEMMA OthersAre ==
  ASSUME ApplyInv, NEW c \in Calls, OthersSame(c), NEW d \in Calls, d # c
  PROVE  /\ calls'[d].pc = calls[d].pc /\ calls'[d].op = calls[d].op
         /\ calls'[d].completed = calls[d].completed /\ calls'[d].temp = calls[d].temp
         /\ calls'[d].intent = calls[d].intent /\ (calls'[d].current => calls[d].current)
<1>1. calls[d] \in Call BY DEF ApplyInv
<1>2. CASE calls'[d] = calls[d] BY <1>2
<1>3. CASE calls'[d] = [calls[d] EXCEPT !.current = FALSE] BY <1>1, <1>3 DEF Call
<1>4. QED BY <1>2, <1>3 DEF OthersSame

\* A published plan is the review's.
LEMMA PlanFollows ==
  ASSUME ApplyInv, plan # None
  PROVE  Follows(review) /\ Plannable(review)
BY DEF ApplyInv, JournalTrue, Follows

LEMMA WriterFollows ==
  ASSUME ApplyInv, NEW c \in Calls, calls[c].pc \in {"lock_exclusive"} \cup ExclusiveSteps
  PROVE  plan # None /\ Follows(review)
BY WriterPlan DEF Follows

-----------------------------------------------------------------------------
(* Where the calls are. *)

LEMMA PositionsKeep ==
  ASSUME ApplyInv, \A d \in Calls : Positioned(d), NEW c \in Calls, OthersSame(c),
         plan' = plan \/ plan = None, Positioned(c)'
  PROVE  (\A d \in Calls : Positioned(d))'
<1> SUFFICES ASSUME NEW d \in Calls, d # c PROVE Positioned(d)' OBVIOUS
<1>1. /\ calls'[d].pc = calls[d].pc /\ calls'[d].completed = calls[d].completed
      /\ Positioned(d)
  BY OthersAre
<1>2. calls[d].pc \in Publishing => plan' = plan
  <2>1. Publishing \subseteq ExclusiveSteps BY DEF Publishing, ExclusiveSteps
  <2>2. QED BY <2>1, WriterFollows
<1>3. calls[d].pc \in Publishing => StepOf(d)' = StepOf(d) BY <1>1, <1>2 DEF StepOf, StepIndex
<1>4. QED BY <1>1, <1>3 DEF Positioned

-----------------------------------------------------------------------------
(* The package stays. *)

\* What backs a document goes on backing it: the plan is published once, and payloads
\* are only added.
LEMMA DocGrows ==
  ASSUME NEW op, NEW old, NEW new, NEW some, NEW more, DocHolds(op, old, some),
         some \subseteq more, op # None => ValidOperation(op) /\ op.plan \in {None, old},
         new = old \/ old = None
  PROVE  DocHolds(op, new, more)
<1>1. CASE new = old BY <1>1 DEF DocHolds
<1>2. CASE old = None BY <1>2 DEF DocHolds, ValidOperation
<1>3. QED BY <1>1, <1>2

LEMMA PackageKeeps ==
  ASSUME ApplyInv, PackageInv, NEW c \in Calls, OthersSame(c),
         plan' = plan \/ plan = None, sealed \subseteq sealed',
         operation' = operation \/ DocBacked(operation)',
         Op(c)' \in {None, Op(c), operation'}, Packing(c)'
  PROVE  PackageInv'
<1>1. /\ operation # None => ValidOperation(operation) /\ operation.plan \in {None, plan}
      /\ \A d \in Calls : Op(d) # None => ValidOperation(Op(d)) /\ Op(d).plan \in {None, plan}
  BY DEF ApplyInv, JournalTrue, CallTrue, CopyTrue, Op
<1>2. DocHolds(operation', plan', sealed')
  <2>1. CASE operation' = operation
    <3>1. DocHolds(operation, plan, sealed) BY DEF PackageInv, DocBacked
    <3>2. DocHolds(operation, plan', sealed') BY <1>1, <3>1, DocGrows
    <3>3. QED BY <2>1, <3>2
  <2>2. CASE DocBacked(operation)' BY <2>2 DEF DocBacked
  <2>3. QED BY <2>1, <2>2
<1>3. ASSUME NEW d \in Calls PROVE DocHolds(Op(d), plan', sealed')
  <2>1. DocHolds(Op(d), plan, sealed) BY DEF PackageInv, DocBacked
  <2>2. QED BY <1>1, <2>1, DocGrows
<1>4. \A d \in Calls : DocHolds(Op(d)', plan', sealed')
  <2>1. \A d \in Calls \ {c} : Op(d)' = Op(d) BY OthersAre DEF Op
  <2>2. DocHolds(None, plan', sealed') BY DEF DocHolds
  <2>3. QED BY <1>2, <1>3, <2>1, <2>2
<1>5. ASSUME NEW d \in Calls, d # c PROVE Packing(d)'
  <2>1. /\ calls'[d].pc = calls[d].pc /\ Op(d)' = Op(d) /\ Packing(d)
    BY <1>5, OthersAre DEF Op, PackageInv
  <2>2. CASE plan' = plan
    <3>1. PackageWhole(Op(d)) => PackageWhole(Op(d))' BY <2>1, <2>2 DEF PackageWhole
    <3>2. NextPayload(d)' = NextPayload(d) BY <2>1, <2>2 DEF NextPayload
    <3>3. QED BY <2>1, <2>2, <3>1, <3>2 DEF Packing
  <2>3. CASE plan = None BY <2>1, <2>3 DEF Packing, PackageWhole
  <2>4. QED BY <2>2, <2>3
<1>6. QED BY <1>2, <1>4, <1>5 DEF PackageInv, DocBacked

\* A call that is nowhere in its package's way.
Aside == {"idle", "lock_shared", "open", "observe", "create", "probe", "plan", "publish_plan",
          "load", "done"}

LEMMA AsideIs ==
  ASSUME NEW c, calls'[c].pc \in Aside
  PROVE  Packing(c)'
BY DEF Aside, Packing, ExclusiveSteps

LEMMA BaseKeeps ==
  ASSUME ApplyInv, BaseInv, NEW c \in Calls, OthersSame(c), edits' = edits, IsTree(tree)',
         plan' = plan \/ plan = None, sealed \subseteq sealed',
         operation' = operation \/ DocBacked(operation)',
         Op(c)' \in {None, Op(c), operation'}, Packing(c)', Positioned(c)'
  PROVE  BaseInv'
BY PackageKeeps, PositionsKeep DEF BaseInv

\* A call that ends.
LEMMA LeftBase ==
  ASSUME ApplyInv, BaseInv, NEW c \in Calls, Becomes(c, Nobody), edits' = edits, IsTree(tree)',
         plan' = plan, sealed' = sealed, operation' = operation \/ DocBacked(operation)'
  PROVE  BaseInv'
<1>1. OthersSame(c) /\ calls'[c].pc = "idle" /\ Op(c)' = None /\ calls'[c].completed = 0
  BY LeftIs DEF Op
<1>2. Packing(c)' /\ Positioned(c)' BY <1>1, AsideIs DEF Aside, Positioned, Publishing
<1>3. QED BY <1>1, <1>2, BaseKeeps

\* A call outside the writer's section that goes on there, with its copy or the journal.
LEMMA PrepareBase ==
  ASSUME ApplyInv, BaseInv, NEW c \in Calls, OthersSame(c), edits' = edits, tree' = tree,
         plan' = plan \/ plan = None, sealed \subseteq sealed',
         operation' = operation \/ DocBacked(operation)',
         Op(c)' \in {None, Op(c), operation'}, Packing(c)',
         calls[c].pc \notin Started \cup {"done"}, calls'[c].pc \notin Started,
         calls'[c].completed = calls[c].completed
  PROVE  BaseInv'
<1>1. Publishing \subseteq Started BY DEF Publishing, Started, ExclusiveSteps
<1>2. calls[c].completed = 0 BY DEF BaseInv, Positioned
<1>3. Positioned(c)' BY <1>1, <1>2 DEF Positioned
<1>4. IsTree(tree)' BY DEF BaseInv
<1>5. QED BY <1>3, <1>4, BaseKeeps

-----------------------------------------------------------------------------
(* What a step outside the section leaves. *)

LEMMA AppliedSame ==
  ASSUME plan' = plan, review' = review, NEW n
  PROVE  Applied(n)' = Applied(n) /\ Bare(n)' = Bare(n)
BY DEF Applied, Bare

LEMMA AfterZero ==
  ASSUME NEW r \in Reviews
  PROVE  After(r.operator, PlanOf(r).steps, 0) = r.operator /\ Len(PlanOf(r).steps) \in Nat
<1> DEFINE steps == PlanOf(r).steps
<1>1. steps = Ordered(RawSteps(r)) BY DEF PlanOf
<1>2. DOMAIN steps = 1..Len(steps) /\ Len(steps) \in Nat BY <1>1, OrderedIs
<1>3. r.operator = [p \in Paths |-> r.operator[p]] BY ReviewsAssumption, Zenon DEF IsProject
<1> HIDE DEF steps
<1>4. \A p : {k \in StepsOn(steps, p) : k <= 0} = {} BY <1>2 DEF StepsOn
<1>5. After(r.operator, steps, 0) = [p \in Paths |-> r.operator[p]] BY <1>4 DEF After
<1>6. QED BY <1>2, <1>3, <1>5 DEF steps

LEMMA DurableIs ==
  ASSUME NEW op \in Operations \cup {None}
  PROVE  DurableIn(op) \in Nat /\ (op # None => Durable(op) = DurableIn(op))
BY NoneAssumption DEF DurableIn, Durable, Operations, Executions

LEMMA DocsAre ==
  ASSUME ApplyInv
  PROVE  /\ operation \in Operations \cup {None}
         /\ \A c \in Calls : Op(c) \in Operations \cup {None}
BY DEF ApplyInv, JournalTrue, Call, Op

\* Without a plan nothing is executed.
LEMMA UnplannedIs ==
  ASSUME NEW op \in Operations, ValidOperation(op), op.plan = None
  PROVE  op.execution = None /\ op.status # "applied"
BY DEF ValidOperation, ValidExecution, Running

\* What a step outside the writer's section keeps: the journal records no new progress.
LEMMA PlaceQuiet ==
  ASSUME ApplyInv, ApplyInv', PlaceInv, NEW c \in Calls, OthersSame(c), tree' = tree,
         review' = review, lapses \subseteq lapses', plan' = plan \/ plan = None,
         calls[c].pc \notin Started, calls'[c].pc \notin Started,
         Executing => Executing',
         DurableIn(operation') = DurableIn(operation),
         operation # None => operation' # None,
         operation' # None /\ operation'.status = "applied" =>
           operation # None /\ operation.status = "applied",
         Op(c)' \in {None, Op(c), operation'}
  PROVE  PlaceInv'
<1>1. \A d \in Calls \ {c} : /\ calls'[d].pc = calls[d].pc /\ Op(d)' = Op(d)
                             /\ calls'[d].completed = calls[d].completed
  BY OthersAre DEF Op
<1>2. /\ operation \in Operations \cup {None} /\ operation' \in Operations \cup {None}
      /\ \A d \in Calls : Op(d) \in Operations \cup {None}
      /\ \A d \in Calls : Op(d)' \in Operations \cup {None}
  <2>1. operation \in Operations \cup {None} /\ \A d \in Calls : Op(d) \in Operations \cup {None}
    BY DocsAre
  <2>2. operation' \in Operations \cup {None} BY DEF ApplyInv, JournalTrue
  <2>3. \A d \in Calls : Op(d)' \in Operations \cup {None} BY <1>1, <2>1, <2>2
  <2>4. QED BY <2>1, <2>2, <2>3
<1>3. (~Executing => tree = review.operator)' BY DEF PlaceInv
<1>4. (\A d \in Calls : Op(d) # None /\ Op(d).execution # None => Executing)'
  <2>1. Op(c)' = operation' /\ Op(c)' # None /\ Op(c)'.execution # None => Executing'
    BY DEF Executing
  <2>2. QED BY <1>1, <2>1 DEF PlaceInv
<1>5. (\A d \in Calls : calls[d].pc \in Started => Executing)' BY <1>1 DEF PlaceInv
<1>6. ("late_call" \notin lapses =>
        \A d \in Calls : Op(d) # None => operation # None /\ Durable(Op(d)) <= Durable(operation))'
  <2> SUFFICES ASSUME "late_call" \notin lapses', NEW d \in Calls, Op(d)' # None
               PROVE  operation' # None /\ Durable(Op(d)') <= Durable(operation')
    OBVIOUS
  <2>1. CASE Op(d)' = operation'
    <3>1. Durable(operation') \in Nat BY <1>2, <2>1, DurableIs
    <3>2. QED BY <2>1, <3>1
  <2>2. CASE Op(d)' = Op(d)
    <3>1. operation # None /\ Durable(Op(d)) <= Durable(operation) BY <2>2 DEF PlaceInv
    <3>2. Durable(operation') = Durable(operation) BY <1>2, <3>1, DurableIs
    <3>3. QED BY <2>2, <3>1, <3>2
  <2>3. QED BY <1>1, <2>1, <2>2
<1>7. ASSUME plan # None
      PROVE  (\/ \E n \in 0..Len(plan.steps) :
                   /\ Reached(n)
                   /\ tree = IF \E d \in Calls : At(d, "chmod") THEN Bare(n) ELSE Applied(n)
              \/ \E n \in 0..Len(plan.steps) - 1 : Frozen(n))'
  <2>1. plan' = plan BY <1>7
  <2>2. \A n : Applied(n)' = Applied(n) /\ Bare(n)' = Bare(n) BY <2>1, AppliedSame
  <2>3. (\E d \in Calls : At(d, "chmod"))' <=> \E d \in Calls : At(d, "chmod")
    <3>1. "chmod" \in Started BY DEF Started, ExclusiveSteps
    <3>2. QED BY <1>1, <3>1 DEF At
  <2>4. CASE \E n \in 0..Len(plan.steps) :
               /\ Reached(n)
               /\ tree = IF \E d \in Calls : At(d, "chmod") THEN Bare(n) ELSE Applied(n)
    <3>1. PICK n \in 0..Len(plan.steps) :
            /\ Reached(n)
            /\ tree = IF \E d \in Calls : At(d, "chmod") THEN Bare(n) ELSE Applied(n)
      BY <2>4
    <3>2. Recorded(n)'
      <4>1. DurableIn(operation)' = DurableIn(operation) OBVIOUS
      <4>2. QED BY <2>1, <3>1, <4>1 DEF Reached, Recorded
    <3>3. ASSUME NEW d \in Calls PROVE Standing(d, n)'
      <4>1. /\ DurableIn(operation') <= n /\ DurableIn(Op(d)) <= n /\ n \in Nat
            /\ Standing(d, n)
        BY <3>1 DEF Reached, Recorded, Standing
      <4>2. DurableIn(Op(d)') <= n
        <5>1. DurableIn(None) = 0 BY DEF DurableIn
        <5>2. Op(d)' \in {None, Op(d), operation'} BY <1>1
        <5>3. QED BY <4>1, <5>1, <5>2
      <4>3. CASE d # c BY <1>1, <2>1, <4>1, <4>2, <4>3 DEF Standing
      <4>4. CASE d = c
        <5>1. Publishing \cup Altering \cup {"verify", "progress", "final", "finish"}
             \subseteq Started
          BY DEF Publishing, Altering, Started, ExclusiveSteps
        <5>2. QED BY <4>2, <4>4, <5>1 DEF Standing
      <4>5. QED BY <4>3, <4>4
    <3>4. QED BY <2>1, <2>2, <2>3, <3>1, <3>2, <3>3 DEF Reached
  <2>5. CASE \E n \in 0..Len(plan.steps) - 1 : Frozen(n)
    <3>1. PICK n \in 0..Len(plan.steps) - 1 : Frozen(n) BY <2>5
    <3>2. Frozen(n)' BY <1>1, <2>1, <2>2, <3>1 DEF Frozen
    <3>3. QED BY <2>1, <3>2
  <2>6. QED BY <1>7, <2>4, <2>5 DEF PlaceInv
<1>8. ASSUME plan = None, plan' # None
      PROVE  (\E n \in 0..Len(plan.steps) :
                /\ Reached(n)
                /\ tree = IF \E d \in Calls : At(d, "chmod") THEN Bare(n) ELSE Applied(n))'
  <2>1. review' \in Reviews /\ plan' = PlanOf(review') BY <1>8 DEF ApplyInv, JournalTrue
  <2>2. Applied(0)' = review'.operator /\ Len(plan'.steps) \in Nat BY <2>1, AfterZero DEF Applied
  <2>3. \A d \in Calls : calls[d].pc \notin Started
    <3>1. Started \subseteq ExclusiveSteps BY DEF Started
    <3>2. QED BY <1>8, <3>1, WriterFollows
  <2>4. /\ operation # None => operation.execution = None /\ operation.status # "applied"
        /\ \A d \in Calls : Op(d) # None => Op(d).execution = None
    <3>1. operation # None => ValidOperation(operation) /\ operation.plan = None
      BY <1>8 DEF ApplyInv, JournalTrue
    <3>2. \A d \in Calls : Op(d) # None => ValidOperation(Op(d)) /\ Op(d).plan = None
      BY <1>8 DEF ApplyInv, CallTrue, CopyTrue, Op
    <3>3. QED BY <1>2, <3>1, <3>2, UnplannedIs
  <2>5. DurableIn(operation') = 0 /\ \A d \in Calls : DurableIn(Op(d)') = 0
    <3>1. DurableIn(operation) = 0 /\ \A d \in Calls : DurableIn(Op(d)) = 0
      BY <2>4 DEF DurableIn, Durable
    <3>2. DurableIn(None) = 0 BY DEF DurableIn
    <3>3. \A d \in Calls : Op(d)' \in {None, Op(d), operation'} BY <1>1
    <3>4. QED BY <3>1, <3>2, <3>3
  <2>6. Recorded(0)'
    <3>1. ~(operation' # None /\ operation'.status = "applied") BY <2>4
    <3>2. QED BY <2>5, <3>1 DEF Recorded
  <2>7. ASSUME NEW d \in Calls PROVE Standing(d, 0)' /\ ~At(d, "chmod")'
    <3>1. calls'[d].pc \notin Started BY <1>1, <2>3
    <3>2. /\ Publishing \cup Altering \cup {"verify", "progress", "final", "finish"}
               \subseteq Started
          /\ "chmod" \in Altering
      BY DEF Publishing, Altering, Started, ExclusiveSteps
    <3>3. DurableIn(Op(d))' <= 0 BY <2>5
    <3>4. QED BY <3>1, <3>2, <3>3 DEF Standing, At
  <2>8. tree' = review'.operator BY <2>4 DEF PlaceInv, Executing
  <2>9. 0 \in 0..Len(plan'.steps) BY <2>2
  <2>10. QED BY <2>2, <2>6, <2>7, <2>8, <2>9 DEF Reached
<1>9. QED BY <1>3, <1>4, <1>5, <1>6, <1>7, <1>8 DEF PlaceInv

\* An operation that is not yet written has no execution.
LEMMA UnwrittenIs ==
  ASSUME NEW op \in Operations, ValidOperation(op), op.status \in Unwritten
  PROVE  op.execution = None /\ ActiveOf(op) = None
BY DEF ValidOperation, ValidExecution, Unwritten, Running, ActiveOf

\* What holds of a call's temps does not depend on the other calls.
LEMMA FrontiersKeep ==
  ASSUME ApplyInv, NEW c \in Calls, OthersSame(c), NEW d \in Calls, d # c, Frontiers(d),
         calls[d].pc \in Started /\ calls[d].current /\ WriterTemps = {} => WriterTemps' = {}
  PROVE  Frontiers(d)'
<1>1. /\ calls'[d].pc = calls[d].pc /\ calls'[d].op = calls[d].op
      /\ calls'[d].completed = calls[d].completed /\ calls'[d].temp = calls[d].temp
      /\ calls'[d].intent = calls[d].intent /\ (calls'[d].current => calls[d].current)
  BY OthersAre
<1>2. {"fresh", "verify", "progress"} \subseteq Started BY DEF Started, ExclusiveSteps
<1>3. StepIndex(d)' = StepIndex(d) /\ Op(d)' = Op(d) BY <1>1 DEF StepIndex, Op
<1>4. Prior(d)' = Prior(d) BY <1>1, <1>3 DEF Prior
<1>5. QED BY <1>1, <1>2, <1>3, <1>4, Zenon DEF Frontiers

LEMMA IdleFrontiers ==
  ASSUME NEW c \in Calls, calls'[c].pc \notin Started
  PROVE  Frontiers(c)'
<1>1. {"step", "temp", "clean", "write", "rename", "create_temp", "identity", "fresh",
       "replace", "verify", "progress"} \subseteq Started
  BY DEF Started, ExclusiveSteps
<1>2. QED BY <1>1, Zenon DEF Frontiers

\* What a step outside the writer's section keeps: it commits only what is unwritten.
LEMMA LitterQuiet ==
  ASSUME ApplyInv, LitterInv, NEW c \in Calls, OthersSame(c), tree' = tree, temps' = temps,
         review' = review, plan' = plan \/ plan = None,
         calls[c].pc \notin Started, calls'[c].pc \notin Started,
         \/ operation' = operation
         \/ /\ operation # None => operation.status \in Unwritten
            /\ operation' \in Operations /\ ValidOperation(operation')
            /\ operation'.status \in Unwritten,
         Op(c)' \in {None, Op(c), operation'}, StatusFits(c)'
  PROVE  LitterInv'
<1>1. \A d \in Calls \ {c} : /\ calls'[d].pc = calls[d].pc /\ Op(d)' = Op(d)
                             /\ calls'[d].temp = calls[d].temp
  BY OthersAre DEF Op
<1>2. /\ operation # None => operation \in Operations /\ ValidOperation(operation)
      /\ \A d \in Calls : Op(d) # None => Op(d) \in Operations /\ ValidOperation(Op(d))
  BY DocsAre DEF ApplyInv, JournalTrue, CallTrue, CopyTrue, Op
<1>3. WriterTemps' = WriterTemps BY DEF WriterTemps
<1>4. ActivePublishes(operation)' /\ \A d \in Calls : ActivePublishes(Op(d))'
  <2>1. ASSUME NEW op, ActivePublishes(op), op # None => op.plan \in {None, plan},
               op # None => op \in Operations /\ ValidOperation(op)
        PROVE  op # None /\ ActiveOf(op) # None =>
                 /\ ActiveOf(op).step \in DOMAIN plan'.steps
                 /\ plan'.steps[ActiveOf(op).step].kind \in Publications
    <3>1. CASE plan' = plan BY <2>1, <3>1 DEF ActivePublishes
    <3>2. CASE plan = None BY <2>1, <3>2, UnplannedIs DEF ActiveOf
    <3>3. QED BY <3>1, <3>2
  <2>2. /\ operation # None => operation.plan \in {None, plan}
        /\ \A d \in Calls : Op(d) # None => Op(d).plan \in {None, plan}
    BY DEF ApplyInv, JournalTrue, CallTrue, CopyTrue, Op
  <2>3. ActivePublishes(operation) /\ \A d \in Calls : ActivePublishes(Op(d)) BY DEF LitterInv
  <2>4. operation' # operation => ActiveOf(operation') = None BY UnwrittenIs
  <2>5. operation' # None /\ ActiveOf(operation') # None =>
          /\ ActiveOf(operation').step \in DOMAIN plan'.steps
          /\ plan'.steps[ActiveOf(operation').step].kind \in Publications
    <3>1. CASE operation' = operation BY <1>2, <2>1, <2>2, <2>3, <3>1
    <3>2. QED BY <2>4, <3>1
  <2>6. \A d \in Calls : Op(d) # None /\ ActiveOf(Op(d)) # None =>
          /\ ActiveOf(Op(d)).step \in DOMAIN plan'.steps
          /\ plan'.steps[ActiveOf(Op(d)).step].kind \in Publications
    BY <1>2, <2>1, <2>2, <2>3
  <2>7. \A d \in Calls : Op(d)' \in {None, Op(d), operation'} BY <1>1
  <2>8. QED BY <2>5, <2>6, <2>7 DEF ActivePublishes
<1>5. ~Executing' \/ operation' # operation => WriterTemps = {}
  <2>1. operation' # operation => ~Executing BY <1>2, UnwrittenIs DEF Executing
  <2>2. operation' = operation /\ ~Executing' => ~Executing BY DEF Executing
  <2>3. QED BY <2>1, <2>2 DEF LitterInv
<1>6. ASSUME NEW d \in Calls PROVE StatusFits(d)' /\ Frontiers(d)'
  <2>1. CASE d = c BY <2>1, IdleFrontiers
  <2>2. CASE d # c
    <3>1. StatusFits(d) /\ Frontiers(d) BY DEF LitterInv
    <3>2. StatusFits(d)' BY <1>1, <2>2, <3>1 DEF StatusFits, Unwritten
    <3>3. Frontiers(d)' BY <1>3, <2>2, <3>1, FrontiersKeep
    <3>4. QED BY <3>2, <3>3
  <2>3. QED BY <2>1, <2>2
<1>7. ASSUME NEW t \in WriterTemps, operation # None, operation.status # "conflict",
             operation' = operation
      PROVE  \/ \E d \in Calls : At(d, "identity")' /\ calls'[d].temp = t
             \/ /\ NamesTemp(operation, t)
                /\ tree' = Applied(Durable(operation))'
  <2>1. "identity" \in Started BY DEF Started, ExclusiveSteps
  <2>2. CASE \E d \in Calls : At(d, "identity") /\ calls[d].temp = t BY <1>1, <2>1, <2>2 DEF At
  <2>3. CASE /\ NamesTemp(operation, t)
             /\ tree = Applied(Durable(operation))
    <3>1. plan # None
      <4>1. Executing BY <1>7 DEF LitterInv
      <4>2. QED BY <1>2, <1>7, <4>1, UnplannedIs DEF Executing, ApplyInv, JournalTrue
    <3>2. plan' = plan BY <3>1
    <3>3. Applied(Durable(operation))' = Applied(Durable(operation)) BY <1>7, <3>2 DEF Applied
    <3>4. QED BY <2>3, <3>3
  <2>4. QED BY <1>7, <2>2, <2>3 DEF LitterInv, TempsRecorded
<1>8. (~Executing => WriterTemps = {})' BY <1>3, <1>5
<1>9. TempsRecorded'
  <2>1. CASE operation' = operation BY <1>3, <1>7, <2>1 DEF TempsRecorded, Durable
  <2>2. CASE operation' # operation BY <1>3, <1>5, <2>2 DEF TempsRecorded
  <2>3. QED BY <2>1, <2>2
<1>10. QED BY <1>4, <1>6, <1>8, <1>9 DEF LitterInv

-----------------------------------------------------------------------------
(* A step of the preparation. *)

\* A call commits a document with the progress there was.
Reissued ==
  /\ operation' # None /\ DocBacked(operation)'
  /\ DurableIn(operation') = DurableIn(operation)
  /\ Executing => Executing'
  /\ operation'.status = "applied" => operation # None /\ operation.status = "applied"

LEMMA PrepareHolds ==
  ASSUME ApplyInv, ApplyInv', OpInv, NEW c \in Calls, OthersSame(c), UnchangedProject,
         lapses' = lapses, plan' = plan \/ plan = None, sealed \subseteq sealed',
         calls[c].pc \notin Started \cup {"done"}, calls'[c].pc \notin Started,
         calls'[c].completed = calls[c].completed \/ calls'[c].completed = 0,
         \/ operation' = operation
         \/ /\ Reissued
            /\ LitterInv => /\ operation # None => operation.status \in Unwritten
                            /\ operation'.status \in Unwritten,
         Op(c)' \in {None, Op(c), operation'}, Packing(c)', LitterInv => StatusFits(c)'
  PROVE  OpInv'
<1>1. UNCHANGED <<review, tree, temps, edits>> BY DEF UnchangedProject
<1>2. calls'[c].completed = calls[c].completed BY DEF OpInv, BaseInv, Positioned
<1>3. BaseInv'
  <2>1. operation' = operation \/ DocBacked(operation)' BY DEF Reissued
  <2>2. QED BY <1>1, <1>2, <2>1, PrepareBase DEF OpInv
<1>4. (edits = 0 => PlaceInv)'
  <2>1. /\ DurableIn(operation') = DurableIn(operation) /\ (Executing => Executing')
        /\ operation # None => operation' # None
        /\ operation' # None /\ operation'.status = "applied" =>
             operation # None /\ operation.status = "applied"
    BY DEF Reissued, Executing
  <2>2. QED BY <1>1, <2>1, PlaceQuiet DEF OpInv
<1>5. (edits = 0 /\ lapses = {} => LitterInv)'
  <2>1. operation' # None => operation' \in Operations /\ ValidOperation(operation')
    BY DEF ApplyInv, JournalTrue
  <2>2. operation' # operation => operation' # None BY DEF Reissued
  <2>3. QED BY <1>1, <2>1, <2>2, LitterQuiet DEF OpInv
<1>6. QED BY <1>3, <1>4, <1>5 DEF OpInv

LEMMA NextIs ==
  ASSUME ApplyInv, NEW c \in Calls, calls[c].pc \in Loaded, calls[c].current,
         NEW next \in Operations, operation' = next, next.execution = Op(c).execution,
         next.status = "applied" => Op(c).status = "applied",
         DocHolds(next, plan, sealed), plan' = plan, sealed' = sealed
  PROVE  Reissued
<1>1. operation = Op(c) /\ Op(c) # None /\ next # None BY LoadedIs, NoneAssumption
<1>2. DurableIn(next) = DurableIn(Op(c)) BY <1>1 DEF DurableIn, Durable
<1>3. QED BY <1>1, <1>2 DEF Reissued, DocBacked, Executing

\* A call that prepares and ends.
LEMMA PrepareLeft ==
  ASSUME ApplyInv, ApplyInv', OpInv, NEW c \in Calls, Left(c), UnchangedProject,
         lapses' = lapses, plan' = plan, sealed' = sealed, calls[c].pc \notin Started
  PROVE  OpInv'
<1>1. OthersSame(c) /\ calls'[c].pc = "idle" /\ Op(c)' = None /\ calls'[c].completed = 0
      /\ operation' = operation
  BY LeftIs DEF Left, Op
<1>2. UNCHANGED <<review, tree, temps, edits>> BY DEF UnchangedProject
<1>3. Packing(c)' /\ StatusFits(c)' /\ "idle" \notin Started
  BY <1>1, AsideIs DEF Aside, StatusFits, SharedSteps, Started, ExclusiveSteps
<1>4. BaseInv' BY <1>2, LeftBase DEF OpInv, BaseInv, Left
<1>5. (edits = 0 => PlaceInv)'
  <2>1. Executing' = Executing BY <1>1 DEF Executing
  <2>2. QED BY <1>1, <1>2, <1>3, <2>1, PlaceQuiet DEF OpInv
<1>6. (edits = 0 /\ lapses = {} => LitterInv)' BY <1>1, <1>2, <1>3, LitterQuiet DEF OpInv
<1>7. QED BY <1>4, <1>5, <1>6 DEF OpInv

\* A call that prepares and goes on with what it knows.
LEMMA PrepareMoved ==
  ASSUME ApplyInv, ApplyInv', OpInv, NEW c \in Calls, NEW pc, Moved(c, pc), UnchangedProject,
         lapses' = lapses, plan' = plan \/ plan = None, sealed \subseteq sealed',
         calls[c].pc \notin Started \cup {"done"}, pc \notin Started, Packing(c)',
         LitterInv => StatusFits(c)'
  PROVE  OpInv'
<1>1. OthersSame(c) /\ calls'[c].pc = pc /\ Op(c)' = Op(c) /\ operation' = operation
      /\ calls'[c].completed = calls[c].completed
  BY MovedIs DEF Op
<1>2. QED BY <1>1, PrepareHolds

\* A call at a step where its copy is what the journal was when it locked the project.
Unwriting == SharedSteps \ {"open"}

LEMMA MovedFits ==
  ASSUME ApplyInv, NEW c \in Calls, calls[c].pc \in Unwriting, StatusFits(c), NEW pc,
         pc \in Unwriting \cup {"load", "idle"}, calls'[c].pc = pc, operation' = operation,
         Op(c)' \in {None, Op(c), operation'}
  PROVE  StatusFits(c)'
BY DEF StatusFits, Unwriting, SharedSteps, Started, ExclusiveSteps

LEMMA UnwritingIs ==
  /\ Unwriting \subseteq SharedSteps /\ Unwriting \cap Started = {}
  /\ {"load", "idle", "lock_shared", "lock_exclusive", "open", "walk"} \cap Started = {}
  /\ "done" \notin Unwriting /\ "load" \notin Unwriting /\ "idle" \notin Unwriting
BY DEF Unwriting, SharedSteps, Started, ExclusiveSteps

\* A preparing call that ends with a failure.
LEMMA PrepareEnded ==
  ASSUME ApplyInv, ApplyInv', OpInv, NEW c \in Calls, calls[c].pc \in Loaded \cap Unwriting,
         NEW last \in Operations, Ended(c, last), last.execution = Op(c).execution,
         last.status \in Unwritten, DocHolds(last, plan, sealed), UnchangedProject,
         lapses' = lapses, plan' = plan, sealed' = sealed
  PROVE  OpInv'
<1>1. OthersSame(c) /\ calls'[c].pc = "idle" /\ Op(c)' = None /\ calls'[c].completed = 0
      /\ operation' = last /\ calls[c].current
  BY LeftIs DEF Ended, Op
<1>2. Packing(c)' /\ StatusFits(c)'
  BY <1>1, AsideIs DEF Aside, StatusFits, SharedSteps, Started, ExclusiveSteps
<1>3. last.status # "applied" BY DEF Unwritten
<1>4. Reissued BY <1>1, <1>3, NextIs
<1>5. LitterInv /\ operation # None => operation.status \in Unwritten
  BY DEF LitterInv, StatusFits, Unwriting
<1>6. QED BY <1>1, <1>2, <1>4, <1>5, UnwritingIs, PrepareHolds

\* A preparing call that commits and goes on.
LEMMA PrepareStored ==
  ASSUME ApplyInv, ApplyInv', OpInv, NEW c \in Calls, calls[c].pc \in Loaded \cap Unwriting,
         NEW next \in Operations, NEW pc \in Unwriting \cup {"load"}, Stored(c, next, pc),
         next.execution = Op(c).execution,
         next.status = "applied" => Op(c).status = "applied",
         Op(c).status \in Unwritten => next.status \in Unwritten,
         DocHolds(next, plan, sealed), UnchangedProject,
         lapses' = lapses, plan' = plan, sealed' = sealed, Packing(c)'
  PROVE  OpInv'
<1>1. OthersSame(c) /\ calls'[c].pc = pc /\ Op(c)' = operation' /\ operation' = next
      /\ calls'[c].completed = calls[c].completed /\ calls[c].current
  BY CopiedIs DEF Stored, Op
<1>2. Reissued BY <1>1, NextIs
<1>3. Op(c) # None /\ operation = Op(c) BY <1>1, LoadedIs, NoneAssumption
<1>4. LitterInv => operation.status \in Unwritten /\ next.status \in Unwritten
  BY <1>3 DEF LitterInv, StatusFits, Unwriting
<1>5. LitterInv => StatusFits(c)'
  BY <1>1, <1>4 DEF StatusFits, Unwriting, SharedSteps, Started, ExclusiveSteps
<1>6. QED BY <1>1, <1>2, <1>3, <1>4, <1>5, UnwritingIs, PrepareHolds

\* A preparing call that goes on with what another committed.
LEMMA PrepareTaken ==
  ASSUME ApplyInv, ApplyInv', OpInv, NEW c \in Calls, calls[c].pc \in Unwriting,
         NEW pc \in Unwriting \cup {"load"}, Taken(c, pc), UnchangedProject,
         lapses' = lapses, plan' = plan, sealed' = sealed, Packing(c)'
  PROVE  OpInv'
<1>1. OthersSame(c) /\ calls'[c].pc = pc /\ Op(c)' = operation' /\ operation' = operation
      /\ calls'[c].completed = calls[c].completed
  BY CopiedIs DEF Taken, Op
<1>2. LitterInv => StatusFits(c)' BY <1>1, MovedFits DEF LitterInv
<1>3. QED BY <1>1, <1>2, UnwritingIs, PrepareHolds

LEMMA LockSharedHolds ==
  ASSUME ApplyInv, ApplyInv', OpInv, NEW c \in Calls, LockShared(c)
  PROVE  OpInv'
<1>1. /\ calls[c].pc = "lock_shared" /\ UnchangedProject /\ lapses' = lapses
      /\ plan' = plan /\ sealed' = sealed /\ operation' = operation
      /\ Leave(c) \/ Goto(c, "open")
  BY DEF LockShared, UnchangedPackage, AcquireShared, At
<1>2. "open" \in Pcs /\ "open" \in Aside BY DEF Pcs, SharedSteps, Aside
<1>3. CASE Leave(c) BY <1>1, <1>3, UnwritingIs, LeaveMoves, PrepareLeft
<1>4. CASE Goto(c, "open")
  <2>1. Moved(c, "open") /\ calls'[c].pc = "open" BY <1>1, <1>2, <1>4, GotoMoves, MovedIs
  <2>2. Packing(c)' /\ StatusFits(c)'
    BY <1>2, <2>1, AsideIs DEF StatusFits, SharedSteps, Started, ExclusiveSteps
  <2>3. QED BY <1>1, <2>1, <2>2, UnwritingIs, PrepareMoved
<1>5. QED BY <1>1, <1>3, <1>4

LEMMA OpenOperationHolds ==
  ASSUME ApplyInv, ApplyInv', OpInv, NEW c \in Calls, OpenOperation(c)
  PROVE  OpInv'
<1>1. /\ calls[c].pc = "open" /\ UnchangedProject /\ lapses' = lapses
      /\ plan' = plan /\ sealed' = sealed /\ operation' = operation
      /\ \/ Leave(c)
         \/ Goto(c, "load")
         \/ /\ calls' = [calls EXCEPT ![c].op = operation, ![c].current = TRUE, ![c].pc = "observe"]
            /\ operation # None => operation.status \in {"preparing", "failed"}
  BY DEF OpenOperation, UnchangedPackage, At
<1>2. {"load", "observe"} \subseteq Pcs \cap Aside /\ "open" \in SharedSteps
  BY DEF Pcs, SharedSteps, Aside
<1>3. CASE Leave(c) BY <1>1, <1>3, UnwritingIs, LeaveMoves, PrepareLeft
<1>4. CASE Goto(c, "load")
  <2>1. Moved(c, "load") /\ calls'[c].pc = "load" BY <1>1, <1>2, <1>4, GotoMoves, MovedIs
  <2>2. Packing(c)' /\ StatusFits(c)'
    BY <1>2, <2>1, AsideIs DEF StatusFits, SharedSteps, Started, ExclusiveSteps
  <2>3. QED BY <1>1, <2>1, <2>2, UnwritingIs, PrepareMoved
<1>5. CASE /\ calls' = [calls EXCEPT ![c].op = operation, ![c].current = TRUE, ![c].pc = "observe"]
           /\ operation # None => operation.status \in {"preparing", "failed"}
  <2>1. calls' = [calls EXCEPT ![c] = Copied(c, operation, "observe")] BY <1>5, Zenon DEF Copied
  <2>2. calls \in [Calls -> Call] /\ Copied(c, operation, "observe") \in Call
    BY <1>2, DocsAre, Zenon DEF ApplyInv, Call, Copied
  <2>3. Becomes(c, Copied(c, operation, "observe")) BY <1>1, <2>1, <2>2, AloneBecomes, Zenon
  <2>4. OthersSame(c) /\ calls'[c].pc = "observe" /\ Op(c)' = operation'
        /\ calls'[c].completed = calls[c].completed
    BY <1>1, <2>3, CopiedIs DEF Op
  <2>5. Packing(c)' /\ StatusFits(c)'
    BY <1>1, <1>2, <1>5, <2>4, AsideIs, Zenon
       DEF StatusFits, SharedSteps, Started, ExclusiveSteps, Unwritten
  <2>6. "observe" \notin Started /\ "open" \notin Started BY DEF Started, ExclusiveSteps
  <2>7. QED BY <1>1, <2>4, <2>5, <2>6, PrepareHolds
<1>6. QED BY <1>1, <1>3, <1>4, <1>5

LEMMA ObserveHolds ==
  ASSUME ApplyInv, ApplyInv', OpInv, NEW c \in Calls, Observe(c)
  PROVE  OpInv'
<1>1. /\ calls[c].pc = "observe" /\ UnchangedProject /\ lapses' = lapses
      /\ plan' = plan /\ sealed' = sealed /\ operation' = operation
      /\ Leave(c) \/ Goto(c, "create")
  BY DEF Observe, UnchangedPackage, At
<1>2. /\ "create" \in Pcs \cap Aside /\ "create" \in Unwriting /\ calls[c].pc \in Unwriting
      /\ calls[c].pc \notin Started \cup {"done"} /\ "create" \notin Started
  BY <1>1 DEF Pcs, SharedSteps, Aside, Unwriting, Started, ExclusiveSteps
<1>3. CASE Leave(c) BY <1>1, <1>2, <1>3, LeaveMoves, PrepareLeft
<1>4. CASE Goto(c, "create")
  <2>1. Moved(c, "create") /\ calls'[c].pc = "create" /\ Op(c)' = Op(c)
    BY <1>1, <1>2, <1>4, GotoMoves, MovedIs DEF Op
  <2>2. Packing(c)' /\ (LitterInv => StatusFits(c)')
    BY <1>1, <1>2, <2>1, AsideIs, MovedFits DEF LitterInv
  <2>3. QED BY <1>1, <1>2, <2>1, <2>2, PrepareMoved
<1>5. QED BY <1>1, <1>3, <1>4

LEMMA CreateOperationHolds ==
  ASSUME ApplyInv, ApplyInv', OpInv, NEW c \in Calls, CreateOperation(c)
  PROVE  OpInv'
<1>1. /\ calls[c].pc = "create" /\ UnchangedProject /\ lapses' = lapses
      /\ plan' = plan /\ sealed' = sealed
  BY DEF CreateOperation, UnchangedPackage, At
<1>2. /\ "probe" \in Pcs \cap Aside /\ "probe" \in Unwriting /\ calls[c].pc \in Unwriting
      /\ calls[c].pc \notin Started \cup {"done"} /\ "probe" \notin Started
  BY <1>1 DEF Pcs, SharedSteps, Aside, Unwriting, Started, ExclusiveSteps
<1>3. CASE Goto(c, "probe") /\ operation' = operation
  <2>1. Moved(c, "probe") /\ calls'[c].pc = "probe" /\ Op(c)' = Op(c)
    BY <1>2, <1>3, GotoMoves, MovedIs DEF Op
  <2>2. Packing(c)' /\ (LitterInv => StatusFits(c)')
    BY <1>2, <1>3, <2>1, AsideIs, MovedFits DEF LitterInv
  <2>3. QED BY <1>1, <1>2, <2>1, <2>2, PrepareMoved
<1>4. CASE /\ operation' = operation
           /\ calls' = [calls EXCEPT ![c].op = operation, ![c].current = TRUE, ![c].pc = "probe"]
  <2>1. calls' = [calls EXCEPT ![c] = Copied(c, operation, "probe")] BY <1>4, Zenon DEF Copied
  <2>2. calls \in [Calls -> Call] /\ Copied(c, operation, "probe") \in Call
    BY <1>2, DocsAre, Zenon DEF ApplyInv, Call, Copied
  <2>3. Becomes(c, Copied(c, operation, "probe")) BY <1>4, <2>1, <2>2, AloneBecomes, Zenon
  <2>4. Taken(c, "probe") /\ calls'[c].pc = "probe"
    <3>1. calls'[c].pc = "probe" BY <2>3, CopiedIs
    <3>2. QED BY <1>4, <2>3, <3>1 DEF Taken
  <2>5. Packing(c)' BY <1>2, <2>4, AsideIs
  <2>6. QED BY <1>1, <1>2, <2>4, <2>5, PrepareTaken
<1>5. CASE operation = None /\ Store(c, Preparing, "probe")
  <2>1. Preparing \in Operations BY DEF Preparing, Operations, Statuses
  <2>2. Copied(c, Preparing, "probe") \in Call /\ calls \in [Calls -> Call]
    BY <1>2, <2>1, Zenon DEF ApplyInv, Call, Copied
  <2>3. /\ operation' = Preparing
        /\ calls' = [d \in Calls |-> IF d = c THEN Copied(c, Preparing, "probe")
                                     ELSE [calls[d] EXCEPT !.current = FALSE]]
    BY <1>5 DEF Store, Copied
  <2>4. Becomes(c, Copied(c, Preparing, "probe")) BY <2>2, <2>3, StoredBecomes
  <2>5. OthersSame(c) /\ calls'[c].pc = "probe" /\ Op(c)' = operation'
        /\ calls'[c].completed = calls[c].completed
    BY <2>3, <2>4, CopiedIs DEF Op
  <2>6. Reissued
    <3>1. Preparing # None /\ DocHolds(Preparing, plan', sealed')
      BY <2>1, NoneAssumption, Zenon DEF DocHolds, Preparing, Running
    <3>2. DurableIn(Preparing) = DurableIn(operation) /\ ~Executing
      BY <1>5 DEF DurableIn, Durable, Preparing, Executing
    <3>3. Preparing.status # "applied" BY DEF Preparing
    <3>4. QED BY <2>3, <3>1, <3>2, <3>3 DEF Reissued, DocBacked
  <2>7. operation'.status \in Unwritten BY <2>3 DEF Preparing, Unwritten
  <2>8. Packing(c)' /\ StatusFits(c)'
    BY <1>2, <2>5, <2>7, AsideIs DEF StatusFits, Started, ExclusiveSteps
  <2>9. QED BY <1>1, <1>2, <1>5, <2>5, <2>6, <2>7, <2>8, PrepareHolds
<1>6. QED BY <1>3, <1>4, <1>5 DEF CreateOperation

LEMMA RecordFailureHolds ==
  ASSUME ApplyInv, ApplyInv', OpInv, NEW c \in Calls, calls[c].pc \in Loaded \cap Unwriting,
         RecordFailure(c), UnchangedProject, lapses' = lapses, plan' = plan, sealed' = sealed
  PROVE  OpInv'
<1> DEFINE last == [Op(c) EXCEPT !.status = "failed", !.failed = TRUE]
<1>1. calls[c].pc \notin Started BY UnwritingIs
<1>2. CASE Leave(c) /\ operation' = operation BY <1>1, <1>2, LeaveMoves, PrepareLeft
<1>3. CASE Record(c, last)
  <2>1. Op(c) \in Operations /\ Op(c) # None /\ DocHolds(Op(c), plan, sealed)
    BY LoadedIs, NoneAssumption DEF OpInv, BaseInv, PackageInv, DocBacked
  <2>2. /\ last \in Operations /\ last.execution = Op(c).execution /\ last.status = "failed"
        /\ last.plan = Op(c).plan /\ last.sealed = Op(c).sealed
    BY <2>1, Zenon DEF Operations, Statuses
  <2>3. "failed" \in Unwritten /\ "failed" \notin Running \cup {"prepared"}
    BY DEF Unwritten, Running
  <2> HIDE DEF last
  <2>4. DocHolds(last, plan, sealed) BY <2>1, <2>2, <2>3 DEF DocHolds
  <2>5. Left(c) \/ Ended(c, last) BY <1>3, RecordMoves
  <2>6. QED BY <1>1, <2>2, <2>3, <2>4, <2>5, PrepareLeft, PrepareEnded
<1>4. QED BY <1>2, <1>3 DEF RecordFailure

LEMMA ProbeHolds ==
  ASSUME ApplyInv, ApplyInv', OpInv, NEW c \in Calls, Probe(c)
  PROVE  OpInv'
<1>1. /\ calls[c].pc = "probe" /\ UnchangedProject /\ lapses' = lapses
      /\ plan' = plan /\ sealed' = sealed
  BY DEF Probe, UnchangedPackage, At
<1>2. /\ "plan" \in Pcs \cap Aside /\ "plan" \in Unwriting /\ calls[c].pc \in Loaded \cap Unwriting
      /\ calls[c].pc \notin Started \cup {"done"} /\ "plan" \notin Started
  BY <1>1 DEF Pcs, SharedSteps, Aside, Unwriting, Started, ExclusiveSteps, Loaded
<1>3. CASE Goto(c, "plan") /\ operation' = operation
  <2>1. Moved(c, "plan") /\ calls'[c].pc = "plan" /\ Op(c)' = Op(c)
    BY <1>2, <1>3, GotoMoves, MovedIs DEF Op
  <2>2. Packing(c)' /\ (LitterInv => StatusFits(c)')
    BY <1>2, <1>3, <2>1, AsideIs, MovedFits DEF LitterInv
  <2>3. QED BY <1>1, <1>2, <2>1, <2>2, PrepareMoved
<1>4. CASE RecordFailure(c) BY <1>1, <1>2, <1>4, RecordFailureHolds
<1>5. QED BY <1>3, <1>4 DEF Probe

LEMMA BuildPlanHolds ==
  ASSUME ApplyInv, ApplyInv', OpInv, NEW c \in Calls, BuildPlan(c)
  PROVE  OpInv'
<1>1. /\ calls[c].pc = "plan" /\ UnchangedProject /\ lapses' = lapses
      /\ plan' = plan /\ sealed' = sealed
  BY DEF BuildPlan, UnchangedPackage, At
<1>2. /\ "publish_plan" \in Pcs \cap Aside /\ "publish_plan" \in Unwriting
      /\ calls[c].pc \in Loaded \cap Unwriting
      /\ calls[c].pc \notin Started \cup {"done"} /\ "publish_plan" \notin Started
  BY <1>1 DEF Pcs, SharedSteps, Aside, Unwriting, Started, ExclusiveSteps, Loaded
<1>3. CASE Goto(c, "publish_plan") /\ operation' = operation
  <2>1. Moved(c, "publish_plan") /\ calls'[c].pc = "publish_plan" /\ Op(c)' = Op(c)
    BY <1>2, <1>3, GotoMoves, MovedIs DEF Op
  <2>2. Packing(c)' /\ (LitterInv => StatusFits(c)')
    BY <1>2, <1>3, <2>1, AsideIs, MovedFits DEF LitterInv
  <2>3. QED BY <1>1, <1>2, <2>1, <2>2, PrepareMoved
<1>4. CASE RecordFailure(c) BY <1>1, <1>2, <1>4, RecordFailureHolds
<1>5. QED BY <1>3, <1>4 DEF BuildPlan

LEMMA PublishPlanHolds ==
  ASSUME ApplyInv, ApplyInv', OpInv, NEW c \in Calls, PublishPlan(c)
  PROVE  OpInv'
<1> DEFINE built == PlanOf(review)
<1>1. /\ calls[c].pc = "publish_plan" /\ UnchangedProject /\ lapses' = lapses
      /\ sealed' = sealed /\ operation' = operation
      /\ \/ Leave(c) /\ plan' = plan
         \/ Goto(c, "commit_plan") /\ plan' = built /\ plan \in {None, built}
  BY DEF PublishPlan, At
<1>2. /\ "commit_plan" \in Pcs /\ "commit_plan" \in Unwriting
      /\ calls[c].pc \in Loaded \cap Unwriting
      /\ calls[c].pc \notin Started \cup {"done"} /\ "commit_plan" \notin Started
  BY <1>1 DEF Pcs, SharedSteps, Unwriting, Started, ExclusiveSteps, Loaded
<1>3. CASE Leave(c) /\ plan' = plan BY <1>1, <1>2, <1>3, LeaveMoves, PrepareLeft
<1>4. CASE Goto(c, "commit_plan") /\ plan' = built /\ plan \in {None, built}
  <2>1. Moved(c, "commit_plan") /\ calls'[c].pc = "commit_plan" /\ Op(c)' = Op(c)
    BY <1>1, <1>2, <1>4, GotoMoves, MovedIs DEF Op
  <2>2. plan' # None
    <3>1. built \in Plans BY DEF ApplyInv, JournalTrue, Plans
    <3>2. QED BY <1>4, <3>1, NoneAssumption
  <2>3. Packing(c)' BY <2>1, <2>2 DEF Packing, ExclusiveSteps
  <2>4. LitterInv => StatusFits(c)' BY <1>1, <1>2, <2>1, MovedFits DEF LitterInv
  <2> HIDE DEF built
  <2>5. QED BY <1>1, <1>2, <1>4, <2>1, <2>3, <2>4, PrepareMoved
<1>5. QED BY <1>1, <1>3, <1>4

\* What a preparing call's package is.
LEMMA PackingIs ==
  ASSUME OpInv, NEW c \in Calls
  PROVE  Packing(c) /\ DocHolds(Op(c), plan, sealed) /\ DocHolds(operation, plan, sealed)
BY DEF OpInv, BaseInv, PackageInv, DocBacked

LEMMA ResumedIs ==
  ASSUME NEW op \in Operations
  PROVE  /\ Resumed(op) \in Statuses /\ Resumed(op) \in {op.status, "preparing"}
         /\ op.status \in Unwritten => Resumed(op) \in Unwritten
BY DEF Resumed, Operations, Statuses, Unwritten

LEMMA CommitPlanHolds ==
  ASSUME ApplyInv, ApplyInv', OpInv, NEW c \in Calls, CommitPlan(c)
  PROVE  OpInv'
<1> DEFINE next == [Op(c) EXCEPT !.plan = plan, !.status = Resumed(Op(c))]
<1>1. /\ calls[c].pc = "commit_plan" /\ UnchangedProject /\ lapses' = lapses
      /\ plan' = plan /\ sealed' = sealed
  BY DEF CommitPlan, UnchangedPackage, At
<1>2. /\ "seal" \in Pcs /\ "seal" \in Unwriting /\ calls[c].pc \in Loaded \cap Unwriting
      /\ calls[c].pc \notin Started \cup {"done"} /\ "seal" \notin Started
  BY <1>1 DEF Pcs, SharedSteps, Unwriting, Started, ExclusiveSteps, Loaded
<1>3. plan # None /\ DocHolds(Op(c), plan, sealed) BY <1>1, PackingIs DEF Packing
<1>4. ASSUME calls'[c].pc = "seal", Op(c)'.plan # None PROVE Packing(c)'
  BY <1>1, <1>3, <1>4 DEF Packing, ExclusiveSteps
<1>5. CASE Op(c).plan # None /\ Goto(c, "seal") /\ operation' = operation
  <2>1. Moved(c, "seal") /\ calls'[c].pc = "seal" /\ Op(c)' = Op(c)
    BY <1>2, <1>5, GotoMoves, MovedIs DEF Op
  <2>2. Packing(c)' /\ (LitterInv => StatusFits(c)')
    BY <1>2, <1>4, <1>5, <2>1, MovedFits DEF LitterInv
  <2>3. QED BY <1>1, <1>2, <2>1, <2>2, PrepareMoved
<1>6. CASE Op(c).plan = None /\ Commit(c, next, operation.plan = plan, "seal")
  <2>1. Op(c) \in Operations /\ Op(c) # None /\ Op(c).sealed = 0
    BY <1>2, <1>3, <1>6, LoadedIs, NoneAssumption DEF DocHolds
  <2>2. plan \in Plans BY <1>3 DEF ApplyInv, JournalTrue, Plans
  <2>3. /\ next \in Operations /\ next.execution = Op(c).execution /\ next.plan = plan
        /\ next.sealed = 0 /\ next.status = Resumed(Op(c))
    BY <2>1, <2>2, ResumedIs, Zenon DEF Operations
  <2>4. Op(c).status \notin Running \cup {"prepared"} BY <1>3, <1>6, <2>1 DEF DocHolds
  <2>5. next.status \notin Running \cup {"prepared"} BY <2>1, <2>3, <2>4, ResumedIs DEF Running
  <2>6. DocHolds(next, plan, sealed) BY <1>3, <2>3, <2>5 DEF DocHolds
  <2>7. next.status # "applied" /\ (Op(c).status \in Unwritten => next.status \in Unwritten)
    BY <2>1, <2>3, <2>5, ResumedIs DEF Running
  <2>8. (operation.plan = plan) \in BOOLEAN OBVIOUS
  <2> HIDE DEF next
  <2>9. \/ Left(c)
        \/ Stored(c, next, "seal")
        \/ Taken(c, "seal") /\ operation # None /\ operation.plan = plan
    BY <1>2, <1>6, <2>3, <2>8, CommitMoves, Zenon
  <2>10. CASE Left(c) BY <1>1, <1>2, <2>10, PrepareLeft
  <2>11. CASE Stored(c, next, "seal")
    <3>1. Packing(c)' BY <1>3, <1>4, <2>3, <2>11, CopiedIs DEF Stored, Op
    <3>2. QED BY <1>1, <1>2, <2>3, <2>6, <2>7, <2>11, <3>1, PrepareStored
  <2>12. CASE Taken(c, "seal") /\ operation # None /\ operation.plan = plan
    <3>1. Packing(c)' BY <1>3, <1>4, <2>12, CopiedIs DEF Taken, Op
    <3>2. QED BY <1>1, <1>2, <2>12, <3>1, PrepareTaken
  <2>13. QED BY <2>9, <2>10, <2>11, <2>12
<1>7. QED BY <1>5, <1>6 DEF CommitPlan

LEMMA SealHolds ==
  ASSUME ApplyInv, ApplyInv', OpInv, NEW c \in Calls, Seal(c)
  PROVE  OpInv'
<1>1. /\ calls[c].pc = "seal" /\ UnchangedProject /\ lapses' = lapses
      /\ plan' = plan /\ operation' = operation
      /\ \/ Goto(c, "complete") /\ sealed' = sealed
         \/ Goto(c, "commit_payload") /\ sealed' = sealed \cup {NextPayload(c)}
  BY DEF Seal, At
<1>2. /\ {"complete", "commit_payload"} \subseteq Pcs \cap Unwriting
      /\ calls[c].pc \in Loaded \cap Unwriting
      /\ calls[c].pc \notin Started \cup {"done"} /\ {"complete", "commit_payload"} \cap Started = {}
  BY <1>1 DEF Pcs, SharedSteps, Unwriting, Started, ExclusiveSteps, Loaded
<1>3. plan # None /\ Op(c).plan # None BY <1>1, PackingIs DEF Packing
<1>4. ASSUME NEW pc \in {"complete", "commit_payload"}, Goto(c, pc), sealed \subseteq sealed',
             pc = "commit_payload" => NextPayload(c) \in sealed'
      PROVE  OpInv'
  <2>1. Moved(c, pc) /\ calls'[c].pc = pc /\ Op(c)' = Op(c)
    BY <1>1, <1>2, <1>4, GotoMoves, MovedIs DEF Op
  <2>2. NextPayload(c)' = NextPayload(c) BY <1>1, <2>1 DEF NextPayload
  <2>3. Packing(c)' BY <1>1, <1>3, <1>4, <2>1, <2>2 DEF Packing, ExclusiveSteps
  <2>4. LitterInv => StatusFits(c)' BY <1>1, <1>2, <2>1, MovedFits DEF LitterInv
  <2>5. QED BY <1>1, <1>2, <1>4, <2>1, <2>3, <2>4, PrepareMoved
<1>5. QED BY <1>1, <1>4

LEMMA CommitPayloadHolds ==
  ASSUME ApplyInv, ApplyInv', OpInv, NEW c \in Calls, CommitPayload(c)
  PROVE  OpInv'
<1> DEFINE k == Op(c).sealed + 1
           next == [Op(c) EXCEPT !.sealed = k, !.status = Resumed(Op(c)), !.failed = FALSE]
<1>1. /\ calls[c].pc = "commit_payload" /\ UnchangedProject /\ lapses' = lapses
      /\ plan' = plan /\ sealed' = sealed
      /\ Commit(c, next, operation.sealed >= k, "seal")
  BY DEF CommitPayload, UnchangedPackage, At
<1>2. /\ "seal" \in Pcs /\ "seal" \in Unwriting /\ calls[c].pc \in Loaded \cap Unwriting
      /\ calls[c].pc \notin Started \cup {"done"} /\ "seal" \notin Started
  BY <1>1 DEF Pcs, SharedSteps, Unwriting, Started, ExclusiveSteps, Loaded
<1>3. /\ plan # None /\ Op(c).plan # None /\ Payloads(plan)[k] \in sealed
      /\ DocHolds(Op(c), plan, sealed) /\ DocHolds(operation, plan, sealed)
  BY <1>1, PackingIs DEF Packing, NextPayload
<1>4. ASSUME calls'[c].pc = "seal", Op(c)'.plan # None PROVE Packing(c)'
  BY <1>1, <1>3, <1>4 DEF Packing, ExclusiveSteps
<1>5. Op(c) \in Operations /\ Op(c) # None BY <1>2, LoadedIs, NoneAssumption
<1>6. /\ next \in Operations /\ next.execution = Op(c).execution /\ next.plan = Op(c).plan
      /\ next.sealed = k /\ next.status = Resumed(Op(c)) /\ k \in Nat /\ Op(c).sealed \in Nat
  <2>1. k \in Nat /\ Op(c).sealed \in Nat /\ Resumed(Op(c)) \in Statuses
    BY <1>5, ResumedIs DEF Operations
  <2> DEFINE s == Resumed(Op(c))
  <2> HIDE DEF k, s
  <2>2. /\ next \in Operations /\ next.execution = Op(c).execution /\ next.plan = Op(c).plan
        /\ next.sealed = k /\ next.status = s
    <3>1. s \in Statuses /\ next = [Op(c) EXCEPT !.sealed = k, !.status = s, !.failed = FALSE]
      BY <2>1 DEF s
    <3> HIDE DEF next
    <3>2. QED BY <1>5, <2>1, <3>1, Zenon DEF Operations
  <2>3. QED BY <2>1, <2>2 DEF s
<1>7. DocHolds(next, plan, sealed)
  <2>1. next.status \in Running \cup {"prepared"} => Op(c).status \in Running \cup {"prepared"}
    BY <1>5, <1>6, ResumedIs DEF Running
  <2>2. \A j \in 1..k : j \in 1..Op(c).sealed \/ j = k BY <1>6
  <2> HIDE DEF next, k
  <2>3. QED BY <1>3, <1>5, <1>6, <2>1, <2>2 DEF DocHolds
<1>8. /\ next.status = "applied" => Op(c).status = "applied"
      /\ Op(c).status \in Unwritten => next.status \in Unwritten
  BY <1>5, <1>6, ResumedIs
<1>9. (operation.sealed >= k) \in BOOLEAN OBVIOUS
<1> HIDE DEF next
<1>10. \/ Left(c)
       \/ Stored(c, next, "seal")
       \/ Taken(c, "seal") /\ operation # None /\ operation.sealed >= k
  BY <1>1, <1>2, <1>6, <1>9, CommitMoves, Zenon
<1>11. CASE Left(c) BY <1>1, <1>2, <1>11, PrepareLeft
<1>12. CASE Stored(c, next, "seal")
  <2>1. Packing(c)' BY <1>3, <1>4, <1>6, <1>12, CopiedIs DEF Stored, Op
  <2>2. QED BY <1>1, <1>2, <1>6, <1>7, <1>8, <1>12, <2>1, PrepareStored
<1>13. CASE Taken(c, "seal") /\ operation # None /\ operation.sealed >= k
  <2>1. operation.plan # None BY <1>3, <1>6, <1>13 DEF DocHolds
  <2>2. Packing(c)' BY <1>4, <1>13, <2>1, CopiedIs DEF Taken, Op
  <2>3. QED BY <1>1, <1>2, <1>13, <2>2, PrepareTaken
<1>14. QED BY <1>10, <1>11, <1>12, <1>13

LEMMA CommitPreparedHolds ==
  ASSUME ApplyInv, ApplyInv', OpInv, NEW c \in Calls, CommitPrepared(c)
  PROVE  OpInv'
<1> DEFINE next == [Op(c) EXCEPT !.status = "prepared", !.failed = FALSE]
           adopts == operation.status = "prepared" /\ operation.plan = plan
<1>1. /\ calls[c].pc = "complete" /\ UnchangedProject /\ lapses' = lapses
      /\ plan' = plan /\ sealed' = sealed
  BY DEF CommitPrepared, UnchangedPackage, At
<1>2. /\ "load" \in Pcs /\ "load" \in Aside /\ calls[c].pc \in Loaded \cap Unwriting
      /\ calls[c].pc \notin Started
  BY <1>1 DEF Pcs, SharedSteps, Aside, Unwriting, Started, ExclusiveSteps, Loaded
<1>3. CASE Leave(c) /\ operation' = operation BY <1>1, <1>2, <1>3, LeaveMoves, PrepareLeft
<1>4. CASE PackageWhole(Op(c)) /\ Commit(c, next, adopts, "load")
  <2>1. Op(c) \in Operations /\ Op(c) # None /\ DocHolds(Op(c), plan, sealed)
    BY <1>2, LoadedIs, PackingIs, NoneAssumption
  <2>2. /\ next \in Operations /\ next.execution = Op(c).execution /\ next.plan = Op(c).plan
        /\ next.sealed = Op(c).sealed /\ next.status = "prepared"
    BY <2>1, Zenon DEF Operations, Statuses
  <2>3. DocHolds(next, plan, sealed) BY <1>4, <2>1, <2>2 DEF DocHolds, PackageWhole
  <2>4. adopts \in BOOLEAN /\ "prepared" \in Unwritten /\ next.status # "applied"
    BY <2>2 DEF Unwritten
  <2> HIDE DEF next, adopts
  <2>5. Left(c) \/ Stored(c, next, "load") \/ Taken(c, "load")
    BY <1>2, <1>4, <2>2, <2>4, CommitMoves
  <2>6. CASE Left(c) BY <1>1, <1>2, <2>6, PrepareLeft
  <2>7. CASE Stored(c, next, "load")
    <3>1. Packing(c)' BY <1>2, <2>7, CopiedIs, AsideIs DEF Stored
    <3>2. QED BY <1>1, <1>2, <2>2, <2>3, <2>4, <2>7, <3>1, PrepareStored
  <2>8. CASE Taken(c, "load")
    <3>1. Packing(c)' BY <1>2, <2>8, CopiedIs, AsideIs DEF Taken
    <3>2. QED BY <1>1, <1>2, <2>8, <3>1, PrepareTaken
  <2>9. QED BY <2>5, <2>6, <2>7, <2>8
<1>5. QED BY <1>3, <1>4 DEF CommitPrepared

LEMMA LoadForExecutionHolds ==
  ASSUME ApplyInv, ApplyInv', OpInv, NEW c \in Calls, LoadForExecution(c)
  PROVE  OpInv'
<1>1. /\ calls[c].pc = "load" /\ UnchangedProject /\ lapses' = lapses
      /\ plan' = plan /\ sealed' = sealed /\ operation' = operation
      /\ \/ Leave(c)
         \/ /\ calls' = [calls EXCEPT ![c].op = operation, ![c].current = TRUE,
                                      ![c].pc = "lock_exclusive"]
            /\ operation # None /\ operation.status \notin ExecutionTerminal
            /\ operation.status # "preparing" /\ PackageWhole(operation)
  BY DEF LoadForExecution, UnchangedPackage, At
<1>2. /\ calls[c].pc \notin Started \cup {"done"} /\ "lock_exclusive" \notin Started
      /\ "lock_exclusive" \in Pcs \ (SharedSteps \cup ExclusiveSteps)
  BY <1>1 DEF Pcs, SharedSteps, Started, ExclusiveSteps
<1>3. CASE Leave(c) BY <1>1, <1>2, <1>3, LeaveMoves, PrepareLeft
<1>4. CASE /\ calls' = [calls EXCEPT ![c].op = operation, ![c].current = TRUE,
                                     ![c].pc = "lock_exclusive"]
           /\ operation # None /\ operation.status \notin ExecutionTerminal
           /\ operation.status # "preparing" /\ PackageWhole(operation)
  <2>1. calls' = [calls EXCEPT ![c] = Copied(c, operation, "lock_exclusive")]
    BY <1>4, Zenon DEF Copied
  <2>2. calls \in [Calls -> Call] /\ Copied(c, operation, "lock_exclusive") \in Call
    BY <1>2, DocsAre, Zenon DEF ApplyInv, Call, Copied
  <2>3. Becomes(c, Copied(c, operation, "lock_exclusive")) BY <1>1, <2>1, <2>2, AloneBecomes, Zenon
  <2>4. OthersSame(c) /\ calls'[c].pc = "lock_exclusive" /\ Op(c)' = operation'
        /\ calls'[c].completed = calls[c].completed
    BY <1>1, <2>3, CopiedIs DEF Op
  <2>5. PackageWhole(Op(c))' BY <1>1, <1>4, <2>4 DEF PackageWhole
  <2>6. Packing(c)' BY <2>4, <2>5 DEF Packing
  <2>7. operation.status \in {"prepared", "applying", "recovery_required"}
    BY <1>4, DocsAre DEF Operations, Statuses, ExecutionTerminal
  <2>8. StatusFits(c)' BY <1>1, <1>2, <2>4, <2>7 DEF StatusFits
  <2>9. QED BY <1>1, <1>2, <2>4, <2>6, <2>8, PrepareHolds
<1>5. QED BY <1>1, <1>3, <1>4

LEMMA LockExclusiveHolds ==
  ASSUME ApplyInv, ApplyInv', OpInv, NEW c \in Calls, LockExclusive(c)
  PROVE  OpInv'
<1>1. /\ calls[c].pc = "lock_exclusive" /\ UnchangedProject /\ lapses' = lapses
      /\ plan' = plan /\ sealed' = sealed /\ operation' = operation
      /\ Leave(c) \/ Goto(c, "walk")
  BY DEF LockExclusive, UnchangedPackage, AcquireExclusive, At
<1>2. /\ calls[c].pc \notin Started \cup {"done"} /\ "walk" \notin Started
      /\ "walk" \in Pcs /\ "walk" \notin SharedSteps
  BY <1>1 DEF Pcs, SharedSteps, Started, ExclusiveSteps
<1>3. CASE Leave(c) BY <1>1, <1>2, <1>3, LeaveMoves, PrepareLeft
<1>4. CASE Goto(c, "walk")
  <2>1. Moved(c, "walk") /\ calls'[c].pc = "walk" /\ Op(c)' = Op(c)
    BY <1>1, <1>2, <1>4, GotoMoves, MovedIs DEF Op
  <2>2. PackageWhole(Op(c)) BY <1>1, PackingIs DEF Packing
  <2>3. Packing(c)' BY <1>1, <2>1, <2>2 DEF Packing, PackageWhole
  <2>4. LitterInv => StatusFits(c)' BY <1>1, <1>2, <2>1 DEF LitterInv, StatusFits
  <2>5. QED BY <1>1, <1>2, <2>1, <2>3, <2>4, PrepareMoved
<1>5. QED BY <1>1, <1>3, <1>4

LEMMA BeginHolds ==
  ASSUME ApplyInv, ApplyInv', OpInv, NEW c \in Calls, Begin(c)
  PROVE  OpInv'
<1>1. /\ calls[c].pc = "idle" /\ UNCHANGED <<review, tree, temps, edits>> /\ lapses' = lapses
      /\ plan' = plan /\ sealed' = sealed /\ operation' = operation
      /\ Goto(c, "lock_shared")
  BY DEF Begin, UnchangedPackage, At
<1>2. /\ calls[c].pc \notin Started \cup {"done"} /\ "lock_shared" \notin Started
      /\ "lock_shared" \in Pcs \cap Aside /\ "lock_shared" \notin SharedSteps
  BY <1>1 DEF Pcs, SharedSteps, Started, ExclusiveSteps, Aside
<1>3. OthersSame(c) /\ calls'[c].pc = "lock_shared" /\ Op(c)' = Op(c)
      /\ calls'[c].completed = calls[c].completed
  BY <1>1, <1>2, GotoMoves, MovedIs DEF Op
<1>4. Packing(c)' BY <1>2, <1>3, AsideIs
<1>5. StatusFits(c)' BY <1>2, <1>3 DEF StatusFits
<1>6. Executing' = Executing BY <1>1 DEF Executing
<1>7. BaseInv' BY <1>1, <1>2, <1>3, <1>4, PrepareBase DEF OpInv
<1>8. (edits = 0 => PlaceInv)' BY <1>1, <1>2, <1>3, <1>6, PlaceQuiet DEF OpInv
<1>9. (edits = 0 /\ lapses = {} => LitterInv)' BY <1>1, <1>2, <1>3, <1>5, LitterQuiet DEF OpInv
<1>10. QED BY <1>7, <1>8, <1>9 DEF OpInv

LEMMA DoneHolds ==
  ASSUME ApplyInv, ApplyInv', OpInv, NEW c \in Calls, Done(c)
  PROVE  OpInv'
<1>1. /\ calls[c].pc = "done" /\ UnchangedProject /\ lapses' = lapses
      /\ plan' = plan /\ sealed' = sealed /\ operation' = operation
      /\ Leave(c)
  BY DEF Done, UnchangedPackage, At
<1>2. calls[c].pc \notin Started BY <1>1 DEF Started, ExclusiveSteps
<1>3. QED BY <1>1, <1>2, LeaveMoves, PrepareLeft

LEMMA PrepareStepHolds ==
  ASSUME ApplyInv, ApplyInv', OpInv, NEW c \in Calls, PrepareStep(c)
  PROVE  OpInv'
BY LockSharedHolds, OpenOperationHolds, ObserveHolds, CreateOperationHolds, ProbeHolds,
   BuildPlanHolds, PublishPlanHolds, CommitPlanHolds, SealHolds, CommitPayloadHolds,
   CommitPreparedHolds DEF PrepareStep

-----------------------------------------------------------------------------
(* A writer's step. *)

LEMMA WriterPcs ==
  /\ Publishing \cup Altering \cup {"step", "verify", "progress", "final", "finish"} = Started
  /\ Started \subseteq ExclusiveSteps /\ "walk" \in ExclusiveSteps /\ "walk" \notin Started
  /\ {"idle", "done"} \cap (ExclusiveSteps \cup SharedSteps) = {}
  /\ ExclusiveSteps \cap SharedSteps = {}
BY DEF Publishing, Altering, Started, ExclusiveSteps, SharedSteps

LEMMA OthersWait ==
  ASSUME ApplyInv, NEW c \in Calls, calls[c].pc \in ExclusiveSteps, NEW d \in Calls, d # c
  PROVE  calls[d].pc \notin Started \cup SharedSteps \cup ExclusiveSteps
BY WriterPcs DEF ApplyInv, LockExcludes

\* The documents a writer commits differ from its copy in status and execution only.
LEMMA WriterDoc ==
  ASSUME ApplyInv, BaseInv, NEW c \in Calls, calls[c].pc \in ExclusiveSteps, NEW last,
         last.plan = plan, last.sealed = Op(c).sealed
  PROVE  DocHolds(last, plan, sealed) /\ PackageWhole(last)
<1>1. PackageWhole(Op(c)) /\ DocHolds(Op(c), plan, sealed)
  BY DEF BaseInv, PackageInv, Packing, DocBacked
<1>2. Op(c) # None /\ Op(c).plan = plan /\ plan # None BY CopyIs, WriterPlan, NoneAssumption
<1>3. QED BY <1>1, <1>2 DEF DocHolds, PackageWhole

LEMMA WithSealed ==
  ASSUME ApplyInv, NEW c \in Calls, calls[c].pc \in ExclusiveSteps, NEW state, NEW e
  PROVE  With(c, state, e).sealed = Op(c).sealed
BY CopyIs DEF With, Operations

LEMMA WriterBase ==
  ASSUME ApplyInv, BaseInv, NEW c \in Calls, calls[c].pc \in ExclusiveSteps, OthersSame(c),
         edits' = edits, IsTree(tree)', UnchangedPackage,
         operation' = operation \/ DocBacked(operation)',
         Op(c)' \in {None, Op(c), operation'},
         calls'[c].pc \in Started \cup {"idle", "done"},
         calls'[c].pc \in Started => PackageWhole(Op(c)'),
         calls'[c].pc = "idle" => calls'[c].completed = 0,
         calls'[c].pc \in Publishing => StepOf(c)'.kind \in Publications
  PROVE  BaseInv'
<1>1. plan' = plan /\ sealed' = sealed BY DEF UnchangedPackage
<1>2. Packing(c)'
  <2>1. PackageWhole(Op(c)') => PackageWhole(Op(c))' BY <1>1 DEF PackageWhole
  <2>2. {"commit_plan", "seal", "commit_payload", "complete"} \subseteq SharedSteps
        /\ "lock_exclusive" \notin Started
    BY DEF SharedSteps, Started, ExclusiveSteps
  <2>3. CASE calls'[c].pc \in Started BY <2>1, <2>2, <2>3, WriterPcs DEF Packing
  <2>4. CASE calls'[c].pc \in {"idle", "done"} BY <2>4, AsideIs DEF Aside
  <2>5. QED BY <2>3, <2>4
<1>3. Positioned(c)'
  <2>1. "idle" \notin Publishing BY DEF Publishing
  <2>2. QED BY <2>1 DEF Positioned
<1>4. QED BY <1>1, <1>2, <1>3, BaseKeeps

\* The step leaves the project after m steps of the plan, as many as before or one more.
LEMMA PlaceFrom ==
  ASSUME ApplyInv, ApplyInv', PlaceInv, NEW c \in Calls, calls[c].pc \in ExclusiveSteps,
         OthersSame(c), plan' = plan, review' = review, lapses \subseteq lapses', Onward,
         Executing', NEW n \in 0..Len(plan.steps), Reached(n),
         NEW m \in 0..Len(plan.steps), n <= m, Standing(c, m)', Recorded(m)',
         tree' = IF calls'[c].pc = "chmod" THEN Bare(m) ELSE Applied(m),
         Op(c)' \in {None, Op(c), operation'}
  PROVE  PlaceInv'
<1>1. \A d \in Calls \ {c} : /\ calls'[d].pc = calls[d].pc /\ Op(d)' = Op(d)
                             /\ calls'[d].pc \notin Started
  BY OthersAre, OthersWait DEF Op
<1>2. /\ operation \in Operations \cup {None} /\ operation' \in Operations
      /\ \A d \in Calls : Op(d) \in Operations \cup {None}
  BY DocsAre DEF ApplyInv, JournalTrue, Executing
<1>3. operation' # None BY <1>2, NoneAssumption
<1>4. ("late_call" \notin lapses =>
        \A d \in Calls : Op(d) # None => operation # None /\ Durable(Op(d)) <= Durable(operation))'
  <2> SUFFICES ASSUME "late_call" \notin lapses', NEW d \in Calls, Op(d)' # None
               PROVE  Durable(Op(d)') <= Durable(operation')
    BY <1>3
  <2>1. Durable(operation') \in Nat BY <1>2, <1>3, DurableIs
  <2>2. CASE Op(d)' = operation' BY <2>1, <2>2
  <2>3. CASE Op(d)' = Op(d)
    <3>1. operation # None /\ Durable(Op(d)) <= Durable(operation) BY <2>3 DEF PlaceInv
    <3>2. Durable(operation) <= Durable(operation') BY <2>1, <3>1 DEF Onward
    <3>3. Durable(Op(d)) \in Nat /\ Durable(operation) \in Nat BY <1>2, <2>3, <3>1, DurableIs
    <3>4. QED BY <2>1, <2>3, <3>1, <3>2, <3>3
  <2>4. QED BY <1>1, <2>2, <2>3
<1>5. ASSUME NEW d \in Calls PROVE Standing(d, m)'
  <2>1. CASE d = c BY <2>1
  <2>2. CASE d # c
    <3>1. DurableIn(Op(d)) <= n /\ DurableIn(Op(d)) \in Nat /\ n \in Nat /\ m \in Nat
      BY <1>2, DurableIs DEF Reached, Standing
    <3>2. DurableIn(Op(d)') <= m BY <1>1, <2>2, <3>1
    <3>3. QED BY <1>1, <2>2, <3>2, WriterPcs DEF Standing
  <2>3. QED BY <2>1, <2>2
<1>6. Reached(m)' BY <1>5 DEF Reached
<1>7. (\E d \in Calls : At(d, "chmod"))' <=> calls'[c].pc = "chmod"
  <2>1. "chmod" \in Started BY DEF Started, ExclusiveSteps
  <2>2. QED BY <1>1, <2>1 DEF At
<1>8. Applied(m)' = Applied(m) /\ Bare(m)' = Bare(m) BY AppliedSame
<1>9. QED BY <1>4, <1>6, <1>7, <1>8 DEF PlaceInv

\* The temps are as the journal has them.
LEMMA LitterFrom ==
  ASSUME ApplyInv, LitterInv, NEW c \in Calls, calls[c].pc \in ExclusiveSteps, OthersSame(c),
         plan' = plan, Executing', Op(c)' \in {None, Op(c), operation'},
         operation' = operation \/ ActivePublishes(operation'), StatusFits(c)', Frontiers(c)',
         TempsRecorded'
  PROVE  LitterInv'
<1>1. \A d \in Calls \ {c} : /\ calls'[d].pc = calls[d].pc /\ Op(d)' = Op(d)
                             /\ calls[d].pc \notin Started \cup SharedSteps
  BY OthersAre, OthersWait DEF Op
<1>2. ActivePublishes(operation)' /\ \A d \in Calls : ActivePublishes(Op(d))'
  <2>1. ActivePublishes(operation') /\ \A d \in Calls : ActivePublishes(Op(d)) BY DEF LitterInv
  <2>2. ActivePublishes(None) BY DEF ActivePublishes
  <2>3. \A d \in Calls : ActivePublishes(Op(d)') BY <1>1, <2>1, <2>2
  <2>4. QED BY <2>1, <2>3 DEF ActivePublishes
<1>3. ASSUME NEW d \in Calls PROVE StatusFits(d)' /\ Frontiers(d)'
  <2>1. CASE d = c BY <2>1
  <2>2. CASE d # c
    <3>1. StatusFits(d) BY DEF LitterInv
    <3>2. calls[d].pc # "walk" BY <2>2, OthersWait, WriterPcs
    <3>3. StatusFits(d)' /\ Frontiers(d)' BY <1>1, <2>2, <3>1, <3>2, IdleFrontiers DEF StatusFits
    <3>4. QED BY <3>3
  <2>3. QED BY <2>1, <2>2
<1>4. QED BY <1>2, <1>3 DEF LitterInv

\* Inside the section a temp of the writer's is the one the journal names, but for the
\* one whose identity is not recorded yet.
LEMMA TempIsActive ==
  ASSUME ApplyInv, LitterInv, NEW c \in Calls, calls[c].pc \in ExclusiveSteps,
         operation # None, operation.status # "conflict", NEW t \in WriterTemps,
         ~(At(c, "identity") /\ calls[c].temp = t)
  PROVE  /\ NamesTemp(operation, t)
         /\ tree = Applied(Durable(operation))
<1>1. "identity" \in Started BY DEF Started, ExclusiveSteps
<1>2. \A d \in Calls : At(d, "identity") => d = c BY <1>1, OthersWait DEF At
<1>3. QED BY <1>2 DEF LitterInv, TempsRecorded

\* Where the project is while a call writes: after n steps, or at a directory just made.
LEMMA WriterStands ==
  ASSUME ApplyInv, PlaceInv, NEW c \in Calls, calls[c].pc \in Started
  PROVE  /\ Executing
         /\ \E n \in 0..Len(plan.steps) :
              Reached(n) /\ tree = IF calls[c].pc = "chmod" THEN Bare(n) ELSE Applied(n)
<1>1. plan # None /\ calls[c].pc \in ExclusiveSteps BY WriterPcs, WriterFollows
<1>2. (\E d \in Calls : At(d, "chmod")) <=> calls[c].pc = "chmod"
  <2>1. "chmod" \in Started BY DEF Started, ExclusiveSteps
  <2>2. QED BY <1>1, <2>1, OthersWait DEF At
<1>3. Executing BY DEF PlaceInv
<1>4. \A n : ~Frozen(n) BY DEF Frozen
<1>5. QED BY <1>1, <1>2, <1>3, <1>4 DEF PlaceInv

\* Without late calls a writer's progress is what its copy records, which the journal has.
LEMMA WriterKnows ==
  ASSUME ApplyInv, PlaceInv, NEW c \in Calls, calls[c].pc \in Started, "late_call" \notin lapses
  PROVE  /\ operation # None /\ Durable(operation) \in Nat
         /\ calls[c].completed = Durable(Op(c)) /\ calls[c].completed <= Durable(operation)
<1>1. WriterReady(c) /\ calls[c].pc \in ExclusiveSteps BY WriterPcs DEF ApplyInv, CallTrue
<1>2. Op(c) # None BY <1>1, CopyIs, NoneAssumption
<1>3. calls[c].completed = Durable(Op(c)) BY <1>1 DEF WriterReady, Op
<1>4. operation # None /\ Durable(Op(c)) <= Durable(operation) BY <1>2 DEF PlaceInv
<1>5. Durable(operation) \in Nat BY <1>4, DocsAre, DurableIs
<1>6. QED BY <1>3, <1>4, <1>5

\* A writer that ends, and may say why in the journal.
Refused(c, done, active) ==
  \/ Left(c)
  \/ \E last \in Operations :
       /\ Ended(c, last) /\ last.plan = plan /\ last.sealed = Op(c).sealed
       /\ last.execution # None /\ Durable(last) = done
       /\ last.status \in {"conflict", "recovery_required"}
       /\ ActiveOf(last) = IF last.status = "conflict" THEN None ELSE active

LEMMA RefuseIs ==
  ASSUME ApplyInv, NEW c \in Calls, calls[c].pc \in Started, NEW active \in Intents \cup {None},
         \/ Record(c, Refusal(c, active))
         \/ Record(c, With(c, "recovery_required", Execution(calls[c].completed, active)))
  PROVE  Refused(c, calls[c].completed, active)
<1>1. calls[c].pc \in ExclusiveSteps BY WriterPcs
<1>2. calls[c].completed \in Nat BY <1>1, WriterPlan
<1>3. PICK state \in {"conflict", "recovery_required"}, a \in Intents \cup {None} :
        /\ Record(c, With(c, state, Execution(calls[c].completed, a)))
        /\ a = IF state = "conflict" THEN None ELSE active
  BY DEF Refusal
<1> DEFINE e == Execution(calls[c].completed, a)
           last == With(c, state, e)
<1>4. e \in Executions /\ e.completed = calls[c].completed /\ e.active = a /\ state \in Statuses
  BY <1>2 DEF Execution, Executions, Statuses
<1>5. e # None BY <1>4, NoneAssumption
<1>6. Record(c, last) BY <1>3
<1> HIDE DEF e
<1>7. /\ last \in Operations /\ last.plan = plan /\ last.status = state
      /\ last.execution = e /\ Durable(last) = calls[c].completed
      /\ last.sealed = Op(c).sealed
  BY <1>1, <1>4, WithIs, WithSealed
<1>8. ActiveOf(last) = a BY <1>4, <1>5, <1>7 DEF ActiveOf
<1> HIDE DEF last
<1>9. Left(c) \/ Ended(c, last) BY <1>6, RecordMoves
<1>10. QED BY <1>3, <1>5, <1>7, <1>8, <1>9 DEF Refused

\* What such an end leaves of the temps, where the project stays as it is.
LEMMA RefusedTemps ==
  ASSUME ApplyInv, PlaceInv, LitterInv, NEW c \in Calls, calls[c].pc \in Started \ {"identity"},
         lapses = {}, Refused(c, calls[c].completed, ActiveOf(Op(c))), tree' = tree,
         WriterTemps' \subseteq WriterTemps, review' = review, plan' = plan
  PROVE  TempsRecorded'
<1>1. SUFFICES ASSUME operation' # None, operation'.status # "conflict", NEW t \in WriterTemps'
      PROVE  /\ NamesTemp(operation', t)
             /\ tree' = After(review'.operator, plan'.steps, Durable(operation'))
  BY DEF TempsRecorded, Applied, Durable
<1>2. calls[c].pc \in ExclusiveSteps /\ ~At(c, "identity") BY WriterPcs DEF At
<1>3. Op(c).status # "conflict" /\ (calls[c].current => operation = Op(c))
      /\ calls[c].completed = Durable(Op(c)) /\ operation # None
  <2>1. StatusFits(c) BY DEF LitterInv
  <2>2. QED BY <1>2, <2>1, WriterKnows, CopyIs DEF StatusFits
<1>4. operation.status # "conflict" /\ Durable(operation') = Durable(operation)
      /\ ActiveOf(operation') = ActiveOf(operation)
  <2>1. CASE Left(c) BY <1>1, <2>1 DEF Left
  <2>2. CASE ~Left(c)
    <3>1. PICK last \in Operations :
            /\ Ended(c, last) /\ Durable(last) = calls[c].completed
            /\ ActiveOf(last) = IF last.status = "conflict" THEN None ELSE ActiveOf(Op(c))
      BY <2>2 DEF Refused
    <3>2. operation' = last /\ calls[c].current BY <3>1 DEF Ended
    <3>3. QED BY <1>1, <1>3, <3>1, <3>2
  <2>3. QED BY <2>1, <2>2
<1>5. t \in WriterTemps BY <1>1
<1>6. /\ NamesTemp(operation, t)
      /\ tree = Applied(Durable(operation))
  BY <1>2, <1>3, <1>4, <1>5, TempIsActive
<1>7. QED BY <1>4, <1>6, Zenon DEF Applied, NamesTemp

\* From n steps of the plan a writer takes the project to n steps or one more: its own.
Onto(c, n, m) ==
  /\ Reached(n)
  /\ \/ m = n
     \/ m = n + 1 /\ m <= Len(plan.steps) /\ calls[c].completed = n

LEMMA OntoIs ==
  ASSUME ApplyInv, PlaceInv, NEW c \in Calls, calls[c].pc \in Started,
         NEW n \in 0..Len(plan.steps), NEW m, Onto(c, n, m)
  PROVE  /\ m \in 0..Len(plan.steps) /\ n <= m
         /\ calls[c].completed <= m /\ DurableIn(Op(c)) <= m
         /\ DurableIn(operation) <= m
         /\ "late_call" \notin lapses =>
              /\ m <= DurableIn(operation) + 1
              /\ calls[c].current => DurableIn(operation) = calls[c].completed
         /\ operation # None /\ operation.status = "applied" => m = Len(plan.steps)
<1>1. /\ Len(plan.steps) \in Nat /\ calls[c].completed \in Nat /\ calls[c].pc \in ExclusiveSteps
      /\ DurableIn(operation) \in Nat /\ DurableIn(Op(c)) \in Nat
  BY WriterPcs, WriterPlan, DocsAre, DurableIs
<1>2. Recorded(n) /\ Standing(c, n) BY DEF Onto, Reached
<1>3. m \in 0..Len(plan.steps) /\ n <= m BY <1>1 DEF Onto
<1>4. calls[c].completed <= n /\ DurableIn(Op(c)) <= n /\ DurableIn(operation) <= n
  BY <1>2 DEF Standing, Recorded
<1>5. ASSUME "late_call" \notin lapses
      PROVE  /\ m <= DurableIn(operation) + 1
             /\ calls[c].current => DurableIn(operation) = calls[c].completed
  <2>1. calls[c].completed <= DurableIn(operation) BY <1>5, WriterKnows, DocsAre, DurableIs
  <2>2. n <= DurableIn(operation) + 1 BY <1>2, <1>5 DEF Recorded
  <2>3. calls[c].current => DurableIn(operation) = calls[c].completed
    BY <1>1, <1>5, WriterKnows, CopyIs DEF DurableIn
  <2>4. QED BY <1>1, <1>3, <1>4, <2>1, <2>2, <2>3 DEF Onto
<1>6. operation # None /\ operation.status = "applied" => m = Len(plan.steps)
  BY <1>1, <1>2, <1>3 DEF Recorded
<1>7. QED BY <1>1, <1>3, <1>4, <1>5, <1>6

\* A writer's refusal, wherever its step left the project.
LEMMA RefusedHolds ==
  ASSUME ApplyInv, ApplyInv', OpInv, Onward, NEW c \in Calls, calls[c].pc \in Started,
         NEW active, active \in {None, ActiveOf(Op(c))},
         Refused(c, calls[c].completed, active),
         UnchangedPackage, review' = review, edits' = edits, lapses \subseteq lapses',
         IsTree(tree)',
         edits = 0 => \E n \in 0..Len(plan.steps) : \E m : Onto(c, n, m) /\ tree' = Applied(m),
         edits = 0 /\ lapses' = {} => TempsRecorded'
  PROVE  OpInv'
<1>1. /\ calls[c].pc \in ExclusiveSteps /\ plan' = plan /\ sealed' = sealed
      /\ calls[c].completed \in Nat
  BY WriterPcs, WriterPlan DEF UnchangedPackage
<1>2. Becomes(c, Nobody) BY DEF Refused, Left, Ended
<1>3. OthersSame(c) /\ calls'[c].pc = "idle" /\ Op(c)' = None BY <1>2, LeftIs DEF Op
<1>4. \/ operation' = operation
      \/ /\ operation' \in Operations /\ operation' # None
         /\ operation'.plan = plan /\ operation'.sealed = Op(c).sealed
         /\ operation'.execution # None /\ Durable(operation') = calls[c].completed
         /\ operation'.status \in {"conflict", "recovery_required"}
         /\ ActiveOf(operation') \in {None, active} /\ calls[c].current
  BY NoneAssumption DEF Refused, Left, Ended
<1>5. BaseInv'
  <2>1. operation' = operation \/ DocBacked(operation)'
    BY <1>1, <1>4, WriterDoc DEF OpInv, DocBacked
  <2>2. QED BY <1>1, <1>2, <2>1, LeftBase DEF OpInv
<1>6. ASSUME edits = 0 PROVE PlaceInv' /\ Executing'
  <2>1. PlaceInv BY <1>6 DEF OpInv
  <2>2. PICK n \in 0..Len(plan.steps) : \E m : Onto(c, n, m) /\ tree' = Applied(m) BY <1>6
  <2>3. PICK m : Onto(c, n, m) /\ tree' = Applied(m) BY <2>2
  <2>4. /\ m \in 0..Len(plan.steps) /\ n <= m
        /\ calls[c].completed <= m
        /\ DurableIn(operation) <= m
        /\ "late_call" \notin lapses =>
             /\ m <= DurableIn(operation) + 1
             /\ calls[c].current => DurableIn(operation) = calls[c].completed
        /\ operation # None /\ operation.status = "applied" => m = Len(plan.steps)
    BY <2>1, <2>3, OntoIs
  <2>5. Executing' BY <1>4, <2>1, WriterStands DEF Executing
  <2>6. Recorded(m)'
    <3>1. CASE operation' = operation BY <1>1, <2>4, <3>1 DEF Recorded
    <3>2. CASE operation' # operation
      <4>1. DurableIn(operation') = calls[c].completed /\ calls[c].current
            /\ operation'.status # "applied"
        BY <1>4, <3>2 DEF DurableIn
      <4>2. QED BY <1>1, <2>4, <4>1 DEF Recorded
    <3>3. QED BY <3>1, <3>2
  <2>7. Standing(c, m)'
    <3>1. DurableIn(None) = 0 /\ 0 <= m BY <2>4 DEF DurableIn
    <3>2. "idle" \notin Started /\ Publishing \cup Altering \subseteq Started
      BY DEF Started, ExclusiveSteps, Publishing, Altering
    <3>3. QED BY <1>3, <3>1, <3>2 DEF Standing
  <2>8. tree' = IF calls'[c].pc = "chmod" THEN Bare(m) ELSE Applied(m) BY <1>3, <2>3
  <2>9. PlaceInv' BY <1>1, <1>3, <2>1, <2>3, <2>4, <2>5, <2>6, <2>7, <2>8, PlaceFrom DEF Onto
  <2>10. QED BY <2>5, <2>9
<1>7. ASSUME edits = 0, lapses' = {} PROVE LitterInv'
  <2>1. LitterInv /\ PlaceInv BY <1>7 DEF OpInv
  <2>2. StatusFits(c)' /\ Frontiers(c)'
    BY <1>3 DEF StatusFits, Frontiers, SharedSteps, Started, ExclusiveSteps
  <2>3. operation' = operation \/ ActivePublishes(operation')
    <3>1. ActivePublishes(Op(c)) /\ Op(c) # None BY <1>1, <2>1, CopyIs, NoneAssumption DEF LitterInv
    <3>2. QED BY <1>4, <3>1 DEF ActivePublishes
  <2>4. QED BY <1>1, <1>3, <1>6, <1>7, <2>1, <2>2, <2>3, LitterFrom
<1>8. QED BY <1>5, <1>6, <1>7 DEF OpInv

\* A writer that goes on with the copy it has.
Proceeds(c) ==
  /\ OthersSame(c) /\ operation' = operation
  /\ calls'[c].op = calls[c].op /\ calls'[c].completed = calls[c].completed
  /\ calls'[c].intent = calls[c].intent /\ (calls'[c].current => calls[c].current)
  /\ calls'[c].pc \in Started

LEMMA ProceedsHolds ==
  ASSUME ApplyInv, ApplyInv', OpInv, Onward, NEW c \in Calls, calls[c].pc \in Started,
         Proceeds(c),
         UnchangedPackage, review' = review, edits' = edits, lapses \subseteq lapses',
         IsTree(tree)',
         calls'[c].pc \in Publishing => StepOf(c).kind \in Publications,
         edits = 0 => \E n \in 0..Len(plan.steps) : \E m :
           /\ Onto(c, n, m)
           /\ tree' = IF calls'[c].pc = "chmod" THEN Bare(m) ELSE Applied(m)
           /\ calls'[c].pc \in Publishing \cup Altering => calls[c].completed = m
           /\ calls'[c].pc \in {"verify", "progress"} => calls[c].completed < m
           /\ calls'[c].pc \in {"final", "finish"} => calls[c].completed = Len(plan.steps),
         edits = 0 /\ lapses' = {} => Frontiers(c)' /\ TempsRecorded'
  PROVE  OpInv'
<1>1. /\ calls[c].pc \in ExclusiveSteps /\ plan' = plan /\ sealed' = sealed
      /\ calls[c].completed \in Nat /\ OthersSame(c) /\ Op(c)' = Op(c) /\ operation' = operation
      /\ calls'[c].completed = calls[c].completed /\ calls'[c].pc \in Started
  BY WriterPcs, WriterPlan DEF UnchangedPackage, Proceeds, Op
<1>2. BaseInv'
  <2>1. PackageWhole(Op(c)) BY <1>1 DEF OpInv, BaseInv, PackageInv, Packing
  <2>2. PackageWhole(Op(c)') BY <1>1, <2>1
  <2>3. StepOf(c)' = StepOf(c) BY <1>1 DEF StepOf, StepIndex
  <2>4. calls'[c].pc # "idle" BY <1>1 DEF Started, ExclusiveSteps
  <2>5. QED BY <1>1, <2>2, <2>3, <2>4, WriterBase DEF OpInv
<1>3. ASSUME edits = 0 PROVE PlaceInv' /\ Executing'
  <2>1. PlaceInv BY <1>3 DEF OpInv
  <2> DEFINE Goes(m) ==
           /\ tree' = IF calls'[c].pc = "chmod" THEN Bare(m) ELSE Applied(m)
           /\ calls'[c].pc \in Publishing \cup Altering => calls[c].completed = m
           /\ calls'[c].pc \in {"verify", "progress"} => calls[c].completed < m
           /\ calls'[c].pc \in {"final", "finish"} => calls[c].completed = Len(plan.steps)
  <2>2. PICK n \in 0..Len(plan.steps) : \E m : Onto(c, n, m) /\ Goes(m) BY <1>3
  <2>3. PICK m : Onto(c, n, m) /\ Goes(m) BY <2>2
  <2>4. /\ m \in 0..Len(plan.steps) /\ n <= m
        /\ calls[c].completed <= m /\ DurableIn(Op(c)) <= m
        /\ DurableIn(operation) <= m
        /\ "late_call" \notin lapses => m <= DurableIn(operation) + 1
        /\ operation # None /\ operation.status = "applied" => m = Len(plan.steps)
    BY <2>1, <2>3, OntoIs
  <2>5. Executing' BY <1>1, <2>1, WriterStands DEF Executing
  <2>6. Recorded(m)' BY <1>1, <2>4 DEF Recorded
  <2>7. Standing(c, m)' BY <1>1, <2>3, <2>4 DEF Standing
  <2>8. tree' = IF calls'[c].pc = "chmod" THEN Bare(m) ELSE Applied(m) BY <2>3
  <2> HIDE DEF Goes
  <2>9. PlaceInv' BY <1>1, <2>1, <2>3, <2>4, <2>5, <2>6, <2>7, <2>8, PlaceFrom DEF Onto
  <2>10. QED BY <2>5, <2>9
<1>4. ASSUME edits = 0, lapses' = {} PROVE LitterInv'
  <2>1. LitterInv BY <1>4 DEF OpInv
  <2>2. StatusFits(c)'
    <3>1. StatusFits(c) BY <2>1 DEF LitterInv
    <3>2. calls'[c].pc \notin SharedSteps \cup {"lock_exclusive", "walk"}
      BY <1>1 DEF SharedSteps, Started, ExclusiveSteps
    <3>3. QED BY <1>1, <3>1, <3>2 DEF StatusFits
  <2>3. QED BY <1>1, <1>3, <1>4, <2>1, <2>2, LitterFrom
<1>5. QED BY <1>2, <1>3, <1>4 DEF OpInv

-----------------------------------------------------------------------------
(* Where a writer's step finds the project. *)

LEMMA StepStarts ==
  ASSUME ApplyInv, NEW c \in Calls, calls[c].pc \in ExclusiveSteps,
         calls[c].completed < Len(plan.steps), NEW n \in 0..Len(plan.steps),
         calls[c].completed <= n
  PROVE  /\ calls[c].completed = n => Applied(n)[PathOf(c)] = StepOf(c).before
         /\ calls[c].completed < n =>
              Applied(n)[PathOf(c)] \in {FinalState(plan, PathOf(c)), StepOf(c).after}
         /\ StepOf(c).before # FinalState(plan, PathOf(c)) /\ StepOf(c).before # StepOf(c).after
<1> DEFINE k == StepIndex(c)
<1>1. /\ Follows(review) /\ k \in DOMAIN plan.steps /\ calls[c].completed \in Nat
      /\ k = calls[c].completed + 1 /\ Len(plan.steps) \in Nat
  BY WriterFollows, StepIs, WriterPlan DEF StepIndex
<1>2. StepOf(c) = plan.steps[k] /\ PathOf(c) = plan.steps[k].path BY DEF StepOf, PathOf
<1> HIDE DEF k
<1>3. calls[c].completed = n => Applied(n)[PathOf(c)] = StepOf(c).before
  <2>1. After(review.operator, plan.steps, k - 1)[plan.steps[k].path] = plan.steps[k].before
    BY <1>1, StartIs
  <2>2. k - 1 = calls[c].completed BY <1>1
  <2>3. QED BY <1>2, <2>1, <2>2 DEF Applied
<1>4. calls[c].completed < n =>
        Applied(n)[PathOf(c)] \in {FinalState(plan, PathOf(c)), StepOf(c).after}
  <2> SUFFICES ASSUME calls[c].completed < n
               PROVE  Applied(n)[PathOf(c)] \in {FinalState(plan, PathOf(c)), StepOf(c).after}
    OBVIOUS
  <2>1. k <= n /\ n \in Nat BY <1>1
  <2>2. Applied(n)[plan.steps[k].path] \in {FinalState(plan, plan.steps[k].path), plan.steps[k].after}
    BY <1>1, <2>1, DoneIs, Zenon DEF Applied
  <2>3. QED BY <1>2, <2>2
<1>5. QED BY <1>1, <1>2, <1>3, <1>4, BeforeDiffers, Zenon

\* What a writer's step makes of the project.
LEMMA StepTakes ==
  ASSUME ApplyInv, NEW c \in Calls, calls[c].pc \in ExclusiveSteps,
         calls[c].completed < Len(plan.steps)
  PROVE  /\ Applied(calls[c].completed + 1)
              = [Applied(calls[c].completed) EXCEPT ![PathOf(c)] = StepOf(c).after]
         /\ Bare(calls[c].completed)
              = [Applied(calls[c].completed) EXCEPT ![PathOf(c)] = Directory(PrivateMode)]
         /\ Applied(calls[c].completed) = [p \in Paths |-> Applied(calls[c].completed)[p]]
<1>1. Follows(review) /\ calls[c].completed \in 0..Len(plan.steps) - 1 BY WriterFollows, WriterPlan
<1>2. Applied(calls[c].completed) = [p \in Paths |-> Applied(calls[c].completed)[p]]
  BY DEF Applied, After
<1>3. QED BY <1>1, <1>2, AfterStep, Zenon DEF Applied, Bare, StepOf, PathOf, StepIndex

\* A writer whose copy is the journal.
LEMMA CurrentIs ==
  ASSUME ApplyInv, PlaceInv, LitterInv, NEW c \in Calls, calls[c].pc \in Started,
         calls[c].current, "late_call" \notin lapses
  PROVE  /\ operation = Op(c) /\ operation # None /\ operation.status # "conflict"
         /\ Durable(operation) = calls[c].completed
<1>1. StatusFits(c) /\ calls[c].pc \in ExclusiveSteps BY WriterPcs DEF LitterInv
<1>2. operation = Op(c) BY <1>1, CopyIs
<1>3. Op(c).status \in {"applying", "recovery_required"} BY <1>1 DEF StatusFits
<1>4. QED BY <1>2, <1>3, WriterKnows

\* At a step that publishes nothing there are no temps.
LEMMA NoTemps ==
  ASSUME ApplyInv, PlaceInv, LitterInv, NEW c \in Calls, calls[c].pc \in Started \ {"identity"},
         "late_call" \notin lapses, operation.status # "conflict",
         NEW n \in 0..Len(plan.steps), Reached(n), calls[c].completed = n,
         n < Len(plan.steps) => StepOf(c).kind \notin Publications
  PROVE  WriterTemps = {}
<1>1. SUFFICES ASSUME NEW t \in WriterTemps PROVE FALSE OBVIOUS
<1>2. calls[c].pc \in ExclusiveSteps /\ ~At(c, "identity") BY WriterPcs DEF At
<1>3. /\ operation # None /\ Durable(operation) \in Nat /\ n <= Durable(operation) BY WriterKnows
<1>4. NamesTemp(operation, t) BY <1>2, <1>3, TempIsActive
<1>5. Durable(operation) = n /\ n \in Nat /\ Len(plan.steps) \in Nat
  BY <1>2, <1>3, WriterPlan DEF Reached, Recorded, DurableIn
<1>6. ActiveOf(operation) # None /\ ActiveOf(operation).step = n + 1
  BY <1>4, <1>5 DEF NamesTemp, Intent
<1>7. n + 1 \in DOMAIN plan.steps /\ plan.steps[n + 1].kind \in Publications
  BY <1>3, <1>6 DEF LitterInv, ActivePublishes
<1>8. n < Len(plan.steps) BY <1>2, <1>5, <1>7, WriterPlan
<1>9. StepOf(c).kind \in Publications BY <1>7 DEF StepOf, StepIndex
<1>10. QED BY <1>8, <1>9

\* The temps of a step that leaves the project and the journal as they are.
LEMMA TempsKept ==
  ASSUME ApplyInv, PlaceInv, LitterInv, NEW c \in Calls, calls[c].pc \in Started \ {"identity"},
         tree' = tree, operation' = operation, review' = review, plan' = plan,
         WriterTemps' \subseteq WriterTemps
  PROVE  TempsRecorded'
<1>1. SUFFICES ASSUME operation # None, operation.status # "conflict", NEW t \in WriterTemps'
      PROVE  NamesTemp(operation, t) /\ tree = Applied(Durable(operation))
  BY Zenon DEF TempsRecorded, Applied, Durable, NamesTemp, ActiveOf
<1>2. calls[c].pc \in ExclusiveSteps /\ ~At(c, "identity") /\ t \in WriterTemps BY WriterPcs DEF At
<1>3. QED BY <1>1, <1>2, TempIsActive

\* A refusal before the project changes.
LEMMA SameRefusalHolds ==
  ASSUME ApplyInv, ApplyInv', OpInv, Onward, NEW c \in Calls,
         calls[c].pc \in Started \ {"identity", "chmod"},
         Refused(c, calls[c].completed, ActiveOf(Op(c))),
         UnchangedPackage, review' = review, edits' = edits, lapses' = lapses,
         tree' = tree, WriterTemps' \subseteq WriterTemps
  PROVE  OpInv'
<1>1. IsTree(tree)' /\ plan' = plan BY DEF OpInv, BaseInv, UnchangedPackage
<1>2. ASSUME edits = 0
      PROVE  \E n \in 0..Len(plan.steps) : \E m : Onto(c, n, m) /\ tree' = Applied(m)
  <2>1. PICK n \in 0..Len(plan.steps) : Reached(n) /\ tree = Applied(n)
    BY <1>2, WriterStands DEF OpInv
  <2>2. QED BY <2>1 DEF Onto
<1>3. ASSUME edits = 0, lapses' = {} PROVE TempsRecorded' BY <1>1, <1>3, RefusedTemps DEF OpInv
<1>4. QED BY <1>1, <1>2, <1>3, RefusedHolds, Zenon

\* A writer that ends before the project changes.
LEMMA SameLeaves ==
  ASSUME ApplyInv, ApplyInv', OpInv, Onward, NEW c \in Calls,
         calls[c].pc \in Started \ {"identity", "chmod"}, Leave(c), UNCHANGED operation,
         UnchangedPackage, review' = review, edits' = edits, lapses' = lapses,
         tree' = tree, WriterTemps' \subseteq WriterTemps
  PROVE  OpInv'
<1>1. Refused(c, calls[c].completed, ActiveOf(Op(c))) BY LeaveMoves DEF Refused
<1>2. QED BY <1>1, SameRefusalHolds


LEMMA SameRefuses ==
  ASSUME ApplyInv, ApplyInv', OpInv, Onward, NEW c \in Calls,
         calls[c].pc \in Started \ {"identity", "chmod"}, Refuse(c),
         UnchangedPackage, review' = review, edits' = edits, lapses' = lapses,
         tree' = tree, WriterTemps' \subseteq WriterTemps
  PROVE  OpInv'
<1>1. calls[c].pc \in ExclusiveSteps BY WriterPcs
<1>2. Refused(c, calls[c].completed, ActiveOf(Op(c))) BY <1>1, CopyIs, RefuseIs DEF Refuse
<1>3. QED BY <1>2, SameRefusalHolds
\* What a move within the section needs of the temps.
Fits(c, pc) ==
  \/ pc \in {"final", "finish", "mutate", "chmod", "set_mode"}
  \/ pc \in {"fresh", "verify", "progress"} /\ (calls[c].current => WriterTemps' = {})
  \/ calls[c].pc = "step" /\ pc = "temp"
  \/ calls[c].pc = "create_temp" /\ pc = "identity"
  \/ calls[c].pc = "write" /\ pc = "rename"
  \/ calls[c].pc = "rename" /\ pc = "replace"

LEMMA MovedFrontiers ==
  ASSUME ApplyInv, NEW c \in Calls, calls[c].pc \in Started, Frontiers(c), NEW pc,
         Moved(c, pc), Fits(c, pc)
  PROVE  Frontiers(c)'
<1>1. /\ calls'[c].pc = pc /\ Op(c)' = Op(c) /\ StepIndex(c)' = StepIndex(c)
      /\ calls'[c].intent = calls[c].intent /\ calls'[c].temp = calls[c].temp
      /\ calls'[c].current = calls[c].current /\ Prior(c)' = Prior(c)
  BY MovedIs DEF Op, StepIndex, Prior
<1>2. QED BY <1>1, Zenon DEF Frontiers, Fits

LEMMA MovedHolds ==
  ASSUME ApplyInv, ApplyInv', OpInv, Onward, NEW c \in Calls, calls[c].pc \in Started,
         NEW pc \in Started, Moved(c, pc),
         UnchangedPackage, review' = review, edits' = edits, lapses \subseteq lapses',
         IsTree(tree)', pc \in Publishing => StepOf(c).kind \in Publications,
         edits = 0 => \E n \in 0..Len(plan.steps) : \E m :
           /\ Onto(c, n, m)
           /\ tree' = IF pc = "chmod" THEN Bare(m) ELSE Applied(m)
           /\ pc \in Publishing \cup Altering => calls[c].completed = m
           /\ pc \in {"verify", "progress"} => calls[c].completed < m
           /\ pc \in {"final", "finish"} => calls[c].completed = Len(plan.steps),
         edits = 0 /\ lapses' = {} => Fits(c, pc) /\ TempsRecorded'
  PROVE  OpInv'
<1>1. Proceeds(c) /\ calls'[c].pc = pc BY MovedIs DEF Proceeds
<1>2. edits = 0 /\ lapses' = {} => Frontiers(c)' /\ TempsRecorded'
  <2>1. edits = 0 /\ lapses' = {} => Frontiers(c) BY DEF OpInv, LitterInv
  <2>2. QED BY <2>1, MovedFrontiers
<1>3. QED BY <1>1, <1>2, ProceedsHolds

\* A move that leaves the project and its temps as they are.
LEMMA SameMovedHolds ==
  ASSUME ApplyInv, ApplyInv', OpInv, Onward, NEW c \in Calls,
         calls[c].pc \in Started \ {"identity", "chmod"},
         NEW pc \in Started \ {"chmod"}, Moved(c, pc),
         UnchangedPackage, review' = review, edits' = edits, lapses' = lapses, tree' = tree,
         WriterTemps' \subseteq WriterTemps,
         pc \in Publishing => StepOf(c).kind \in Publications,
         edits = 0 => \A n \in 0..Len(plan.steps) : Reached(n) /\ tree = Applied(n) =>
           /\ pc \in Publishing \cup Altering => calls[c].completed = n
           /\ pc \in {"verify", "progress"} => calls[c].completed < n
           /\ pc \in {"final", "finish"} => calls[c].completed = Len(plan.steps),
         edits = 0 /\ lapses = {} => Fits(c, pc)
  PROVE  OpInv'
<1>1. IsTree(tree)' /\ plan' = plan /\ operation' = operation
  BY MovedIs DEF OpInv, BaseInv, UnchangedPackage
<1>2. ASSUME edits = 0
      PROVE  \E n \in 0..Len(plan.steps) : \E m :
           /\ Onto(c, n, m)
           /\ tree' = IF pc = "chmod" THEN Bare(m) ELSE Applied(m)
           /\ pc \in Publishing \cup Altering => calls[c].completed = m
           /\ pc \in {"verify", "progress"} => calls[c].completed < m
           /\ pc \in {"final", "finish"} => calls[c].completed = Len(plan.steps)
  <2>1. PICK n \in 0..Len(plan.steps) : Reached(n) /\ tree = Applied(n)
    BY <1>2, WriterStands DEF OpInv
  <2>2. /\ pc \in Publishing \cup Altering => calls[c].completed = n
        /\ pc \in {"verify", "progress"} => calls[c].completed < n
        /\ pc \in {"final", "finish"} => calls[c].completed = Len(plan.steps)
    BY <1>2, <2>1
  <2>3. Onto(c, n, n) BY <2>1 DEF Onto
  <2>4. QED BY <2>1, <2>2, <2>3
<1>3. ASSUME edits = 0, lapses' = {} PROVE Fits(c, pc) /\ TempsRecorded'
  BY <1>1, <1>3, TempsKept DEF OpInv
<1>4. QED BY <1>1, <1>2, <1>3, MovedHolds

-----------------------------------------------------------------------------
(* A step of the plan. *)

\* An object can be put where a step works: below directories, and over no contents.
LEMMA PutIsTree ==
  ASSUME ApplyInv, IsTree(tree), NEW c \in Calls, calls[c].pc \in ExclusiveSteps,
         calls[c].completed < Len(plan.steps), NEW node,
         SetPath(c, node),
         \/ node = Absent \/ Reachable(tree, PathOf(c)),
         \/ IsDirectory(node) \/ ~IsDirectory(tree[PathOf(c)]) \/ EmptyAt(PathOf(c))
  PROVE  IsTree(tree)'
<1>1. PathOf(c) \in Paths /\ tree = [p \in Paths |-> tree[p]] BY StepIs DEF ApplyInv, ProjectTyped
<1>2. IsDirectory(node) \/ Below(PathOf(c)) \cap Present(tree) = {}
  BY <1>1, NothingBelow DEF EmptyAt
<1>3. tree' = [tree EXCEPT ![PathOf(c)] = node] BY DEF SetPath
<1>4. IsTree([tree EXCEPT ![PathOf(c)] = node]) BY <1>1, <1>2, TreePut, Zenon
<1>5. QED BY <1>3, <1>4

\* A step that has done its work on the project: it was the next one.
LEMMA TakenHolds ==
  ASSUME ApplyInv, ApplyInv', OpInv, Onward, NEW c \in Calls,
         calls[c].pc \in (Publishing \cup Altering) \ {"identity", "chmod"},
         calls[c].completed < Len(plan.steps),
         NEW pc \in {"verify", "chmod"}, Moved(c, pc),
         edits = 0 => SetPath(c, IF pc = "chmod" THEN Directory(PrivateMode) ELSE StepOf(c).after),
         UnchangedPackage, review' = review, edits' = edits, lapses' = lapses, IsTree(tree)',
         \/ StepOf(c).kind \notin Publications /\ temps' = temps
         \/ edits = 0 /\ lapses = {} /\ operation.status # "conflict" => WriterTemps' = {}
  PROVE  OpInv'
<1>1. calls[c].pc \in ExclusiveSteps /\ calls[c].pc \in Started \ {"identity", "chmod"}
      /\ {"verify", "chmod"} \cap Publishing = {} /\ "verify" \notin Altering
      /\ {"verify", "chmod"} \subseteq Started /\ plan' = plan
  BY WriterPcs DEF Publishing, Altering, Started, ExclusiveSteps, UnchangedPackage
<1>2. calls[c].completed \in Nat /\ Len(plan.steps) \in Nat BY <1>1, WriterPlan
<1>3. ASSUME edits = 0, NEW n \in 0..Len(plan.steps), Reached(n), tree = Applied(n)
      PROVE  calls[c].completed = n
  BY <1>3 DEF Reached, Standing
<1>4. ASSUME edits = 0
      PROVE  \E n \in 0..Len(plan.steps) : \E m :
           /\ Onto(c, n, m)
           /\ tree' = IF pc = "chmod" THEN Bare(m) ELSE Applied(m)
           /\ pc \in Publishing \cup Altering => calls[c].completed = m
           /\ pc \in {"verify", "progress"} => calls[c].completed < m
           /\ pc \in {"final", "finish"} => calls[c].completed = Len(plan.steps)
  <2>1. PICK n \in 0..Len(plan.steps) : Reached(n) /\ tree = Applied(n)
    BY <1>1, <1>4, WriterStands DEF OpInv
  <2>2. calls[c].completed = n BY <1>3, <1>4, <2>1
  <2>3. tree' = [Applied(n) EXCEPT ![PathOf(c)] =
                   IF pc = "chmod" THEN Directory(PrivateMode) ELSE StepOf(c).after]
    BY <1>4, <2>1 DEF SetPath
  <2>4. tree' = IF pc = "chmod" THEN Bare(n) ELSE Applied(n + 1)
    BY <1>1, <2>2, <2>3, StepTakes, Zenon
  <2>5. Onto(c, n, n) /\ Onto(c, n, n + 1) BY <1>2, <2>1, <2>2 DEF Onto
  <2>6. CASE pc = "chmod" BY <1>1, <2>2, <2>4, <2>5, <2>6
  <2>7. CASE pc = "verify"
    <3>1. n < n + 1 OBVIOUS
    <3>2. QED BY <1>1, <2>2, <2>4, <2>5, <2>7, <3>1
  <2>8. QED BY <2>6, <2>7
<1>5. ASSUME edits = 0, lapses' = {} PROVE Fits(c, pc) /\ TempsRecorded'
  <2>1. PlaceInv /\ LitterInv BY <1>5 DEF OpInv
  <2>2. PICK n \in 0..Len(plan.steps) : Reached(n) /\ tree = Applied(n) BY <1>1, <2>1, WriterStands
  <2>3. calls[c].completed = n BY <1>3, <1>5, <2>2
  <2>4. operation' # None /\ operation'.status # "conflict" => WriterTemps' = {}
    <3>1. CASE StepOf(c).kind \notin Publications /\ temps' = temps
      <4>1. operation' = operation /\ WriterTemps' = WriterTemps BY <3>1, MovedIs DEF WriterTemps
      <4>2. QED BY <1>1, <1>5, <2>1, <2>2, <2>3, <3>1, <4>1, NoTemps
    <3>2. CASE operation.status # "conflict" => WriterTemps' = {} BY <3>2, MovedIs
    <3>3. QED BY <1>5, <3>1, <3>2
  <2>5. calls[c].current => operation' # None /\ operation'.status # "conflict"
    BY <1>1, <1>5, <2>1, CurrentIs, MovedIs
  <2>6. TempsRecorded' BY <2>4 DEF TempsRecorded
  <2>7. QED BY <2>4, <2>5, <2>6 DEF Fits
<1>6. QED BY <1>1, <1>4, <1>5, MovedHolds

LEMMA ExecuteStepHolds ==
  ASSUME ApplyInv, OpInv, NEW c \in Calls, ExecuteStep(c)
  PROVE  OpInv'
<1>1. /\ calls[c].pc = "step" /\ UnchangedPackage /\ review' = review /\ edits' = edits
      /\ lapses' = lapses /\ temps' = temps /\ tree' = tree
  BY DEF ExecuteStep, At
<1>2. ApplyInv' /\ Onward BY ExecuteStepKeeps
<1>3. /\ calls[c].pc \in Started \ {"identity", "chmod"} /\ calls[c].pc \in ExclusiveSteps
      /\ {"final", "progress", "mutate", "temp"} \subseteq Started \cap Pcs
      /\ {"final", "progress"} \cap (Publishing \cup Altering) = {} /\ "mutate" \notin Publishing
  BY <1>1 DEF Started, ExclusiveSteps, Publishing, Altering, Pcs
<1>4. /\ calls[c].completed \in Nat /\ Len(plan.steps) \in Nat
      /\ calls[c].completed <= Len(plan.steps)
  BY <1>3, WriterPlan DEF ApplyInv, CallTrue, WriterReady
<1>5. WriterTemps' = WriterTemps /\ IsTree(tree) BY <1>1 DEF WriterTemps, OpInv, BaseInv
<1>6. ASSUME NEW n \in 0..Len(plan.steps), Reached(n) PROVE calls[c].completed <= n
  BY <1>3, <1>6 DEF Reached, Standing
<1>7. CASE /\ calls[c].completed = Len(plan.steps)
           /\ Goto(c, "final") /\ UNCHANGED operation
  <2>1. Moved(c, "final") BY <1>3, <1>7, GotoMoves
  <2>2. Fits(c, "final") BY DEF Fits
  <2>3. QED BY <1>1, <1>2, <1>3, <1>5, <1>7, <2>1, <2>2, SameMovedHolds
<1>8. CASE /\ calls[c].completed # Len(plan.steps) /\ StepDone(tree, plan, StepIndex(c))
           /\ Goto(c, "progress") /\ UNCHANGED operation
  <2>1. Moved(c, "progress") BY <1>3, <1>8, GotoMoves
  <2>2. calls[c].completed < Len(plan.steps) BY <1>4, <1>8
  <2>3. tree[PathOf(c)] # StepOf(c).before
    <3>1. tree[PathOf(c)] \in {FinalState(plan, PathOf(c)), StepOf(c).after}
      BY <1>8 DEF StepDone, PathOf, StepOf
    <3>2. calls[c].completed \in 0..Len(plan.steps) /\ calls[c].completed <= calls[c].completed
      BY <1>4
    <3>3. /\ StepOf(c).before # FinalState(plan, PathOf(c))
          /\ StepOf(c).before # StepOf(c).after
      BY <1>3, <2>2, <3>2, StepStarts
    <3>4. QED BY <3>1, <3>3
  <2>4. ASSUME NEW n \in 0..Len(plan.steps), tree = Applied(n), calls[c].completed <= n
        PROVE  calls[c].completed < n
    BY <1>3, <1>4, <2>2, <2>3, <2>4, StepStarts
  <2>5. ASSUME edits = 0, lapses = {} PROVE Fits(c, "progress")
    <3>1. PlaceInv /\ LitterInv BY <2>5 DEF OpInv
    <3>2. SUFFICES ASSUME calls[c].current, NEW t \in WriterTemps PROVE FALSE BY <1>5 DEF Fits
    <3>3. operation # None /\ operation.status # "conflict"
          /\ Durable(operation) = calls[c].completed
      BY <1>3, <2>5, <3>1, <3>2, CurrentIs
    <3>4. tree = Applied(calls[c].completed) BY <1>1, <1>3, <3>1, <3>2, <3>3, TempIsActive DEF At
    <3>5. calls[c].completed \in 0..Len(plan.steps) BY <1>4
    <3>6. QED BY <1>4, <2>4, <3>4, <3>5
  <2>6. QED BY <1>1, <1>2, <1>3, <1>5, <1>6, <1>8, <2>1, <2>4, <2>5, SameMovedHolds
<1>9. CASE Refuse(c) BY <1>1, <1>2, <1>3, <1>5, <1>9, SameRefuses
<1>10. CASE /\ calls[c].completed # Len(plan.steps)
            /\ StepReady(tree, plan, StepIndex(c)) /\ UNCHANGED operation
            /\ Goto(c, IF StepOf(c).kind \in Publications THEN "temp" ELSE "mutate")
  <2>1. calls[c].completed < Len(plan.steps) BY <1>4, <1>10
  <2>2. tree[PathOf(c)] = StepOf(c).before BY <1>3, <1>10, <2>1, ReadyIs
  <2>3. ASSUME NEW n \in 0..Len(plan.steps), tree = Applied(n), calls[c].completed <= n
        PROVE  calls[c].completed = n
    BY <1>3, <1>4, <2>1, <2>2, <2>3, StepStarts
  <2>4. ASSUME NEW pc \in {"temp", "mutate"}, Goto(c, pc),
               pc = "temp" => StepOf(c).kind \in Publications
        PROVE  OpInv'
    <3>1. Moved(c, pc) /\ Fits(c, pc) BY <1>1, <1>3, <1>10, <2>4, GotoMoves DEF Fits
    <3>2. /\ pc \in Started \ {"chmod"} /\ pc \notin {"verify", "progress", "final", "finish"}
          /\ pc \in Publishing => StepOf(c).kind \in Publications
      BY <1>3, <2>4
    <3>3. QED BY <1>1, <1>2, <1>3, <1>5, <1>6, <2>3, <3>1, <3>2, SameMovedHolds
  <2>5. QED BY <1>10, <2>4
<1>11. QED BY <1>7, <1>8, <1>9, <1>10 DEF ExecuteStep

-----------------------------------------------------------------------------
(* A step changes the project. *)

\* Where nobody edited, a writer about to change a path finds it where the plan starts
\* it, and sees what is there.
LEMMA PlaceFound ==
  ASSUME ApplyInv, PlaceInv, NEW c \in Calls,
         calls[c].pc \in (Publishing \cup Altering) \ {"chmod"}
  PROVE  tree[PathOf(c)] = StepOf(c).before
<1>1. calls[c].pc \in Started /\ calls[c].pc \in InStep /\ calls[c].pc \in ExclusiveSteps
  BY WriterPcs DEF Publishing, Altering, InStep, Started, ExclusiveSteps
<1>2. calls[c].completed < Len(plan.steps) BY <1>1, InsideIs
<1>3. PICK n \in 0..Len(plan.steps) : Reached(n) /\ tree = Applied(n) BY <1>1, WriterStands
<1>4. calls[c].completed = n BY <1>3 DEF Reached, Standing
<1>5. calls[c].completed <= n BY <1>4
<1>6. QED BY <1>1, <1>2, <1>3, <1>4, <1>5, StepStarts

LEMMA SeenThere ==
  ASSUME IsTree(tree), NothingMissed, edits = 0, NEW c \in Calls, PathOf(c) \in Paths
  PROVE  /\ edited = {}
         /\ Gone(c) <=> ~Reachable(tree, PathOf(c))
         /\ tree[PathOf(c)] # Absent => ~Gone(c)
         /\ Seen(c) = tree[PathOf(c)]
<1>1. edited = {} /\ removed = {} BY DEF NothingMissed
<1>2. tree[PathOf(c)] # Absent => Reachable(tree, PathOf(c)) BY PresentReached
<1>3. QED BY <1>1, <1>2 DEF Gone, Seen

\* What the lemmas on the changes of a project need of the call that makes them.
LEMMA ChangeIs ==
  ASSUME ApplyInv, OpInv, NEW c \in Calls, calls[c].pc \in Altering \cup {"rename"}
  PROVE  /\ calls[c].pc \in Started \ {"identity"} /\ calls[c].pc \in ExclusiveSteps
         /\ calls[c].pc # "chmod" =>
              calls[c].pc \in (Publishing \cup Altering) \ {"identity", "chmod"}
         /\ calls[c].completed < Len(plan.steps) /\ PathOf(c) \in Paths
         /\ StepOf(c) \in RawSteps(review) /\ review \in Reviews
         /\ IsTree(tree) /\ tree = [p \in Paths |-> tree[p]] /\ "verify" \in Pcs
<1>1. /\ calls[c].pc \in Started \ {"identity"} /\ calls[c].pc \in InStep
      /\ calls[c].pc \in Publishing \cup Altering /\ "verify" \in Pcs
  BY DEF Publishing, Altering, InStep, Started, ExclusiveSteps, Pcs
<1>2. IsTree(tree) /\ tree = [p \in Paths |-> tree[p]] BY DEF OpInv, BaseInv, ApplyInv, ProjectTyped
<1>3. calls[c].pc # "identity" BY <1>1
<1>4. QED BY <1>1, <1>2, <1>3, InsideIs

LEMMA RemoveLeafHolds ==
  ASSUME ApplyInv, OpInv, NothingMissed, NEW c \in Calls, RemoveLeaf(c)
  PROVE  OpInv'
<1> DEFINE p == PathOf(c)
<1>1. /\ calls[c].pc = "mutate" /\ StepOf(c).kind = "remove_leaf"
      /\ UnchangedPackage /\ review' = review /\ edits' = edits
      /\ lapses' = lapses /\ temps' = temps /\ operation' = operation
  BY DEF RemoveLeaf, Mutating, At, UnchangedElse
<1>2. ApplyInv' /\ Onward BY RemoveLeafKeeps
<1>3. /\ calls[c].pc \in Started \ {"identity", "chmod"} /\ calls[c].pc \in ExclusiveSteps
      /\ calls[c].pc \in (Publishing \cup Altering) \ {"identity", "chmod"}
      /\ calls[c].completed < Len(plan.steps) /\ p \in Paths
      /\ StepOf(c) \in RawSteps(review) /\ review \in Reviews
      /\ IsTree(tree) /\ tree = [q \in Paths |-> tree[q]] /\ "verify" \in Pcs
  <2>1. calls[c].pc \in Altering \cup {"rename"} BY <1>1 DEF Altering
  <2>2. QED BY <1>1, <2>1, ChangeIs
<1>4. StepOf(c).kind \notin Publications /\ StepOf(c).before # Absent /\ StepOf(c).after = Absent
  BY <1>1, <1>3, KindIs DEF Publications
<1>5. CASE Leave(c) /\ UNCHANGED tree
  <2>1. WriterTemps' = WriterTemps BY <1>1 DEF WriterTemps
  <2>2. QED BY <1>1, <1>2, <1>3, <1>5, <2>1, SameLeaves
<1>6. CASE /\ ~IsDirectory(Seen(c)) /\ Goto(c, "verify")
           /\ IF Gone(c) THEN UNCHANGED tree ELSE SetPath(c, Absent)
  <2>1. Moved(c, "verify") BY <1>1, <1>3, <1>6, GotoMoves
  <2>2. IsTree(tree)'
    <3>1. CASE Gone(c) BY <1>3, <1>6, <3>1
    <3>2. CASE ~Gone(c)
      <4>1. ~IsDirectory(tree[p]) BY <1>6, <3>2 DEF Seen
      <4>2. QED BY <1>3, <1>6, <3>2, <4>1, PutIsTree
    <3>3. QED BY <3>1, <3>2
  <2>3. ASSUME edits = 0 PROVE SetPath(c, StepOf(c).after)
    <3>1. tree[p] = StepOf(c).before BY <1>3, <2>3, PlaceFound DEF OpInv
    <3>2. ~Gone(c) BY <1>3, <1>4, <2>3, <3>1, SeenThere
    <3>3. QED BY <1>4, <1>6, <3>2
  <2>4. QED BY <1>1, <1>2, <1>3, <1>4, <2>1, <2>2, <2>3, TakenHolds
<1>7. QED BY <1>5, <1>6 DEF RemoveLeaf

LEMMA RemoveDirectoryHolds ==
  ASSUME ApplyInv, OpInv, NothingMissed, NEW c \in Calls, RemoveDirectory(c)
  PROVE  OpInv'
<1> DEFINE p == PathOf(c)
<1>1. /\ calls[c].pc = "mutate" /\ StepOf(c).kind = "remove_directory"
      /\ UnchangedPackage /\ review' = review /\ edits' = edits
      /\ lapses' = lapses /\ temps' = temps
  BY DEF RemoveDirectory, Mutating, At, UnchangedElse
<1>2. ApplyInv' /\ Onward BY RemoveDirectoryKeeps
<1>3. /\ calls[c].pc \in Started \ {"identity", "chmod"} /\ calls[c].pc \in ExclusiveSteps
      /\ calls[c].pc \in (Publishing \cup Altering) \ {"identity", "chmod"}
      /\ calls[c].completed < Len(plan.steps) /\ p \in Paths
      /\ StepOf(c) \in RawSteps(review) /\ review \in Reviews
      /\ IsTree(tree) /\ tree = [q \in Paths |-> tree[q]] /\ "verify" \in Pcs
  <2>1. calls[c].pc \in Altering \cup {"rename"} BY <1>1 DEF Altering
  <2>2. QED BY <1>1, <2>1, ChangeIs
<1>4. WriterTemps' = WriterTemps BY <1>1 DEF WriterTemps
<1>5. /\ StepOf(c).kind \notin Publications /\ StepOf(c).before # Absent
      /\ IsDirectory(StepOf(c).before) /\ StepOf(c).after = Absent
  BY <1>1, <1>3, KindIs DEF Publications
<1>6. edits = 0 => tree[p] = StepOf(c).before BY <1>3, PlaceFound DEF OpInv
<1>7. CASE Leave(c) /\ UNCHANGED <<tree, operation>> BY <1>1, <1>2, <1>3, <1>4, <1>7, SameLeaves
<1>8. CASE Refuse(c) /\ UNCHANGED tree BY <1>1, <1>2, <1>3, <1>4, <1>8, SameRefuses
<1>9. CASE Seen(c) = Absent /\ Goto(c, "verify") /\ UNCHANGED <<tree, operation>>
  <2>1. Moved(c, "verify") BY <1>3, <1>9, GotoMoves
  <2>2. edits # 0 BY <1>3, <1>5, <1>6, <1>9, SeenThere
  <2>3. QED BY <1>1, <1>2, <1>3, <1>5, <1>9, <2>1, <2>2, TakenHolds
<1>10. CASE /\ EmptyAt(p) /\ SetPath(c, Absent) /\ Goto(c, "verify") /\ UNCHANGED operation
  <2>1. Moved(c, "verify") BY <1>3, <1>10, GotoMoves
  <2>2. IsTree(tree)' BY <1>3, <1>10, PutIsTree
  <2>3. QED BY <1>1, <1>2, <1>3, <1>5, <1>10, <2>1, <2>2, TakenHolds
<1>11. QED BY <1>7, <1>8, <1>9, <1>10 DEF RemoveDirectory

LEMMA CreateDirectoryHolds ==
  ASSUME ApplyInv, OpInv, NEW c \in Calls, CreateDirectory(c)
  PROVE  OpInv'
<1> DEFINE p == PathOf(c)
<1>1. /\ calls[c].pc = "mutate" /\ StepOf(c).kind = "create_directory"
      /\ UnchangedPackage /\ review' = review /\ edits' = edits
      /\ lapses' = lapses /\ temps' = temps
  BY DEF CreateDirectory, Mutating, At, UnchangedElse
<1>2. ApplyInv' /\ Onward BY CreateDirectoryKeeps
<1>3. /\ calls[c].pc \in Started \ {"identity", "chmod"} /\ calls[c].pc \in ExclusiveSteps
      /\ calls[c].pc \in (Publishing \cup Altering) \ {"identity", "chmod"}
      /\ calls[c].completed < Len(plan.steps) /\ p \in Paths
      /\ StepOf(c) \in RawSteps(review) /\ review \in Reviews
      /\ IsTree(tree) /\ tree = [q \in Paths |-> tree[q]] /\ "verify" \in Pcs
  <2>1. calls[c].pc \in Altering \cup {"rename"} BY <1>1 DEF Altering
  <2>2. QED BY <1>1, <2>1, ChangeIs
<1>4. WriterTemps' = WriterTemps BY <1>1 DEF WriterTemps
<1>5. /\ StepOf(c).kind \notin Publications /\ StepOf(c).before = Absent
      /\ StepOf(c).after # Absent /\ IsDirectory(Directory(PrivateMode)) /\ "chmod" \in Pcs
  <2>1. /\ \A mode : Directory(mode) # Absent /\ IsDirectory(Directory(mode))
        /\ "create_directory" \notin Publications
    BY DEF Publications, IsDirectory, Directory, Absent
  <2>2. "chmod" \in Pcs BY DEF Pcs, ExclusiveSteps
  <2>3. StepOf(c).before = Absent /\ StepOf(c).after = Directory(StepOf(c).after.mode)
    BY <1>1, <1>3, KindIs
  <2>4. QED BY <1>1, <2>1, <2>2, <2>3
<1>6. edits = 0 => tree[p] = StepOf(c).before BY <1>3, PlaceFound DEF OpInv
<1>7. CASE Leave(c) /\ UNCHANGED <<tree, operation>> BY <1>1, <1>2, <1>3, <1>4, <1>7, SameLeaves
<1>8. CASE Refuse(c) /\ UNCHANGED tree BY <1>1, <1>2, <1>3, <1>4, <1>8, SameRefuses
<1>9. CASE /\ ~Gone(c) /\ Seen(c) = StepOf(c).after
           /\ Goto(c, "verify") /\ UNCHANGED <<tree, operation>>
  <2>1. Moved(c, "verify") BY <1>3, <1>9, GotoMoves
  <2>2. edits # 0 BY <1>5, <1>6, <1>9 DEF Seen
  <2>3. QED BY <1>1, <1>2, <1>3, <1>5, <1>9, <2>1, <2>2, TakenHolds
<1>10. CASE /\ ~Gone(c) /\ Seen(c) = Absent /\ SetPath(c, Directory(PrivateMode))
            /\ Goto(c, "chmod") /\ UNCHANGED operation
  <2>1. Moved(c, "chmod") BY <1>5, <1>10, GotoMoves
  <2>2. IsTree(tree)' BY <1>3, <1>5, <1>10, PutIsTree DEF Gone
  <2>3. QED BY <1>1, <1>2, <1>3, <1>5, <1>10, <2>1, <2>2, TakenHolds
<1>11. QED BY <1>7, <1>8, <1>9, <1>10 DEF CreateDirectory

LEMMA ChmodDirectoryHolds ==
  ASSUME ApplyInv, OpInv, NothingMissed, NEW c \in Calls, ChmodDirectory(c)
  PROVE  OpInv'
<1>1. /\ calls[c].pc = "chmod" /\ UnchangedPackage /\ review' = review /\ edits' = edits
      /\ lapses' = lapses /\ temps' = temps /\ plan' = plan
  BY DEF ChmodDirectory, At, UnchangedPackage, UnchangedElse
<1>2. ApplyInv' /\ Onward BY ChmodDirectoryKeeps
<1>3. /\ calls[c].pc \in Started \ {"identity"} /\ calls[c].pc \in ExclusiveSteps
      /\ calls[c].pc \in InStep /\ "verify" \in Started \cap Pcs
      /\ "verify" \notin Publishing \cup Altering
  BY <1>1 DEF Started, ExclusiveSteps, Publishing, Altering, InStep, Pcs
<1>4. /\ calls[c].completed \in Nat /\ Len(plan.steps) \in Nat
      /\ calls[c].completed < Len(plan.steps)
      /\ tree = [p \in Paths |-> tree[p]] /\ IsTree(tree)
  BY <1>3, WriterPlan DEF ApplyInv, CallTrue, WriterReady, ProjectTyped, OpInv, BaseInv
<1>5. /\ StepOf(c).kind = "create_directory" /\ PathOf(c) \in Paths
      /\ StepOf(c).after = Directory(StepOf(c).after.mode)
  <2>1. StepOf(c).kind = "create_directory" BY <1>1, <1>3, InsideIs DEF KindAt
  <2>2. StepOf(c) \in RawSteps(review) /\ review \in Reviews /\ PathOf(c) \in Paths
    BY <1>3, <1>4, StepIs, WriterPlan
  <2>3. QED BY <2>1, <2>2, KindIs
<1>6. StepOf(c).kind \notin Publications /\ IsDirectory(StepOf(c).after)
  BY <1>5 DEF Publications, IsDirectory, Directory
<1>7. IsTree(tree)'
  <2>1. CASE IsDirectory(Seen(c))
    <3>1. tree' = [tree EXCEPT ![PathOf(c)] = StepOf(c).after] BY <2>1 DEF ChmodDirectory, SetPath
    <3>2. Reachable(tree, PathOf(c)) BY <2>1 DEF Seen, Gone, IsDirectory, Absent
    <3>3. IsTree([tree EXCEPT ![PathOf(c)] = StepOf(c).after]) BY <1>4, <1>5, <1>6, <3>2, TreePut
    <3>4. QED BY <3>1, <3>3
  <2>2. CASE ~IsDirectory(Seen(c)) BY <1>4, <2>2 DEF ChmodDirectory
  <2>3. QED BY <2>1, <2>2
<1>8. ASSUME edits = 0
      PROVE  \E n \in 0..Len(plan.steps) :
               /\ Reached(n) /\ calls[c].completed = n
               /\ Onto(c, n, n + 1) /\ tree' = Applied(n + 1) /\ IsDirectory(Seen(c))
  <2>1. PICK n \in 0..Len(plan.steps) : Reached(n) /\ tree = Bare(n)
    BY <1>1, <1>3, <1>8, WriterStands DEF OpInv
  <2>2. calls[c].completed = n BY <1>1, <2>1 DEF Reached, Standing, Altering
  <2>3. /\ Applied(n + 1) = [Applied(n) EXCEPT ![PathOf(c)] = StepOf(c).after]
        /\ Bare(n) = [Applied(n) EXCEPT ![PathOf(c)] = Directory(PrivateMode)]
        /\ Applied(n) = [p \in Paths |-> Applied(n)[p]]
    BY <1>3, <1>4, <2>2, StepTakes, Zenon
  <2>4. tree[PathOf(c)] = Directory(PrivateMode) BY <1>5, <2>1, <2>3
  <2>5. IsDirectory(Seen(c)) /\ tree' = [tree EXCEPT ![PathOf(c)] = StepOf(c).after]
    <3>1. Seen(c) = Directory(PrivateMode) BY <1>4, <1>5, <1>8, <2>4, SeenThere
    <3>2. IsDirectory(Seen(c)) BY <3>1 DEF IsDirectory, Directory
    <3>3. QED BY <3>2 DEF ChmodDirectory, SetPath
  <2>6. tree' = Applied(n + 1) BY <2>1, <2>3, <2>5, Zenon
  <2>7. n + 1 <= Len(plan.steps) BY <1>4, <2>2
  <2>8. Onto(c, n, n + 1) BY <2>1, <2>2, <2>7 DEF Onto
  <2>9. QED BY <2>1, <2>2, <2>5, <2>6, <2>8
<1>9. ASSUME edits = 0, lapses = {}, operation.status # "conflict" PROVE WriterTemps' = {}
  <2>1. PlaceInv /\ LitterInv BY <1>9 DEF OpInv
  <2>2. PICK n \in 0..Len(plan.steps) : Reached(n) /\ calls[c].completed = n BY <1>8, <1>9
  <2>3. WriterTemps = {} BY <1>3, <1>6, <1>9, <2>1, <2>2, NoTemps
  <2>4. QED BY <1>1, <2>3 DEF WriterTemps
<1>10. ASSUME edits = 0, lapses = {}, calls[c].current PROVE operation.status # "conflict"
  <2>1. PlaceInv /\ LitterInv BY <1>10 DEF OpInv
  <2>2. QED BY <1>3, <1>10, <2>1, CurrentIs
<1>11. CASE Goto(c, "verify") /\ UNCHANGED operation
  <2>1. Moved(c, "verify") BY <1>3, <1>11, GotoMoves
  <2>2. edits = 0 /\ lapses' = {} => Fits(c, "verify") /\ TempsRecorded'
    BY <1>1, <1>9, <1>10, <1>11 DEF Fits, TempsRecorded
  <2>3. ASSUME edits = 0
        PROVE  \E n \in 0..Len(plan.steps) : \E m :
           /\ Onto(c, n, m)
           /\ tree' = IF "verify" = "chmod" THEN Bare(m) ELSE Applied(m)
           /\ "verify" \in Publishing \cup Altering => calls[c].completed = m
           /\ "verify" \in {"verify", "verify"} => calls[c].completed < m
           /\ "verify" \in {"final", "finish"} => calls[c].completed = Len(plan.steps)
    <3>1. PICK n \in 0..Len(plan.steps) :
            /\ calls[c].completed = n /\ Onto(c, n, n + 1) /\ tree' = Applied(n + 1)
      BY <1>8, <2>3
    <3>2. calls[c].completed < n + 1 BY <1>4, <3>1
    <3>3. QED BY <1>3, <3>1, <3>2
  <2>4. QED BY <1>1, <1>2, <1>3, <1>7, <2>1, <2>2, <2>3, MovedHolds
<1>12. CASE ~IsDirectory(Seen(c)) /\ Leave(c) /\ UNCHANGED <<tree, operation>>
  <2>1. edits # 0 BY <1>8, <1>12
  <2>2. Becomes(c, Nobody) BY <1>12, LeaveMoves DEF Left
  <2>3. BaseInv' BY <1>1, <1>7, <1>12, <2>2, LeftBase DEF OpInv, UnchangedPackage
  <2>4. QED BY <1>1, <2>1, <2>3 DEF OpInv
<1>13. QED BY <1>11, <1>12 DEF ChmodDirectory

LEMMA OpenForModeHolds ==
  ASSUME ApplyInv, OpInv, NEW c \in Calls, OpenForMode(c)
  PROVE  OpInv'
<1> DEFINE p == PathOf(c)
<1>1. /\ calls[c].pc = "mutate" /\ StepOf(c).kind = "set_mode"
      /\ UnchangedPackage /\ review' = review /\ edits' = edits
      /\ lapses' = lapses /\ temps' = temps
  BY DEF OpenForMode, Mutating, At
<1>2. ApplyInv' /\ Onward BY OpenForModeKeeps
<1>3. /\ calls[c].pc \in Started \ {"identity", "chmod"} /\ calls[c].pc \in ExclusiveSteps
      /\ calls[c].pc \in (Publishing \cup Altering) \ {"identity", "chmod"}
      /\ calls[c].completed < Len(plan.steps) /\ p \in Paths
      /\ StepOf(c) \in RawSteps(review) /\ review \in Reviews
      /\ IsTree(tree) /\ tree = [q \in Paths |-> tree[q]] /\ "verify" \in Pcs
  <2>1. calls[c].pc \in Altering \cup {"rename"} BY <1>1 DEF Altering
  <2>2. QED BY <1>1, <2>1, ChangeIs
<1>4. WriterTemps' = WriterTemps BY <1>1 DEF WriterTemps
<1>5. "set_mode" \in Started \ {"chmod"} /\ "set_mode" \in Pcs /\ "set_mode" \notin Publishing
  BY DEF Publishing, Started, ExclusiveSteps, Pcs
<1>6. tree' = tree BY DEF OpenForMode
<1>7. CASE Leave(c) /\ UNCHANGED operation BY <1>1, <1>2, <1>3, <1>4, <1>6, <1>7, SameLeaves
<1>8. CASE Refuse(c) BY <1>1, <1>2, <1>3, <1>4, <1>6, <1>8, SameRefuses
<1>9. CASE Goto(c, "set_mode") /\ UNCHANGED operation
  <2>1. Moved(c, "set_mode") /\ Fits(c, "set_mode") BY <1>5, <1>9, GotoMoves DEF Fits
  <2>2. ASSUME NEW n \in 0..Len(plan.steps), Reached(n) PROVE calls[c].completed = n
    BY <1>3, <2>2 DEF Reached, Standing
  <2>3. QED BY <1>1, <1>2, <1>3, <1>4, <1>5, <1>6, <2>1, <2>2, SameMovedHolds
<1>10. QED BY <1>7, <1>8, <1>9 DEF OpenForMode

LEMMA SetModeHolds ==
  ASSUME ApplyInv, OpInv, NothingMissed, NEW c \in Calls, SetMode(c)
  PROVE  OpInv'
<1> DEFINE p == PathOf(c)
<1>1. /\ calls[c].pc = "set_mode"
      /\ UnchangedPackage /\ review' = review /\ edits' = edits
      /\ lapses' = lapses /\ temps' = temps
  BY DEF SetMode, At, UnchangedElse
<1>2. ApplyInv' /\ Onward BY SetModeKeeps
<1>3. /\ calls[c].pc \in Started \ {"identity", "chmod"} /\ calls[c].pc \in ExclusiveSteps
      /\ calls[c].pc \in (Publishing \cup Altering) \ {"identity", "chmod"}
      /\ calls[c].completed < Len(plan.steps) /\ p \in Paths
      /\ StepOf(c) \in RawSteps(review) /\ review \in Reviews
      /\ IsTree(tree) /\ tree = [q \in Paths |-> tree[q]] /\ "verify" \in Pcs
  <2>1. calls[c].pc \in Altering \cup {"rename"} BY <1>1 DEF Altering
  <2>2. QED BY <1>1, <2>1, ChangeIs
<1>4. WriterTemps' = WriterTemps BY <1>1 DEF WriterTemps
<1>5. /\ StepOf(c).kind = "set_mode" /\ StepOf(c).kind \notin Publications
      /\ StepOf(c).before.data = StepOf(c).after.data
      /\ StepOf(c).after = [kind |-> StepOf(c).after.kind, mode |-> StepOf(c).after.mode,
                            data |-> StepOf(c).after.data]
  <2>1. calls[c].pc \in InStep BY <1>1 DEF InStep, Started, ExclusiveSteps
  <2>2. StepOf(c).kind = "set_mode" BY <1>1, <2>1, InsideIs DEF KindAt
  <2>3. QED BY <1>3, <2>2, KindIs DEF Publications
<1> DEFINE after == StepOf(c).after
           node == [kind |-> after.kind, mode |-> after.mode, data |-> tree[p].data]
<1>6. /\ Goto(c, "verify") /\ UNCHANGED operation
      /\ \/ p \in edited /\ UNCHANGED tree
         \/ tree[p].kind = after.kind /\ SetPath(c, node)
  BY DEF SetMode
<1>7. Moved(c, "verify") BY <1>3, <1>6, GotoMoves
<1>8. IsTree(tree)'
  <2>1. CASE UNCHANGED tree BY <1>3, <2>1
  <2>2. CASE tree[p].kind = after.kind /\ SetPath(c, node)
    <3>1. node.kind = tree[p].kind BY <2>2
    <3>2. /\ IsDirectory(node) <=> IsDirectory(tree[p])
          /\ tree[p] = Absent => ~IsDirectory(node)
      BY <3>1 DEF IsDirectory, Absent
    <3>3. node = Absent \/ Reachable(tree, p)
      <4>1. CASE tree[p] = Absent
        <5>1. after.kind = "absent" BY <2>2, <4>1 DEF Absent
        <5>2. after = Absent BY <1>3, <5>1, KindIs
        <5>3. node = Absent BY <4>1, <5>2 DEF Absent
        <5>4. QED BY <5>3
      <4>2. CASE tree[p] # Absent BY <1>3, <4>2, PresentReached
      <4>3. QED BY <4>1, <4>2
    <3> HIDE DEF node, after
    <3>4. QED BY <1>3, <2>2, <3>2, <3>3, PutIsTree
  <2>3. QED BY <1>6, <2>1, <2>2
<1>9. ASSUME edits = 0 PROVE SetPath(c, after)
  <2>1. tree[p] = StepOf(c).before BY <1>3, <1>9, PlaceFound DEF OpInv
  <2>2. p \notin edited BY <1>3, <1>9, SeenThere
  <2>3. node = after BY <1>5, <2>1
  <2> HIDE DEF node, after
  <2>4. QED BY <1>6, <2>2, <2>3
<1> HIDE DEF node, after
<1>10. edits = 0 => SetPath(c, IF "verify" = "chmod" THEN Directory(PrivateMode) ELSE StepOf(c).after)
  BY <1>9 DEF after
<1>11. QED BY <1>1, <1>2, <1>3, <1>5, <1>7, <1>8, <1>10, TakenHolds

-----------------------------------------------------------------------------
(* The temp of a publication. *)

\* A publishing writer is at the step the project waits for.
LEMMA PublishingStands ==
  ASSUME ApplyInv, PlaceInv, NEW c \in Calls, calls[c].pc \in Publishing
  PROVE  \E n \in 0..Len(plan.steps) :
           Reached(n) /\ tree = Applied(n) /\ calls[c].completed = n
<1>1. calls[c].pc \in Started /\ calls[c].pc # "chmod" BY WriterPcs DEF Publishing
<1>2. PICK n \in 0..Len(plan.steps) : Reached(n) /\ tree = Applied(n) BY <1>1, WriterStands
<1>3. Standing(c, n) BY <1>2 DEF Reached
<1>4. QED BY <1>2, <1>3 DEF Standing

\* The writer's temps without one of them.
LEMMA DroppedTemps ==
  ASSUME NEW name, temps' = WithoutTemp(name)
  PROVE  WriterTemps' = WriterTemps \ {name}
BY DEF WithoutTemp, WriterTemps

\* Where the writer's copy is the journal, the temp the journal owns is the copy's.
LEMMA CopyNames ==
  ASSUME ApplyInv, PlaceInv, LitterInv, NEW c \in Calls, calls[c].pc \in Publishing \ {"identity"},
         calls[c].current, lapses = {}, NEW t \in WriterTemps
  PROVE  ActiveOf(Op(c)) # None /\ ActiveOf(Op(c)) = Intent(StepIndex(c), t, TRUE)
<1>1. calls[c].pc \in Started /\ calls[c].pc \in ExclusiveSteps /\ ~At(c, "identity")
  BY WriterPcs DEF At
<1>2. /\ operation = Op(c) /\ operation # None /\ operation.status # "conflict"
      /\ Durable(operation) = calls[c].completed
  BY <1>1, CurrentIs
<1>3. NamesTemp(operation, t) BY <1>1, <1>2, TempIsActive
<1>4. QED BY <1>2, <1>3, Zenon DEF NamesTemp, StepIndex

LEMMA PrepareTempHolds ==
  ASSUME ApplyInv, OpInv, NEW c \in Calls, PrepareTemp(c)
  PROVE  OpInv'
<1> DEFINE prior == Prior(c)
           Use(pc) == calls' = [calls EXCEPT ![c].temp = prior.temp, ![c].pc = pc]
<1>1. /\ calls[c].pc = "temp" /\ UnchangedPackage /\ review' = review /\ edits' = edits
      /\ lapses' = lapses /\ temps' = temps /\ tree' = tree /\ plan' = plan
  BY DEF PrepareTemp, At, UnchangedPackage, UnchangedProject
<1>2. ApplyInv' /\ Onward BY PrepareTempKeeps
<1>3. /\ calls[c].pc \in Started \ {"identity", "chmod"} /\ calls[c].pc \in Publishing \ {"identity"}
      /\ calls[c].pc \in ExclusiveSteps
      /\ {"fresh", "create_temp", "clean", "rename"} \subseteq Started \cap Publishing \cap Pcs
      /\ "fresh" \in Started \ {"chmod"}
  BY <1>1 DEF Started, ExclusiveSteps, Publishing, Pcs
<1>4. StepOf(c).kind \in Publications /\ WriterTemps' = WriterTemps /\ IsTree(tree)'
  BY <1>1, <1>3 DEF OpInv, BaseInv, Positioned, WriterTemps
<1>5. ASSUME edits = 0, NEW n \in 0..Len(plan.steps), Reached(n) PROVE  calls[c].completed = n
  <2>1. Standing(c, n) BY <1>5 DEF Reached
  <2>2. QED BY <1>3, <2>1 DEF Standing
<1>6. CASE Goto(c, "fresh") /\ UNCHANGED operation
           /\ (prior = None \/ ~HasTemp(prior.temp))
  <2>1. Moved(c, "fresh") BY <1>3, <1>6, GotoMoves
  <2>2. ASSUME edits = 0, lapses = {} PROVE Fits(c, "fresh")
    <3>1. PlaceInv /\ LitterInv BY <2>2 DEF OpInv
    <3>2. SUFFICES ASSUME calls[c].current, NEW t \in WriterTemps PROVE FALSE BY <1>4 DEF Fits
    <3>3. ActiveOf(Op(c)) # None /\ ActiveOf(Op(c)) = Intent(StepIndex(c), t, TRUE)
      BY <1>3, <2>2, <3>1, <3>2, CopyNames, Zenon
    <3>4. prior = ActiveOf(Op(c)) BY <1>1, <3>1, Zenon DEF LitterInv, Frontiers
    <3>5. prior # None /\ prior.temp = t BY <3>3, <3>4 DEF Intent
    <3>6. HasTemp(t) BY DEF HasTemp, WriterTemps
    <3>7. QED BY <1>6, <3>5, <3>6
  <2> HIDE DEF prior
  <2>3. QED BY <1>1, <1>2, <1>3, <1>4, <1>5, <2>1, <2>2, SameMovedHolds
<1>7. CASE RefuseForeignTemp(c)
  <2>1. Refused(c, calls[c].completed, ActiveOf(Op(c)))
    BY <1>3, <1>7, CopyIs, RefuseIs, Zenon DEF RefuseForeignTemp
  <2>2. QED BY <1>1, <1>2, <1>3, <1>4, <2>1, SameRefusalHolds
<1>8. CASE Leave(c) /\ UNCHANGED operation BY <1>1, <1>2, <1>3, <1>4, <1>8, SameLeaves
<1>9. ASSUME NEW pc \in {"create_temp", "clean", "rename"}, Use(pc), UNCHANGED operation,
             prior # None, prior.owned = (pc # "create_temp")
      PROVE  OpInv'
  <2> DEFINE r == [calls[c] EXCEPT !.temp = prior.temp, !.pc = pc]
  <2>1. calls[c] \in Call /\ calls \in [Calls -> Call] BY DEF ApplyInv
  <2>2. prior \in Intents /\ prior.step = StepIndex(c) /\ calls[c].intent = prior
    BY <1>9, <2>1 DEF Prior, Call
  <2>3. prior = Intent(StepIndex(c), prior.temp, pc # "create_temp") /\ prior.temp \in Nat
    BY <1>9, <2>2 DEF Intents, Intent
  <2> HIDE DEF prior
  <2>4. /\ r \in Call /\ r.pc = pc /\ r.op = calls[c].op /\ r.current = calls[c].current
        /\ r.completed = calls[c].completed /\ r.temp = prior.temp /\ r.intent = calls[c].intent
    BY <1>3, <2>1, <2>3, Zenon DEF Call
  <2>5. calls' = [calls EXCEPT ![c] = r] BY <1>9, <2>1, Zenon
  <2> HIDE DEF r
  <2>6. Becomes(c, r) BY <1>9, <2>1, <2>4, <2>5, AloneBecomes, Zenon
  <2>7. Proceeds(c) /\ calls'[c].pc = pc /\ calls'[c].temp = prior.temp
    BY <1>3, <1>9, <2>4, <2>6 DEF Becomes, Proceeds
  <2>8. ASSUME edits = 0, lapses' = {} PROVE Frontiers(c)' /\ TempsRecorded'
    <3>1. PlaceInv /\ LitterInv /\ Frontiers(c) BY <1>1, <2>8 DEF OpInv, LitterInv
    <3>2. TempsRecorded' BY <1>1, <1>3, <1>4, <1>9, <3>1, TempsKept
    <3>3. ActiveOf(Op(c)) = prior BY <1>1, <3>1 DEF Frontiers, prior
    <3>4. /\ Op(c)' = Op(c) /\ StepIndex(c)' = StepIndex(c)
          /\ calls'[c].intent = calls[c].intent
      BY <2>7 DEF Proceeds, Op, StepIndex
    <3>5. ActiveOf(Op(c)') = Intent(StepIndex(c)', calls'[c].temp, pc # "create_temp")
      BY <2>3, <2>7, <3>3, <3>4
    <3>6. pc # "create_temp" => (pc # "create_temp") = TRUE OBVIOUS
    <3>7. pc = "create_temp" => (pc # "create_temp") = FALSE OBVIOUS
    <3>8. calls'[c].intent # None => calls'[c].intent.step <= StepIndex(c)'
      BY <1>3, <3>1, <3>4 DEF Frontiers
    <3>9. CASE pc = "create_temp"
      <4>1. ActiveOf(Op(c)') = Intent(StepIndex(c)', calls'[c].temp, FALSE)
        BY <3>5, <3>7, <3>9, Zenon
      <4>2. QED BY <2>7, <3>2, <3>8, <3>9, <4>1, Zenon DEF Frontiers, ActiveOf
    <3>10. CASE pc \in {"clean", "rename"}
      <4>1. ActiveOf(Op(c)') = Intent(StepIndex(c)', calls'[c].temp, TRUE)
        BY <3>5, <3>6, <3>10, Zenon
      <4>2. QED BY <2>7, <3>2, <3>8, <3>10, <4>1, Zenon DEF Frontiers, ActiveOf
    <3>11. QED BY <3>9, <3>10
  <2>9. ASSUME edits = 0
        PROVE  \E n \in 0..Len(plan.steps) : \E m :
           /\ Onto(c, n, m)
           /\ tree' = IF calls'[c].pc = "chmod" THEN Bare(m) ELSE Applied(m)
           /\ calls'[c].pc \in Publishing \cup Altering => calls[c].completed = m
           /\ calls'[c].pc \in {"verify", "progress"} => calls[c].completed < m
           /\ calls'[c].pc \in {"final", "finish"} => calls[c].completed = Len(plan.steps)
    <3>1. PICK n \in 0..Len(plan.steps) :
            Reached(n) /\ tree = Applied(n) /\ calls[c].completed = n
      BY <1>3, <2>9, PublishingStands DEF OpInv
    <3>2. Onto(c, n, n) BY <3>1 DEF Onto
    <3>3. calls'[c].pc \notin {"chmod", "verify", "progress", "final", "finish"} BY <2>7
    <3>4. QED BY <1>1, <3>1, <3>2, <3>3
  <2>10. QED BY <1>1, <1>2, <1>3, <1>4, <2>7, <2>8, <2>9, ProceedsHolds
<1>10. QED
  <2>1. CASE prior = None BY <1>6, <2>1 DEF PrepareTemp
  <2>2. CASE prior # None /\ ForeignAt(prior) BY <1>7, <2>2 DEF PrepareTemp
  <2>3. CASE prior # None /\ ~ForeignAt(prior) /\ ~HasTemp(prior.temp)
    <3>1. /\ UNCHANGED operation
          /\ IF prior.owned THEN Goto(c, "fresh") ELSE Use("create_temp")
      BY <2>3 DEF PrepareTemp
    <3>2. CASE prior.owned BY <1>6, <2>3, <3>1, <3>2
    <3>3. CASE ~prior.owned
      <4>1. prior.owned \in BOOLEAN BY <2>3 DEF Prior, ApplyInv, Call, Intents
      <4>2. prior.owned = ("create_temp" # "create_temp") BY <3>3, <4>1
      <4>3. QED BY <1>9, <2>3, <3>1, <3>3, <4>2
    <3>4. QED BY <3>2, <3>3
  <2>4. CASE prior # None /\ ~ForeignAt(prior) /\ HasTemp(prior.temp)
    <3>1. prior.owned \in BOOLEAN BY <2>4 DEF Prior, ApplyInv, Call, Intents
    <3>2. prior.owned = TRUE BY <2>4, <3>1 DEF ForeignAt
    <3>3. UNCHANGED operation /\ (Leave(c) \/ Use("clean") \/ Use("rename")) BY <2>4 DEF PrepareTemp
    <3>4. ("clean" # "create_temp") = TRUE /\ ("rename" # "create_temp") = TRUE OBVIOUS
    <3>5. QED BY <1>8, <1>9, <2>4, <3>2, <3>3, <3>4, Zenon
  <2>5. QED BY <2>1, <2>2, <2>3, <2>4

LEMMA CleanTempHolds ==
  ASSUME ApplyInv, OpInv, NEW c \in Calls, CleanTemp(c)
  PROVE  OpInv'
<1>1. /\ calls[c].pc = "clean" /\ UnchangedPackage /\ review' = review /\ edits' = edits
      /\ lapses' = lapses /\ temps' = WithoutTemp(calls[c].temp) /\ tree' = tree /\ plan' = plan
      /\ Goto(c, "fresh") /\ operation' = operation
  BY DEF CleanTemp, At, UnchangedPackage, UnchangedView
<1>2. ApplyInv' /\ Onward BY CleanTempKeeps
<1>3. /\ calls[c].pc \in Started \ {"identity", "chmod"} /\ calls[c].pc \in Publishing \ {"identity"}
      /\ calls[c].pc \in ExclusiveSteps
      /\ "fresh" \in Started \ {"chmod"} /\ "fresh" \in Pcs
  BY <1>1 DEF Started, ExclusiveSteps, Publishing, Pcs
<1>4. StepOf(c).kind \in Publications /\ WriterTemps' = WriterTemps \ {calls[c].temp}
  BY <1>1, <1>3, DroppedTemps DEF OpInv, BaseInv, Positioned
<1>5. ASSUME edits = 0, NEW n \in 0..Len(plan.steps), Reached(n) PROVE  calls[c].completed = n
  <2>1. Standing(c, n) BY <1>5 DEF Reached
  <2>2. QED BY <1>3, <2>1 DEF Standing
<1>6. Moved(c, "fresh") BY <1>1, <1>3, GotoMoves
<1>7. ASSUME edits = 0, lapses = {} PROVE Fits(c, "fresh")
  <2>1. PlaceInv /\ LitterInv BY <1>7 DEF OpInv
  <2>2. SUFFICES ASSUME calls[c].current, NEW t \in WriterTemps, t # calls[c].temp PROVE FALSE
    BY <1>4 DEF Fits
  <2>3. ActiveOf(Op(c)) = Intent(StepIndex(c), t, TRUE) BY <1>3, <1>7, <2>1, <2>2, CopyNames, Zenon
  <2>4. ActiveOf(Op(c)) = Intent(StepIndex(c), calls[c].temp, TRUE)
    BY <1>1, <2>1, Zenon DEF LitterInv, Frontiers
  <2>5. QED BY <2>2, <2>3, <2>4 DEF Intent
<1>8. QED BY <1>1, <1>2, <1>3, <1>4, <1>5, <1>6, <1>7, SameMovedHolds

LEMMA WriteTempHolds ==
  ASSUME ApplyInv, OpInv, NEW c \in Calls, WriteTemp(c)
  PROVE  OpInv'
<1>1. /\ calls[c].pc = "write" /\ UnchangedPackage /\ review' = review /\ edits' = edits
      /\ lapses' = lapses /\ tree' = tree /\ plan' = plan
      /\ Goto(c, "rename") /\ operation' = operation
      /\ temps' = [temps EXCEPT ![calls[c].temp] = OwnTemp(TRUE, StepOf(c).after.mode)]
  BY DEF WriteTemp, At, UnchangedPackage, UnchangedView
<1>2. ApplyInv' /\ Onward BY WriteTempKeeps
<1>3. /\ calls[c].pc \in Started \ {"identity", "chmod"} /\ calls[c].pc \in Publishing \ {"identity"}
      /\ calls[c].pc \in InStep /\ calls[c].pc \in Holding
      /\ "rename" \in Started \ {"chmod"} /\ "rename" \in Pcs
  BY <1>1 DEF Started, ExclusiveSteps, Publishing, Pcs, InStep, Holding
<1>4. StepOf(c).kind \in Publications /\ WriterTemps' = WriterTemps
  <2>1. calls[c].temp \in DOMAIN temps /\ temps[calls[c].temp].owner = "writer" BY <1>3, HoldingIs
  <2>2. /\ DOMAIN temps' = DOMAIN temps
        /\ \A t \in DOMAIN temps : temps'[t].owner = temps[t].owner
    BY <1>1, <2>1 DEF OwnTemp
  <2>3. WriterTemps' = WriterTemps BY <2>2 DEF WriterTemps
  <2>4. QED BY <1>3, <2>3 DEF OpInv, BaseInv, Positioned
<1>5. ASSUME edits = 0, NEW n \in 0..Len(plan.steps), Reached(n) PROVE  calls[c].completed = n
  <2>1. Standing(c, n) BY <1>5 DEF Reached
  <2>2. QED BY <1>3, <2>1 DEF Standing
<1>6. Moved(c, "rename") BY <1>1, <1>3, GotoMoves
<1>7. Fits(c, "rename") BY <1>1 DEF Fits
<1>8. QED BY <1>1, <1>2, <1>3, <1>4, <1>5, <1>6, <1>7, SameMovedHolds

LEMMA CreateTempHolds ==
  ASSUME ApplyInv, OpInv, NEW c \in Calls, CreateTemp(c)
  PROVE  OpInv'
<1>1. /\ calls[c].pc = "create_temp" /\ UnchangedPackage /\ review' = review /\ edits' = edits
      /\ lapses' = lapses /\ tree' = tree /\ plan' = plan
  BY DEF CreateTemp, At, UnchangedPackage
<1>2. ApplyInv' /\ Onward BY CreateTempKeeps
<1>3. /\ calls[c].pc \in Started \ {"identity", "chmod"} /\ calls[c].pc \in Publishing
      /\ calls[c].pc \in ExclusiveSteps
      /\ "identity" \in Started \cap Pcs \cap Publishing
  BY <1>1 DEF Started, ExclusiveSteps, Publishing, Pcs
<1>4. StepOf(c).kind \in Publications /\ IsTree(tree)' BY <1>1, <1>3 DEF OpInv, BaseInv, Positioned
<1>5. CASE RefuseForeignTemp(c) /\ UNCHANGED temps
  <2>1. Refused(c, calls[c].completed, ActiveOf(Op(c)))
    BY <1>3, <1>5, CopyIs, RefuseIs, Zenon DEF RefuseForeignTemp
  <2>2. WriterTemps' = WriterTemps BY <1>5 DEF WriterTemps
  <2>3. QED BY <1>1, <1>2, <1>3, <2>1, <2>2, SameRefusalHolds
<1>6. CASE /\ temps' = [n \in DOMAIN temps \cup {calls[c].temp} |->
                          IF n = calls[c].temp THEN OwnTemp(~IsFile(c), TempMode) ELSE temps[n]]
           /\ Goto(c, "identity") /\ UNCHANGED operation
  <2>1. Moved(c, "identity") BY <1>3, <1>6, GotoMoves
  <2>2. WriterTemps' \subseteq WriterTemps \cup {calls[c].temp} BY <1>6 DEF WriterTemps
  <2>3. /\ calls'[c].pc = "identity" /\ calls'[c].temp = calls[c].temp
        /\ operation' = operation
    BY <2>1, MovedIs
  <2>4. ASSUME edits = 0, lapses = {} PROVE Fits(c, "identity") /\ TempsRecorded'
    <3>1. PlaceInv /\ LitterInv BY <2>4 DEF OpInv
    <3>2. Fits(c, "identity") BY <1>1 DEF Fits
    <3>3. ASSUME operation # None, operation.status # "conflict", NEW t \in WriterTemps,
                 t # calls[c].temp
          PROVE  NamesTemp(operation, t) /\ tree = Applied(Durable(operation))
      BY <1>1, <1>3, <3>1, <3>3, TempIsActive DEF At
    <3>4. \A d : At(d, "identity")' <=> calls'[d].pc = "identity" BY DEF At
    <3>5. Durable(operation') = Durable(operation) BY <2>3
    <3>6. After(review'.operator, plan'.steps, Durable(operation')) = Applied(Durable(operation))
      BY <1>1, <2>3 DEF Applied
    <3>7. QED
      BY <1>1, <2>2, <2>3, <3>2, <3>3, <3>4, <3>6, Zenon DEF TempsRecorded, NamesTemp, Applied, Durable, ActiveOf
  <2>5. ASSUME edits = 0
        PROVE  \E n \in 0..Len(plan.steps) : \E m :
           /\ Onto(c, n, m)
           /\ tree' = IF "identity" = "chmod" THEN Bare(m) ELSE Applied(m)
           /\ "identity" \in Publishing \cup Altering => calls[c].completed = m
           /\ "identity" \in {"verify", "progress"} => calls[c].completed < m
           /\ "identity" \in {"final", "finish"} => calls[c].completed = Len(plan.steps)
    <3>1. PICK n \in 0..Len(plan.steps) :
            Reached(n) /\ tree = Applied(n) /\ calls[c].completed = n
      BY <1>3, <2>5, PublishingStands DEF OpInv
    <3>2. Onto(c, n, n) BY <3>1 DEF Onto
    <3>3. QED BY <1>1, <3>1, <3>2
  <2>6. QED BY <1>1, <1>2, <1>3, <1>4, <2>1, <2>4, <2>5, MovedHolds
<1>7. CASE Leave(c) /\ UNCHANGED <<operation, temps>>
  <2>1. WriterTemps' = WriterTemps BY <1>7 DEF WriterTemps
  <2>2. QED BY <1>1, <1>2, <1>3, <1>7, <2>1, SameLeaves
<1>8. QED BY <1>5, <1>6, <1>7 DEF CreateTemp

\* The temp a publication renames or drops was the last of the writer's.
LEMMA PublishedTemps ==
  ASSUME ApplyInv, OpInv, NEW c \in Calls, calls[c].pc \in {"rename", "replace"},
         calls[c].temp \in WriterTemps, Cleaned(c),
         edits = 0, lapses = {}, operation.status # "conflict"
  PROVE  WriterTemps' = {}
<1>1. /\ calls[c].pc \in Started /\ calls[c].pc \in ExclusiveSteps
      /\ ~At(c, "identity")
  BY DEF Started, ExclusiveSteps, At
<1>2. PlaceInv /\ LitterInv BY DEF OpInv
<1>3. operation # None BY <1>1, <1>2, WriterKnows
<1>4. \A t \in WriterTemps : NamesTemp(operation, t) BY <1>1, <1>2, <1>3, TempIsActive
<1>5. \A t \in WriterTemps : t = calls[c].temp BY <1>4 DEF NamesTemp, Intent
<1>6. WriterTemps' = WriterTemps \ {calls[c].temp} BY DroppedTemps DEF Cleaned
<1>7. QED BY <1>5, <1>6

LEMMA PublishNewHolds ==
  ASSUME ApplyInv, OpInv, NEW c \in Calls, PublishNew(c)
  PROVE  OpInv'
<1>1. /\ calls[c].pc = "rename" /\ UnchangedPackage /\ review' = review /\ edits' = edits
      /\ lapses' = lapses
  BY DEF PublishNew, At, UnchangedView
<1>2. ApplyInv' /\ Onward BY PublishNewKeeps
<1>3. /\ calls[c].pc \in Started \ {"identity", "chmod"} /\ calls[c].pc \in ExclusiveSteps
      /\ calls[c].pc \in (Publishing \cup Altering) \ {"identity", "chmod"}
      /\ calls[c].completed < Len(plan.steps) /\ PathOf(c) \in Paths
      /\ StepOf(c) \in RawSteps(review) /\ review \in Reviews
      /\ IsTree(tree) /\ tree = [q \in Paths |-> tree[q]] /\ "verify" \in Pcs
      /\ calls[c].temp \in WriterTemps /\ StepOf(c).kind \in Publications
  <2>1. /\ calls[c].pc \in Altering \cup {"rename"} /\ calls[c].pc \in Publishing
        /\ calls[c].pc \in Holding /\ calls[c].pc \in InStep
    BY <1>1 DEF Altering, Publishing, Holding, InStep, Started, ExclusiveSteps
  <2>2. calls[c].temp \in WriterTemps /\ StepOf(c).kind \in Publications
    BY <2>1, HoldingIs DEF WriterTemps
  <2>3. QED BY <1>1, <2>1, <2>2, ChangeIs
<1>4. ~IsDirectory(StepOf(c).before) /\ StepOf(c).after # Absent BY <1>3, KindIs
<1>5. edits = 0 => tree[PathOf(c)] = StepOf(c).before BY <1>3, PlaceFound DEF OpInv
<1>6. StepOf(c).before = Absent BY DEF PublishNew
<1>7. Cleaned(c) => WriterTemps' \subseteq WriterTemps BY DroppedTemps DEF Cleaned
<1>8. CASE Leave(c) /\ Cleaned(c) /\ UNCHANGED <<tree, operation>>
  BY <1>1, <1>2, <1>3, <1>7, <1>8, SameLeaves
<1>9. CASE Refuse(c) /\ Cleaned(c) /\ UNCHANGED tree BY <1>1, <1>2, <1>3, <1>7, <1>9, SameRefuses
<1>10. CASE /\ ~Gone(c) /\ tree[PathOf(c)] = Absent /\ SetPath(c, StepOf(c).after)
            /\ Cleaned(c) /\ Goto(c, "verify") /\ UNCHANGED operation
  <2>1. Moved(c, "verify") BY <1>3, <1>10, GotoMoves
  <2>2. IsTree(tree)' BY <1>3, <1>4, <1>6, <1>10, PutIsTree DEF Gone
  <2>3. edits = 0 /\ lapses = {} /\ operation.status # "conflict" => WriterTemps' = {}
    BY <1>1, <1>3, <1>10, PublishedTemps
  <2>4. QED BY <1>1, <1>2, <1>3, <1>10, <2>1, <2>2, <2>3, TakenHolds
<1>11. CASE /\ tree[PathOf(c)] = StepOf(c).after
            /\ Goto(c, "verify") /\ UNCHANGED <<tree, temps, operation>>
  <2>1. Moved(c, "verify") BY <1>3, <1>11, GotoMoves
  <2>2. edits # 0 BY <1>4, <1>5, <1>6, <1>11
  <2>3. QED BY <1>1, <1>2, <1>3, <1>11, <2>1, <2>2, TakenHolds
<1>12. QED BY <1>8, <1>9, <1>10, <1>11 DEF PublishNew

LEMMA CheckReplacedHolds ==
  ASSUME ApplyInv, OpInv, NEW c \in Calls, CheckReplaced(c)
  PROVE  OpInv'
<1>1. /\ calls[c].pc = "rename" /\ UnchangedPackage /\ review' = review /\ edits' = edits
      /\ lapses' = lapses
  BY DEF CheckReplaced, At, UnchangedView
<1>2. ApplyInv' /\ Onward BY CheckReplacedKeeps
<1>3. /\ calls[c].pc \in Started \ {"identity", "chmod"} /\ calls[c].pc \in ExclusiveSteps
      /\ calls[c].pc \in (Publishing \cup Altering) \ {"identity", "chmod"}
      /\ calls[c].completed < Len(plan.steps) /\ PathOf(c) \in Paths
      /\ StepOf(c) \in RawSteps(review) /\ review \in Reviews
      /\ IsTree(tree) /\ tree = [q \in Paths |-> tree[q]] /\ "verify" \in Pcs
      /\ calls[c].temp \in WriterTemps /\ StepOf(c).kind \in Publications
  <2>1. /\ calls[c].pc \in Altering \cup {"rename"} /\ calls[c].pc \in Publishing
        /\ calls[c].pc \in Holding /\ calls[c].pc \in InStep
    BY <1>1 DEF Altering, Publishing, Holding, InStep, Started, ExclusiveSteps
  <2>2. calls[c].temp \in WriterTemps /\ StepOf(c).kind \in Publications
    BY <2>1, HoldingIs DEF WriterTemps
  <2>3. QED BY <1>1, <2>1, <2>2, ChangeIs
<1>4. "replace" \in Started \ {"chmod"} /\ "replace" \in Pcs BY DEF Started, ExclusiveSteps, Pcs
<1>5. tree' = tree BY DEF CheckReplaced
<1>6. CASE Refuse(c) /\ Cleaned(c)
  <2>1. WriterTemps' \subseteq WriterTemps BY <1>6, DroppedTemps DEF Cleaned
  <2>2. QED BY <1>1, <1>2, <1>3, <1>5, <1>6, <2>1, SameRefuses
<1>7. CASE Goto(c, "replace") /\ UNCHANGED <<operation, temps>>
  <2>1. Moved(c, "replace") /\ Fits(c, "replace") /\ WriterTemps' = WriterTemps
    BY <1>1, <1>4, <1>7, GotoMoves DEF Fits, WriterTemps
  <2>2. ASSUME NEW n \in 0..Len(plan.steps), Reached(n) PROVE calls[c].completed = n
    BY <1>3, <2>2 DEF Reached, Standing
  <2>3. QED BY <1>1, <1>2, <1>3, <1>4, <1>5, <2>1, <2>2, SameMovedHolds
<1>8. QED BY <1>6, <1>7 DEF CheckReplaced

LEMMA PublishReplacementHolds ==
  ASSUME ApplyInv, OpInv, NEW c \in Calls, PublishReplacement(c)
  PROVE  OpInv'
<1>1. /\ calls[c].pc = "replace" /\ UnchangedPackage /\ review' = review /\ edits' = edits
      /\ lapses' = lapses
  BY DEF PublishReplacement, At, UnchangedView
<1>2. ApplyInv' /\ Onward BY PublishReplacementKeeps
<1>3. /\ calls[c].pc \in Started \ {"identity", "chmod"} /\ calls[c].pc \in ExclusiveSteps
      /\ calls[c].pc \in (Publishing \cup Altering) \ {"identity", "chmod"}
      /\ calls[c].completed < Len(plan.steps) /\ PathOf(c) \in Paths
      /\ StepOf(c) \in RawSteps(review) /\ review \in Reviews
      /\ IsTree(tree) /\ tree = [q \in Paths |-> tree[q]] /\ "verify" \in Pcs
      /\ calls[c].temp \in WriterTemps /\ StepOf(c).kind \in Publications
  <2>1. /\ calls[c].pc \in Altering \cup {"rename"} /\ calls[c].pc \in Publishing
        /\ calls[c].pc \in Holding /\ calls[c].pc \in InStep
    BY <1>1 DEF Altering, Publishing, Holding, InStep, Started, ExclusiveSteps
  <2>2. calls[c].temp \in WriterTemps /\ StepOf(c).kind \in Publications
    BY <2>1, HoldingIs DEF WriterTemps
  <2>3. QED BY <1>1, <2>1, <2>2, ChangeIs
<1>4. /\ Cleaned(c) /\ WriterTemps' \subseteq WriterTemps /\ operation' = operation
  BY DroppedTemps DEF PublishReplacement, Cleaned
<1>5. CASE Leave(c) /\ UNCHANGED tree BY <1>1, <1>2, <1>3, <1>4, <1>5, SameLeaves
<1>6. CASE /\ ~Gone(c) /\ ~IsDirectory(tree[PathOf(c)])
           /\ SetPath(c, StepOf(c).after) /\ Goto(c, "verify")
  <2>1. Moved(c, "verify") BY <1>3, <1>4, <1>6, GotoMoves
  <2>2. IsTree(tree)' BY <1>3, <1>6, PutIsTree DEF Gone
  <2>3. edits = 0 /\ lapses = {} /\ operation.status # "conflict" => WriterTemps' = {}
    BY <1>1, <1>3, <1>4, PublishedTemps
  <2>4. QED BY <1>1, <1>2, <1>3, <1>6, <2>1, <2>2, <2>3, TakenHolds
<1>7. QED BY <1>5, <1>6 DEF PublishReplacement

\* A writer that has done its step looks at it.
LEMMA VerifyHolds ==
  ASSUME ApplyInv, OpInv, NEW c \in Calls, Verify(c)
  PROVE  OpInv'
<1>1. /\ calls[c].pc = "verify" /\ UnchangedPackage /\ review' = review /\ edits' = edits
      /\ lapses' = lapses /\ tree' = tree
  BY DEF Verify, At, UnchangedView
<1>2. ApplyInv' /\ Onward BY VerifyKeeps
<1>3. /\ calls[c].pc \in Started \ {"identity", "chmod"}
      /\ "progress" \in Started \ {"chmod"} /\ "progress" \in Pcs
      /\ "progress" \notin Publishing \cup Altering
  BY <1>1 DEF Started, ExclusiveSteps, Publishing, Altering, Pcs
<1>4. Cleaned(c) \/ temps' = temps => WriterTemps' \subseteq WriterTemps
  BY DroppedTemps DEF Cleaned, WriterTemps
<1>5. CASE Refuse(c) /\ (Cleaned(c) \/ temps' = temps) BY <1>1, <1>2, <1>3, <1>4, <1>5, SameRefuses
<1>6. CASE Goto(c, "progress") /\ UNCHANGED <<operation, temps>>
  <2>1. Moved(c, "progress") BY <1>3, <1>6, GotoMoves
  <2>2. WriterTemps' = WriterTemps BY <1>6 DEF WriterTemps
  <2>3. edits = 0 /\ lapses = {} => Fits(c, "progress")
    BY <1>1, <2>2 DEF OpInv, LitterInv, Frontiers, Fits
  <2>4. ASSUME NEW n \in 0..Len(plan.steps), Reached(n) PROVE calls[c].completed < n
    BY <1>1, <2>4 DEF Reached, Standing
  <2>5. QED BY <1>1, <1>2, <1>3, <2>1, <2>2, <2>3, <2>4, SameMovedHolds
<1>7. QED BY <1>5, <1>6 DEF Verify

-----------------------------------------------------------------------------
(* What a writer commits. *)

LEMMA ExecutedWhole ==
  ASSUME ApplyInv, PackageInv, operation # None, operation.execution # None
  PROVE  PackageWhole(operation)
<1>1. ValidOperation(operation) /\ operation.plan = plan BY StoredIs
<1>2. operation.status \in Running BY <1>1 DEF ValidOperation, ValidExecution
<1>3. DocHolds(operation, plan, sealed) BY DEF PackageInv, DocBacked
<1>4. QED BY <1>1, <1>2, <1>3 DEF DocHolds, PackageWhole

\* A writer that goes on with its copy or with the journal, the project as it is.
LEMMA GoesOnHolds ==
  ASSUME ApplyInv, ApplyInv', OpInv, Onward, NEW c \in Calls, calls[c].pc \in ExclusiveSteps,
         OthersSame(c), UnchangedPackage, review' = review, tree' = tree, edits' = edits,
         lapses \subseteq lapses',
         \/ operation' = operation
         \/ operation' # None /\ operation'.plan = plan /\ operation'.sealed = Op(c).sealed,
         \/ Op(c)' = Op(c)
         \/ Op(c)' = operation' /\ operation' # None /\ operation'.execution # None,
         calls'[c].pc \in (Started \ {"chmod"}) \cup {"done"},
         calls'[c].pc \in Publishing => StepOf(c)'.kind \in Publications,
         edits = 0 =>
           /\ Executing'
           /\ \E n \in 0..Len(plan.steps) :
                Reached(n) /\ tree = Applied(n) /\ Recorded(n)' /\ Standing(c, n)',
         edits = 0 /\ lapses' = {} =>
           /\ operation' = operation \/ ActivePublishes(operation')
           /\ StatusFits(c)' /\ Frontiers(c)' /\ TempsRecorded'
  PROVE  OpInv'
<1>1. plan' = plan /\ sealed' = sealed /\ Op(c)' \in {None, Op(c), operation'}
      /\ calls'[c].pc # "chmod" /\ calls'[c].pc # "idle"
  BY DEF UnchangedPackage, Started, ExclusiveSteps
<1>2. BaseInv'
  <2>1. operation' = operation \/ DocBacked(operation)' BY <1>1, WriterDoc DEF OpInv, DocBacked
  <2>2. PackageWhole(Op(c)')
    <3>1. CASE Op(c)' = Op(c)
      <4>1. PackageWhole(Op(c)) BY DEF OpInv, BaseInv, PackageInv, Packing
      <4>2. QED BY <3>1, <4>1
    <3>2. CASE /\ Op(c)' = operation' /\ operation' # None /\ operation'.execution # None
               /\ operation' = operation
      <4>1. operation # None /\ operation.execution # None BY <3>2
      <4>2. PackageInv BY DEF OpInv, BaseInv
      <4>3. PackageWhole(operation) BY <4>1, <4>2, ExecutedWhole
      <4>4. QED BY <3>2, <4>3
    <3>3. CASE Op(c)' = operation' /\ operation' # operation BY <3>3, WriterDoc DEF OpInv
    <3>4. QED BY <3>1, <3>2, <3>3
  <2>3. IsTree(tree)' BY DEF OpInv, BaseInv
  <2>4. calls'[c].pc \in Started \cup {"idle", "done"} OBVIOUS
  <2>5. QED BY <1>1, <2>1, <2>2, <2>3, <2>4, WriterBase DEF OpInv
<1>3. (edits = 0 => PlaceInv)'
  <2> SUFFICES ASSUME edits = 0 PROVE PlaceInv' OBVIOUS
  <2>1. PlaceInv /\ Executing' BY DEF OpInv
  <2>2. PICK n \in 0..Len(plan.steps) :
          Reached(n) /\ tree = Applied(n) /\ Recorded(n)' /\ Standing(c, n)'
    OBVIOUS
  <2>3. n <= n OBVIOUS
  <2>4. tree' = IF calls'[c].pc = "chmod" THEN Bare(n) ELSE Applied(n) BY <1>1, <2>2
  <2>5. QED BY <1>1, <2>1, <2>2, <2>3, <2>4, PlaceFrom
<1>4. (edits = 0 /\ lapses = {} => LitterInv)'
  <2> SUFFICES ASSUME edits = 0, lapses' = {} PROVE LitterInv' OBVIOUS
  <2>1. LitterInv BY DEF OpInv
  <2>2. QED BY <1>1, <2>1, LitterFrom
<1>5. QED BY <1>2, <1>3, <1>4 DEF OpInv

\* The writer's copy with other progress.
LEMMA CandidateIs ==
  ASSUME ApplyInv, NEW c \in Calls, calls[c].pc \in ExclusiveSteps, NEW e \in Executions
  PROVE  LET next == [Op(c) EXCEPT !.execution = e] IN
         /\ next \in Operations /\ next # None /\ next.plan = plan
         /\ next.sealed = Op(c).sealed /\ next.status = Op(c).status
         /\ next.execution = e /\ next.execution # None
         /\ Durable(next) = e.completed /\ ActiveOf(next) = e.active
<1> DEFINE next == [Op(c) EXCEPT !.execution = e]
<1>1. Op(c) \in Operations /\ Op(c).plan = plan /\ e # None BY CopyIs, NoneAssumption
<1>2. /\ next \in Operations /\ next.plan = plan /\ next.execution = e
      /\ next.sealed = Op(c).sealed /\ next.status = Op(c).status
  BY <1>1 DEF Operations
<1> HIDE DEF next
<1>3. next # None BY <1>2, NoneAssumption
<1>4. Durable(next) = e.completed /\ ActiveOf(next) = e.active BY <1>1, <1>2 DEF Durable, ActiveOf
<1>5. QED BY <1>1, <1>2, <1>3, <1>4 DEF next

LEMMA FrontierSays ==
  ASSUME ApplyInv, NEW c \in Calls, calls[c].pc \in InStep, NEW owned \in BOOLEAN,
         NEW name \in Nat
  PROVE  LET next == Frontier(c, owned, name) IN
         /\ next \in Operations /\ next # None /\ next.plan = plan
         /\ next.sealed = Op(c).sealed /\ next.execution # None
         /\ Durable(next) = calls[c].completed
         /\ ActiveOf(next) = Intent(StepIndex(c), name, owned)
         /\ Intent(StepIndex(c), name, owned) \in Intents
         /\ ValidOperation(next) => next.status \in {"applying", "recovery_required"}
<1> DEFINE active == Intent(StepIndex(c), name, owned)
           e == Execution(calls[c].completed, active)
           next == [Op(c) EXCEPT !.execution = e]
<1>1. calls[c].completed \in Nat /\ calls[c].pc \in ExclusiveSteps BY HoldingIs
<1>2. active \in Intents BY <1>1 DEF Intent, Intents, StepIndex
<1>3. e \in Executions /\ e.completed = calls[c].completed /\ e.active = active /\ active # None
  BY <1>1, <1>2, NoneAssumption DEF Execution, Executions
<1>4. next = Frontier(c, owned, name) BY DEF Frontier
<1> HIDE DEF e, active
<1>5. /\ next \in Operations /\ next # None /\ next.plan = plan
      /\ next.sealed = Op(c).sealed /\ next.execution = e /\ next.execution # None
      /\ Durable(next) = e.completed /\ ActiveOf(next) = e.active
  BY <1>1, <1>3, CandidateIs
<1> HIDE DEF next
<1>6. ValidOperation(next) => next.status \in {"applying", "recovery_required"}
  BY <1>3, <1>5 DEF ValidOperation, ValidExecution
<1>7. QED BY <1>2, <1>3, <1>4, <1>5, <1>6 DEF active

\* A writer that has committed its frontier: the name of its temp, or that it is its own.
LEMMA FrontierHolds ==
  ASSUME ApplyInv, ApplyInv', OpInv, Onward, NEW c \in Calls,
         calls[c].pc \in {"fresh", "identity"}, NEW owned \in BOOLEAN, NEW name \in Nat,
         operation' = Frontier(c, owned, name), ValidOperation(operation'),
         OthersSame(c), Op(c)' = operation', calls'[c].completed = calls[c].completed,
         calls'[c].intent = calls[c].intent, calls'[c].temp = name,
         \/ owned /\ calls'[c].pc \in {"write", "rename"}
         \/ ~owned /\ calls'[c].pc = "create_temp",
         UnchangedPackage, review' = review, tree' = tree, edits' = edits, lapses' = lapses,
         edits = 0 /\ lapses = {} => \A t \in WriterTemps' : owned /\ t = name
  PROVE  OpInv'
<1>1. /\ calls[c].pc \in Started /\ calls[c].pc \in ExclusiveSteps /\ calls[c].pc \in InStep
      /\ calls[c].pc \in Publishing /\ calls'[c].pc \in Started \ {"chmod"}
      /\ calls'[c].pc \in Publishing /\ plan' = plan
  BY DEF Started, ExclusiveSteps, Publishing, InStep, UnchangedPackage
<1>2. /\ calls[c].completed \in Nat /\ calls[c].completed < Len(plan.steps)
      /\ Len(plan.steps) \in Nat /\ StepOf(c).kind \in Publications
      /\ StepIndex(c) \in DOMAIN plan.steps
  BY <1>1, HoldingIs, StepIs DEF OpInv, BaseInv, Positioned
<1>3. /\ operation' # None /\ operation'.plan = plan
      /\ operation'.sealed = Op(c).sealed /\ operation'.execution # None
      /\ Durable(operation') = calls[c].completed
      /\ ActiveOf(operation') = Intent(StepIndex(c), name, owned)
      /\ Intent(StepIndex(c), name, owned) \in Intents
      /\ operation'.status \in {"applying", "recovery_required"}
  BY <1>1, FrontierSays
<1>4. StepOf(c)' = StepOf(c) /\ StepIndex(c)' = StepIndex(c) BY <1>1 DEF StepOf, StepIndex
<1>5. calls'[c].pc \notin {"chmod", "verify", "progress", "final", "finish", "fresh", "step", "temp", "clean",
                           "identity", "walk", "lock_exclusive"} \cup SharedSteps
  BY DEF SharedSteps
<1>6. ASSUME edits = 0
      PROVE  /\ Executing'
             /\ \E n \in 0..Len(plan.steps) :
                  /\ Reached(n) /\ tree = Applied(n) /\ calls[c].completed = n
                  /\ Recorded(n)' /\ Standing(c, n)'
  <2>1. PICK n \in 0..Len(plan.steps) :
          Reached(n) /\ tree = Applied(n) /\ calls[c].completed = n
    BY <1>1, <1>6, PublishingStands DEF OpInv
  <2>2. DurableIn(operation') = n /\ DurableIn(Op(c)') = n BY <1>3, <2>1 DEF DurableIn
  <2>3. Recorded(n)' BY <1>2, <1>3, <2>1, <2>2 DEF Recorded
  <2>4. Standing(c, n)' BY <1>1, <1>2, <1>5, <2>1, <2>2 DEF Standing
  <2>5. QED BY <1>3, <2>1, <2>3, <2>4 DEF Executing
<1>7. ASSUME edits = 0, lapses = {}
      PROVE  ActivePublishes(operation') /\ StatusFits(c)' /\ Frontiers(c)' /\ TempsRecorded'
  <2>1. Frontiers(c) BY <1>7 DEF OpInv, LitterInv
  <2>2. ActivePublishes(operation') BY <1>2, <1>3 DEF ActivePublishes, Intent, StepOf
  <2>3. StatusFits(c)' BY <1>1, <1>3, <1>5 DEF StatusFits
  <2>4. ActiveOf(operation') = Intent(StepIndex(c)', calls'[c].temp, owned) BY <1>3, <1>4
  <2>5. calls'[c].intent # None => calls'[c].intent.step <= StepIndex(c)'
    BY <1>1, <1>4, <2>1 DEF Frontiers
  <2>6. Frontiers(c)'
    <3>1. CASE owned /\ calls'[c].pc \in {"write", "rename"}
      <4>1. ActiveOf(Op(c)') = Intent(StepIndex(c)', calls'[c].temp, TRUE) BY <2>4, <3>1
      <4>2. QED BY <1>5, <2>5, <3>1, <4>1, Zenon DEF Frontiers, ActiveOf
    <3>2. CASE ~owned /\ calls'[c].pc = "create_temp"
      <4>1. ActiveOf(Op(c)') = Intent(StepIndex(c)', calls'[c].temp, FALSE)
        <5>1. owned = FALSE BY <3>2
        <5>2. QED BY <2>4, <5>1, Zenon
      <4>2. QED BY <1>5, <2>5, <3>2, <4>1, Zenon DEF Frontiers, ActiveOf
    <3>3. QED BY <3>1, <3>2
  <2>7. TempsRecorded'
    <3>1. PICK n \in 0..Len(plan.steps) : tree = Applied(n) /\ calls[c].completed = n BY <1>6, <1>7
    <3>2. tree' = After(review'.operator, plan'.steps, Durable(operation'))
      BY <1>1, <1>3, <3>1 DEF Applied
    <3>3. ASSUME NEW t \in WriterTemps' PROVE NamesTemp(operation', t)
      <4>1. t = name /\ owned = TRUE BY <1>7, <3>3
      <4>2. ActiveOf(operation') = Intent(Durable(operation') + 1, t, TRUE)
        BY <1>3, <4>1 DEF StepIndex
      <4>3. ActiveOf(operation') # None BY <1>3, NoneAssumption
      <4>4. QED BY <4>2, <4>3, Zenon DEF NamesTemp
    <3>4. QED BY <3>2, <3>3, Zenon DEF TempsRecorded, Applied, Durable, NamesTemp, ActiveOf
  <2>8. QED BY <2>2, <2>3, <2>6, <2>7
<1>8. QED BY <1>1, <1>2, <1>3, <1>4, <1>6, <1>7, GoesOnHolds

\* A temp of the writer's is not there while it still has to name one.
LEMMA CommitIntentHolds ==
  ASSUME ApplyInv, OpInv, NEW c \in Calls, CommitIntent(c)
  PROVE  OpInv'
<1> DEFINE name == FreshName(c)
           named == [calls EXCEPT ![c].temp = name]
           next == Frontier(c, FALSE, name)
           r == [calls[c] EXCEPT !.temp = name, !.op = next, !.pc = "create_temp"]
<1>1. /\ calls[c].pc = "fresh" /\ UnchangedPackage /\ review' = review /\ edits' = edits
      /\ lapses' = lapses /\ tree' = tree /\ temps' = temps
  BY DEF CommitIntent, At, UnchangedPackage, UnchangedProject
<1>2. ApplyInv' /\ Onward BY CommitIntentKeeps
<1>3. /\ calls[c].pc \in Started \ {"identity", "chmod"} /\ calls[c].pc \in Started
      /\ calls[c].pc \in InStep
  BY <1>1 DEF Started, ExclusiveSteps, InStep
<1>4. WriterTemps' = WriterTemps BY <1>1 DEF WriterTemps
<1>5. CASE Leave(c) /\ UNCHANGED operation BY <1>1, <1>2, <1>3, <1>4, <1>5, SameLeaves
<1>6. CASE /\ calls[c].current /\ ValidOperation(next) /\ operation' = next
           /\ calls' = [d \in Calls |->
                IF d = c THEN [named[c] EXCEPT !.op = next, !.pc = "create_temp"]
                ELSE [calls[d] EXCEPT !.current = FALSE]]
  <2>1. calls[c] \in Call /\ calls \in [Calls -> Call] BY <1>3, HoldingIs
  <2>2. /\ name \in Nat /\ next \in Operations
    <3>1. name \in Nat /\ FALSE \in BOOLEAN BY FreshNameIs
    <3> HIDE DEF name
    <3>2. QED BY <1>3, <3>1, FrontierSays, Zenon
  <2> HIDE DEF next, name
  <2>3. "create_temp" \in Pcs BY DEF ExclusiveSteps, Pcs
  <2>4. /\ r \in Call /\ r.pc = "create_temp" /\ r.op = next /\ r.temp = name
        /\ r.completed = calls[c].completed /\ r.intent = calls[c].intent
    BY <2>1, <2>2, <2>3, Zenon DEF Call
  <2>5. [named[c] EXCEPT !.op = next, !.pc = "create_temp"] = r BY <2>1
  <2>6. calls' = [d \in Calls |-> IF d = c THEN r ELSE [calls[d] EXCEPT !.current = FALSE]]
    BY <1>6, <2>5
  <2> HIDE DEF r, named
  <2>7. Becomes(c, r) BY <2>1, <2>4, <2>6, StoredBecomes
  <2>8. calls'[c] = r /\ OthersSame(c) BY <2>7 DEF Becomes
  <2>9. ASSUME edits = 0, lapses = {} PROVE WriterTemps' = {}
    BY <1>1, <1>4, <1>6, <2>9, Zenon DEF OpInv, LitterInv, Frontiers
  <2>10. operation' = Frontier(c, FALSE, name) /\ ValidOperation(operation') BY <1>6, Zenon DEF next
  <2>11. /\ Op(c)' = operation' /\ calls'[c].completed = calls[c].completed
         /\ calls'[c].intent = calls[c].intent /\ calls'[c].temp = name
         /\ calls'[c].pc = "create_temp"
    BY <1>6, <2>4, <2>8 DEF Op
  <2>12. calls[c].pc \in {"fresh", "identity"} /\ FALSE \in BOOLEAN BY <1>1
  <2>13. QED BY <1>1, <1>2, <2>2, <2>8, <2>9, <2>10, <2>11, <2>12, FrontierHolds, Zenon
<1>7. QED BY <1>5, <1>6, Zenon DEF CommitIntent

\* A temp whose identity was not made durable is cleaned, or has lapsed; one whose
\* identity was is the frontier's own.
LEMMA CommitIdentityHolds ==
  ASSUME ApplyInv, OpInv, NEW c \in Calls, CommitIdentity(c)
  PROVE  OpInv'
<1> DEFINE name == calls[c].temp
           next == Frontier(c, TRUE, name)
           pc == IF IsFile(c) THEN "write" ELSE "rename"
           Adopted(again) == again /\ AdvancedTo(c, TRUE, name, operation)
           Fails(again) == ~ValidOperation(next) \/ (~calls[c].current /\ ~Adopted(again))
<1>1. PICK again \in BOOLEAN :
        /\ Commit(c, next, Adopted(again), pc)
        /\ temps' = IF Fails(again) /\ IsFile(c) THEN WithoutTemp(name) ELSE temps
        /\ lapses' = lapses \cup {l \in {"unowned_temp"} : Fails(again) /\ ~IsFile(c)}
  BY Zenon DEF CommitIdentity
<1> DEFINE advance == Adopted(again)
           fails == Fails(again)
<1>2. /\ calls[c].pc = "identity" /\ UnchangedPackage /\ review' = review /\ edits' = edits
      /\ tree' = tree /\ plan' = plan /\ lapses \subseteq lapses'
  BY <1>1, Zenon DEF CommitIdentity, At, UnchangedPackage
<1>3. /\ Commit(c, next, advance, pc)
      /\ temps' = IF fails /\ IsFile(c) THEN WithoutTemp(name) ELSE temps
      /\ lapses' = lapses \cup {l \in {"unowned_temp"} : fails /\ ~IsFile(c)}
  BY <1>1, Zenon
<1>4. ApplyInv' /\ Onward BY CommitIdentityKeeps
<1>5. /\ calls[c].pc \in Started /\ calls[c].pc \in InStep /\ calls[c].pc \in Publishing
      /\ calls[c].pc \in ExclusiveSteps /\ pc \in Publishing /\ pc \in Started \ {"chmod"}
      /\ pc \in Pcs /\ pc \in {"write", "rename"}
  BY <1>2 DEF Started, InStep, Publishing, ExclusiveSteps, Pcs
<1>6. /\ calls[c].completed \in Nat /\ calls[c] \in Call /\ name \in Nat
      /\ StepOf(c).kind \in Publications /\ IsTree(tree)'
  BY <1>2, <1>5, HoldingIs DEF OpInv, BaseInv, Positioned, Call
<1>7. next \in Operations /\ advance \in BOOLEAN
  <2>1. TRUE \in BOOLEAN /\ advance \in BOOLEAN BY DEF AdvancedTo
  <2> HIDE DEF name, advance
  <2>2. QED BY <1>5, <1>6, <2>1, FrontierSays, Zenon
<1> HIDE DEF pc, Adopted, advance
<1>8. ASSUME operation # None, operation.status # "conflict", edits = 0, lapses = {},
             NEW t \in WriterTemps, t # name
      PROVE  NamesTemp(operation, t) /\ tree = Applied(Durable(operation))
  <2>1. LitterInv BY <1>8 DEF OpInv
  <2>2. ~(At(c, "identity") /\ calls[c].temp = t) BY <1>8
  <2>3. QED BY <1>5, <1>8, <2>1, <2>2, TempIsActive
<1>9. ASSUME edits = 0
      PROVE  \E n \in 0..Len(plan.steps) :
               Reached(n) /\ tree = Applied(n) /\ calls[c].completed = n
  BY <1>5, <1>9, PublishingStands DEF OpInv
<1>10. \/ /\ Left(c)
          /\ \/ ~ValidOperation(next)
             \/ ~calls[c].current /\ ~(operation # None /\ advance)
       \/ Stored(c, next, pc)
       \/ Taken(c, pc) /\ operation # None /\ advance /\ ~calls[c].current
  BY <1>3, <1>5, <1>7, CommitMoves, Zenon
<1>11. ~ValidOperation(next) => Left(c) BY <1>3, LeaveMoves DEF Commit
<1>12. advance => operation # None /\ AdvancedTo(c, TRUE, name, operation)
  BY DEF advance, Adopted, AdvancedTo
<1>13. fails <=> ~ValidOperation(next) \/ (~calls[c].current /\ ~advance) BY DEF advance
<1> HIDE DEF next, fails, name
<1>14. CASE Left(c) /\ fails
  <2>1. Refused(c, calls[c].completed, None) BY <1>14 DEF Refused
  <2>2. ASSUME edits = 0, lapses' = {} PROVE TempsRecorded'
    <3>1. IsFile(c) /\ lapses = {} BY <1>3, <1>14, <2>2
    <3>2. WriterTemps' = WriterTemps \ {name} BY <1>3, <1>14, <3>1, DroppedTemps
    <3>3. operation' = operation BY <1>14 DEF Left
    <3>4. After(review'.operator, plan'.steps, Durable(operation')) = Applied(Durable(operation))
      BY <1>2, <3>3 DEF Applied
    <3>5. QED
      BY <1>2, <1>8, <2>2, <3>1, <3>2, <3>3, <3>4, Zenon
         DEF TempsRecorded, NamesTemp, Applied, Durable, ActiveOf
  <2>3. ASSUME edits = 0
        PROVE  \E n \in 0..Len(plan.steps) : \E m : Onto(c, n, m) /\ tree' = Applied(m)
    BY <1>2, <1>9, <2>3 DEF Onto
  <2>4. QED BY <1>2, <1>4, <1>5, <1>6, <1>14, <2>1, <2>2, <2>3, RefusedHolds
<1>15. CASE Stored(c, next, pc) /\ ~fails
  <2>1. Becomes(c, Copied(c, next, pc)) /\ operation' = next
        /\ ValidOperation(next) /\ calls[c].current
    BY <1>15 DEF Stored
  <2>2. /\ OthersSame(c) /\ Op(c)' = operation' /\ calls'[c].pc = pc
        /\ calls'[c].completed = calls[c].completed /\ calls'[c].intent = calls[c].intent
        /\ calls'[c].temp = name
    BY <2>1, CopiedIs DEF Op, name
  <2>3. temps' = temps /\ lapses' = lapses BY <1>3, <1>15
  <2>4. ASSUME edits = 0, lapses = {}, NEW t \in WriterTemps' PROVE t = name
    <3>1. t \in WriterTemps /\ PlaceInv /\ LitterInv BY <2>3, <2>4 DEF WriterTemps, OpInv
    <3>2. operation = Op(c) /\ operation # None /\ operation.status # "conflict"
      BY <1>5, <2>1, <2>4, <3>1, CurrentIs
    <3>3. ActiveOf(operation) = Intent(StepIndex(c), name, FALSE)
      BY <1>2, <3>1, <3>2, Zenon DEF LitterInv, Frontiers, name
    <3>4. t # name => ActiveOf(operation) = Intent(Durable(operation) + 1, t, TRUE)
      BY <1>8, <2>4, <3>1, <3>2, Zenon DEF NamesTemp
    <3>5. QED BY <3>3, <3>4 DEF Intent
  <2>5. operation' = Frontier(c, TRUE, name) /\ ValidOperation(operation') BY <2>1, Zenon DEF next
  <2>6. calls[c].pc \in {"fresh", "identity"} /\ TRUE \in BOOLEAN BY <1>2
  <2>7. QED BY <1>2, <1>4, <1>5, <1>6, <2>2, <2>3, <2>4, <2>5, <2>6, FrontierHolds, Zenon
<1>16. CASE Taken(c, pc) /\ advance /\ ~fails
  <2>1. Becomes(c, Copied(c, operation, pc)) /\ operation' = operation BY <1>16 DEF Taken
  <2>2. /\ OthersSame(c) /\ Op(c)' = operation' /\ calls'[c].pc = pc
        /\ calls'[c].completed = calls[c].completed /\ calls'[c].intent = calls[c].intent
        /\ calls'[c].temp = name
    BY <2>1, CopiedIs DEF Op, name
  <2>3. temps' = temps /\ lapses' = lapses BY <1>3, <1>16
  <2>4. /\ operation # None /\ operation.execution # None
        /\ ActiveOf(operation) = Intent(StepIndex(c), name, TRUE)
    BY <1>12, <1>16, Zenon DEF AdvancedTo, ActiveOf
  <2>5. /\ operation \in Operations /\ ValidOperation(operation) /\ operation.plan = plan
    BY <2>4, StoredIs
  <2>6. ActiveOf(operation) # None
    <3>1. Intent(StepIndex(c), name, TRUE) \in Intents BY <1>6 DEF Intent, Intents, StepIndex
    <3>2. QED BY <2>4, <3>1, NoneAssumption, Zenon
  <2>7. /\ Durable(operation) = calls[c].completed
        /\ operation.status \in {"applying", "recovery_required"}
    <3> DEFINE i == Intent(StepIndex(c), name, TRUE)
    <3>1. i.step = calls[c].completed + 1 BY DEF Intent, StepIndex
    <3> HIDE DEF i
    <3>2. /\ operation.status \in {"applying", "recovery_required"}
          /\ i.step = operation.execution.completed + 1
      BY <2>4, <2>5, <2>6, Zenon DEF ValidOperation, ValidExecution, ActiveOf, i
    <3>3. operation.execution.completed \in Nat
          /\ Durable(operation) = operation.execution.completed
      BY <2>4, <2>5 DEF Operations, Executions, Durable
    <3>4. QED BY <1>6, <3>1, <3>2, <3>3
  <2>8. StepOf(c)' = StepOf(c) /\ StepIndex(c)' = StepIndex(c) BY <1>2, <2>2 DEF StepOf, StepIndex
  <2>9. calls'[c].pc \notin {"chmod", "verify", "progress", "final", "finish", "fresh", "step", "temp", "clean",
                             "identity", "create_temp", "walk", "lock_exclusive"} \cup SharedSteps
    BY <1>5, <2>2 DEF SharedSteps
  <2>10. ASSUME edits = 0
        PROVE  /\ Executing'
               /\ \E n \in 0..Len(plan.steps) :
                    /\ Reached(n) /\ tree = Applied(n) /\ calls[c].completed = n
                    /\ Recorded(n)' /\ Standing(c, n)'
    <3>1. PICK n \in 0..Len(plan.steps) :
            Reached(n) /\ tree = Applied(n) /\ calls[c].completed = n
      BY <1>9, <2>10
    <3>2. Recorded(n)' /\ DurableIn(Op(c)') <= n
      BY <1>2, <2>1, <2>2, <2>3, <3>1 DEF Reached, Recorded
    <3>3. n <= n /\ plan' = plan BY <1>2
    <3>4. Standing(c, n)' BY <1>5, <2>2, <2>9, <3>1, <3>2, <3>3 DEF Standing
    <3>5. QED BY <2>1, <2>4, <3>1, <3>2, <3>4 DEF Executing
  <2>11. ASSUME edits = 0, lapses' = {}
        PROVE  StatusFits(c)' /\ Frontiers(c)' /\ TempsRecorded'
    <3>1. Frontiers(c) /\ lapses = {} BY <2>3, <2>11 DEF OpInv, LitterInv
    <3>2. StatusFits(c)' BY <2>1, <2>2, <2>7, <2>9 DEF StatusFits
    <3>3. calls'[c].intent # None => calls'[c].intent.step <= StepIndex(c)'
      BY <1>5, <2>2, <2>8, <3>1 DEF Frontiers
    <3>4. ActiveOf(Op(c)') = Intent(StepIndex(c)', calls'[c].temp, TRUE) BY <2>1, <2>2, <2>4, <2>8
    <3>5. Frontiers(c)' BY <2>9, <3>3, <3>4, Zenon DEF Frontiers, ActiveOf
    <3>6. PICK n \in 0..Len(plan.steps) : tree = Applied(n) /\ calls[c].completed = n BY <1>9, <2>11
    <3>7. NamesTemp(operation, name) /\ tree = Applied(Durable(operation))
      BY <2>4, <2>6, <2>7, <3>6, Zenon DEF NamesTemp, StepIndex
    <3>8. \A t \in WriterTemps' : NamesTemp(operation, t)
      <4>1. WriterTemps' = WriterTemps BY <2>3 DEF WriterTemps
      <4>2. QED BY <1>8, <2>4, <2>7, <2>11, <3>1, <3>7, <4>1
    <3>9. After(review'.operator, plan'.steps, Durable(operation')) = Applied(Durable(operation))
      BY <1>2, <2>1 DEF Applied
    <3>10. TempsRecorded'
      BY <1>2, <2>1, <3>7, <3>8, <3>9, Zenon
         DEF TempsRecorded, NamesTemp, Applied, Durable, ActiveOf
    <3>11. QED BY <3>2, <3>5, <3>10
  <2>12. /\ calls'[c].pc \in (Started \ {"chmod"}) \cup {"done"}
         /\ calls'[c].pc \in Publishing => StepOf(c)'.kind \in Publications
         /\ Op(c)' = operation' /\ operation' # None /\ operation'.execution # None
    BY <1>5, <1>6, <2>1, <2>2, <2>4, <2>8
  <2>13. QED BY <1>2, <1>4, <1>5, <2>1, <2>2, <2>3, <2>10, <2>11, <2>12, GoesOnHolds
<1>17. QED BY <1>10, <1>12, <1>13, <1>14, <1>15, <1>16, <1>11, Zenon DEF Stored

-----------------------------------------------------------------------------
(* Progress, the final walk and the end. *)

\* A step is recorded once its effect is there, and takes no temp along.
LEMMA CommitProgressHolds ==
  ASSUME ApplyInv, OpInv, NEW c \in Calls, CommitProgress(c)
  PROVE  OpInv'
<1> DEFINE k == StepIndex(c)
           e == Execution(k, None)
           next == [Op(c) EXCEPT !.execution = e]
           adopts == /\ ~calls[c].current /\ ValidOperation(next)
                     /\ operation # None /\ Durable(operation) >= k
<1>1. /\ calls[c].pc = "progress" /\ UnchangedPackage /\ review' = review /\ edits' = edits
      /\ tree' = tree /\ plan' = plan
      /\ lapses' = lapses \cup {l \in {"late_call"} : adopts} /\ lapses \subseteq lapses'
  BY DEF CommitProgress, At, UnchangedPackage, UnchangedView
<1>2. ApplyInv' /\ Onward BY CommitProgressKeeps
<1>3. /\ calls[c].pc \in Started \ {"identity", "chmod"} /\ calls[c].pc \in Started
      /\ calls[c].pc \in ExclusiveSteps /\ calls[c].pc \in InStep
      /\ "step" \in Started \ {"chmod"} /\ "step" \notin Publishing \cup Altering
  BY <1>1 DEF Started, ExclusiveSteps, InStep, Publishing, Altering
<1>4. /\ calls[c] \in Call /\ calls \in [Calls -> Call] /\ calls[c].completed \in Nat
      /\ calls[c].completed < Len(plan.steps) /\ Len(plan.steps) \in Nat
      /\ k = calls[c].completed + 1 /\ k \in Nat /\ k <= Len(plan.steps) /\ k > 0
  BY <1>3, HoldingIs DEF StepIndex
<1>5. /\ temps' = temps => WriterTemps' = WriterTemps
      /\ Cleaned(c) => WriterTemps' \subseteq WriterTemps
  BY DroppedTemps DEF Cleaned, WriterTemps
<1>6. /\ next \in Operations /\ next # None /\ next.plan = plan /\ next.sealed = Op(c).sealed
      /\ next.status = Op(c).status /\ next.execution # None
      /\ Durable(next) = k /\ ActiveOf(next) = None /\ next.execution.completed = k
  <2>1. e \in Executions /\ e.completed = k /\ e.active = None BY <1>4 DEF Execution, Executions
  <2> HIDE DEF e
  <2>2. QED BY <1>3, <2>1, CandidateIs
<1>7. ASSUME edits = 0
      PROVE  \E n \in 0..Len(plan.steps) :
               Reached(n) /\ tree = Applied(n) /\ k <= n /\ DurableIn(operation) <= n
  <2>1. PICK n \in 0..Len(plan.steps) : Reached(n) /\ tree = Applied(n)
    BY <1>1, <1>3, <1>7, WriterStands DEF OpInv
  <2>2. calls[c].completed < n /\ DurableIn(operation) <= n
    BY <1>1, <2>1 DEF Reached, Standing, Recorded
  <2>3. QED BY <1>4, <2>1, <2>2
<1>8. ASSUME NEW op \in Operations, calls'[c] = Settled(c, op)
      PROVE  /\ calls'[c].pc = "step" /\ Op(c)' = op /\ calls'[c].completed = k
             /\ calls'[c].intent \in {None, calls[c].intent}
  BY <1>4, <1>8 DEF Settled, Call, IntentAfter, Op
<1>9. ASSUME NEW n \in 0..Len(plan.steps), calls'[c].pc = "step", calls'[c].completed = k,
             k <= n, DurableIn(Op(c)') <= n
      PROVE  Standing(c, n)'
  BY <1>3, <1>9 DEF Standing
<1>10. calls'[c].pc = "step" => calls'[c].pc \in (Started \ {"chmod"}) \cup {"done"}
                               /\ calls'[c].pc \notin Publishing
  BY <1>3
<1>11. CASE Leave(c) /\ UNCHANGED operation /\ ~adopts /\ (Cleaned(c) \/ temps' = temps)
  <2>1. lapses' = lapses BY <1>1, <1>11
  <2>2. QED BY <1>1, <1>2, <1>3, <1>5, <1>11, <2>1, SameLeaves
<1>12. CASE /\ calls[c].current /\ ValidOperation(next) /\ operation' = next /\ temps' = temps
            /\ calls' = [d \in Calls |-> IF d = c THEN Settled(c, next)
                                         ELSE [calls[d] EXCEPT !.current = FALSE]]
  <2> HIDE DEF next
  <2>1. /\ calls'[c] = Settled(c, next) /\ OthersSame(c) BY <1>12 DEF OthersSame
  <2>2. /\ calls'[c].pc = "step" /\ Op(c)' = next /\ calls'[c].completed = k
        /\ calls'[c].intent \in {None, calls[c].intent}
    BY <1>6, <1>8, <2>1
  <2>3. DurableIn(next) = k BY <1>6 DEF DurableIn
  <2>4. ASSUME edits = 0
        PROVE  /\ Executing'
               /\ \E n \in 0..Len(plan.steps) :
                    Reached(n) /\ tree = Applied(n) /\ Recorded(n)' /\ Standing(c, n)'
    <3>1. PICK n \in 0..Len(plan.steps) :
            Reached(n) /\ tree = Applied(n) /\ k <= n /\ DurableIn(operation) <= n
      BY <1>7, <2>4
    <3>2. "late_call" \notin lapses' => n <= k + 1
      <4> SUFFICES ASSUME "late_call" \notin lapses' PROVE n <= k + 1 OBVIOUS
      <4>1. "late_call" \notin lapses /\ n <= DurableIn(operation) + 1
        BY <1>1, <3>1 DEF Reached, Recorded
      <4>2. DurableIn(operation) \in Nat BY DocsAre, DurableIs
      <4>3. DurableIn(operation) <= k
        <5>1. CASE operation = None BY <1>4, <5>1 DEF DurableIn
        <5>2. CASE operation # None
          <6>1. operation' # operation => Durable(operation') >= Durable(operation)
            BY <1>2, <4>1, <5>2 DEF Onward
          <6>2. Durable(operation') = k /\ DurableIn(operation) = Durable(operation)
            BY <1>6, <1>12, <5>2 DEF DurableIn
          <6>3. QED BY <1>4, <4>2, <6>1, <6>2
        <5>3. QED BY <5>1, <5>2
      <4>4. QED BY <1>4, <4>1, <4>2, <4>3
    <3>3. next.status = "applied" => n = Len(plan.steps)
      <4> SUFFICES ASSUME next.status = "applied" PROVE n = Len(plan.steps) OBVIOUS
      <4>1. k = Len(plan.steps) BY <1>6, <1>12 DEF ValidOperation, ValidExecution
      <4>2. QED BY <1>4, <3>1, <4>1
    <3>4. Recorded(n)' BY <1>1, <1>12, <2>3, <3>1, <3>2, <3>3 DEF Recorded
    <3>5. Standing(c, n)' BY <1>9, <2>2, <2>3, <3>1
    <3>6. QED BY <1>6, <1>12, <3>1, <3>4, <3>5 DEF Executing
  <2>5. ASSUME edits = 0, lapses' = {}
        PROVE  ActivePublishes(operation') /\ StatusFits(c)' /\ Frontiers(c)' /\ TempsRecorded'
    <3>1. LitterInv BY <1>1, <2>5 DEF OpInv
    <3>2. WriterTemps' = {} BY <1>1, <1>5, <1>12, <3>1, Zenon DEF LitterInv, Frontiers
    <3>3. ActivePublishes(operation') BY <1>6, <1>12 DEF ActivePublishes
    <3>4. StatusFits(c)'
      <4>1. Op(c).status \in {"applying", "recovery_required"}
        BY <1>3, <3>1 DEF LitterInv, StatusFits
      <4>2. QED BY <1>6, <2>2, <4>1 DEF StatusFits, SharedSteps
    <3>5. calls'[c].intent # None =>
            calls'[c].intent \in Intents /\ calls'[c].intent.step <= k
      BY <1>3, <1>4, <2>2, <3>1, Zenon DEF LitterInv, Frontiers, Call
    <3>6. StepIndex(c)' = k + 1 BY <2>2 DEF StepIndex
    <3>7. /\ calls'[c].intent # None => calls'[c].intent.step # k + 1
          /\ calls'[c].intent # None => calls'[c].intent.step <= k + 1
      BY <1>4, <3>5 DEF Intents
    <3>8. Prior(c)' = None /\ ActiveOf(Op(c)') = None BY <1>6, <2>2, <3>6, <3>7 DEF Prior
    <3>9. Frontiers(c)' BY <2>2, <3>2, <3>6, <3>7, <3>8 DEF Frontiers, ActiveOf
    <3>10. TempsRecorded' BY <3>2 DEF TempsRecorded
    <3>11. QED BY <3>3, <3>4, <3>9, <3>10
  <2>6. /\ operation' # None /\ operation'.plan = plan /\ operation'.sealed = Op(c).sealed
        /\ Op(c)' = operation' /\ operation'.execution # None
    BY <1>6, <1>12, <2>2
  <2>7. QED BY <1>1, <1>2, <1>3, <1>10, <2>1, <2>2, <2>4, <2>5, <2>6, GoesOnHolds
<1>13. CASE adopts /\ UNCHANGED operation /\ calls' = [calls EXCEPT ![c] = Settled(c, operation)]
  <2> HIDE DEF next
  <2>1. /\ calls'[c] = Settled(c, operation) /\ OthersSame(c) BY <1>4, <1>13 DEF OthersSame
  <2>2. operation \in Operations BY <1>13, DocsAre
  <2>3. /\ calls'[c].pc = "step" /\ Op(c)' = operation /\ calls'[c].completed = k
    BY <1>8, <2>1, <2>2
  <2>4. operation # None /\ operation.execution # None
    <3>1. Durable(operation) >= k BY <1>13
    <3> HIDE DEF k
    <3>2. Durable(operation) # 0 BY <1>4, <3>1
    <3>3. QED BY <1>13, <3>2 DEF Durable
  <2>5. "late_call" \in lapses' BY <1>1, <1>13
  <2>6. ASSUME edits = 0
        PROVE  /\ Executing'
               /\ \E n \in 0..Len(plan.steps) :
                    Reached(n) /\ tree = Applied(n) /\ Recorded(n)' /\ Standing(c, n)'
    <3>1. PICK n \in 0..Len(plan.steps) :
            Reached(n) /\ tree = Applied(n) /\ k <= n /\ DurableIn(operation) <= n
      BY <1>7, <2>6
    <3>2. Recorded(n)' BY <1>1, <1>13, <2>5, <3>1 DEF Reached, Recorded
    <3>3. Standing(c, n)' BY <1>9, <2>3, <3>1
    <3>4. QED BY <1>13, <2>4, <3>1, <3>2, <3>3 DEF Executing
  <2>7. Op(c)' = operation' /\ operation' # None /\ operation'.execution # None
        /\ operation' = operation
    BY <1>13, <2>3, <2>4
  <2>8. QED BY <1>1, <1>2, <1>3, <1>10, <2>1, <2>3, <2>5, <2>6, <2>7, GoesOnHolds
<1>14. QED BY <1>11, <1>12, <1>13 DEF CommitProgress

LEMMA FinalWalkHolds ==
  ASSUME ApplyInv, OpInv, NEW c \in Calls, FinalWalk(c)
  PROVE  OpInv'
<1>1. /\ calls[c].pc = "final" /\ UnchangedPackage /\ review' = review /\ edits' = edits
      /\ tree' = tree /\ temps' = temps /\ plan' = plan /\ lapses' = lapses
      /\ lapses \subseteq lapses'
  BY DEF FinalWalk, At, UnchangedPackage, UnchangedProject
<1>2. ApplyInv' /\ Onward BY FinalWalkKeeps
<1>3. /\ calls[c].pc \in Started \ {"identity", "chmod"} /\ calls[c].pc \in Started
      /\ calls[c].pc \in Started \ {"identity"} /\ calls[c].pc \in ExclusiveSteps
      /\ "finish" \in Started \ {"chmod"} /\ "finish" \notin Publishing /\ "finish" \in Pcs
  BY <1>1 DEF Started, ExclusiveSteps, Publishing, Pcs
<1>4. WriterTemps' = WriterTemps /\ IsTree(tree)' /\ Len(plan.steps) \in Nat
  BY <1>1, <1>3, WriterPlan DEF WriterTemps, OpInv, BaseInv
<1>5. ASSUME NEW n \in 0..Len(plan.steps), Reached(n)
      PROVE  calls[c].completed = Len(plan.steps) /\ calls[c].completed = n
  <2>1. calls[c].completed = Len(plan.steps) /\ calls[c].completed <= n
    BY <1>1, <1>3, <1>5 DEF Reached, Standing
  <2>2. QED BY <1>4, <2>1
<1>6. ASSUME edits = 0 PROVE \E n \in 0..Len(plan.steps) : Reached(n) /\ tree = Applied(n)
  BY <1>1, <1>3, <1>6, WriterStands DEF OpInv
<1>7. CASE Goto(c, "finish") /\ UNCHANGED operation
  <2>1. Moved(c, "finish") BY <1>3, <1>7, GotoMoves
  <2>2. Fits(c, "finish") BY DEF Fits
  <2>3. QED BY <1>1, <1>2, <1>3, <1>4, <1>5, <2>1, <2>2, SameMovedHolds
<1>8. CASE Record(c, Refusal(c, None))
  <2>1. Refused(c, calls[c].completed, None) BY <1>3, <1>8, RefuseIs
  <2>2. ASSUME edits = 0
        PROVE  \E n \in 0..Len(plan.steps) : \E m : Onto(c, n, m) /\ tree' = Applied(m)
    BY <1>1, <1>6, <2>2 DEF Onto
  <2>3. ASSUME edits = 0, lapses' = {} PROVE TempsRecorded'
    <3>1. PlaceInv /\ LitterInv BY <1>1, <2>3 DEF OpInv
    <3>2. CASE Left(c)
      <4>1. operation' = operation BY <3>2 DEF Left
      <4>2. QED BY <1>1, <1>3, <1>4, <3>1, <4>1, TempsKept
    <3>3. CASE calls[c].current
      <4>1. operation.status # "conflict" BY <1>1, <1>3, <2>3, <3>1, <3>3, CurrentIs
      <4>2. PICK n \in 0..Len(plan.steps) : Reached(n) BY <1>6, <2>3
      <4>3. WriterTemps = {}
        <5>1. calls[c].completed = n /\ ~(n < Len(plan.steps)) BY <1>4, <1>5, <4>2
        <5>2. QED BY <1>1, <1>3, <2>3, <3>1, <4>1, <4>2, <5>1, NoTemps
      <4>4. QED BY <1>4, <4>3 DEF TempsRecorded
    <3>4. QED BY <2>1, <3>2, <3>3 DEF Refused, Ended
  <2>4. QED BY <1>1, <1>2, <1>3, <1>4, <2>1, <2>2, <2>3, RefusedHolds, Zenon
<1>9. QED BY <1>7, <1>8, Zenon DEF FinalWalk

\* The operation is applied once every step is, and then no temp is left.
LEMMA FinishHolds ==
  ASSUME ApplyInv, OpInv, NEW c \in Calls, Finish(c)
  PROVE  OpInv'
<1> DEFINE e == Execution(Len(plan.steps), None)
           next == With(c, "applied", e)
           advance == Advanced("applied", operation)
<1>1. /\ calls[c].pc = "finish" /\ UnchangedPackage /\ review' = review /\ edits' = edits
      /\ tree' = tree /\ temps' = temps /\ plan' = plan /\ lapses' = lapses
      /\ lapses \subseteq lapses' /\ Commit(c, next, advance, "done")
  BY DEF Finish, At, UnchangedPackage, UnchangedProject
<1>2. ApplyInv' /\ Onward BY FinishKeeps
<1>3. /\ calls[c].pc \in Started \ {"identity", "chmod"} /\ calls[c].pc \in Started
      /\ calls[c].pc \in Started \ {"identity"} /\ calls[c].pc \in ExclusiveSteps
      /\ "done" \notin Started /\ "done" \notin Publishing /\ "done" \in Pcs
  BY <1>1 DEF Started, ExclusiveSteps, Publishing, Pcs
<1>4. WriterTemps' = WriterTemps /\ IsTree(tree)' /\ Len(plan.steps) \in Nat
  BY <1>1, <1>3, WriterPlan DEF WriterTemps, OpInv, BaseInv
<1>5. ASSUME NEW n \in 0..Len(plan.steps), Reached(n)
      PROVE  calls[c].completed = Len(plan.steps) /\ calls[c].completed = n
  <2>1. calls[c].completed = Len(plan.steps) /\ calls[c].completed <= n
    BY <1>1, <1>3, <1>5 DEF Reached, Standing
  <2>2. QED BY <1>4, <2>1
<1>6. ASSUME edits = 0 PROVE \E n \in 0..Len(plan.steps) : Reached(n) /\ tree = Applied(n)
  BY <1>1, <1>3, <1>6, WriterStands DEF OpInv
<1>7. /\ next \in Operations /\ next.plan = plan /\ next.status = "applied"
      /\ next.execution = e /\ next.execution # None /\ next # None
      /\ Durable(next) = Len(plan.steps) /\ ActiveOf(next) = None
      /\ next.sealed = Op(c).sealed /\ advance \in BOOLEAN
  <2>1. e \in Executions /\ e.completed = Len(plan.steps) /\ e.active = None /\ e # None
    BY <1>4, NoneAssumption DEF Execution, Executions
  <2>2. "applied" \in Statuses /\ advance \in BOOLEAN BY DEF Statuses, Advanced
  <2> HIDE DEF e
  <2>3. /\ next \in Operations /\ next.plan = plan /\ next.status = "applied"
        /\ next.execution = e /\ Durable(next) = e.completed /\ next.sealed = Op(c).sealed
    BY <1>3, <2>1, <2>2, WithIs, WithSealed
  <2> HIDE DEF next
  <2>4. QED BY <2>1, <2>2, <2>3, NoneAssumption DEF ActiveOf
<1> HIDE DEF next, e
<1>8. \/ Left(c) \/ Stored(c, next, "done")
      \/ Taken(c, "done") /\ operation # None /\ advance
  BY <1>1, <1>3, <1>7, CommitMoves
<1>9. ASSUME NEW n \in 0..Len(plan.steps), calls'[c].pc = "done", calls'[c].completed <= n,
             DurableIn(Op(c)') <= n
      PROVE  Standing(c, n)'
  BY <1>3, <1>9 DEF Standing, Publishing, Altering
<1>10. ASSUME calls'[c].pc = "done" PROVE StatusFits(c)' /\ Frontiers(c)'
  BY <1>3, <1>10, IdleFrontiers DEF StatusFits, SharedSteps
<1>11. CASE Left(c)
  <2>1. Refused(c, calls[c].completed, ActiveOf(Op(c))) BY <1>11 DEF Refused
  <2>2. QED BY <1>1, <1>2, <1>3, <1>4, <2>1, SameRefusalHolds
<1>12. CASE Stored(c, next, "done")
  <2>1. Becomes(c, Copied(c, next, "done")) /\ operation' = next
        /\ ValidOperation(next) /\ calls[c].current
    BY <1>12 DEF Stored
  <2>2. /\ OthersSame(c) /\ Op(c)' = next /\ calls'[c].pc = "done"
        /\ calls'[c].completed = calls[c].completed
    BY <2>1, CopiedIs DEF Op
  <2>3. DurableIn(next) = Len(plan.steps) BY <1>7 DEF DurableIn
  <2>4. ASSUME edits = 0
        PROVE  /\ Executing'
               /\ \E n \in 0..Len(plan.steps) :
                    Reached(n) /\ tree = Applied(n) /\ Recorded(n)' /\ Standing(c, n)'
    <3>1. PICK n \in 0..Len(plan.steps) : Reached(n) /\ tree = Applied(n) BY <1>6, <2>4
    <3>2. n = Len(plan.steps) /\ calls[c].completed = n BY <1>5, <3>1
    <3>3. Recorded(n)' BY <1>1, <1>4, <2>1, <2>3, <3>2 DEF Recorded
    <3>4. Standing(c, n)' BY <1>4, <1>9, <2>2, <2>3, <3>2
    <3>5. QED BY <1>7, <2>1, <3>1, <3>3, <3>4 DEF Executing
  <2>5. ASSUME edits = 0, lapses' = {}
        PROVE  ActivePublishes(operation') /\ TempsRecorded'
    <3>1. PlaceInv /\ LitterInv BY <1>1, <2>5 DEF OpInv
    <3>2. operation.status # "conflict" BY <1>1, <1>3, <2>1, <2>5, <3>1, CurrentIs
    <3>3. PICK n \in 0..Len(plan.steps) : Reached(n) BY <1>6, <2>5
    <3>4. WriterTemps = {}
      <4>1. calls[c].completed = n /\ ~(n < Len(plan.steps)) BY <1>4, <1>5, <3>3
      <4>2. QED BY <1>1, <1>3, <2>5, <3>1, <3>2, <3>3, <4>1, NoTemps
    <3>5. TempsRecorded' BY <1>4, <3>4 DEF TempsRecorded
    <3>6. QED BY <1>7, <2>1, <3>5 DEF ActivePublishes
  <2>6. /\ operation' # None /\ operation'.plan = plan /\ operation'.sealed = Op(c).sealed
        /\ Op(c)' = operation' /\ operation'.execution # None
    BY <1>7, <2>1, <2>2
  <2>7. QED BY <1>1, <1>2, <1>3, <1>10, <2>2, <2>4, <2>5, <2>6, GoesOnHolds
<1>13. CASE Taken(c, "done") /\ operation # None /\ advance
  <2>1. Becomes(c, Copied(c, operation, "done")) /\ operation' = operation BY <1>13 DEF Taken
  <2>2. /\ OthersSame(c) /\ Op(c)' = operation /\ calls'[c].pc = "done"
        /\ calls'[c].completed = calls[c].completed
    BY <2>1, CopiedIs DEF Op
  <2>3. operation.execution # None
    <3>1. ValidOperation(operation) /\ operation.status = "applied"
      BY <1>13 DEF ApplyInv, JournalTrue, Advanced
    <3>2. QED BY <3>1 DEF ValidOperation, ValidExecution
  <2>4. ASSUME edits = 0
        PROVE  /\ Executing'
               /\ \E n \in 0..Len(plan.steps) :
                    Reached(n) /\ tree = Applied(n) /\ Recorded(n)' /\ Standing(c, n)'
    <3>1. PICK n \in 0..Len(plan.steps) : Reached(n) /\ tree = Applied(n) BY <1>6, <2>4
    <3>2. n = Len(plan.steps) /\ calls[c].completed = n BY <1>5, <3>1
    <3>3. Recorded(n)' /\ DurableIn(operation) <= n BY <1>1, <2>1, <3>1 DEF Reached, Recorded
    <3>4. Standing(c, n)' BY <1>4, <1>9, <2>2, <3>2, <3>3
    <3>5. QED BY <1>13, <2>1, <2>3, <3>1, <3>3, <3>4 DEF Executing
  <2>5. ASSUME edits = 0, lapses' = {} PROVE TempsRecorded'
    <3>1. PlaceInv /\ LitterInv BY <1>1, <2>5 DEF OpInv
    <3>2. QED BY <1>1, <1>3, <1>4, <2>1, <3>1, TempsKept
  <2>6. Op(c)' = operation' /\ operation' # None /\ operation'.execution # None
    BY <1>13, <2>1, <2>2, <2>3
  <2>7. QED BY <1>1, <1>2, <1>3, <1>10, <2>1, <2>2, <2>4, <2>5, <2>6, GoesOnHolds
<1>14. QED BY <1>8, <1>11, <1>12, <1>13

-----------------------------------------------------------------------------
(* The walk. *)

\* A directory that was left private is at none of its steps' states: no walk passes.
LEMMA FrozenFails ==
  ASSUME Follows(review), tree = [p \in Paths |-> tree[p]], IsTree(tree),
         NEW n \in 0..Len(plan.steps) - 1, Frozen(n), NEW m
  PROVE  ~WalkPasses(tree, plan, m, TRUE)
<1> DEFINE s == plan.steps[n + 1]
           p == s.path
           bare == Directory(PrivateMode)
           on == StepsOn(plan.steps, p)
<1>1. /\ DOMAIN plan.steps = 1..Len(plan.steps) /\ Len(plan.steps) \in Nat
      /\ n + 1 \in DOMAIN plan.steps /\ s \in RawSteps(review) /\ p \in Paths
      /\ review \in Reviews
  BY StepsAre DEF Follows
<1>2. s.kind = "create_directory" /\ s.after # bare /\ tree = Bare(n) BY DEF Frozen
<1>3. s.before = Absent /\ s.after = Directory(s.after.mode) BY <1>1, <1>2, KindIs
<1>4. tree[p] = bare /\ bare # Absent /\ IsDirectory(bare)
  <2>1. p \in DOMAIN Applied(n) BY <1>1 DEF Applied, After
  <2>2. bare # Absent /\ IsDirectory(bare) BY DEF Directory, Absent, IsDirectory
  <2>3. QED BY <1>2, <2>1, <2>2 DEF Bare
<1>5. Observed(tree, p) = bare
  <2>1. Reachable(tree, p) BY <1>1, <1>4, PresentReached
  <2>2. QED BY <1>4, <2>1 DEF Observed
<1>6. ASSUME NEW k \in on PROVE plan.steps[k].before # bare /\ plan.steps[k].after # bare
  <2>1. k \in DOMAIN plan.steps /\ plan.steps[k].path = p BY <1>6 DEF StepsOn
  <2>2. CASE k = n + 1 BY <1>2, <1>3, <1>4, <2>2
  <2>3. CASE k > n + 1
    <3>1. Removal(review, s) BY <1>1, <2>1, <2>3, TwoSteps
    <3>2. QED BY <1>2, <3>1 DEF Removal, RemoveKind
  <2>4. CASE k < n + 1
    <3>1. Removal(review, plan.steps[k]) /\ Creation(review, s) BY <1>1, <2>1, <2>4, TwoSteps
    <3>2. /\ plan.steps[k].after = Absent
          /\ plan.steps[k].before.kind # s.after.kind
      BY <2>1, <3>1 DEF Removal, Creation
    <3>3. s.after.kind = "directory" /\ bare.kind = "directory" BY <1>3 DEF Directory
    <3>4. QED BY <1>4, <3>2, <3>3
  <2>5. QED BY <1>1, <2>1, <2>2, <2>3, <2>4
<1>7. /\ n + 1 \in on /\ on \subseteq 1..Len(plan.steps)
      /\ p \in PlannedPaths(plan)
  BY <1>1 DEF StepsOn, PlannedPaths
<1>8. LastOf(on) \in on
  <2> HIDE DEF on
  <2>1. QED BY <1>1, <1>7, FirstAndLast
<1>9. FinalState(plan, p) # bare BY <1>6, <1>8 DEF FinalState
<1> DEFINE done == {k \in on : k <= m}
           pending == on \ done
<1>10. done # {} => LastOf(done) \in on
  <2>1. done \subseteq on /\ done \subseteq 1..Len(plan.steps) BY <1>7
  <2> HIDE DEF done, on
  <2>2. QED BY <1>1, <2>1, FirstAndLast, Zenon
<1>11. pending # {} => FirstOf(pending) \in on
  <2>1. pending \subseteq on /\ pending \subseteq 1..Len(plan.steps) BY <1>7
  <2> HIDE DEF pending, on
  <2>2. QED BY <1>1, <2>1, FirstAndLast, Zenon
<1>12. ~PathHolds(tree, plan, p, m, TRUE)
  <2> DEFINE before == IF done # {} THEN plan.steps[LastOf(done)].after
                       ELSE plan.steps[FirstOf(pending)].before
  <2>1. pending # {} => before # bare BY <1>6, <1>10, <1>11, Zenon
  <2>2. \A k \in pending : bare # plan.steps[k].after BY <1>6
  <2> HIDE DEF bare
  <2>3. QED BY <1>5, <1>9, <2>1, <2>2 DEF PathHolds
<1>13. QED BY <1>7, <1>12, Zenon DEF WalkPasses

\* Where the project is when a walk passes.
LEMMA WalkStands ==
  ASSUME ApplyInv, PlaceInv, IsTree(tree), NEW c \in Calls, calls[c].pc = "walk",
         NEW m, WalkPasses(tree, plan, m, TRUE)
  PROVE  \E n \in 0..Len(plan.steps) : Reached(n) /\ tree = Applied(n)
<1>1. calls[c].pc \in ExclusiveSteps /\ "chmod" \in Started BY DEF ExclusiveSteps, Started
<1>2. plan # None /\ Follows(review) BY <1>1, WriterFollows
<1>3. \A d \in Calls : ~At(d, "chmod") BY <1>1, OthersWait DEF At
<1>4. tree = [p \in Paths |-> tree[p]] BY DEF ApplyInv, ProjectTyped
<1>5. \A n \in 0..Len(plan.steps) - 1 : ~Frozen(n) BY <1>2, <1>4, FrozenFails, Zenon
<1>6. QED BY <1>2, <1>3, <1>5 DEF PlaceInv

\* A writer takes its first step from what its copy of the journal records.
LEMMA WalkStarts ==
  ASSUME ApplyInv, ApplyInv', OpInv, Onward, NEW c \in Calls, calls[c].pc = "walk",
         WalkPasses(tree, plan, Durable(Op(c)), TRUE), OthersSame(c),
         UnchangedProject, UnchangedPackage,
         calls'[c].pc = "step", calls'[c].completed = Durable(Op(c)),
         calls'[c].intent = ActiveOf(Op(c)'),
         Op(c)' # None, Op(c)'.execution # None, Op(c)'.status = "applying",
         \/ Op(c)' = Op(c) /\ operation' = operation /\ lapses' = lapses
         \/ /\ Op(c)' = operation' /\ calls[c].current /\ lapses' = lapses
            /\ operation'.plan = plan /\ operation'.sealed = Op(c).sealed
            /\ Durable(operation') = Durable(Op(c)) /\ ActiveOf(operation') = ActiveOf(Op(c))
         \/ Op(c)' = operation' /\ operation' = operation /\ lapses' = lapses \cup {"late_call"}
  PROVE  OpInv'
<1>1. /\ calls[c].pc \in ExclusiveSteps /\ "step" \in Started \ {"chmod"} /\ "step" \in Started
      /\ "step" \notin Publishing /\ calls[c].pc \notin Started
  BY DEF ExclusiveSteps, Started, Publishing
<1>2. /\ review' = review /\ tree' = tree /\ temps' = temps /\ edits' = edits
      /\ plan' = plan /\ lapses \subseteq lapses' /\ WriterTemps' = WriterTemps
  BY DEF UnchangedProject, UnchangedPackage, WriterTemps
<1>3. /\ Op(c) \in Operations /\ Op(c).plan = plan /\ Durable(Op(c)) \in Nat
      /\ ActiveOf(Op(c)) \in Intents \cup {None}
      /\ ActiveOf(Op(c)) # None => ActiveOf(Op(c)).step = Durable(Op(c)) + 1
      /\ calls[c].current => operation = Op(c)
      /\ Op(c) # None /\ DurableIn(Op(c)) = Durable(Op(c))
  BY <1>1, CopyIs, NoneAssumption DEF DurableIn
<1>4. ASSUME edits = 0
      PROVE  /\ Executing'
             /\ \E n \in 0..Len(plan.steps) :
                  Reached(n) /\ tree = Applied(n) /\ Recorded(n)' /\ Standing(c, n)'
  <2>1. PlaceInv /\ IsTree(tree) BY <1>4 DEF OpInv, BaseInv
  <2>2. PICK n \in 0..Len(plan.steps) : Reached(n) /\ tree = Applied(n) BY <2>1, WalkStands, Zenon
  <2>3. Recorded(n) /\ DurableIn(Op(c)) <= n BY <2>2 DEF Reached, Standing
  <2>4. Executing' BY <1>3, <2>1 DEF Executing, PlaceInv
  <2>5. DurableIn(operation') = DurableIn(operation)
    <3>1. CASE operation' = operation BY <3>1
    <3>2. CASE /\ Op(c)' = operation' /\ calls[c].current
               /\ Durable(operation') = Durable(Op(c))
      BY <1>3, <3>2 DEF DurableIn
    <3>3. QED BY <3>1, <3>2
  <2>6. operation'.status = "applied" => operation' = operation OBVIOUS
  <2>7. Recorded(n)' BY <1>2, <2>3, <2>5, <2>6 DEF Recorded
  <2>8. DurableIn(Op(c)') <= n
    <3>1. DurableIn(operation) <= n BY <2>3 DEF Recorded
    <3>2. Op(c)' = Op(c) \/ Op(c)' = operation' OBVIOUS
    <3>3. CASE Op(c)' = Op(c) BY <2>3, <3>3
    <3>4. CASE Op(c)' = operation' BY <2>5, <3>1, <3>4
    <3>5. QED BY <3>2, <3>3, <3>4
  <2>9. Standing(c, n)'
    <3>1. "step" \notin Publishing \cup Altering BY DEF Publishing, Altering
    <3>2. QED BY <1>1, <1>3, <2>3, <2>8, <3>1 DEF Standing
  <2>10. QED BY <2>2, <2>4, <2>7, <2>9
<1>5. ASSUME edits = 0, lapses' = {}
      PROVE  /\ operation' = operation \/ ActivePublishes(operation')
             /\ StatusFits(c)' /\ Frontiers(c)' /\ TempsRecorded'
  <2>1. LitterInv /\ lapses = {} /\ "late_call" \notin lapses' BY <1>2, <1>5 DEF OpInv
  <2>2. operation' = operation \/ ActivePublishes(operation')
    <3>1. ActivePublishes(Op(c)) BY <2>1 DEF LitterInv
    <3>2. QED BY <1>3, <2>1, <3>1 DEF ActivePublishes
  <2>3. StatusFits(c)' BY DEF StatusFits, SharedSteps
  <2>4. ActiveOf(Op(c)') = ActiveOf(Op(c)) BY <2>1
  <2>5. StepIndex(c)' = Durable(Op(c)) + 1 BY DEF StepIndex
  <2>6. /\ Prior(c)' = ActiveOf(Op(c)')
        /\ calls'[c].intent # None => calls'[c].intent.step <= StepIndex(c)'
    BY <1>3, <2>4, <2>5 DEF Prior
  <2>7. Frontiers(c)' BY <2>6 DEF Frontiers, ActiveOf
  <2>8. TempsRecorded'
    <3> SUFFICES ASSUME operation' # None, operation'.status # "conflict"
                 PROVE  \A t \in WriterTemps' :
                          NamesTemp(operation, t) /\ tree = Applied(Durable(operation))
                            /\ Durable(operation') = Durable(operation)
                            /\ ActiveOf(operation') = ActiveOf(operation)
      BY <1>2, Zenon DEF TempsRecorded, NamesTemp, Applied, Durable, ActiveOf
    <3>1. Durable(operation') = Durable(operation) /\ ActiveOf(operation') = ActiveOf(operation)
      BY <1>3, <2>1
    <3>2. operation # None /\ operation.status # "conflict"
      <4>1. CASE operation' = operation BY <4>1
      <4>2. CASE calls[c].current
        <5>1. StatusFits(c) BY <2>1 DEF LitterInv
        <5>2. QED BY <1>3, <4>2, <5>1 DEF StatusFits
      <4>3. QED BY <2>1, <4>1, <4>2
    <3>3. \A t \in WriterTemps : ~(At(c, "identity") /\ calls[c].temp = t) BY DEF At
    <3>4. QED BY <1>1, <1>2, <2>1, <3>1, <3>2, <3>3, TempIsActive
  <2>9. QED BY <2>2, <2>3, <2>7, <2>8
<1>6. \/ operation' = operation
      \/ operation' # None /\ operation'.plan = plan /\ operation'.sealed = Op(c).sealed
  OBVIOUS
<1>7. \/ Op(c)' = Op(c)
      \/ Op(c)' = operation' /\ operation' # None /\ operation'.execution # None
  OBVIOUS
<1>8. QED BY <1>1, <1>2, <1>4, <1>5, <1>6, <1>7, GoesOnHolds

\* A walk that does not pass leaves the project, and a temp the journal names.
LEMMA WalkRefuses ==
  ASSUME ApplyInv, ApplyInv', OpInv, Onward, NEW c \in Calls, calls[c].pc = "walk",
         NEW last \in Operations, Ended(c, last), last.plan = plan, last.sealed = Op(c).sealed,
         last.execution # None, Durable(last) = Durable(Op(c)),
         \/ last.status = "conflict" /\ ActiveOf(last) = None
         \/ last.status = "recovery_required" /\ ActiveOf(last) = ActiveOf(Op(c)),
         UnchangedProject, UnchangedPackage, lapses' = lapses
  PROVE  OpInv'
<1>1. /\ calls[c].pc \in ExclusiveSteps /\ calls[c].pc \notin Started BY DEF ExclusiveSteps, Started
<1>2. /\ review' = review /\ tree' = tree /\ temps' = temps /\ edits' = edits
      /\ plan' = plan /\ sealed' = sealed /\ lapses \subseteq lapses' /\ WriterTemps' = WriterTemps
  BY DEF UnchangedProject, UnchangedPackage, WriterTemps
<1>3. /\ OthersSame(c) /\ calls'[c].pc = "idle" /\ Op(c)' = None /\ operation' = last
      /\ Becomes(c, Nobody)
  BY LeftIs DEF Ended, Op
<1>4. Op(c) # None /\ operation = Op(c) BY <1>1, CopyIs, NoneAssumption DEF Ended
<1>5. last # None BY NoneAssumption
<1>6. BaseInv'
  <2>1. DocHolds(last, plan, sealed) BY <1>1, WriterDoc DEF OpInv
  <2>2. DocBacked(operation)' BY <1>2, <1>3, <2>1 DEF DocBacked
  <2>3. IsTree(tree)' BY <1>2 DEF OpInv, BaseInv
  <2>4. QED BY <1>2, <1>3, <2>2, <2>3, LeftBase DEF OpInv
<1>7. "idle" \notin Started BY DEF Started, ExclusiveSteps
<1>8. Executing' BY <1>3, <1>5 DEF Executing
<1>9. (edits = 0 => PlaceInv)'
  <2> SUFFICES ASSUME edits = 0 PROVE PlaceInv' BY <1>2
  <2>1. PlaceInv BY DEF OpInv
  <2>2. DurableIn(operation') = DurableIn(operation) BY <1>3, <1>4, <1>5 DEF DurableIn
  <2>3. operation' # None /\ operation'.status # "applied" BY <1>3, <1>5
  <2>4. QED BY <1>1, <1>2, <1>3, <1>7, <1>8, <2>1, <2>2, <2>3, PlaceQuiet
<1>10. (edits = 0 /\ lapses = {} => LitterInv)'
  <2> SUFFICES ASSUME edits = 0, lapses = {} PROVE LitterInv' BY <1>2
  <2>1. LitterInv BY DEF OpInv
  <2>2. ActivePublishes(operation')
    <3>1. ActivePublishes(Op(c)) BY <2>1 DEF LitterInv
    <3>2. QED BY <1>3, <1>4, <1>5, <3>1 DEF ActivePublishes
  <2>3. StatusFits(c)' /\ Frontiers(c)' BY <1>3, <1>7, IdleFrontiers DEF StatusFits, SharedSteps
  <2>4. TempsRecorded'
    <3> SUFFICES ASSUME last.status # "conflict"
                 PROVE  \A t \in WriterTemps' :
                          NamesTemp(operation, t) /\ tree = Applied(Durable(operation))
                            /\ Durable(operation') = Durable(operation)
                            /\ ActiveOf(operation') = ActiveOf(operation)
      BY <1>2, <1>3, Zenon DEF TempsRecorded, NamesTemp, Applied, Durable, ActiveOf
    <3>1. Durable(operation') = Durable(operation) /\ ActiveOf(operation') = ActiveOf(operation)
      BY <1>3, <1>4
    <3>2. operation # None /\ operation.status # "conflict" BY <1>4, <2>1 DEF LitterInv, StatusFits
    <3>3. \A t \in WriterTemps : ~(At(c, "identity") /\ calls[c].temp = t) BY DEF At
    <3>4. QED BY <1>1, <1>2, <2>1, <3>1, <3>2, <3>3, TempIsActive
  <2>5. QED BY <1>1, <1>2, <1>3, <1>8, <2>1, <2>2, <2>3, <2>4, LitterFrom
<1>11. QED BY <1>6, <1>9, <1>10 DEF OpInv

LEMMA WalkHolds ==
  ASSUME ApplyInv, OpInv, NEW c \in Calls, Walk(c)
  PROVE  OpInv'
<1> DEFINE op == Op(c)
           n == Durable(op)
           started == [calls EXCEPT ![c].completed = n, ![c].intent = ActiveOf(op),
                                    ![c].pc = "step"]
           next == With(c, "applying", Execution(n, ActiveOf(op)))
           first == [calls[c] EXCEPT !.completed = n, !.intent = ActiveOf(op), !.pc = "step"]
<1>1. /\ calls[c].pc = "walk" /\ UnchangedProject /\ UnchangedPackage
      /\ calls[c].pc \in ExclusiveSteps /\ calls[c].pc \notin Started
  BY DEF Walk, At, ExclusiveSteps, Started
<1>2. ApplyInv' /\ Onward BY WalkKeeps
<1>3. /\ op \in Operations /\ ValidOperation(op) /\ op.plan = plan /\ op # None
      /\ n \in Nat /\ ActiveOf(op) \in Intents \cup {None}
  BY <1>1, CopyIs, NoneAssumption
<1>4. calls \in [Calls -> Call] /\ op = calls[c].op BY DEF ApplyInv, Op
<1>5. /\ started = [calls EXCEPT ![c] = first] /\ started[c] = first
      /\ first.pc = "step" /\ first.op = op /\ first.completed = n
      /\ first.intent = ActiveOf(op)
  <2>1. calls[c] \in Call BY <1>4
  <2>2. started = [calls EXCEPT ![c] = first] BY Zenon
  <2>3. started[c] = first BY <1>4, <2>2
  <2>4. /\ first.pc = "step" /\ first.op = op /\ first.completed = n
        /\ first.intent = ActiveOf(op)
    BY <1>3, <1>4, <2>1 DEF Call
  <2>5. QED BY <2>2, <2>3, <2>4
<1>6. first = [first EXCEPT !.op = first.op] /\ first \in Call
  <2>1. calls[c] \in Call /\ "step" \in Pcs BY <1>4 DEF Pcs, ExclusiveSteps
  <2>2. first \in Call BY <1>3, <1>4, <2>1, Zenon DEF Call
  <2>3. QED BY <2>2, Zenon DEF Call
<1> HIDE DEF first, started
<1>7. CASE ~WalkPasses(tree, plan, n, TRUE) /\ UNCHANGED lapses
  <2> DEFINE state == IF n = 0 THEN "conflict" ELSE "recovery_required"
             active == IF n = 0 THEN None ELSE ActiveOf(op)
             e == Execution(n, active)
             refused == [op EXCEPT !.failed = TRUE, !.status = state, !.execution = e]
  <2>1. Record(c, refused) BY <1>7 DEF Walk
  <2>2. /\ e \in Executions /\ e.completed = n /\ e.active = active /\ state \in Statuses
        /\ e # None
    BY <1>3, NoneAssumption DEF Execution, Executions, Statuses
  <2> HIDE DEF state, e, active, op, n
  <2>3. /\ refused \in Operations /\ refused.plan = plan /\ refused.execution = e
        /\ refused.status = state /\ refused.sealed = op.sealed
    BY <1>3, <2>2, Zenon DEF Operations
  <2> HIDE DEF refused
  <2>4. Durable(refused) = n /\ ActiveOf(refused) = active /\ refused.execution # None
    BY <2>2, <2>3 DEF Durable, ActiveOf
  <2>5. \/ refused.status = "conflict" /\ ActiveOf(refused) = None
        \/ refused.status = "recovery_required" /\ ActiveOf(refused) = ActiveOf(op)
    BY <2>3, <2>4 DEF state, active
  <2>6. CASE Left(c) BY <1>1, <1>2, <1>7, <2>6, PrepareLeft DEF UnchangedPackage
  <2>7. CASE Ended(c, refused)
    <3>1. Durable(refused) = Durable(Op(c)) /\ refused.sealed = Op(c).sealed
          /\ (\/ refused.status = "conflict" /\ ActiveOf(refused) = None
              \/ refused.status = "recovery_required" /\ ActiveOf(refused) = ActiveOf(Op(c)))
      BY <2>3, <2>4, <2>5 DEF op, n
    <3>2. QED BY <1>1, <1>2, <1>7, <2>3, <2>4, <2>7, <3>1, WalkRefuses
  <2>8. QED BY <2>1, <2>6, <2>7, RecordMoves
<1>8. CASE /\ WalkPasses(tree, plan, n, TRUE) /\ op.status = "applying"
           /\ calls' = started /\ UNCHANGED <<operation, lapses>>
  <2>1. op.execution # None BY <1>3, <1>8 DEF ValidOperation, ValidExecution
  <2>2. calls'[c] = first /\ OthersSame(c) BY <1>4, <1>5, <1>8 DEF OthersSame
  <2>3. /\ calls'[c].pc = "step" /\ calls'[c].completed = Durable(Op(c))
        /\ Op(c)' = Op(c) /\ calls'[c].intent = ActiveOf(Op(c)')
    BY <1>5, <2>2 DEF Op
  <2>4. Op(c)' # None /\ Op(c)'.execution # None /\ Op(c)'.status = "applying"
    BY <1>3, <1>8, <2>1, <2>3
  <2>5. QED BY <1>1, <1>2, <1>8, <2>2, <2>3, <2>4, WalkStarts, Zenon
<1>9. CASE /\ WalkPasses(tree, plan, n, TRUE) /\ calls[c].current /\ operation' = next
           /\ calls' = [d \in Calls |-> IF d = c THEN [started[c] EXCEPT !.op = next]
                                        ELSE [calls[d] EXCEPT !.current = FALSE]]
           /\ UNCHANGED lapses
  <2> DEFINE e == Execution(n, ActiveOf(op))
  <2>1. /\ e \in Executions /\ e.completed = n /\ e.active = ActiveOf(op) /\ e # None
        /\ "applying" \in Statuses
    BY <1>3, NoneAssumption DEF Execution, Executions, Statuses
  <2>2. next = With(c, "applying", e) OBVIOUS
  <2> HIDE DEF e, next
  <2>3. /\ next \in Operations /\ next.plan = plan /\ next.status = "applying"
        /\ next.execution = e /\ Durable(next) = n /\ next.sealed = Op(c).sealed
    BY <1>1, <2>1, <2>2, WithIs, WithSealed
  <2>4. next # None /\ ActiveOf(next) = ActiveOf(op) /\ next.execution # None
    BY <2>1, <2>3, NoneAssumption DEF ActiveOf
  <2>5. calls'[c] = [first EXCEPT !.op = next] /\ OthersSame(c) BY <1>4, <1>5, <1>9 DEF OthersSame
  <2>6. /\ calls'[c].pc = "step" /\ calls'[c].completed = n
        /\ Op(c)' = next /\ calls'[c].intent = ActiveOf(op)
    BY <1>5, <1>6, <2>5 DEF Op, Call
  <2>7. /\ calls'[c].completed = Durable(Op(c)) /\ calls'[c].intent = ActiveOf(Op(c)')
        /\ Op(c)' # None /\ Op(c)'.execution # None /\ Op(c)'.status = "applying"
    BY <2>3, <2>4, <2>6
  <2>8. /\ Op(c)' = operation' /\ lapses' = lapses
        /\ operation'.plan = plan /\ operation'.sealed = Op(c).sealed
        /\ Durable(operation') = Durable(Op(c)) /\ ActiveOf(operation') = ActiveOf(Op(c))
    BY <1>9, <2>3, <2>4, <2>6
  <2>9. QED BY <1>1, <1>2, <1>9, <2>5, <2>6, <2>7, <2>8, WalkStarts, Zenon
<1>10. CASE /\ WalkPasses(tree, plan, n, TRUE)
            /\ UNCHANGED operation /\ operation # None /\ operation.status = "applying"
            /\ calls' = [calls EXCEPT ![c] = [started[c] EXCEPT
                           !.op = operation, !.current = TRUE, !.intent = ActiveOf(operation)]]
            /\ lapses' = lapses \cup {"late_call"}
  <2>1. operation.execution # None
    BY <1>10 DEF ApplyInv, JournalTrue, ValidOperation, ValidExecution
  <2>2. /\ calls'[c] = [first EXCEPT !.op = operation, !.current = TRUE,
                                     !.intent = ActiveOf(operation)]
        /\ OthersSame(c)
    BY <1>4, <1>5, <1>10 DEF OthersSame
  <2>3. /\ calls'[c].pc = "step" /\ calls'[c].completed = n
        /\ Op(c)' = operation /\ calls'[c].intent = ActiveOf(operation)
    BY <1>5, <1>6, <2>2 DEF Op, Call
  <2>4. /\ calls'[c].completed = Durable(Op(c)) /\ calls'[c].intent = ActiveOf(Op(c)')
        /\ Op(c)' # None /\ Op(c)'.execution # None /\ Op(c)'.status = "applying"
        /\ Op(c)' = operation' /\ operation' = operation
    BY <1>10, <2>1, <2>3
  <2>5. QED BY <1>1, <1>2, <1>10, <2>2, <2>3, <2>4, WalkStarts, Zenon
<1>11. CASE Leave(c) /\ UNCHANGED operation /\ UNCHANGED lapses
  <2>1. Left(c) BY <1>11, LeaveMoves
  <2>2. QED BY <1>1, <1>2, <1>11, <2>1, PrepareLeft DEF UnchangedPackage
<1>12. QED BY <1>7, <1>8, <1>9, <1>10, <1>11, Zenon DEF Walk, Advanced, started

-----------------------------------------------------------------------------
(* Deaths and failures. *)

\* A writer cut short leaves what its journal says, or a lapse.
LEMMA CutHolds ==
  ASSUME ApplyInv, ApplyInv', OpInv, Onward, NEW c \in Calls, calls[c].pc \in Started \ {"chmod"},
         Left(c), UnchangedPackage, review' = review, edits' = edits, lapses \subseteq lapses',
         tree' = tree, WriterTemps' \subseteq WriterTemps,
         calls[c].pc = "identity" =>
           lapses' # {} \/ WriterTemps' \subseteq WriterTemps \ {calls[c].temp}
  PROVE  OpInv'
<1>1. Refused(c, calls[c].completed, None) BY DEF Refused
<1>2. /\ IsTree(tree)' /\ operation' = operation /\ plan' = plan /\ calls[c].pc \in Started
      /\ calls[c].pc \in ExclusiveSteps
  BY WriterPcs DEF OpInv, BaseInv, Left, UnchangedPackage
<1>3. ASSUME edits = 0
      PROVE  \E n \in 0..Len(plan.steps) : \E m : Onto(c, n, m) /\ tree' = Applied(m)
  <2>1. calls[c].pc # "chmod" /\ PlaceInv BY <1>3 DEF OpInv
  <2>2. PICK n \in 0..Len(plan.steps) : Reached(n) /\ tree = Applied(n) BY <1>2, <2>1, WriterStands
  <2>3. QED BY <2>2 DEF Onto
<1>4. ASSUME edits = 0, lapses' = {} PROVE TempsRecorded'
  <2>1. PlaceInv /\ LitterInv BY <1>4 DEF OpInv
  <2>2. CASE calls[c].pc # "identity"
    <3>1. calls[c].pc \in Started \ {"identity"} BY <2>2
    <3>2. QED BY <1>2, <2>1, <3>1, TempsKept
  <2>3. CASE calls[c].pc = "identity"
    <3>1. \A t \in WriterTemps' : t \in WriterTemps /\ t # calls[c].temp BY <1>4, <2>3
    <3>2. ASSUME operation # None, operation.status # "conflict", NEW t \in WriterTemps'
          PROVE  NamesTemp(operation, t) /\ tree = Applied(Durable(operation))
      <4>1. t \in WriterTemps /\ ~(At(c, "identity") /\ calls[c].temp = t) BY <3>1, <3>2
      <4>2. QED BY <1>2, <2>1, <3>2, <4>1, TempIsActive
    <3>3. After(review'.operator, plan'.steps, Durable(operation')) = Applied(Durable(operation))
      BY <1>2 DEF Applied
    <3>4. QED BY <1>2, <3>2, <3>3, Zenon DEF TempsRecorded, NamesTemp, Applied, Durable, ActiveOf
  <2>4. QED BY <2>2, <2>3
<1>5. None \in {None, ActiveOf(Op(c))} OBVIOUS
<1>6. QED BY <1>1, <1>2, <1>3, <1>4, <1>5, RefusedHolds, Zenon

\* A directory just made is the step's, or has lapsed.
LEMMA ChmodCutHolds ==
  ASSUME ApplyInv, ApplyInv', OpInv, Onward, NEW c \in Calls, calls[c].pc = "chmod",
         Left(c), UnchangedPackage, review' = review, edits' = edits,
         tree' = tree, temps' = temps, lapses \subseteq lapses',
         StepOf(c).after.mode # PrivateMode => "bare_directory" \in lapses'
  PROVE  OpInv'
<1>1. /\ calls[c].pc \in Started /\ calls[c].pc \in ExclusiveSteps /\ calls[c].pc \in InStep
      /\ calls[c].pc \in Started \ {"identity"}
  BY DEF Started, ExclusiveSteps, InStep
<1>2. /\ IsTree(tree)' /\ operation' = operation /\ plan' = plan /\ sealed' = sealed
      /\ WriterTemps' = WriterTemps
  BY DEF OpInv, BaseInv, Left, UnchangedPackage, WriterTemps
<1>3. /\ calls[c].completed \in Nat /\ calls[c].completed < Len(plan.steps)
      /\ Len(plan.steps) \in Nat /\ plan # None /\ review \in Reviews
      /\ StepOf(c) \in RawSteps(review) /\ StepOf(c).kind = "create_directory"
  <2>1. plan # None BY <1>1, WriterPlan
  <2>2. KindAt(c, "chmod") BY <1>1, InsideIs
  <2>3. QED BY <1>1, <2>1, <2>2, InsideIs DEF KindAt
<1>4. StepOf(c).after = Directory(StepOf(c).after.mode) BY <1>3, KindIs
<1>5. ASSUME edits = 0
      PROVE  \E n \in 0..Len(plan.steps) :
               Reached(n) /\ tree = Bare(n) /\ calls[c].completed = n
  <2>1. PICK n \in 0..Len(plan.steps) : Reached(n) /\ tree = Bare(n)
    BY <1>1, <1>5, WriterStands DEF OpInv
  <2>2. Standing(c, n) BY <2>1 DEF Reached
  <2>3. calls[c].completed = n BY <2>2 DEF Standing, Altering
  <2>4. QED BY <2>1, <2>3
<1>6. CASE StepOf(c).after.mode = PrivateMode
  <2>1. Refused(c, calls[c].completed, None) BY DEF Refused
  <2>2. ASSUME edits = 0
        PROVE  \E n \in 0..Len(plan.steps) : \E m : Onto(c, n, m) /\ tree' = Applied(m)
    <3>1. PICK n \in 0..Len(plan.steps) :
            Reached(n) /\ tree = Bare(n) /\ calls[c].completed = n
      BY <1>5, <2>2
    <3>2. Bare(n) = Applied(n + 1) BY <1>1, <1>3, <1>4, <1>6, <3>1, StepTakes, Zenon
    <3>3. Onto(c, n, n + 1) BY <1>3, <3>1 DEF Onto
    <3>4. QED BY <3>1, <3>2, <3>3
  <2>3. ASSUME edits = 0, lapses' = {} PROVE TempsRecorded'
    <3>1. PlaceInv /\ LitterInv BY <2>3 DEF OpInv
    <3>2. QED BY <1>1, <1>2, <3>1, TempsKept
  <2>4. None \in {None, ActiveOf(Op(c))} OBVIOUS
  <2>5. QED BY <1>1, <1>2, <2>1, <2>2, <2>3, <2>4, RefusedHolds, Zenon
<1>7. CASE StepOf(c).after.mode # PrivateMode
  <2>1. BaseInv' BY <1>2, LeftBase DEF OpInv, Left
  <2>2. ASSUME edits = 0 PROVE PlaceInv'
    <3>1. PICK n \in 0..Len(plan.steps) :
            Reached(n) /\ tree = Bare(n) /\ calls[c].completed = n
      BY <1>5, <2>2
    <3>2. PlaceInv /\ Executing /\ Executing'
      <4>1. PlaceInv BY <2>2 DEF OpInv
      <4>2. QED BY <1>1, <1>2, <4>1 DEF PlaceInv, Executing
    <3>3. n \in 0..Len(plan.steps) - 1 BY <1>3, <3>1
    <3>4. StepOf(c) = plan.steps[n + 1] BY <3>1 DEF StepOf, StepIndex
    <3>5. StepOf(c).after # Directory(PrivateMode) BY <1>4, <1>7 DEF Directory
    <3>6. \A d \in Calls : calls'[d].pc \notin Started
      <4>1. OthersSame(c) /\ calls'[c].pc = "idle" /\ "idle" \notin Started
        BY LeftIs DEF Left, Started, ExclusiveSteps
      <4>2. \A d \in Calls \ {c} : calls'[d].pc = calls[d].pc /\ calls[d].pc \notin Started
        BY <1>1, <4>1, OthersWait, OthersAre
      <4>3. QED BY <4>1, <4>2
    <3>7. tree' = Bare(n)' BY <1>2, <3>1, AppliedSame
    <3>8. Frozen(n)' BY <1>2, <1>3, <1>7, <3>4, <3>5, <3>6, <3>7 DEF Frozen
    <3>9. \A d \in Calls : Op(d)' # None => Op(d) # None /\ Op(d)' = Op(d)
      <4>1. OthersSame(c) /\ calls'[c].op = None BY LeftIs DEF Left
      <4>2. \A d \in Calls \ {c} : calls'[d].op = calls[d].op BY <4>1, OthersAre
      <4>3. QED BY <4>1, <4>2 DEF Op
    <3>10. /\ \A d \in Calls : Op(d)' # None /\ Op(d)'.execution # None => Executing'
           /\ ~Executing' => tree' = review'.operator
           /\ \A d \in Calls : calls'[d].pc \in Started => Executing'
      BY <3>2
    <3>11. "late_call" \notin lapses' =>
             \A d \in Calls : Op(d)' # None =>
               operation' # None /\ Durable(Op(d)') <= Durable(operation')
      BY <1>2, <3>2, <3>9 DEF PlaceInv
    <3>12. \E i \in 0..Len(plan'.steps) - 1 : Frozen(i)' BY <1>2, <3>3, <3>8
    <3>13. QED BY <3>10, <3>11, <3>12 DEF PlaceInv, Durable, Op
  <2>3. lapses' # {} BY <1>7
  <2>4. QED BY <2>1, <2>2, <2>3 DEF OpInv
<1>8. QED BY <1>6, <1>7

LEMMA LapsesAre ==
  ASSUME NEW c \in Calls
  PROVE  /\ calls[c].pc \notin Started =>
              BareDirectory(c) = {} /\ UnownedTemp(c) = {} /\ SealedTemp(c) = {} /\ ~Cleans(c)
         /\ calls[c].pc = "chmod" =>
              ~Cleans(c) /\ (StepOf(c).after.mode # PrivateMode => "bare_directory" \in BareDirectory(c))
         /\ calls[c].pc = "identity" =>
              "unowned_temp" \in UnownedTemp(c) /\ (Cleans(c) <=> IsFile(c))
BY DEF BareDirectory, UnownedTemp, SealedTemp, Cleans, Published, At, Started, ExclusiveSteps

LEMMA DieHolds ==
  ASSUME ApplyInv, OpInv, NEW c \in Calls, Die(c)
  PROVE  OpInv'
<1>1. /\ UnchangedProject /\ UnchangedPackage /\ review' = review /\ edits' = edits
      /\ tree' = tree /\ temps' = temps /\ plan' = plan /\ sealed' = sealed
      /\ lapses' = lapses \cup BareDirectory(c) \cup UnownedTemp(c) \cup SealedTemp(c)
      /\ lapses \subseteq lapses' /\ Leave(c) /\ operation' = operation
  BY DEF Die, UnchangedProject, UnchangedPackage
<1>2. ApplyInv' /\ Onward BY DieKeeps
<1>3. Left(c) /\ WriterTemps' = WriterTemps BY <1>1, LeaveMoves DEF WriterTemps
<1>4. CASE calls[c].pc \notin Started
  <2>1. lapses' = lapses BY <1>1, <1>4, LapsesAre
  <2>2. QED BY <1>1, <1>2, <1>3, <1>4, <2>1, PrepareLeft
<1>5. CASE calls[c].pc = "chmod" BY <1>1, <1>2, <1>3, <1>5, LapsesAre, ChmodCutHolds
<1>6. CASE calls[c].pc \in Started \ {"chmod"}
  <2>1. calls[c].pc = "identity" => lapses' # {} BY <1>1, LapsesAre
  <2>2. QED BY <1>1, <1>2, <1>3, <1>6, <2>1, CutHolds
<1>7. QED BY <1>4, <1>5, <1>6

LEMMA ErrHolds ==
  ASSUME ApplyInv, OpInv, NEW c \in Calls, Err(c)
  PROVE  OpInv'
<1>1. /\ UnchangedPackage /\ review' = review /\ edits' = edits /\ begun' = begun
      /\ tree' = tree /\ plan' = plan /\ sealed' = sealed /\ UnchangedView
      /\ temps' = IF Cleans(c) THEN WithoutTemp(calls[c].temp) ELSE temps
      /\ lapses' = lapses \cup BareDirectory(c) \cup (IF Cleans(c) THEN {} ELSE UnownedTemp(c))
      /\ lapses \subseteq lapses' /\ Leave(c) /\ operation' = operation
  BY DEF Err, UnchangedPackage
<1>2. ApplyInv' /\ Onward BY ErrKeeps
<1>3. Left(c) BY <1>1, LeaveMoves
<1>4. /\ Cleans(c) => WriterTemps' = WriterTemps \ {calls[c].temp}
      /\ ~Cleans(c) => WriterTemps' = WriterTemps
  <2>1. Cleans(c) => WriterTemps' = WriterTemps \ {calls[c].temp} BY <1>1, DroppedTemps
  <2>2. ~Cleans(c) => WriterTemps' = WriterTemps BY <1>1 DEF WriterTemps
  <2>3. QED BY <2>1, <2>2
<1>5. CASE calls[c].pc \notin Started
  <2>1. lapses' = lapses /\ temps' = temps BY <1>1, <1>5, LapsesAre
  <2>2. UnchangedProject BY <1>1, <2>1 DEF UnchangedProject, UnchangedView
  <2>3. QED BY <1>1, <1>2, <1>3, <1>5, <2>1, <2>2, PrepareLeft
<1>6. CASE calls[c].pc = "chmod"
  <2>1. temps' = temps /\ (StepOf(c).after.mode # PrivateMode => "bare_directory" \in lapses')
    BY <1>1, <1>6, LapsesAre
  <2>2. QED BY <1>1, <1>2, <1>3, <1>6, <2>1, ChmodCutHolds
<1>7. CASE calls[c].pc \in Started \ {"chmod"}
  <2>1. WriterTemps' \subseteq WriterTemps BY <1>4
  <2>2. calls[c].pc = "identity" =>
          lapses' # {} \/ WriterTemps' \subseteq WriterTemps \ {calls[c].temp}
    BY <1>1, <1>4, LapsesAre
  <2>3. QED BY <1>1, <1>2, <1>3, <1>7, <2>1, <2>2, CutHolds
<1>8. QED BY <1>5, <1>6, <1>7

-----------------------------------------------------------------------------
(* The operator, and every step. *)

LEMMA OperatorHolds ==
  ASSUME ApplyInv, OpInv, OperatorEdit \/ OperatorTakesName
  PROVE  OpInv'
<1>1. /\ edits' = edits + 1 /\ operation' = operation /\ plan' = plan /\ sealed' = sealed
      /\ calls' = calls
  BY DEF OperatorEdit, OperatorTakesName
<1>2. IsTree(tree)'
  <2>1. CASE OperatorEdit BY <2>1 DEF OperatorEdit
  <2>2. CASE OperatorTakesName BY <2>2 DEF OperatorTakesName, OpInv, BaseInv
  <2>3. QED BY <2>1, <2>2
<1>3. edits' \in Nat /\ edits' # 0 BY <1>1 DEF OpInv, BaseInv
<1>4. PackageInv' /\ \A c \in Calls : Positioned(c)'
  BY <1>1 DEF OpInv, BaseInv, PackageInv, DocBacked, Packing, Positioned, StepOf, StepIndex, Op,
              PackageWhole, NextPayload
<1>5. QED BY <1>2, <1>3, <1>4 DEF OpInv, BaseInv

LEMMA OpInit == InitApply => OpInv
<1> SUFFICES ASSUME InitApply PROVE OpInv OBVIOUS
<1>1. /\ review \in Reviews /\ tree = review.operator /\ temps = << >>
      /\ operation = None /\ plan = None /\ edits = 0 /\ calls = [c \in Calls |-> Nobody]
  BY DEF InitApply
<1>2. \A c \in Calls : /\ calls[c].pc = "idle" /\ Op(c) = None /\ calls[c].completed = 0
                      /\ calls[c].intent = None
  BY <1>1 DEF Nobody, Op
<1>3. IsTree(tree) BY <1>1, ReviewsAssumption, Zenon DEF IsProject
<1>4. "idle" \notin Started \cup ExclusiveSteps \cup SharedSteps \cup Publishing \cup Altering
  BY DEF Started, ExclusiveSteps, SharedSteps, Publishing, Altering
<1>5. PackageInv BY <1>1, <1>2, <1>4 DEF PackageInv, DocBacked, DocHolds, Packing
<1>6. \A c \in Calls : Positioned(c) BY <1>2, <1>4 DEF Positioned
<1>7. PlaceInv BY <1>1, <1>2, <1>4 DEF PlaceInv, Executing
<1>8. WriterTemps = {} BY <1>1 DEF WriterTemps
<1>9. LitterInv
  <2>1. \A c \in Calls : StatusFits(c) /\ Frontiers(c)
    BY <1>2, <1>4, <1>8, Zenon DEF StatusFits, Frontiers
  <2>2. QED BY <1>1, <1>2, <1>8, <2>1 DEF LitterInv, ActivePublishes, TempsRecorded
<1>10. QED BY <1>1, <1>3, <1>5, <1>6, <1>7, <1>9 DEF OpInv, BaseInv

LEMMA OpStutters ==
  ASSUME OpInv, UNCHANGED applyVars
  PROVE  OpInv'
<1>1. /\ review' = review /\ tree' = tree /\ temps' = temps /\ operation' = operation
      /\ plan' = plan /\ sealed' = sealed /\ calls' = calls /\ edits' = edits /\ lapses' = lapses
  BY DEF applyVars
<1>2. BaseInv' = BaseInv
  BY <1>1 DEF BaseInv, PackageInv, DocBacked, Packing, Positioned, StepOf, StepIndex, Op,
              PackageWhole, NextPayload
<1>3. PlaceInv' = PlaceInv
  BY <1>1 DEF PlaceInv, Executing, Reached, Recorded, Standing, Frozen, Bare, Applied, Op, At
<1>4. LitterInv' = LitterInv
  BY <1>1 DEF LitterInv, Executing, WriterTemps, StatusFits, Frontiers, ActivePublishes, Prior,
              StepIndex, TempsRecorded, NamesTemp, Applied, Op, At, ActiveOf, Durable
<1>5. QED BY <1>1, <1>2, <1>3, <1>4 DEF OpInv

LEMMA ViewShrinks ==
  ASSUME NEW c \in Calls, Begin(c) \/ CallStep(c) \/ Die(c) \/ Err(c)
  PROVE  edits' = edits /\ edited' \in {edited, {}} /\ removed' \in {removed, {}}
<1>1. CASE PrepareStep(c)
  <2>1. UnchangedProject
    BY <1>1 DEF PrepareStep, LockShared, OpenOperation, Observe, CreateOperation, Probe,
                BuildPlan, PublishPlan, CommitPlan, Seal, CommitPayload, CommitPrepared
  <2>2. QED BY <2>1 DEF UnchangedProject
<1>2. CASE Begin(c) \/ Die(c) \/ Err(c) BY <1>2 DEF Begin, Die, Err, UnchangedProject, UnchangedView
<1>3. CASE \/ LoadForExecution(c) \/ LockExclusive(c) \/ Walk(c) \/ PrepareTemp(c)
           \/ CommitIntent(c) \/ FinalWalk(c) \/ Finish(c) \/ Done(c)
  <2>1. UnchangedProject
    BY <1>3 DEF LoadForExecution, LockExclusive, Walk, PrepareTemp, CommitIntent, FinalWalk,
                Finish, Done
  <2>2. QED BY <2>1 DEF UnchangedProject
<1>4. CASE \/ RemoveLeaf(c) \/ RemoveDirectory(c) \/ CreateDirectory(c) \/ ChmodDirectory(c)
           \/ SetMode(c)
  <2>1. UnchangedElse
    BY <1>4 DEF RemoveLeaf, RemoveDirectory, CreateDirectory, ChmodDirectory, SetMode
  <2>2. QED BY <2>1 DEF UnchangedElse, UnchangedView
<1>5. CASE \/ CleanTemp(c) \/ CreateTemp(c) \/ CommitIdentity(c) \/ WriteTemp(c)
           \/ PublishNew(c) \/ PublishReplacement(c) \/ Verify(c) \/ CommitProgress(c)
  <2>1. edits' = edits /\ UnchangedView
    BY <1>5 DEF CleanTemp, CreateTemp, CommitIdentity, WriteTemp, PublishNew,
                PublishReplacement, Verify, CommitProgress
  <2>2. QED BY <2>1 DEF UnchangedView
<1>6. CASE ExecuteStep(c) \/ OpenForMode(c) \/ CheckReplaced(c)
  BY <1>6 DEF ExecuteStep, OpenForMode, CheckReplaced
<1>7. QED BY <1>1, <1>2, <1>3, <1>4, <1>5, <1>6 DEF CallStep, WriteStep

LEMMA UneditedStep ==
  ASSUME OpInv, NothingMissed, [ApplyNext]_applyVars
  PROVE  NothingMissed'
<1>1. CASE \E c \in Calls : Begin(c) \/ CallStep(c) \/ Die(c) \/ Err(c)
  BY <1>1, ViewShrinks DEF NothingMissed
<1>2. CASE OperatorEdit \/ OperatorTakesName
  <2>1. edits' = edits + 1 BY <1>2 DEF OperatorEdit, OperatorTakesName
  <2>2. QED BY <2>1 DEF OpInv, BaseInv, NothingMissed
<1>3. CASE UNCHANGED applyVars BY <1>3 DEF applyVars, NothingMissed
<1>4. QED BY <1>1, <1>2, <1>3 DEF ApplyNext

LEMMA WriteStepHolds ==
  ASSUME ApplyInv, OpInv, NothingMissed, NEW c \in Calls, WriteStep(c)
  PROVE  OpInv'
<1>1. ApplyInv' BY WriteKeeps
<1>2. CASE LoadForExecution(c) \/ LockExclusive(c) \/ Walk(c)
  BY <1>1, <1>2, LoadForExecutionHolds, LockExclusiveHolds, WalkHolds
<1>3. CASE ExecuteStep(c) \/ RemoveLeaf(c) \/ RemoveDirectory(c)
  BY <1>3, ExecuteStepHolds, RemoveLeafHolds, RemoveDirectoryHolds
<1>4. CASE CreateDirectory(c) \/ ChmodDirectory(c) \/ OpenForMode(c) \/ SetMode(c)
  BY <1>4, CreateDirectoryHolds, ChmodDirectoryHolds, OpenForModeHolds, SetModeHolds
<1>5. CASE PrepareTemp(c) \/ CleanTemp(c) \/ CommitIntent(c)
  BY <1>5, PrepareTempHolds, CleanTempHolds, CommitIntentHolds
<1>6. CASE CreateTemp(c) \/ CommitIdentity(c) \/ WriteTemp(c)
  BY <1>6, CreateTempHolds, CommitIdentityHolds, WriteTempHolds
<1>7. CASE PublishNew(c) \/ CheckReplaced(c) \/ PublishReplacement(c) \/ Verify(c)
  BY <1>7, PublishNewHolds, CheckReplacedHolds, PublishReplacementHolds, VerifyHolds
<1>8. CASE CommitProgress(c) \/ FinalWalk(c) \/ Finish(c)
  BY <1>8, CommitProgressHolds, FinalWalkHolds, FinishHolds
<1>9. CASE Done(c) BY <1>1, <1>9, DoneHolds
<1>10. QED BY <1>2, <1>3, <1>4, <1>5, <1>6, <1>7, <1>8, <1>9 DEF WriteStep

LEMMA OpStep ==
  ASSUME ApplyInv, OpInv, NothingMissed, [ApplyNext]_applyVars
  PROVE  OpInv'
<1>1. ApplyInv' BY ApplyStep
<1>2. ASSUME NEW c \in Calls, Begin(c) \/ CallStep(c) \/ Die(c) \/ Err(c) PROVE OpInv'
  <2>1. CASE Begin(c) BY <1>1, <2>1, BeginHolds
  <2>2. CASE PrepareStep(c) BY <1>1, <2>2, PrepareStepHolds
  <2>3. CASE WriteStep(c) BY <2>3, WriteStepHolds
  <2>4. CASE Die(c) \/ Err(c) BY <2>4, DieHolds, ErrHolds
  <2>5. QED BY <1>2, <2>1, <2>2, <2>3, <2>4 DEF CallStep
<1>3. CASE OperatorEdit \/ OperatorTakesName BY <1>3, OperatorHolds
<1>4. CASE UNCHANGED applyVars BY <1>4, OpStutters
<1>5. QED BY <1>2, <1>3, <1>4 DEF ApplyNext

-----------------------------------------------------------------------------
(* What the invariants say. *)

LEMMA TypeIs ==
  ASSUME ApplyInv, OpInv
  PROVE  ApplyTypeOK
<1>1. operation # None => ValidOperation(operation) BY DEF ApplyInv, JournalTrue
<1>2. IsTree(tree) BY DEF OpInv, BaseInv
<1>3. ASSUME NEW c \in Calls, calls[c].pc \in ExclusiveSteps
      PROVE  plan # None /\ calls[c].completed <= Len(plan.steps)
  <2>1. plan # None /\ Len(plan.steps) \in Nat BY <1>3, WriterPlan
  <2>2. CASE calls[c].pc \in Started BY <2>1, <2>2 DEF ApplyInv, CallTrue, WriterReady
  <2>3. CASE calls[c].pc = "walk"
    <3>1. calls[c].completed = 0 BY <2>3 DEF OpInv, BaseInv, Positioned, Started, ExclusiveSteps
    <3>2. QED BY <2>1, <3>1
  <2>4. QED BY <1>3, <2>2, <2>3 DEF Started
<1>4. QED BY <1>1, <1>2, <1>3 DEF ApplyTypeOK

LEMMA BackedIs ==
  ASSUME ApplyInv, OpInv
  PROVE  PackageBacked
<1> SUFFICES ASSUME operation # None, operation.plan # None
             PROVE  /\ plan = operation.plan
                    /\ \A k \in 1..operation.sealed : Payloads(plan)[k] \in sealed
                    /\ operation.status \in Running \cup {"prepared"} => PackageWhole(operation)
  BY DEF PackageBacked
<1>1. plan = operation.plan BY DEF ApplyInv, JournalTrue
<1>2. DocHolds(operation, plan, sealed) BY DEF OpInv, BaseInv, PackageInv, DocBacked
<1>3. QED BY <1>1, <1>2 DEF DocHolds, PackageWhole

LEMMA PrefixIs ==
  ASSUME ApplyInv, OpInv
  PROVE  PlanPrefix
<1> SUFFICES ASSUME edits = 0, Executing
             PROVE  \/ \E n \in Durable(operation)..Len(plan.steps) :
                         /\ tree = Applied(n)
                         /\ "late_call" \notin lapses => n <= Durable(operation) + 1
                         /\ operation.status = "applied" => n = Len(plan.steps)
                    \/ tree \in MidStep \cup Interrupted
  BY DEF PlanPrefix, Executing, OpInv, PlaceInv
<1>1. PlaceInv BY DEF OpInv
<1>2. /\ operation # None /\ operation \in Operations /\ operation.plan = plan
      /\ DurableIn(operation) = Durable(operation) /\ Durable(operation) \in Nat
  BY StoredIs, DocsAre, DurableIs DEF Executing
<1>3. plan # None
  <2>1. ValidOperation(operation) BY StoredIs DEF Executing
  <2>2. operation.status \in Running BY <2>1 DEF ValidOperation, ValidExecution, Executing
  <2>3. QED BY <1>2, <2>1, <2>2 DEF ValidOperation
<1>4. /\ Follows(review) /\ Len(plan.steps) \in Nat
      /\ DOMAIN plan.steps = 1..Len(plan.steps)
  BY <1>3, PlanFollows, StepsAre
<1>5. CASE \E n \in 0..Len(plan.steps) : Reached(n) /\ tree = Applied(n)
  <2>1. PICK n \in 0..Len(plan.steps) : Reached(n) /\ tree = Applied(n) BY <1>5
  <2>2. Recorded(n) BY <2>1 DEF Reached
  <2>3. /\ n \in Durable(operation)..Len(plan.steps)
        /\ "late_call" \notin lapses => n <= Durable(operation) + 1
        /\ operation.status = "applied" => n = Len(plan.steps)
    BY <1>2, <1>4, <2>2 DEF Recorded
  <2>4. QED BY <2>1, <2>3
<1>6. CASE \E n \in 0..Len(plan.steps) :
             Reached(n) /\ tree = Bare(n) /\ \E c \in Calls : At(c, "chmod")
  <2>1. PICK n \in 0..Len(plan.steps) :
          Reached(n) /\ tree = Bare(n) /\ \E c \in Calls : At(c, "chmod")
    BY <1>6
  <2>2. PICK c \in Calls : At(c, "chmod") BY <2>1
  <2>3. calls[c].completed = n
    <3>1. Standing(c, n) BY <2>1 DEF Reached
    <3>2. QED BY <2>2, <3>1 DEF Standing, At, Altering
  <2>4. tree = [Applied(calls[c].completed) EXCEPT ![PathOf(c)] = Directory(PrivateMode)]
    BY <2>1, <2>3 DEF Bare, PathOf, StepOf, StepIndex
  <2>5. tree \in MidStep BY <2>2, <2>4, Zenon DEF MidStep
  <2>6. QED BY <2>5
<1>7. CASE \E n \in 0..Len(plan.steps) - 1 : Frozen(n)
  <2>1. PICK n \in 0..Len(plan.steps) - 1 : Frozen(n) BY <1>7
  <2>2. n + 1 \in DOMAIN plan.steps /\ (n + 1) - 1 = n BY <1>4
  <2>3. tree = [Applied((n + 1) - 1) EXCEPT ![plan.steps[n + 1].path] = Directory(PrivateMode)]
    BY <2>1, <2>2 DEF Frozen, Bare
  <2>4. "bare_directory" \in lapses /\ plan.steps[n + 1].kind = "create_directory"
    BY <2>1 DEF Frozen
  <2>5. tree \in Interrupted BY <2>2, <2>3, <2>4 DEF Interrupted
  <2>6. QED BY <2>5
<1>8. QED BY <1>1, <1>3, <1>5, <1>6, <1>7 DEF PlaceInv

LEMMA LitterIs ==
  ASSUME ApplyInv, OpInv
  PROVE  NoLitter
<1> SUFFICES ASSUME operation # None, operation.status = "applied", lapses = {}, edits = 0,
                    NEW t \in WriterTemps
             PROVE  FALSE
  BY DEF NoLitter, WriterTemps
<1>1. PlaceInv /\ LitterInv BY DEF OpInv
<1>2. /\ ValidOperation(operation) /\ operation.execution # None
      /\ ActiveOf(operation) = None
  BY DEF ApplyInv, JournalTrue, ValidOperation, ValidExecution, ActiveOf
<1>3. ~NamesTemp(operation, t) BY <1>2 DEF NamesTemp
<1>4. PICK c \in Calls : At(c, "identity") BY <1>1, <1>3 DEF LitterInv, TempsRecorded
<1>5. /\ calls[c].pc \in Started /\ calls[c].pc \in InStep /\ calls[c].pc \in Publishing
      /\ calls[c].pc \in ExclusiveSteps
  BY <1>4 DEF At, Started, ExclusiveSteps, InStep, Publishing
<1>6. /\ calls[c].completed < Len(plan.steps) /\ Len(plan.steps) \in Nat
      /\ calls[c].completed \in Nat
  BY <1>5, HoldingIs
<1>7. PICK n \in 0..Len(plan.steps) : Reached(n) /\ calls[c].completed = n
  BY <1>1, <1>5, PublishingStands
<1>8. n = Len(plan.steps) BY <1>7 DEF Reached, Recorded
<1>9. QED BY <1>6, <1>7, <1>8

-----------------------------------------------------------------------------
(* Paths below paths. *)

\* A prefix, name by name.
LEMMA PathsAre ==
  ASSUME NEW p \in Paths
  PROVE  p \in Seq(Names) /\ Len(p) \in Nat /\ Len(p) > 0 /\ DOMAIN p = 1..Len(p)
<1>1. p \in Seq(Names) /\ p # <<>> BY PathsAreSequences, PathsAreNonEmpty DEF Paths
<1>2. QED BY <1>1

LEMMA StartOf ==
  ASSUME NEW s \in Seq(Names), NEW n \in 0..Len(s)
  PROVE  /\ SubSeq(s, 1, n) \in Seq(Names) /\ Len(SubSeq(s, 1, n)) = n
         /\ \A i \in 1..n : SubSeq(s, 1, n)[i] = s[i]
<1>1. QED OBVIOUS

LEMMA PrefixEach ==
  ASSUME NEW a \in Paths, NEW p \in Paths
  PROVE  IsPrefix(a, p) <=> Len(a) <= Len(p) /\ \A i \in 1..Len(a) : a[i] = p[i]
<1>1. /\ a \in Seq(Names) /\ Len(a) \in Nat
      /\ p \in Seq(Names) /\ Len(p) \in Nat
  BY PathsAre
<1>2. SubSeq(a, 1, Len(a)) \in Seq(Names) /\ Len(SubSeq(a, 1, Len(a))) = Len(a)
      /\ \A i \in 1..Len(a) : SubSeq(a, 1, Len(a))[i] = a[i]
  BY <1>1, StartOf
<1>3. CASE Len(a) <= Len(p)
  <2>1. SubSeq(p, 1, Len(a)) \in Seq(Names) /\ Len(SubSeq(p, 1, Len(a))) = Len(a)
        /\ \A i \in 1..Len(a) : SubSeq(p, 1, Len(a))[i] = p[i]
    BY <1>1, <1>3, StartOf
  <2> DEFINE u == SubSeq(a, 1, Len(a))
             v == SubSeq(p, 1, Len(a))
  <2>2. u = v <=> \A i \in 1..Len(a) : u[i] = v[i]
    <3>1. /\ u \in Seq(Names) /\ Len(u) = Len(a) /\ v \in Seq(Names) /\ Len(v) = Len(a)
      BY <1>2, <2>1
    <3> HIDE DEF u, v
    <3>2. QED BY <1>1, <3>1
  <2>3. QED BY <1>2, <1>3, <2>1, <2>2 DEF IsPrefix
<1>4. QED BY <1>3 DEF IsPrefix

LEMMA AboveIs ==
  ASSUME NEW p \in Paths, NEW a \in Above(p)
  PROVE  a \in Paths /\ Len(a) < Len(p) /\ \A i \in 1..Len(a) : a[i] = p[i]
<1>1. a \in Paths /\ IsPrefix(a, p) /\ a # p BY DEF Above, IsStrictPrefix
<1>2. Len(a) <= Len(p) /\ \A i \in 1..Len(a) : a[i] = p[i] BY <1>1, PrefixEach
<1>3. Len(a) # Len(p)
  <2>1. a \in Seq(Names) /\ p \in Seq(Names) BY <1>1, PathsAre
  <2>2. QED BY <1>1, <1>2, <2>1
<1>4. QED BY <1>1, <1>2, <1>3, PathsAre

LEMMA AreAbove ==
  ASSUME NEW p \in Paths, NEW a \in Paths, Len(a) < Len(p), \A i \in 1..Len(a) : a[i] = p[i]
  PROVE  a \in Above(p) /\ p \in Below(a)
<1>1. IsPrefix(a, p) /\ a # p BY PrefixEach, PathsAre
<1>2. QED BY <1>1 DEF Above, Below, IsStrictPrefix

LEMMA BelowIs ==
  ASSUME NEW p \in Paths, NEW q \in Below(p)
  PROVE  q \in Paths /\ p \in Above(q)
BY DEF Below, Above

\* The child of a directory on the way to a path below it.
LEMMA ChildOnWay ==
  ASSUME NEW b \in Paths, NEW q \in Below(b)
  PROVE  \E c \in Below(b) : Len(c) = Len(b) + 1 /\ (c = q \/ c \in Above(q))
<1>1. q \in Paths /\ b \in Above(q) BY BelowIs
<1>2. Len(b) < Len(q) /\ \A i \in 1..Len(b) : b[i] = q[i] BY <1>1, AboveIs
<1>3. /\ q \in Seq(Names) /\ Len(q) \in Nat /\ Len(b) \in Nat BY <1>1, PathsAre
<1> DEFINE n == Len(b) + 1
           c == SubSeq(q, 1, n)
<1>4. n \in 1..Len(q) /\ n \in 0..Len(q) BY <1>2, <1>3
<1>5. c \in Paths BY <1>1, <1>4, PathsAreClosed
<1>6. Len(c) = n /\ \A i \in 1..n : c[i] = q[i] BY <1>3, <1>4, StartOf
<1> HIDE DEF c
<1>7. c \in Below(b)
  <2>1. Len(b) < Len(c) /\ \A i \in 1..Len(b) : b[i] = c[i] BY <1>2, <1>3, <1>6
  <2>2. QED BY <1>5, <2>1, AreAbove
<1>8. c = q \/ c \in Above(q)
  <2>1. CASE Len(c) < Len(q) BY <1>1, <1>5, <1>6, <2>1, AreAbove
  <2>2. CASE Len(c) = Len(q)
    <3>1. c \in Seq(Names) BY <1>5, PathsAre
    <3>2. QED BY <1>3, <1>6, <2>2, <3>1
  <2>3. QED BY <1>3, <1>4, <1>6, <2>1, <2>2
<1>9. QED BY <1>6, <1>7, <1>8

LEMMA BelowAll ==
  ASSUME NEW b \in Paths, NEW c \in Below(b), NEW a \in Paths, IsPrefix(c, a)
  PROVE  a \in Below(b) /\ (a = c \/ c \in Above(a))
<1>1. c \in Paths /\ b \in Above(c) BY BelowIs
<1>2. /\ Len(b) < Len(c) /\ \A i \in 1..Len(b) : b[i] = c[i]
      /\ Len(c) <= Len(a) /\ \A i \in 1..Len(c) : c[i] = a[i]
      /\ Len(a) \in Nat /\ Len(b) \in Nat /\ Len(c) \in Nat
  BY <1>1, AboveIs, PrefixEach, PathsAre
<1>3. a \in Below(b)
  <2>1. Len(b) < Len(a) /\ \A i \in 1..Len(b) : b[i] = a[i] BY <1>2
  <2>2. QED BY <2>1, AreAbove
<1>4. a = c \/ c \in Above(a) BY <1>1 DEF Above, IsStrictPrefix
<1>5. QED BY <1>3, <1>4

-----------------------------------------------------------------------------
(* What a walk that passes has seen. *)

\* A preflight of the plan of a review passes, and can reach what the plan removes.
WalkOn(r) ==
  /\ Follows(r) /\ Plannable(r)
  /\ IsTree(tree)
  /\ WalkPasses(tree, plan, 0, TRUE) /\ RemovalsReachable

LEMMA ReviewIs ==
  ASSUME NEW r \in Reviews
  PROVE  /\ \A p \in Paths : IsNode(r.baseline[p]) /\ IsNode(r.operator[p]) /\ IsNode(r.result[p])
         /\ IsTree(r.baseline) /\ IsTree(r.operator) /\ IsTree(r.result)
BY ReviewsAssumption, Zenon DEF IsProject

\* The nodes of a plan's last steps are the reviewed ones.
LEMMA FinalIs ==
  ASSUME NEW r, Follows(r), Plannable(r), NEW p \in PlannedPaths(plan)
  PROVE  /\ p \in Paths /\ p \in Transformed(r)
         /\ FinalState(plan, p) = r.result[p]
<1> DEFINE n == Len(plan.steps)
<1>1. PICK k \in DOMAIN plan.steps : plan.steps[k].path = p BY DEF PlannedPaths
<1>2. /\ p \in Transformed(r) /\ p \in Paths /\ DOMAIN plan.steps = 1..n /\ n \in Nat
      /\ plan.steps = Ordered(RawSteps(r))
  BY <1>1, StepsAre
<1>3. After(r.operator, plan.steps, n)[p] = r.result[p]
  BY <1>2 DEF Plannable, Projection, Transformed
<1>4. DoneOn(p, n) = StepsOn(plan.steps, p) /\ DoneOn(p, n) # {} BY <1>1, <1>2 DEF DoneOn, StepsOn
<1>5. After(r.operator, plan.steps, n)[p] = plan.steps[LastOf(DoneOn(p, n))].after
  BY <1>2, <1>4, AfterIs
<1>6. QED BY <1>2, <1>3, <1>4, <1>5 DEF FinalState

\* Every path that changes has a step or is a no-op.
LEMMA AffectedAre ==
  ASSUME NEW r, Follows(r), Plannable(r)
  PROVE  /\ PlannedPaths(plan) = Transformed(r)
         /\ DOMAIN plan.noops = Changes(r) \ Transformed(r)
         /\ \A p \in DOMAIN plan.noops : plan.noops[p] = r.result[p]
         /\ AffectedPaths(plan) = Changes(r)
<1> DEFINE n == Len(plan.steps)
<1>1. PlannedPaths(plan) \subseteq Transformed(r) BY FinalIs
<1>2. ASSUME NEW p \in Transformed(r) PROVE p \in PlannedPaths(plan)
  <2>1. p \in Paths /\ p \in Changes(r) /\ r.operator[p] # r.result[p] BY DEF Transformed, Changes
  <2>2. /\ plan.steps = Ordered(RawSteps(r)) /\ DOMAIN plan.steps = 1..n /\ n \in Nat BY StepsAre
  <2>3. After(r.operator, plan.steps, n)[p] = r.result[p] BY <2>1, <2>2 DEF Plannable, Projection
  <2>4. DoneOn(p, n) # {} BY <2>1, <2>3, AfterIs, Zenon
  <2>5. QED BY <2>4 DEF DoneOn, StepsOn, PlannedPaths
<1>3. plan.noops = [p \in Changes(r) \ Transformed(r) |-> r.result[p]] BY DEF Follows, PlanOf
<1>4. Transformed(r) \subseteq Changes(r) BY DEF Transformed
<1>5. QED BY <1>1, <1>2, <1>3, <1>4 DEF AffectedPaths

LEMMA ObservedIs ==
  ASSUME IsTree(tree), NEW p \in Paths
  PROVE  Observed(tree, p) = tree[p]
BY PresentReached DEF Observed

\* A directory that goes away is removed by its first step.
LEMMA DirectoryGoes ==
  ASSUME NEW r, Follows(r), Plannable(r), NEW p \in PlannedPaths(plan),
         IsDirectory(r.operator[p]), ~IsDirectory(r.result[p])
  PROVE  plan.steps[FirstOf(StepsOn(plan.steps, p))].kind = "remove_directory"
<1> DEFINE on == StepsOn(plan.steps, p)
           f == FirstOf(on)
           s == plan.steps[f]
<1>1. DOMAIN plan.steps = 1..Len(plan.steps) /\ Len(plan.steps) \in Nat BY StepsAre
<1>2. on \subseteq 1..Len(plan.steps) /\ on # {} BY <1>1 DEF StepsOn, PlannedPaths
<1>3. f \in on /\ \A k \in on : f <= k
  <2> HIDE DEF on
  <2>1. QED BY <1>1, <1>2, FirstAndLast, Zenon
<1>4. f \in DOMAIN plan.steps /\ s.path = p BY <1>3 DEF StepsOn
<1>5. DoneOn(s.path, f - 1) = {} BY <1>1, <1>2, <1>3, <1>4 DEF DoneOn
<1> HIDE DEF f
<1>6. s.before = r.operator[p] /\ s \in RawSteps(r) BY <1>4, <1>5, FirstBefore, StepsAre
<1>7. Removal(r, s) \/ Creation(r, s) \/ Replacement(r, s) \/ Retouch(r, s) BY <1>6, RawStepIs
<1>8. r.operator[p].kind # r.result[p].kind BY DEF IsDirectory
<1>9. s.before # Absent BY <1>6 DEF IsDirectory, Absent
<1>10. Removal(r, s) BY <1>4, <1>7, <1>8, <1>9 DEF Creation, Replacement, Retouch
<1>11. s.kind = "remove_directory" BY <1>4, <1>10 DEF Removal, RemoveKind
<1>12. QED BY <1>11 DEF f

\* A planned path is at its result, or where its first step starts, or already gone.
LEMMA WalkSaw ==
  ASSUME NEW r, WalkOn(r), NEW p \in PlannedPaths(plan)
  PROVE  \/ tree[p] = r.result[p]
         \/ /\ tree[p] = r.operator[p]
            /\ \A a \in Above(p) \ Changes(r) : IsDirectory(tree[a])
            /\ IsDirectory(r.operator[p]) /\ ~IsDirectory(r.result[p])
                 => OnlyPlannedChildren(tree, plan, p)
         \/ /\ tree[p] = Absent
            /\ \E j \in StepsOn(plan.steps, p) : Removal(r, plan.steps[j])
<1> DEFINE on == StepsOn(plan.steps, p)
           f == FirstOf(on)
<1>1. Follows(r) /\ Plannable(r) /\ IsTree(tree) BY DEF WalkOn
<1>2. p \in Paths /\ FinalState(plan, p) = r.result[p] BY <1>1, FinalIs
<1>3. Observed(tree, p) = tree[p] BY <1>1, <1>2, ObservedIs
<1>4. DOMAIN plan.steps = 1..Len(plan.steps) /\ Len(plan.steps) \in Nat BY <1>1, StepsAre
<1>5. on \subseteq 1..Len(plan.steps) /\ on # {} BY <1>4 DEF StepsOn, PlannedPaths
<1>6. f \in on /\ \A k \in on : f <= k
  <2> HIDE DEF on
  <2>1. QED BY <1>4, <1>5, FirstAndLast, Zenon
<1>7. plan.steps[f].before = r.operator[p]
  <2>1. f \in DOMAIN plan.steps /\ plan.steps[f].path = p BY <1>6 DEF StepsOn
  <2>2. DoneOn(plan.steps[f].path, f - 1) = {} BY <1>4, <1>5, <1>6, <2>1 DEF DoneOn
  <2> HIDE DEF f
  <2>3. QED BY <1>1, <2>1, <2>2, FirstBefore
<1>8. {k \in on : k <= 0} = {} /\ on \ {} = on BY <1>5
<1>9. PathHolds(tree, plan, p, 0, TRUE) BY Zenon DEF WalkOn, WalkPasses
<1>10. \/ tree[p] = r.result[p]
       \/ /\ tree[p] = plan.steps[f].before
          /\ AncestorsThere(tree, plan, p)
          /\ plan.steps[f].kind = "remove_directory" => OnlyPlannedChildren(tree, plan, p)
       \/ \E k \in on : tree[p] = plan.steps[k].after
  <2>1. \/ Observed(tree, p) = FinalState(plan, p)
        \/ /\ Observed(tree, p) = plan.steps[f].before
           /\ AncestorsThere(tree, plan, p)
           /\ plan.steps[f].kind = "remove_directory" => OnlyPlannedChildren(tree, plan, p)
        \/ \E k \in on : Observed(tree, p) = plan.steps[k].after
    BY <1>8, <1>9, Zenon DEF PathHolds
  <2>2. QED BY <1>2, <1>3, <2>1
<1>11. CASE tree[p] = r.result[p] BY <1>11
<1>12. CASE /\ tree[p] = plan.steps[f].before
            /\ AncestorsThere(tree, plan, p)
            /\ plan.steps[f].kind = "remove_directory" => OnlyPlannedChildren(tree, plan, p)
  <2>1. \A a \in Above(p) \ Changes(r) : IsDirectory(tree[a])
    <3>1. AffectedPaths(plan) = Changes(r) BY <1>1, AffectedAre
    <3>2. \A a \in Above(p) : a \in Paths BY DEF Above
    <3>3. QED BY <1>1, <1>12, <3>1, <3>2, ObservedIs DEF AncestorsThere
  <2>2. IsDirectory(r.operator[p]) /\ ~IsDirectory(r.result[p])
          => OnlyPlannedChildren(tree, plan, p)
    BY <1>1, <1>12, DirectoryGoes
  <2>3. QED BY <1>7, <1>12, <2>1, <2>2
<1>13. CASE \E k \in on : tree[p] = plan.steps[k].after
  <2>1. PICK k \in on : tree[p] = plan.steps[k].after BY <1>13
  <2>2. plan.steps[k] \in RawSteps(r) /\ plan.steps[k].path = p
    BY <1>1, <1>4, <1>5, <2>1, StepsAre DEF StepsOn
  <2>3. \/ plan.steps[k].after = r.result[p]
        \/ plan.steps[k].after = Absent /\ Removal(r, plan.steps[k])
    BY <2>2, RawStepIs DEF Removal, Creation, Replacement, Retouch
  <2>4. QED BY <2>1, <2>3
<1>14. QED BY <1>10, <1>11, <1>12, <1>13

LEMMA NoopSaw ==
  ASSUME NEW r, WalkOn(r), NEW p \in Changes(r) \ Transformed(r)
  PROVE  p \in Paths /\ tree[p] = r.result[p]
<1>1. Follows(r) /\ Plannable(r) /\ IsTree(tree) BY DEF WalkOn
<1>2. p \in Paths /\ p \in DOMAIN plan.noops /\ plan.noops[p] = r.result[p]
  BY <1>1, AffectedAre DEF Changes
<1>3. NoopHolds(tree, plan, p) BY <1>2 DEF WalkOn, WalkPasses
<1>4. QED BY <1>1, <1>2, <1>3, ObservedIs DEF NoopHolds

\* The project the writer meets, path by path.
LEMMA MetIs ==
  ASSUME NEW r, WalkOn(r), NEW k \in DOMAIN plan.steps, NEW q \in Paths
  PROVE  /\ q \notin PlannedPaths(plan) => Met(tree, k - 1)[q] = tree[q]
         /\ q \in PlannedPaths(plan) /\ tree[q] = r.result[q] => Met(tree, k - 1)[q] = tree[q]
         /\ q \in PlannedPaths(plan) /\ tree[q] # r.result[q] =>
              Met(tree, k - 1)[q] = IF DoneOn(q, k - 1) = {} THEN tree[q]
                                    ELSE plan.steps[LastOf(DoneOn(q, k - 1))].after
<1>1. Follows(r) /\ Plannable(r) BY DEF WalkOn
<1>2. q \in PlannedPaths(plan) => FinalState(plan, q) = r.result[q] BY <1>1, FinalIs
<1>3. After(tree, plan.steps, k - 1)[q] = IF DoneOn(q, k - 1) = {} THEN tree[q]
                                          ELSE plan.steps[LastOf(DoneOn(q, k - 1))].after
  BY AfterIs, Zenon
<1>4. q \notin PlannedPaths(plan) => DoneOn(q, k - 1) = {} BY DEF DoneOn, StepsOn, PlannedPaths
<1>5. Met(tree, k - 1)[q] =
        IF q \in PlannedPaths(plan) /\ tree[q] = FinalState(plan, q) THEN tree[q]
        ELSE After(tree, plan.steps, k - 1)[q]
  BY DEF Met
<1>6. QED BY <1>2, <1>3, <1>4, <1>5

\* What a step leaves once it was taken, if it is the path's last step so far.
LEMMA MetAfter ==
  ASSUME NEW r, WalkOn(r), NEW k \in DOMAIN plan.steps, NEW l \in DOMAIN plan.steps, l < k,
         ~Removal(r, plan.steps[l]) \/ r.result[plan.steps[l].path] = Absent
  PROVE  Met(tree, k - 1)[plan.steps[l].path] \in {r.result[plan.steps[l].path], plan.steps[l].after}
<1> DEFINE q == plan.steps[l].path
           done == DoneOn(q, k - 1)
           m == LastOf(done)
<1>1. Follows(r) /\ Plannable(r) BY DEF WalkOn
<1>2. DOMAIN plan.steps = 1..Len(plan.steps) /\ Len(plan.steps) \in Nat /\ q \in Paths
      /\ q \in PlannedPaths(plan)
  BY <1>1, StepsAre DEF PlannedPaths
<1>3. l \in done BY <1>2 DEF DoneOn, StepsOn
<1>4. m \in done /\ l <= m
  <2>1. done # {} BY <1>3
  <2> HIDE DEF q
  <2>2. QED BY <1>1, <1>3, <2>1, DoneOnIs
<1>5. m \in DOMAIN plan.steps /\ plan.steps[m].path = q BY <1>4 DEF DoneOn, StepsOn
<1>6. m = l
  <2>1. SUFFICES ASSUME l < m PROVE FALSE BY <1>2, <1>4, <1>5
  <2> HIDE DEF m, done
  <2>2. Removal(r, plan.steps[l]) /\ Creation(r, plan.steps[m]) BY <1>1, <1>5, <2>1, TwoSteps
  <2>3. r.result[q] # Absent BY <1>5, <2>2 DEF Creation
  <2>4. QED BY <2>2, <2>3
<1>7. QED BY <1>2, <1>3, <1>6, MetIs

\* Before a path's first step the project is where the walk saw it.
LEMMA MetBefore ==
  ASSUME NEW r, WalkOn(r), NEW k \in DOMAIN plan.steps, NEW q \in Paths, DoneOn(q, k - 1) = {}
  PROVE  Met(tree, k - 1)[q] = tree[q]
BY MetIs

\* The writer finds a path where its step starts, or the step done.
LEMMA MetReady ==
  ASSUME NEW r, WalkOn(r), NEW k \in DOMAIN plan.steps
  PROVE  LET p == plan.steps[k].path
             node == Met(tree, k - 1)[p]
         IN  node \in {FinalState(plan, p), plan.steps[k].after} \/ node = ModelState(plan, k)
<1> DEFINE p == plan.steps[k].path
           node == Met(tree, k - 1)[p]
<1>1. Follows(r) /\ Plannable(r) BY DEF WalkOn
<1>2. /\ DOMAIN plan.steps = 1..Len(plan.steps) /\ Len(plan.steps) \in Nat /\ p \in Paths
      /\ p \in PlannedPaths(plan) /\ plan.steps = Ordered(RawSteps(r))
  BY <1>1, StepsAre DEF PlannedPaths
<1>3. ModelState(plan, k) = plan.steps[k].before BY <1>2, ModelStateIs
<1>4. FinalState(plan, p) = r.result[p] BY <1>1, <1>2, FinalIs
<1>5. CASE DoneOn(p, k - 1) = {}
  <2>1. node = tree[p] /\ plan.steps[k].before = r.operator[p]
    BY <1>1, <1>2, <1>5, MetBefore, FirstBefore
  <2>2. \/ tree[p] = r.result[p] \/ tree[p] = r.operator[p]
        \/ tree[p] = Absent /\ \E j \in StepsOn(plan.steps, p) : Removal(r, plan.steps[j])
    <3> HIDE DEF p
    <3>1. QED BY <1>2, WalkSaw
  <2>3. ASSUME tree[p] = Absent, NEW j \in StepsOn(plan.steps, p), Removal(r, plan.steps[j])
        PROVE  node = plan.steps[k].after
    <3>1. j \in DOMAIN plan.steps /\ plan.steps[j].path = p /\ ~(j < k)
      BY <1>2, <1>5 DEF DoneOn, StepsOn
    <3>2. j = k
      <4>1. SUFFICES ASSUME k < j PROVE FALSE BY <1>2, <3>1
      <4>2. Creation(r, plan.steps[j]) BY <1>1, <3>1, <4>1, TwoSteps
      <4>3. QED BY <2>3, <4>2 DEF Removal, Creation
    <3>3. QED BY <2>1, <2>3, <3>2 DEF Removal
  <2>4. QED BY <1>3, <1>4, <2>1, <2>2, <2>3
<1>6. CASE DoneOn(p, k - 1) # {}
  <2>1. PICK l \in DoneOn(p, k - 1) : TRUE BY <1>6
  <2>2. l \in DOMAIN plan.steps /\ plan.steps[l].path = p /\ l < k BY <1>2, <2>1 DEF DoneOn, StepsOn
  <2>3. Removal(r, plan.steps[l]) /\ Creation(r, plan.steps[k]) BY <1>1, <2>2, TwoSteps
  <2> DEFINE m == LastOf(DoneOn(p, k - 1))
  <2>4. m \in DoneOn(p, k - 1)
    <3> HIDE DEF p
    <3>1. QED BY <1>1, <1>6, DoneOnIs
  <2>5. m \in DOMAIN plan.steps /\ plan.steps[m].path = p /\ m < k BY <1>2, <2>4 DEF DoneOn, StepsOn
  <2> HIDE DEF m
  <2>6. Removal(r, plan.steps[m]) BY <1>1, <2>5, TwoSteps
  <2>7. node = r.result[p] \/ node = plan.steps[m].after BY <1>2, <1>6, MetIs DEF m
  <2>8. plan.steps[m].after = Absent /\ plan.steps[k].before = Absent
    BY <2>3, <2>6 DEF Removal, Creation
  <2>9. QED BY <1>3, <1>4, <2>7, <2>8
<1>7. QED BY <1>5, <1>6

\* Removals come first, the deepest before the others.
LEMMA RemovalsFirst ==
  ASSUME NEW r, Follows(r), NEW k \in DOMAIN plan.steps, NEW l \in DOMAIN plan.steps,
         Phase(plan.steps[k]) = 10
  PROVE  /\ l < k => Phase(plan.steps[l]) = 10
                     /\ Len(plan.steps[l].path) >= Len(plan.steps[k].path)
         /\ Phase(plan.steps[l]) = 10 /\ Len(plan.steps[l].path) > Len(plan.steps[k].path)
              => l < k
<1> DEFINE s == plan.steps[l]
           t == plan.steps[k]
<1>1. /\ s \in RawSteps(r) /\ t \in RawSteps(r) /\ s.path \in Paths /\ t.path \in Paths
      /\ k \in Nat /\ l \in Nat
      /\ l < k => Precedes(s, t)
      /\ k < l => Precedes(t, s)
  BY StepsAre
<1>2. Len(s.path) \in Nat /\ Len(t.path) \in Nat BY <1>1, PathsAre
<1>3. Phase(s) \in {10, 30, 40, 50, 60}
  BY <1>1, RawStepIs DEF Removal, Creation, Replacement, Retouch
<1> HIDE DEF s, t
<1>4. Phase(t) = 10 BY DEF t
<1>5. l < k => Phase(s) = 10 /\ Len(s.path) >= Len(t.path) BY <1>1, <1>2, <1>3, <1>4 DEF Precedes
<1>6. Phase(s) = 10 /\ Len(s.path) > Len(t.path) => l < k
  <2>1. SUFFICES ASSUME Phase(s) = 10, Len(s.path) > Len(t.path), ~(l < k) PROVE FALSE OBVIOUS
  <2>2. l # k BY <1>2, <2>1 DEF s, t
  <2>3. Precedes(t, s) BY <1>1, <2>1, <2>2
  <2>4. QED BY <1>2, <1>4, <2>1, <2>3 DEF Precedes
<1>7. QED BY <1>5, <1>6 DEF s, t

\* A directory is there before anything is put in it.
LEMMA DirectoriesFirst ==
  ASSUME NEW r, Follows(r), NEW k \in DOMAIN plan.steps, NEW l \in DOMAIN plan.steps,
         Phase(plan.steps[k]) # 10, Phase(plan.steps[l]) = 30,
         Len(plan.steps[l].path) < Len(plan.steps[k].path)
  PROVE  l < k
<1> DEFINE s == plan.steps[l]
           t == plan.steps[k]
<1>1. /\ s \in RawSteps(r) /\ t \in RawSteps(r) /\ s.path \in Paths /\ t.path \in Paths
      /\ k \in Nat /\ l \in Nat
      /\ k < l => Precedes(t, s)
  BY StepsAre
<1>2. Len(s.path) \in Nat /\ Len(t.path) \in Nat BY <1>1, PathsAre
<1>3. Phase(t) \in {10, 30, 40, 50, 60}
  BY <1>1, RawStepIs DEF Removal, Creation, Replacement, Retouch
<1>4. l # k BY <1>2
<1> HIDE DEF s, t
<1>5. Phase(t) # 10 /\ Phase(s) = 30 /\ Len(s.path) < Len(t.path) BY DEF s, t
<1>6. ~Precedes(t, s) BY <1>2, <1>3, <1>5 DEF Precedes
<1>7. QED BY <1>1, <1>4, <1>6

\* What is not a removal leaves an object where the result has one.
LEMMA ResultThere ==
  ASSUME NEW r, Follows(r), NEW k \in DOMAIN plan.steps, Phase(plan.steps[k]) # 10
  PROVE  r.result[plan.steps[k].path] # Absent
<1> DEFINE s == plan.steps[k]
           old == r.operator[s.path]
           new == r.result[s.path]
<1>1. s \in RawSteps(r) /\ s.path \in Paths /\ s.path \in Transformed(r) /\ r \in Reviews
  BY StepsAre DEF Follows
<1>2. old # new /\ IsNode(old) /\ IsNode(new) BY <1>1, ReviewIs DEF Transformed
<1>3. Creation(r, s) \/ old.kind = new.kind BY <1>1, RawStepIs DEF Removal, Replacement, Retouch
<1> HIDE DEF s, old, new
<1>4. CASE old.kind = new.kind
  <2>1. SUFFICES ASSUME new = Absent PROVE FALSE BY DEF s, old, new
  <2>2. old.kind = "absent" BY <1>4, <2>1 DEF Absent
  <2>3. old = Absent BY <1>2, <2>2 DEF IsNode, Directory, File, Symlink
  <2>4. QED BY <1>2, <2>1, <2>3
<1>5. CASE Creation(r, s) BY <1>5 DEF Creation, s
<1>6. QED BY <1>3, <1>4, <1>5

\* The directories of what is removed are still there.
LEMMA RemovalReached ==
  ASSUME NEW r, WalkOn(r), NEW k \in DOMAIN plan.steps, Phase(plan.steps[k]) = 10
  PROVE  Reachable(Met(tree, k - 1), plan.steps[k].path)
<1> DEFINE p == plan.steps[k].path
<1>1. Follows(r) /\ Reachable(tree, p) BY DEF WalkOn, RemovalsReachable
<1>2. DOMAIN plan.steps = 1..Len(plan.steps) /\ Len(plan.steps) \in Nat /\ p \in Paths
  BY <1>1, StepsAre
<1>3. SUFFICES ASSUME NEW a \in Above(p) PROVE IsDirectory(Met(tree, k - 1)[a])
  BY DEF Reachable, Broken
<1>4. IsDirectory(tree[a]) BY <1>1 DEF Reachable, Broken
<1>5. a \in Paths /\ Len(a) < Len(p) /\ Len(a) \in Nat /\ Len(p) \in Nat BY <1>2, AboveIs, PathsAre
<1>6. DoneOn(a, k - 1) = {}
  <2>1. SUFFICES ASSUME NEW l \in DoneOn(a, k - 1) PROVE FALSE OBVIOUS
  <2>2. l \in DOMAIN plan.steps /\ plan.steps[l].path = a /\ l < k BY <1>2, <2>1 DEF DoneOn, StepsOn
  <2>3. QED BY <1>1, <1>5, <2>2, RemovalsFirst
<1>7. QED BY <1>4, <1>5, <1>6, MetBefore

\* The directories of what is created or changed are there.
LEMMA CreationReached ==
  ASSUME NEW r, WalkOn(r), NEW k \in DOMAIN plan.steps, Phase(plan.steps[k]) # 10
  PROVE  Reachable(Met(tree, k - 1), plan.steps[k].path)
<1> DEFINE p == plan.steps[k].path
<1>1. Follows(r) /\ Plannable(r) /\ r \in Reviews /\ IsTree(tree) BY DEF WalkOn, Follows
<1>2. /\ DOMAIN plan.steps = 1..Len(plan.steps) /\ Len(plan.steps) \in Nat /\ p \in Paths
      /\ p \in PlannedPaths(plan)
  BY <1>1, StepsAre DEF PlannedPaths
<1>3. SUFFICES ASSUME NEW a \in Above(p) PROVE IsDirectory(Met(tree, k - 1)[a])
  BY DEF Reachable, Broken
<1>4. a \in Paths /\ Len(a) < Len(p) /\ Len(a) \in Nat /\ Len(p) \in Nat BY <1>2, AboveIs, PathsAre
<1>5. IsDirectory(r.result[a])
  <2>1. r.result[p] # Absent BY <1>1, ResultThere
  <2>2. QED BY <1>1, <1>2, <2>1, ReviewIs DEF IsTree, Present
<1>6. CASE a \notin Changes(r)
  <2>1. a \notin PlannedPaths(plan) BY <1>1, <1>6, AffectedAre DEF Transformed
  <2>2. IsDirectory(tree[a])
    <3>1. CASE tree[p] # Absent BY <1>1, <1>2, <3>1 DEF IsTree, Present
    <3>2. CASE tree[p] = Absent
      <4>1. tree[p] # r.result[p] BY <1>1, <3>2, ResultThere
      <4>2. \/ \A b \in Above(p) \ Changes(r) : IsDirectory(tree[b])
            \/ \E j \in StepsOn(plan.steps, p) : Removal(r, plan.steps[j])
        <5> HIDE DEF p
        <5>1. QED BY <1>2, <4>1, WalkSaw
      <4>3. ASSUME NEW j \in StepsOn(plan.steps, p), Removal(r, plan.steps[j])
            PROVE  IsDirectory(tree[a])
        <5>1. Reachable(tree, p) BY <4>3 DEF WalkOn, RemovalsReachable, StepsOn, Removal
        <5>2. QED BY <5>1 DEF Reachable, Broken
      <4>4. QED BY <1>6, <4>2, <4>3
    <3>3. QED BY <3>1, <3>2
  <2>3. QED BY <1>4, <2>1, <2>2, MetIs
<1>7. CASE a \in Changes(r) \ Transformed(r)
  <2>1. a \notin PlannedPaths(plan) BY <1>1, <1>7, AffectedAre
  <2>2. QED BY <1>4, <1>5, <1>7, <2>1, NoopSaw, MetIs
<1>8. CASE a \in Transformed(r) /\ r.operator[a].kind # r.result[a].kind
  <2> DEFINE s == Step(a, CreateKind(r.result[a]), Absent, r.result[a])
  <2>1. r.result[a] # Absent BY <1>5 DEF IsDirectory, Absent
  <2>2. s \in RawSteps(r) BY <1>8, <2>1 DEF RawSteps, Substitution
  <2>3. PICK l \in DOMAIN plan.steps : plan.steps[l] = s BY <1>1, <2>2, StepsAre
  <2>4. s.path = a /\ s.kind = "create_directory" /\ s.after = r.result[a]
    BY <1>5 DEF Step, CreateKind, IsDirectory
  <2>5. Phase(s) = 30 BY <2>4 DEF Phase
  <2>6. l < k BY <1>1, <1>4, <2>3, <2>4, <2>5, DirectoriesFirst
  <2>7. ~Removal(r, s) BY <2>5 DEF Removal
  <2> HIDE DEF s
  <2>8. Met(tree, k - 1)[a] \in {r.result[a], s.after}
    <3>1. ~Removal(r, plan.steps[l]) BY <2>3, <2>7
    <3>2. Met(tree, k - 1)[plan.steps[l].path]
            \in {r.result[plan.steps[l].path], plan.steps[l].after}
      BY <2>6, <3>1, MetAfter
    <3>3. QED BY <2>3, <2>4, <3>2
  <2>9. QED BY <1>5, <2>4, <2>8
<1>9. CASE a \in Transformed(r) /\ r.operator[a].kind = r.result[a].kind
  <2>1. a \in PlannedPaths(plan) BY <1>1, <1>9, AffectedAre
  <2>2. ASSUME NEW l \in DOMAIN plan.steps, plan.steps[l].path = a
        PROVE  ~Removal(r, plan.steps[l]) /\ plan.steps[l].after = r.result[a]
    <3>1. plan.steps[l] \in RawSteps(r) BY <1>1, StepsAre
    <3>2. QED BY <1>9, <2>2, <3>1, RawStepIs DEF Removal, Creation, Replacement, Retouch
  <2>3. CASE DoneOn(a, k - 1) = {}
    <3>1. tree[a] = r.result[a] \/ tree[a] = r.operator[a] BY <2>1, <2>2, WalkSaw DEF StepsOn
    <3>2. IsDirectory(tree[a]) BY <1>5, <1>9, <3>1 DEF IsDirectory
    <3>3. QED BY <1>4, <2>3, <3>2, MetBefore
  <2>4. CASE DoneOn(a, k - 1) # {}
    <3>1. PICK l \in DoneOn(a, k - 1) : TRUE BY <2>4
    <3>2. l \in DOMAIN plan.steps /\ plan.steps[l].path = a /\ l < k
      BY <1>2, <3>1 DEF DoneOn, StepsOn
    <3>3. ~Removal(r, plan.steps[l]) /\ plan.steps[l].after = r.result[a] BY <2>2, <3>2
    <3>4. Met(tree, k - 1)[a] = r.result[a] BY <3>2, <3>3, MetAfter
    <3>5. QED BY <1>5, <3>4
  <2>5. QED BY <2>3, <2>4
<1>10. QED BY <1>6, <1>7, <1>8, <1>9

\* A project the walk accepts holds nothing unplanned in a directory that goes away.
GoesAbove(r, q, b) ==
  /\ b \in Above(q) /\ b \in PlannedPaths(plan)
  /\ IsDirectory(r.operator[b]) /\ ~IsDirectory(r.result[b])
  /\ OnlyPlannedChildren(tree, plan, b)

LEMMA NextGoes ==
  ASSUME NEW r, WalkOn(r), NEW q \in Paths, tree[q] # Absent, q \notin PlannedPaths(plan),
         NEW b, GoesAbove(r, q, b)
  PROVE  \E c \in Paths : Len(c) = Len(b) + 1 /\ GoesAbove(r, q, c)
<1>1. Follows(r) /\ Plannable(r) /\ r \in Reviews /\ IsTree(tree) BY DEF WalkOn, Follows
<1>2. /\ IsTree(r.baseline) /\ IsTree(r.result)
      /\ b \in Paths /\ q \in Below(b) /\ ~IsDirectory(r.result[b])
      /\ OnlyPlannedChildren(tree, plan, b)
  BY <1>1, ReviewIs DEF GoesAbove, Above, Below
<1>3. PICK c \in Below(b) : Len(c) = Len(b) + 1 /\ (c = q \/ c \in Above(q)) BY <1>2, ChildOnWay
<1>4. c \in Paths /\ c \in Present(tree)
  <2>1. c \in Above(q) => IsDirectory(tree[c]) BY <1>1 DEF IsTree, Present
  <2>2. c \in Paths BY <1>2, BelowIs
  <2>3. QED BY <1>3, <2>1, <2>2 DEF Present, IsDirectory, Absent
<1>5. \A x \in Below(b) : r.result[x] = Absent BY <1>2, NothingBelow DEF Below, Present
<1>6. PICK a \in AffectedPaths(plan) : IsPrefix(c, a) BY <1>2, <1>3, <1>4 DEF OnlyPlannedChildren
<1>7. a \in Changes(r) /\ a \in Paths BY <1>1, <1>6, AffectedAre DEF Changes
<1>8. a \in Below(b) /\ (a = c \/ c \in Above(a)) BY <1>2, <1>6, <1>7, BelowAll
<1>9. r.baseline[a] # Absent BY <1>5, <1>7, <1>8 DEF Changes
<1>10. r.baseline[c] # Absent
  <2>1. c \in Above(a) => IsDirectory(r.baseline[c]) BY <1>2, <1>7, <1>9 DEF IsTree, Present
  <2>2. QED BY <1>8, <1>9, <2>1 DEF IsDirectory, Absent
<1>11. c \in Changes(r) /\ r.result[c] = Absent /\ tree[c] # Absent
  BY <1>4, <1>5, <1>10 DEF Changes, Present
<1>12. c \in PlannedPaths(plan) BY <1>1, <1>11, NoopSaw, AffectedAre
<1>13. c # q /\ c \in Above(q) BY <1>3, <1>12
<1>14. IsDirectory(tree[c]) /\ ~IsDirectory(r.result[c])
  BY <1>1, <1>11, <1>13 DEF IsTree, Present, IsDirectory, Absent
<1>15. tree[c] = r.operator[c] /\ OnlyPlannedChildren(tree, plan, c) BY <1>11, <1>12, <1>14, WalkSaw
<1>16. QED BY <1>3, <1>4, <1>12, <1>13, <1>14, <1>15 DEF GoesAbove

LEMMA NoStray ==
  ASSUME NEW r, WalkOn(r), NEW q \in Paths, tree[q] # Absent, q \notin PlannedPaths(plan), NEW b
  PROVE  ~GoesAbove(r, q, b)
<1> SUFFICES ASSUME GoesAbove(r, q, b) PROVE FALSE OBVIOUS
<1> DEFINE S == {n \in Nat : \E x \in Paths : GoesAbove(r, q, x) /\ n = Len(q) - Len(x)}
<1>1. ASSUME NEW x, GoesAbove(r, q, x)
      PROVE  x \in Paths /\ Len(q) \in Nat /\ Len(x) \in Nat /\ Len(q) - Len(x) \in S
  <2>1. x \in Above(q) BY <1>1 DEF GoesAbove
  <2>2. x \in Paths /\ Len(x) < Len(q) /\ Len(q) \in Nat /\ Len(x) \in Nat
    BY <2>1, AboveIs, PathsAre
  <2>3. Len(q) - Len(x) \in Nat BY <2>2
  <2>4. QED BY <1>1, <2>2, <2>3
<1>2. S \subseteq Nat /\ S # {} BY <1>1, Zenon
<1>3. PICK n \in S : \A m \in S : n <= m
  <2> HIDE DEF S
  <2>1. QED BY <1>2, LeastElement, Zenon
<1>4. PICK x \in Paths : GoesAbove(r, q, x) /\ n = Len(q) - Len(x) BY <1>3
<1>5. PICK c \in Paths : Len(c) = Len(x) + 1 /\ GoesAbove(r, q, c) BY <1>4, NextGoes
<1>6. /\ Len(q) - Len(c) \in S
      /\ Len(q) \in Nat /\ Len(x) \in Nat
  BY <1>1, <1>4, <1>5, Zenon
<1> HIDE DEF S
<1>7. n <= Len(q) - Len(c) BY <1>3, <1>6
<1>8. QED BY <1>4, <1>5, <1>6, <1>7

\* A directory is empty when its removal comes.
LEMMA RemovedEmpty ==
  ASSUME NEW r, WalkOn(r), NEW k \in DOMAIN plan.steps,
         plan.steps[k].kind = "remove_directory",
         Met(tree, k - 1)[plan.steps[k].path]
           \notin {FinalState(plan, plan.steps[k].path), plan.steps[k].after}
  PROVE  Below(plan.steps[k].path) \cap Present(Met(tree, k - 1)) = {}
<1> DEFINE p == plan.steps[k].path
           met == Met(tree, k - 1)
<1>1. Follows(r) /\ Plannable(r) /\ r \in Reviews /\ IsTree(tree) BY DEF WalkOn, Follows
<1>2. /\ DOMAIN plan.steps = 1..Len(plan.steps) /\ Len(plan.steps) \in Nat /\ p \in Paths
      /\ p \in PlannedPaths(plan) /\ plan.steps[k] \in RawSteps(r) /\ p \in Transformed(r)
  BY <1>1, StepsAre DEF PlannedPaths
<1>3. Phase(plan.steps[k]) = 10 /\ Removal(r, plan.steps[k])
  <2>1. Phase(plan.steps[k]) = 10 BY DEF Phase
  <2>2. QED BY <1>2, <2>1, RawStepIs DEF Creation, Replacement, Retouch
<1>4. IsDirectory(r.operator[p]) /\ ~IsDirectory(r.result[p])
  BY <1>1, <1>2, <1>3, KindIs DEF Removal, IsDirectory
<1>5. DoneOn(p, k - 1) = {}
  <2>1. SUFFICES ASSUME NEW l \in DoneOn(p, k - 1) PROVE FALSE OBVIOUS
  <2>2. l \in DOMAIN plan.steps /\ plan.steps[l].path = p /\ l < k BY <1>2, <2>1 DEF DoneOn, StepsOn
  <2>3. Creation(r, plan.steps[k]) BY <1>1, <2>2, TwoSteps
  <2>4. QED BY <1>3, <2>3 DEF Creation
<1>6. met[p] = tree[p] /\ FinalState(plan, p) = r.result[p] /\ plan.steps[k].after = Absent
  BY <1>1, <1>2, <1>3, <1>5, MetBefore, FinalIs DEF Removal
<1>7. tree[p] # r.result[p] /\ tree[p] # Absent BY <1>6
<1>8. OnlyPlannedChildren(tree, plan, p)
  <2> HIDE DEF p, met
  <2>1. QED BY <1>2, <1>4, <1>7, WalkSaw
<1>9. SUFFICES ASSUME NEW q \in Below(p), met[q] # Absent PROVE FALSE BY DEF Present
<1>10. q \in Paths /\ p \in Above(q) /\ Len(p) < Len(q) BY <1>2, BelowIs, AboveIs
<1>11. r.result[q] = Absent BY <1>1, <1>2, <1>4, <1>9, ReviewIs, NothingBelow DEF Below, Present
<1>12. CASE q \notin PlannedPaths(plan)
  <2>1. tree[q] # Absent BY <1>9, <1>10, <1>12, MetIs
  <2>2. GoesAbove(r, q, p) BY <1>2, <1>4, <1>8, <1>10 DEF GoesAbove
  <2>3. QED BY <1>10, <1>12, <2>1, <2>2, NoStray
<1>13. CASE q \in PlannedPaths(plan)
  <2>1. q \in Transformed(r) /\ r.operator[q] # Absent
    BY <1>1, <1>11, <1>13, FinalIs DEF Transformed
  <2>2. r.operator[q].kind # r.result[q].kind
    <3>1. IsNode(r.operator[q]) BY <1>1, <1>10, ReviewIs
    <3>2. QED BY <1>11, <2>1, <3>1 DEF IsNode, Absent, Directory, File, Symlink
  <2> DEFINE old == r.operator[q]
             s == Step(q, RemoveKind(old), old, Absent)
  <2>3. s \in RawSteps(r) BY <2>1, <2>2 DEF RawSteps, Substitution
  <2>4. s.path = q /\ s.after = Absent /\ s.kind \in {"remove_leaf", "remove_directory"}
    BY DEF Step, RemoveKind
  <2>5. Phase(s) = 10 BY <2>4 DEF Phase
  <2>6. PICK l \in DOMAIN plan.steps : plan.steps[l] = s BY <1>1, <2>3, StepsAre
  <2> HIDE DEF s, old, p, met
  <2>7. l < k
    <3>1. Len(q) > Len(p) BY <1>10, PathsAre, <1>2
    <3>2. QED BY <1>1, <1>3, <2>4, <2>5, <2>6, <3>1, RemovalsFirst DEF p
  <2>8. Met(tree, k - 1)[plan.steps[l].path]
          \in {r.result[plan.steps[l].path], plan.steps[l].after}
    BY <1>11, <2>4, <2>6, <2>7, MetAfter
  <2>9. QED BY <1>9, <1>11, <2>4, <2>6, <2>8 DEF met
<1>14. QED BY <1>12, <1>13

\* A project a preflight accepts takes every step of the plan.
LEMMA WalkReplays ==
  ASSUME NEW r, WalkOn(r)
  PROVE  Replays(tree)
<1> SUFFICES ASSUME NEW k \in DOMAIN plan.steps
             PROVE  LET met == Met(tree, k - 1)
                        p == plan.steps[k].path
                    IN  \/ StepDone(met, plan, k)
                        \/ /\ StepReady(met, plan, k)
                           /\ plan.steps[k].kind = "remove_directory"
                                => Below(p) \cap Present(met) = {}
  BY DEF Replays
<1>1. Reachable(Met(tree, k - 1), plan.steps[k].path) BY RemovalReached, CreationReached
<1>2. CASE Met(tree, k - 1)[plan.steps[k].path]
             \in {FinalState(plan, plan.steps[k].path), plan.steps[k].after}
  BY <1>1, <1>2 DEF StepDone
<1>3. CASE Met(tree, k - 1)[plan.steps[k].path]
             \notin {FinalState(plan, plan.steps[k].path), plan.steps[k].after}
  <2>1. StepReady(Met(tree, k - 1), plan, k) BY <1>1, <1>3, MetReady DEF StepReady
  <2>2. plan.steps[k].kind = "remove_directory"
          => Below(plan.steps[k].path) \cap Present(Met(tree, k - 1)) = {}
    BY <1>3, RemovedEmpty
  <2>3. QED BY <2>1, <2>2
<1>4. QED BY <1>2, <1>3

LEMMA WalkIs ==
  ASSUME ApplyInv, OpInv
  PROVE  WalkSound
<1> SUFFICES ASSUME InState("prepared"), WalkPasses(tree, plan, 0, TRUE), RemovalsReachable
             PROVE  Replays(tree)
  BY DEF WalkSound
<1>1. operation # None /\ operation.status = "prepared" /\ ValidOperation(operation)
      /\ operation.plan \in {None, plan}
  BY DEF InState, ApplyInv, JournalTrue
<1>2. plan # None BY <1>1 DEF ValidOperation
<1>3. Follows(review) /\ Plannable(review) BY <1>2 DEF ApplyInv, JournalTrue, Follows
<1>4. IsTree(tree) BY DEF OpInv, BaseInv
<1>5. QED BY <1>3, <1>4, WalkReplays, Zenon DEF WalkOn

-----------------------------------------------------------------------------
(* The theorems. *)

\* A writer changes the project only at the path of the step it is at, takes an object
\* away only by a step that is to replace or remove it, no directory but an empty one,
\* and finds it as planned unless the operator edited that very path after the writer
\* looked; it removes no object of the operator's at a temp's name before the rename
\* that frees the name; and unless a late call writes, the recorded progress never goes
\* back: whatever dies, fails or is edited meanwhile.
THEOREM ProjectKeptAlways == ApplySpec => ProjectKept
<1>1. InitApply => ApplyInv BY ApplyInit
<1>2. ApplyInv /\ [ApplyNext]_applyVars => ApplyInv' BY ApplyStep
<1>3. ASSUME ApplyInv, [ApplyNext]_applyVars PROVE TreeSafe /\ TempsSafe
  BY <1>3, ApplyStep DEF Safe
<1>4. ASSUME ApplyInv, [ApplyNext]_applyVars
      PROVE  operation # None /\ operation' # operation /\ "late_call" \notin lapses
               => Durable(operation') >= Durable(operation)
  BY <1>4, ApplyStep DEF Onward
<1>5. QED BY <1>1, <1>2, <1>3, <1>4, PTL DEF ApplySpec, ProjectKept, OperatorKept, ProgressMonotone

\* The journal, the package and the project agree after any deaths, overlaps, failures
\* and edits: the journal names a plan and payloads that are published, an undisturbed
\* project is the reviewed one with a prefix of the plan applied, a preflight that
\* passed holds to the last step, and an applied operation has left no temp.
THEOREM OperationTrueAlways == ApplySpec => []OperationTrue
<1> DEFINE IInv == ApplyInv /\ OpInv /\ NothingMissed
<1>1. InitApply => IInv BY ApplyInit, OpInit DEF InitApply, NothingMissed
<1>2. IInv /\ [ApplyNext]_applyVars => IInv' BY ApplyStep, OpStep, UneditedStep
<1>3. IInv => OperationTrue BY TypeIs, BackedIs, PrefixIs, WalkIs, LitterIs DEF OperationTrue
<1>4. QED BY <1>1, <1>2, <1>3, PTL DEF ApplySpec
=============================================================================
