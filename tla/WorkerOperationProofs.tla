------------------------ MODULE WorkerOperationProofs ------------------------
(***************************************************************************)
(* Theorems about one worker's operation, for any length of its log and    *)
(* any bounds of pages and capture.                                        *)
(***************************************************************************)
EXTENDS WorkerOperation, Integers, FiniteSetTheorems, TLAPS

Stages == {"create", "drain", "poll", "sleep", "drain_terminal", "cancel",
           "cancel_early", "done"}
Outcomes == {"completed", "worker_failed", "worker_timeout", "thrown"}

\* The types the argument needs; those of the log are in LogTypes.
Types ==
  /\ op \in {"none"} \union Polled
  /\ cancels \in Seq({"taken", "lost"})
  /\ active \in BOOLEAN /\ recorded \in BOOLEAN /\ known \in BOOLEAN
  /\ cause \in {"none", "user_signal", "timeout"}
  /\ pc \in Stages
  /\ status \in {"none", "unreadable"} \union Polled
  /\ outcome \in Outcomes

\* What the caller knows of the operation at each exchange: until it has
\* returned it stays signalable and has sent no cancel, after the create's
\* answer there is an operation, it cancels only what was claimed, and the
\* chain of drains follows a terminal status that is still the operation's.
ExchangeInv ==
  /\ active = (pc # "done")
  /\ pc # "done" => cancels = <<>> /\ known = (pc # "create")
  /\ pc = "create" => op = "none"
  /\ known => op \in Polled
  /\ pc \in {"cancel", "cancel_early"} => cause # "none"
  /\ pc = "drain_terminal" => op \in Terminal /\ status = op
  /\ recorded => cause = "user_signal"

WorkerInv == Types /\ ExchangeInv /\ OutcomeHonest /\ CancelAccounted

LEMMA WorkerInvInit == Init => WorkerInv
<1>. SUFFICES ASSUME Init PROVE WorkerInv
  OBVIOUS
<1>1. Types
  <2>1. cancels \in Seq({"taken", "lost"})
    BY DEF Init
  <2>2. active \in BOOLEAN /\ recorded \in BOOLEAN /\ known \in BOOLEAN
    BY DEF Init
  <2>3. QED
    BY <2>1, <2>2 DEF Init, Types, Stages, Outcomes
<1>2. ExchangeInv
  BY DEF Init, ExchangeInv
<1>3. OutcomeHonest /\ CancelAccounted
  BY DEF Init, OutcomeHonest, CancelAccounted
<1>4. QED
  BY <1>1, <1>2, <1>3 DEF WorkerInv

\* The claims end with the operation's registration.
LEMMA HubInv ==
  ASSUME WorkerInv, ClaimTimeout \/ ForwardUserSignal
  PROVE  WorkerInv'
<1>1. pc # "done" /\ UNCHANGED <<op, cancels, active, pc, known, status, outcome>>
  BY DEF WorkerInv, ExchangeInv, ClaimTimeout, ForwardUserSignal, daemon
<1>2. Types'
  BY <1>1 DEF WorkerInv, Types, ClaimTimeout, ForwardUserSignal
<1>3. ExchangeInv'
  BY <1>1 DEF WorkerInv, ExchangeInv, ClaimTimeout, ForwardUserSignal
<1>4. OutcomeHonest' /\ CancelAccounted'
  BY <1>1 DEF OutcomeHonest, CancelAccounted
<1>5. QED
  BY <1>2, <1>3, <1>4 DEF WorkerInv

\* What the daemon does to an operation that is over changes nothing.
LEMMA DaemonInv ==
  ASSUME WorkerInv, Worker
  PROVE  WorkerInv'
<1>1. UNCHANGED <<cancels, active, cause, recorded, pc, known, status, outcome>>
  BY DEF Worker, OpStarts, OpWrites, OpEnds, Evict, hub
<1>2. op' = op \/ (op \in Live /\ op' \in Polled)
  BY DEF Worker, OpStarts, OpWrites, OpEnds, Evict, Live, Polled
<1>3. Types'
  BY <1>1, <1>2 DEF WorkerInv, Types
<1>4. ExchangeInv'
  BY <1>1, <1>2 DEF WorkerInv, ExchangeInv, Live, Terminal, Polled
<1>5. OutcomeHonest'
  BY <1>1, <1>2 DEF WorkerInv, OutcomeHonest, Live
<1>6. CancelAccounted'
  BY <1>1, <1>2 DEF WorkerInv, CancelAccounted
<1>7. QED
  BY <1>3, <1>4, <1>5, <1>6 DEF WorkerInv

-----------------------------------------------------------------------------
(* The caller.                                                             *)

\* The caller goes on to another exchange.
LEMMA GotoInv ==
  ASSUME WorkerInv, NEW next \in Stages \ {"done", "create"}, Goto(next),
         known', op' \in Polled, pc # "done",
         UNCHANGED <<cancels, cause, recorded>>,
         status' \in {"none", "unreadable"} \union Polled,
         next \in {"cancel", "cancel_early"} => cause # "none",
         next = "drain_terminal" => op' \in Terminal /\ status' = op'
  PROVE  WorkerInv'
<1>1. Types'
  BY DEF Goto, WorkerInv, Types
<1>2. ExchangeInv'
  BY DEF Goto, WorkerInv, ExchangeInv
<1>3. OutcomeHonest' /\ CancelAccounted'
  BY DEF Goto, OutcomeHonest, CancelAccounted
<1>4. QED
  BY <1>1, <1>2, <1>3 DEF WorkerInv

\* It returns with an operation nobody claimed.
LEMMA EndedInv ==
  ASSUME WorkerInv, NEW with \in {"completed", "worker_failed"}, NEW captured,
         Ended(with, captured), cause = "none", pc # "done", known,
         UNCHANGED <<op, cancels, cause, recorded, known>>,
         status' \in {"none", "unreadable"} \union Polled,
         with = "completed" => op = "succeeded",
         op \in Live => status' = "unreadable"
  PROVE  WorkerInv'
<1>1. Types'
  BY DEF Ended, WorkerInv, Types, Stages, Outcomes
<1>2. ExchangeInv'
  BY DEF Ended, WorkerInv, ExchangeInv
<1>3. OutcomeHonest'
  BY DEF Ended, WorkerInv, ExchangeInv, OutcomeHonest
<1>4. CancelAccounted'
  BY DEF Ended, WorkerInv, ExchangeInv, CancelAccounted
<1>5. QED
  BY <1>1, <1>2, <1>3, <1>4 DEF WorkerInv

LEMMA ReturnInv ==
  ASSUME WorkerInv, NEW with \in {"completed", "worker_failed"}, NEW state, NEW got,
         Return(with, state, got), pc \notin {"done", "create"},
         UNCHANGED <<op, cancels, cause, recorded, known>>,
         status' \in {"none", "unreadable"} \union Polled,
         with = "completed" => op = "succeeded",
         op \in Live => status' = "unreadable"
  PROVE  WorkerInv'
<1>1. known /\ op \in Polled
  BY DEF WorkerInv, ExchangeInv
<1>2. CASE cause = "none"
  BY <1>1, <1>2, EndedInv DEF Return
<1>3. CASE cause # "none"
  BY <1>1, <1>3, GotoInv DEF Return, Goto, Stages
<1>4. QED
  BY <1>2, <1>3

LEMMA CreateInv ==
  ASSUME WorkerInv, CreateUnanswered \/ Created
  PROVE  WorkerInv'
<1>1. CASE CreateUnanswered
  <2>1. PICK with \in {Claimed, "thrown"}, captured \in {"unavailable", "none"} : Ended(with, captured)
    BY <1>1 DEF CreateUnanswered
  <2>2. /\ pc = "create" /\ op' \in {"none", "pending"}
        /\ UNCHANGED <<cancels, cause, recorded, known, status>>
    BY <1>1 DEF CreateUnanswered
  <2>3. ~known /\ cancels = <<>>
    BY <2>2 DEF WorkerInv, ExchangeInv
  <2>4. Types'
    BY <2>1, <2>2 DEF Ended, Claimed, WorkerInv, Types, Stages, Outcomes, Polled, Live
  <2>5. ExchangeInv'
    BY <2>1, <2>2, <2>3 DEF Ended, WorkerInv, ExchangeInv
  <2>6. OutcomeHonest'
    BY <2>1, <2>2, <2>3 DEF Ended, Claimed, WorkerInv, ExchangeInv, OutcomeHonest
  <2>7. CancelAccounted'
    BY <2>1, <2>2, <2>3 DEF Ended, CancelAccounted
  <2>8. QED
    BY <2>4, <2>5, <2>6, <2>7 DEF WorkerInv
<1>2. CASE Created
  BY <1>2, GotoInv DEF Created, Stages, Polled, Live, WorkerInv, Types
<1>3. QED
  BY <1>1, <1>2

LEMMA AfterDrainInv ==
  ASSUME WorkerInv, NEW state, NEW got, AfterDrain(state, got),
         pc \in {"drain", "drain_terminal"},
         UNCHANGED <<op, cancels, cause, recorded, known, status>>
  PROVE  WorkerInv'
<1>1. /\ known /\ op \in Polled
      /\ status' \in {"none", "unreadable"} \union Polled
      /\ pc = "drain_terminal" => op \in Terminal /\ status = op
  BY DEF WorkerInv, ExchangeInv, Types
<1>2. CASE pc = "drain"
  BY <1>1, <1>2, GotoInv DEF AfterDrain, Stages
<1>3. CASE pc = "drain_terminal" /\ Goto("drain_terminal")
  BY <1>1, <1>3, GotoInv DEF Stages
<1>4. CASE pc = "drain_terminal" /\ Return(Classify(status), state, got)
  <2>1. Classify(status) \in {"completed", "worker_failed"}
        /\ (Classify(status) = "completed" => op = "succeeded")
    BY <1>1, <1>4 DEF Classify
  <2>2. op \notin Live
    BY <1>1, <1>4 DEF Live, Terminal
  <2>3. QED
    BY <1>1, <1>4, <2>1, <2>2, ReturnInv
<1>5. QED
  BY <1>2, <1>3, <1>4 DEF AfterDrain

LEMMA PollInv ==
  ASSUME WorkerInv, PollStatus \/ PollUnanswered
  PROVE  WorkerInv'
<1>1. /\ pc = "poll" /\ known /\ op \in Polled
      /\ UNCHANGED <<op, cancels, cause, recorded, known>>
  BY DEF PollStatus, PollUnanswered, WorkerInv, ExchangeInv, daemon
<1>2. CASE PollStatus
  <2>1. status' = op
    BY <1>2 DEF PollStatus
  <2>2. CASE op \in Live
    BY <1>1, <1>2, <2>1, <2>2, GotoInv DEF PollStatus, Stages
  <2>3. CASE op \notin Live /\ Goto("drain_terminal")
    BY <1>1, <2>1, <2>3, GotoInv DEF Stages, Polled
  <2>4. CASE op \notin Live /\ Return(Classify(op), drain, output)
    BY <1>1, <2>1, <2>4, ReturnInv DEF Classify
  <2>5. QED
    BY <1>2, <2>2, <2>3, <2>4 DEF PollStatus
<1>3. CASE PollUnanswered
  BY <1>1, <1>3, ReturnInv DEF PollUnanswered
<1>4. QED
  BY <1>2, <1>3

LEMMA WakeInv ==
  ASSUME WorkerInv, Wake
  PROVE  WorkerInv'
<1>1. /\ pc = "sleep" /\ known /\ op \in Polled
      /\ UNCHANGED <<op, cancels, cause, recorded, known, status>>
      /\ status \in {"none", "unreadable"} \union Polled
  BY DEF Wake, WorkerInv, ExchangeInv, Types, daemon
<1>2. QED
  BY <1>1, GotoInv DEF Wake, Stages

\* The one cancel.
LEMMA CancelInv ==
  ASSUME WorkerInv, Cancel
  PROVE  WorkerInv'
<1>1. /\ pc # "done" /\ pc # "create" /\ cause # "none" /\ known /\ cancels = <<>>
      /\ UNCHANGED <<cause, recorded, known, status>>
  BY DEF Cancel, WorkerInv, ExchangeInv
<1>2. PICK taken \in {"taken", "lost"}, captured \in {"unavailable", "truncated"} :
        /\ cancels' = Append(cancels, taken)
        /\ op' = IF taken = "taken" /\ op \in Live THEN "cancelled" ELSE op
        /\ Ended(Claimed, captured)
  BY DEF Cancel
<1>3. cancels' = <<taken>> /\ cancels' \in Seq({"taken", "lost"}) /\ Len(cancels') = 1
  <2>1. cancels' = Append(<<>>, taken)
    BY <1>1, <1>2
  <2>2. QED
    BY <2>1
<1>4. Types'
  BY <1>1, <1>2, <1>3
     DEF Ended, Claimed, WorkerInv, Types, Stages, Outcomes, Polled, Terminal
<1>5. ExchangeInv'
  BY <1>1, <1>2 DEF Ended, WorkerInv, ExchangeInv, Polled, Terminal
<1>6. OutcomeHonest'
  BY <1>1, <1>2 DEF Ended, Claimed, WorkerInv, Types, ExchangeInv, OutcomeHonest
<1>7. op' \in Live => taken = "lost"
  BY <1>2 DEF Live
<1>8. CancelAccounted'
  BY <1>1, <1>2, <1>3, <1>7 DEF CancelAccounted
<1>9. QED
  BY <1>4, <1>5, <1>6, <1>8 DEF WorkerInv

LEMMA WorkerInvNext == WorkerInv /\ [Next]_vars => WorkerInv'
<1>. SUFFICES ASSUME WorkerInv, [Next]_vars PROVE WorkerInv'
  OBVIOUS
<1>1. CASE DrainOnce \/ DrainUnanswered
  BY <1>1, AfterDrainInv DEF DrainOnce, DrainUnanswered, daemon
<1>2. CASE UNCHANGED vars
  BY <1>2 DEF vars, WorkerInv, Types, ExchangeInv, OutcomeHonest, CancelAccounted
<1>3. QED
  BY <1>1, <1>2, HubInv, DaemonInv, CreateInv, PollInv, WakeInv, CancelInv DEF Next, Caller

LEMMA WorkerInvAlways == Spec => []WorkerInv
BY WorkerInvInit, WorkerInvNext, PTL DEF Spec

\* A success is reported only of an operation that succeeded and that nothing
\* claimed, and a claim decides what is reported, for any log.
THEOREM OutcomeHonestAlways == Spec => []OutcomeHonest
<1>1. WorkerInv => OutcomeHonest
  BY DEF WorkerInv
<1>2. QED
  BY <1>1, WorkerInvAlways, PTL

\* A claimed operation is cancelled exactly once, an unclaimed one never, and
\* what is left running is accounted for.
THEOREM CancelAccountedAlways == Spec => []CancelAccounted
<1>1. WorkerInv => CancelAccounted
  BY DEF WorkerInv
<1>2. QED
  BY <1>1, WorkerInvAlways, PTL

-----------------------------------------------------------------------------
(* Chunks and their bytes.  FlattenSeq is a recursive function over the     *)
(* positions of the list: facts about every length are proved from the     *)
(* least length at which they would fail.                                  *)

LEMMA LeastElement ==
  ASSUME NEW S, S \subseteq Nat, S # {}
  PROVE  \E n \in S : \A m \in S : n <= m
<1> DEFINE T == {0..n : n \in S}
<1>1. T \subseteq FiniteSubsetsOf(Nat) /\ T # {}
  <2>1. \A n \in S : 0..n \subseteq Nat /\ IsFiniteSet(0..n)
    BY FS_Interval
  <2>2. QED
    BY <2>1 DEF FiniteSubsetsOf
<1>2. PICK x \in T : \A y \in T : <<y, x>> \notin StrictSubsetOrdering(Nat)
  BY <1>1, WFMin, FS_StrictSubsetOrderingWellFounded
<1>3. PICK n \in S : x = 0..n
  OBVIOUS
<1>4. ASSUME NEW m \in S, m < n PROVE FALSE
  <2>1. 0..m \subseteq 0..n /\ n \in 0..n /\ n \notin 0..m
    BY <1>4
  <2>2. <<0..m, 0..n>> \in StrictSubsetOrdering(Nat)
    BY <2>1 DEF StrictSubsetOrdering
  <2>3. QED
    BY <1>2, <1>3, <2>2
<1>5. QED
  BY <1>4

\* s is the end of t, byte by byte.
Ends(s, t) ==
  /\ Len(s) <= Len(t)
  /\ \A i \in 1..Len(s) : s[i] = t[Len(t) - Len(s) + i]

LEMMA EndsIsSuffix ==
  ASSUME NEW s \in Seq(Nat), NEW t \in Seq(Nat), Ends(s, t)
  PROVE  IsSuffix(s, t)
<1>1. /\ Reverse(s) \in Seq(Nat) /\ Len(Reverse(s)) = Len(s)
      /\ \A i \in 1..Len(s) : Reverse(s)[i] = s[Len(s) - i + 1]
  BY DEF Reverse
<1>2. /\ Reverse(t) \in Seq(Nat) /\ Len(Reverse(t)) = Len(t)
      /\ \A i \in 1..Len(t) : Reverse(t)[i] = t[Len(t) - i + 1]
  BY DEF Reverse
<1>3. Len(s) <= Len(t) /\ Len(s) \in Nat /\ Len(t) \in Nat
  BY DEF Ends
<1>4. \A i \in 1..Len(s) : Reverse(s)[i] = Reverse(t)[i]
  <2>1. TAKE i \in 1..Len(s)
  <2>2. Len(s) - i + 1 \in 1..Len(s) /\ i \in 1..Len(t)
    BY <1>3
  <2>3. s[Len(s) - i + 1] = t[Len(t) - Len(s) + (Len(s) - i + 1)]
    BY <2>2 DEF Ends
  <2>4. Len(t) - Len(s) + (Len(s) - i + 1) = Len(t) - i + 1
    BY <1>3
  <2>5. QED
    BY <1>1, <1>2, <2>2, <2>3, <2>4
<1>5. SubSeq(Reverse(s), 1, Len(s)) = SubSeq(Reverse(t), 1, Len(s))
  BY <1>1, <1>2, <1>3, <1>4
<1>6. QED
  BY <1>1, <1>2, <1>3, <1>5 DEF IsSuffix, IsPrefix

LEMMA EndsWhole ==
  ASSUME NEW s \in Seq(Nat), NEW t \in Seq(Nat), Ends(s, t), Len(t) <= Len(s)
  PROVE  s = t
<1>1. Len(s) = Len(t) /\ Len(s) \in Nat
  BY DEF Ends
<1>2. \A i \in 1..Len(s) : s[i] = t[i]
  <2>1. TAKE i \in 1..Len(s)
  <2>2. Len(t) - Len(s) + i = i
    BY <1>1
  <2>3. QED
    BY <2>2 DEF Ends
<1>3. QED
  BY <1>1, <1>2

LEMMA EndsTransitive ==
  ASSUME NEW r \in Seq(Nat), NEW s \in Seq(Nat), NEW t \in Seq(Nat),
         Ends(r, s), Ends(s, t)
  PROVE  Ends(r, t)
<1>1. Len(r) <= Len(s) /\ Len(s) <= Len(t) /\ Len(r) \in Nat /\ Len(s) \in Nat /\ Len(t) \in Nat
  BY DEF Ends
<1>2. \A i \in 1..Len(r) : r[i] = t[Len(t) - Len(r) + i]
  <2>1. TAKE i \in 1..Len(r)
  <2>2. Len(s) - Len(r) + i \in 1..Len(s)
    BY <1>1
  <2>3. /\ r[i] = s[Len(s) - Len(r) + i]
        /\ s[Len(s) - Len(r) + i] = t[Len(t) - Len(s) + (Len(s) - Len(r) + i)]
    BY <2>2 DEF Ends
  <2>4. Len(t) - Len(s) + (Len(s) - Len(r) + i) = Len(t) - Len(r) + i
    BY <1>1
  <2>5. QED
    BY <2>3, <2>4
<1>3. QED
  BY <1>1, <1>2 DEF Ends

LEMMA EndsConcat ==
  ASSUME NEW s \in Seq(Nat), NEW t \in Seq(Nat), NEW c \in Seq(Nat), Ends(s, t)
  PROVE  Ends(s \o c, t \o c)
<1>1. /\ Len(s) \in Nat /\ Len(t) \in Nat /\ Len(c) \in Nat /\ Len(s) <= Len(t)
      /\ Len(s \o c) = Len(s) + Len(c) /\ Len(t \o c) = Len(t) + Len(c)
  BY DEF Ends
<1>2. ASSUME NEW i \in 1..Len(s) + Len(c)
      PROVE  (s \o c)[i] = (t \o c)[Len(t) - Len(s) + i]
  <2>1. CASE i <= Len(s)
    <3>1. /\ (s \o c)[i] = s[i] /\ i \in 1..Len(s)
          /\ Len(t) - Len(s) + i \in 1..Len(t)
      BY <1>1, <2>1
    <3>2. (t \o c)[Len(t) - Len(s) + i] = t[Len(t) - Len(s) + i]
      BY <1>1, <3>1
    <3>3. QED
      BY <3>1, <3>2 DEF Ends
  <2>2. CASE i > Len(s)
    <3>1. (s \o c)[i] = c[i - Len(s)]
      BY <1>1, <2>2
    <3>2. (t \o c)[Len(t) - Len(s) + i] = c[(Len(t) - Len(s) + i) - Len(t)]
      BY <1>1, <2>2
    <3>3. (Len(t) - Len(s) + i) - Len(t) = i - Len(s)
      BY <1>1
    <3>4. QED
      BY <3>1, <3>2, <3>3
  <2>3. QED
    BY <1>1, <2>1, <2>2
<1>3. Len(t \o c) - Len(s \o c) = Len(t) - Len(s)
  BY <1>1
<1>4. QED
  BY <1>1, <1>2, <1>3 DEF Ends

IsFlat(f, cs, n) ==
  f = [i \in 1..n |-> IF i = 1 THEN cs[i] ELSE f[i - 1] \o cs[i]]
Flat(cs) == CHOOSE f : IsFlat(f, cs, Len(cs))

LEMMA FlattenIs ==
  ASSUME NEW cs
  PROVE  FlattenSeq(cs) = IF Len(cs) = 0 THEN cs ELSE Flat(cs)[Len(cs)]
BY DEF FlattenSeq, Flat, IsFlat

LEMMA FlatExists ==
  ASSUME NEW cs \in Seq(Seq(Nat))
  PROVE  IsFlat(Flat(cs), cs, Len(cs))
<1> DEFINE Missing == {n \in Nat : ~\E f : IsFlat(f, cs, n)}
<1>1. ASSUME Missing # {} PROVE FALSE
  <2>1. PICK n \in Missing : \A m \in Missing : n <= m
    <3>1. Missing \subseteq Nat
      OBVIOUS
    <3> HIDE DEF Missing
    <3>2. QED
      BY <1>1, <3>1, LeastElement
  <2>2. n # 0
    <3>1. IsFlat([i \in 1..0 |-> 0], cs, 0)
      BY DEF IsFlat
    <3>2. QED
      BY <2>1, <3>1
  <2>3. n - 1 \in Nat /\ n - 1 \notin Missing
    BY <2>1, <2>2
  <2>4. PICK f : IsFlat(f, cs, n - 1)
    BY <2>3
  <2>5. DEFINE last == IF n = 1 THEN cs[n] ELSE f[n - 1] \o cs[n]
               h == [i \in 1..n |-> IF i = n THEN last ELSE f[i]]
  <2>6. IsFlat(h, cs, n)
    <3>1. ASSUME NEW i \in 1..n
          PROVE  h[i] = IF i = 1 THEN cs[i] ELSE h[i - 1] \o cs[i]
      <4>1. CASE i = n
        <5>1. h[i] = last /\ (n # 1 => h[n - 1] = f[n - 1])
          BY <2>2, <2>3, <4>1
        <5>2. QED
          BY <4>1, <5>1
      <4>2. CASE i # n
        <5>1. i \in 1..n - 1 /\ h[i] = f[i]
          BY <2>1, <4>2
        <5>2. f[i] = IF i = 1 THEN cs[i] ELSE f[i - 1] \o cs[i]
          BY <2>4, <5>1 DEF IsFlat
        <5>3. i # 1 => h[i - 1] = f[i - 1]
          BY <2>1, <5>1
        <5>4. QED
          BY <5>1, <5>2, <5>3
      <4>3. QED
        BY <4>1, <4>2
    <3>2. h = [i \in 1..n |-> h[i]]
      OBVIOUS
    <3>3. QED
      <4> HIDE DEF h
      <4>1. QED
        BY <3>1, <3>2 DEF IsFlat
  <2>7. QED
    BY <2>1, <2>6
<1>2. \E f : IsFlat(f, cs, Len(cs))
  <2>1. Len(cs) \in Nat /\ Len(cs) \notin Missing
    <3> HIDE DEF Missing
    <3>1. QED
      BY <1>1
  <2>2. QED
    BY <2>1
<1>3. QED
  BY <1>2 DEF Flat

\* Its partial results.
LEMMA FlatSteps ==
  ASSUME NEW cs \in Seq(Seq(Nat))
  PROVE  \A i \in 1..Len(cs) :
           /\ Flat(cs)[i] = IF i = 1 THEN cs[i] ELSE Flat(cs)[i - 1] \o cs[i]
           /\ Flat(cs)[i] \in Seq(Nat)
<1> DEFINE f == Flat(cs)
           n == Len(cs)
<1>1. \A i \in 1..n : f[i] = IF i = 1 THEN cs[i] ELSE f[i - 1] \o cs[i]
  <2>1. IsFlat(f, cs, n)
    BY FlatExists
  <2> HIDE DEF f
  <2>2. QED
    BY <2>1 DEF IsFlat
<1>2. n \in Nat /\ \A i \in 1..n : cs[i] \in Seq(Nat)
  OBVIOUS
<1> HIDE DEF f, n
<1>3. \A i \in 1..n : f[i] \in Seq(Nat)
  <2> DEFINE Bad == {i \in 1..n : f[i] \notin Seq(Nat)}
  <2>1. ASSUME Bad # {} PROVE FALSE
    <3>0. Bad \subseteq Nat
      BY <1>2
    <3>1. PICK i \in Bad : \A j \in Bad : i <= j
      <4> HIDE DEF Bad
      <4>1. QED
        BY <2>1, <3>0, LeastElement
    <3>2. i \in 1..n /\ f[i] \notin Seq(Nat)
      OBVIOUS
    <3>3. CASE i = 1
      BY <1>1, <1>2, <3>2, <3>3
    <3>4. CASE i # 1
      <4>1. i - 1 \in 1..n /\ ~(i <= i - 1)
        BY <1>2, <3>2, <3>4
      <4>2. f[i - 1] \in Seq(Nat)
        BY <3>1, <4>1
      <4>3. f[i] = f[i - 1] \o cs[i] /\ cs[i] \in Seq(Nat)
        BY <1>1, <1>2, <3>2, <3>4
      <4>4. QED
        BY <3>2, <4>2, <4>3
    <3>5. QED
      BY <3>3, <3>4
  <2>2. QED
    BY <2>1
<1>4. QED
  BY <1>1, <1>3 DEF f, n

LEMMA FlattenType ==
  ASSUME NEW cs \in Seq(Seq(Nat))
  PROVE  FlattenSeq(cs) \in Seq(Nat)
<1>1. CASE Len(cs) = 0
  <2>1. FlattenSeq(cs) = cs
    BY <1>1, FlattenIs
  <2>2. cs = <<>>
    BY <1>1
  <2>3. QED
    BY <2>1, <2>2
<1>2. CASE Len(cs) # 0
  <2>1. Len(cs) \in 1..Len(cs)
    BY <1>2
  <2>2. QED
    BY <1>2, <2>1, FlattenIs, FlatSteps
<1>3. QED
  BY <1>1, <1>2

\* One more chunk, one more piece at the end.
LEMMA FlattenAppend ==
  ASSUME NEW cs \in Seq(Seq(Nat)), NEW c \in Seq(Nat)
  PROVE  FlattenSeq(Append(cs, c)) = FlattenSeq(cs) \o c
<1> DEFINE ds == Append(cs, c)
           n == Len(cs)
           f == Flat(cs)
           h == Flat(ds)
<1>1. /\ n \in Nat /\ ds \in Seq(Seq(Nat)) /\ Len(ds) = n + 1 /\ ds[n + 1] = c
      /\ \A i \in 1..n : ds[i] = cs[i]
  OBVIOUS
<1>2. /\ \A i \in 1..n : f[i] = IF i = 1 THEN cs[i] ELSE f[i - 1] \o cs[i]
      /\ \A i \in 1..n + 1 : h[i] = IF i = 1 THEN ds[i] ELSE h[i - 1] \o ds[i]
  <2>1. \A i \in 1..n : f[i] = IF i = 1 THEN cs[i] ELSE f[i - 1] \o cs[i]
    BY FlatSteps
  <2>2. \A i \in 1..Len(ds) : h[i] = IF i = 1 THEN ds[i] ELSE h[i - 1] \o ds[i]
    <3> HIDE DEF ds
    <3>1. QED
      BY <1>1, FlatSteps
  <2>3. QED
    BY <1>1, <2>1, <2>2
<1>3. /\ FlattenSeq(cs) = IF n = 0 THEN cs ELSE f[n]
      /\ FlattenSeq(ds) = h[n + 1]
  <2>1. FlattenSeq(ds) = IF Len(ds) = 0 THEN ds ELSE h[Len(ds)]
    BY FlattenIs
  <2>2. QED
    BY <1>1, <2>1, FlattenIs
<1>4. n = 0 => cs = <<>>
  OBVIOUS
<1> HIDE DEF ds, n, f, h
<1>5. \A i \in 1..n : h[i] = f[i]
  <2> DEFINE Bad == {i \in 1..n : h[i] # f[i]}
  <2>1. ASSUME Bad # {} PROVE FALSE
    <3>0. Bad \subseteq Nat
      BY <1>1
    <3>1. PICK i \in Bad : \A j \in Bad : i <= j
      <4> HIDE DEF Bad
      <4>1. QED
        BY <2>1, <3>0, LeastElement
    <3>2. i \in 1..n /\ h[i] # f[i] /\ i \in 1..n + 1
      BY <1>1
    <3>3. CASE i = 1
      BY <1>1, <1>2, <3>2, <3>3
    <3>4. CASE i # 1
      <4>1. i - 1 \in 1..n /\ ~(i <= i - 1)
        BY <1>1, <3>2, <3>4
      <4>2. f[i - 1] = h[i - 1]
        BY <3>1, <4>1
      <4>3. QED
        BY <1>1, <1>2, <3>2, <3>4, <4>2
    <3>5. QED
      BY <3>3, <3>4
  <2>2. QED
    BY <2>1
<1>6. h[n + 1] = IF n = 0 THEN c ELSE f[n] \o c
  <2>1. n + 1 \in 1..n + 1 /\ (n # 0 => n \in 1..n /\ n + 1 # 1)
    BY <1>1
  <2>2. QED
    BY <1>1, <1>2, <1>5, <2>1
<1>7. c = <<>> \o c
  OBVIOUS
<1>8. QED
  BY <1>3, <1>4, <1>6, <1>7 DEF ds

LEMMA SubSeqGrows ==
  ASSUME NEW S, NEW cs \in Seq(S), NEW k \in 1..Len(cs), NEW n \in k..Len(cs)
  PROVE  /\ SubSeq(cs, k, n - 1) \in Seq(S)
         /\ SubSeq(cs, k, n) = Append(SubSeq(cs, k, n - 1), cs[n])
<1> DEFINE a == SubSeq(cs, k, n - 1)
           b == SubSeq(cs, k, n)
           d == Append(a, cs[n])
<1>1. /\ Len(cs) \in Nat /\ k \in Nat /\ n \in Nat /\ k >= 1 /\ k <= n /\ n <= Len(cs)
      /\ cs[n] \in S
  OBVIOUS
<1>2. /\ a \in Seq(S) /\ Len(a) = n - k
      /\ \A i \in 1..n - k : a[i] = cs[k + i - 1]
  BY <1>1
<1>3. /\ b \in Seq(S) /\ Len(b) = n - k + 1
      /\ \A i \in 1..n - k + 1 : b[i] = cs[k + i - 1]
  BY <1>1
<1> HIDE DEF a, b
<1>4. /\ d \in Seq(S) /\ Len(d) = n - k + 1
      /\ \A i \in 1..n - k : d[i] = a[i]
      /\ d[n - k + 1] = cs[n]
  BY SMTT(30), <1>1, <1>2
<1> HIDE DEF d
<1>5. \A i \in 1..n - k + 1 : b[i] = d[i]
  <2>1. TAKE i \in 1..n - k + 1
  <2>2. CASE i = n - k + 1
    <3>1. k + i - 1 = n
      BY <1>1, <2>2
    <3>2. QED
      BY <1>3, <1>4, <2>2, <3>1
  <2>3. CASE i # n - k + 1
    <3>1. i \in 1..n - k
      BY <1>1, <2>3
    <3>2. QED
      BY <1>2, <1>3, <1>4, <3>1
  <2>4. QED
    BY <2>2, <2>3
<1>6. b = d
  <2>1. b = [i \in 1..n - k + 1 |-> b[i]] /\ d = [i \in 1..n - k + 1 |-> d[i]]
    BY <1>3, <1>4
  <2>2. QED
    BY <1>5, <2>1
<1>7. QED
  BY <1>2, <1>6 DEF a, b, d

\* The last chunks of a list hold the end of its bytes.
LEMMA FlattenEnds ==
  ASSUME NEW cs \in Seq(Seq(Nat)), NEW k \in 1..Len(cs)
  PROVE  /\ SubSeq(cs, k, Len(cs)) \in Seq(Seq(Nat))
         /\ Ends(FlattenSeq(SubSeq(cs, k, Len(cs))), FlattenSeq(cs))
<1> DEFINE S == Seq(Nat)
           some(n) == SubSeq(cs, k, n)
           all(n) == SubSeq(cs, 1, n)
           Bad == {n \in k - 1..Len(cs) :
                     ~Ends(FlattenSeq(some(n)), FlattenSeq(all(n)))}
<1>1. Len(cs) \in Nat /\ k \in Nat /\ 1 <= k /\ k <= Len(cs) /\ 1 \in 1..Len(cs)
  OBVIOUS
<1>2. \A n \in k..Len(cs) :
        /\ some(n - 1) \in Seq(S) /\ some(n) = Append(some(n - 1), cs[n])
        /\ all(n - 1) \in Seq(S) /\ all(n) = Append(all(n - 1), cs[n])
        /\ cs[n] \in S
  <2>1. TAKE n \in k..Len(cs)
  <2>2. n \in 1..Len(cs)
    BY <1>1
  <2>3. some(n - 1) \in Seq(S) /\ some(n) = Append(some(n - 1), cs[n])
    BY SubSeqGrows
  <2>4. all(n - 1) \in Seq(S) /\ all(n) = Append(all(n - 1), cs[n])
    BY <1>1, <2>2, SubSeqGrows
  <2>5. QED
    BY <2>2, <2>3, <2>4
<1>3. ASSUME Bad # {} PROVE FALSE
  <2>0. Bad \subseteq Nat
    BY <1>1
  <2>1. PICK n \in Bad : \A m \in Bad : n <= m
    <3> HIDE DEF Bad
    <3>1. QED
      BY <1>3, <2>0, LeastElement
  <2>2. n \in k - 1..Len(cs) /\ ~Ends(FlattenSeq(some(n)), FlattenSeq(all(n)))
    OBVIOUS
  <2>3. CASE n = k - 1
    <3>1. some(n) = <<>>
      BY <1>1, <2>3
    <3>2. FlattenSeq(<<>>) = <<>>
      BY FlattenIs
    <3>3. all(n) \in Seq(S)
      BY <1>1, <2>2
    <3>4. FlattenSeq(all(n)) \in S
      BY <3>3, FlattenType
    <3>5. QED
      <4> HIDE DEF some, all
      <4>1. QED
        BY <2>2, <3>1, <3>2, <3>4 DEF Ends
  <2>4. CASE n # k - 1
    <3>1. n \in k..Len(cs) /\ n - 1 \in k - 1..Len(cs) /\ ~(n <= n - 1)
      BY <1>1, <2>2, <2>4
    <3>2. n - 1 \notin Bad
      BY <2>1, <3>1
    <3>3. Ends(FlattenSeq(some(n - 1)), FlattenSeq(all(n - 1)))
      BY <3>1, <3>2
    <3> HIDE DEF some, all, Bad
    <3>4. /\ FlattenSeq(some(n)) = FlattenSeq(some(n - 1)) \o cs[n]
          /\ FlattenSeq(all(n)) = FlattenSeq(all(n - 1)) \o cs[n]
          /\ FlattenSeq(some(n - 1)) \in Seq(Nat) /\ FlattenSeq(all(n - 1)) \in Seq(Nat)
      BY <1>2, <3>1, FlattenAppend, FlattenType
    <3>5. cs[n] \in Seq(Nat)
      BY <1>2, <3>1
    <3>6. QED
      BY <2>2, <3>3, <3>4, <3>5, EndsConcat
  <2>5. QED
    BY <2>3, <2>4
<1>4. Len(cs) \notin Bad /\ Len(cs) \in k - 1..Len(cs)
  <2> HIDE DEF Bad
  <2>1. QED
    BY <1>1, <1>3
<1>5. all(Len(cs)) = cs
  BY <1>1
<1>6. some(Len(cs)) \in Seq(S)
  BY <1>1
<1>7. QED
  BY <1>4, <1>5, <1>6

LEMMA FlattenOne ==
  ASSUME NEW c \in Seq(Nat)
  PROVE  <<c>> \in Seq(Seq(Nat)) /\ FlattenSeq(<<c>>) = c
<1> DEFINE none == <<>>
           one == <<c>>
<1>1. /\ none \in Seq(Seq(Nat)) /\ one \in Seq(Seq(Nat))
      /\ Append(none, c) = one /\ none \o c = c
  OBVIOUS
<1>2. FlattenSeq(none) = none
  BY FlattenIs
<1> HIDE DEF none, one
<1>3. FlattenSeq(Append(none, c)) = FlattenSeq(none) \o c
  BY <1>1, FlattenAppend
<1>4. FlattenSeq(one) = c
  BY <1>1, <1>2, <1>3, Zenon
<1>5. QED
  BY <1>1, <1>4 DEF one

LEMMA EndsOfConcat ==
  ASSUME NEW s \in Seq(Nat), NEW t \in Seq(Nat)
  PROVE  Ends(t, s \o t)
<1>1. s \o t \in Seq(Nat) /\ Len(s \o t) = Len(s) + Len(t) /\ Len(s) \in Nat /\ Len(t) \in Nat
  OBVIOUS
<1>2. \A i \in 1..Len(t) : (s \o t)[Len(s) + i] = t[i]
  OBVIOUS
<1>3. Len(s \o t) - Len(t) = Len(s)
  BY <1>1
<1>4. QED
  BY <1>1, <1>2, <1>3 DEF Ends

\* What is retained of a list and one more chunk: within the bound, the end of
\* all the bytes, and all of them when no byte is missing.
LEMMA RetainKeeps ==
  ASSUME NEW chunks \in Seq(Seq(Nat)), NEW chunk \in Seq(Nat)
  PROVE  LET kept == Retain(chunks, chunk)
             bytes == FlattenSeq(chunks) \o chunk
         IN  /\ kept \in Seq(Seq(Nat))
             /\ FlattenSeq(kept) \in Seq(Nat) /\ bytes \in Seq(Nat)
             /\ Ends(FlattenSeq(kept), bytes)
             /\ Held(kept) <= CaptureBound
             /\ ~(Held(kept) < Held(chunks) + Len(chunk)) => FlattenSeq(kept) = bytes
<1> DEFINE kept == Retain(chunks, chunk)
           bytes == FlattenSeq(chunks) \o chunk
           all == Append(chunks, chunk)
           n == Len(all)
<1>1. /\ FlattenSeq(chunks) \in Seq(Nat) /\ bytes \in Seq(Nat)
      /\ Len(bytes) = Held(chunks) + Len(chunk)
      /\ Held(chunks) \in Nat /\ Len(chunk) \in Nat /\ CaptureBound \in Nat \ {0}
  <2>1. FlattenSeq(chunks) \in Seq(Nat)
    BY FlattenType
  <2>2. QED
    BY <2>1, WorkerAssumption DEF Held
<1>2. /\ all \in Seq(Seq(Nat)) /\ n = Len(chunks) + 1 /\ n \in 1..n
      /\ FlattenSeq(all) = bytes
  BY FlattenAppend
<1>3. SUFFICES /\ kept \in Seq(Seq(Nat)) /\ FlattenSeq(kept) \in Seq(Nat)
               /\ Ends(FlattenSeq(kept), bytes)
               /\ Held(kept) <= CaptureBound
  <2>1. ASSUME kept \in Seq(Seq(Nat)), FlattenSeq(kept) \in Seq(Nat),
               Ends(FlattenSeq(kept), bytes),
               ~(Held(kept) < Held(chunks) + Len(chunk))
        PROVE  FlattenSeq(kept) = bytes
    <3> HIDE DEF kept, bytes
    <3>1. Len(bytes) <= Len(FlattenSeq(kept))
      BY <1>1, <2>1 DEF Held
    <3>2. QED
      BY <1>1, <2>1, <3>1, EndsWhole
  <2>2. QED
    BY <1>1, <2>1
<1>4. CASE Len(chunk) > CaptureBound
  <2> DEFINE x == SubSeq(chunk, Len(chunk) - CaptureBound + 1, Len(chunk))
  <2>1. kept = <<x>>
    BY <1>4 DEF Retain
  <2>2. /\ x \in Seq(Nat) /\ Len(x) = CaptureBound
        /\ \A i \in 1..Len(x) : x[i] = chunk[Len(chunk) - CaptureBound + i]
    BY <1>1, <1>4
  <2>3. Ends(x, chunk)
    <3> HIDE DEF x
    <3>1. QED
      BY <1>1, <1>4, <2>2 DEF Ends
  <2>4. Ends(x, bytes)
    <3>1. Ends(chunk, bytes)
      BY <1>1, EndsOfConcat
    <3> HIDE DEF x, bytes
    <3>2. QED
      BY <1>1, <2>2, <2>3, <3>1, EndsTransitive
  <2> HIDE DEF x, kept, bytes
  <2>5. QED
    BY <1>1, <2>1, <2>2, <2>4, FlattenOne DEF Held
<1>5. CASE ~(Len(chunk) > CaptureBound)
  <2> DEFINE fits == {k \in 1..n : Held(SubSeq(all, k, n)) <= CaptureBound}
  <2>1. kept = SubSeq(all, Min(fits), n)
    BY <1>5 DEF Retain
  <2>2. n \in fits
    <3>1. SubSeq(all, n, n) = <<chunk>>
      <4>1. all[n] = chunk
        OBVIOUS
      <4> DEFINE last == SubSeq(all, n, n)
      <4> HIDE DEF all, n
      <4>2. /\ last \in Seq(Seq(Nat)) /\ Len(last) = 1
            /\ last[1] = all[n]
        <5>1. n \in Nat /\ n - n + 1 = 1 /\ n <= Len(all) /\ n >= 1
          BY <1>2 DEF n
        <5>2. last = [i \in 1..1 |-> all[n + i - 1]]
          BY <5>1
        <5>3. n + 1 - 1 = n /\ all[n] \in Seq(Nat)
          BY <1>2, <5>1
        <5>4. Len(last) = 1 /\ last[1] = all[n]
          BY <5>2, <5>3
        <5>5. last \in Seq(Seq(Nat))
          BY <5>2, <5>3
        <5>6. QED
          BY <5>4, <5>5
      <4> HIDE DEF last
      <4>3. last = <<all[n]>>
        BY <4>2
      <4>4. QED
        BY <4>1, <4>3 DEF last
    <3>2. Held(SubSeq(all, n, n)) = Len(chunk)
      BY <3>1, FlattenOne DEF Held
    <3> HIDE DEF all, n
    <3>3. QED
      BY <1>1, <1>2, <1>5, <3>2
  <2>3. Min(fits) \in fits
    <3>1. fits \subseteq Nat
      OBVIOUS
    <3> HIDE DEF fits
    <3>2. \E k \in fits : \A j \in fits : k <= j
      BY <2>2, <3>1, LeastElement
    <3>3. QED
      BY <3>2 DEF Min
  <2>4. Min(fits) \in 1..n /\ Held(SubSeq(all, Min(fits), n)) <= CaptureBound
    BY <2>3
  <2> HIDE DEF fits, all, kept, bytes
  <2>5. /\ SubSeq(all, Min(fits), n) \in Seq(Seq(Nat))
        /\ Ends(FlattenSeq(SubSeq(all, Min(fits), n)), bytes)
    BY <1>2, <2>4, FlattenEnds
  <2>6. QED
    BY <2>1, <2>4, <2>5, FlattenType
<1>6. QED
  BY <1>4, <1>5

-----------------------------------------------------------------------------
(* The log of the operation: what is delivered, where the cursor stands,   *)
(* and what a capture may be called.                                       *)

DrainRecord ==
  [cursor : Nat, complete : BOOLEAN, failed : BOOLEAN, stalled : BOOLEAN,
   turn : {0, 1}, truncatedDaemon : BOOLEAN, truncatedLocal : BOOLEAN]

LogTypes ==
  /\ written \in 0..LogLength /\ evicted \in 0..written /\ missed \subseteq 1..evicted
  /\ drain \in DrainRecord /\ drain.cursor <= written
  /\ output \in Seq(Nat) /\ tail \in Seq(Seq(Nat))
  /\ capture \in {"none", "captured", "truncated", "unavailable"}

\* The drain is asked only while it is not over, and the result is set once.
LogStages ==
  /\ pc \in {"create", "cancel_early"} => output = <<>>
  /\ pc \in {"create", "drain", "drain_terminal"} => ~drain.complete
  /\ pc # "done" => capture = "none"

AtMost(s, n) == \A i \in DOMAIN s : s[i] <= n

\* Without a page that breaks the contract the bytes come in order, and none is
\* missing unless the daemon dropped it before it was read: all up to the cursor,
\* and all of the finished worker's once the stream has ended.
Delivered ==
  ~drain.stalled =>
    /\ Increasing(output)
    /\ ~drain.complete =>
         /\ ToSet(output) = (1..drain.cursor) \ missed
         /\ (drain.cursor + 1)..evicted \subseteq missed
    /\ drain.complete => op \in Terminal /\ ToSet(output) = (1..written) \ missed

Retained ==
  /\ Ends(FlattenSeq(tail), output) /\ Held(tail) <= CaptureBound
  /\ ~drain.truncatedLocal => FlattenSeq(tail) = output

Undamaged(state) ==
  /\ state.complete /\ ~state.stalled
  /\ ~state.truncatedDaemon /\ ~state.truncatedLocal

CaptureNamed ==
  /\ capture = "captured" => Undamaged(drain)
  /\ capture = "unavailable" => output = <<>>

LogInv == LogTypes /\ LogStages /\ Delivered /\ Retained /\ CaptureNamed

\* The invariant is what CaptureHonest says of every state.
LEMMA LogCorrect == LogInv => CaptureHonest
<1> SUFFICES ASSUME LogInv PROVE CaptureHonest
  OBVIOUS
<1> USE DEF LogInv, LogTypes
<1>1. capture = "captured" =>
        /\ op \in Terminal /\ FlattenSeq(tail) = output
        /\ Increasing(output) /\ ToSet(output) = (1..written) \ missed
  BY DEF CaptureNamed, Undamaged, Delivered, Retained
<1>2. IsSuffix(FlattenSeq(tail), output) /\ Len(FlattenSeq(tail)) <= CaptureBound
  BY FlattenType, EndsIsSuffix DEF Retained, Held
<1>3. ~drain.stalled => Increasing(output)
  BY DEF Delivered
<1>4. QED
  BY <1>1, <1>2, <1>3 DEF CaptureHonest, CaptureNamed

LEMMA LogInit == Init => LogInv
<1> SUFFICES ASSUME Init PROVE LogInv
  OBVIOUS
<1> DEFINE d == [cursor |-> 0, complete |-> FALSE, failed |-> FALSE, stalled |-> FALSE,
                 turn |-> 0, truncatedDaemon |-> FALSE, truncatedLocal |-> FALSE]
<1>1. drain = d /\ d \in DrainRecord
  BY Zenon DEF Init, DrainRecord
<1>2. drain.cursor = 0 /\ ~drain.complete /\ ~drain.stalled
  BY <1>1
<1>3. LogTypes
  BY <1>1, <1>2, WorkerAssumption DEF Init, LogTypes
<1>4. FlattenSeq(<<>>) = <<>> /\ <<>> \in Seq(Nat)
  BY FlattenIs
<1>5. output = <<>> /\ ToSet(output) = {} /\ 1..0 = {}
  BY DEF Init, ToSet
<1>6. LogStages /\ Delivered /\ CaptureNamed
  BY <1>2, <1>5 DEF Init, LogStages, Delivered, CaptureNamed, Increasing
<1>7. Retained
  BY <1>4, WorkerAssumption DEF Init, Retained, Ends, Held
<1>8. QED
  BY <1>3, <1>6, <1>7 DEF LogInv

-----------------------------------------------------------------------------
(* A page and what it does to the log.                                     *)

From == Max({drain.cursor, evicted})

LEMMA FromIs ==
  ASSUME LogTypes
  PROVE  /\ From \in Nat /\ drain.cursor \in Nat /\ evicted \in Nat /\ written \in Nat
         /\ drain.cursor <= From /\ From <= written
         /\ evicted <= From /\ From \in {drain.cursor, evicted}
<1>1. /\ drain.cursor \in Nat /\ evicted \in Nat /\ written \in Nat
      /\ drain.cursor <= written /\ evicted <= written
  BY WorkerAssumption DEF LogTypes, DrainRecord
<1> DEFINE c == drain.cursor
<1> HIDE DEF c
<1>2. c \in Nat /\ c <= written
  BY <1>1 DEF c
<1>3. \E x \in {c, evicted} : \A y \in {c, evicted} : x >= y
  BY <1>1, <1>2
<1>4. /\ Max({c, evicted}) \in {c, evicted}
      /\ \A y \in {c, evicted} : Max({c, evicted}) >= y
  BY <1>3 DEF Max
<1>5. From = Max({c, evicted})
  BY DEF From, c
<1>6. From \in {c, evicted} /\ From >= c /\ From >= evicted
  BY <1>4, <1>5
<1>7. From \in Nat /\ c <= From /\ From <= written /\ evicted <= From
  BY <1>1, <1>2, <1>6
<1>8. QED
  BY <1>1, <1>6, <1>7 DEF c

LEMMA BytesAre ==
  ASSUME NEW a \in Nat, NEW n \in Nat
  PROVE  /\ Bytes(a, n) \in Seq(Nat) /\ Len(Bytes(a, n)) = n
         /\ \A i \in 1..n : Bytes(a, n)[i] = a + i
         /\ Bytes(a, n) = <<>> <=> n = 0
<1> DEFINE b == [i \in 1..n |-> a + i]
<1>1. b \in Seq(Nat) /\ Len(b) = n /\ \A i \in 1..n : b[i] = a + i
  <2>1. \A i \in 1..n : a + i \in Nat
    OBVIOUS
  <2>2. QED
    BY <2>1
<1>2. Bytes(a, n) = b
  BY DEF Bytes
<1> HIDE DEF b
<1>3. b = <<>> <=> n = 0
  BY <1>1
<1>4. QED
  BY <1>1, <1>2, <1>3

\* A page holds consecutive bytes that were written, from the cursor or from
\* what is retained; the end comes with the last of them.
LEMMA PageHolds ==
  ASSUME LogTypes, NEW page \in Pages
  PROVE  /\ \E k \in Nat :
              /\ From + k <= written
              /\ page.bytes = Bytes(From, k)
              /\ page.end => op \in Terminal /\ From + k = written
              /\ ~page.end /\ k # 0 => page.next \in {From + k, drain.cursor}
              /\ ~page.end /\ k = 0 => page.next = drain.cursor + 1
                                       \/ (page.next = drain.cursor /\ From = written)
         /\ page.truncated \in BOOLEAN
         /\ page.end \in BOOLEAN
<1>0. PICK flag \in BOOLEAN : page \in PagesFlagged(flag)
  BY DEF Pages
<1> DEFINE p(n, next) ==
             [bytes |-> Bytes(From, n), next |-> next, end |-> FALSE, truncated |-> flag]
           honest == {p(n, From + n) : n \in {k \in 1..PageSize : From + k <= written}}
           caughtUp == IF From >= written THEN {p(0, drain.cursor)} ELSE {}
           end == IF op \in Terminal
                    THEN {[p(IF From < written THEN written - From ELSE 0, From) EXCEPT !.end = TRUE]}
                    ELSE {}
           stuck == IF Len(output) <= MaxRepeated THEN {[q EXCEPT !.next = drain.cursor] : q \in honest} ELSE {}
           empty == {p(0, drain.cursor + 1)}
<1>1. page \in honest \union caughtUp \union end \union stuck \union empty
  BY <1>0 DEF PagesFlagged, From
<1>2. /\ From \in Nat /\ drain.cursor \in Nat /\ evicted \in Nat /\ written \in Nat
      /\ drain.cursor <= From /\ From <= written /\ PageSize \in Nat
  BY FromIs, WorkerAssumption
<1>3. CASE page \in honest
  <2>1. PICK n \in {k \in 1..PageSize : From + k <= written} : page = p(n, From + n)
    BY <1>3
  <2>2. n \in Nat /\ n # 0 /\ From + n <= written
    BY <1>2, <2>1
  <2>3. QED
    BY <2>1, <2>2
<1>4. CASE page \in caughtUp
  <2>1. page = p(0, drain.cursor) /\ From >= written
    BY <1>4
  <2>2. From + 0 <= written /\ From = written /\ 0 \in Nat
    BY <1>2, <2>1
  <2>3. QED
    BY <2>1, <2>2
<1>5. CASE page \in end
  <2> DEFINE n == IF From < written THEN written - From ELSE 0
  <2>1. op \in Terminal /\ page = [p(n, From) EXCEPT !.end = TRUE]
    BY <1>5
  <2>2. n \in Nat /\ From + n = written
    BY <1>2
  <2> HIDE DEF n
  <2>3. page.bytes = Bytes(From, n) /\ page.end = TRUE /\ page.truncated = flag
    BY <2>1, Zenon
  <2>4. From + n <= written
    BY <1>2, <2>2
  <2>5. QED
    BY <2>1, <2>2, <2>3, <2>4
<1>6. CASE page \in stuck
  <2>1. PICK q \in honest : page = [q EXCEPT !.next = drain.cursor]
    BY <1>6
  <2>2. PICK n \in {k \in 1..PageSize : From + k <= written} : q = p(n, From + n)
    BY <2>1
  <2>3. n \in Nat /\ n # 0 /\ From + n <= written
    BY <1>2, <2>2
  <2>4. page.bytes = Bytes(From, n) /\ page.end = FALSE /\ page.next = drain.cursor
        /\ page.truncated = flag
    BY <2>1, <2>2, Zenon
  <2>5. QED
    BY <2>3, <2>4
<1>7. CASE page \in empty
  <2>1. page = p(0, drain.cursor + 1)
    BY <1>7
  <2>2. From + 0 <= written /\ 0 \in Nat
    BY <1>2
  <2>3. QED
    BY <2>1, <2>2
<1>8. QED
  BY <1>1, <1>3, <1>4, <1>5, <1>6, <1>7

\* One page drained, as the rest of the argument uses it: k bytes from From on.
LEMMA PageDrained ==
  ASSUME WorkerInv, LogTypes, LogStages, DrainOnce
  PROVE  \E k \in Nat, says \in {"complete", "stalled", "advanced", "none"} :
           /\ From + k <= written
           /\ output' = output \o Bytes(From, k)
           /\ tail' = IF k = 0 THEN tail ELSE Retain(tail, Bytes(From, k))
           /\ drain' \in DrainRecord
           /\ drain'.cursor = IF says = "advanced" THEN From + k ELSE drain.cursor
           /\ drain'.complete <=> says = "complete"
           /\ drain'.stalled <=> (drain.stalled \/ says = "stalled")
           /\ drain'.truncatedLocal <=>
                (drain.truncatedLocal \/ Held(tail') < Held(tail) + Len(Bytes(From, k)))
           /\ says = "complete" => op \in Terminal /\ From + k = written
           /\ says = "none" => k = 0
           /\ AfterDrain(drain', output')
<1>1. PICK page \in Pages :
        LET says == PageSays(page)
            kept == IF page.bytes = <<>> THEN tail ELSE Retain(tail, page.bytes)
            state == [drain EXCEPT
              !.cursor = IF says = "advanced" THEN page.next ELSE @,
              !.complete = @ \/ says = "complete",
              !.stalled = @ \/ says = "stalled",
              !.truncatedDaemon = @ \/ page.truncated,
              !.truncatedLocal = @ \/ Held(kept) < Held(tail) + Len(page.bytes)]
        IN /\ output' = output \o page.bytes
           /\ tail' = kept
           /\ drain' = state
           /\ AfterDrain(state, output \o page.bytes)
  BY DEF DrainOnce
<1> DEFINE says == PageSays(page)
           cursor == IF says = "advanced" THEN page.next ELSE drain.cursor
           complete == drain.complete \/ says = "complete"
           stalled == drain.stalled \/ says = "stalled"
           daemonCut == drain.truncatedDaemon \/ page.truncated
           localCut == drain.truncatedLocal \/ Held(tail') < Held(tail) + Len(page.bytes)
<1>2. /\ output' = output \o page.bytes
      /\ tail' = IF page.bytes = <<>> THEN tail ELSE Retain(tail, page.bytes)
      /\ AfterDrain(drain', output')
  BY <1>1
<1>3. drain' = [drain EXCEPT !.cursor = cursor, !.complete = complete, !.stalled = stalled,
                             !.truncatedDaemon = daemonCut, !.truncatedLocal = localCut]
  BY <1>1
<1>4. PICK k \in Nat :
        /\ From + k <= written
        /\ page.bytes = Bytes(From, k)
        /\ page.end => op \in Terminal /\ From + k = written
        /\ ~page.end /\ k # 0 => page.next \in {From + k, drain.cursor}
        /\ ~page.end /\ k = 0 => page.next = drain.cursor + 1
                                 \/ (page.next = drain.cursor /\ From = written)
  BY PageHolds
<1>5. page.truncated \in BOOLEAN /\ page.end \in BOOLEAN
  BY PageHolds
<1>6. From \in Nat /\ drain.cursor \in Nat /\ drain.cursor <= From /\ drain \in DrainRecord
  BY FromIs DEF LogTypes
<1>7. page.bytes = <<>> <=> k = 0
  BY <1>4, <1>6, BytesAre
<1>8. pc = "drain_terminal" => op \in Terminal
  BY DEF WorkerInv, ExchangeInv
<1>9. says \in {"complete", "stalled", "advanced", "none"}
  BY DEF PageSays
<1>10. says = "complete" => op \in Terminal /\ From + k = written
  BY <1>4, <1>6, <1>7, <1>8 DEF PageSays
<1>11. says = "none" => k = 0
  BY <1>7 DEF PageSays
<1>12. says = "advanced" => page.next = From + k
  BY <1>4, <1>7, Zenon DEF PageSays
<1>13. drain.complete = FALSE
  <2>1. pc \in {"drain", "drain_terminal"}
    BY DEF DrainOnce
  <2>2. QED
    BY <1>6, <2>1 DEF LogStages, DrainRecord
<1>14. cursor \in Nat /\ cursor = IF says = "advanced" THEN From + k ELSE drain.cursor
  BY <1>6, <1>12
<1> HIDE DEF says
<1>15. /\ complete \in BOOLEAN /\ stalled \in BOOLEAN /\ daemonCut \in BOOLEAN
       /\ localCut \in BOOLEAN
  BY <1>5, Zenon
<1> HIDE DEF cursor, complete, stalled, daemonCut, localCut
<1>16. drain' \in DrainRecord
  BY <1>3, <1>6, <1>14, <1>15, ZenonT(30) DEF DrainRecord
<1>17. /\ drain'.cursor = cursor /\ drain'.complete = complete /\ drain'.stalled = stalled
       /\ drain'.truncatedDaemon = daemonCut /\ drain'.truncatedLocal = localCut
  BY <1>3, <1>6, ZenonT(30) DEF DrainRecord
<1>18. drain'.complete <=> says = "complete"
  BY <1>13, <1>17, Zenon DEF complete
<1>19. drain'.stalled <=> (drain.stalled \/ says = "stalled")
  BY <1>17, Zenon DEF stalled
<1>20. drain'.truncatedLocal <=>
         (drain.truncatedLocal \/ Held(tail') < Held(tail) + Len(Bytes(From, k)))
  BY <1>4, <1>17, Zenon DEF localCut
<1>21. drain'.cursor = IF says = "advanced" THEN From + k ELSE drain.cursor
  BY <1>14, <1>17, Zenon
<1>22. /\ output' = output \o Bytes(From, k)
       /\ tail' = IF k = 0 THEN tail ELSE Retain(tail, Bytes(From, k))
  BY <1>2, <1>4, <1>7, Zenon
<1>23. QED
  BY <1>2, <1>4, <1>9, <1>10, <1>11, <1>16, <1>18, <1>19, <1>20, <1>21, <1>22, Zenon

LEMMA ConcatIs ==
  ASSUME NEW s \in Seq(Nat), NEW a \in Nat, NEW k \in Nat
  PROVE  /\ s \o Bytes(a, k) \in Seq(Nat)
         /\ Len(s \o Bytes(a, k)) = Len(s) + k
         /\ \A i \in 1..Len(s) : (s \o Bytes(a, k))[i] = s[i]
         /\ \A i \in 1..k : (s \o Bytes(a, k))[Len(s) + i] = a + i
         /\ k = 0 => s \o Bytes(a, k) = s
<1> DEFINE b == Bytes(a, k)
<1>1. b \in Seq(Nat) /\ Len(b) = k /\ \A i \in 1..k : b[i] = a + i
  BY BytesAre
<1>2. k = 0 => b = <<>>
  BY BytesAre
<1> HIDE DEF b
<1>3. /\ s \o b \in Seq(Nat) /\ Len(s \o b) = Len(s) + k
      /\ \A i \in 1..Len(s) : (s \o b)[i] = s[i]
      /\ k = 0 => s \o b = s
  BY SMTT(30), <1>1, <1>2
<1>4. ASSUME NEW i \in 1..k
      PROVE  (s \o b)[Len(s) + i] = a + i
  <2>1. (s \o b)[Len(s) + i] = b[Len(s) + i - Len(s)]
    BY <1>1
  <2>2. Len(s) + i - Len(s) = i
    OBVIOUS
  <2>3. QED
    BY <1>1, <2>1, <2>2
<1>5. QED
  BY <1>3, <1>4 DEF b

LEMMA ConcatSet ==
  ASSUME NEW s \in Seq(Nat), NEW a \in Nat, NEW k \in Nat
  PROVE  ToSet(s \o Bytes(a, k)) = ToSet(s) \union ((a + 1)..(a + k))
<1> DEFINE t == s \o Bytes(a, k)
<1>1. /\ t \in Seq(Nat) /\ Len(t) = Len(s) + k /\ \A i \in 1..Len(s) : t[i] = s[i]
      /\ \A i \in 1..k : t[Len(s) + i] = a + i
  BY ConcatIs
<1> HIDE DEF t
<1>2. Len(s) \in Nat /\ DOMAIN s = 1..Len(s) /\ DOMAIN t = 1..Len(s) + k
  BY <1>1
<1>3. ASSUME NEW x \in ToSet(t) PROVE x \in ToSet(s) \union ((a + 1)..(a + k))
  <2>1. PICK i \in 1..Len(s) + k : x = t[i]
    BY <1>2 DEF ToSet
  <2>2. CASE i <= Len(s)
    <3>1. i \in 1..Len(s) /\ x = s[i]
      BY <1>1, <1>2, <2>1, <2>2
    <3>2. QED
      BY <1>2, <3>1 DEF ToSet
  <2>3. CASE i > Len(s)
    <3>1. i - Len(s) \in 1..k /\ Len(s) + (i - Len(s)) = i
      BY <1>2, <2>3
    <3>2. x = a + (i - Len(s))
      BY <1>1, <2>1, <3>1
    <3>3. QED
      BY <3>1, <3>2
  <2>4. QED
    BY <1>2, <2>2, <2>3
<1>4. ASSUME NEW x \in ToSet(s) PROVE x \in ToSet(t)
  <2>1. PICK i \in 1..Len(s) : x = s[i]
    BY <1>2 DEF ToSet
  <2>2. i \in 1..Len(s) + k
    BY <1>2, <2>1
  <2>3. x = t[i]
    BY <1>1, <2>1
  <2>4. QED
    BY <1>2, <2>2, <2>3 DEF ToSet
<1>5. ASSUME NEW x \in (a + 1)..(a + k) PROVE x \in ToSet(t)
  <2> DEFINE i == x - a
  <2>1. i \in 1..k /\ a + i = x
    OBVIOUS
  <2> HIDE DEF i
  <2>2. t[Len(s) + i] = x
    BY <1>1, <2>1
  <2>3. Len(s) + i \in 1..Len(s) + k
    BY <1>2, <2>1
  <2>4. QED
    BY <1>2, <2>2, <2>3 DEF ToSet
<1>6. QED
  BY <1>3, <1>4, <1>5 DEF t

\* Bytes from behind the last one delivered keep the order.
LEMMA IncreasingGrows ==
  ASSUME NEW s \in Seq(Nat), NEW a \in Nat, NEW k \in Nat, NEW c \in Nat,
         Increasing(s), AtMost(s, c), c <= a
  PROVE  /\ Increasing(s \o Bytes(a, k))
         /\ AtMost(s \o Bytes(a, k), a + k)
<1> DEFINE t == s \o Bytes(a, k)
<1>1. /\ t \in Seq(Nat) /\ Len(t) = Len(s) + k /\ \A i \in 1..Len(s) : t[i] = s[i]
      /\ \A i \in 1..k : t[Len(s) + i] = a + i
  BY ConcatIs
<1> HIDE DEF t
<1>2. Len(s) \in Nat /\ DOMAIN s = 1..Len(s) /\ DOMAIN t = 1..Len(s) + k
  BY <1>1
<1>3. ASSUME NEW i \in 1..Len(s) + k
      PROVE  \/ i \in 1..Len(s) /\ t[i] = s[i] /\ s[i] \in Nat /\ s[i] <= c
             \/ i > Len(s) /\ t[i] = a + (i - Len(s)) /\ i - Len(s) \in 1..k
  <2>1. CASE i <= Len(s)
    BY SMTT(30), <1>1, <1>2, <2>1 DEF AtMost
  <2>2. CASE i > Len(s)
    <3>1. i - Len(s) \in 1..k /\ Len(s) + (i - Len(s)) = i
      BY <1>2, <2>2
    <3>2. QED
      BY <1>1, <2>2, <3>1
  <2>3. QED
    BY <1>2, <2>1, <2>2
<1>4. ASSUME NEW i \in 1..Len(s) + k, NEW j \in 1..Len(s) + k, i < j
      PROVE  t[i] < t[j]
  <2>1. CASE j \in 1..Len(s)
    <3>1. i \in 1..Len(s) /\ t[i] = s[i] /\ t[j] = s[j]
      BY <1>1, <1>2, <1>4, <2>1
    <3>2. QED
      BY <1>2, <1>4, <2>1, <3>1 DEF Increasing
  <2>2. CASE j \notin 1..Len(s)
    <3>1. t[j] = a + (j - Len(s)) /\ j - Len(s) \in 1..k
      BY <1>3, <2>2
    <3>2. \/ t[i] \in Nat /\ t[i] <= c
          \/ t[i] = a + (i - Len(s)) /\ i - Len(s) \in 1..k
      BY <1>3
    <3>3. QED
      BY <1>2, <1>4, <3>1, <3>2
  <2>3. QED
    BY <2>1, <2>2
<1>5. ASSUME NEW i \in 1..Len(s) + k PROVE t[i] <= a + k
  BY <1>2, <1>3
<1>6. Increasing(t) /\ AtMost(t, a + k)
  BY <1>2, <1>4, <1>5 DEF Increasing, AtMost
<1>7. QED
  BY <1>6 DEF t

-----------------------------------------------------------------------------
(* The steps.                                                              *)

\* What the log and the sink hold after a page.
LEMMA DrainedLog ==
  ASSUME WorkerInv, LogInv, DrainOnce
  PROVE  /\ drain' \in DrainRecord /\ drain'.cursor <= written
         /\ output' \in Seq(Nat) /\ tail' \in Seq(Seq(Nat))
         /\ Delivered' /\ Retained'
<1> USE DEF LogInv
<1>1. PICK k \in Nat, says \in {"complete", "stalled", "advanced", "none"} :
           /\ From + k <= written
           /\ output' = output \o Bytes(From, k)
           /\ tail' = IF k = 0 THEN tail ELSE Retain(tail, Bytes(From, k))
           /\ drain' \in DrainRecord
           /\ drain'.cursor = IF says = "advanced" THEN From + k ELSE drain.cursor
           /\ drain'.complete <=> says = "complete"
           /\ drain'.stalled <=> (drain.stalled \/ says = "stalled")
           /\ drain'.truncatedLocal <=>
                (drain.truncatedLocal \/ Held(tail') < Held(tail) + Len(Bytes(From, k)))
           /\ says = "complete" => op \in Terminal /\ From + k = written
           /\ says = "none" => k = 0
           /\ AfterDrain(drain', output')
  BY PageDrained
<1>2. /\ From \in Nat /\ drain.cursor \in Nat /\ evicted \in Nat /\ written \in Nat
      /\ drain.cursor <= From /\ From <= written
      /\ evicted <= From /\ From \in {drain.cursor, evicted}
  BY FromIs
<1>3. /\ op' = op /\ written' = written /\ evicted' = evicted /\ missed' = missed
      /\ missed \subseteq 1..evicted /\ pc \in {"drain", "drain_terminal"}
      /\ output \in Seq(Nat) /\ tail \in Seq(Seq(Nat)) /\ drain.cursor <= written
      /\ drain.complete = FALSE
  BY DEF DrainOnce, daemon, LogTypes, LogStages, DrainRecord
<1> DEFINE chunk == Bytes(From, k)
<1>4. chunk \in Seq(Nat) /\ Len(chunk) = k /\ (chunk = <<>> <=> k = 0)
  BY <1>2, BytesAre
<1>5. drain'.cursor <= written
  BY <1>1, <1>2
<1>6. output' \in Seq(Nat) /\ (k = 0 => output' = output)
  BY <1>1, <1>2, <1>3, ConcatIs
<1>7. ASSUME ~drain'.stalled
      PROVE  /\ Increasing(output')
             /\ says = "none" => ToSet(output') = (1..drain.cursor) \ missed
             /\ ToSet(output') = (1..From + k) \ missed
             /\ (drain.cursor + 1)..evicted \subseteq missed
  <2>1. ~drain.stalled /\ says # "stalled"
    BY <1>1, <1>7
  <2>2. /\ Increasing(output) /\ ToSet(output) = (1..drain.cursor) \ missed
        /\ (drain.cursor + 1)..evicted \subseteq missed
    BY <1>3, <2>1 DEF Delivered
  <2>3. AtMost(output, drain.cursor)
    <3>1. \A i \in DOMAIN output : output[i] \in 1..drain.cursor
      BY <2>2 DEF ToSet
    <3>2. QED
      BY <1>2, <3>1 DEF AtMost
  <2>4. Increasing(output')
    BY <1>1, <1>2, <1>3, <2>2, <2>3, IncreasingGrows
  <2>5. ToSet(output') = ToSet(output) \union ((From + 1)..(From + k))
    BY <1>1, <1>2, <1>3, ConcatSet
  <2>6. (1..From + k) \ missed = ((1..drain.cursor) \ missed) \union ((From + 1)..(From + k))
    <3> DEFINE c == drain.cursor
               f == From
    <3>1. /\ c \in Nat /\ f \in Nat /\ evicted \in Nat /\ c <= f /\ evicted <= f
          /\ f \in {c, evicted} /\ (c + 1)..evicted \subseteq missed
          /\ missed \subseteq 1..evicted
      BY <1>2, <1>3, <2>2
    <3> HIDE DEF c, f
    <3>2. (1..f + k) \ missed = ((1..c) \ missed) \union ((f + 1)..(f + k))
      BY <3>1
    <3>3. QED
      BY <3>2 DEF c, f
  <2>7. says = "none" => output' = output
    BY <1>1, <1>6
  <2>8. QED
    BY <2>2, <2>4, <2>5, <2>6, <2>7
<1>8. Delivered'
  <2> SUFFICES ASSUME ~drain'.stalled
               PROVE  /\ Increasing(output')
                      /\ ~drain'.complete =>
                           /\ ToSet(output') = (1..drain'.cursor) \ missed
                           /\ (drain'.cursor + 1)..evicted \subseteq missed
                      /\ drain'.complete =>
                           op \in Terminal /\ ToSet(output') = (1..written) \ missed
    BY <1>3 DEF Delivered
  <2>1. CASE says = "none"
    BY <1>1, <1>7, <2>1
  <2>2. CASE says = "advanced"
    <3>1. ToSet(output') = (1..drain'.cursor) \ missed /\ drain'.cursor = From + k
      BY <1>1, <1>7, <2>2
    <3>2. (From + k + 1)..evicted = {}
      BY <1>2
    <3>3. QED
      BY <1>1, <1>7, <2>2, <3>1, <3>2
  <2>3. CASE says = "complete"
    BY <1>1, <1>7, <2>3
  <2>4. QED
    BY <1>1, <2>1, <2>2, <2>3
<1>9. tail' \in Seq(Seq(Nat)) /\ Retained'
  <2>1. CASE k = 0
    <3>1. tail' = tail /\ output' = output /\ (~drain'.truncatedLocal => ~drain.truncatedLocal)
      BY <1>1, <1>6, <2>1
    <3>2. QED
      BY <1>3, <3>1 DEF Retained
  <2>2. CASE k # 0
    <3> DEFINE bytes == FlattenSeq(tail) \o chunk
    <3>1. tail' = Retain(tail, chunk) /\ output' = output \o chunk
      BY <1>1, <2>2
    <3> HIDE DEF chunk
    <3>2. /\ tail' \in Seq(Seq(Nat)) /\ FlattenSeq(tail') \in Seq(Nat) /\ bytes \in Seq(Nat)
          /\ Ends(FlattenSeq(tail'), bytes) /\ Held(tail') <= CaptureBound
          /\ ~(Held(tail') < Held(tail) + Len(chunk)) => FlattenSeq(tail') = bytes
      BY <1>3, <1>4, <3>1, RetainKeeps
    <3>3. FlattenSeq(tail) \in Seq(Nat) /\ Ends(FlattenSeq(tail), output)
      BY <1>3, FlattenType DEF Retained
    <3>4. Ends(bytes, output')
      BY <1>3, <1>4, <3>1, <3>3, EndsConcat
    <3>5. Ends(FlattenSeq(tail'), output')
      <4> HIDE DEF bytes
      <4>1. QED
        BY <1>6, <3>2, <3>4, EndsTransitive
    <3>6. ~drain'.truncatedLocal => FlattenSeq(tail') = output'
      <4>1. ASSUME ~drain'.truncatedLocal PROVE FlattenSeq(tail') = output'
        <5>1. ~drain.truncatedLocal /\ ~(Held(tail') < Held(tail) + Len(chunk))
          BY <1>1, <4>1 DEF chunk
        <5>2. FlattenSeq(tail') = bytes /\ FlattenSeq(tail) = output
          BY <3>2, <5>1 DEF Retained
        <5>3. QED
          BY <3>1, <5>2
      <4>2. QED
        BY <4>1
    <3>7. QED
      BY <3>2, <3>5, <3>6 DEF Retained
  <2>3. QED
    BY <2>1, <2>2
<1>10. QED
  BY <1>1, <1>5, <1>6, <1>8, <1>9

\* A return names the capture by how the drain ended, and only a return does.
LEMMA ReturnNames ==
  ASSUME NEW with, NEW state, NEW got, Return(with, state, got), capture = "none"
  PROVE  /\ pc' \in {"cancel", "done"}
         /\ pc' # "done" => capture' = "none"
         /\ pc' = "done" => capture' = CaptureStatus(state, got)
BY DEF Return, Ended

LEMMA AfterDrainNames ==
  ASSUME NEW state, NEW got, AfterDrain(state, got), capture = "none",
         pc \in {"drain", "drain_terminal"}
  PROVE  /\ pc' \in {"poll", "cancel", "drain_terminal", "done"}
         /\ pc' = "drain_terminal" => ~state.complete
         /\ pc' # "done" => capture' = "none"
         /\ pc' = "done" => capture' = CaptureStatus(state, got)
<1>1. CASE pc = "drain"
  BY <1>1 DEF AfterDrain, Goto
<1>2. CASE pc = "drain_terminal" /\ (state.complete \/ state.failed \/ state.stalled)
  BY <1>2, ReturnNames DEF AfterDrain
<1>3. CASE pc = "drain_terminal" /\ ~(state.complete \/ state.failed \/ state.stalled)
  BY <1>3 DEF AfterDrain, Goto
<1>4. QED
  BY <1>1, <1>2, <1>3

LEMMA NamesHonest ==
  ASSUME NEW state, NEW got
  PROVE  /\ CaptureStatus(state, got) \in {"captured", "truncated", "unavailable"}
         /\ CaptureStatus(state, got) = "captured" => Undamaged(state)
         /\ CaptureStatus(state, got) = "unavailable" => got = <<>>
BY DEF CaptureStatus, Undamaged

\* A step that leaves the log alone.
LEMMA LogKept ==
  ASSUME LogInv, UNCHANGED <<written, evicted, missed, drain, output, tail>>,
         op \in Terminal => op' \in Terminal,
         capture' \in {"none", "captured", "truncated", "unavailable"},
         LogStages', CaptureNamed'
  PROVE  LogInv'
<1>1. LogTypes'
  BY DEF LogInv, LogTypes
<1>2. Delivered'
  BY DEF LogInv, Delivered
<1>3. Retained'
  BY DEF LogInv, Retained
<1>4. QED
  BY <1>1, <1>2, <1>3 DEF LogInv

LEMMA DrainLog ==
  ASSUME WorkerInv, LogInv, DrainOnce \/ DrainUnanswered
  PROVE  LogInv'
<1>1. /\ pc \in {"drain", "drain_terminal"} /\ capture = "none"
      /\ UNCHANGED <<op, written, evicted, missed>>
  BY DEF DrainOnce, DrainUnanswered, daemon, LogInv, LogStages
<1>2. /\ drain' \in DrainRecord /\ drain'.cursor <= written
      /\ output' \in Seq(Nat) /\ tail' \in Seq(Seq(Nat))
      /\ Delivered' /\ Retained' /\ AfterDrain(drain', output')
  <2>1. CASE DrainOnce
    BY <2>1, DrainedLog, PageDrained DEF LogInv
  <2>2. CASE DrainUnanswered
    <3>1. PICK failed \in BOOLEAN :
            drain' = [drain EXCEPT !.failed = @ \/ failed, !.turn = 1 - @]
            /\ AfterDrain(drain', output)
      BY <2>2 DEF DrainUnanswered
    <3>2. output' = output /\ tail' = tail
      BY <2>2 DEF DrainUnanswered
    <3> DEFINE all == drain.failed \/ failed
               turn == 1 - drain.turn
    <3>3. drain' = [drain EXCEPT !.failed = all, !.turn = turn]
      BY <3>1
    <3>4. drain \in DrainRecord
      BY DEF LogInv, LogTypes
    <3>5. all \in BOOLEAN /\ turn \in {0, 1}
      <4>1. drain.turn \in {0, 1}
        BY <3>4 DEF DrainRecord
      <4>2. QED
        BY <4>1
    <3> HIDE DEF all, turn
    <3>6. /\ drain' \in DrainRecord /\ drain'.cursor = drain.cursor
          /\ drain'.complete = drain.complete /\ drain'.stalled = drain.stalled
          /\ drain'.truncatedDaemon = drain.truncatedDaemon
          /\ drain'.truncatedLocal = drain.truncatedLocal
      BY <3>3, <3>4, <3>5, Zenon DEF DrainRecord
    <3>7. Delivered'
      BY <1>1, <3>2, <3>6 DEF LogInv, Delivered
    <3>8. Retained'
      BY <3>2, <3>6 DEF LogInv, Retained
    <3>9. QED
      BY <3>1, <3>2, <3>6, <3>7, <3>8 DEF LogInv, LogTypes
  <2>3. QED
    BY <2>1, <2>2
<1>3. /\ pc' \in {"poll", "cancel", "drain_terminal", "done"}
      /\ pc' = "drain_terminal" => ~drain'.complete
      /\ pc' # "done" => capture' = "none"
      /\ pc' = "done" => capture' = CaptureStatus(drain', output')
  BY <1>1, <1>2, AfterDrainNames
<1>4. capture' \in {"none", "captured", "truncated", "unavailable"}
  BY <1>3, NamesHonest
<1>5. LogTypes'
  BY <1>1, <1>2, <1>4 DEF LogInv, LogTypes
<1>6. LogStages'
  BY <1>3 DEF LogStages
<1>7. CaptureNamed'
  <2>1. /\ capture' = "captured" => Undamaged(drain')
        /\ capture' = "unavailable" => output' = <<>>
    BY <1>3, NamesHonest
  <2>2. QED
    BY <2>1 DEF CaptureNamed, Undamaged
<1>8. QED
  BY <1>2, <1>5, <1>6, <1>7 DEF LogInv

\* The claims and the daemon: a byte is written only while the operation runs.
LEMMA OutsideLog ==
  ASSUME WorkerInv, LogInv, ClaimTimeout \/ ForwardUserSignal \/ Worker
  PROVE  LogInv'
<1>1. UNCHANGED <<pc, drain, output, tail, capture>>
  BY DEF ClaimTimeout, ForwardUserSignal, Worker, OpStarts, OpWrites, OpEnds, Evict, logs
<1>2. LogStages' /\ CaptureNamed'
  BY <1>1 DEF LogInv, LogStages, CaptureNamed, Undamaged
<1>3. capture' \in {"none", "captured", "truncated", "unavailable"}
  BY <1>1 DEF LogInv, LogTypes
<1>4. CASE ClaimTimeout \/ ForwardUserSignal \/ OpStarts \/ OpEnds
  <2>1. UNCHANGED <<written, evicted, missed>> /\ (op \in Terminal => op' \in Terminal)
    BY <1>4 DEF ClaimTimeout, ForwardUserSignal, OpStarts, OpEnds, daemon, Terminal
  <2>2. QED
    BY <1>1, <1>2, <1>3, <2>1, LogKept
<1>5. CASE Evict
  <2> DEFINE dropped == ((evicted + 1)..evicted') \ ToSet(output)
  <2>1. /\ UNCHANGED <<op, written>> /\ evicted' \in (evicted + 1)..written
        /\ missed' = missed \union dropped
    BY <1>5 DEF Evict
  <2>2. /\ written \in Nat /\ evicted \in Nat /\ evicted <= written /\ written \in 0..LogLength
        /\ missed \subseteq 1..evicted /\ drain.cursor \in Nat
    BY WorkerAssumption DEF LogInv, LogTypes, DrainRecord
  <2>3. evicted' \in Nat /\ evicted' \in 0..written' /\ evicted < evicted'
    BY <2>1, <2>2
  <2>4. missed' \subseteq 1..evicted'
    <3>1. missed \subseteq 1..evicted'
      BY <2>2, <2>3
    <3>2. (evicted + 1)..evicted' \subseteq 1..evicted'
      BY <2>2, <2>3
    <3>3. QED
      BY <2>1, <3>1, <3>2
  <2>5. LogTypes'
    BY <1>1, <2>1, <2>3, <2>4 DEF LogInv, LogTypes
  <2>6. \A S : ToSet(output) = S \ missed => ToSet(output) = S \ missed'
    BY <2>1
  <2>7. ASSUME ToSet(output) = (1..drain.cursor) \ missed,
               (drain.cursor + 1)..evicted \subseteq missed
        PROVE  (drain.cursor + 1)..evicted' \subseteq missed'
    <3> DEFINE c == drain.cursor
    <3>1. c \in Nat /\ (c + 1)..evicted \subseteq missed /\ ToSet(output) \subseteq 1..c
      BY <2>2, <2>7
    <3> HIDE DEF c
    <3>2. ASSUME NEW x \in (c + 1)..evicted' PROVE x \in missed'
      <4>1. x \notin ToSet(output)
        BY <3>1
      <4>2. x <= evicted \/ x \in (evicted + 1)..evicted'
        BY <2>2, <2>3, <3>1
      <4>3. x <= evicted => x \in missed
        BY <2>2, <3>1
      <4>4. QED
        BY <2>1, <4>1, <4>2, <4>3
    <3>3. QED
      BY <3>2 DEF c
  <2>8. Delivered'
    BY <1>1, <2>1, <2>6, <2>7 DEF LogInv, Delivered
  <2>9. Retained'
    BY <1>1 DEF LogInv, Retained
  <2>10. QED
    BY <1>2, <2>5, <2>8, <2>9 DEF LogInv
<1>6. CASE OpWrites
  <2>1. /\ op = "running" /\ UNCHANGED <<op, evicted, missed>>
        /\ \E n \in 1..(LogLength - written) : written' = written + n
    BY <1>6 DEF OpWrites
  <2>2. /\ written \in Nat /\ evicted \in Nat /\ evicted <= written /\ LogLength \in Nat
        /\ drain \in DrainRecord /\ drain.cursor <= written
    BY WorkerAssumption DEF LogInv, LogTypes
  <2>3. drain.cursor \in Nat
    BY <2>2 DEF DrainRecord
  <2>4. written' \in 0..LogLength /\ written <= written'
    BY <2>1, <2>2
  <2>5. evicted' \in 0..written' /\ drain'.cursor <= written'
    BY <1>1, <2>1, <2>2, <2>3, <2>4
  <2>6. LogTypes'
    BY <1>1, <2>1, <2>4, <2>5 DEF LogInv, LogTypes
  <2>7. op \notin Terminal
    BY <2>1 DEF Terminal
  <2>8. Delivered' /\ Retained'
    BY <1>1, <2>1, <2>7 DEF LogInv, Delivered, Retained
  <2>9. QED
    BY <1>2, <2>6, <2>8 DEF LogInv
<1>7. QED
  BY <1>4, <1>5, <1>6 DEF Worker

LEMMA CreateLog ==
  ASSUME WorkerInv, LogInv, CreateUnanswered \/ Created
  PROVE  LogInv'
<1>1. /\ pc = "create" /\ op = "none" /\ UNCHANGED <<written, evicted, missed, drain, output, tail>>
      /\ output = <<>> /\ ~drain.complete /\ capture = "none"
  BY DEF CreateUnanswered, Created, logs, WorkerInv, ExchangeInv, LogInv, LogStages
<1>2. \/ pc' = "done" /\ capture' \in {"unavailable", "none"}
      \/ pc' \in {"cancel_early", "drain"} /\ capture' = "none"
  BY <1>1 DEF CreateUnanswered, Created, Ended, Goto
<1>3. LogStages' /\ CaptureNamed'
  BY <1>1, <1>2 DEF LogStages, CaptureNamed
<1>4. op \notin Terminal
  BY <1>1 DEF Terminal
<1>5. QED
  BY <1>1, <1>2, <1>3, <1>4, LogKept

LEMMA PollLog ==
  ASSUME WorkerInv, LogInv, PollStatus \/ PollUnanswered
  PROVE  LogInv'
<1>1. /\ pc = "poll" /\ capture = "none"
      /\ UNCHANGED <<op, written, evicted, missed, drain, output, tail>>
  BY DEF PollStatus, PollUnanswered, daemon, logs, LogInv, LogStages
<1>2. /\ pc' \in {"sleep", "cancel", "drain_terminal", "done"}
      /\ pc' = "drain_terminal" => ~drain.complete
      /\ pc' # "done" => capture' = "none"
      /\ pc' = "done" => capture' = CaptureStatus(drain, output)
  <2>1. CASE PollUnanswered
    BY <1>1, <2>1, ReturnNames DEF PollUnanswered
  <2>2. CASE PollStatus /\ op \in Live
    BY <1>1, <2>2 DEF PollStatus, Goto
  <2>3. CASE PollStatus /\ op \notin Live /\ (drain.complete \/ drain.failed \/ drain.stalled)
    BY <1>1, <2>3, ReturnNames DEF PollStatus
  <2>4. CASE PollStatus /\ op \notin Live /\ ~(drain.complete \/ drain.failed \/ drain.stalled)
    BY <1>1, <2>4 DEF PollStatus, Goto
  <2>5. QED
    BY <2>1, <2>2, <2>3, <2>4
<1>3. /\ capture' \in {"none", "captured", "truncated", "unavailable"}
      /\ capture' = "captured" => Undamaged(drain)
      /\ capture' = "unavailable" => output = <<>>
  BY <1>2, NamesHonest
<1>4. LogStages'
  BY <1>1, <1>2 DEF LogStages
<1>5. CaptureNamed'
  BY <1>1, <1>3 DEF CaptureNamed, Undamaged
<1>6. QED
  BY <1>1, <1>3, <1>4, <1>5, LogKept

LEMMA WakeLog ==
  ASSUME WorkerInv, LogInv, Wake
  PROVE  LogInv'
<1>1. /\ UNCHANGED <<op, written, evicted, missed, drain, output, tail, capture>>
      /\ capture = "none" /\ drain \in DrainRecord
  BY DEF Wake, Goto, daemon, logs, LogInv, LogStages, LogTypes
<1>2. \/ pc' \in {"cancel", "poll"}
      \/ pc' = "drain" /\ ~drain.complete
  BY DEF Wake, Goto
<1>3. LogStages' /\ CaptureNamed'
  BY <1>1, <1>2 DEF LogStages, CaptureNamed
<1>4. QED
  BY <1>1, <1>3, LogKept

LEMMA CancelLog ==
  ASSUME WorkerInv, LogInv, Cancel
  PROVE  LogInv'
<1>1. /\ UNCHANGED <<written, evicted, missed, drain, output, tail>>
      /\ pc \in {"cancel", "cancel_early"} /\ pc' = "done"
      /\ capture' = IF pc = "cancel_early" \/ output = <<>> THEN "unavailable" ELSE "truncated"
  BY DEF Cancel, Ended, logs
<1>2. op \in Terminal => op' \in Terminal
  BY DEF Cancel, Terminal
<1>3. pc = "cancel_early" => output = <<>>
  BY DEF LogInv, LogStages
<1>4. LogStages' /\ CaptureNamed'
  BY <1>1, <1>3 DEF LogStages, CaptureNamed
<1>5. QED
  BY <1>1, <1>2, <1>4, LogKept

LEMMA LogInvNext == WorkerInv /\ LogInv /\ [Next]_vars => LogInv'
<1> SUFFICES ASSUME WorkerInv, LogInv, [Next]_vars PROVE LogInv'
  OBVIOUS
<1>1. CASE UNCHANGED vars
  BY <1>1, LogKept DEF vars, LogInv, LogTypes, LogStages, CaptureNamed, Undamaged
<1>2. QED
  BY <1>1, OutsideLog, CreateLog, DrainLog, PollLog, WakeLog, CancelLog DEF Next, Caller

LEMMA LogInvAlways == Spec => []LogInv
<1>1. Init => LogInv
  BY LogInit
<1>2. QED
  BY <1>1, LogInvNext, WorkerInvAlways, PTL DEF Spec

\* Whatever the daemon answers, in any order, with any claims between, what is
\* left behind is accounted for: a capture is called captured only when the
\* operation is over and the sink got, once and in order, every byte of the worker
\* that the daemon had not dropped before it was read, and the tail is all of
\* that; and what was cancelled or left running is what the outcome says.
THEOREM OperationAccountedAlways == Spec => []OperationAccounted
<1>1. WorkerInv /\ LogInv => OperationAccounted
  <2> SUFFICES ASSUME WorkerInv, LogInv PROVE OperationAccounted
    OBVIOUS
  <2>1. drain.cursor \in 0..LogLength
    <3>1. /\ written \in Nat /\ written <= LogLength /\ LogLength \in Nat
          /\ drain.cursor \in Nat /\ drain.cursor <= written
      BY WorkerAssumption DEF LogInv, LogTypes, DrainRecord
    <3>2. QED
      BY <3>1
  <2>2. WorkerTypeOK
    BY <2>1 DEF WorkerInv, Types, Stages, Outcomes, LogInv, LogTypes, WorkerTypeOK
  <2>3. CaptureHonest
    BY LogCorrect
  <2>4. QED
    BY <2>2, <2>3 DEF WorkerInv, OperationAccounted
<1>2. QED
  BY <1>1, WorkerInvAlways, LogInvAlways, PTL
=============================================================================
