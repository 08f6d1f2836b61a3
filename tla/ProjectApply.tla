---------------------------- MODULE ProjectApply ----------------------------
(***************************************************************************)
(* The apply of a reviewed result to the registered project: the calls that  *)
(* prepare and write, the deaths and failures that cut them short, and the   *)
(* operator, who edits the project without the lock.                        *)
(***************************************************************************)
EXTENDS ApplyPreparation, ApplyWriter

-----------------------------------------------------------------------------
(* The operator.                                                           *)

\* What a path can be replaced with: what the review knows of it, or nothing.
Nodes(p) == {review.baseline[p], review.result[p], review.operator[p], Absent}

\* What the operator removes goes with all it contains.
Replaced(p, node) ==
  [q \in Paths |-> IF q = p THEN node
                   ELSE IF q \in Below(p) /\ ~IsDirectory(node) THEN Absent ELSE tree[q]]

OperatorEdit ==
  /\ edits < MaxEdits
  /\ \E p \in Paths : \E node \in Nodes(p) \ {tree[p]} :
       /\ IsTree(Replaced(p, node))
       /\ tree' = Replaced(p, node)
       /\ edited' = edited \cup {q \in Paths : Replaced(p, node)[q] # tree[q]}
       /\ removed' = removed \cup
            {q \in Paths : IsDirectory(tree[q]) /\ ~IsDirectory(Replaced(p, node)[q])}
  /\ edits' = edits + 1
  /\ UNCHANGED <<review, temps, operation, plan, sealed, calls, begun, faults, lapses>>

\* An object of the operator's at the name the journal gave the next temp.
OperatorTakesName ==
  /\ edits < MaxEdits /\ operation # None
  /\ ActiveOf(operation) # None /\ ~HasTemp(ActiveOf(operation).temp)
  /\ temps' = [n \in DOMAIN temps \cup {ActiveOf(operation).temp} |->
                 IF n = ActiveOf(operation).temp THEN ForeignTemp ELSE temps[n]]
  /\ edits' = edits + 1
  /\ UNCHANGED <<review, tree, operation, plan, sealed, calls, begun, faults, lapses>>
  /\ UnchangedView

-----------------------------------------------------------------------------
(* A call fails, and cleans the temp of its regular file, or its process     *)
(* dies.  Some of what is left no later call repairs.                       *)

BareDirectory(c) ==
  {l \in {"bare_directory"} : At(c, "chmod") /\ StepOf(c).after.mode # PrivateMode}
UnownedTemp(c) == {l \in {"unowned_temp"} : At(c, "identity")}
SealedTemp(c) ==
  {l \in {"sealed_temp"} :
     /\ calls[c].pc \in {"rename", "replace"} /\ IsFile(c) /\ HasTemp(calls[c].temp)
     /\ temps[calls[c].temp].mode \in ReadOnlyModes}

Die(c) ==
  /\ ~At(c, "idle") /\ faults < MaxFaults
  /\ Leave(c)
  /\ faults' = faults + 1
  /\ lapses' = lapses \cup BareDirectory(c) \cup UnownedTemp(c) \cup SealedTemp(c)
  /\ UNCHANGED <<operation, plan, sealed>> /\ UnchangedProject

\* The publication of a link has no clean-up before the link's identity is durable.
Cleans(c) ==
  \/ calls[c].pc \in {"identity", "write"} /\ IsFile(c)
  \/ calls[c].pc \in {"rename", "replace"}
  \/ Published(c)

Err(c) ==
  /\ ~At(c, "idle") /\ faults < MaxFaults
  /\ Leave(c)
  /\ faults' = faults + 1
  /\ lapses' = lapses \cup BareDirectory(c)
                 \cup (IF Cleans(c) THEN {} ELSE UnownedTemp(c))
  /\ temps' = IF Cleans(c) THEN WithoutTemp(calls[c].temp) ELSE temps
  /\ UNCHANGED <<review, tree, operation, plan, sealed, begun, edits>> /\ UnchangedView

-----------------------------------------------------------------------------
CallStep(c) == PrepareStep(c) \/ WriteStep(c)

ApplyNext ==
  \/ \E c \in Calls : Begin(c) \/ CallStep(c) \/ Die(c) \/ Err(c)
  \/ OperatorEdit
  \/ OperatorTakesName

\* A process takes its next step, and the operator's interface can always be asked
\* to apply once more.
ApplyFairness ==
  /\ \A c \in Calls : WF_applyVars(CallStep(c))
  /\ WF_applyVars(Begin(Retrier))

ApplySpec == InitApply /\ [][ApplyNext]_applyVars /\ ApplyFairness

-----------------------------------------------------------------------------
(* What must hold.                                                         *)

\* One type invariant: the journal is always a valid document, a call inside the
\* lock knows what it is doing, and the project stays a tree.
ApplyTypeOK ==
  /\ operation # None => ValidOperation(operation)
  /\ IsTree(tree)
  /\ \A c \in Calls : calls[c].pc \in ExclusiveSteps =>
       plan # None /\ calls[c].completed <= Len(plan.steps)

\* The journal never runs ahead of the disk: the plan it names and the payloads it
\* counts are published, and from prepared on the package is whole, whichever calls
\* died or overlapped while publishing it.
PackageBacked ==
  operation # None /\ operation.plan # None =>
    /\ plan = operation.plan
    /\ \A k \in 1..operation.sealed : Payloads(plan)[k] \in sealed
    /\ operation.status \in Running \cup {"prepared"} => PackageWhole(operation)

\* Nobody but the writer touches the project: what is there is the reviewed project
\* with a prefix of the plan applied, never a later step before an earlier one, and
\* never less than the journal records.
Applied(n) == After(review.operator, plan.steps, n)
MidStep ==
  {[Applied(calls[c].completed) EXCEPT ![PathOf(c)] = Directory(PrivateMode)]
     : c \in {d \in Calls : At(d, "chmod")}}
Interrupted ==
  {[Applied(k - 1) EXCEPT ![plan.steps[k].path] = Directory(PrivateMode)]
     : k \in {l \in DOMAIN plan.steps :
                "bare_directory" \in lapses /\ plan.steps[l].kind = "create_directory"}}

PlanPrefix ==
  edits = 0 =>
    IF operation = None \/ operation.execution = None THEN tree = review.operator
    ELSE \/ \E n \in Durable(operation)..Len(plan.steps) :
              /\ tree = Applied(n)
              /\ "late_call" \notin lapses => n <= Durable(operation) + 1
              /\ operation.status = "applied" => n = Len(plan.steps)
         \/ tree \in MidStep \cup Interrupted

\* What a step may find at its path where nobody edited since the writer looked: what
\* the plan starts from, the directory the step made, or the content whose mode it sets.
AsPlanned(step, node) ==
  CASE step.kind = "create_directory" -> node \in {step.before, Directory(PrivateMode)}
    [] step.kind = "set_mode" -> node.kind = step.before.kind /\ node.data = step.before.data
    [] OTHER -> node = step.before

\* An object is replaced or goes, rather than change its mode.
Loses(old, new) ==
  old # Absent /\ (new.kind # old.kind \/ (~IsDirectory(old) /\ new.data # old.data))

\* A writer changes only the path of the step it is at, and takes an object away only
\* by a step that is to replace or remove one, no directory but an empty one, and none
\* the writer did not find as planned, unless the operator edited that path in between
\* (the project's documented window).  And it removes no object at a temp's name but
\* its own, up to the rename that frees the name.
StepWarrants(c) ==
  LET p == PathOf(c)
      step == StepOf(c)
  IN  /\ \A q \in Paths \ {p} : tree'[q] = tree[q]
      /\ p \in edited \/ AsPlanned(step, tree[p])
      /\ Loses(tree[p], tree'[p]) =>
           /\ step.before # Absent /\ step.kind # "set_mode"
           /\ IsDirectory(tree[p]) => tree'[p] = Absent /\ EmptyAt(p)

\* What a step may do to the project, and to the objects at the names of temps.
TreeSafe ==
  tree' # tree /\ edits' = edits =>
    \E c \in Calls : calls[c].pc \in ExclusiveSteps /\ StepWarrants(c)
TempsSafe ==
  \A n \in DOMAIN temps :
    temps[n].owner = "operator" =>
      \/ n \in DOMAIN temps' /\ temps'[n] = temps[n]
      \/ \E c \in Calls : Published(c) /\ calls[c].temp = n

\* Every step keeps to both.
OperatorKept == [][TreeSafe /\ TempsSafe]_applyVars

\* The recorded progress never goes back.
ProgressMonotone ==
  [][operation # None /\ operation' # operation /\ "late_call" \notin lapses
       => Durable(operation') >= Durable(operation)]_applyVars

\* An applied operation leaves no temp of the writer's in the project.
NoLitter ==
  operation # None /\ operation.status = "applied" /\ lapses = {} /\ edits = 0
    => \A n \in DOMAIN temps : temps[n].owner # "writer"

InState(status) == operation # None /\ operation.status = status

\* A project after n steps: a path that is where the plan takes it is left alone.
Met(start, n) ==
  LET after == After(start, plan.steps, n) IN
  [p \in Paths |-> IF p \in PlannedPaths(plan) /\ start[p] = FinalState(plan, p)
                   THEN start[p] ELSE after[p]]

\* A project a preflight accepts takes every step of the plan: no divergence is left
\* to be found once the first step has changed the project.
Replays(start) ==
  \A k \in DOMAIN plan.steps :
    LET met == Met(start, k - 1)
        p == plan.steps[k].path
    IN  \/ StepDone(met, plan, k)
        \/ /\ StepReady(met, plan, k)
           /\ plan.steps[k].kind = "remove_directory" => Below(p) \cap Present(met) = {}

\* The walk takes a path below a missing directory for absent, and a removal for done;
\* the writer then fails to open that directory.
RemovalsReachable ==
  \A k \in DOMAIN plan.steps : Phase(plan.steps[k]) = 10 => Reachable(tree, plan.steps[k].path)

WalkSound ==
  InState("prepared") /\ WalkPasses(tree, plan, 0, TRUE) /\ RemovalsReachable
    => Replays(tree)

\* Journal, package and project agree after any deaths, overlaps and failures: the
\* journal is backed by the disk, the project is a prefix of the plan, a preflight
\* that passed holds to the end, and a finished operation has left no temp.
OperationTrue ==
  /\ ApplyTypeOK
  /\ PackageBacked
  /\ PlanPrefix
  /\ WalkSound
  /\ NoLitter

\* No step of a writer touches what is not its own or takes back what it recorded.
ProjectKept == OperatorKept /\ ProgressMonotone

\* A prepared operation nobody interferes with is applied, whatever calls die.  (The
\* planner does not look at the ancestors of what it publishes, and a path left as it
\* is below a directory that becomes a file is unreachable at the end: such reviews
\* are prepared and never applied.)
Sound ==
  /\ \A p \in Transformed(review) : \A a \in Above(p) \ Changes(review) :
       IsDirectory(review.operator[a])
  /\ \A p \in Changes(review) \ Transformed(review) : \A a \in Above(p) :
       review.result[a].kind \in {"absent", "directory"}
Undisturbed == edits = 0 /\ lapses = {} /\ Sound
CompletesUndisturbed ==
  InState("prepared") ~> (InState("applied") \/ ~Undisturbed)

\* "Before any mutation a divergence is a clean conflict ... and a byte-identical
\* project."
ConflictIsClean ==
  [][operation' # operation /\ operation'.status = "conflict" /\ edits = 0
       => tree = review.operator]_applyVars

\* "At `prepared` the whole plan is verified against the untouched project before the
\* first mutation."
PreflightSound ==
  InState("prepared") /\ WalkPasses(tree, plan, 0, TRUE) => Replays(tree)

-----------------------------------------------------------------------------
(* The invariant the theorems rest on.  First, who holds the lock, and what  *)
(* each call knows of the journal, the plan and the path it is at.           *)

Pcs == {"idle", "lock_shared", "load", "lock_exclusive", "done"}
         \cup SharedSteps \cup ExclusiveSteps
Call == [pc : Pcs, op : Operations \cup {None}, current : BOOLEAN, completed : Nat,
         intent : Intents \cup {None}, temp : Nat]

\* Where a call works on its copy of the journal, where it has walked the plan, where
\* it is inside a step, and where the temp it names is its own.
Loaded ==
  {"probe", "plan", "publish_plan", "commit_plan", "seal", "commit_payload", "complete",
   "lock_exclusive"} \cup ExclusiveSteps
Started == ExclusiveSteps \ {"walk"}
InStep == Started \ {"step", "final", "finish"}
Holding == {"clean", "identity", "write", "rename", "replace"}
Publishing ==
  {"temp", "clean", "fresh", "create_temp", "identity", "write", "rename", "replace"}
\* Where it is to change what it last looked at.
Altering == {"mutate", "chmod", "set_mode", "replace"}

ProjectTyped ==
  /\ tree = [p \in Paths |-> tree[p]]
  /\ temps = [n \in DOMAIN temps |-> temps[n]] /\ IsFiniteSet(DOMAIN temps)

\* The plan is the review's, and the journal is valid and names this plan.
JournalTrue ==
  /\ review \in Reviews
  /\ plan \in {None, PlanOf(review)} /\ (plan # None => Plannable(review))
  /\ operation # None =>
       operation \in Operations /\ ValidOperation(operation) /\ operation.plan \in {None, plan}

\* One call changes the project at a time, and nobody prepares meanwhile.
LockExcludes ==
  \A c, d \in Calls :
    c # d /\ calls[c].pc \in ExclusiveSteps => calls[d].pc \notin SharedSteps \cup ExclusiveSteps

\* A call's copy is a journal there was, and the current one as long as nobody commits.
CopyTrue(c) ==
  /\ calls[c].current => operation = calls[c].op
  /\ calls[c].op # None =>
       ValidOperation(calls[c].op) /\ calls[c].op.plan \in {None, plan}
  /\ calls[c].pc \in Loaded => calls[c].op # None

\* A writer works on the published plan, from the progress its copy records.
WriterReady(c) ==
  /\ calls[c].pc \in {"lock_exclusive"} \cup ExclusiveSteps =>
       plan # None /\ calls[c].op.plan = plan
  /\ calls[c].pc \in Started => calls[c].completed <= Len(plan.steps)
  /\ calls[c].pc \in InStep => calls[c].completed < Len(plan.steps)
  /\ calls[c].pc \in Started /\ "late_call" \notin lapses =>
       calls[c].completed = Durable(calls[c].op)

TempOurs(c) ==
  calls[c].pc \in Holding =>
    calls[c].temp \in DOMAIN temps /\ temps[calls[c].temp].owner = "writer"

\* The kind of step a call is in, by where it is.
KindAt(c, pc) ==
  /\ pc = "chmod" => StepOf(c).kind = "create_directory"
  /\ pc = "set_mode" => StepOf(c).kind = "set_mode"
  /\ pc \in Publishing => StepOf(c).kind \in Publications
  /\ pc = "replace" => StepOf(c).before # Absent
\* What it found at its path when it looked.
FoundAt(c, pc, node) ==
  /\ pc \in {"mutate", "replace"} => node = StepOf(c).before
  /\ pc = "chmod" => node = Directory(PrivateMode)
  /\ pc = "set_mode" => node.kind = StepOf(c).before.kind /\ node.data = StepOf(c).before.data

\* What a call is to change is as it found it, unless the operator edited it since.
PathViewed(c) ==
  /\ KindAt(c, calls[c].pc)
  /\ calls[c].pc \in Altering =>
       PathOf(c) \in edited \/ FoundAt(c, calls[c].pc, tree[PathOf(c)])

PlanAdmitted(c) == calls[c].pc = "publish_plan" => Plannable(review)

CallTrue(c) ==
  CopyTrue(c) /\ WriterReady(c) /\ TempOurs(c) /\ PathViewed(c) /\ PlanAdmitted(c)

ApplyInv ==
  /\ calls \in [Calls -> Call]
  /\ ProjectTyped
  /\ JournalTrue
  /\ LockExcludes
  /\ \A c \in Calls : CallTrue(c)

-----------------------------------------------------------------------------
(* Second, what the journal and its copies say of the package is there.      *)

DocHolds(op, document, payloads) ==
  op # None =>
    /\ op.plan = None => op.sealed = 0
    /\ op.plan # None => \A k \in 1..op.sealed : Payloads(document)[k] \in payloads
    /\ op.status \in Running \cup {"prepared"} =>
         /\ document # None /\ document = op.plan /\ ValidPlan(document)
         /\ \A k \in DOMAIN Payloads(document) : Payloads(document)[k] \in payloads
DocBacked(op) == DocHolds(op, plan, sealed)

Packing(c) ==
  /\ calls[c].pc \in {"commit_plan", "seal", "commit_payload", "complete"} => plan # None
  /\ calls[c].pc \in {"seal", "commit_payload", "complete"} => Op(c).plan # None
  /\ calls[c].pc = "commit_payload" => NextPayload(c) \in sealed
  /\ calls[c].pc \in {"lock_exclusive"} \cup ExclusiveSteps => PackageWhole(Op(c))

PackageInv == DocBacked(operation) /\ \A c \in Calls : DocBacked(Op(c)) /\ Packing(c)

-----------------------------------------------------------------------------
(* Where the project stands.                                               *)

DurableIn(op) == IF op = None THEN 0 ELSE Durable(op)

Positioned(c) ==
  /\ calls[c].pc \notin Started \cup {"done"} => calls[c].completed = 0
  /\ calls[c].pc \in Publishing => StepOf(c).kind \in Publications

Recorded(n) ==
  /\ DurableIn(operation) <= n
  /\ "late_call" \notin lapses => n <= DurableIn(operation) + 1
  /\ operation # None /\ operation.status = "applied" => n = Len(plan.steps)
Standing(c, n) ==
  /\ DurableIn(Op(c)) <= n
  /\ calls[c].pc \in Started => calls[c].completed <= n
  /\ calls[c].pc \in Publishing \cup Altering => calls[c].completed = n
  /\ calls[c].pc \in {"verify", "progress"} => calls[c].completed < n
  /\ calls[c].pc \in {"final", "finish"} => calls[c].completed = Len(plan.steps)
Reached(n) == Recorded(n) /\ \A c \in Calls : Standing(c, n)

Bare(n) == [Applied(n) EXCEPT ![plan.steps[n + 1].path] = Directory(PrivateMode)]
Frozen(n) ==
  /\ "bare_directory" \in lapses
  /\ plan.steps[n + 1].kind = "create_directory"
  /\ plan.steps[n + 1].after # Directory(PrivateMode)
  /\ tree = Bare(n)
  /\ \A c \in Calls : calls[c].pc \notin Started

Executing == operation # None /\ operation.execution # None

PlaceInv ==
  /\ ~Executing => tree = review.operator
  /\ \A c \in Calls : Op(c) # None /\ Op(c).execution # None => Executing
  /\ \A c \in Calls : calls[c].pc \in Started => Executing
  /\ "late_call" \notin lapses =>
       \A c \in Calls : Op(c) # None => operation # None /\ Durable(Op(c)) <= Durable(operation)
  /\ plan # None =>
       \/ \E n \in 0..Len(plan.steps) :
            /\ Reached(n)
            /\ tree = IF \E c \in Calls : At(c, "chmod") THEN Bare(n) ELSE Applied(n)
       \/ \E n \in 0..Len(plan.steps) - 1 : Frozen(n)

-----------------------------------------------------------------------------
(* The writer's temps.                                                     *)

Unwritten == {"preparing", "prepared", "failed"}
WriterTemps == {t \in DOMAIN temps : temps[t].owner = "writer"}
ActivePublishes(op) ==
  op # None /\ ActiveOf(op) # None =>
    /\ ActiveOf(op).step \in DOMAIN plan.steps
    /\ plan.steps[ActiveOf(op).step].kind \in Publications

StatusFits(c) ==
  /\ calls[c].pc \in SharedSteps \ {"open"} =>
       /\ operation # None => operation.status \in Unwritten
       /\ Op(c) # None => Op(c).status \in Unwritten
  /\ calls[c].pc \in {"lock_exclusive", "walk"} =>
       Op(c).status \in {"prepared", "applying", "recovery_required"}
  /\ calls[c].pc \in Started => Op(c).status \in {"applying", "recovery_required"}

Frontiers(c) ==
  /\ calls[c].pc \in {"step", "temp"} => Prior(c) = ActiveOf(Op(c))
  /\ calls[c].pc \in Started /\ calls[c].intent # None => calls[c].intent.step <= StepIndex(c)
  /\ calls[c].pc \in {"clean", "write", "rename", "replace"} =>
       ActiveOf(Op(c)) = Intent(StepIndex(c), calls[c].temp, TRUE)
  /\ calls[c].pc \in {"create_temp", "identity"} =>
       ActiveOf(Op(c)) = Intent(StepIndex(c), calls[c].temp, FALSE)
  /\ calls[c].pc \in {"fresh", "verify", "progress"} /\ calls[c].current => WriterTemps = {}

NamesTemp(op, t) ==
  ActiveOf(op) # None /\ ActiveOf(op) = Intent(Durable(op) + 1, t, TRUE)
TempsRecorded ==
  operation # None /\ operation.status # "conflict" =>
    \A t \in WriterTemps :
      \/ \E c \in Calls : At(c, "identity") /\ calls[c].temp = t
      \/ /\ NamesTemp(operation, t)
         /\ tree = Applied(Durable(operation))

LitterInv ==
  /\ ActivePublishes(operation)
  /\ \A c \in Calls : ActivePublishes(Op(c)) /\ StatusFits(c) /\ Frontiers(c)
  /\ ~Executing => WriterTemps = {}
  /\ TempsRecorded

BaseInv ==
  /\ edits \in Nat
  /\ IsTree(tree)
  /\ PackageInv
  /\ \A c \in Calls : Positioned(c)

\* Before the operator's first edit a writer has nothing to miss.
NothingMissed == edits = 0 => edited = {} /\ removed = {}

OpInv ==
  /\ BaseInv
  /\ edits = 0 => PlaceInv
  /\ edits = 0 /\ lapses = {} => LitterInv
=============================================================================
