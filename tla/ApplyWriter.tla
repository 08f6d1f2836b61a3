----------------------------- MODULE ApplyWriter -----------------------------
(***************************************************************************)
(* applyPreparedProject: the operation is loaded, the project locked, the    *)
(* whole plan walked against the project, and the steps run one by one from  *)
(* the recorded progress, each confirmed in the journal before the next.  A  *)
(* publication writes a temp it owns through the journal and renames it.    *)
(***************************************************************************)
EXTENDS ApplyOperation

CONSTANTS
  PrivateMode,    \* the mode a directory is made with
  TempMode,       \* the mode a temp is made with
  ReadOnlyModes   \* the modes that refuse to be opened for writing

StepIndex(c) == calls[c].completed + 1
StepOf(c) == plan.steps[StepIndex(c)]
PathOf(c) == StepOf(c).path
Durable(op) == IF op.execution = None THEN 0 ELSE op.execution.completed
ActiveOf(op) == IF op.execution = None THEN None ELSE op.execution.active

With(c, state, execution) ==
  [Op(c) EXCEPT !.status = state, !.execution = execution,
                !.failed = state \in {"conflict", "recovery_required"}]

\* A stored operation that is past the call's copy and in this state.
Advanced(state, op) == op # None /\ op.status = state

-----------------------------------------------------------------------------
(* Refusals: a foreign temp and a divergence after durable progress need     *)
(* recovery, a divergence without is a conflict.  The commit may fail.      *)

Refusal(c, active) ==
  IF calls[c].completed = 0 THEN With(c, "conflict", Execution(0, None))
  ELSE With(c, "recovery_required", Execution(calls[c].completed, active))

Refuse(c) == Record(c, Refusal(c, ActiveOf(Op(c))))
RefuseForeignTemp(c) ==
  Record(c, With(c, "recovery_required",
                 Execution(calls[c].completed, ActiveOf(Op(c)))))

-----------------------------------------------------------------------------
(* The operation is loaded, then the project locked.                        *)

LoadForExecution(c) ==
  /\ At(c, "load")
  /\ IF \/ operation = None \/ operation.status \in ExecutionTerminal
        \/ operation.status = "preparing" \/ ~PackageWhole(operation)
     THEN Leave(c)
     ELSE calls' = [calls EXCEPT ![c].op = operation, ![c].current = TRUE,
                                 ![c].pc = "lock_exclusive"]
  /\ UNCHANGED <<operation, faults, lapses>> /\ UnchangedProject /\ UnchangedPackage

LockExclusive(c) ==
  /\ At(c, "lock_exclusive")
  /\ AcquireExclusive(c, "walk")
  /\ UNCHANGED <<operation, faults, lapses>> /\ UnchangedProject /\ UnchangedPackage

\* The walk of a prepared plan expects no step done, that of an interrupted one the
\* steps its copy of the journal records.
Walk(c) ==
  LET op == Op(c)
      started == [calls EXCEPT ![c].completed = Durable(op),
                               ![c].intent = ActiveOf(op), ![c].pc = "step"]
  IN  /\ At(c, "walk")
      /\ IF ~WalkPasses(tree, plan, Durable(op), TRUE)
         THEN LET refused == [op EXCEPT !.failed = TRUE,
                    !.status = IF Durable(op) = 0 THEN "conflict" ELSE "recovery_required",
                    !.execution = Execution(Durable(op),
                                    IF Durable(op) = 0 THEN None ELSE ActiveOf(op))]
              IN  Record(c, refused) /\ UNCHANGED lapses
         ELSE IF op.status = "applying"
         THEN calls' = started /\ UNCHANGED <<operation, lapses>>
         ELSE LET next == With(c, "applying", Execution(Durable(op), ActiveOf(op))) IN
              IF calls[c].current
              THEN /\ operation' = next
                   /\ calls' = [d \in Calls |->
                        IF d = c THEN [started[c] EXCEPT !.op = next]
                        ELSE [calls[d] EXCEPT !.current = FALSE]]
                   /\ UNCHANGED lapses
              ELSE /\ UNCHANGED operation
                   /\ IF Advanced("applying", operation)
                      THEN /\ calls' = [calls EXCEPT ![c] = [started[c] EXCEPT
                                !.op = operation, !.current = TRUE,
                                !.intent = ActiveOf(operation)]]
                           /\ lapses' = lapses \cup {"late_call"}
                      ELSE Leave(c) /\ UNCHANGED lapses
      /\ UNCHANGED faults /\ UnchangedProject /\ UnchangedPackage

-----------------------------------------------------------------------------
(* One step.  The operator needs no lock: it may edit between any two of     *)
(* these, after the writer looked and before it changes what it saw.        *)

SetPath(c, node) == tree' = [tree EXCEPT ![PathOf(c)] = node]

\* isDirectoryEmpty
EmptyAt(p) == Below(p) \cap Present(tree) = {}

\* The parent the call has open is a directory that is no longer there; whoever looks
\* through it finds nothing, and creates nothing.
Gone(c) == ~Reachable(tree, PathOf(c)) \/ Above(PathOf(c)) \cap removed # {}
Seen(c) == IF Gone(c) THEN Absent ELSE tree[PathOf(c)]

Publications == {"publish_regular_file", "publish_symlink"}

\* The parent is opened, the path observed and the step classified.
ExecuteStep(c) ==
  /\ At(c, "step")
  /\ IF calls[c].completed = Len(plan.steps) THEN Goto(c, "final") /\ UNCHANGED operation
     ELSE IF StepDone(tree, plan, StepIndex(c))
     THEN Goto(c, "progress") /\ UNCHANGED operation
     ELSE IF StepReady(tree, plan, StepIndex(c))
     THEN /\ Goto(c, IF StepOf(c).kind \in Publications THEN "temp" ELSE "mutate")
          /\ UNCHANGED operation
     ELSE Refuse(c)
  /\ edited' = {} /\ removed' = {}
  /\ UNCHANGED <<review, tree, temps, begun, faults, edits, lapses>> /\ UnchangedPackage

Mutating(c, kind) == At(c, "mutate") /\ StepOf(c).kind = kind
UnchangedElse ==
  UNCHANGED <<review, temps, begun, faults, edits, lapses>> /\ UnchangedView /\ UnchangedPackage

\* unlinkat takes what is there but a directory; nothing there is as good.
RemoveLeaf(c) ==
  /\ Mutating(c, "remove_leaf")
  /\ IF IsDirectory(Seen(c)) THEN Leave(c) /\ UNCHANGED tree
     ELSE /\ Goto(c, "verify")
          /\ IF Gone(c) THEN UNCHANGED tree ELSE SetPath(c, Absent)
  /\ UNCHANGED operation /\ UnchangedElse

RemoveDirectory(c) ==
  /\ Mutating(c, "remove_directory")
  /\ IF Seen(c) = Absent THEN Goto(c, "verify") /\ UNCHANGED <<tree, operation>>
     ELSE IF ~IsDirectory(Seen(c)) THEN Leave(c) /\ UNCHANGED <<tree, operation>>
     ELSE IF ~EmptyAt(PathOf(c)) THEN Refuse(c) /\ UNCHANGED tree
     ELSE SetPath(c, Absent) /\ Goto(c, "verify") /\ UNCHANGED operation
  /\ UnchangedElse

\* A directory is made private and then given its mode; one that appeared meanwhile
\* is adopted if it is the one planned.
CreateDirectory(c) ==
  /\ Mutating(c, "create_directory")
  /\ IF Gone(c) THEN Leave(c) /\ UNCHANGED <<tree, operation>>
     ELSE IF Seen(c) = Absent
     THEN SetPath(c, Directory(PrivateMode)) /\ Goto(c, "chmod") /\ UNCHANGED operation
     ELSE IF Seen(c) = StepOf(c).after THEN Goto(c, "verify") /\ UNCHANGED <<tree, operation>>
     ELSE Refuse(c) /\ UNCHANGED tree
  /\ UnchangedElse

ChmodDirectory(c) ==
  /\ At(c, "chmod")
  /\ IF IsDirectory(Seen(c)) THEN SetPath(c, StepOf(c).after) /\ Goto(c, "verify")
     ELSE Leave(c) /\ UNCHANGED tree
  /\ UNCHANGED operation /\ UnchangedElse

\* The object is opened, and its kind and content checked once more: not its mode.
OpenForMode(c) ==
  LET after == StepOf(c).after IN
  /\ Mutating(c, "set_mode")
  /\ IF \/ Seen(c).kind \in {"absent", "symlink"}
        \/ IsDirectory(after) /\ ~IsDirectory(Seen(c))
     THEN Leave(c) /\ UNCHANGED <<operation, edited>>
     ELSE IF Seen(c).kind # after.kind \/ Seen(c).data # after.data
     THEN Refuse(c) /\ UNCHANGED edited
     ELSE Goto(c, "set_mode") /\ edited' = {} /\ UNCHANGED operation
  /\ UNCHANGED <<review, tree, temps, removed, begun, faults, edits, lapses>>
  /\ UnchangedPackage

\* fchmod reaches the object that was opened: one the operator put in its place keeps
\* its mode, one it edited in place does not.
SetMode(c) ==
  LET p == PathOf(c)
      after == StepOf(c).after
  IN  /\ At(c, "set_mode")
      /\ Goto(c, "verify")
      /\ \/ p \in edited /\ UNCHANGED tree
         \/ /\ tree[p].kind = after.kind
            /\ SetPath(c, [kind |-> after.kind, mode |-> after.mode, data |-> tree[p].data])
      /\ UNCHANGED operation /\ UnchangedElse

-----------------------------------------------------------------------------
(* A publication's temp.                                                   *)

IsFile(c) == StepOf(c).kind = "publish_regular_file"
OwnTemp(whole, mode) == [owner |-> "writer", whole |-> whole, mode |-> mode]
ForeignTemp == [owner |-> "operator", whole |-> FALSE, mode |-> TempMode]
HasTemp(name) == name \in DOMAIN temps
WithoutTemp(name) == [n \in DOMAIN temps \ {name} |-> temps[n]]
FreshName(c) ==
  CHOOSE n \in 1..(Cardinality(DOMAIN temps) + 2) :
    ~HasTemp(n) /\ (calls[c].intent # None => n # calls[c].intent.temp)

Prior(c) ==
  IF calls[c].intent # None /\ calls[c].intent.step = StepIndex(c)
  THEN calls[c].intent ELSE None

\* Mutant: every object at the committed name is foreign.
NeverOwned(prior) == HasTemp(prior.temp)

\* inspectOwnedTemp: the durable identity, and not the name, proves ownership.
ForeignAt(prior) ==
  HasTemp(prior.temp) /\ (~prior.owned \/ temps[prior.temp].owner # "writer")

\* What an earlier attempt's temp is good for.
PrepareTemp(c) ==
  /\ At(c, "temp")
  /\ LET prior == Prior(c)
         Use(pc) == calls' = [calls EXCEPT ![c].temp = prior.temp, ![c].pc = pc]
     IN  IF prior = None THEN Goto(c, "fresh") /\ UNCHANGED operation
         ELSE IF ForeignAt(prior) THEN RefuseForeignTemp(c)
         ELSE /\ UNCHANGED operation
              /\ CASE ~HasTemp(prior.temp) ->
                        IF prior.owned THEN Goto(c, "fresh") ELSE Use("create_temp")
                   [] HasTemp(prior.temp) /\ ~temps[prior.temp].whole -> Use("clean")
                   [] OTHER ->
                        \* A complete temp is opened again for writing.
                        IF IsFile(c) /\ temps[prior.temp].mode \in ReadOnlyModes
                        THEN Leave(c) ELSE Use("rename")
  /\ UNCHANGED <<faults, lapses>> /\ UnchangedProject /\ UnchangedPackage

CleanTemp(c) ==
  /\ At(c, "clean")
  /\ temps' = WithoutTemp(calls[c].temp)
  /\ Goto(c, "fresh")
  /\ UNCHANGED <<review, tree, operation, begun, faults, edits, lapses>>
  /\ UnchangedView /\ UnchangedPackage

Frontier(c, owned, name) ==
  [Op(c) EXCEPT !.execution = Execution(calls[c].completed, Intent(StepIndex(c), name, owned))]
AdvancedTo(c, owned, name, op) ==
  op # None /\ op.execution # None /\ op.execution.active = Intent(StepIndex(c), name, owned)

\* commitTempIntent: the name is durable before the object is there.
CommitIntent(c) ==
  /\ At(c, "fresh")
  /\ LET name == FreshName(c)
         named == [calls EXCEPT ![c].temp = name]
         next == Frontier(c, FALSE, name)
     IN  IF calls[c].current /\ ValidOperation(next)
         THEN /\ operation' = next
              /\ calls' = [d \in Calls |->
                   IF d = c THEN [named[c] EXCEPT !.op = next, !.pc = "create_temp"]
                   ELSE [calls[d] EXCEPT !.current = FALSE]]
         ELSE Leave(c) /\ UNCHANGED operation
  /\ UNCHANGED <<faults, lapses>> /\ UnchangedProject /\ UnchangedPackage

\* The exclusive create, in a parent that is still there; a link is whole at once.
CreateTemp(c) ==
  /\ At(c, "create_temp")
  /\ IF HasTemp(calls[c].temp) THEN RefuseForeignTemp(c) /\ UNCHANGED temps
     ELSE IF Gone(c) THEN Leave(c) /\ UNCHANGED <<operation, temps>>
     ELSE /\ temps' = [n \in DOMAIN temps \cup {calls[c].temp} |->
                         IF n = calls[c].temp THEN OwnTemp(~IsFile(c), TempMode)
                         ELSE temps[n]]
          /\ Goto(c, "identity") /\ UNCHANGED operation
  /\ UNCHANGED <<review, tree, begun, faults, edits, lapses>> /\ UnchangedView /\ UnchangedPackage

\* commitTempIdentity: the object's identity is durable before a byte is written; if
\* it cannot be, a file's temp is cleaned and a link's stays.  Another call's identity
\* is this one's only if the file system gave the inode out again.
CommitIdentity(c) ==
  \E again \in BOOLEAN :
  LET name == calls[c].temp
      adopted == again /\ AdvancedTo(c, TRUE, name, operation)
      fails == \/ ~ValidOperation(Frontier(c, TRUE, name))
               \/ ~calls[c].current /\ ~adopted
  IN  /\ At(c, "identity")
      /\ Commit(c, Frontier(c, TRUE, name), adopted, IF IsFile(c) THEN "write" ELSE "rename")
      /\ temps' = IF fails /\ IsFile(c) THEN WithoutTemp(name) ELSE temps
      /\ lapses' = lapses \cup {l \in {"unowned_temp"} : fails /\ ~IsFile(c)}
      /\ UNCHANGED <<review, tree, begun, edits, faults>> /\ UnchangedView /\ UnchangedPackage

\* The payload is streamed, the mode set, the file synced and read back.
WriteTemp(c) ==
  /\ At(c, "write")
  /\ temps' = [temps EXCEPT ![calls[c].temp] = OwnTemp(TRUE, StepOf(c).after.mode)]
  /\ Goto(c, "rename")
  /\ UNCHANGED <<review, tree, operation, begun, faults, edits, lapses>>
  /\ UnchangedView /\ UnchangedPackage

Cleaned(c) == temps' = WithoutTemp(calls[c].temp)

\* Mutant: a new object is renamed over whatever appeared meanwhile.
PublishOverwriting(c) ==
  /\ At(c, "rename") /\ StepOf(c).before = Absent
  /\ IF Gone(c) THEN Leave(c) /\ UNCHANGED tree
     ELSE SetPath(c, StepOf(c).after) /\ Goto(c, "verify")
  /\ Cleaned(c)
  /\ UNCHANGED <<review, operation, begun, faults, edits, lapses>>
  /\ UnchangedView /\ UnchangedPackage

\* publishTemp of a new object replaces nothing; an identical object somebody else put
\* there is left, with the temp.
PublishNew(c) ==
  LET p == PathOf(c)
      step == StepOf(c)
  IN  /\ At(c, "rename") /\ step.before = Absent
      /\ IF Gone(c) THEN Leave(c) /\ Cleaned(c) /\ UNCHANGED <<tree, operation>>
         ELSE IF tree[p] = Absent
         THEN SetPath(c, step.after) /\ Cleaned(c) /\ Goto(c, "verify") /\ UNCHANGED operation
         ELSE IF tree[p] = step.after
         THEN Goto(c, "verify") /\ UNCHANGED <<tree, temps, operation>>
         ELSE Refuse(c) /\ Cleaned(c) /\ UNCHANGED tree
      /\ UNCHANGED <<review, begun, faults, edits, lapses>> /\ UnchangedView /\ UnchangedPackage

\* publishTemp of a replacement looks at its target once more ...
CheckReplaced(c) ==
  /\ At(c, "rename") /\ StepOf(c).before # Absent
  /\ IF Seen(c) = StepOf(c).before
     THEN Goto(c, "replace") /\ edited' = {} /\ UNCHANGED <<operation, temps>>
     ELSE Refuse(c) /\ Cleaned(c) /\ UNCHANGED edited
  /\ UNCHANGED <<review, tree, removed, begun, faults, edits, lapses>> /\ UnchangedPackage

\* ... and renames the temp over whatever is there by then, if it is no directory.
PublishReplacement(c) ==
  /\ At(c, "replace")
  /\ IF Gone(c) \/ IsDirectory(tree[PathOf(c)]) THEN Leave(c) /\ UNCHANGED tree
     ELSE SetPath(c, StepOf(c).after) /\ Goto(c, "verify")
  /\ Cleaned(c)
  /\ UNCHANGED <<review, operation, begun, faults, edits, lapses>>
  /\ UnchangedView /\ UnchangedPackage

\* A publication that fails cleans its temp by name, after the rename too.
Published(c) == calls[c].pc \in {"verify", "progress"} /\ calls[c].temp # 0

\* Every step looks at what it left; a new directory must be empty still.
Verify(c) ==
  /\ At(c, "verify")
  /\ IF /\ Seen(c) = StepOf(c).after
        /\ StepOf(c).kind = "create_directory" => EmptyAt(PathOf(c))
     THEN Goto(c, "progress") /\ UNCHANGED <<operation, temps>>
     ELSE /\ Refuse(c)
          /\ IF Published(c) THEN Cleaned(c) ELSE UNCHANGED temps
  /\ UNCHANGED <<review, tree, begun, faults, edits, lapses>> /\ UnchangedView /\ UnchangedPackage

-----------------------------------------------------------------------------
(* Progress and the end.                                                   *)

\* A published step forgets the intent its temp had.
IntentAfter(c) ==
  IF StepOf(c).kind \in Publications /\ calls[c].temp # 0
  THEN None ELSE calls[c].intent
Settled(c, op) ==
  [calls[c] EXCEPT !.op = op, !.current = TRUE, !.completed = StepIndex(c), !.pc = "step",
                   !.temp = 0, !.intent = IntentAfter(c)]

\* Progress another call recorded while this one waited for the lock is adopted; the
\* call goes on from its own step and may take the later progress back.
CommitProgress(c) ==
  /\ At(c, "progress")
  /\ LET next == [Op(c) EXCEPT !.execution = Execution(StepIndex(c), None)]
         adopts == /\ ~calls[c].current /\ ValidOperation(next)
                   /\ operation # None /\ Durable(operation) >= StepIndex(c)
     IN  /\ IF calls[c].current /\ ValidOperation(next)
            THEN /\ operation' = next
                 /\ calls' = [d \in Calls |-> IF d = c THEN Settled(c, next)
                                             ELSE [calls[d] EXCEPT !.current = FALSE]]
                 /\ UNCHANGED temps
            ELSE /\ UNCHANGED operation
                 /\ IF adopts
                    THEN calls' = [calls EXCEPT ![c] = Settled(c, operation)] /\ UNCHANGED temps
                    ELSE Leave(c) /\ (IF Published(c) THEN Cleaned(c) ELSE UNCHANGED temps)
         /\ lapses' = lapses \cup {l \in {"late_call"} : adopts}
  /\ UNCHANGED <<review, tree, begun, faults, edits>> /\ UnchangedView /\ UnchangedPackage

FinalWalk(c) ==
  /\ At(c, "final")
  /\ IF WalkPasses(tree, plan, Len(plan.steps), FALSE)
     THEN Goto(c, "finish") /\ UNCHANGED operation
     ELSE Record(c, Refusal(c, None))
  /\ UNCHANGED <<faults, lapses>> /\ UnchangedProject /\ UnchangedPackage

Finish(c) ==
  /\ At(c, "finish")
  /\ Commit(c, With(c, "applied", Execution(Len(plan.steps), None)),
            Advanced("applied", operation), "done")
  /\ UNCHANGED <<faults, lapses>> /\ UnchangedProject /\ UnchangedPackage

Done(c) ==
  /\ At(c, "done")
  /\ Leave(c)
  /\ UNCHANGED <<operation, faults, lapses>> /\ UnchangedProject /\ UnchangedPackage

WriteStep(c) ==
  \/ LoadForExecution(c) \/ LockExclusive(c) \/ Walk(c) \/ ExecuteStep(c)
  \/ RemoveLeaf(c) \/ RemoveDirectory(c) \/ CreateDirectory(c) \/ ChmodDirectory(c)
  \/ OpenForMode(c) \/ SetMode(c) \/ PrepareTemp(c) \/ CleanTemp(c) \/ CommitIntent(c)
  \/ CreateTemp(c) \/ CommitIdentity(c) \/ WriteTemp(c) \/ PublishNew(c)
  \/ CheckReplaced(c) \/ PublishReplacement(c) \/ Verify(c) \/ CommitProgress(c)
  \/ FinalWalk(c) \/ Finish(c) \/ Done(c)
=============================================================================
