--------------------------- MODULE ApplyOperation ---------------------------
(***************************************************************************)
(* One apply operation: its journal, which calls commit to by compare and    *)
(* swap, its immutable plan and payloads, the project tree with the          *)
(* writer's temps, the cooperative lock on the project root, and the calls   *)
(* of the processes that prepare and apply it.                              *)
(***************************************************************************)
EXTENDS ApplyPlan

CONSTANTS
  Calls,          \* the processes
  Retrier,        \* the one that repeats its call without end
  Reviews,        \* the reviewed changes: baseline, operator and result trees
  MaxCalls,       \* bound: calls of the other processes
  MaxFaults,      \* bound: failures and deaths
  MaxEdits        \* bound: edits by the operator outside the lock

ASSUME RetrierCalls == Retrier \in Calls

IsProject(tree) ==
  /\ tree = [p \in Paths |-> tree[p]] /\ \A p \in Paths : IsNode(tree[p])
  /\ IsTree(tree)
ASSUME ReviewsAssumption ==
  \A r \in Reviews : IsProject(r.baseline) /\ IsProject(r.operator) /\ IsProject(r.result)

Nobody == [pc |-> "idle", op |-> None, current |-> FALSE, completed |-> 0,
           intent |-> None, temp |-> 0]

VARIABLES
  review,         \* what the operator reviewed; its digest is the observation
  tree,           \* the registered project
  temps,          \* the temps in the project, by name
  operation,      \* the journal, or None
  plan,           \* the published plan document, or None
  sealed,         \* the payloads published, as their paths
  calls,
  edited,         \* the paths the operator changed since the writer last looked
  removed,        \* the directories gone since the writer opened its step's parent
  begun, faults, edits,
  lapses          \* what deaths and late calls left that no retry repairs

applyVars == <<review, tree, temps, operation, plan, sealed, calls, edited, removed,
               begun, faults, edits, lapses>>

-----------------------------------------------------------------------------
(* The journal: validateApplyOperationState and validateExecution.           *)

Statuses == {"preparing", "prepared", "applying", "applied", "conflict",
             "recovery_required", "failed"}
Intents == [step : Nat, temp : Nat, owned : BOOLEAN]
Executions == [completed : Nat, active : Intents \cup {None}]
Plans == {PlanOf(r) : r \in Reviews}
Operations == [status : Statuses, failed : BOOLEAN, plan : Plans \cup {None}, sealed : Nat,
               execution : Executions \cup {None}]
ASSUME NoneAssumption == None \notin Intents \cup Executions \cup Plans \cup Operations

ExecutionTerminal == {"applied", "conflict", "failed"}
Running == {"applying", "applied", "conflict", "recovery_required"}

\* An execution: the durable progress and the temp of the frontier step.
Execution(completed, active) == [completed |-> completed, active |-> active]
Intent(step, temp, owned) == [step |-> step, temp |-> temp, owned |-> owned]

ValidExecution(op) ==
  IF op.execution = None THEN op.status \notin {"applying", "applied"}
  ELSE LET completed == op.execution.completed
           active == op.execution.active
       IN  /\ op.status \in Running
           /\ active # None => /\ op.status \in {"applying", "recovery_required"}
                               /\ active.step = completed + 1
           /\ op.status = "conflict" => completed = 0
           /\ completed <= Len(op.plan.steps)
           /\ op.status = "applied" => completed = Len(op.plan.steps)

\* A failure reason goes with a failed, conflicting or unrecovered operation only.
ValidOperation(op) ==
  /\ op.failed = (op.status \in {"failed", "conflict", "recovery_required"})
  /\ op.status \in Running \cup {"prepared"} => op.plan # None
  /\ op.status = "prepared" => op.sealed = Len(Payloads(op.plan))
  /\ ValidExecution(op)

Preparing ==
  [status |-> "preparing", failed |-> FALSE, plan |-> None, sealed |-> 0,
   execution |-> None]

-----------------------------------------------------------------------------
(* The calls.                                                              *)

At(c, pc) == calls[c].pc = pc
Op(c) == calls[c].op
Goto(c, pc) == calls' = [calls EXCEPT ![c].pc = pc]
Leave(c) == calls' = [calls EXCEPT ![c] = Nobody]

\* Where a call holds the lock on the project root, and in which mode.
SharedSteps ==
  {"open", "observe", "create", "probe", "plan", "publish_plan", "commit_plan",
   "seal", "commit_payload", "complete"}
ExclusiveSteps ==
  {"walk", "step", "mutate", "chmod", "set_mode", "temp", "clean", "fresh",
   "create_temp", "identity", "write", "rename", "replace", "verify", "progress",
   "final", "finish"}
HeldIn(steps) == \E c \in Calls : calls[c].pc \in steps

\* acquireProjectFlock does not wait: a busy project ends the call.
AcquireShared(c, pc) == IF HeldIn(ExclusiveSteps) THEN Leave(c) ELSE Goto(c, pc)
AcquireExclusive(c, pc) ==
  IF HeldIn(SharedSteps \cup ExclusiveSteps) THEN Leave(c) ELSE Goto(c, pc)

\* RunSnapshotStore.commit: the new document replaces the one the call last saw,
\* and every other call's copy is out of date.
Store(c, next, pc) ==
  /\ operation' = next
  /\ calls' = [d \in Calls |->
                 IF d = c THEN [calls[c] EXCEPT !.op = next, !.current = TRUE, !.pc = pc]
                 ELSE [calls[d] EXCEPT !.current = FALSE]]

\* commitOperationState: a commit over a document another call replaced fails; if
\* the stored one is an advance it is adopted, otherwise the call ends.
Commit(c, next, advance, pc) ==
  IF ~ValidOperation(next) THEN Leave(c) /\ UNCHANGED operation
  ELSE IF calls[c].current THEN Store(c, next, pc)
  ELSE /\ UNCHANGED operation
       /\ IF operation # None /\ advance
          THEN calls' = [calls EXCEPT ![c].op = operation, ![c].current = TRUE,
                                      ![c].pc = pc]
          ELSE Leave(c)

\* A call ends, and tells why in the journal if nobody committed since.
Record(c, last) ==
  IF calls[c].current /\ ValidOperation(last)
  THEN /\ operation' = last
       /\ calls' = [d \in Calls |-> IF d = c THEN Nobody
                                    ELSE [calls[d] EXCEPT !.current = FALSE]]
  ELSE Leave(c) /\ UNCHANGED operation

UnchangedView == UNCHANGED <<edited, removed>>
UnchangedProject == UNCHANGED <<review, tree, temps, begun, edits, edited, removed>>
UnchangedPackage == UNCHANGED <<plan, sealed>>

\* verifyPreparedPackageContents: the plan and every payload it binds are there.
PackageWhole(op) ==
  /\ plan # None /\ plan = op.plan /\ ValidPlan(plan)
  /\ \A k \in DOMAIN Payloads(plan) : Payloads(plan)[k] \in sealed

-----------------------------------------------------------------------------
InitApply ==
  /\ review \in Reviews
  /\ tree = review.operator
  /\ temps = << >>
  /\ operation = None /\ plan = None /\ sealed = {}
  /\ calls = [c \in Calls |-> Nobody]
  /\ edited = {} /\ removed = {}
  /\ begun = 0 /\ faults = 0 /\ edits = 0
  /\ lapses = {}

\* applyPipelineV2ProjectOperation: prepare, then write.
Begin(c) ==
  /\ At(c, "idle")
  /\ IF c = Retrier THEN UNCHANGED begun ELSE begun < MaxCalls /\ begun' = begun + 1
  /\ Goto(c, "lock_shared")
  /\ UNCHANGED <<review, tree, temps, operation, edits, faults, lapses>>
  /\ UnchangedView /\ UnchangedPackage
=============================================================================
