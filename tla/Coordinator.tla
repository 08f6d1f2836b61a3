----------------------------- MODULE Coordinator -----------------------------
(***************************************************************************)
(* The coordination of one run: the commands `run`, `resume` and           *)
(* `resume-plan` drive the durable document of RunState through the states *)
(* of a compiled pipeline, create and delete helper sessions, publish the  *)
(* worker logs and the run outputs, and settle every failure               *)
(* (src/orchestrator/src/pipeline_v2_coordinator.ts, pipeline_v2_recovery.ts *)
(* and the initial branches of the planning handoff controller).           *)
(*                                                                         *)
(* One command runs at a time, under the run's mutation lock; it is the    *)
(* record `cmd`, whose pc names the next synchronous stretch between two   *)
(* awaits.  Every dispatch of a reducer command is RunState's action of    *)
(* that name and ends in one of the sink's three outcomes.  The process    *)
(* may die, and a signal may arrive, between any two steps.                *)
(*                                                                         *)
(* Left out: the phases before create_run (nothing durable exists), data   *)
(* modified behind the run's back, SIGINT told apart from SIGTERM, and the *)
(* controllers that answer an open wait.  A power loss that takes back a   *)
(* rename is RunDocument's.                                                *)
(***************************************************************************)
EXTENDS RunState

CONSTANTS
  Role,   \* of an executable state: "planning", "control" or "stage"
  Kind,   \* "agent", "decision", or the result of a terminal state
  Edge    \* of an executable state: from its outcomes to the next state

TerminalStates == {s \in StateIds : Kind[s] \in {"success", "failed"}}
ExecutableStates == StateIds \ TerminalStates

\* Compiled pipelines: a planning state is an agent, a control state decides;
\* an agent has the one outcome "completed".
ASSUME CompiledAssumption ==
  /\ Kind \in [StateIds -> {"agent", "decision", "success", "failed"}]
  /\ Role \in [ExecutableStates -> Roles]
  /\ DOMAIN Edge = ExecutableStates
  /\ EntryState \in ExecutableStates
  /\ \A s \in ExecutableStates :
       /\ Role[s] = "planning" => Kind[s] = "agent"
       /\ Role[s] = "control" => Kind[s] = "decision"
       /\ Kind[s] = "agent" => DOMAIN Edge[s] = {"completed"}
       /\ DOMAIN Edge[s] \subseteq Outcomes
       /\ \A o \in DOMAIN Edge[s] : Edge[s][o] \in StateIds

\* Sessions are numbered in the order the helper hands out their ids.
ASSUME CoordinatorAssumption ==
  /\ SessionIds = 1..Cardinality(SessionIds)
  /\ WorkerLogs = {"captured", "unavailable"}
  /\ ExecutionTypes = {"agent", "decision"}

\* A stage's wait offers the state to continue at and the one to revise at.
ASSUME OfferAssumption ==
  \A a, b \in StateIds : [continue_stage |-> a, revise_task |-> b] \in ActionLists

VARIABLES
  cmd,          \* the running command, or the report of the last one
  issued,       \* number of session ids the helper has handed out
  live,         \* sessions that exist in the helper
  artifacts,    \* executions whose worker log artifact is published
  tree,         \* TRUE once the run-output tree is published
  \* What happened, for the properties:
  undeletable,  \* sessions a deletion was tried for and failed
  orphaned      \* sessions that were live when a process died

helper == <<issued, live, undeletable, orphaned>>
disk == <<artifacts, tree>>
coordVars == <<vars, cmd, helper, disk>>

-----------------------------------------------------------------------------
(* The running command.                                                    *)

Slots == {"tool", "execution"}

\* A captured session, its cleanup's progress and whether its id is durable.
EmptySlot == [id |-> None, done |-> FALSE, failed |-> FALSE, durable |-> FALSE]

Reports ==
  {"success", TerminalReason, CleanupReason, "signal", "persist", "other",
   "waiting", "plan_ready", "refused", "crashed"}

ASSUME ReportAssumption == None \notin Reports

Returned(report) ==
  [pc |-> "idle", report |-> report, signal |-> FALSE, cutoff |-> "open",
   abandoned |-> FALSE, unfinished |-> FALSE, log |-> None, cause |-> None,
   slot |-> [k \in Slots |-> EmptySlot]]

At(pc) == [cmd EXCEPT !.pc = pc]
Idle == cmd.pc = "idle"

\* The failure policy starts with the classified cause.
Failing(cause) == [cmd EXCEPT !.pc = "finalize", !.cause = cause]

Become(next) == cmd' = next /\ UNCHANGED vars
Fail(cause) == Become(Failing(cause)) /\ UNCHANGED <<helper, disk>>
Return(report) == Become(Returned(report)) /\ UNCHANGED <<helper, disk>>

\* A durability-unknown commit stops every further write of the command.
Abandoning(next) == IF next.pc = "idle" THEN next
                    ELSE [next EXCEPT !.abandoned = TRUE]

\* One durable write: committed; renamed with its crash survival unknown, so
\* that the candidate is adopted and the sink poisoned; or not committed.
DispatchOr(command, next, failed) ==
  /\ \/ command /\ cmd' = next
     \/ command /\ cmd' = Abandoning(failed)
     \/ UNCHANGED vars /\ cmd' = failed
  /\ UNCHANGED <<helper, disk>>

Dispatch(command, next) == DispatchOr(command, next, Failing("persist"))

\* Outcome-aware dispatches of the finalizer and of the recovery end the
\* command with state_persist_failed.
DispatchAware(command, next) == DispatchOr(command, next, Returned("persist"))

-----------------------------------------------------------------------------
(* Signals.                                                                *)

\* Acceptance is open until the cutoff freezes it.
SignalArrives ==
  /\ ~Idle
  /\ ~cmd.signal /\ cmd.cutoff = "open"
  /\ cmd' = [cmd EXCEPT !.signal = TRUE]
  /\ UNCHANGED <<vars, helper, disk>>

\* Mutant: the cutoff does not look at the signal.
CutoffDeaf == "quiet"

\* The single cutoff: the first reading wins.
Cutoff == IF cmd.cutoff # "open" THEN cmd.cutoff
          ELSE IF cmd.signal THEN "signal" ELSE "quiet"

\* The places where a pending signal stops the command before its next effect.
Checkpoints ==
  {"engine", "create_execution", "create_tool", "work", "evaluate",
   "committed"}

PlanReady ==
  /\ Role[LastExecution.state_id] = "planning"
  /\ Edge[LastExecution.state_id]["completed"] \in ExecutableStates
  /\ Role[Edge[LastExecution.state_id]["completed"]] = "stage"

Interrupted ==
  /\ \/ cmd.pc \in Checkpoints
     \/ cmd.pc = "settled" /\ PlanReady
  /\ cmd.signal
  /\ Fail("signal")

-----------------------------------------------------------------------------
(* The engine: one state of the graph after another.                       *)

Current == cursor.current_state

\* resolveExecutionStart: the role's lifecycle gate before the start command.
LifecycleFits == Role[Current] = "stage" <=> HasOpenIteration

StartIteration == IF Role[Current] = "stage"
                  THEN Len(OpenGeneration.iterations) ELSE None

StartCommand ==
  StartExecution(Kind[Current], Current, Role[Current], StartIteration)

\* The tracking of an execution starts empty.
Tracked(pc) == [At(pc) EXCEPT !.unfinished = TRUE, !.log = None,
                              !.slot = [k \in Slots |-> EmptySlot]]

EngineRefuses ==
  /\ cmd.pc = "engine"
  /\ Current \in ExecutableStates
  /\ cursor.transition_count >= MaxTransitions \/ ~LifecycleFits
  /\ Fail("other")

\* A decision's input is prepared before its record, an agent's after it.
PreparationFails ==
  /\ \/ cmd.pc = "engine" /\ Current \in ExecutableStates /\ Kind[Current] = "decision"
     \/ cmd.pc = "prepare"
  /\ Fail("other")

Start ==
  /\ cmd.pc = "engine" /\ ~cmd.signal
  /\ Current \in ExecutableStates
  /\ cursor.transition_count < MaxTransitions /\ LifecycleFits
  /\ Dispatch(StartCommand,
              Tracked(IF Kind[Current] = "agent" THEN "prepare" ELSE "evaluate"))

PreparedCommand == AgentDataPrepared(None)
Prepare ==
  /\ cmd.pc = "prepare"
  /\ Dispatch(PreparedCommand, At("create_execution"))

-----------------------------------------------------------------------------
(* The two sessions of an agent: execution first, then tool.               *)

CreatesAt == [execution |-> "create_execution", tool |-> "create_tool"]
RecordsAt == [execution |-> "record_execution", tool |-> "record_tool"]
AfterRecord == [execution |-> "create_tool", tool |-> "mark_running"]

NextSession == issued + 1

\* The cleanup is captured with the session, before anything is recorded.
CreateSession(k) ==
  /\ cmd.pc = CreatesAt[k] /\ ~cmd.signal
  /\ NextSession \in SessionIds
  /\ issued' = NextSession
  /\ live' = live \cup {NextSession}
  /\ cmd' = [At(RecordsAt[k]) EXCEPT !.slot[k].id = NextSession]
  /\ UNCHANGED <<vars, undeletable, orphaned, disk>>

CreationFails(k) == cmd.pc = CreatesAt[k] /\ ~cmd.signal /\ Fail("other")

\* A session of a foreign launcher is deleted at once, if that succeeds.
CreationMisowned(k) ==
  /\ cmd.pc = CreatesAt[k] /\ ~cmd.signal
  /\ NextSession \in SessionIds
  /\ issued' = NextSession
  /\ \/ UNCHANGED <<live, undeletable>>
     \/ /\ live' = live \cup {NextSession}
        /\ undeletable' = undeletable \cup {NextSession}
  /\ cmd' = Failing("other")
  /\ UNCHANGED <<vars, orphaned, disk>>

RecordCommand(k) ==
  IF k = "execution" THEN AgentExecutionSessionCreated(cmd.slot[k].id)
                     ELSE AgentToolSessionCreated(cmd.slot[k].id)

RecordSession(k) ==
  /\ cmd.pc = RecordsAt[k]
  /\ Dispatch(RecordCommand(k),
              [At(AfterRecord[k]) EXCEPT !.slot[k].durable = TRUE])

MarkRunning ==
  /\ cmd.pc = "mark_running"
  /\ Dispatch(AgentRunning, At("work"))

-----------------------------------------------------------------------------
(* The worker, its log and its outputs.                                    *)

WorkerEnds ==
  /\ cmd.pc = "work" /\ ~cmd.signal
  /\ \E pc \in {"log_completed", "log_failed"} : Become(At(pc))
  /\ UNCHANGED <<helper, disk>>

WorkerThrows == cmd.pc = "work" /\ ~cmd.signal /\ Fail("other")

Logged(log) ==
  IF cmd.pc = "log_completed" THEN [At("accept") EXCEPT !.log = log]
  ELSE [Failing("other") EXCEPT !.log = log]

\* recordWorkerLog: publish the capture, then bind it; a log that was not
\* captured or could not be published is unavailable.
RecordWorkerLog ==
  /\ cmd.pc \in {"log_completed", "log_failed"}
  /\ \/ /\ artifacts' = artifacts \cup {Len(executions)}
        /\ cmd' = Logged("captured")
     \/ /\ UNCHANGED artifacts
        /\ cmd' = Logged("unavailable")
  /\ UNCHANGED <<vars, helper, tree>>

AcceptCommand == AgentOutputsAccepted(cmd.log)
AcceptOutputs ==
  /\ cmd.pc = "accept"
  /\ \/ Dispatch(AcceptCommand, At("cleanup"))
     \/ Fail("other")

-----------------------------------------------------------------------------
(* Cleanup: every captured session once, the tool session first; a failed  *)
(* deletion does not stop the other.                                       *)

\* Mutant: only recorded sessions are deleted.
PendingRecorded ==
  {k \in Slots : cmd.slot[k].durable /\ ~cmd.slot[k].done}

Pending == {k \in Slots : cmd.slot[k].id # None /\ ~cmd.slot[k].done}
NextSlot == IF "tool" \in Pending THEN "tool" ELSE "execution"

Cleans == {"cleanup", "finalize", "recover_cleanup"}

DeleteSession ==
  /\ cmd.pc \in Cleans /\ Pending # {}
  /\ LET id == cmd.slot[NextSlot].id IN
     \/ /\ live' = live \ {id}
        /\ cmd' = [cmd EXCEPT !.slot[NextSlot].done = TRUE]
        /\ UNCHANGED undeletable
     \/ /\ undeletable' = undeletable \cup {id}
        /\ cmd' = [cmd EXCEPT !.slot[NextSlot].done = TRUE,
                              !.slot[NextSlot].failed = TRUE]
        /\ UNCHANGED live
  /\ UNCHANGED <<vars, issued, orphaned, disk>>

\* durableCleanupPair: only a recorded session has a cleanup outcome.
SlotOutcome(k) == IF ~cmd.slot[k].durable THEN "not_required"
                  ELSE IF cmd.slot[k].failed THEN "failed" ELSE "completed"
CleanupOutcome == [execution |-> SlotOutcome("execution"),
                   tool |-> SlotOutcome("tool")]
CleanupFailedDurably == \E k \in Slots : SlotOutcome(k) = "failed"

CleanedUp(pc) == cmd.pc = pc /\ Pending = {}

SettleAgent ==
  /\ CleanedUp("cleanup")
  /\ IF CleanupFailedDurably
     THEN Fail("other")
     ELSE Dispatch(AgentCleanupCompleted,
                   [At("settled") EXCEPT !.unfinished = FALSE])

EvaluateCommand(o) == DecisionEvaluated(o)
Evaluate ==
  /\ cmd.pc = "evaluate" /\ ~cmd.signal
  /\ \/ Fail("other")
     \/ \E o \in DOMAIN Edge[Current] :
          Dispatch(EvaluateCommand(o),
                   [At("settled") EXCEPT !.unfinished = FALSE])

-----------------------------------------------------------------------------
(* Between two states: the plan-ready suspension, the transition and the   *)
(* wait of a stage.                                                        *)

\* maybePlanReadySuspension: a planning execution whose edge leads to a stage
\* stops before its transition.  Past its checkpoint the boundary is verified,
\* and nobody looks at the signal again.
SuspendPlanReady ==
  /\ cmd.pc = "settled" /\ PlanReady /\ ~cmd.signal
  /\ Become(At("plan_ready")) /\ UNCHANGED <<helper, disk>>

VerifyPlanReady ==
  /\ cmd.pc = "plan_ready"
  /\ Return("plan_ready") \/ Fail("other")

\* The fixed outcome of an agent, or the recorded one of the decision.
SettledOutcome == IF LastExecution.type = "agent" THEN "completed"
                  ELSE LastExecution.result
CommitCommand ==
  TransitionCommitted(SettledOutcome,
                      Edge[LastExecution.state_id][SettledOutcome])
CommitTransition ==
  /\ cmd.pc = "settled" /\ ~PlanReady
  /\ Dispatch(CommitCommand, At("committed"))

\* stageWaitBoundary: the last stage agent of the open iteration has handed
\* the run to a planning state.
StageWaitBoundary ==
  /\ status = "active" /\ phase = "running" /\ Undecided /\ ~HasOpenWait
  /\ HasOpenIteration
  /\ executions # <<>> /\ AllBound
  /\ LastExecution.type = "agent"
  /\ LastExecution.execution_role = "stage"
  /\ LastExecution.phase = "cleanup_completed"
  /\ LastExecution.iteration_index = Len(OpenGeneration.iterations)
  /\ Latest(transitions).outcome = "completed"
  /\ Latest(transitions).to = Current
  /\ Current \in ExecutableStates /\ Role[Current] = "planning"

\* The entry state of the stage the open generation runs.
StageEntry == transitions[OpenGeneration.opened + 1].to

WaitOffer == [continue_stage |-> StageEntry, revise_task |-> Current]
WaitCommand(request) == RunWaiting(Current, request, WaitOffer)

\* The checkpoint after the commit is the last one before the wait.
AttemptWait ==
  /\ cmd.pc = "committed" /\ ~cmd.signal /\ StageWaitBoundary
  /\ Become(At("enter_wait")) /\ UNCHANGED <<helper, disk>>

\* attemptStageWaitEntry: a failed entry is reported without a run-level failure,
\* and a resume retries it.
EnterWait ==
  /\ cmd.pc = "enter_wait"
  /\ \/ Return("other")
     \/ \E request \in Requests : DispatchAware(WaitCommand(request), At("waiting"))

SuspendWaiting == cmd.pc = "waiting" /\ Return("waiting")

ContinueEngine ==
  /\ cmd.pc = "committed" /\ ~cmd.signal /\ ~StageWaitBoundary
  /\ Become(At("engine")) /\ UNCHANGED <<helper, disk>>

-----------------------------------------------------------------------------
(* The terminal phase.                                                     *)

TerminalCommand == TerminalReached(Current, Kind[Current])
ReachTerminal ==
  /\ cmd.pc = "engine" /\ ~cmd.signal
  /\ Current \in TerminalStates
  /\ Dispatch(TerminalCommand, At("publish_fresh"))

\* A live publication needs an absent target; a recovery adopts a tree that
\* is already there.
PublishOutputs ==
  /\ \/ cmd.pc = "publish_fresh" /\ ~tree
     \/ cmd.pc = "publish_adopt"
  /\ tree' = TRUE
  /\ cmd' = At("record_outputs")
  /\ UNCHANGED <<vars, helper, artifacts>>

PublicationFails ==
  cmd.pc \in {"publish_fresh", "publish_adopt"} /\ Fail("other")

RecordOutputs ==
  /\ cmd.pc = "record_outputs"
  /\ Dispatch(RunOutputsPublished, At("conclude"))

\* The cutoff is taken before the final write; an accepted signal turns a
\* successful terminal into a failure and cannot change a failed one.
ConcludeCommand == IF terminal.result = "success" THEN RunSucceeded
                   ELSE RunFailed(TerminalReason)
Conclude ==
  /\ cmd.pc = "conclude"
  /\ IF Cutoff = "signal" /\ terminal.result = "success"
     THEN /\ Become([Failing("signal") EXCEPT !.cutoff = Cutoff])
          /\ UNCHANGED <<helper, disk>>
     ELSE DispatchOr(ConcludeCommand,
            Returned(IF terminal.result = "success" THEN "success"
                     ELSE TerminalReason),
            [Failing("persist") EXCEPT !.cutoff = Cutoff])

-----------------------------------------------------------------------------
(* The failure policy: finalizeFailure.                                    *)

\* Mutant: a process-level reason is written to the document.
DurableVerbatim(reason) == reason

\* The durable reasons the successor rules tell apart.
Durable(reason) == IF reason \in FailureReasons THEN reason ELSE "other"

\* Mutant: the cause is reported whatever the cleanup says.
CauseOnly == IF Cutoff = "signal" THEN "signal" ELSE cmd.cause

\* A durably failed cleanup outranks a signal, a signal outranks the cause.
FinalReason ==
  IF CleanupFailedDurably THEN CleanupReason
  ELSE IF Cutoff = "signal" THEN "signal" ELSE cmd.cause

BoundLog == IF cmd.log = None THEN "unavailable" ELSE cmd.log

ExecutionFailure ==
  IF LastExecution.type = "agent"
  THEN AgentFailed(IF CleanupFailedDurably THEN CleanupReason ELSE "other",
                   CleanupOutcome, BoundLog)
  ELSE DecisionFailed

Finalizing == [cmd EXCEPT !.pc = "finalize_run", !.cause = FinalReason,
                          !.cutoff = Cutoff]

\* The record of the unfinished execution has to be committed before the run
\* may fail.
FinalizeExecution ==
  /\ CleanedUp("finalize")
  /\ IF cmd.abandoned THEN Return("persist")
     ELSE IF cmd.unfinished
          THEN DispatchAware(ExecutionFailure,
                             [Finalizing EXCEPT !.unfinished = FALSE])
          ELSE Become(Finalizing) /\ UNCHANGED <<helper, disk>>

\* Mutant: the mirror forgets what a failed terminal asks for.
AdmissibleAnyEnding(reason) == AllSettled /\ ~LastCleanupFailed

\* runFailedAdmissible: mirrors the reducer.
RunFailedAdmissible(reason) ==
  /\ AllSettled
  /\ ~LastCleanupFailed
  /\ IF terminal # None /\ terminal.result = "failed" /\ run_outputs
     THEN reason = TerminalReason ELSE reason # TerminalReason

FinalizeCommand == IF CleanupFailedDurably THEN RunCleanupFailed
                   ELSE RunFailed(Durable(cmd.cause))

\* A run-level failure that was not committed is tried once more, with the
\* reason that the state could not be persisted.
FinalizeRun ==
  /\ cmd.pc = "finalize_run"
  /\ IF ~CleanupFailedDurably /\ ~RunFailedAdmissible(cmd.cause)
     THEN Return("persist")
     ELSE /\ \/ FinalizeCommand
                /\ cmd' \in {Returned(cmd.cause), Returned("persist")}
             \/ UNCHANGED vars
                /\ cmd' = IF RunFailedAdmissible("persist")
                          THEN At("finalize_again") ELSE Returned("persist")
          /\ UNCHANGED <<helper, disk>>

\* Mutant: the second attempt is retried without bound.
FinalizeForever ==
  /\ cmd.pc = "finalize_again"
  /\ DispatchOr(RunFailed("other"), Returned("persist"), At("finalize_run"))

FinalizeAgain ==
  /\ cmd.pc = "finalize_again"
  /\ DispatchAware(RunFailed("other"), Returned("persist"))

-----------------------------------------------------------------------------
(* resume: which durable suffix is missing.                                *)

LastRecordedAs(role, type, at) ==
  /\ LastExecution.execution_role = role
  /\ LastExecution.type = type
  /\ LastExecution.phase = at

\* The recovery classes of an execution that carries no transition yet.
UnboundWindow ==
  IF LastExecution.phase = "failed" THEN "finalization"
  ELSE IF \/ LastRecordedAs("stage", "agent", "running")
          \/ LastRecordedAs("stage", "agent", "outputs_accepted")
       THEN "cleanup"
  ELSE IF \/ LastRecordedAs("stage", "agent", "cleanup_completed")
          \/ LastRecordedAs("control", "decision", "evaluated")
       THEN "transition"
  ELSE "none"

\* classifyPipelineV2ResumeRecovery.
Window ==
  IF status # "active" THEN "none"
  ELSE IF terminal # None THEN "terminal"
  ELSE IF phase # "running" \/ AllBound THEN "none"
  ELSE UnboundWindow

\* checkResumableBoundary, for a run outside every recovery window.
CleanActive ==
  /\ status = "active" /\ phase = "running" /\ Undecided
  /\ AllSettled /\ ~LastFailed /\ AllBound /\ ~HasOpenWait

\* Mutant: a plain resume enters the engine at once.
ResumeAtEngine ==
  /\ Idle
  /\ IF Window # "none" THEN Become([Returned(None) EXCEPT !.pc = "recover"])
     ELSE IF CleanActive THEN Become([Returned(None) EXCEPT !.pc = "engine"])
     ELSE Become(Returned("refused"))
  /\ UNCHANGED <<helper, disk>>

\* A plain resume continues where a committed transition leaves the run: at
\* the checkpoint and the wait attempt before the engine.
Resume ==
  /\ Idle
  /\ IF Window # "none" THEN Become([Returned(None) EXCEPT !.pc = "recover"])
     ELSE IF CleanActive THEN Become([Returned(None) EXCEPT !.pc = "committed"])
     ELSE Become(Returned("refused"))
  /\ UNCHANGED <<helper, disk>>

\* A signal before the first recovery effect leaves the document untouched.
RecoveryInterrupted == cmd.pc = "recover" /\ cmd.signal /\ Return("signal")

Recovering(window) == cmd.pc = "recover" /\ ~cmd.signal /\ Window = window

RunFinalization == IF FailedCleanup(LastExecution) THEN RunCleanupFailed
                   ELSE RunFailed("other")
FinalizationReport ==
  Returned(IF FailedCleanup(LastExecution) THEN CleanupReason ELSE "other")

RecoverFinalization ==
  /\ \/ Recovering("finalization")
     \/ cmd.pc = "recover_finalize"
  /\ DispatchAware(RunFinalization, FinalizationReport)

RecoverTransition ==
  /\ Recovering("transition")
  /\ Become(At("settled")) /\ UNCHANGED <<helper, disk>>

RecoverTerminal ==
  /\ Recovering("terminal")
  /\ Become(At(IF run_outputs THEN "conclude" ELSE "publish_adopt"))
  /\ UNCHANGED <<helper, disk>>

\* The log of a worker that ran in another process: the bound one, else the
\* published artifact if it can be read.
AdoptedLogs ==
  IF LastExecution.worker_log # None THEN {LastExecution.worker_log}
  ELSE {"unavailable"} \cup
       (IF Len(executions) \in artifacts THEN {"captured"} ELSE {})

RecordedSlot(id) == [id |-> id, done |-> FALSE, failed |-> FALSE, durable |-> TRUE]

\* Both recorded sessions are deleted by their ids, whether or not they still
\* exist; the worker is not run again.
RecoverAgent ==
  /\ Recovering("cleanup")
  /\ \E log \in AdoptedLogs :
       Become([At("recover_cleanup") EXCEPT
         !.log = log,
         !.slot = [execution |-> RecordedSlot(LastExecution.execution_session_id),
                   tool |-> RecordedSlot(LastExecution.tool_session_id)]])
  /\ UNCHANGED <<helper, disk>>

\* A worker in flight failed; an accepted one only lacks its cleanup.
RecoverySettles ==
  CleanupFailedDurably \/ LastExecution.phase = "running"
RecoveryCommand ==
  IF RecoverySettles
  THEN AgentFailed(IF CleanupFailedDurably THEN CleanupReason ELSE "other",
                   CleanupOutcome, cmd.log)
  ELSE AgentCleanupCompleted
RecoverAgentSettle ==
  /\ CleanedUp("recover_cleanup")
  /\ DispatchAware(RecoveryCommand,
                   At(IF RecoverySettles THEN "recover_finalize" ELSE "settled"))

-----------------------------------------------------------------------------
(* resume-plan: the planning handoff of a run that never waited.           *)

PlanningSettled ==
  /\ status = "active" /\ phase = "running" /\ Undecided
  /\ executions # <<>>
  /\ LastRecordedAs("planning", "agent", "cleanup_completed")
  /\ waits = <<>> /\ grants = <<>>

\* The handoff is complete but the engine has not started the stage.
HandoffCommitted ==
  /\ PlanningSettled /\ AllBound
  /\ Len(generations) = 1 /\ HasOpenIteration

ResumePlan ==
  /\ Idle
  /\ IF PlanningSettled /\ ~AllBound
     THEN Become([Returned(None) EXCEPT !.pc = "handoff"])
     ELSE IF HandoffCommitted
          THEN Become([Returned(None) EXCEPT !.pc = "committed"])
          ELSE Become(Returned("refused"))
  /\ UNCHANGED <<helper, disk>>

MissingTasks == {t \in TaskIds : LatestTaskRevision(t) = 0}
PlanAccepted == plan_revisions # <<>>
                /\ Latest(plan_revisions).origin_execution = Len(executions)

\* The tasks and then the plan of the planning output, each unless recorded.
AcceptTask ==
  /\ cmd.pc = "handoff" /\ ~PlanAccepted
  /\ \E t \in MissingTasks, digest \in TaskDigests :
       DispatchAware(TaskRevisionAccepted(t, 1, digest, None, None), cmd)

AcceptPlan ==
  /\ cmd.pc = "handoff" /\ ~PlanAccepted /\ MissingTasks = {}
  /\ \E plan \in PlanDigests :
       DispatchAware(PlanRevisionAccepted(Len(plan_revisions) + 1, plan,
                                          Len(executions)), cmd)

\* The planning edge is checked before any stage write.
RefuseEdge ==
  /\ cmd.pc = "handoff" /\ PlanAccepted /\ ~PlanReady
  /\ Return("refused")

OpenStageGeneration ==
  /\ cmd.pc = "handoff" /\ PlanAccepted /\ PlanReady /\ ~HasOpenGeneration
  /\ \E budget \in InitialBudgets :
       DispatchAware(StageGenerationOpened(Latest(plan_revisions).sha256, budget,
                                           cursor.transition_count), cmd)

OpenStageIteration ==
  /\ cmd.pc = "handoff" /\ PlanReady
  /\ HasOpenGeneration /\ ~HasOpenIteration
  /\ DispatchAware(StageIterationOpened(Len(generations),
                     Len(OpenGeneration.iterations) + 1,
                     cursor.transition_count), cmd)

CommitHandoff ==
  /\ cmd.pc = "handoff" /\ PlanReady /\ HasOpenIteration
  /\ DispatchAware(CommitCommand, At("committed"))

-----------------------------------------------------------------------------
(* The process and its crashes.                                            *)

\* The process dies between two steps; what it knew is gone.
Crash ==
  /\ ~Idle
  /\ cmd' = Returned("crashed")
  /\ orphaned' = orphaned \cup live
  /\ UNCHANGED <<vars, issued, live, undeletable, disk>>

CoordInit ==
  /\ Init
  /\ cmd = [Returned(None) EXCEPT !.pc = "engine"]
  /\ issued = 0 /\ live = {} /\ undeletable = {} /\ orphaned = {}
  /\ artifacts = {} /\ tree = FALSE

Execute ==
  \/ EngineRefuses \/ PreparationFails \/ Start \/ Prepare
  \/ \E k \in Slots : \/ CreateSession(k) \/ CreationFails(k)
                      \/ CreationMisowned(k) \/ RecordSession(k)
  \/ MarkRunning \/ WorkerEnds \/ WorkerThrows \/ RecordWorkerLog
  \/ AcceptOutputs \/ DeleteSession \/ SettleAgent \/ Evaluate

Advance ==
  \/ Interrupted \/ SuspendPlanReady \/ VerifyPlanReady \/ CommitTransition
  \/ AttemptWait \/ EnterWait \/ SuspendWaiting \/ ContinueEngine \/ ReachTerminal \/ PublishOutputs \/ PublicationFails
  \/ RecordOutputs \/ Conclude

Settlement ==
  \/ FinalizeExecution \/ FinalizeRun \/ FinalizeAgain
  \/ RecoveryInterrupted \/ RecoverFinalization \/ RecoverTransition
  \/ RecoverTerminal \/ RecoverAgent \/ RecoverAgentSettle

Handoff ==
  \/ AcceptTask \/ AcceptPlan \/ RefuseEdge \/ OpenStageGeneration
  \/ OpenStageIteration \/ CommitHandoff

\* What a running command does on its own.
Step == Execute \/ Advance \/ Settlement \/ Handoff

CoordNext == Step \/ SignalArrives \/ Crash \/ Resume \/ ResumePlan

CoordSpec == CoordInit /\ [][CoordNext]_coordVars

\* Where a command awaits a call of the helper or of the worker.
Outside ==
  \/ cmd.pc \in {"create_execution", "create_tool", "work"}
  \/ cmd.pc \in Cleans /\ Pending # {}

\* The command's own code goes on, and its file operations end.  Nothing says that
\* a call outside returns: a session's creation and deletion have no timeout, and
\* a worker operation that was left to its own may run for ever.
FairCoordSpec == CoordSpec /\ WF_coordVars(~Outside /\ Step)

-----------------------------------------------------------------------------
(* Properties.                                                             *)

Pcs ==
  {"idle", "engine", "prepare", "create_execution", "create_tool",
   "record_execution", "record_tool", "mark_running", "work",
   "log_completed", "log_failed", "accept", "cleanup", "settled", "evaluate",
   "committed", "publish_fresh", "publish_adopt", "record_outputs",
   "conclude", "finalize", "finalize_run", "finalize_again", "recover",
   "recover_cleanup", "recover_finalize", "handoff", "plan_ready", "enter_wait",
   "waiting"}

CoordTypeOK ==
  /\ TypeOK
  /\ cmd \in [pc : Pcs, report : Reports \cup {None}, signal : BOOLEAN,
              cutoff : {"open", "quiet", "signal"}, abandoned : BOOLEAN,
              unfinished : BOOLEAN, log : WorkerLogs \cup {None},
              cause : {"other", "signal", "persist", CleanupReason, None},
              slot : [Slots -> [id : SessionIds \cup {None}, done : BOOLEAN,
                                failed : BOOLEAN, durable : BOOLEAN]]]
  /\ issued \in Nat
  /\ live \subseteq SessionIds
  /\ undeletable \subseteq SessionIds
  /\ orphaned \subseteq SessionIds
  /\ artifacts \subseteq Nat
  /\ tree \in BOOLEAN

\* The coordinator never asks the reducer for a command it rejects: its own
\* tracking, classification and admissibility checks agree with the reducer
\* on every path, after every failure and every restart.
NeverRejected ==
  LET Accepted(pc, command) == cmd.pc = pc => command IN
  /\ cmd.pc = "engine" /\ Current \in ExecutableStates /\ LifecycleFits
     /\ cursor.transition_count < MaxTransitions => ENABLED StartCommand
  /\ cmd.pc = "engine" /\ Current \in TerminalStates => ENABLED TerminalCommand
  /\ Accepted("mark_running", ENABLED AgentRunning)
  /\ \A k \in Slots : Accepted(RecordsAt[k], ENABLED RecordCommand(k))
  /\ Accepted("accept", ENABLED AcceptCommand)
  /\ CleanedUp("cleanup") => ENABLED AgentCleanupCompleted
  /\ cmd.pc = "settled" /\ ~PlanReady => ENABLED CommitCommand
  /\ Accepted("record_outputs", ENABLED RunOutputsPublished)
  /\ Accepted("conclude", ENABLED ConcludeCommand)
  /\ CleanedUp("finalize") /\ cmd.unfinished /\ ~cmd.abandoned
       => ENABLED ExecutionFailure
  /\ cmd.pc = "finalize_run"
     /\ (CleanupFailedDurably \/ RunFailedAdmissible(cmd.cause))
       => ENABLED FinalizeCommand
  /\ Accepted("finalize_again", ENABLED RunFailed("other"))
  /\ Accepted("recover_finalize", ENABLED RunFinalization)
  /\ Recovering("finalization") => ENABLED RunFinalization
  /\ CleanedUp("recover_cleanup") => ENABLED RecoveryCommand

\* A settled execution tells the truth about its sessions: one whose cleanup
\* is recorded as completed is gone from the helper, and one recorded as
\* failed is one whose deletion was tried and failed.
CleanupRecordsTrue ==
  \A e \in DOMAIN executions :
    LET x == executions[e]
        ids == [execution |-> x.execution_session_id, tool |-> x.tool_session_id]
    IN  x.session_cleanup # None =>
          \A k \in Slots :
            /\ x.session_cleanup[k] = "completed" => ids[k] \notin live
            /\ x.session_cleanup[k] = "failed" => ids[k] \in undeletable

\* No command returns before it tried to delete every session it created,
\* recorded or not: what is left in the helper either resisted its deletion
\* or was left by a process that died.
EverySessionAttempted == Idle => live \subseteq undeletable \cup orphaned

\* The document never runs ahead of the disk: published outputs and a
\* captured worker log are recorded only once they are there.
RecordsBacked ==
  /\ run_outputs => tree
  /\ \A e \in DOMAIN executions :
       executions[e].worker_log = "captured" => e \in artifacts

\* The report of a command agrees with the document it leaves behind.
ReportHonest ==
  Idle =>
    /\ cmd.report = "success" => status = "success"
    /\ cmd.report \in {TerminalReason, CleanupReason} => failure = cmd.report
    /\ cmd.report = "waiting" => status = "waiting"
    /\ cmd.report = "plan_ready" => PlanningSettled /\ ~AllBound
    /\ cmd.report = "signal" =>
         status = "failed" \/ (status = "active" /\ Window # "none")
    /\ cmd.report = "other" => status = "failed" \/ StageWaitBoundary

InFlight == executions # <<>> /\ ~IsSettled(LastExecution)

\* The phases of a stage agent that recovery finishes.
Recovered ==
  \/ LastRecordedAs("stage", "agent", "running")
  \/ LastRecordedAs("stage", "agent", "outputs_accepted")

\* What a crash can leave behind that no command continues: an execution in
\* flight outside its recovery window, a planning execution whose edge leads
\* to no stage, and a decision inside a stage.
Strandable ==
  \/ InFlight /\ ~Recovered
  \/ PlanningSettled /\ ~AllBound /\ ~PlanReady
  \/ ~AllBound /\ LastRecordedAs("stage", "decision", "evaluated")

\* Elsewhere every crash, failed write and signal leaves an active run that
\* resume or resume-plan continues.
StrandsOnlyKnown ==
  Idle /\ status = "active" =>
    Window # "none" \/ CleanActive \/ (PlanningSettled /\ ~AllBound /\ PlanReady)
    \/ Strandable

\* A signal is ignored only if it came after the command's last look: a command
\* that accepted one reports neither success nor an orderly suspension, unless it
\* had already passed the checkpoint before its suspension, and it never passes
\* that checkpoint with a signal pending, even when the signal races the run's
\* final write.  It is about checkSignal and takeCutoff.
Suspending == {"plan_ready", "enter_wait", "waiting"}
SignalNeverIgnored ==
  [][~Idle /\ cmd.signal /\ cmd.pc \notin Suspending =>
       /\ cmd'.report \notin {"success", "waiting", "plan_ready"}
       /\ cmd'.pc \notin Suspending]_coordVars

\* The durable document behaves as RunState says, whatever the coordinator,
\* the signals and the crashes do.
ImplementsRunState == Spec

\* The engine is never entered where a stage has handed the run back to
\* planning and its wait is missing, whichever crash, signal or failed write
\* came in between: it would fail the run inside the open iteration.
WaitBeforePlanning == ~(cmd.pc = "engine" /\ StageWaitBoundary)

\* A wait, entered at once or by a resume, offers to continue at the state the
\* waiting generation's first stage execution ran and to revise at planning.
OfferFits ==
  \A w \in DOMAIN waits :
    /\ \E e \in DOMAIN executions :
         /\ executions[e].execution_role = "stage"
         /\ \A f \in Latest(generations).opened + 1 .. e - 1 :
              executions[f].execution_role # "stage"
         /\ executions[e].state_id = waits[w].actions.continue_stage
    /\ Role[waits[w].actions.revise_task] = "planning"

\* The coordinator and the document fit together after every failure, signal and
\* restart: it never enters the engine where a wait is missing, offers what a wait
\* can lead to, and leaves no active run that nothing continues but the known ones.
CoordinatorFits ==
  /\ CoordTypeOK
  /\ WaitBeforePlanning
  /\ OfferFits
  /\ StrandsOnlyKnown

\* What is recorded is so: of sessions that were deleted or resisted, of sessions
\* nobody recorded, and of outputs and logs on disk; and what a command reports is
\* what it leaves behind.
RecordsTrue ==
  /\ CleanupRecordsTrue
  /\ EverySessionAttempted
  /\ RecordsBacked
  /\ ReportHonest

\* Every command ends, or stays for ever in one call of the helper or the worker:
\* neither the failure policy nor the engine loops.
CommandReturns == ~Idle ~> (Idle \/ []Outside)

\* docs/orchestration-workflow.md:436: resume completes "a settled-but-unbound
\* stage or control execution awaiting its exactly one transition_committed".
SettledDecisionRecoverable ==
  Idle /\ status = "active" /\ executions # <<>> /\ ~AllBound
  /\ LastExecution.execution_role \in {"stage", "control"}
  /\ LastExecution.phase \in {"cleanup_completed", "evaluated"}
  => Window = "transition"

\* docs/orchestration-workflow.md:448: the plan-ready chains own a settled
\* planning execution that carries no transition: the chain that took one
\* never turns it away.
PlanReadyChainsOwnPlanning == cmd.pc = "handoff" => ~ENABLED RefuseEdge
=============================================================================
