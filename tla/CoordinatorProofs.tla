-------------------------- MODULE CoordinatorProofs --------------------------
(***************************************************************************)
(* Theorems about the coordination of a run, for every compiled pipeline:  *)
(* the document it drives behaves as RunState says, what is recorded of    *)
(* sessions, logs and outputs is so whatever failed or died in between,    *)
(* and an accepted signal is never lost.                                   *)
(***************************************************************************)
EXTENDS Coordinator, RunStateProofs

-----------------------------------------------------------------------------
(* The inductive invariant.  The document's part:                          *)

\* An execution record is one the compiled pipeline can start.
CompiledExecution(x) ==
  /\ x.state_id \in ExecutableStates
  /\ x.type = Kind[x.state_id]
  /\ x.execution_role = Role[x.state_id]
  /\ x.phase \in IF x.type = "agent" THEN AgentPhases ELSE DecisionPhases
  /\ x.type = "decision" /\ x.phase = "evaluated"
       => x.result \in DOMAIN Edge[x.state_id]
Compiled == \A e \in DOMAIN executions : CompiledExecution(executions[e])

\* A generation is opened by the handoff of an execution, before its transition.
OpenedByExecution ==
  \A g \in DOMAIN generations : generations[g].opened < Len(executions)

\* The coordination ends at the wait it opens, so nothing follows one.
EndsAtWait ==
  /\ waits # <<>> => status = "waiting"
  /\ grants = <<>>

\* Every id in the document or in the helper was handed out.
Recorded(x, k) == IF k = "execution" THEN x.execution_session_id
                                     ELSE x.tool_session_id
IdsIssued ==
  /\ \A e \in DOMAIN executions : \A k \in Slots :
       Recorded(executions[e], k) \in (1..issued) \cup {None}
  /\ live \subseteq 1..issued

RunInv == TypeOK /\ Paired /\ WaitTriple /\ EndingInv
DocumentInv ==
  /\ RunInv /\ Compiled /\ OpenedByExecution /\ EndsAtWait /\ IdsIssued
  /\ CleanupRecordsTrue /\ RecordsBacked

\* The command's part: where it is in the document, ...
SettledUnbound ==
  /\ status = "active" /\ phase = "running" /\ Undecided
  /\ executions # <<>> /\ ~AllBound
  /\ LastExecution.phase = IF LastExecution.type = "agent"
                           THEN "cleanup_completed" ELSE "evaluated"
Positions ==
  /\ cmd.pc = "settled" => SettledUnbound
  /\ cmd.pc = "evaluate" => executions # <<>> /\ LastExecution.state_id = Current
  /\ cmd.pc = "handoff" => PlanningSettled /\ ~AllBound
  /\ cmd.pc = "recover" => Window # "none"
  /\ cmd.pc = "record_outputs" => tree
  /\ cmd.pc = "plan_ready" => PlanningSettled /\ ~AllBound
  /\ cmd.pc = "enter_wait" => StageWaitBoundary
  /\ cmd.pc = "waiting" => status = "waiting"

\* ... what its locals are worth there, ...
AgentPcs ==
  {"prepare", "create_execution", "record_execution", "create_tool",
   "record_tool", "mark_running", "work", "log_completed", "log_failed",
   "accept", "cleanup"}
Finalizers == {"finalize", "finalize_run", "finalize_again"}
Locals ==
  /\ ~Idle => cmd.report = None
  /\ cmd.abandoned => cmd.pc = "finalize"
  /\ cmd.pc \in AgentPcs => cmd.unfinished
  /\ cmd.pc \notin Finalizers => cmd.cutoff = "open"
  /\ cmd.pc = "finalize" => cmd.cause \in {"other", "signal", "persist"}
  /\ cmd.pc = "finalize_run" => (cmd.cause = CleanupReason <=> CleanupFailedDurably)
  /\ cmd.pc \in {"accept", "recover_cleanup"} => cmd.log \in WorkerLogs
  /\ cmd.log = "captured" /\ ~cmd.abandoned => Len(executions) \in artifacts

\* ... which sessions it still has to delete, and what it knows of the others, ...
Holding ==
  {"record_execution", "create_tool", "record_tool", "mark_running", "work",
   "log_completed", "log_failed", "accept", "cleanup", "finalize",
   "recover_cleanup"}
Owned ==
  /\ cmd.pc \notin Holding => Pending = {}
  /\ cmd.pc \in {"prepare", "create_execution"} =>
       \A k \in Slots : cmd.slot[k] = EmptySlot
  /\ cmd.pc \in {"record_execution", "create_tool"} => cmd.slot["tool"] = EmptySlot
  /\ \A k \in Slots :
       /\ cmd.pc = RecordsAt[k] => cmd.slot[k].id # None
       /\ cmd.slot[k].id \in (1..issued) \cup {None}
       /\ cmd.slot[k].done /\ ~cmd.slot[k].failed => cmd.slot[k].id \notin live
       /\ cmd.slot[k].failed => cmd.slot[k].id \in undeletable
  /\ live \subseteq undeletable \cup orphaned \cup {cmd.slot[k].id : k \in Pending}

\* ... and, as long as the execution it tracks is not settled and no write of the
\* command was abandoned, that its slots are the execution's.
Tracks ==
  cmd.pc = "recover_cleanup" \/ (cmd.unfinished /\ ~cmd.abandoned) =>
    /\ executions # <<>>
    /\ \A k \in Slots :
         /\ cmd.slot[k].durable => cmd.slot[k].id = Recorded(LastExecution, k)
         /\ Recorded(LastExecution, k) # None => cmd.slot[k].durable

CommandInv == Positions /\ Locals /\ Owned /\ Tracks
CoordInv == CoordTypeOK /\ DocumentInv /\ CommandInv /\ ReportHonest

-----------------------------------------------------------------------------
(* What a step asks the reducer for, and what the command knows then.      *)

RewriteDispatch ==
  \/ cmd.pc = "prepare" /\ PreparedCommand
  \/ \E k \in Slots : cmd.pc = RecordsAt[k] /\ RecordCommand(k)
  \/ cmd.pc = "mark_running" /\ AgentRunning
  \/ cmd.pc = "accept" /\ AcceptCommand
  \/ CleanedUp("cleanup") /\ ~CleanupFailedDurably /\ AgentCleanupCompleted
  \/ cmd.pc = "evaluate" /\ \E o \in DOMAIN Edge[Current] : EvaluateCommand(o)
  \/ /\ CleanedUp("finalize") /\ cmd.unfinished /\ ~cmd.abandoned
     /\ ExecutionFailure
  \/ CleanedUp("recover_cleanup") /\ RecoveryCommand

StartDispatch == cmd.pc = "engine" /\ Current \in ExecutableStates /\ StartCommand
CommitDispatch ==
  /\ cmd.pc = "settled" \/ (cmd.pc = "handoff" /\ PlanReady)
  /\ CommitCommand

WaitDispatch ==
  cmd.pc = "enter_wait" /\ \E request \in Requests : WaitCommand(request)
EndDispatch ==
  \/ Current \in TerminalStates /\ TerminalCommand
  \/ RunSucceeded
  \/ \E reason \in FailureReasons : RunFailed(reason)
  \/ RunCleanupFailed
OutputsDispatch == cmd.pc = "record_outputs" /\ RunOutputsPublished

HandoffDispatch ==
  /\ cmd.pc = "handoff"
  /\ \/ \E t \in TaskIds, digest \in TaskDigests :
          TaskRevisionAccepted(t, 1, digest, None, None)
     \/ \E plan \in PlanDigests :
          PlanRevisionAccepted(Len(plan_revisions) + 1, plan, Len(executions))
     \/ PlanReady /\ \E budget \in InitialBudgets :
          StageGenerationOpened(Latest(plan_revisions).sha256, budget,
                                cursor.transition_count)
     \/ HasOpenGeneration /\
          StageIterationOpened(Len(generations), Len(OpenGeneration.iterations) + 1,
                               cursor.transition_count)

Dispatched ==
  \/ RewriteDispatch \/ StartDispatch \/ CommitDispatch \/ WaitDispatch
  \/ EndDispatch \/ OutputsDispatch \/ HandoffDispatch

\* A step commits one command, at the place where the command stands, and leaves
\* the helper and the disk alone; or it leaves the document alone.
LEMMA StepsByCommand ==
  ASSUME [CoordNext]_coordVars
  PROVE  UNCHANGED vars \/ (Dispatched /\ UNCHANGED <<helper, disk>>)
<1> DEFINE Goal == UNCHANGED vars \/ (Dispatched /\ UNCHANGED <<helper, disk>>)
<1> USE DEF Dispatch, DispatchAware, DispatchOr, Become, Fail, Return
<1>1. ASSUME Start PROVE Goal
  BY <1>1 DEF Start, Dispatched, StartDispatch
<1>2. ASSUME Prepare PROVE Goal
  BY <1>2 DEF Prepare, Dispatched, RewriteDispatch
<1>3. ASSUME NEW k \in Slots, RecordSession(k) PROVE Goal
  BY <1>3 DEF RecordSession, Dispatched, RewriteDispatch
<1>4. ASSUME MarkRunning PROVE Goal
  BY <1>4 DEF MarkRunning, Dispatched, RewriteDispatch
<1>5. ASSUME AcceptOutputs PROVE Goal
  BY <1>5 DEF AcceptOutputs, Dispatched, RewriteDispatch
<1>6. ASSUME SettleAgent PROVE Goal
  BY <1>6 DEF SettleAgent, Dispatched, RewriteDispatch
<1>7. ASSUME Evaluate PROVE Goal
  BY <1>7 DEF Evaluate, Dispatched, RewriteDispatch
<1>8. ASSUME CommitTransition PROVE Goal
  BY <1>8 DEF CommitTransition, Dispatched, CommitDispatch
<1>9. ASSUME EnterWait PROVE Goal
  BY <1>9 DEF EnterWait, Dispatched, WaitDispatch
<1>10. ASSUME ReachTerminal PROVE Goal
  BY <1>10 DEF ReachTerminal, Dispatched, EndDispatch
<1>11. ASSUME RecordOutputs PROVE Goal
  BY <1>11 DEF RecordOutputs, Dispatched, OutputsDispatch
<1>12. ASSUME Conclude PROVE Goal
  <2>1. ConcludeCommand => EndDispatch
    BY DEF ConcludeCommand, EndDispatch, FailureReasons
  <2>2. QED
    BY <1>12, <2>1 DEF Conclude, Dispatched
<1>13. ASSUME FinalizeExecution PROVE Goal
  BY <1>13 DEF FinalizeExecution, Dispatched, RewriteDispatch
<1>14. ASSUME FinalizeRun PROVE Goal
  <2>1. FinalizeCommand => EndDispatch
    BY DEF FinalizeCommand, EndDispatch, FailureReasons, Durable
  <2>2. QED
    BY <1>14, <2>1 DEF FinalizeRun, Dispatched
<1>15. ASSUME FinalizeAgain PROVE Goal
  BY <1>15 DEF FinalizeAgain, Dispatched, EndDispatch, FailureReasons
<1>16. ASSUME RecoverFinalization PROVE Goal
  <2>1. RunFinalization => EndDispatch
    BY DEF RunFinalization, EndDispatch, FailureReasons
  <2>2. QED
    BY <1>16, <2>1 DEF RecoverFinalization, Dispatched
<1>17. ASSUME RecoverAgentSettle PROVE Goal
  BY <1>17 DEF RecoverAgentSettle, Dispatched, RewriteDispatch
<1>18. ASSUME AcceptTask PROVE Goal
  BY <1>18 DEF AcceptTask, Dispatched, HandoffDispatch, MissingTasks
<1>19. ASSUME AcceptPlan PROVE Goal
  BY <1>19 DEF AcceptPlan, Dispatched, HandoffDispatch
<1>20. ASSUME OpenStageGeneration PROVE Goal
  BY <1>20 DEF OpenStageGeneration, Dispatched, HandoffDispatch
<1>21. ASSUME OpenStageIteration PROVE Goal
  BY <1>21 DEF OpenStageIteration, Dispatched, HandoffDispatch
<1>22. ASSUME CommitHandoff PROVE Goal
  BY <1>22 DEF CommitHandoff, Dispatched, CommitDispatch
<1>23. ASSUME NEW k \in Slots,
              CreateSession(k) \/ CreationFails(k) \/ CreationMisowned(k)
       PROVE  Goal
  BY <1>23 DEF CreateSession, CreationFails, CreationMisowned
<1>24. ASSUME \/ EngineRefuses \/ PreparationFails \/ WorkerEnds \/ WorkerThrows
              \/ RecordWorkerLog \/ DeleteSession
       PROVE  Goal
  BY <1>24 DEF EngineRefuses, PreparationFails, WorkerEnds, WorkerThrows,
               RecordWorkerLog, DeleteSession
<1>25. ASSUME \/ Interrupted \/ SuspendPlanReady \/ VerifyPlanReady \/ AttemptWait
              \/ SuspendWaiting \/ ContinueEngine \/ PublishOutputs \/ PublicationFails
       PROVE  Goal
  BY <1>25 DEF Interrupted, SuspendPlanReady, VerifyPlanReady, AttemptWait, SuspendWaiting,
               ContinueEngine, PublishOutputs, PublicationFails
<1>26. ASSUME \/ RecoveryInterrupted \/ RecoverTransition \/ RecoverTerminal
              \/ RecoverAgent \/ RefuseEdge
       PROVE  Goal
  BY <1>26 DEF RecoveryInterrupted, RecoverTransition, RecoverTerminal,
               RecoverAgent, RefuseEdge
<1>27. ASSUME SignalArrives \/ Crash \/ Resume \/ ResumePlan PROVE Goal
  BY <1>27 DEF SignalArrives, Crash, Resume, ResumePlan
<1>28. ASSUME UNCHANGED coordVars PROVE Goal
  BY <1>28 DEF coordVars
<1>29. ASSUME Execute PROVE Goal
  BY <1>29, <1>1, <1>2, <1>3, <1>4, <1>5, <1>6, <1>7, <1>23, <1>24 DEF Execute
<1>30. ASSUME Advance PROVE Goal
  BY <1>30, <1>8, <1>9, <1>10, <1>11, <1>12, <1>25 DEF Advance
<1>31. ASSUME Settlement PROVE Goal
  BY <1>31, <1>13, <1>14, <1>15, <1>16, <1>17, <1>26 DEF Settlement
<1>32. ASSUME Handoff PROVE Goal
  BY <1>32, <1>18, <1>19, <1>20, <1>21, <1>22, <1>26 DEF Handoff
<1>33. QED
  BY <1>27, <1>28, <1>29, <1>30, <1>31, <1>32 DEF CoordNext, Step

-----------------------------------------------------------------------------
(* Every dispatch is a command of RunState, with parameters it allows.     *)

LEMMA RunInvInit == Init => RunInv
BY InitType, PairedInit, WaitTripleInit, EndingInit DEF RunInv

LEMMA RunInvNext == RunInv /\ [Next]_vars => RunInv'
BY TypeNext, PairedNext, WaitTripleNext, EndingNext DEF RunInv

LEMMA CommandTypes ==
  ASSUME CoordTypeOK
  PROVE  /\ cmd.log \in WorkerLogs \cup {None}
         /\ cmd.pc \in Pcs
         /\ \A k \in Slots :
              /\ cmd.slot[k].id \in SessionIds \cup {None}
              /\ cmd.slot[k].done \in BOOLEAN /\ cmd.slot[k].failed \in BOOLEAN
              /\ cmd.slot[k].durable \in BOOLEAN
BY DEF CoordTypeOK

LEMMA OutcomeTypes == CleanupOutcome \in CleanupPair
BY DEF CleanupOutcome, SlotOutcome, CleanupPair, CleanupValues

LEMMA RewriteIsCommand == CoordInv /\ RewriteDispatch => ExecutionCommand
<1> SUFFICES ASSUME CoordInv, RewriteDispatch PROVE ExecutionCommand
  OBVIOUS
<1>0. CoordTypeOK /\ Owned /\ Locals
  BY DEF CoordInv, CommandInv
<1>1. CASE cmd.pc = "prepare" /\ PreparedCommand
  BY <1>1 DEF PreparedCommand, ExecutionCommand
<1>2. ASSUME NEW k \in Slots, cmd.pc = RecordsAt[k], RecordCommand(k)
      PROVE  ExecutionCommand
  <2>1. cmd.slot[k].id \in SessionIds
    BY <1>0, <1>2, CommandTypes DEF Owned
  <2>2. QED
    BY <1>2, <2>1 DEF RecordCommand, ExecutionCommand
<1>3. CASE AgentRunning
  BY <1>3 DEF ExecutionCommand
<1>4. CASE cmd.pc = "accept" /\ AcceptCommand
  BY <1>0, <1>4 DEF AcceptCommand, ExecutionCommand, Locals
<1>5. CASE AgentCleanupCompleted
  BY <1>5 DEF ExecutionCommand
<1>6. ASSUME cmd.pc = "evaluate", NEW o \in DOMAIN Edge[Current], EvaluateCommand(o)
      PROVE  ExecutionCommand
  <2>1. Current \in ExecutableStates
    <3>1. LastExecution.state_id = Current /\ executions # <<>> /\ Compiled
      BY <1>6 DEF CoordInv, CommandInv, DocumentInv, Positions
    <3>2. Len(executions) \in DOMAIN executions
      BY <1>0, <3>1, LatestIn DEF CoordTypeOK, TypeOK
    <3>3. QED
      BY <3>1, <3>2 DEF Compiled, CompiledExecution, LastExecution, Latest
  <2>2. o \in Outcomes
    BY <2>1, CompiledAssumption
  <2>3. QED
    BY <1>6, <2>2 DEF EvaluateCommand, ExecutionCommand
<1>7. CASE ExecutionFailure
  <2>1. BoundLog \in WorkerLogs
    BY <1>0, CommandTypes, CoordinatorAssumption DEF BoundLog
  <2>2. QED
    BY <1>7, <2>1, OutcomeTypes DEF ExecutionFailure, ExecutionCommand, AgentFailureReasons
<1>8. CASE CleanedUp("recover_cleanup") /\ RecoveryCommand
  <2>1. cmd.log \in WorkerLogs
    BY <1>0, <1>8 DEF CleanedUp, Locals
  <2>2. QED
    BY <1>8, <2>1, OutcomeTypes DEF RecoveryCommand, ExecutionCommand, AgentFailureReasons
<1>9. QED
  BY <1>1, <1>2, <1>3, <1>4, <1>5, <1>6, <1>7, <1>8 DEF RewriteDispatch

LEMMA StartIsCommand == CoordInv /\ StartDispatch =>
  /\ Kind[Current] \in ExecutionTypes /\ Current \in StateIds
  /\ Role[Current] \in Roles /\ StartIteration \in IterationIndices \cup {None}
  /\ StartCommand
<1> SUFFICES ASSUME CoordInv, StartDispatch
             PROVE  /\ Kind[Current] \in ExecutionTypes /\ Current \in StateIds
                    /\ Role[Current] \in Roles
                    /\ StartIteration \in IterationIndices \cup {None}
                    /\ StartCommand
  OBVIOUS
<1>1. TypeOK /\ Current \in ExecutableStates /\ StartCommand
  BY DEF CoordInv, CoordTypeOK, StartDispatch
<1>2. /\ Kind[Current] \in ExecutionTypes /\ Role[Current] \in Roles
      /\ Current \in StateIds
  BY <1>1, CompiledAssumption, CoordinatorAssumption
     DEF ExecutableStates, TerminalStates
<1>3. Role[Current] = "stage" => StartIteration \in IterationIndices
  <2>1. SUFFICES ASSUME Role[Current] = "stage"
                 PROVE  Len(OpenGeneration.iterations) \in IterationIndices
    BY DEF StartIteration
  <2>2. HasOpenIteration
    BY <1>1, <2>1 DEF StartCommand, StartExecution, IterationForRole
  <2>3. /\ Len(generations) \in DOMAIN generations
        /\ OpenGeneration = generations[Len(generations)]
        /\ OpenGeneration.iterations # <<>>
    BY <1>1, <2>2, LastGeneration DEF HasOpenIteration, HasOpenGeneration
  <2>4. OpenGeneration.iterations \in Seq(Iteration)
    BY <1>1, <2>3, IterationsType
  <2>5. Len(OpenGeneration.iterations) \in DOMAIN OpenGeneration.iterations
    BY <2>3, <2>4, LatestIn
  <2>6. QED
    BY <2>3, <2>5 DEF IterationIndices
<1>4. QED
  BY <1>1, <1>2, <1>3 DEF StartIteration

\* The last execution, where there is one.
LEMMA LastCompiled ==
  ASSUME CoordInv, executions # <<>>
  PROVE  /\ Len(executions) \in DOMAIN executions
         /\ LastExecution = executions[Len(executions)]
         /\ LastExecution \in Execution /\ CompiledExecution(LastExecution)
<1>1. executions \in Seq(Execution) /\ Compiled
  BY DEF CoordInv, DocumentInv, CoordTypeOK, TypeOK
<1>2. QED
  BY <1>1, LatestIn DEF Compiled, LastExecution, Latest

\* The outcome a settled execution is committed with labels one of its edges.
LEMMA SettledOutcomeFits ==
  ASSUME CoordInv, CommitCommand
  PROVE  /\ LastExecution.state_id \in ExecutableStates
         /\ SettledOutcome \in DOMAIN Edge[LastExecution.state_id]
         /\ SettledOutcome \in Outcomes
         /\ Edge[LastExecution.state_id][SettledOutcome] \in StateIds
<1>1. /\ executions # <<>>
      /\ LastExecution.phase = IF LastExecution.type = "agent"
                               THEN "cleanup_completed" ELSE "evaluated"
  BY DEF CommitCommand, TransitionCommitted, Committable
<1>2. LastExecution \in Execution /\ CompiledExecution(LastExecution)
  BY <1>1, LastCompiled
<1>3. LastExecution.type \in {"agent", "decision"}
  BY <1>2 DEF Execution
<1>4. LastExecution.state_id \in ExecutableStates
  BY <1>2 DEF CompiledExecution
<1>5. SettledOutcome \in DOMAIN Edge[LastExecution.state_id]
  BY <1>1, <1>2, <1>3, <1>4, CompiledAssumption DEF CompiledExecution, SettledOutcome
<1>6. QED
  BY <1>4, <1>5, CompiledAssumption

LEMMA CommitIsCommand == CoordInv /\ CommitDispatch => ExecutionCommand
BY SettledOutcomeFits DEF CommitDispatch, CommitCommand, ExecutionCommand

\* At a stage's wait boundary the generation was opened before the transition
\* that its own handoff took, so the offer leads to states.
LEMMA OfferIsAllowed == CoordInv /\ StageWaitBoundary => WaitOffer \in ActionLists
<1> SUFFICES ASSUME CoordInv, StageWaitBoundary PROVE WaitOffer \in ActionLists
  OBVIOUS
<1>1. TypeOK /\ OpenedByExecution /\ Current \in StateIds
  BY DEF CoordInv, DocumentInv, CoordTypeOK, TypeOK, Current
<1>2. /\ Len(generations) \in DOMAIN generations
      /\ OpenGeneration = generations[Len(generations)]
  BY <1>1, LastGeneration DEF StageWaitBoundary, HasOpenIteration, HasOpenGeneration
<1>3. generations[Len(generations)] \in Generation
  BY <1>1, <1>2 DEF TypeOK
<1>4. OpenGeneration.opened \in Nat /\ OpenGeneration.opened < Len(executions)
  BY <1>1, <1>2, <1>3 DEF OpenedByExecution, Generation
<1>5. Len(transitions) = Len(executions)
  BY DEF StageWaitBoundary, AllBound
<1>6. transitions[OpenGeneration.opened + 1] \in Transition
  BY <1>1, <1>4, <1>5 DEF TypeOK
<1>7. StageEntry \in StateIds
  BY <1>6 DEF StageEntry, Transition
<1>8. QED
  BY <1>1, <1>7, OfferAssumption DEF WaitOffer

LEMMA WaitAtBoundary == CoordInv /\ WaitDispatch => StageWaitBoundary
BY DEF WaitDispatch, CoordInv, CommandInv, Positions

LEMMA WaitIsCommand == CoordInv /\ WaitDispatch => RunCommand
<1> SUFFICES ASSUME CoordInv, WaitDispatch PROVE RunCommand
  OBVIOUS
<1>1. PICK request \in Requests : RunWaiting(Current, request, WaitOffer)
  BY DEF WaitDispatch, WaitCommand
<1>2. WaitOffer \in ActionLists /\ Current \in StateIds
  BY OfferIsAllowed, WaitAtBoundary DEF CoordInv, CoordTypeOK, TypeOK, Current
<1>3. QED
  BY <1>1, <1>2 DEF RunCommand

LEMMA EndIsCommand == CoordInv /\ EndDispatch => RunCommand
<1> SUFFICES ASSUME CoordInv, EndDispatch PROVE RunCommand
  OBVIOUS
<1>1. CASE Current \in TerminalStates /\ TerminalCommand
  BY <1>1 DEF TerminalCommand, TerminalStates, RunCommand
<1>2. QED
  BY <1>1 DEF EndDispatch, RunCommand

LEMMA EffectiveBudgetType ==
  ASSUME TypeOK, NEW g \in DOMAIN generations
  PROVE  EffectiveBudget(g) \in Nat
<1>1. GrantTotal(g) \in Nat
  <2>1. grants \in Seq(Grant) /\ Len(grants) <= Len(grants)
    BY DEF TypeOK
  <2>2. QED
    BY <2>1, GrantTotalIs, GrantSumGrows
<1>2. generations[g] \in Generation
  BY DEF TypeOK
<1>3. QED
  BY <1>1, <1>2 DEF EffectiveBudget, Generation

LEMMA HandoffIsCommand == CoordInv /\ HandoffDispatch => StageCommand
<1> SUFFICES ASSUME CoordInv, HandoffDispatch PROVE StageCommand
  OBVIOUS
<1>0. TypeOK /\ Paired
  BY DEF CoordInv, CoordTypeOK, DocumentInv, RunInv
<1>a. cursor.transition_count \in 0..MaxTransitions
  BY <1>0, PipelineAssumption DEF Paired, ExecutionPairing, TypeOK
<1>1. ASSUME NEW t \in TaskIds, NEW digest \in TaskDigests,
             TaskRevisionAccepted(t, 1, digest, None, None)
      PROVE  StageCommand
  <2>1. 1 \in 1..MaxTaskRevisions
    BY <1>0, <1>1, BoundsAssumption DEF TaskRevisionAccepted, TypeOK
  <2>2. QED
    BY <1>1, <2>1 DEF StageCommand
<1>2. ASSUME NEW plan \in PlanDigests,
             PlanRevisionAccepted(Len(plan_revisions) + 1, plan, Len(executions))
      PROVE  StageCommand
  <2>1. Len(plan_revisions) + 1 \in 1..MaxPlanRevisions
    BY <1>0, <1>2, BoundsAssumption DEF PlanRevisionAccepted, TypeOK
  <2>2. Len(executions) = Len(transitions) + 1
    BY <1>2 DEF PlanRevisionAccepted, PlanOrigin
  <2>3. Len(executions) \in DOMAIN executions
    BY <1>0, <2>2 DEF TypeOK
  <2>4. QED
    BY <1>2, <2>1, <2>3 DEF StageCommand
<1>3. ASSUME NEW budget \in InitialBudgets,
             StageGenerationOpened(Latest(plan_revisions).sha256, budget,
                                   cursor.transition_count)
      PROVE  StageCommand
  <2>1. Latest(plan_revisions) \in PlanRevision
    BY <1>0, <1>3, LatestIn DEF StageGenerationOpened, BindsLastPlan, TypeOK
  <2>2. Latest(plan_revisions).sha256 \in PlanDigests
    BY <2>1 DEF PlanRevision
  <2>3. QED
    BY <1>3, <1>a, <2>2 DEF StageCommand
<1>4. ASSUME HasOpenGeneration,
             StageIterationOpened(Len(generations), Len(OpenGeneration.iterations) + 1,
                                  cursor.transition_count)
      PROVE  StageCommand
  <2>1. /\ Len(generations) \in DOMAIN generations
        /\ OpenGeneration = generations[Len(generations)]
    BY <1>0, <1>4, LastGeneration DEF HasOpenGeneration
  <2>2. Len(OpenGeneration.iterations) \in Nat
    BY <1>0, <2>1, IterationsType
  <2>3. /\ Len(OpenGeneration.iterations) + 1 <= EffectiveBudget(Len(generations))
        /\ EffectiveBudget(Len(generations)) <= MaxSafeInteger
    BY <1>4, <2>1 DEF StageIterationOpened, WithinBudget
  <2>4. EffectiveBudget(Len(generations)) \in Nat
    BY <1>0, <2>1, EffectiveBudgetType
  <2>5. Len(OpenGeneration.iterations) + 1 \in 1..MaxSafeInteger
    BY <2>2, <2>3, <2>4, PipelineAssumption
  <2>6. QED
    BY <1>4, <1>a, <2>1, <2>5 DEF StageCommand
<1>5. QED
  BY <1>1, <1>2, <1>3, <1>4 DEF HandoffDispatch

\* Every step of the coordination is a command of the reducer, or none.
LEMMA StepImplements == CoordInv /\ [CoordNext]_coordVars => [Next]_vars
<1> SUFFICES ASSUME CoordInv, [CoordNext]_coordVars PROVE Next \/ UNCHANGED vars
  OBVIOUS
<1>1. CASE RewriteDispatch
  BY <1>1, RewriteIsCommand DEF Next
<1>2. CASE StartDispatch
  BY <1>2, StartIsCommand DEF StartCommand, ExecutionCommand, Next
<1>3. CASE CommitDispatch
  BY <1>3, CommitIsCommand DEF Next
<1>4. CASE WaitDispatch
  BY <1>4, WaitIsCommand DEF Next
<1>5. CASE EndDispatch
  BY <1>5, EndIsCommand DEF Next
<1>6. CASE OutputsDispatch
  BY <1>6 DEF OutputsDispatch, RunCommand, Next
<1>7. CASE HandoffDispatch
  BY <1>7, HandoffIsCommand DEF Next
<1>8. QED
  BY <1>1, <1>2, <1>3, <1>4, <1>5, <1>6, <1>7, StepsByCommand DEF Dispatched
-----------------------------------------------------------------------------
(* The document's part is kept.                                            *)

\* What a cleanup record says of its sessions, position by position.
CleanupTold(x, l, u) ==
  x.session_cleanup # None =>
    \A k \in Slots :
      /\ x.session_cleanup[k] = "completed" => Recorded(x, k) \notin l
      /\ x.session_cleanup[k] = "failed" => Recorded(x, k) \in u

LEMMA CleanupRecordsAre ==
  CleanupRecordsTrue <=>
    \A e \in DOMAIN executions : CleanupTold(executions[e], live, undeletable)
BY DEF CleanupRecordsTrue, CleanupTold, Recorded, Slots

\* A cleaned up command that still tracks the execution knows its sessions: what
\* it calls completed is gone, what it calls failed was tried.
LEMMA CleanedUpKnows ==
  ASSUME CoordInv, Pending = {},
         cmd.pc = "recover_cleanup" \/ (cmd.unfinished /\ ~cmd.abandoned),
         NEW k \in Slots, Recorded(LastExecution, k) # None
  PROVE  /\ SlotOutcome(k) = "completed" => Recorded(LastExecution, k) \notin live
         /\ SlotOutcome(k) = "failed" => Recorded(LastExecution, k) \in undeletable
         /\ SlotOutcome(k) # "not_required"
<1>1. /\ cmd.slot[k].durable
      /\ cmd.slot[k].id = Recorded(LastExecution, k)
  BY DEF CoordInv, CommandInv, Tracks
<1>2. cmd.slot[k].done
  BY <1>1 DEF Pending
<1>3. QED
  BY <1>1, <1>2 DEF CoordInv, CommandInv, Owned, SlotOutcome

\* What a rewritten execution record may differ in, and what backs the change.
IdsKept(x) ==
  \A k \in Slots :
    \/ Recorded(x, k) = Recorded(LastExecution, k)
    \/ cmd.pc = RecordsAt[k] /\ Recorded(x, k) = cmd.slot[k].id
CleanupBacked(x) ==
  \/ x.session_cleanup = LastExecution.session_cleanup
  \/ CleanupTold(x, live, undeletable)
LogBacked(x) ==
  \/ x.worker_log = LastExecution.worker_log
  \/ x.worker_log = "captured" => Len(executions) \in artifacts
RewrittenTo(x) ==
  /\ executions # <<>> /\ ~IsSettled(LastExecution) /\ Settle(x)
  /\ x.state_id = LastExecution.state_id
  /\ CompiledExecution(x) /\ IdsKept(x) /\ CleanupBacked(x) /\ LogBacked(x)
  /\ \A k \in Slots : cmd.pc # RecordsAt[k] => Recorded(x, k) = Recorded(LastExecution, k)

LEMMA RewriteEffects ==
  ASSUME CoordInv, RewriteDispatch
  PROVE  \E x \in Execution : RewrittenTo(x)
<1> DEFINE L == LastExecution
<1>0. ASSUME executions # <<>> PROVE L \in Execution /\ CompiledExecution(L)
  BY <1>0, LastCompiled
<1>t. /\ CoordTypeOK /\ Owned /\ Locals /\ Tracks
  BY DEF CoordInv, CommandInv
<1>k. \A k \in Slots : k = "execution" \/ k = "tool"
  BY DEF Slots
<1> USE DEF RewrittenTo, IdsKept, CleanupBacked, LogBacked, CompiledExecution, Recorded,
            RecordsAt, IsSettled
<1>1. ASSUME cmd.pc = "prepare", PreparedCommand
      PROVE  \E x \in Execution : RewrittenTo(x)
  <2> DEFINE x == [L EXCEPT !.phase = "data_prepared", !.stage_task = None]
  <2>1. executions # <<>> /\ ~IsSettled(L) /\ L.type = "agent" /\ Settle(x)
    BY <1>1 DEF PreparedCommand, AgentDataPrepared, UnfinishedAgent
  <2>2. x \in Execution /\ CompiledExecution(x)
    BY ZenonT(30), <1>0, <2>1 DEF Execution, AgentPhases
  <2>3. RewrittenTo(x)
    BY <1>0, <1>1, <1>k, <2>1, <2>2 DEF Execution
  <2>4. QED
    BY <2>2, <2>3
<1>2. ASSUME NEW k \in Slots, cmd.pc = RecordsAt[k], RecordCommand(k)
      PROVE  \E x \in Execution : RewrittenTo(x)
  <2>0. cmd.slot[k].id \in SessionIds
    BY <1>t, <1>2, CommandTypes DEF Owned
  <2>1. CASE k = "execution"
    <3> DEFINE x == [L EXCEPT !.phase = "execution_session_created",
                              !.execution_session_id = cmd.slot[k].id]
    <3>1. executions # <<>> /\ ~IsSettled(L) /\ L.type = "agent" /\ Settle(x)
      BY <1>2, <2>1 DEF RecordCommand, AgentExecutionSessionCreated, UnfinishedAgent
    <3>2. x \in Execution /\ CompiledExecution(x)
      BY ZenonT(30), <1>0, <2>0, <3>1 DEF Execution, AgentPhases
    <3>3. RewrittenTo(x)
      BY <1>0, <1>2, <1>k, <2>1, <3>1, <3>2 DEF Execution
    <3>4. QED
      BY <3>2, <3>3
  <2>2. CASE k = "tool"
    <3> DEFINE x == [L EXCEPT !.phase = "sessions_created",
                              !.tool_session_id = cmd.slot[k].id]
    <3>1. executions # <<>> /\ ~IsSettled(L) /\ L.type = "agent" /\ Settle(x)
      BY <1>2, <2>2 DEF RecordCommand, AgentToolSessionCreated, UnfinishedAgent
    <3>2. x \in Execution /\ CompiledExecution(x)
      BY ZenonT(30), <1>0, <2>0, <3>1 DEF Execution, AgentPhases
    <3>3. RewrittenTo(x)
      BY <1>0, <1>2, <1>k, <2>2, <3>1, <3>2 DEF Execution
    <3>4. QED
      BY <3>2, <3>3
  <2>3. QED
    BY <1>k, <2>1, <2>2
<1>3. ASSUME cmd.pc = "mark_running", AgentRunning
      PROVE  \E x \in Execution : RewrittenTo(x)
  <2> DEFINE x == [L EXCEPT !.phase = "running"]
  <2>1. executions # <<>> /\ ~IsSettled(L) /\ L.type = "agent" /\ Settle(x)
    BY <1>3 DEF AgentRunning, UnfinishedAgent
  <2>2. x \in Execution /\ CompiledExecution(x)
    BY <1>0, <2>1 DEF Execution, AgentPhases
  <2>3. RewrittenTo(x)
    BY <1>0, <1>3, <1>k, <2>1, <2>2 DEF Execution
  <2>4. QED
    BY <2>2, <2>3
<1>4. ASSUME cmd.pc = "accept", AcceptCommand
      PROVE  \E x \in Execution : RewrittenTo(x)
  <2> DEFINE x == [L EXCEPT !.phase = "outputs_accepted", !.worker_log = cmd.log]
  <2>0. /\ cmd.log \in WorkerLogs
        /\ cmd.log = "captured" => Len(executions) \in artifacts
    BY <1>t, <1>4 DEF Locals
  <2>1. executions # <<>> /\ ~IsSettled(L) /\ L.type = "agent" /\ Settle(x)
    BY <1>4 DEF AcceptCommand, AgentOutputsAccepted, UnfinishedAgent
  <2>2. x \in Execution /\ CompiledExecution(x)
    BY ZenonT(30), <1>0, <2>0, <2>1 DEF Execution, AgentPhases
  <2>3. RewrittenTo(x)
    BY <1>0, <1>4, <1>k, <2>0, <2>1, <2>2 DEF Execution
  <2>4. QED
    BY <2>2, <2>3
<1>5. ASSUME cmd.pc = "evaluate", NEW o \in DOMAIN Edge[Current], EvaluateCommand(o)
      PROVE  \E x \in Execution : RewrittenTo(x)
  <2> DEFINE x == [L EXCEPT !.phase = "evaluated", !.result = o]
  <2>1. executions # <<>> /\ ~IsSettled(L) /\ L.type = "decision" /\ Settle(x)
    BY <1>5 DEF EvaluateCommand, DecisionEvaluated, UnfinishedDecision
  <2>2. L.state_id = Current
    BY <1>5 DEF CoordInv, CommandInv, Positions
  <2>3. o \in Outcomes
    BY <1>0, <2>1, <2>2, CompiledAssumption
  <2>4. x \in Execution /\ CompiledExecution(x)
    BY <1>0, <2>1, <2>2, <2>3 DEF Execution, DecisionPhases
  <2>5. RewrittenTo(x)
    BY <1>0, <1>5, <1>k, <2>1, <2>4 DEF Execution
  <2>6. QED
    BY <2>4, <2>5
\* The three ways an execution is settled with a cleanup.
<1> DEFINE Failed(log) ==
      [L EXCEPT !.phase = "failed", !.session_cleanup = CleanupOutcome, !.worker_log = log]
<1>6. ASSUME NEW pc \in {"finalize", "recover_cleanup"}, cmd.pc = pc, Pending = {},
             cmd.pc = "recover_cleanup" \/ (cmd.unfinished /\ ~cmd.abandoned),
             NEW log \in WorkerLogs, log = "captured" => Len(executions) \in artifacts,
             NEW reason, AgentFailed(reason, CleanupOutcome, log)
      PROVE  \E x \in Execution : RewrittenTo(x)
  <2> DEFINE x == Failed(log)
  <2>1. /\ executions # <<>> /\ ~IsSettled(L) /\ L.type = "agent" /\ Settle(x)
        /\ CleanupFits(L, CleanupOutcome)
    BY <1>6 DEF AgentFailed, UnfinishedAgent
  <2>2. x \in Execution /\ CompiledExecution(x)
    BY ZenonT(30), <1>0, <2>1, OutcomeTypes DEF Execution, AgentPhases
  <2>3. /\ x.session_cleanup = CleanupOutcome /\ x.worker_log = log
        /\ x.state_id = L.state_id
        /\ \A k \in Slots : Recorded(x, k) = Recorded(L, k)
    BY <1>0, <1>k, <2>1 DEF Execution
  <2>4. \A k \in Slots : Recorded(L, k) # None \/ CleanupOutcome[k] = "not_required"
    BY <1>k, <2>1 DEF CleanupFits
  <2>5. \A k \in Slots : CleanupOutcome[k] = SlotOutcome(k)
    BY <1>k DEF CleanupOutcome
  <2>6. CleanupTold(x, live, undeletable)
    <3> HIDE DEF x
    <3>1. QED
      BY <1>6, <2>3, <2>4, <2>5, CleanedUpKnows DEF CleanupTold
  <2>7. QED
    <3> HIDE DEF x
    <3>1. QED
      BY <1>6, <2>1, <2>2, <2>3, <2>6
<1>7. ASSUME NEW pc \in {"cleanup", "recover_cleanup"}, cmd.pc = pc, Pending = {},
             ~CleanupFailedDurably, AgentCleanupCompleted
      PROVE  \E x \in Execution : RewrittenTo(x)
  <2> DEFINE x == [L EXCEPT !.phase = "cleanup_completed",
                            !.session_cleanup = [execution |-> "completed",
                                                 tool |-> "completed"]]
  <2>1. /\ executions # <<>> /\ ~IsSettled(L) /\ L.type = "agent" /\ Settle(x)
        /\ None \notin {L.execution_session_id, L.tool_session_id}
    BY <1>7 DEF AgentCleanupCompleted, UnfinishedAgent
  <2>2. x \in Execution /\ CompiledExecution(x)
    BY <1>0, <2>1 DEF Execution, AgentPhases, CleanupPair, CleanupValues
  <2>3. /\ \A k \in Slots : Recorded(x, k) = Recorded(L, k) /\ Recorded(L, k) # None
        /\ \A k \in Slots : x.session_cleanup[k] = "completed"
        /\ x.worker_log = L.worker_log /\ x.state_id = L.state_id
    BY <1>0, <1>k, <2>1 DEF Execution
  <2>4. \A k \in Slots : SlotOutcome(k) # "failed"
    BY <1>7 DEF CleanupFailedDurably
  <2>5. cmd.pc = "recover_cleanup" \/ (cmd.unfinished /\ ~cmd.abandoned)
    BY <1>t, <1>7 DEF Locals, AgentPcs
  <2>6. \A k \in Slots : Recorded(L, k) \notin live
    BY <1>7, <2>3, <2>4, <2>5, CleanedUpKnows DEF SlotOutcome
  <2>7. CleanupTold(x, live, undeletable)
    <3> HIDE DEF x
    <3>1. QED
      BY <2>3, <2>6 DEF CleanupTold
  <2>8. QED
    <3> HIDE DEF x
    <3>1. QED
      BY <1>7, <2>1, <2>2, <2>3, <2>7
<1>8. ASSUME cmd.pc = "finalize", DecisionFailed
      PROVE  \E x \in Execution : RewrittenTo(x)
  <2> DEFINE x == [L EXCEPT !.phase = "failed"]
  <2>1. executions # <<>> /\ ~IsSettled(L) /\ L.type = "decision" /\ Settle(x)
    BY <1>8 DEF DecisionFailed, UnfinishedDecision
  <2>2. x \in Execution /\ CompiledExecution(x)
    BY <1>0, <2>1 DEF Execution, DecisionPhases
  <2>3. RewrittenTo(x)
    BY <1>0, <1>8, <1>k, <2>1, <2>2 DEF Execution
  <2>4. QED
    BY <2>2, <2>3
<1>9. ASSUME CleanedUp("finalize"), cmd.unfinished, ~cmd.abandoned, ExecutionFailure
      PROVE  \E x \in Execution : RewrittenTo(x)
  <2>1. /\ BoundLog \in WorkerLogs
        /\ BoundLog = "captured" => Len(executions) \in artifacts
    BY <1>t, <1>9, CommandTypes, CoordinatorAssumption DEF BoundLog, Locals
  <2>2. cmd.pc = "finalize" /\ Pending = {}
    BY <1>9 DEF CleanedUp
  <2>3. QED
    BY <1>6, <1>8, <1>9, <2>1, <2>2 DEF ExecutionFailure
<1>10. ASSUME CleanedUp("recover_cleanup"), RecoveryCommand
       PROVE  \E x \in Execution : RewrittenTo(x)
  <2>1. /\ cmd.log \in WorkerLogs
        /\ cmd.log = "captured" => Len(executions) \in artifacts
    BY <1>t, <1>10 DEF Locals, CleanedUp
  <2>2. cmd.pc = "recover_cleanup" /\ Pending = {}
    BY <1>10 DEF CleanedUp
  <2>3. QED
    BY <1>6, <1>7, <1>10, <2>1, <2>2 DEF RecoveryCommand, RecoverySettles
<1>11. QED
  BY <1>1, <1>2, <1>3, <1>4, <1>5, <1>7, <1>9, <1>10 DEF RewriteDispatch, CleanedUp
\* The executions stay, or one is started at the cursor, or the last is rewritten.
LEMMA ExecutionsStep ==
  ASSUME CoordInv, [CoordNext]_coordVars
  PROVE  \/ UNCHANGED executions
         \/ StartDispatch /\ UNCHANGED <<helper, disk>>
         \/ (\E x \in Execution : RewrittenTo(x)) /\ UNCHANGED <<helper, disk>>
<1>1. UNCHANGED vars => UNCHANGED executions
  BY DEF vars, graph
<1>2. CommitDispatch => UNCHANGED executions
  BY DEF CommitDispatch, CommitCommand, TransitionCommitted
<1>3. WaitDispatch => UNCHANGED executions
  BY DEF WaitDispatch, WaitCommand, RunWaiting, graph
<1>4. EndDispatch \/ OutputsDispatch => UNCHANGED executions
  BY DEF EndDispatch, OutputsDispatch, TerminalCommand, TerminalReached, RunSucceeded,
         RunFailed, RunCleanupFailed, RunOutputsPublished, graph
<1>5. HandoffDispatch => UNCHANGED executions
  BY DEF HandoffDispatch, TaskRevisionAccepted, PlanRevisionAccepted,
         StageGenerationOpened, StageIterationOpened, graph
<1>6. QED
  BY <1>1, <1>2, <1>3, <1>4, <1>5, StepsByCommand, RewriteEffects DEF Dispatched

\* A started execution is the new last one, blank and compiled.
Blank(x) ==
  /\ CompiledExecution(x) /\ x.session_cleanup = None /\ x.worker_log = None
  /\ \A k \in Slots : Recorded(x, k) = None

LEMMA StartEffects ==
  ASSUME CoordInv, StartDispatch
  PROVE  LET n == Len(executions) + 1 IN
         /\ Len(executions') = n /\ DOMAIN executions' = 1..n
         /\ n \notin DOMAIN executions
         /\ \A e \in DOMAIN executions : executions'[e] = executions[e]
         /\ Blank(executions'[n]) /\ LastExecution' = executions'[n]
         /\ executions'[n].state_id = Current /\ UNCHANGED cursor
<1> DEFINE type == Kind[Current]
           new == [type |-> type, state_id |-> Current, execution_role |-> Role[Current],
        iteration_index |-> StartIteration,
        phase |-> IF type = "agent" THEN "started" ELSE "evaluating",
        execution_session_id |-> None, tool_session_id |-> None,
        worker_log |-> None, stage_task |-> None, session_cleanup |-> None,
        result |-> None]
<1>1. executions' = Append(executions, new) /\ UNCHANGED cursor
      /\ Current \in ExecutableStates
  BY DEF StartDispatch, StartCommand, StartExecution
<1>2. executions \in Seq(Execution)
  BY DEF CoordInv, CoordTypeOK, TypeOK
<1>3. Blank(new) /\ new.state_id = Current
  BY <1>1 DEF Blank, CompiledExecution, AgentPhases, DecisionPhases, Recorded, Slots
<1> HIDE DEF new
<1>4. QED
  BY <1>1, <1>2, <1>3 DEF LastExecution, Latest

\* A rewritten execution is the last one, position by position.
LEMMA RewrittenEffects ==
  ASSUME CoordInv, NEW x \in Execution, RewrittenTo(x)
  PROVE  LET n == Len(executions) IN
         /\ Len(executions') = n /\ DOMAIN executions' = DOMAIN executions
         /\ n \in DOMAIN executions /\ executions[n] = LastExecution
         /\ executions'[n] = x /\ LastExecution' = x
         /\ \A e \in DOMAIN executions : e # n => executions'[e] = executions[e]
BY SettlePositions, LastCompiled DEF RewrittenTo, CoordInv, CoordTypeOK

\* Every execution is compiled: the engine starts what the pipeline says.
LEMMA CompiledNext == CoordInv /\ [CoordNext]_coordVars => Compiled'
<1> SUFFICES ASSUME CoordInv, [CoordNext]_coordVars, NEW e \in DOMAIN executions'
             PROVE  CompiledExecution(executions'[e])
  BY DEF Compiled, CompiledExecution, ExecutableStates, TerminalStates
<1>0. \A i \in DOMAIN executions : CompiledExecution(executions[i])
  BY DEF CoordInv, DocumentInv, Compiled
<1>1. CASE UNCHANGED executions
  BY <1>0, <1>1
<1>2. CASE StartDispatch
  <2>1. /\ e \in DOMAIN executions \/ e = Len(executions) + 1
        /\ \A i \in DOMAIN executions : executions'[i] = executions[i]
        /\ CompiledExecution(executions'[Len(executions) + 1])
    <3>1. /\ DOMAIN executions' = 1..Len(executions) + 1
          /\ \A i \in DOMAIN executions : executions'[i] = executions[i]
          /\ Blank(executions'[Len(executions) + 1])
      BY <1>2, StartEffects
    <3>2. executions \in Seq(Execution)
      BY DEF CoordInv, CoordTypeOK, TypeOK
    <3>3. DOMAIN executions = 1..Len(executions) /\ Len(executions) \in Nat
      BY <3>2
    <3>4. e \in DOMAIN executions \/ e = Len(executions) + 1
      BY <3>1, <3>3
    <3>5. CompiledExecution(executions'[Len(executions) + 1])
      BY <3>1, Zenon DEF Blank
    <3>6. QED
      BY <3>1, <3>4, <3>5
  <2>2. QED
    BY <1>0, <2>1, Zenon
<1>3. ASSUME NEW x \in Execution, RewrittenTo(x)
      PROVE  CompiledExecution(executions'[e])
  BY <1>0, <1>3, RewrittenEffects DEF RewrittenTo
<1>4. QED
  BY <1>1, <1>2, <1>3, ExecutionsStep

\* The steps that touch the helper or the disk.
LEMMA HelperSteps ==
  ASSUME [CoordNext]_coordVars
  PROVE  \/ UNCHANGED <<helper, disk>>
         \/ \E k \in Slots : CreateSession(k) \/ CreationMisowned(k)
         \/ RecordWorkerLog \/ DeleteSession \/ PublishOutputs \/ Crash
<1> DEFINE Quiet == UNCHANGED <<helper, disk>>
           Goal == \/ Quiet
                   \/ \E k \in Slots : CreateSession(k) \/ CreationMisowned(k)
                   \/ RecordWorkerLog \/ DeleteSession \/ PublishOutputs \/ Crash
<1> USE DEF Dispatch, DispatchAware, DispatchOr, Become, Fail, Return
<1>1. (\/ EngineRefuses \/ PreparationFails \/ Start \/ Prepare \/ MarkRunning
       \/ WorkerEnds \/ WorkerThrows \/ AcceptOutputs) => Quiet
  BY DEF EngineRefuses, PreparationFails, Start, Prepare, MarkRunning, WorkerEnds,
         WorkerThrows, AcceptOutputs
<1>2. SettleAgent \/ Evaluate => Quiet
  BY DEF SettleAgent, Evaluate
<1>3. \A k \in Slots : CreationFails(k) \/ RecordSession(k) => Quiet
  BY DEF CreationFails, RecordSession
<1>4. Execute => Goal
  BY <1>1, <1>2, <1>3 DEF Execute
<1>5. (\/ Interrupted \/ SuspendPlanReady \/ VerifyPlanReady \/ CommitTransition
       \/ AttemptWait \/ EnterWait \/ SuspendWaiting \/ ContinueEngine) => Quiet
  BY DEF Interrupted, SuspendPlanReady, VerifyPlanReady, CommitTransition, AttemptWait,
         EnterWait, SuspendWaiting, ContinueEngine
<1>6. ReachTerminal \/ PublicationFails \/ RecordOutputs \/ Conclude => Quiet
  BY DEF ReachTerminal, PublicationFails, RecordOutputs, Conclude
<1>7. Advance => Goal
  BY <1>5, <1>6 DEF Advance
<1>8. FinalizeExecution \/ FinalizeRun \/ FinalizeAgain => Quiet
  BY DEF FinalizeExecution, FinalizeRun, FinalizeAgain
<1>9. (\/ RecoveryInterrupted \/ RecoverFinalization \/ RecoverTransition
       \/ RecoverTerminal \/ RecoverAgent \/ RecoverAgentSettle) => Quiet
  BY DEF RecoveryInterrupted, RecoverFinalization, RecoverTransition,
         RecoverTerminal, RecoverAgent, RecoverAgentSettle
<1>10. Settlement => Quiet
  BY <1>8, <1>9 DEF Settlement
<1>11. Handoff => Quiet
  BY DEF Handoff, AcceptTask, AcceptPlan, RefuseEdge, OpenStageGeneration,
         OpenStageIteration, CommitHandoff
<1>12. SignalArrives \/ Resume \/ ResumePlan => Quiet
  BY DEF SignalArrives, Resume, ResumePlan
<1>13. UNCHANGED coordVars => Quiet
  BY DEF coordVars
<1>14. QED
  BY <1>4, <1>7, <1>10, <1>11, <1>12, <1>13 DEF CoordNext, Step

\* The helper hands out each id once; what was tried or published stays so.
LEMMA HelperGrows ==
  ASSUME CoordInv, [CoordNext]_coordVars
  PROVE  /\ issued \in Nat /\ issued' \in Nat /\ issued <= issued'
         /\ live' \subseteq live \cup (issued + 1 .. issued')
         /\ undeletable \subseteq undeletable'
         /\ artifacts \subseteq artifacts' /\ (tree => tree')
<1>0. issued \in Nat
  BY DEF CoordInv, CoordTypeOK
<1>1. CASE UNCHANGED <<helper, disk>>
  BY <1>0, <1>1 DEF helper, disk
<1>2. ASSUME NEW k \in Slots, CreateSession(k)
      PROVE  /\ issued' = issued + 1 /\ live' = live \cup {issued + 1}
             /\ UNCHANGED <<undeletable, artifacts, tree>>
  BY <1>2 DEF CreateSession, NextSession, disk
<1>3. ASSUME NEW k \in Slots, CreationMisowned(k)
      PROVE  /\ issued' = issued + 1 /\ live' \subseteq live \cup {issued + 1}
             /\ undeletable \subseteq undeletable'
             /\ UNCHANGED <<artifacts, tree>>
  BY <1>3 DEF CreationMisowned, NextSession, disk
<1>4. CASE RecordWorkerLog
  BY <1>0, <1>4 DEF RecordWorkerLog, helper
<1>5. CASE DeleteSession
  BY <1>0, <1>5 DEF DeleteSession, disk
<1>6. CASE PublishOutputs
  BY <1>0, <1>6 DEF PublishOutputs, helper
<1>7. CASE Crash
  BY <1>0, <1>7 DEF Crash, disk
<1>8. QED
  BY <1>0, <1>1, <1>2, <1>3, <1>4, <1>5, <1>6, <1>7, HelperSteps

LEMMA IdsIssuedNext == CoordInv /\ [CoordNext]_coordVars => IdsIssued'
<1> SUFFICES ASSUME CoordInv, [CoordNext]_coordVars PROVE IdsIssued'
  OBVIOUS
<1>0. /\ \A e \in DOMAIN executions : \A k \in Slots :
           Recorded(executions[e], k) \in (1..issued) \cup {None}
      /\ live \subseteq 1..issued
      /\ \A k \in Slots : cmd.slot[k].id \in (1..issued) \cup {None}
  BY DEF CoordInv, DocumentInv, CommandInv, IdsIssued, Owned
<1>1. /\ issued \in Nat /\ issued' \in Nat /\ issued <= issued'
      /\ live' \subseteq live \cup (issued + 1 .. issued')
  BY HelperGrows
<1>2. live' \subseteq 1..issued'
  BY <1>0, <1>1
<1>3. ASSUME NEW e \in DOMAIN executions', NEW k \in Slots
      PROVE  Recorded(executions'[e], k) \in (1..issued) \cup {None}
  <2>1. CASE UNCHANGED executions
    BY <1>0, <2>1
  <2>2. CASE StartDispatch
    BY <1>0, <2>2, StartEffects DEF Blank
  <2>3. ASSUME NEW x \in Execution, RewrittenTo(x)
        PROVE  Recorded(executions'[e], k) \in (1..issued) \cup {None}
    <3>1. Recorded(x, k) = Recorded(LastExecution, k)
          \/ Recorded(x, k) = cmd.slot[k].id
      BY <2>3 DEF RewrittenTo, IdsKept
    <3>2. QED
      BY <1>0, <2>3, <3>1, RewrittenEffects
  <2>4. QED
    BY <2>1, <2>2, <2>3, ExecutionsStep
<1>4. QED
  BY <1>1, <1>2, <1>3 DEF IdsIssued, Recorded

\* A cleanup record that was true stays so: a deleted id is never handed out again.
LEMMA CleanupToldStays ==
  ASSUME CoordInv, [CoordNext]_coordVars, NEW x,
         \A k \in Slots : Recorded(x, k) \in (1..issued) \cup {None},
         CleanupTold(x, live, undeletable)
  PROVE  CleanupTold(x, live', undeletable')
<1>1. /\ issued \in Nat /\ issued' \in Nat
      /\ live' \subseteq live \cup (issued + 1 .. issued')
      /\ undeletable \subseteq undeletable'
  BY HelperGrows
<1>2. ASSUME NEW k \in Slots, Recorded(x, k) \notin live
      PROVE  Recorded(x, k) \notin live'
  <2>1. CASE Recorded(x, k) = None
    BY <1>1, <1>2, <2>1, NoneAssumption
  <2>2. CASE Recorded(x, k) \in 1..issued
    BY <1>1, <1>2, <2>2
  <2>3. QED
    BY <2>1, <2>2
<1>3. QED
  BY <1>1, <1>2 DEF CleanupTold

LEMMA CleanupRecordsNext == CoordInv /\ [CoordNext]_coordVars => CleanupRecordsTrue'
<1> SUFFICES ASSUME CoordInv, [CoordNext]_coordVars, NEW e \in DOMAIN executions'
             PROVE  CleanupTold(executions'[e], live', undeletable')
  BY DEF CleanupRecordsTrue, CleanupTold, Recorded, Slots
<1>0. /\ \A i \in DOMAIN executions : CleanupTold(executions[i], live, undeletable)
      /\ \A i \in DOMAIN executions : \A k \in Slots :
           Recorded(executions[i], k) \in (1..issued) \cup {None}
      /\ \A k \in Slots : cmd.slot[k].id \in (1..issued) \cup {None}
  BY CleanupRecordsAre DEF CoordInv, DocumentInv, IdsIssued, CommandInv, Owned
<1>1. CASE UNCHANGED executions
  BY <1>0, <1>1, CleanupToldStays
<1>2. CASE StartDispatch
  <2>1. CASE e \in DOMAIN executions
    BY <1>0, <1>2, <2>1, StartEffects, CleanupToldStays
  <2>2. CASE e \notin DOMAIN executions
    BY <1>2, <2>2, StartEffects DEF Blank, CleanupTold
  <2>3. QED
    BY <2>1, <2>2
<1>3. ASSUME NEW x \in Execution, RewrittenTo(x), UNCHANGED <<helper, disk>>
      PROVE  CleanupTold(executions'[e], live', undeletable')
  <2>1. UNCHANGED <<live, undeletable>>
    BY <1>3 DEF helper
  <2>2. CASE e # Len(executions)
    BY <1>0, <1>3, <2>1, <2>2, RewrittenEffects
  <2>3. CASE e = Len(executions)
    <3>1. executions'[e] = x
      BY <1>3, <2>3, RewrittenEffects
    <3>2. CASE CleanupTold(x, live, undeletable)
      BY <2>1, <3>1, <3>2
    <3>3. CASE x.session_cleanup = LastExecution.session_cleanup
      <4>1. LastExecution.session_cleanup = None
        BY <1>3, RewrittenEffects DEF CoordInv, DocumentInv, RunInv, EndingInv,
           CleanupAtSettlement, RewrittenTo, IsSettled
      <4>2. QED
        BY <3>1, <3>3, <4>1 DEF CleanupTold
    <3>4. QED
      BY <1>3, <3>2, <3>3 DEF RewrittenTo, CleanupBacked
  <2>4. QED
    BY <2>2, <2>3
<1>4. QED
  BY <1>1, <1>2, <1>3, ExecutionsStep
\* What the other ledgers see of a step.
LEMMA LedgerSteps ==
  ASSUME CoordInv, [CoordNext]_coordVars
  PROVE  /\ UNCHANGED grants
         /\ WaitDispatch \/ (UNCHANGED waits /\ (status = "active" \/ UNCHANGED status))
         /\ OutputsDispatch \/ UNCHANGED run_outputs
         /\ HandoffDispatch \/ UNCHANGED generations
<1> DEFINE Goal ==
         /\ UNCHANGED grants
         /\ WaitDispatch \/ (UNCHANGED waits /\ (status = "active" \/ UNCHANGED status))
         /\ OutputsDispatch \/ UNCHANGED run_outputs
         /\ HandoffDispatch \/ UNCHANGED generations
<1>1. ASSUME UNCHANGED vars PROVE Goal
  BY <1>1 DEF vars, stages, outcome
<1>2. ASSUME ExecutionCommand PROVE Goal
  BY <1>2, ExecutionFrame DEF stages, outcome
<1>3. ASSUME WaitDispatch PROVE Goal
  BY <1>3 DEF WaitDispatch, WaitCommand, RunWaiting, stages, outcome
<1>4. ASSUME OutputsDispatch PROVE Goal
  BY <1>4 DEF OutputsDispatch, RunOutputsPublished, stages
<1>5. ASSUME EndDispatch PROVE Goal
  <2> USE DEF Admitted, StatusGate, WaitingAllowed, stages, outcome
  <2>1. TerminalCommand => Goal
    BY DEF TerminalCommand, TerminalReached
  <2>2. RunSucceeded => Goal
    BY DEF RunSucceeded
  <2>3. \A reason : RunFailed(reason) => Goal
    BY DEF RunFailed
  <2>4. RunCleanupFailed => Goal
    BY DEF RunCleanupFailed
  <2>5. QED
    BY <1>5, <2>1, <2>2, <2>3, <2>4 DEF EndDispatch
<1>6. ASSUME HandoffDispatch PROVE Goal
  <2>1. UNCHANGED <<status, outcome>>
    BY <1>6, HandoffIsCommand, StageFrame
  <2>2. UNCHANGED <<waits, grants>>
    BY <1>6 DEF HandoffDispatch, TaskRevisionAccepted, PlanRevisionAccepted,
         StageGenerationOpened, StageIterationOpened
  <2>3. QED
    BY <1>6, <2>1, <2>2 DEF outcome
<1>7. QED
  BY <1>1, <1>2, <1>3, <1>4, <1>5, <1>6, StepsByCommand, RewriteIsCommand,
     StartIsCommand, CommitIsCommand
     DEF Dispatched, ExecutionCommand, StartCommand

LEMMA EndsAtWaitNext == CoordInv /\ [CoordNext]_coordVars => EndsAtWait'
<1> SUFFICES ASSUME CoordInv, [CoordNext]_coordVars PROVE EndsAtWait'
  OBVIOUS
<1>1. EndsAtWait
  BY DEF CoordInv, DocumentInv
<1>2. WaitDispatch => status' = "waiting"
  BY DEF WaitDispatch, WaitCommand, RunWaiting
<1>3. QED
  BY <1>1, <1>2, LedgerSteps DEF EndsAtWait

LEMMA RecordsBackedNext == CoordInv /\ [CoordNext]_coordVars => RecordsBacked'
<1> SUFFICES ASSUME CoordInv, [CoordNext]_coordVars PROVE RecordsBacked'
  OBVIOUS
<1>0. /\ run_outputs => tree
      /\ \A e \in DOMAIN executions : executions[e].worker_log = "captured" => e \in artifacts
      /\ OutputsDispatch => tree
  BY DEF CoordInv, DocumentInv, RecordsBacked, CommandInv, Positions, OutputsDispatch
<1>1. artifacts \subseteq artifacts' /\ (tree => tree')
  BY HelperGrows
<1>2. run_outputs' => tree'
  BY <1>0, <1>1, LedgerSteps
<1>3. ASSUME NEW e \in DOMAIN executions', executions'[e].worker_log = "captured"
      PROVE  e \in artifacts
  <2>1. CASE UNCHANGED executions
    BY <1>0, <1>3, <2>1
  <2>2. CASE StartDispatch
    <3>1. e \in DOMAIN executions => executions'[e] = executions[e]
      BY <2>2, StartEffects
    <3>2. e \notin DOMAIN executions => executions'[e].worker_log = None
      BY <2>2, StartEffects DEF Blank
    <3>3. None # "captured"
      BY NoneAssumption, CoordinatorAssumption
    <3>4. QED
      BY <1>0, <1>3, <3>1, <3>2, <3>3
  <2>3. ASSUME NEW x \in Execution, RewrittenTo(x)
        PROVE  e \in artifacts
    BY <1>0, <1>3, <2>3, RewrittenEffects DEF RewrittenTo, LogBacked
  <2>4. QED
    BY <2>1, <2>2, <2>3, ExecutionsStep
<1>4. QED
  BY <1>1, <1>2, <1>3 DEF RecordsBacked

\* A generation is an earlier one as far as its opening goes, or the handoff opens it
\* now, before the transition of an execution that hands off.
LEMMA GenerationsStep ==
  ASSUME CoordInv, [CoordNext]_coordVars, NEW g \in DOMAIN generations'
  PROVE  \/ g \in DOMAIN generations /\ generations'[g].opened = generations[g].opened
         \/ /\ cmd.pc = "handoff" /\ PlanReady
            /\ generations'[g].opened = cursor.transition_count
            /\ UNCHANGED <<executions, transitions, cursor>>
<1> DEFINE Kept == g \in DOMAIN generations /\ generations'[g].opened = generations[g].opened
<1>0. TypeOK /\ ExecutionPairing
  BY DEF CoordInv, CoordTypeOK, DocumentInv, RunInv, Paired
<1>1. CASE UNCHANGED generations
  BY <1>1
<1>2. ASSUME cmd.pc = "handoff", PlanReady, NEW budget \in InitialBudgets,
             StageGenerationOpened(Latest(plan_revisions).sha256, budget,
                                   cursor.transition_count)
      PROVE  Kept \/ /\ generations'[g].opened = cursor.transition_count
                     /\ UNCHANGED <<executions, transitions, cursor>>
  <2>1. /\ Latest(plan_revisions).sha256 \in PlanDigests
        /\ cursor.transition_count \in 0..MaxTransitions
    <3>1. Latest(plan_revisions) \in PlanRevision
      BY <1>0, <1>2, LatestIn DEF StageGenerationOpened, BindsLastPlan, TypeOK
    <3>2. QED
      BY <1>0, <3>1, PipelineAssumption DEF PlanRevision, ExecutionPairing, TypeOK
  <2>2. g \in DOMAIN generations \/ generations'[g].opened = cursor.transition_count
    BY <1>0, <1>2, <2>1, GenerationOpenedShape DEF TypeOK
  <2>3. g \in DOMAIN generations => generations'[g] = generations[g]
    BY <1>0, <1>2, <2>1, GenerationOpenedShape
  <2>4. UNCHANGED <<executions, transitions, cursor>>
    BY <1>2 DEF StageGenerationOpened, graph
  <2>5. QED
    BY <2>2, <2>3, <2>4
<1>3. ASSUME HasOpenGeneration,
             StageIterationOpened(Len(generations), Len(OpenGeneration.iterations) + 1,
                                  cursor.transition_count)
      PROVE  Kept
  <2>1. generations \in Seq(Generation) /\ Len(generations) \in DOMAIN generations
    BY <1>0, <1>3, LastGeneration DEF HasOpenGeneration, TypeOK
  <2>2. PICK its : generations' = [generations EXCEPT ![Len(generations)].iterations = its]
    BY <1>3 DEF StageIterationOpened
  <2>3. generations[Len(generations)] \in Generation
    BY <2>1
  <2>4. QED
    BY <2>1, <2>2, <2>3 DEF Generation
<1>4. CASE HandoffDispatch
  BY <1>1, <1>2, <1>3, <1>4
     DEF HandoffDispatch, TaskRevisionAccepted, PlanRevisionAccepted
<1>5. QED
  BY <1>1, <1>4, LedgerSteps

LEMMA OpenedNext == CoordInv /\ [CoordNext]_coordVars => OpenedByExecution'
<1> SUFFICES ASSUME CoordInv, [CoordNext]_coordVars, NEW g \in DOMAIN generations'
             PROVE  generations'[g].opened < Len(executions')
  BY DEF OpenedByExecution
<1>0. /\ TypeOK /\ ExecutionPairing
      /\ \A h \in DOMAIN generations : generations[h].opened < Len(executions)
  BY DEF CoordInv, CoordTypeOK, DocumentInv, RunInv, Paired, OpenedByExecution
<1>1. Len(executions) \in Nat
  BY <1>0 DEF TypeOK
<1>2. Len(executions') \in Nat /\ Len(executions) <= Len(executions')
  BY <1>1, ExecutionsStep, StartEffects, RewrittenEffects
<1>3. ASSUME g \in DOMAIN generations, generations'[g].opened = generations[g].opened
      PROVE  generations'[g].opened < Len(executions')
  <2>1. generations[g] \in Generation
    BY <1>0, <1>3 DEF TypeOK
  <2>2. generations[g].opened \in Nat
    BY <2>1 DEF Generation
  <2>3. QED
    BY <1>0, <1>1, <1>2, <1>3, <2>2
<1>4. CASE /\ cmd.pc = "handoff" /\ PlanReady
           /\ generations'[g].opened = cursor.transition_count
           /\ UNCHANGED <<executions, transitions, cursor>>
  <2>1. ~AllBound
    BY <1>4 DEF CoordInv, CommandInv, Positions
  <2>2. cursor.transition_count < Len(executions)
    BY <1>0, <1>1, <2>1 DEF AllBound, ExecutionPairing, TypeOK
  <2>3. QED
    BY <1>4, <2>2
<1>5. QED
  BY <1>3, <1>4, GenerationsStep

LEMMA DocumentNext == CoordInv /\ [CoordNext]_coordVars => DocumentInv'
<1> SUFFICES ASSUME CoordInv, [CoordNext]_coordVars PROVE DocumentInv'
  OBVIOUS
<1>1. RunInv'
  BY StepImplements, RunInvNext DEF CoordInv, DocumentInv
<1>2. QED
  BY <1>1, CompiledNext, OpenedNext, EndsAtWaitNext, IdsIssuedNext,
     CleanupRecordsNext, RecordsBackedNext DEF DocumentInv
-----------------------------------------------------------------------------
(* The command's part is kept.  What the values of cmd look like.          *)

Slot == [id : SessionIds \cup {None}, done : BOOLEAN, failed : BOOLEAN,
         durable : BOOLEAN]
Causes == {"other", "signal", "persist", CleanupReason, None}
Command ==
  [pc : Pcs, report : Reports \cup {None}, signal : BOOLEAN,
   cutoff : {"open", "quiet", "signal"}, abandoned : BOOLEAN,
   unfinished : BOOLEAN, log : WorkerLogs \cup {None}, cause : Causes,
   slot : [Slots -> Slot]]

\* Everything about a command but where it stands.
SameLocals(c, d) ==
  /\ c.report = d.report /\ c.signal = d.signal /\ c.cutoff = d.cutoff
  /\ c.abandoned = d.abandoned /\ c.unfinished = d.unfinished
  /\ c.log = d.log /\ c.cause = d.cause /\ c.slot = d.slot

LEMMA CommandIs == CoordInv => cmd \in Command /\ cmd.pc \in Pcs
BY DEF CoordInv, CoordTypeOK, Command, Slot, Causes

LEMMA AtIs ==
  ASSUME cmd \in Command, NEW pc \in Pcs
  PROVE  At(pc) \in Command /\ At(pc).pc = pc /\ SameLocals(At(pc), cmd)
BY DEF At, Command, SameLocals

LEMMA EmptySlotIs == EmptySlot \in Slot
BY DEF EmptySlot, Slot

LEMMA ReturnedIs ==
  ASSUME NEW report \in Reports \cup {None}
  PROVE  LET c == Returned(report) IN
         /\ c \in Command /\ c.pc = "idle" /\ c.report = report
         /\ ~c.signal /\ c.cutoff = "open" /\ ~c.abandoned /\ ~c.unfinished
         /\ c.log = None /\ c.cause = None
         /\ \A k \in Slots : c.slot[k] = EmptySlot
<1>1. [k \in Slots |-> EmptySlot] \in [Slots -> Slot]
  BY EmptySlotIs
<1>2. "idle" \in Pcs
  BY DEF Pcs
<1>3. QED
  BY <1>1, <1>2 DEF Returned, Command, Causes

LEMMA FailingIs ==
  ASSUME cmd \in Command, NEW cause \in Causes
  PROVE  LET c == Failing(cause)
             d == Abandoning(c) IN
         /\ c \in Command /\ c.pc = "finalize" /\ c.cause = cause
         /\ c.report = cmd.report /\ c.abandoned = cmd.abandoned
         /\ c.unfinished = cmd.unfinished /\ c.log = cmd.log /\ c.slot = cmd.slot
         /\ c.signal = cmd.signal /\ c.cutoff = cmd.cutoff
         /\ d = [c EXCEPT !.abandoned = TRUE]
         /\ d \in Command /\ d.pc = "finalize" /\ d.cause = cause /\ d.abandoned
         /\ d.report = cmd.report /\ d.slot = cmd.slot
<1>1. "finalize" \in Pcs /\ "finalize" # "idle"
  BY DEF Pcs
<1>2. QED
  BY <1>1 DEF Failing, Abandoning, Command

\* What has to hold of the command after a step.
CommandKept ==
  cmd' \in Command /\ Positions' /\ Locals' /\ Owned' /\ Tracks' /\ ReportHonest'

\* The slots stay with the command, at a place that presupposes no more of them.
Carries ==
  /\ cmd'.slot = cmd.slot
  /\ UNCHANGED <<issued, live, undeletable, orphaned>>
  /\ cmd'.pc \notin {"prepare", "record_execution", "create_tool", "record_tool"}
  /\ cmd'.pc = "create_execution" => cmd.pc = "prepare"
  /\ cmd'.pc \notin Holding => Pending = {}

LEMMA CarriesKeeps ==
  ASSUME CoordInv, Carries
  PROVE  Owned'
<1>1. Owned
  BY DEF CoordInv, CommandInv
<1>2. Pending' = Pending
  BY DEF Carries, Pending
<1>3. \A k \in Slots : cmd'.pc # RecordsAt[k]
  BY DEF Carries, RecordsAt, Slots
<1>4. QED
  BY <1>1, <1>2, <1>3 DEF Owned, Carries, RecordsAt

\* The last execution keeps its sessions while the command keeps its slots.
SessionsKept ==
  /\ executions' # <<>>
  /\ \A k \in Slots : Recorded(LastExecution', k) = Recorded(LastExecution, k)

LEMMA SessionsKeep ==
  ASSUME CoordInv, cmd'.slot = cmd.slot, SessionsKept,
         cmd.pc = "recover_cleanup" \/ (cmd.unfinished /\ ~cmd.abandoned)
  PROVE  Tracks'
BY DEF CoordInv, CommandInv, Tracks, SessionsKept, Recorded

LEMMA UnchangedSessions ==
  ASSUME CoordInv, cmd'.slot = cmd.slot, UNCHANGED vars,
         cmd'.pc = "recover_cleanup" \/ (cmd'.unfinished /\ ~cmd'.abandoned)
           => cmd.pc = "recover_cleanup" \/ (cmd.unfinished /\ ~cmd.abandoned)
  PROVE  Tracks'
<1>1. UNCHANGED executions
  BY DEF vars, graph
<1>2. Tracks
  BY DEF CoordInv, CommandInv
<1>3. QED
  BY <1>1, <1>2 DEF Tracks, Recorded, LastExecution

LEMMA RewriteKeepsSessions ==
  ASSUME CoordInv, RewriteDispatch, \A k \in Slots : cmd.pc # RecordsAt[k]
  PROVE  SessionsKept /\ Len(executions') = Len(executions)
<1>1. PICK x \in Execution : RewrittenTo(x)
  BY RewriteEffects
<1>2. LastExecution' = x /\ Len(executions') = Len(executions)
      /\ Len(executions) \in DOMAIN executions /\ DOMAIN executions' = DOMAIN executions
  BY <1>1, RewrittenEffects
<1>3. executions' # <<>>
  BY <1>2
<1>4. QED
  BY <1>1, <1>2, <1>3 DEF RewrittenTo, SessionsKept

\* The failure policy takes over, after a step that left the document alone or
\* one whose write is abandoned.
LEMMA FailsKeeps ==
  ASSUME CoordInv, ~Idle, cmd.pc \notin Finalizers, cmd.pc # "recover_cleanup",
         UNCHANGED <<issued, live, undeletable, orphaned>>,
         cmd' \in Command, cmd'.pc = "finalize", cmd'.slot = cmd.slot,
         cmd'.report = cmd.report, cmd'.cause \in {"other", "signal", "persist"},
         \/ cmd'.abandoned
         \/ /\ UNCHANGED vars /\ cmd'.unfinished = cmd.unfinished
            /\ cmd'.log = "captured" => Len(executions) \in artifacts'
  PROVE  CommandKept
<1>1. /\ cmd.report = None /\ ~cmd.abandoned
  BY DEF CoordInv, CommandInv, Locals, Finalizers
<1>2. Positions' /\ ReportHonest'
  BY DEF Positions, ReportHonest, Idle
<1>3. UNCHANGED vars => UNCHANGED executions
  BY DEF vars, graph
<1>4. Locals'
  BY <1>1, <1>3 DEF Locals, Idle, AgentPcs, Finalizers
<1>5. Owned'
  BY CarriesKeeps DEF Carries, Holding
<1>6. Tracks'
  <2>1. CASE cmd'.abandoned
    BY <2>1 DEF Tracks
  <2>2. CASE ~cmd'.abandoned
    BY <1>1, <2>2, UnchangedSessions
  <2>3. QED
    BY <2>1, <2>2
<1>7. QED
  BY <1>2, <1>4, <1>5, <1>6 DEF CommandKept

\* The failure policy takes over with a cause, or after a failed write.
LEMMA FailKeeps ==
  ASSUME CoordInv, ~Idle, cmd.pc \notin Finalizers, cmd.pc # "recover_cleanup",
         NEW cause \in {"other", "signal"}, Fail(cause)
  PROVE  CommandKept
<1>1. cmd \in Command /\ cause \in Causes
  BY CommandIs DEF Causes
<1>2. /\ cmd' = Failing(cause) /\ UNCHANGED vars
      /\ UNCHANGED <<issued, live, undeletable, orphaned, artifacts>>
  BY DEF Fail, Become, helper, disk
<1>3. cmd.log = "captured" => Len(executions) \in artifacts
  BY DEF CoordInv, CommandInv, Locals, Finalizers
<1>4. QED
  BY <1>1, <1>2, <1>3, FailingIs, FailsKeeps

LEMMA WriteFailureKeeps ==
  ASSUME CoordInv, ~Idle, cmd.pc \notin Finalizers, cmd.pc # "recover_cleanup",
         UNCHANGED <<helper, disk>>,
         \/ cmd' = Abandoning(Failing("persist"))
         \/ UNCHANGED vars /\ cmd' = Failing("persist")
  PROVE  CommandKept
<1>1. cmd \in Command /\ "persist" \in Causes
  BY CommandIs DEF Causes
<1>2. UNCHANGED <<issued, live, undeletable, orphaned, artifacts>>
  BY DEF helper, disk
<1>3. cmd.log = "captured" => Len(executions) \in artifacts
  BY DEF CoordInv, CommandInv, Locals, Finalizers
<1>4. QED
  BY <1>1, <1>2, <1>3, FailingIs, FailsKeeps

\* A command returns once it holds no session any more.
LEMMA ReturnsKeeps ==
  ASSUME CoordInv, Pending = {}, UNCHANGED <<issued, live, undeletable, orphaned>>,
         NEW report \in Reports \cup {None}, cmd' = Returned(report), ReportHonest'
  PROVE  CommandKept
<1>1. /\ cmd' \in Command /\ cmd'.pc = "idle"
      /\ cmd'.cutoff = "open" /\ ~cmd'.abandoned /\ ~cmd'.unfinished
      /\ cmd'.log = None
      /\ \A k \in Slots : cmd'.slot[k] = EmptySlot
  BY ReturnedIs
<1>2. Positions'
  BY <1>1 DEF Positions
<1>3. Locals'
  BY <1>1, NoneAssumption, CoordinatorAssumption DEF Locals, Idle, AgentPcs, Finalizers
<1>4. Owned'
  <2>1. Pending' = {}
    BY <1>1 DEF Pending, EmptySlot
  <2>2. live \subseteq undeletable \cup orphaned
    BY DEF CoordInv, CommandInv, Owned
  <2>3. QED
    BY <1>1, <2>1, <2>2 DEF Owned, EmptySlot, RecordsAt, Slots
<1>5. Tracks'
  BY <1>1 DEF Tracks
<1>6. QED
  BY <1>1, <1>2, <1>3, <1>4, <1>5 DEF CommandKept

LEMMA PersistReturns ==
  ASSUME CoordInv, Pending = {}, UNCHANGED <<helper, disk>>,
         \/ cmd' = Returned("persist")
         \/ cmd' = Abandoning(Returned("persist"))
  PROVE  CommandKept
<1>1. "persist" \in Reports
  BY DEF Reports
<1>2. cmd' = Returned("persist") /\ cmd'.report = "persist"
  BY <1>1, ReturnedIs DEF Abandoning
<1>3. ReportHonest'
  BY <1>2 DEF ReportHonest, TerminalReason, CleanupReason
<1>4. QED
  BY <1>1, <1>2, <1>3, ReturnsKeeps DEF helper

\* A command that holds no session starts over with empty slots.
LEMMA EmptyOwned ==
  ASSUME CoordInv, Pending = {}, UNCHANGED <<issued, live, undeletable, orphaned>>,
         \A k \in Slots : cmd'.slot[k] = EmptySlot,
         \A k \in Slots : cmd'.pc # RecordsAt[k]
  PROVE  Owned'
<1>1. Pending' = {}
  BY DEF Pending, EmptySlot
<1>2. live \subseteq undeletable \cup orphaned
  BY DEF CoordInv, CommandInv, Owned
<1>3. QED
  BY <1>1, <1>2 DEF Owned, EmptySlot, RecordsAt, Slots

\* The next place of a command that keeps its locals.
Places ==
  Pcs \ (Finalizers \cup {"idle", "prepare", "record_execution", "create_tool",
                          "record_tool", "accept", "recover_cleanup"})

LEMMA MoveKeeps ==
  ASSUME CoordInv, ~Idle, cmd.pc \notin Finalizers, NEW pc \in Places,
         \/ cmd' = At(pc)
         \/ cmd' = [At(pc) EXCEPT !.unfinished = FALSE] /\ pc \notin AgentPcs,
         pc \in AgentPcs => cmd.pc \in AgentPcs,
         pc = "create_execution" => cmd.pc = "prepare",
         pc \notin Holding => Pending = {},
         UNCHANGED helper, UNCHANGED artifacts,
         \/ UNCHANGED executions
         \/ SessionsKept /\ Len(executions') = Len(executions),
         Positions'
  PROVE  CommandKept
<1>0. /\ cmd \in Command /\ Locals /\ pc \in Pcs
      /\ UNCHANGED <<issued, live, undeletable, orphaned>>
  BY CommandIs DEF CoordInv, CommandInv, Places, helper
<1>1. /\ cmd' \in Command /\ cmd'.pc = pc
      /\ cmd'.report = cmd.report /\ cmd'.cutoff = cmd.cutoff
      /\ cmd'.abandoned = cmd.abandoned /\ cmd'.log = cmd.log
      /\ cmd'.slot = cmd.slot
      /\ cmd'.unfinished = cmd.unfinished \/ (~cmd'.unfinished /\ pc \notin AgentPcs)
  BY ZenonT(30), <1>0 DEF At, Command
<1>2. ~cmd.abandoned /\ cmd.report = None /\ cmd.cutoff = "open"
  BY <1>0 DEF Locals, Finalizers
<1>3. Locals'
  <2>1. pc \notin {"finalize", "finalize_run", "idle", "accept", "recover_cleanup"}
    BY DEF Places, Finalizers
  <2>2. cmd.log = "captured" => Len(executions') \in artifacts'
    BY <1>0, <1>2 DEF Locals
  <2>3. pc \in AgentPcs => cmd.unfinished
    BY <1>0 DEF Locals
  <2>4. QED
    BY <1>1, <1>2, <2>1, <2>2, <2>3 DEF Locals, Idle
<1>4. Owned'
  BY <1>0, <1>1, CarriesKeeps DEF Carries, Places
<1>5. Tracks'
  <2>1. SUFFICES ASSUME cmd'.unfinished PROVE Tracks'
    BY <1>1 DEF Tracks, Places
  <2>2. cmd.unfinished
    BY <1>1, <2>1
  <2>3. CASE UNCHANGED executions
    BY <1>1, <1>2, <2>2, <2>3 DEF CoordInv, CommandInv, Tracks, Recorded, LastExecution
  <2>4. CASE SessionsKept
    BY <1>1, <1>2, <2>2, <2>4, SessionsKeep
  <2>5. QED
    BY <2>3, <2>4
<1>6. ReportHonest'
  BY <1>1 DEF ReportHonest, Idle, Places
<1>7. QED
  BY <1>1, <1>3, <1>4, <1>5, <1>6 DEF CommandKept

\* A command starts afresh where the document lets it resume.
LEMMA FreshKeeps ==
  ASSUME CoordInv, Idle, NEW pc \in {"recover", "committed", "handoff"},
         cmd' = [Returned(None) EXCEPT !.pc = pc],
         UNCHANGED <<helper, disk>>, Positions'
  PROVE  CommandKept
<1>0. Pending = {} /\ UNCHANGED <<issued, live, undeletable, orphaned>>
  BY DEF CoordInv, CommandInv, Owned, Idle, Holding, helper
<1>1. /\ Returned(None) \in Command /\ pc \in Pcs
  BY ReturnedIs DEF Pcs
<1>2. /\ cmd' \in Command /\ cmd'.pc = pc /\ cmd'.report = None
      /\ cmd'.cutoff = "open" /\ ~cmd'.abandoned /\ ~cmd'.unfinished
      /\ cmd'.log = None /\ \A k \in Slots : cmd'.slot[k] = EmptySlot
  BY <1>1, ReturnedIs DEF Command
<1>3. Locals'
  BY <1>2, NoneAssumption, CoordinatorAssumption DEF Locals, Idle, AgentPcs, Finalizers
<1>4. Owned'
  BY <1>0, <1>2, EmptyOwned DEF RecordsAt, Slots
<1>5. Tracks' /\ ReportHonest'
  BY <1>2 DEF Tracks, ReportHonest, Idle
<1>6. QED
  BY <1>2, <1>3, <1>4, <1>5 DEF CommandKept

\* The places that presuppose something of the document.
Placed ==
  {"settled", "evaluate", "recover", "handoff", "record_outputs"} \cup Suspending

\* A run whose last execution is not settled is in the middle of its graph.
LEMMA UnsettledRuns ==
  ASSUME CoordInv, status = "active", executions # <<>>, ~IsSettled(LastExecution)
  PROVE  phase = "running" /\ Undecided /\ ~AllBound
<1>1. /\ Paired /\ WaitTriple /\ EndingInv /\ TypeOK
      /\ Len(executions) \in DOMAIN executions
      /\ LastExecution = executions[Len(executions)]
  BY LastCompiled DEF CoordInv, DocumentInv, RunInv
<1>2. terminal = None /\ ~run_outputs
  BY <1>1 DEF EndingInv, FinalStatusCoherent, AllSettled
<1>3. failure = None
  BY <1>1 DEF EndingInv, FinalStatusCoherent
<1>4. phase = "running"
  BY <1>1, <1>2 DEF WaitTriple, EndingInv, OutputsBeforeEnd, TypeOK, Phases
<1>5. ~AllBound
  <2>1. SUFFICES ASSUME Len(transitions) = Len(executions) PROVE FALSE
    BY DEF AllBound
  <2>2. Len(executions) \in DOMAIN transitions
    BY <1>1, <2>1 DEF TypeOK
  <2>3. QED
    BY <1>1, <2>2 DEF Paired, ExecutionPairing, IsSettled
<1>6. QED
  BY <1>2, <1>3, <1>4, <1>5 DEF Undecided

LEMMA RewriteSettles ==
  ASSUME CoordInv, RewriteDispatch,
         LastExecution'.phase = IF LastExecution'.type = "agent"
                                THEN "cleanup_completed" ELSE "evaluated"
  PROVE  SettledUnbound'
<1>1. PICK x \in Execution : RewrittenTo(x)
  BY RewriteEffects
<1>2. /\ status = "active" /\ UNCHANGED <<status, phase, outcome>>
      /\ UNCHANGED transitions /\ executions # <<>> /\ ~IsSettled(LastExecution)
  BY <1>1, RewriteIsCommand, ExecutionFrame DEF RewrittenTo, Settle
<1>3. phase = "running" /\ Undecided /\ ~AllBound
  BY <1>2, UnsettledRuns
<1>4. Len(executions') = Len(executions) /\ executions' # <<>>
  BY <1>1, RewrittenEffects, RewriteKeepsSessions DEF RewrittenTo
<1>5. QED
  BY <1>2, <1>3, <1>4 DEF SettledUnbound, Undecided, AllBound, outcome

\* A rewriting dispatch that committed, and moves the command on.
LEMMA RewriteMoves ==
  ASSUME CoordInv, ~Idle, cmd.pc \notin Finalizers, NEW pc \in Places, RewriteDispatch,
         \A k \in Slots : cmd.pc # RecordsAt[k],
         \/ cmd' = At(pc)
         \/ cmd' = [At(pc) EXCEPT !.unfinished = FALSE] /\ pc \notin AgentPcs,
         pc \in AgentPcs => cmd.pc \in AgentPcs,
         pc = "create_execution" => cmd.pc = "prepare",
         pc \notin Holding => Pending = {},
         UNCHANGED <<helper, disk>>,
         pc \in Placed => pc = "settled" /\ SettledUnbound'
  PROVE  CommandKept
<1>1. SessionsKept /\ Len(executions') = Len(executions)
  BY RewriteKeepsSessions
<1>2. cmd \in Command /\ pc \in Pcs
  BY CommandIs DEF Places
<1>3. cmd'.pc = pc
  BY <1>2 DEF At, Command
<1>4. Positions'
  BY <1>3 DEF Positions, Placed, Suspending
<1>5. QED
  BY <1>1, <1>4, MoveKeeps DEF disk

LEMMA PrepareKeeps == CoordInv /\ Prepare => CommandKept
<1> SUFFICES ASSUME CoordInv, Prepare PROVE CommandKept
  OBVIOUS
<1>0. cmd.pc = "prepare" /\ ~Idle /\ cmd.pc \notin Finalizers
  BY DEF Prepare, Idle, Finalizers
<1>1. CASE PreparedCommand /\ cmd' = At("create_execution") /\ UNCHANGED <<helper, disk>>
  <2>1. RewriteDispatch
    BY <1>0, <1>1 DEF RewriteDispatch
  <2>2. QED
    BY <1>0, <1>1, <2>1, RewriteMoves
       DEF Places, Pcs, Finalizers, Placed, Suspending, AgentPcs, RecordsAt, Slots, CoordInv,
           CommandInv,
           Owned, Holding
<1>2. QED
  BY <1>0, <1>1, WriteFailureKeeps DEF Prepare, Dispatch, DispatchOr

LEMMA MarkRunningKeeps == CoordInv /\ MarkRunning => CommandKept
<1> SUFFICES ASSUME CoordInv, MarkRunning PROVE CommandKept
  OBVIOUS
<1>0. cmd.pc = "mark_running" /\ ~Idle /\ cmd.pc \notin Finalizers
  BY DEF MarkRunning, Idle, Finalizers
<1>1. CASE AgentRunning /\ cmd' = At("work") /\ UNCHANGED <<helper, disk>>
  <2>1. RewriteDispatch
    BY <1>0, <1>1 DEF RewriteDispatch
  <2>2. QED
    BY <1>0, <1>1, <2>1, RewriteMoves
       DEF Places, Pcs, Finalizers, Placed, Suspending, AgentPcs, RecordsAt, Slots, Holding
<1>2. QED
  BY <1>0, <1>1, WriteFailureKeeps DEF MarkRunning, Dispatch, DispatchOr

LEMMA AcceptOutputsKeeps == CoordInv /\ AcceptOutputs => CommandKept
<1> SUFFICES ASSUME CoordInv, AcceptOutputs PROVE CommandKept
  OBVIOUS
<1>0. cmd.pc = "accept" /\ ~Idle /\ cmd.pc \notin Finalizers
  BY DEF AcceptOutputs, Idle, Finalizers
<1>1. CASE AcceptCommand /\ cmd' = At("cleanup") /\ UNCHANGED <<helper, disk>>
  <2>1. RewriteDispatch
    BY <1>0, <1>1 DEF RewriteDispatch
  <2>2. QED
    BY <1>0, <1>1, <2>1, RewriteMoves
       DEF Places, Pcs, Finalizers, Placed, Suspending, AgentPcs, RecordsAt, Slots, Holding
<1>2. CASE Fail("other")
  BY <1>0, <1>2, FailKeeps
<1>3. QED
  BY <1>0, <1>1, <1>2, WriteFailureKeeps DEF AcceptOutputs, Dispatch, DispatchOr

LEMMA CleanupSettles ==
  ASSUME CoordInv, RewriteDispatch, AgentCleanupCompleted
  PROVE  SettledUnbound'
<1> DEFINE x == [LastExecution EXCEPT
               !.phase = "cleanup_completed",
               !.session_cleanup = [execution |-> "completed", tool |-> "completed"]]
<1>1. executions # <<>> /\ Settle(x) /\ LastExecution.type = "agent"
  BY DEF AgentCleanupCompleted, UnfinishedAgent
<1>2. LastExecution \in Execution
  BY <1>1, LastCompiled
<1>3. x \in Execution /\ x.phase = "cleanup_completed" /\ x.type = "agent"
  BY <1>1, <1>2 DEF Execution, AgentPhases, CleanupPair, CleanupValues
<1> HIDE DEF x
<1>4. LastExecution' = x
  BY <1>1, <1>3, SettlePositions DEF CoordInv, CoordTypeOK
<1>5. QED
  BY <1>3, <1>4, RewriteSettles

LEMMA SettleAgentKeeps == CoordInv /\ SettleAgent => CommandKept
<1> SUFFICES ASSUME CoordInv, SettleAgent PROVE CommandKept
  OBVIOUS
<1>0. cmd.pc = "cleanup" /\ ~Idle /\ cmd.pc \notin Finalizers /\ Pending = {}
  BY DEF SettleAgent, CleanedUp, Idle, Finalizers
<1>1. ASSUME AgentCleanupCompleted, ~CleanupFailedDurably, UNCHANGED <<helper, disk>>,
             cmd' = [At("settled") EXCEPT !.unfinished = FALSE]
      PROVE  CommandKept
  <2>1. RewriteDispatch
    BY <1>0, <1>1 DEF RewriteDispatch, CleanedUp
  <2>2. SettledUnbound'
    BY <1>1, <2>1, CleanupSettles
  <2>3. QED
    BY <1>0, <1>1, <2>1, <2>2, RewriteMoves
       DEF Places, Pcs, Finalizers, AgentPcs, RecordsAt, Slots
<1>2. CASE Fail("other")
  BY <1>0, <1>2, FailKeeps
<1>3. QED
  BY <1>0, <1>1, <1>2, WriteFailureKeeps DEF SettleAgent, Dispatch, DispatchOr

LEMMA EvaluateKeeps == CoordInv /\ Evaluate => CommandKept
<1> SUFFICES ASSUME CoordInv, Evaluate PROVE CommandKept
  OBVIOUS
<1>0. cmd.pc = "evaluate" /\ ~Idle /\ cmd.pc \notin Finalizers /\ Pending = {}
  BY DEF Evaluate, Idle, Finalizers, CoordInv, CommandInv, Owned, Holding
<1>1. ASSUME NEW o \in DOMAIN Edge[Current], EvaluateCommand(o),
             UNCHANGED <<helper, disk>>,
             cmd' = [At("settled") EXCEPT !.unfinished = FALSE]
      PROVE  CommandKept
  <2>1. RewriteDispatch
    BY <1>0, <1>1 DEF RewriteDispatch
  <2>2. LastExecution'.phase = "evaluated" /\ LastExecution'.type = "decision"
    <3> DEFINE x == [LastExecution EXCEPT !.phase = "evaluated", !.result = o]
    <3>1. executions # <<>> /\ Settle(x) /\ LastExecution.type = "decision"
      BY <1>1 DEF EvaluateCommand, DecisionEvaluated, UnfinishedDecision
    <3>2. /\ LastExecution \in Execution /\ LastExecution.state_id = Current
          /\ CompiledExecution(LastExecution)
      BY <1>0, <3>1, LastCompiled DEF CoordInv, CommandInv, Positions
    <3>3. o \in Outcomes
      BY <3>2, CompiledAssumption DEF CompiledExecution
    <3>4. x \in Execution /\ x.phase = "evaluated" /\ x.type = "decision"
      BY <3>1, <3>2, <3>3 DEF Execution, DecisionPhases
    <3> HIDE DEF x
    <3>5. QED
      BY <3>1, <3>4, SettlePositions DEF CoordInv, CoordTypeOK
  <2>3. SettledUnbound'
    BY <2>1, <2>2, RewriteSettles
  <2>4. QED
    BY <1>0, <1>1, <2>1, <2>3, RewriteMoves
       DEF Places, Pcs, Finalizers, AgentPcs, RecordsAt, Slots
<1>2. CASE Fail("other")
  BY <1>0, <1>2, FailKeeps
<1>3. QED
  BY <1>0, <1>1, <1>2, WriteFailureKeeps DEF Evaluate, Dispatch, DispatchOr

LEMMA StartKeeps == CoordInv /\ Start => CommandKept
<1> SUFFICES ASSUME CoordInv, Start PROVE CommandKept
  OBVIOUS
<1>0. /\ cmd.pc = "engine" /\ ~Idle /\ cmd.pc \notin Finalizers /\ Pending = {}
      /\ cmd \in Command /\ cmd.report = None /\ cmd.cutoff = "open" /\ ~cmd.abandoned
  BY CommandIs DEF Start, Idle, Finalizers, CoordInv, CommandInv, Owned, Holding, Locals
<1>1. ASSUME StartCommand, UNCHANGED <<helper, disk>>, NEW pc \in {"prepare", "evaluate"},
             cmd' = Tracked(pc)
      PROVE  CommandKept
  <2>1. StartDispatch
    BY <1>0, <1>1 DEF Start, StartDispatch
  <2>2. /\ executions' # <<>> /\ LastExecution'.state_id = Current'
        /\ \A k \in Slots : Recorded(LastExecution', k) = None
    BY <1>0, <2>1, StartEffects DEF CoordInv, CoordTypeOK, TypeOK, Blank, Current
  <2>3. [k \in Slots |-> EmptySlot] \in [Slots -> Slot] /\ pc \in Pcs
    BY EmptySlotIs DEF Pcs
  <2>4. /\ cmd' \in Command /\ cmd'.pc = pc /\ cmd'.report = None
        /\ cmd'.cutoff = "open" /\ ~cmd'.abandoned /\ cmd'.unfinished
        /\ cmd'.log = None
        /\ \A k \in Slots : cmd'.slot[k] = EmptySlot
    BY <1>0, <1>1, <2>3 DEF Tracked, At, Command
  <2>5. Positions' /\ ReportHonest'
    BY <2>2, <2>4 DEF Positions, ReportHonest, Idle
  <2>6. Locals'
    BY <2>4, NoneAssumption, CoordinatorAssumption DEF Locals, Idle, AgentPcs, Finalizers
  <2>7. Owned'
    BY <1>0, <1>1, <2>4, EmptyOwned DEF RecordsAt, Slots, helper
  <2>8. Tracks'
    BY <2>2, <2>4 DEF Tracks, EmptySlot, Recorded
  <2>9. QED
    BY <2>4, <2>5, <2>6, <2>7, <2>8 DEF CommandKept
<1>2. QED
  BY <1>0, <1>1, WriteFailureKeeps DEF Start, Dispatch, DispatchOr

\* A session is captured in its slot before anything is recorded of it.
LEMMA CreateSessionKeeps ==
  ASSUME CoordInv, NEW k \in Slots, CreateSession(k)
  PROVE  CommandKept
<1> DEFINE n == issued + 1
           pc == RecordsAt[k]
<1>0. /\ cmd.pc = CreatesAt[k] /\ n \in SessionIds /\ issued' = n
      /\ live' = live \cup {n} /\ UNCHANGED vars
      /\ UNCHANGED <<undeletable, orphaned, artifacts, tree>>
      /\ cmd' = [At(pc) EXCEPT !.slot[k].id = n]
  BY DEF CreateSession, NextSession, disk
<1>1. /\ cmd \in Command /\ cmd.pc \in {"create_execution", "create_tool"}
      /\ pc \in {"record_execution", "record_tool"} /\ pc \in Pcs
      /\ k \in {"execution", "tool"} /\ issued \in Nat
  BY <1>0, CommandIs DEF CreatesAt, RecordsAt, Slots, Pcs, CoordInv, CoordTypeOK
<1>2. /\ Locals /\ Owned /\ Tracks
  BY DEF CoordInv, CommandInv
<1>3. /\ cmd.report = None /\ cmd.cutoff = "open" /\ ~cmd.abandoned /\ cmd.unfinished
      /\ cmd.slot[k] = EmptySlot
  BY <1>0, <1>1, <1>2 DEF Locals, Owned, Idle, AgentPcs, Finalizers, CreatesAt
<1>4. /\ cmd' \in Command /\ cmd'.pc = pc /\ cmd'.report = None
      /\ cmd'.cutoff = "open" /\ ~cmd'.abandoned /\ cmd'.unfinished
      /\ cmd'.log = cmd.log
      /\ cmd'.slot = [cmd.slot EXCEPT ![k].id = n]
  <2>1. At(pc) \in Command /\ At(pc).pc = pc /\ SameLocals(At(pc), cmd)
    BY <1>1, AtIs
  <2>2. cmd.slot \in [Slots -> Slot] /\ cmd.slot[k] \in Slot
    BY <1>1 DEF Command
  <2>3. [cmd.slot[k] EXCEPT !.id = n] \in Slot
    BY <1>0, <2>2 DEF Slot
  <2>4. [cmd.slot EXCEPT ![k].id = n] \in [Slots -> Slot]
    BY <2>2, <2>3
  <2>5. cmd' = [At(pc) EXCEPT !.slot = [cmd.slot EXCEPT ![k].id = n]]
    BY <1>0, <2>1 DEF SameLocals
  <2>6. QED
    BY <1>3, <2>1, <2>4, <2>5 DEF Command, SameLocals
<1>5. /\ cmd'.slot[k].id = n /\ ~cmd'.slot[k].done /\ ~cmd'.slot[k].failed
      /\ ~cmd'.slot[k].durable
      /\ \A j \in Slots \ {k} : cmd'.slot[j] = cmd.slot[j]
  <2>1. cmd.slot \in [Slots -> Slot] /\ cmd.slot[k] \in Slot
    BY <1>1 DEF Command
  <2>2. QED
    BY <1>3, <1>4, <2>1 DEF Slot, EmptySlot
<1>6. Positions' /\ ReportHonest'
  BY <1>1, <1>4 DEF Positions, ReportHonest, Idle
<1>7. UNCHANGED executions
  BY <1>0 DEF vars, graph
<1>8. Locals'
  BY <1>0, <1>1, <1>2, <1>3, <1>4, <1>7 DEF Locals, Idle, AgentPcs, Finalizers
<1>9. Owned'
  <2>1. n # None /\ n \notin (1..issued) \cup {None} /\ n \in 1..issued'
    BY <1>0, <1>1, NoneAssumption
  <2>2. Pending' = Pending \cup {k}
    BY <1>3, <1>5, <2>1 DEF Pending, EmptySlot
  <2>3. {cmd'.slot[j].id : j \in Pending'} = {cmd.slot[j].id : j \in Pending} \cup {n}
    BY <1>3, <1>5, <2>2 DEF Pending, EmptySlot
  <2>4. live' \subseteq undeletable' \cup orphaned' \cup {cmd'.slot[j].id : j \in Pending'}
    BY <1>0, <1>2, <2>3 DEF Owned
  <2>5. cmd'.pc \in Holding
    BY <1>1, <1>4 DEF Holding
  <2>6. cmd'.pc = "record_execution" => cmd'.slot["tool"] = EmptySlot
    <3>1. SUFFICES ASSUME cmd'.pc = "record_execution" PROVE cmd'.slot["tool"] = EmptySlot
      OBVIOUS
    <3>2. k = "execution" /\ cmd.pc = "create_execution"
      BY <1>0, <1>1, <1>4, <3>1 DEF RecordsAt, CreatesAt
    <3>3. QED
      BY <1>2, <1>5, <3>2 DEF Owned, Slots
  <2>7. ASSUME NEW j \in Slots
        PROVE  /\ cmd'.pc = RecordsAt[j] => cmd'.slot[j].id # None
               /\ cmd'.slot[j].id \in (1..issued') \cup {None}
               /\ cmd'.slot[j].done /\ ~cmd'.slot[j].failed => cmd'.slot[j].id \notin live'
               /\ cmd'.slot[j].failed => cmd'.slot[j].id \in undeletable'
    <3>1. CASE j = k
      BY <1>5, <2>1, <3>1
    <3>2. CASE j # k
      <4>1. cmd'.pc # RecordsAt[j]
        BY <1>1, <1>4, <3>2 DEF RecordsAt, Slots
      <4>2. cmd'.slot[j] = cmd.slot[j] /\ cmd.slot[j].id \in (1..issued) \cup {None}
        BY <1>2, <1>5, <3>2 DEF Owned
      <4>3. cmd'.slot[j].id \in (1..issued') \cup {None} /\ cmd'.slot[j].id # n
        <5>1. 1..issued \subseteq 1..issued'
          BY <1>0, <1>1
        <5>2. QED
          BY <2>1, <4>2, <5>1
      <4>4. QED
        BY <1>0, <1>2, <4>1, <4>2, <4>3 DEF Owned
    <3>3. QED
      BY <3>1, <3>2
  <2>8. cmd'.pc \notin {"prepare", "create_execution", "create_tool"}
    BY <1>1, <1>4
  <2>9. QED
    BY <2>4, <2>5, <2>6, <2>7, <2>8 DEF Owned, RecordsAt
<1>10. Tracks'
  <2>1. \A j \in Slots : cmd'.slot[j].durable => cmd'.slot[j] = cmd.slot[j]
    BY <1>5
  <2>2. \A j \in Slots : cmd.slot[j].durable => cmd'.slot[j].durable
    BY <1>3, <1>5 DEF EmptySlot
  <2>3. /\ executions # <<>>
        /\ \A j \in Slots :
             /\ cmd.slot[j].durable => cmd.slot[j].id = Recorded(LastExecution, j)
             /\ Recorded(LastExecution, j) # None => cmd.slot[j].durable
    BY <1>2, <1>3 DEF Tracks
  <2>4. QED
    BY <1>7, <2>1, <2>2, <2>3 DEF Tracks, LastExecution, Recorded
<1>11. QED
  BY <1>4, <1>6, <1>8, <1>9, <1>10 DEF CommandKept

\* A foreign session is gone at once, or is known to resist.
LEMMA CreationMisownedKeeps ==
  ASSUME CoordInv, NEW k \in Slots, CreationMisowned(k)
  PROVE  CommandKept
<1> DEFINE n == issued + 1
<1>0. /\ cmd.pc = CreatesAt[k] /\ issued' = n
      /\ \/ UNCHANGED <<live, undeletable>>
         \/ live' = live \cup {n} /\ undeletable' = undeletable \cup {n}
      /\ UNCHANGED vars /\ UNCHANGED <<orphaned, artifacts, tree>>
      /\ cmd' = Failing("other")
  BY DEF CreationMisowned, NextSession, disk
<1>1. /\ cmd \in Command /\ cmd.pc \in {"create_execution", "create_tool"}
      /\ issued \in Nat /\ "other" \in Causes
  BY <1>0, CommandIs DEF CreatesAt, Slots, CoordInv, CoordTypeOK, Causes
<1>2. /\ Locals /\ Owned /\ Tracks
  BY DEF CoordInv, CommandInv
<1>3. /\ cmd.report = None /\ ~cmd.abandoned /\ cmd.unfinished
      /\ cmd.log = "captured" => Len(executions) \in artifacts
  BY <1>1, <1>2 DEF Locals, Idle, AgentPcs
<1>4. /\ cmd' \in Command /\ cmd'.pc = "finalize" /\ cmd'.cause = "other"
      /\ cmd'.report = None /\ ~cmd'.abandoned /\ cmd'.unfinished
      /\ cmd'.log = cmd.log /\ cmd'.slot = cmd.slot
  BY <1>0, <1>1, <1>3, FailingIs
<1>5. UNCHANGED executions
  BY <1>0 DEF vars, graph
<1>6. Positions' /\ ReportHonest' /\ Locals'
  BY <1>0, <1>3, <1>4, <1>5 DEF Positions, ReportHonest, Locals, Idle, AgentPcs, Finalizers
<1>7. Owned'
  <2>1. Pending' = Pending
    BY <1>4 DEF Pending
  <2>2. n \notin (1..issued) \cup {None} /\ 1..issued \subseteq 1..issued'
    BY <1>0, <1>1, NoneAssumption
  <2>3. live \subseteq undeletable \cup orphaned \cup {cmd.slot[j].id : j \in Pending}
    BY <1>2 DEF Owned
  <2>4. live' \subseteq undeletable' \cup orphaned' \cup {cmd'.slot[j].id : j \in Pending'}
    <3>1. {cmd'.slot[j].id : j \in Pending'} = {cmd.slot[j].id : j \in Pending}
      BY <1>4, <2>1
    <3>2. QED
      BY <1>0, <2>3, <3>1
  <2>5. ASSUME NEW j \in Slots
        PROVE  /\ cmd'.pc # RecordsAt[j]
               /\ cmd'.slot[j].id \in (1..issued') \cup {None}
               /\ cmd'.slot[j].done /\ ~cmd'.slot[j].failed => cmd'.slot[j].id \notin live'
               /\ cmd'.slot[j].failed => cmd'.slot[j].id \in undeletable'
    <3>1. cmd'.slot[j] = cmd.slot[j] /\ cmd.slot[j].id \in (1..issued) \cup {None}
      BY <1>2, <1>4 DEF Owned
    <3>2. cmd.slot[j].id # n /\ cmd'.slot[j].id \in (1..issued') \cup {None}
      BY <2>2, <3>1
    <3>3. cmd'.pc # RecordsAt[j]
      BY <1>4 DEF RecordsAt, Slots
    <3>4. QED
      BY <1>0, <1>2, <3>1, <3>2, <3>3 DEF Owned
  <2>6. QED
    BY <1>4, <2>4, <2>5 DEF Owned, Holding, RecordsAt
<1>8. Tracks'
  BY <1>2, <1>3, <1>4, <1>5 DEF Tracks, Recorded, LastExecution
<1>9. QED
  BY <1>4, <1>6, <1>7, <1>8 DEF CommandKept

\* The recorded slot is the execution's from then on.
LEMMA RecordSessionKeeps ==
  ASSUME CoordInv, NEW k \in Slots, RecordSession(k)
  PROVE  CommandKept
<1> DEFINE pc == AfterRecord[k]
           id == cmd.slot[k].id
<1>0. /\ cmd.pc = RecordsAt[k] /\ ~Idle /\ cmd.pc \notin Finalizers
      /\ cmd.pc # "recover_cleanup" /\ k \in {"execution", "tool"}
  BY DEF RecordSession, RecordsAt, Slots, Idle, Finalizers
<1>1. ASSUME RecordCommand(k), UNCHANGED <<helper, disk>>,
             cmd' = [At(pc) EXCEPT !.slot[k].durable = TRUE]
      PROVE  CommandKept
  <2>0. /\ cmd \in Command /\ pc \in {"create_tool", "mark_running"} /\ pc \in Pcs
        /\ Locals /\ Owned /\ Tracks
    BY <1>0, CommandIs DEF AfterRecord, Pcs, CoordInv, CommandInv
  <2>1. /\ cmd.report = None /\ cmd.cutoff = "open" /\ ~cmd.abandoned /\ cmd.unfinished
        /\ id # None
    BY <1>0, <2>0 DEF Locals, Owned, Idle, AgentPcs, Finalizers, RecordsAt
  <2>2. cmd.slot \in [Slots -> Slot] /\ cmd.slot[k] \in Slot
    BY <2>0 DEF Command
  <2>3. /\ cmd' \in Command /\ cmd'.pc = pc /\ cmd'.report = None
        /\ cmd'.cutoff = "open" /\ ~cmd'.abandoned /\ cmd'.unfinished
        /\ cmd'.log = cmd.log /\ cmd'.slot = [cmd.slot EXCEPT ![k].durable = TRUE]
    <3>1. At(pc) \in Command /\ At(pc).pc = pc /\ SameLocals(At(pc), cmd)
      BY <2>0, AtIs
    <3>2. [cmd.slot[k] EXCEPT !.durable = TRUE] \in Slot
      BY <2>2 DEF Slot
    <3>3. [cmd.slot EXCEPT ![k].durable = TRUE] \in [Slots -> Slot]
      BY <2>2, <3>2
    <3>4. cmd' = [At(pc) EXCEPT !.slot = [cmd.slot EXCEPT ![k].durable = TRUE]]
      BY <1>1, <3>1 DEF SameLocals
    <3>5. QED
      BY <2>1, <3>1, <3>3, <3>4 DEF Command, SameLocals
  <2>4. /\ cmd'.slot[k].id = id /\ cmd'.slot[k].durable
        /\ cmd'.slot[k].done = cmd.slot[k].done /\ cmd'.slot[k].failed = cmd.slot[k].failed
        /\ \A j \in Slots \ {k} : cmd'.slot[j] = cmd.slot[j]
    BY <2>2, <2>3 DEF Slot
  <2>5. /\ RewriteDispatch /\ executions # <<>>
        /\ LastExecution' \in Execution
        /\ Recorded(LastExecution', k) = id
        /\ \A j \in Slots \ {k} : Recorded(LastExecution', j) = Recorded(LastExecution, j)
        /\ executions' # <<>> /\ Len(executions') = Len(executions)
    <3>0. id \in SessionIds
      BY <2>1, CommandTypes DEF CoordInv
    <3>1. CASE k = "execution"
      <4> DEFINE x == [LastExecution EXCEPT !.phase = "execution_session_created",
                                            !.execution_session_id = id]
      <4>1. executions # <<>> /\ Settle(x)
        BY <1>1, <3>1 DEF RecordCommand, AgentExecutionSessionCreated, UnfinishedAgent
      <4>2. LastExecution \in Execution
        BY <4>1, LastCompiled
      <4>3. /\ x \in Execution /\ x.execution_session_id = id
            /\ x.tool_session_id = LastExecution.tool_session_id
        BY <3>0, <4>2 DEF Execution, AgentPhases
      <4> HIDE DEF x
      <4>4. /\ LastExecution' = x /\ executions' # <<>> /\ Len(executions') = Len(executions)
        BY <4>1, <4>3, SettlePositions DEF CoordInv, CoordTypeOK
      <4>5. QED
        BY <1>0, <1>1, <3>1, <4>1, <4>3, <4>4 DEF Recorded, Slots, RewriteDispatch
    <3>2. CASE k = "tool"
      <4> DEFINE x == [LastExecution EXCEPT !.phase = "sessions_created",
                                            !.tool_session_id = id]
      <4>1. executions # <<>> /\ Settle(x)
        BY <1>1, <3>2 DEF RecordCommand, AgentToolSessionCreated, UnfinishedAgent
      <4>2. LastExecution \in Execution
        BY <4>1, LastCompiled
      <4>3. /\ x \in Execution /\ x.tool_session_id = id
            /\ x.execution_session_id = LastExecution.execution_session_id
        BY <3>0, <4>2 DEF Execution, AgentPhases
      <4> HIDE DEF x
      <4>4. /\ LastExecution' = x /\ executions' # <<>> /\ Len(executions') = Len(executions)
        BY <4>1, <4>3, SettlePositions DEF CoordInv, CoordTypeOK
      <4>5. QED
        BY <1>0, <1>1, <3>2, <4>1, <4>3, <4>4 DEF Recorded, Slots, RewriteDispatch
    <3>3. QED
      BY <1>0, <3>1, <3>2
  <2>6. Positions' /\ ReportHonest'
    BY <2>0, <2>3 DEF Positions, ReportHonest, Idle
  <2>7. Locals'
    BY <1>1, <2>0, <2>1, <2>3, <2>5 DEF Locals, Idle, AgentPcs, Finalizers, disk
  <2>8. Owned'
    <3>1. UNCHANGED <<issued, live, undeletable, orphaned>>
      BY <1>1 DEF helper
    <3>2. \A j \in Slots : /\ cmd'.slot[j].id = cmd.slot[j].id
                           /\ cmd'.slot[j].done = cmd.slot[j].done
                           /\ cmd'.slot[j].failed = cmd.slot[j].failed
      BY <2>4
    <3>3. Pending' = Pending /\ Pending \subseteq Slots
      BY <3>2 DEF Pending
    <3>4. {cmd'.slot[j].id : j \in Pending'} = {cmd.slot[j].id : j \in Pending}
      BY <3>2, <3>3
    <3>5. cmd'.pc = "create_tool" => cmd'.slot["tool"] = EmptySlot
      BY <1>0, <2>0, <2>3, <2>4 DEF Owned, AfterRecord, RecordsAt, Slots
    <3>6. QED
      BY <2>0, <2>3, <3>1, <3>2, <3>4, <3>5 DEF Owned, Holding, RecordsAt, Slots
  <2>9. Tracks'
    <3>1. \A j \in Slots :
             /\ cmd.slot[j].durable => cmd.slot[j].id = Recorded(LastExecution, j)
             /\ Recorded(LastExecution, j) # None => cmd.slot[j].durable
      BY <2>0, <2>1 DEF Tracks
    <3>2. \A j \in Slots :
             /\ cmd'.slot[j].durable => cmd'.slot[j].id = Recorded(LastExecution', j)
             /\ Recorded(LastExecution', j) # None => cmd'.slot[j].durable
      BY <2>4, <2>5, <3>1
    <3>3. QED
      BY <2>5, <3>2 DEF Tracks, Recorded
  <2>10. QED
    BY <2>3, <2>6, <2>7, <2>8, <2>9 DEF CommandKept
<1>2. QED
  BY <1>0, <1>1, WriteFailureKeeps DEF RecordSession, Dispatch, DispatchOr

\* A log is bound only once its artifact is there.
LEMMA RecordWorkerLogKeeps == CoordInv /\ RecordWorkerLog => CommandKept
<1> SUFFICES ASSUME CoordInv, RecordWorkerLog PROVE CommandKept
  OBVIOUS
<1>0. PICK log \in {"captured", "unavailable"} :
        /\ cmd' = Logged(log) /\ cmd.pc \in {"log_completed", "log_failed"}
        /\ artifacts \subseteq artifacts'
        /\ log = "captured" => Len(executions) \in artifacts'
        /\ UNCHANGED vars /\ UNCHANGED <<issued, live, undeletable, orphaned>>
  BY DEF RecordWorkerLog, helper
<1>1. /\ cmd \in Command /\ Locals /\ "accept" \in Pcs /\ "other" \in Causes
      /\ log \in WorkerLogs
  BY CommandIs, CoordinatorAssumption DEF CoordInv, CommandInv, Pcs, Causes
<1>2. cmd.report = None /\ cmd.cutoff = "open" /\ ~cmd.abandoned /\ cmd.unfinished
  BY <1>0, <1>1 DEF Locals, Idle, AgentPcs, Finalizers
<1>3. /\ cmd' \in Command /\ cmd'.report = None /\ cmd'.cutoff = "open"
      /\ ~cmd'.abandoned /\ cmd'.unfinished /\ cmd'.log = log /\ cmd'.slot = cmd.slot
      /\ \/ cmd'.pc = "accept"
         \/ cmd'.pc = "finalize" /\ cmd'.cause = "other"
  <2>1. CASE cmd' = [At("accept") EXCEPT !.log = log]
    <3>1. At("accept") \in Command /\ At("accept").pc = "accept"
          /\ SameLocals(At("accept"), cmd)
      BY <1>1, AtIs
    <3>2. QED
      BY <1>1, <1>2, <2>1, <3>1 DEF Command, SameLocals
  <2>2. CASE cmd' = [Failing("other") EXCEPT !.log = log]
    <3>1. /\ Failing("other") \in Command /\ Failing("other").pc = "finalize"
          /\ Failing("other").cause = "other" /\ SameLocals(Failing("other"), [cmd EXCEPT !.cause = "other"])
      BY <1>1, FailingIs DEF SameLocals, Command
    <3>2. QED
      BY <1>1, <1>2, <2>2, <3>1 DEF Command, SameLocals
  <2>3. QED
    BY <1>0, <2>1, <2>2 DEF Logged
<1>4. Positions' /\ ReportHonest'
  BY <1>3 DEF Positions, ReportHonest, Idle
<1>5. UNCHANGED executions
  BY <1>0 DEF vars, graph
<1>6. Locals'
  BY <1>0, <1>1, <1>3, <1>5 DEF Locals, Idle, AgentPcs, Finalizers
<1>7. Owned'
  BY <1>0, <1>3, CarriesKeeps DEF Carries, Holding
<1>8. Tracks'
  BY <1>0, <1>2, <1>3, UnchangedSessions
<1>9. QED
  BY <1>3, <1>4, <1>6, <1>7, <1>8 DEF CommandKept

\* A deletion was tried for the slot it leaves behind.
LEMMA DeleteSessionKeeps == CoordInv /\ DeleteSession => CommandKept
<1> SUFFICES ASSUME CoordInv, DeleteSession PROVE CommandKept
  OBVIOUS
<1> DEFINE k == NextSlot
           id == cmd.slot[k].id
<1>0. /\ cmd.pc \in {"cleanup", "finalize", "recover_cleanup"}
      /\ \/ /\ live' = live \ {id} /\ UNCHANGED undeletable
            /\ cmd' = [cmd EXCEPT !.slot[k].done = TRUE]
         \/ /\ undeletable' = undeletable \cup {id} /\ UNCHANGED live
            /\ cmd' = [cmd EXCEPT !.slot[k].done = TRUE, !.slot[k].failed = TRUE]
      /\ UNCHANGED vars /\ UNCHANGED <<issued, orphaned, artifacts, tree>>
  BY DEF DeleteSession, Cleans, disk
<1>1. /\ cmd \in Command /\ Locals /\ Owned /\ Tracks
      /\ k \in Pending /\ k \in Slots /\ ~cmd.slot[k].done
  BY CommandIs DEF CoordInv, CommandInv, DeleteSession, NextSlot, Pending, Slots
<1>2. cmd.slot \in [Slots -> Slot] /\ cmd.slot[k] \in Slot
  BY <1>1 DEF Command
<1> HIDE DEF k
<1> DEFINE After(s) ==
      /\ cmd' = [cmd EXCEPT !.slot = [cmd.slot EXCEPT ![k] = s]]
      /\ s \in Slot /\ s.id = id /\ s.done /\ s.durable = cmd.slot[k].durable
      /\ live' \subseteq live /\ undeletable \subseteq undeletable'
      /\ s.failed => id \in undeletable'
      /\ ~s.failed => id \notin live'
      /\ id \in live' => id \in undeletable'
<1>3. \E s \in Slot : After(s)
  <2>1. CASE /\ live' = live \ {id} /\ UNCHANGED undeletable
             /\ cmd' = [cmd EXCEPT !.slot[k].done = TRUE]
    <3> DEFINE s == [cmd.slot[k] EXCEPT !.done = TRUE]
    <3>1. /\ s \in Slot /\ s.id = id /\ s.done /\ s.durable = cmd.slot[k].durable
          /\ s.failed = cmd.slot[k].failed
      BY <1>2 DEF Slot
    <3>2. cmd.slot[k].failed => id \in undeletable
      BY <1>1 DEF Owned
    <3>3. cmd' = [cmd EXCEPT !.slot = [cmd.slot EXCEPT ![k] = s]]
      BY <2>1
    <3> HIDE DEF s
    <3>4. QED
      BY <2>1, <3>1, <3>2, <3>3
  <2>2. CASE /\ undeletable' = undeletable \cup {id} /\ UNCHANGED live
             /\ cmd' = [cmd EXCEPT !.slot[k].done = TRUE, !.slot[k].failed = TRUE]
    <3> DEFINE s == [cmd.slot[k] EXCEPT !.done = TRUE, !.failed = TRUE]
    <3>1. /\ s \in Slot /\ s.id = id /\ s.done /\ s.durable = cmd.slot[k].durable
          /\ s.failed
      BY <1>2 DEF Slot
    <3>2. cmd' = [cmd EXCEPT !.slot = [cmd.slot EXCEPT ![k] = s]]
      BY <1>1, <1>2, <2>2 DEF Command
    <3> HIDE DEF s
    <3>3. QED
      BY <2>2, <3>1, <3>2
  <2>3. QED
    BY <1>0, <2>1, <2>2
<1>4. PICK s \in Slot : After(s)
  BY <1>3
<1>5. /\ cmd' \in Command /\ cmd'.pc = cmd.pc /\ cmd'.report = cmd.report
      /\ cmd'.cutoff = cmd.cutoff /\ cmd'.abandoned = cmd.abandoned
      /\ cmd'.unfinished = cmd.unfinished /\ cmd'.log = cmd.log
      /\ cmd'.cause = cmd.cause /\ cmd'.slot = [cmd.slot EXCEPT ![k] = s]
  <2>1. [cmd.slot EXCEPT ![k] = s] \in [Slots -> Slot]
    BY <1>2
  <2>2. QED
    BY <1>1, <1>4, <2>1 DEF Command
<1>6. /\ cmd'.slot[k] = s
      /\ \A j \in Slots \ {k} : cmd'.slot[j] = cmd.slot[j]
  BY <1>1, <1>2, <1>5
<1>7. Positions' /\ ReportHonest'
  BY <1>0, <1>5 DEF Positions, ReportHonest, Idle
<1>8. UNCHANGED executions /\ UNCHANGED artifacts
  BY <1>0 DEF vars, graph
<1>9. Locals'
  BY <1>0, <1>1, <1>5, <1>8 DEF Locals, Idle, AgentPcs, Finalizers
<1>10. Owned'
  <2>1. Pending' = Pending \ {k}
    BY <1>4, <1>6 DEF Pending
  <2>2. ASSUME NEW l \in live', l \notin undeletable', l \notin orphaned'
        PROVE  l \in {cmd'.slot[j].id : j \in Pending'}
    <3>1. l \in live /\ l \notin undeletable /\ l \notin orphaned /\ l # id
      BY <1>0, <1>4, <2>2
    <3>2. PICK j \in Pending : l = cmd.slot[j].id
      BY <1>1, <3>1 DEF Owned
    <3>3. j # k /\ j \in Slots
      BY <3>1, <3>2 DEF Pending
    <3>4. QED
      BY <1>6, <2>1, <3>2, <3>3
  <2>3. ASSUME NEW j \in Slots
        PROVE  /\ cmd'.slot[j].id \in (1..issued') \cup {None}
               /\ cmd'.slot[j].done /\ ~cmd'.slot[j].failed => cmd'.slot[j].id \notin live'
               /\ cmd'.slot[j].failed => cmd'.slot[j].id \in undeletable'
    BY <1>0, <1>1, <1>4, <1>6 DEF Owned
  <2>4. cmd'.pc \in {"cleanup", "finalize", "recover_cleanup"}
    BY <1>0, <1>5
  <2>5. \A j \in Slots : cmd'.pc # RecordsAt[j]
    BY <2>4 DEF RecordsAt, Slots
  <2>6. QED
    BY <2>2, <2>3, <2>4, <2>5 DEF Owned, Holding, RecordsAt
<1>11. Tracks'
  <2>1. \A j \in Slots : cmd'.slot[j].id = cmd.slot[j].id
                        /\ cmd'.slot[j].durable = cmd.slot[j].durable
    BY <1>4, <1>6
  <2>2. QED
    BY <1>1, <1>5, <1>8, <2>1 DEF Tracks, Recorded, LastExecution
<1>12. QED
  BY <1>5, <1>7, <1>9, <1>10, <1>11 DEF CommandKept

\* The steps that only hand over to the failure policy.
LEMMA FailingKeep ==
  ASSUME CoordInv,
         \/ EngineRefuses \/ PreparationFails \/ WorkerThrows \/ Interrupted
         \/ PublicationFails \/ \E k \in Slots : CreationFails(k)
  PROVE  CommandKept
<1> DEFINE Plain == ~Idle /\ cmd.pc \notin Finalizers /\ cmd.pc # "recover_cleanup"
<1> USE DEF Idle, Finalizers
<1>1. EngineRefuses \/ PreparationFails => Plain /\ Fail("other")
  BY DEF EngineRefuses, PreparationFails
<1>2. WorkerThrows \/ PublicationFails => Plain /\ Fail("other")
  BY DEF WorkerThrows, PublicationFails
<1>3. \A k \in Slots : CreationFails(k) => Plain /\ Fail("other")
  BY DEF CreationFails, CreatesAt, Slots
<1>4. Interrupted => Plain /\ Fail("signal")
  BY DEF Interrupted, Checkpoints
<1>5. QED
  BY <1>1, <1>2, <1>3, <1>4, FailKeeps

\* A step that moves a command without sessions and leaves the executions alone.
LEMMA MovesOn ==
  ASSUME CoordInv, ~Idle, cmd.pc \notin Finalizers, cmd.pc \notin Holding,
         NEW pc \in Places \ AgentPcs,
         cmd' = At(pc), UNCHANGED helper, UNCHANGED artifacts, UNCHANGED executions,
         pc \in Placed => \/ pc = "settled" /\ SettledUnbound'
                          \/ pc = "record_outputs" /\ tree'
                          \/ /\ pc \in {"handoff", "plan_ready"}
                             /\ (PlanningSettled /\ ~AllBound)'
                          \/ pc = "enter_wait" /\ StageWaitBoundary'
                          \/ pc = "waiting" /\ status' = "waiting"
  PROVE  CommandKept
<1>1. Pending = {} /\ cmd \in Command /\ pc \in Pcs
  BY CommandIs DEF CoordInv, CommandInv, Owned, Places
<1>2. cmd'.pc = pc
  BY <1>1, AtIs
<1>3. Positions'
  BY <1>2 DEF Positions, Placed, Suspending
<1>4. QED
  BY <1>1, <1>3, MoveKeeps DEF AgentPcs

LEMMA WorkerEndsKeeps == CoordInv /\ WorkerEnds => CommandKept
<1> SUFFICES ASSUME CoordInv, WorkerEnds PROVE CommandKept
  OBVIOUS
<1>1. PICK pc \in {"log_completed", "log_failed"} : cmd' = At(pc)
  BY DEF WorkerEnds, Become
<1>2. /\ cmd.pc = "work" /\ UNCHANGED vars /\ UNCHANGED helper /\ UNCHANGED artifacts
      /\ cmd \in Command /\ pc \in Places /\ pc \in Holding /\ pc \in Pcs
  BY CommandIs DEF WorkerEnds, Become, disk, Places, Pcs, Finalizers, Holding
<1>3. Positions' /\ UNCHANGED executions
  BY <1>1, <1>2, AtIs DEF Positions, vars, graph
<1>4. QED
  BY <1>1, <1>2, <1>3, MoveKeeps DEF Idle, Finalizers, AgentPcs

LEMMA ContinueEngineKeeps == CoordInv /\ ContinueEngine => CommandKept
<1> SUFFICES ASSUME CoordInv, ContinueEngine PROVE CommandKept
  OBVIOUS
<1>1. /\ cmd.pc = "committed" /\ cmd' = At("engine") /\ UNCHANGED helper
      /\ UNCHANGED artifacts /\ UNCHANGED executions
  BY DEF ContinueEngine, Become, disk, vars, graph
<1>2. QED
  BY <1>1, MovesOn DEF Idle, Finalizers, Holding, Places, Pcs, AgentPcs, Placed, Suspending

LEMMA PublishOutputsKeeps == CoordInv /\ PublishOutputs => CommandKept
<1> SUFFICES ASSUME CoordInv, PublishOutputs PROVE CommandKept
  OBVIOUS
<1>1. /\ cmd.pc \in {"publish_fresh", "publish_adopt"} /\ cmd' = At("record_outputs")
      /\ tree' /\ UNCHANGED helper /\ UNCHANGED artifacts /\ UNCHANGED executions
  BY DEF PublishOutputs, vars, graph
<1>2. QED
  BY <1>1, MovesOn DEF Idle, Finalizers, Holding, Places, Pcs, AgentPcs

LEMMA RecoverTerminalKeeps == CoordInv /\ RecoverTerminal => CommandKept
<1> SUFFICES ASSUME CoordInv, RecoverTerminal PROVE CommandKept
  OBVIOUS
<1>1. PICK pc \in {"conclude", "publish_adopt"} : cmd' = At(pc)
  BY DEF RecoverTerminal, Become
<1>2. /\ cmd.pc = "recover" /\ UNCHANGED helper
      /\ UNCHANGED artifacts /\ UNCHANGED executions
  BY DEF RecoverTerminal, Recovering, Become, disk, vars, graph
<1>3. QED
  BY <1>1, <1>2, MovesOn DEF Idle, Finalizers, Holding, Places, Pcs, AgentPcs, Placed, Suspending

\* The transition window is where a settled execution lacks its transition.
LEMMA WindowIsSettled ==
  ASSUME CoordInv, Window = "transition"
  PROVE  SettledUnbound
<1>1. /\ status = "active" /\ terminal = None /\ phase = "running" /\ ~AllBound
      /\ UnboundWindow = "transition"
  BY DEF Window
<1>2. /\ TypeOK /\ ExecutionPairing /\ FinalStatusCoherent
  BY DEF CoordInv, DocumentInv, RunInv, Paired, EndingInv
<1>3. Undecided
  BY <1>1, <1>2 DEF FinalStatusCoherent, Undecided
<1>4. executions # <<>>
  BY <1>1, <1>2 DEF ExecutionPairing, AllBound, TypeOK
<1>5. LastExecution.phase = IF LastExecution.type = "agent"
                            THEN "cleanup_completed" ELSE "evaluated"
  BY <1>1 DEF UnboundWindow, LastRecordedAs
<1>6. QED
  BY <1>1, <1>3, <1>4, <1>5 DEF SettledUnbound

LEMMA SettledSame ==
  ASSUME UNCHANGED vars
  PROVE  /\ SettledUnbound' = SettledUnbound /\ Window' = Window
         /\ (PlanningSettled /\ ~AllBound)' = (PlanningSettled /\ ~AllBound)
         /\ StageWaitBoundary' = StageWaitBoundary
<1>1. UNCHANGED <<status, phase, cursor, executions, transitions, generations,
                  waits, grants, terminal, run_outputs, failure>>
  BY DEF vars, graph, stages, outcome
<1>2. SettledUnbound' = SettledUnbound
  BY <1>1 DEF SettledUnbound, Undecided, AllBound, LastExecution, Latest
<1>3. Window' = Window
  BY <1>1 DEF Window, UnboundWindow, LastRecordedAs, AllBound, LastExecution, Latest
<1>4. (PlanningSettled /\ ~AllBound)' = (PlanningSettled /\ ~AllBound)
  BY <1>1 DEF PlanningSettled, Undecided, AllBound, LastRecordedAs, LastExecution, Latest
<1>5. StageWaitBoundary' = StageWaitBoundary
  BY <1>1 DEF StageWaitBoundary, Undecided, AllBound, LastExecution, Latest, HasOpenWait,
     HasOpenIteration, HasOpenGeneration, OpenGeneration, Current
<1>6. QED
  BY <1>2, <1>3, <1>4, <1>5

LEMMA RecoverTransitionKeeps == CoordInv /\ RecoverTransition => CommandKept
<1> SUFFICES ASSUME CoordInv, RecoverTransition PROVE CommandKept
  OBVIOUS
<1>1. /\ cmd.pc = "recover" /\ Window = "transition" /\ cmd' = At("settled")
      /\ UNCHANGED vars /\ UNCHANGED helper /\ UNCHANGED artifacts
  BY DEF RecoverTransition, Recovering, Become, disk
<1>2. SettledUnbound' /\ UNCHANGED executions
  BY <1>1, WindowIsSettled, SettledSame DEF vars, graph
<1>3. QED
  BY <1>1, <1>2, MovesOn DEF Idle, Finalizers, Holding, Places, Pcs, AgentPcs

LEMMA CommitTransitionKeeps == CoordInv /\ CommitTransition => CommandKept
<1> SUFFICES ASSUME CoordInv, CommitTransition PROVE CommandKept
  OBVIOUS
<1>0. cmd.pc = "settled"
  BY DEF CommitTransition
<1>1. CASE CommitCommand /\ cmd' = At("committed") /\ UNCHANGED <<helper, disk>>
  <2>1. UNCHANGED executions /\ UNCHANGED helper /\ UNCHANGED artifacts
    BY <1>1 DEF CommitCommand, TransitionCommitted, disk
  <2>2. QED
    BY <1>0, <1>1, <2>1, MovesOn DEF Idle, Finalizers, Holding, Places, Pcs, AgentPcs, Placed, Suspending
<1>2. QED
  BY <1>0, <1>1, WriteFailureKeeps
     DEF CommitTransition, Dispatch, DispatchOr, Idle, Finalizers

LEMMA ReachTerminalKeeps == CoordInv /\ ReachTerminal => CommandKept
<1> SUFFICES ASSUME CoordInv, ReachTerminal PROVE CommandKept
  OBVIOUS
<1>0. cmd.pc = "engine"
  BY DEF ReachTerminal
<1>1. CASE TerminalCommand /\ cmd' = At("publish_fresh") /\ UNCHANGED <<helper, disk>>
  <2>1. UNCHANGED executions /\ UNCHANGED helper /\ UNCHANGED artifacts
    BY <1>1 DEF TerminalCommand, TerminalReached, graph, disk
  <2>2. QED
    BY <1>0, <1>1, <2>1, MovesOn DEF Idle, Finalizers, Holding, Places, Pcs, AgentPcs, Placed, Suspending
<1>2. QED
  BY <1>0, <1>1, WriteFailureKeeps DEF ReachTerminal, Dispatch, DispatchOr, Idle, Finalizers

LEMMA RecordOutputsKeeps == CoordInv /\ RecordOutputs => CommandKept
<1> SUFFICES ASSUME CoordInv, RecordOutputs PROVE CommandKept
  OBVIOUS
<1>0. cmd.pc = "record_outputs"
  BY DEF RecordOutputs
<1>1. CASE RunOutputsPublished /\ cmd' = At("conclude") /\ UNCHANGED <<helper, disk>>
  <2>1. UNCHANGED executions /\ UNCHANGED helper /\ UNCHANGED artifacts
    BY <1>1 DEF RunOutputsPublished, graph, disk
  <2>2. QED
    BY <1>0, <1>1, <2>1, MovesOn DEF Idle, Finalizers, Holding, Places, Pcs, AgentPcs, Placed, Suspending
<1>2. QED
  BY <1>0, <1>1, WriteFailureKeeps DEF RecordOutputs, Dispatch, DispatchOr, Idle, Finalizers

\* A planning execution that is settled and unbound at a plan-ready edge is where
\* resume-plan takes over.
LEMMA PlanReadySuspends ==
  ASSUME CoordInv, SettledUnbound, PlanReady
  PROVE  PlanningSettled /\ ~AllBound
<1>1. /\ LastExecution \in Execution /\ CompiledExecution(LastExecution)
      /\ status = "active" /\ phase = "running" /\ Undecided /\ executions # <<>> /\ ~AllBound
      /\ LastExecution.phase = IF LastExecution.type = "agent"
                               THEN "cleanup_completed" ELSE "evaluated"
  BY LastCompiled DEF SettledUnbound
<1>2. /\ LastExecution.execution_role = "planning" /\ LastExecution.type = "agent"
  BY <1>1, CompiledAssumption DEF PlanReady, CompiledExecution
<1>3. waits = <<>> /\ grants = <<>>
  BY <1>1 DEF CoordInv, DocumentInv, EndsAtWait
<1>4. QED
  BY <1>1, <1>2, <1>3 DEF PlanningSettled, LastRecordedAs

LEMMA SuspendPlanReadyKeeps == CoordInv /\ SuspendPlanReady => CommandKept
<1> SUFFICES ASSUME CoordInv, SuspendPlanReady PROVE CommandKept
  OBVIOUS
<1>1. /\ cmd.pc = "settled" /\ SettledUnbound /\ PlanReady /\ cmd' = At("plan_ready")
      /\ UNCHANGED vars /\ UNCHANGED helper /\ UNCHANGED artifacts
  BY DEF SuspendPlanReady, CoordInv, CommandInv, Positions, Become, disk
<1>2. (PlanningSettled /\ ~AllBound)' /\ UNCHANGED executions
  BY <1>1, PlanReadySuspends, SettledSame DEF vars, graph
<1>3. QED
  BY <1>1, <1>2, MovesOn DEF Idle, Finalizers, Holding, Places, Pcs, AgentPcs

LEMMA VerifyPlanReadyKeeps == CoordInv /\ VerifyPlanReady => CommandKept
<1> SUFFICES ASSUME CoordInv, VerifyPlanReady PROVE CommandKept
  OBVIOUS
<1>0. cmd.pc = "plan_ready" /\ Pending = {} /\ PlanningSettled /\ ~AllBound
  BY DEF VerifyPlanReady, CoordInv, CommandInv, Owned, Holding, Positions
<1>1. CASE Fail("other")
  BY <1>0, <1>1, FailKeeps DEF Idle, Finalizers
<1>2. CASE Return("plan_ready")
  <2>1. /\ "plan_ready" \in Reports /\ cmd' = Returned("plan_ready") /\ UNCHANGED vars
        /\ UNCHANGED <<issued, live, undeletable, orphaned>>
    BY <1>2 DEF Return, Become, helper, Reports
  <2>2. cmd'.report = "plan_ready"
    BY <2>1, ReturnedIs
  <2>3. (PlanningSettled /\ ~AllBound)'
    BY <1>0, <2>1, SettledSame
  <2>4. ReportHonest'
    BY <2>2, <2>3 DEF ReportHonest, TerminalReason, CleanupReason
  <2>5. QED
    BY <1>0, <2>1, <2>4, ReturnsKeeps
<1>3. QED
  BY <1>1, <1>2 DEF VerifyPlanReady

LEMMA AttemptWaitKeeps == CoordInv /\ AttemptWait => CommandKept
<1> SUFFICES ASSUME CoordInv, AttemptWait PROVE CommandKept
  OBVIOUS
<1>1. /\ cmd.pc = "committed" /\ StageWaitBoundary /\ cmd' = At("enter_wait")
      /\ UNCHANGED vars /\ UNCHANGED helper /\ UNCHANGED artifacts
  BY DEF AttemptWait, Become, disk
<1>2. StageWaitBoundary' /\ UNCHANGED executions
  BY <1>1, SettledSame DEF vars, graph
<1>3. QED
  BY <1>1, <1>2, MovesOn DEF Idle, Finalizers, Holding, Places, Pcs, AgentPcs

LEMMA EnterWaitKeeps == CoordInv /\ EnterWait => CommandKept
<1> SUFFICES ASSUME CoordInv, EnterWait PROVE CommandKept
  OBVIOUS
<1>0. /\ cmd.pc = "enter_wait" /\ Pending = {} /\ StageWaitBoundary
      /\ UNCHANGED <<helper, disk>> /\ UNCHANGED <<issued, live, undeletable, orphaned>>
      /\ UNCHANGED helper /\ UNCHANGED artifacts
  BY DEF EnterWait, CoordInv, CommandInv, Owned, Holding, Positions, Return, Become,
         DispatchAware, DispatchOr, helper, disk
<1>1. CASE Return("other")
  <2>1. "other" \in Reports /\ cmd' = Returned("other") /\ UNCHANGED vars
    BY <1>1 DEF Return, Become, Reports
  <2>2. cmd'.report = "other" /\ StageWaitBoundary'
    BY <1>0, <2>1, ReturnedIs, SettledSame
  <2>3. ReportHonest'
    BY <2>2 DEF ReportHonest, TerminalReason, CleanupReason
  <2>4. QED
    BY <1>0, <2>1, <2>3, ReturnsKeeps
<1>2. ASSUME NEW request \in Requests, WaitCommand(request), cmd' = At("waiting")
      PROVE  CommandKept
  <2>1. status' = "waiting" /\ UNCHANGED executions
    BY <1>2 DEF WaitCommand, RunWaiting, graph
  <2>2. QED
    BY <1>0, <1>2, <2>1, MovesOn DEF Idle, Finalizers, Holding, Places, Pcs, AgentPcs
<1>3. QED
  BY <1>0, <1>1, <1>2, PersistReturns DEF EnterWait, DispatchAware, DispatchOr

LEMMA SuspendWaitingKeeps == CoordInv /\ SuspendWaiting => CommandKept
<1> SUFFICES ASSUME CoordInv, SuspendWaiting PROVE CommandKept
  OBVIOUS
<1>0. cmd.pc = "waiting" /\ Pending = {} /\ status = "waiting"
  BY DEF SuspendWaiting, CoordInv, CommandInv, Owned, Holding, Positions
<1>1. /\ "waiting" \in Reports /\ cmd' = Returned("waiting") /\ status' = "waiting"
      /\ UNCHANGED <<issued, live, undeletable, orphaned>>
  BY <1>0 DEF SuspendWaiting, Return, Become, helper, Reports, vars
<1>2. cmd'.report = "waiting"
  BY <1>1, ReturnedIs
<1>3. ReportHonest'
  BY <1>1, <1>2 DEF ReportHonest, TerminalReason, CleanupReason
<1>4. QED
  BY <1>0, <1>1, <1>3, ReturnsKeeps

\* A success or a failed terminal is reported for the document that says so.
LEMMA ConcludeKeeps == CoordInv /\ Conclude => CommandKept
<1> SUFFICES ASSUME CoordInv, Conclude PROVE CommandKept
  OBVIOUS
<1>0. /\ cmd.pc = "conclude" /\ ~Idle /\ cmd.pc \notin Finalizers /\ Pending = {}
      /\ cmd \in Command /\ Cutoff \in {"open", "quiet", "signal"}
      /\ UNCHANGED <<helper, disk>>
      /\ UNCHANGED <<issued, live, undeletable, orphaned>> /\ UNCHANGED artifacts
      /\ (cmd.log = "captured" => Len(executions) \in artifacts) /\ ~cmd.abandoned
  BY CommandIs
     DEF Conclude, Idle, Finalizers, CoordInv, CommandInv, Owned, Holding, DispatchOr, helper,
         disk, Command, Cutoff, Locals
<1> DEFINE Stopped(cause) == [Failing(cause) EXCEPT !.cutoff = Cutoff]
<1>1. ASSUME NEW cause \in {"signal", "persist"}
      PROVE  LET c == Stopped(cause)
                 d == Abandoning(c) IN
             /\ c \in Command /\ c.pc = "finalize" /\ c.slot = cmd.slot
             /\ c.report = cmd.report /\ c.cause = cause
             /\ c.unfinished = cmd.unfinished /\ c.log = cmd.log
             /\ d \in Command /\ d.pc = "finalize" /\ d.slot = cmd.slot
             /\ d.report = cmd.report /\ d.cause = cause /\ d.abandoned
  <2>1. cause \in Causes
    BY DEF Causes
  <2>2. /\ Failing(cause) \in Command /\ Failing(cause).pc = "finalize"
        /\ Failing(cause).slot = cmd.slot /\ Failing(cause).report = cmd.report
        /\ Failing(cause).cause = cause /\ Failing(cause).unfinished = cmd.unfinished
        /\ Failing(cause).log = cmd.log
    BY <1>0, <2>1, FailingIs
  <2>3. /\ Stopped(cause) \in Command /\ Stopped(cause).pc = "finalize"
        /\ Stopped(cause).slot = cmd.slot /\ Stopped(cause).report = cmd.report
        /\ Stopped(cause).cause = cause /\ Stopped(cause).unfinished = cmd.unfinished
        /\ Stopped(cause).log = cmd.log
    BY <1>0, <2>2 DEF Command
  <2> HIDE DEF Stopped
  <2>4. Abandoning(Stopped(cause)) = [Stopped(cause) EXCEPT !.abandoned = TRUE]
    BY <2>3 DEF Abandoning
  <2>5. QED
    BY <2>3, <2>4 DEF Command
<1>2. CASE UNCHANGED vars /\ (cmd' = Stopped("signal") \/ cmd' = Stopped("persist"))
  BY <1>0, <1>1, <1>2, FailsKeeps
<1>3. CASE cmd' = Abandoning(Stopped("persist"))
  BY <1>0, <1>1, <1>3, FailsKeeps
<1>4. ASSUME ConcludeCommand,
             cmd' = Returned(IF terminal.result = "success" THEN "success"
                             ELSE TerminalReason)
      PROVE  CommandKept
  <2>1. CASE terminal.result = "success"
    <3>1. status' = "success" /\ "success" \in Reports
      BY <1>4, <2>1 DEF ConcludeCommand, RunSucceeded, Reports
    <3>2. cmd' = Returned("success") /\ cmd'.report = "success"
      BY <1>4, <2>1, <3>1, ReturnedIs
    <3>3. ReportHonest'
      BY <3>1, <3>2 DEF ReportHonest, TerminalReason, CleanupReason
    <3>4. QED
      BY <1>0, <3>1, <3>2, <3>3, ReturnsKeeps
  <2>2. CASE terminal.result # "success"
    <3>1. failure' = TerminalReason /\ TerminalReason \in Reports
      BY <1>4, <2>2 DEF ConcludeCommand, RunFailed, Reports
    <3>2. cmd' = Returned(TerminalReason) /\ cmd'.report = TerminalReason
      BY <1>4, <2>2, <3>1, ReturnedIs
    <3>3. ReportHonest'
      BY <3>1, <3>2 DEF ReportHonest, TerminalReason
    <3>4. QED
      BY <1>0, <3>1, <3>2, <3>3, ReturnsKeeps
  <2>3. QED
    BY <2>1, <2>2
<1>5. QED
  <2>1. CASE Cutoff = "signal" /\ terminal.result = "success"
    BY <1>2, <2>1 DEF Conclude, Become
  <2>2. CASE ~(Cutoff = "signal" /\ terminal.result = "success")
    BY <1>2, <1>3, <1>4, <2>2 DEF Conclude, DispatchOr
  <2>3. QED
    BY <2>1, <2>2

\* The failure policy settles the record of the execution, then the run.
LEMMA FinalizeExecutionKeeps == CoordInv /\ FinalizeExecution => CommandKept
<1> SUFFICES ASSUME CoordInv, FinalizeExecution PROVE CommandKept
  OBVIOUS
<1>0. /\ cmd.pc = "finalize" /\ Pending = {} /\ cmd \in Command /\ cmd.report = None
      /\ cmd.cause \in {"other", "signal", "persist"}
      /\ UNCHANGED <<helper, disk>>
  BY CommandIs
     DEF FinalizeExecution, CleanedUp, CoordInv, CommandInv, Locals, Idle, Return,
         DispatchAware, DispatchOr, Become
<1>1. CASE cmd.abandoned
  BY <1>0, <1>1, PersistReturns DEF FinalizeExecution, Return, Become
<1>2. ASSUME ~cmd.abandoned, Len(executions') = Len(executions),
             \/ cmd' = Finalizing /\ ~cmd.unfinished
             \/ cmd' = [Finalizing EXCEPT !.unfinished = FALSE]
      PROVE  CommandKept
  <2>0. /\ "finalize_run" \in Pcs /\ FinalReason \in Causes
        /\ FinalReason = CleanupReason <=> CleanupFailedDurably
        /\ Cutoff \in {"open", "quiet", "signal"}
    BY <1>0 DEF Pcs, FinalReason, Causes, Cutoff, Command, CleanupReason
  <2>1. /\ cmd' \in Command /\ cmd'.pc = "finalize_run" /\ cmd'.report = None
        /\ ~cmd'.abandoned /\ ~cmd'.unfinished /\ cmd'.log = cmd.log
        /\ cmd'.cause = FinalReason /\ cmd'.slot = cmd.slot
    BY ZenonT(30), <1>0, <1>2, <2>0 DEF Finalizing, Command
  <2>2. Positions' /\ ReportHonest'
    BY <2>1 DEF Positions, ReportHonest, Idle
  <2>3. CleanupFailedDurably' = CleanupFailedDurably
    BY <2>1 DEF CleanupFailedDurably, SlotOutcome
  <2>4. cmd.log = "captured" => Len(executions) \in artifacts
    BY <1>2 DEF CoordInv, CommandInv, Locals
  <2>5. Locals'
    BY <1>0, <1>2, <2>0, <2>1, <2>3, <2>4 DEF Locals, Idle, AgentPcs, Finalizers, disk
  <2>6. Owned'
    BY <1>0, <2>1, CarriesKeeps DEF Carries, Holding, helper
  <2>7. Tracks'
    BY <2>1 DEF Tracks
  <2>8. QED
    BY <2>1, <2>2, <2>5, <2>6, <2>7 DEF CommandKept
<1>3. CASE ~cmd.abandoned /\ cmd.unfinished
  <2>1. ASSUME ExecutionFailure PROVE Len(executions') = Len(executions)
    <3>1. RewriteDispatch
      BY <1>0, <1>3, <2>1 DEF RewriteDispatch, CleanedUp
    <3>2. QED
      BY <1>0, <3>1, RewriteKeepsSessions DEF RecordsAt, Slots
  <2>2. QED
    BY <1>0, <1>2, <1>3, <2>1, PersistReturns
       DEF FinalizeExecution, DispatchAware, DispatchOr
<1>4. CASE ~cmd.abandoned /\ ~cmd.unfinished
  <2>1. cmd' = Finalizing /\ Len(executions') = Len(executions)
    BY <1>4 DEF FinalizeExecution, Become, vars, graph
  <2>2. QED
    BY <1>2, <1>4, <2>1
<1>5. QED
  BY <1>1, <1>3, <1>4

\* What the run-level failure reports is what it wrote.
LEMMA FinalizeRunKeeps == CoordInv /\ FinalizeRun => CommandKept
<1> SUFFICES ASSUME CoordInv, FinalizeRun PROVE CommandKept
  OBVIOUS
<1>0. /\ cmd.pc = "finalize_run" /\ Pending = {} /\ cmd \in Command /\ cmd.report = None
      /\ ~cmd.abandoned
      /\ (cmd.cause = CleanupReason <=> CleanupFailedDurably)
      /\ UNCHANGED <<helper, disk>>
      /\ UNCHANGED <<issued, live, undeletable, orphaned, artifacts>>
      /\ (cmd.log = "captured" => Len(executions) \in artifacts)
  BY CommandIs
     DEF FinalizeRun, CoordInv, CommandInv, Locals, Idle, Owned, Holding, Return, Become,
         helper, disk
<1>1. CASE cmd' = Returned("persist")
  BY <1>0, <1>1, PersistReturns
<1>2. CASE FinalizeCommand /\ cmd' = Returned(cmd.cause)
  <2>1. /\ cmd.cause \in Causes /\ cmd.cause \in Reports \cup {None}
    BY <1>0 DEF Command, Causes, Reports
  <2>2. cmd'.report = cmd.cause
    BY <1>2, <2>1, ReturnedIs
  <2>3. CleanupFailedDurably => failure' = CleanupReason
    BY <1>2 DEF FinalizeCommand, RunCleanupFailed
  <2>4. ~CleanupFailedDurably => status' = "failed"
    BY <1>2 DEF FinalizeCommand, RunFailed
  <2>5. cmd.cause \notin {"success", TerminalReason, "waiting", "plan_ready"}
    BY <2>1, ReportAssumption DEF Reports, Causes, TerminalReason, CleanupReason
  <2>6. CleanupReason \notin {"signal", "other"}
    BY DEF CleanupReason
  <2>7. ReportHonest'
    BY <1>0, <2>2, <2>3, <2>4, <2>5, <2>6 DEF ReportHonest
  <2>8. QED
    BY <1>0, <1>2, <2>1, <2>7, ReturnsKeeps
<1>3. CASE UNCHANGED vars /\ cmd' = At("finalize_again")
  <2>1. /\ cmd' \in Command /\ cmd'.pc = "finalize_again" /\ SameLocals(cmd', cmd)
    BY <1>0, <1>3, AtIs DEF Pcs
  <2>2. Positions' /\ ReportHonest'
    BY <2>1 DEF Positions, ReportHonest, Idle
  <2>3. UNCHANGED executions
    BY <1>3 DEF vars, graph
  <2>4. Locals'
    BY <1>0, <2>1, <2>3 DEF SameLocals, Locals, Idle, AgentPcs, Finalizers
  <2>5. Owned'
    BY <1>0, <2>1, CarriesKeeps DEF Carries, SameLocals
  <2>6. Tracks'
    BY <1>0, <1>3, <2>1, UnchangedSessions DEF SameLocals
  <2>7. QED
    BY <2>1, <2>2, <2>4, <2>5, <2>6 DEF CommandKept
<1>4. QED
  BY <1>1, <1>2, <1>3 DEF FinalizeRun, Return, Become

LEMMA FinalizeAgainKeeps == CoordInv /\ FinalizeAgain => CommandKept
<1> SUFFICES ASSUME CoordInv, FinalizeAgain PROVE CommandKept
  OBVIOUS
<1>1. Pending = {}
  BY DEF FinalizeAgain, CoordInv, CommandInv, Owned, Holding
<1>2. QED
  BY <1>1, PersistReturns DEF FinalizeAgain, DispatchAware, DispatchOr

LEMMA RecoveryInterruptedKeeps == CoordInv /\ RecoveryInterrupted => CommandKept
<1> SUFFICES ASSUME CoordInv, RecoveryInterrupted PROVE CommandKept
  OBVIOUS
<1>1. /\ cmd.pc = "recover" /\ Pending = {} /\ Window # "none"
      /\ cmd' = Returned("signal") /\ "signal" \in Reports /\ UNCHANGED vars
      /\ UNCHANGED <<issued, live, undeletable, orphaned>>
  BY DEF RecoveryInterrupted, CoordInv, CommandInv, Positions, Owned, Holding, Return, Become,
         Reports, helper
<1>2. Window' # "none" /\ cmd'.report = "signal"
  BY <1>1, SettledSame, ReturnedIs
<1>3. status' = "active"
  BY <1>2 DEF Window
<1>4. ReportHonest'
  BY <1>2, <1>3 DEF ReportHonest, TerminalReason, CleanupReason
<1>5. QED
  BY <1>1, <1>4, ReturnsKeeps

LEMMA RecoverFinalizationKeeps == CoordInv /\ RecoverFinalization => CommandKept
<1> SUFFICES ASSUME CoordInv, RecoverFinalization PROVE CommandKept
  OBVIOUS
<1>0. /\ Pending = {} /\ UNCHANGED <<helper, disk>>
      /\ UNCHANGED <<issued, live, undeletable, orphaned>>
  BY DEF RecoverFinalization, Recovering, CoordInv, CommandInv, Owned, Holding, DispatchAware,
         DispatchOr, helper
<1>1. CASE RunFinalization /\ cmd' = FinalizationReport
  <2>1. CASE FailedCleanup(LastExecution)
    <3>1. failure' = CleanupReason /\ CleanupReason \in Reports
      BY <1>1, <2>1 DEF RunFinalization, RunCleanupFailed, Reports
    <3>2. cmd' = Returned(CleanupReason) /\ cmd'.report = CleanupReason
      BY <1>1, <2>1, <3>1, ReturnedIs DEF FinalizationReport
    <3>3. ReportHonest'
      BY <3>1, <3>2 DEF ReportHonest, CleanupReason
    <3>4. QED
      BY <1>0, <3>1, <3>2, <3>3, ReturnsKeeps
  <2>2. CASE ~FailedCleanup(LastExecution)
    <3>1. status' = "failed" /\ "other" \in Reports
      BY <1>1, <2>2 DEF RunFinalization, RunFailed, Reports
    <3>2. cmd' = Returned("other") /\ cmd'.report = "other"
      BY <1>1, <2>2, <3>1, ReturnedIs DEF FinalizationReport
    <3>3. ReportHonest'
      BY <3>1, <3>2 DEF ReportHonest, TerminalReason, CleanupReason
    <3>4. QED
      BY <1>0, <3>1, <3>2, <3>3, ReturnsKeeps
  <2>3. QED
    BY <2>1, <2>2
<1>2. QED
  BY <1>0, <1>1, PersistReturns DEF RecoverFinalization, DispatchAware, DispatchOr

\* The recovery of an agent adopts the recorded sessions and an honest log.
LEMMA RecoverAgentKeeps == CoordInv /\ RecoverAgent => CommandKept
<1> SUFFICES ASSUME CoordInv, RecoverAgent PROVE CommandKept
  OBVIOUS
<1> DEFINE L == LastExecution
           s == [execution |-> RecordedSlot(L.execution_session_id),
                 tool |-> RecordedSlot(L.tool_session_id)]
<1>1. PICK log \in AdoptedLogs :
        cmd' = [At("recover_cleanup") EXCEPT !.log = log, !.slot = s]
  BY DEF RecoverAgent, Become
<1>2. /\ cmd.pc = "recover" /\ Window = "cleanup" /\ UNCHANGED vars
      /\ UNCHANGED <<issued, live, undeletable, orphaned, artifacts>>
      /\ cmd \in Command /\ Locals /\ Owned /\ Pending = {}
      /\ "recover_cleanup" \in Pcs
  BY CommandIs
     DEF RecoverAgent, Recovering, Become, helper, disk, CoordInv, CommandInv, Owned, Holding,
         Pcs
<1>3. /\ status = "active" /\ ~AllBound /\ executions # <<>>
  BY <1>2 DEF Window, CoordInv, CoordTypeOK, TypeOK, DocumentInv, RunInv, Paired,
     ExecutionPairing, AllBound
<1>4. /\ L \in Execution /\ L = executions[Len(executions)]
      /\ Len(executions) \in DOMAIN executions
  BY <1>3, LastCompiled
<1>5. log \in WorkerLogs /\ (log = "captured" => Len(executions) \in artifacts)
  <2>1. L.worker_log \in WorkerLogs \cup {None}
    BY <1>4 DEF Execution
  <2>2. L.worker_log = "captured" => Len(executions) \in artifacts
    BY <1>4 DEF CoordInv, DocumentInv, RecordsBacked
  <2>3. QED
    BY <2>1, <2>2, CoordinatorAssumption DEF AdoptedLogs
<1>6. \A k \in Slots : /\ Recorded(L, k) \in SessionIds \cup {None}
                       /\ Recorded(L, k) \in (1..issued) \cup {None}
  BY <1>4 DEF Execution, Recorded, Slots, CoordInv, DocumentInv, IdsIssued
<1>7. /\ s \in [Slots -> Slot]
      /\ \A k \in Slots : s[k] = RecordedSlot(Recorded(L, k))
  <2>1. \A k \in Slots : RecordedSlot(Recorded(L, k)) \in Slot
    BY <1>6 DEF RecordedSlot, Slot
  <2>2. DOMAIN s = Slots /\ s = [k \in Slots |-> RecordedSlot(Recorded(L, k))]
    BY DEF Slots, Recorded
  <2>3. QED
    BY <2>1, <2>2
<1> HIDE DEF s
<1>8. /\ cmd' \in Command /\ cmd'.pc = "recover_cleanup" /\ cmd'.report = cmd.report
      /\ cmd'.cutoff = cmd.cutoff /\ cmd'.abandoned = cmd.abandoned
      /\ cmd'.log = log /\ cmd'.slot = s
  <2>1. At("recover_cleanup") \in Command /\ At("recover_cleanup").pc = "recover_cleanup"
        /\ SameLocals(At("recover_cleanup"), cmd)
    BY <1>2, AtIs
  <2>2. QED
    BY <1>1, <1>5, <1>7, <2>1 DEF Command, SameLocals
<1>9. Positions' /\ ReportHonest'
  BY <1>8 DEF Positions, ReportHonest, Idle
<1>10. UNCHANGED executions
  BY <1>2 DEF vars, graph
<1>11. Locals'
  BY <1>2, <1>5, <1>8, <1>10 DEF Locals, Idle, AgentPcs, Finalizers
<1>12. Owned'
  <2>1. \A k \in Slots : /\ cmd'.slot[k].id = Recorded(L, k)
                         /\ ~cmd'.slot[k].done /\ ~cmd'.slot[k].failed
    BY <1>7, <1>8 DEF RecordedSlot
  <2>2. live \subseteq undeletable \cup orphaned
    BY <1>2 DEF Owned
  <2>3. QED
    BY <1>2, <1>6, <1>8, <2>1, <2>2 DEF Owned, Holding, RecordsAt, Slots
<1>13. Tracks'
  <2>1. LastExecution' = L
    BY <1>10 DEF LastExecution
  <2>2. \A k \in Slots : cmd'.slot[k].id = Recorded(L, k) /\ cmd'.slot[k].durable
    BY <1>7, <1>8 DEF RecordedSlot
  <2>3. QED
    BY <1>3, <1>10, <2>1, <2>2 DEF Tracks, Recorded
<1>14. QED
  BY <1>8, <1>9, <1>11, <1>12, <1>13 DEF CommandKept

LEMMA RecoverAgentSettleKeeps == CoordInv /\ RecoverAgentSettle => CommandKept
<1> SUFFICES ASSUME CoordInv, RecoverAgentSettle PROVE CommandKept
  OBVIOUS
<1>0. cmd.pc = "recover_cleanup" /\ Pending = {} /\ UNCHANGED <<helper, disk>>
  BY DEF RecoverAgentSettle, CleanedUp, DispatchAware, DispatchOr
<1>1. ASSUME RecoveryCommand,
             cmd' = At(IF RecoverySettles THEN "recover_finalize" ELSE "settled")
      PROVE  CommandKept
  <2>1. RewriteDispatch
    BY <1>0, <1>1 DEF RewriteDispatch, CleanedUp
  <2>2. ~RecoverySettles => SettledUnbound'
    BY <1>1, <2>1, CleanupSettles DEF RecoveryCommand
  <2>3. PICK pc \in {"recover_finalize", "settled"} :
          cmd' = At(pc) /\ (pc = "settled" => SettledUnbound')
    BY <1>1, <2>2
  <2>4. QED
    BY <1>0, <2>1, <2>3, RewriteMoves
       DEF Places, Pcs, Finalizers, AgentPcs, RecordsAt, Slots, Idle, Placed, Suspending
<1>2. QED
  BY <1>0, <1>1, PersistReturns DEF RecoverAgentSettle, DispatchAware, DispatchOr

\* The handoff stays at a settled planning execution until its transition.
LEMMA HandoffKeeps ==
  ASSUME CoordInv,
         AcceptTask \/ AcceptPlan \/ OpenStageGeneration \/ OpenStageIteration
  PROVE  CommandKept
<1>0. /\ cmd.pc = "handoff" /\ Pending = {} /\ UNCHANGED <<helper, disk>>
      /\ PlanningSettled /\ ~AllBound /\ cmd \in Command
  BY CommandIs
     DEF AcceptTask, AcceptPlan, OpenStageGeneration, OpenStageIteration, CoordInv, CommandInv,
         Owned, Holding, Positions, DispatchAware, DispatchOr
<1>1. CASE HandoffDispatch /\ cmd' = cmd
  <2>1. UNCHANGED <<status, phase, graph, outcome>>
    BY <1>1, HandoffIsCommand, StageFrame
  <2>2. UNCHANGED <<waits, grants>>
    BY <1>1 DEF HandoffDispatch, TaskRevisionAccepted, PlanRevisionAccepted,
       StageGenerationOpened, StageIterationOpened
  <2>3. UNCHANGED <<executions, transitions, terminal, run_outputs, failure>>
    BY <2>1 DEF graph, outcome
  <2>4. (PlanningSettled /\ ~AllBound)'
    BY <1>0, <2>1, <2>2, <2>3
       DEF PlanningSettled, Undecided, AllBound, LastRecordedAs, LastExecution, Latest
  <2>5. cmd' = At("handoff")
    BY <1>0, <1>1 DEF At, Command
  <2>6. QED
    BY <1>0, <2>3, <2>4, <2>5, MovesOn
       DEF helper, disk, Idle, Finalizers, Holding, Places, Pcs, AgentPcs
<1>2. CASE cmd' = Returned("persist") \/ cmd' = Abandoning(Returned("persist"))
  BY <1>0, <1>2, PersistReturns
<1>3. ASSUME AcceptTask PROVE CommandKept
  BY <1>0, <1>1, <1>2, <1>3
     DEF AcceptTask, DispatchAware, DispatchOr, HandoffDispatch, MissingTasks
<1>4. ASSUME AcceptPlan PROVE CommandKept
  BY <1>0, <1>1, <1>2, <1>4 DEF AcceptPlan, DispatchAware, DispatchOr, HandoffDispatch
<1>5. ASSUME OpenStageGeneration PROVE CommandKept
  BY <1>0, <1>1, <1>2, <1>5 DEF OpenStageGeneration, DispatchAware, DispatchOr, HandoffDispatch
<1>6. ASSUME OpenStageIteration PROVE CommandKept
  BY <1>0, <1>1, <1>2, <1>6 DEF OpenStageIteration, DispatchAware, DispatchOr, HandoffDispatch
<1>7. QED
  BY <1>3, <1>4, <1>5, <1>6

LEMMA CommitHandoffKeeps == CoordInv /\ CommitHandoff => CommandKept
<1> SUFFICES ASSUME CoordInv, CommitHandoff PROVE CommandKept
  OBVIOUS
<1>0. cmd.pc = "handoff" /\ Pending = {} /\ UNCHANGED <<helper, disk>>
  BY DEF CommitHandoff, CoordInv, CommandInv, Owned, Holding, DispatchAware, DispatchOr
<1>1. CASE CommitCommand /\ cmd' = At("committed")
  <2>1. UNCHANGED executions /\ UNCHANGED helper /\ UNCHANGED artifacts
    BY <1>0, <1>1 DEF CommitCommand, TransitionCommitted, disk
  <2>2. QED
    BY <1>0, <1>1, <2>1, MovesOn DEF Idle, Finalizers, Holding, Places, Pcs, AgentPcs, Placed, Suspending
<1>2. QED
  BY <1>0, <1>1, PersistReturns DEF CommitHandoff, DispatchAware, DispatchOr

\* A command refused returns without having held anything.
LEMMA RefusedKeeps ==
  ASSUME CoordInv, cmd.pc \notin Holding, cmd' = Returned("refused"), UNCHANGED helper
  PROVE  CommandKept
<1>1. Pending = {} /\ "refused" \in Reports
      /\ UNCHANGED <<issued, live, undeletable, orphaned>>
  BY DEF CoordInv, CommandInv, Owned, Reports, helper
<1>2. cmd'.report = "refused"
  BY <1>1, ReturnedIs
<1>3. ReportHonest'
  BY <1>2 DEF ReportHonest, TerminalReason, CleanupReason
<1>4. QED
  BY <1>1, <1>3, ReturnsKeeps

LEMMA RefuseEdgeKeeps == CoordInv /\ RefuseEdge => CommandKept
BY RefusedKeeps DEF RefuseEdge, Return, Become, Holding

LEMMA ResumeKeeps == CoordInv /\ (Resume \/ ResumePlan) => CommandKept
<1> SUFFICES ASSUME CoordInv, Resume \/ ResumePlan PROVE CommandKept
  OBVIOUS
<1>0. /\ Idle /\ UNCHANGED <<helper, disk>> /\ UNCHANGED vars
      /\ cmd.pc \notin Holding
  BY DEF Resume, ResumePlan, Become, Idle, Holding
<1>1. CASE cmd' = Returned("refused")
  BY <1>0, <1>1, RefusedKeeps
<1>2. ASSUME NEW pc \in {"recover", "committed", "handoff"},
             cmd' = [Returned(None) EXCEPT !.pc = pc],
             pc = "recover" => Window # "none",
             pc = "handoff" => PlanningSettled /\ ~AllBound
      PROVE  CommandKept
  <2>1. cmd'.pc = pc
    BY <1>2 DEF Returned
  <2>2. Positions'
    BY <1>0, <1>2, <2>1, SettledSame DEF Positions
  <2>3. QED
    BY <1>0, <1>2, <2>2, FreshKeeps
<1>3. CASE Resume
  BY <1>1, <1>2, <1>3 DEF Resume, Become
<1>4. CASE ResumePlan
  BY <1>1, <1>2, <1>4 DEF ResumePlan, Become
<1>5. QED
  BY <1>3, <1>4

\* A crash leaves what was live to nobody.
LEMMA CrashKeeps == CoordInv /\ Crash => CommandKept
<1> SUFFICES ASSUME CoordInv, Crash PROVE CommandKept
  OBVIOUS
<1>1. "crashed" \in Reports /\ cmd' = Returned("crashed") /\ live' \subseteq orphaned'
  BY DEF Crash, Reports
<1>2. /\ cmd' \in Command /\ cmd'.pc = "idle" /\ cmd'.report = "crashed"
      /\ cmd'.cutoff = "open" /\ ~cmd'.abandoned /\ ~cmd'.unfinished
      /\ cmd'.log = None
      /\ \A k \in Slots : cmd'.slot[k] = EmptySlot
  BY <1>1, ReturnedIs
<1>3. Positions' /\ Tracks'
  BY <1>2 DEF Positions, Tracks
<1>4. Locals'
  BY <1>2, NoneAssumption, CoordinatorAssumption DEF Locals, Idle, AgentPcs, Finalizers
<1>5. Owned'
  BY <1>1, <1>2 DEF Owned, Pending, EmptySlot, RecordsAt, Slots
<1>6. ReportHonest'
  BY <1>2 DEF ReportHonest, TerminalReason, CleanupReason
<1>7. QED
  BY <1>2, <1>3, <1>4, <1>5, <1>6 DEF CommandKept

\* A signal, or nothing at all, leaves the command where it is.
LEMMA SameKeeps ==
  ASSUME CoordInv, UNCHANGED <<vars, helper, disk>>,
         \E signal \in BOOLEAN : cmd' = [cmd EXCEPT !.signal = signal]
  PROVE  CommandKept
<1>0. /\ UNCHANGED vars /\ cmd \in Command
      /\ UNCHANGED <<issued, live, undeletable, orphaned, artifacts, tree>>
      /\ Positions /\ Locals /\ Owned /\ Tracks /\ ReportHonest
  BY CommandIs DEF CoordInv, CommandInv, helper, disk
<1>1. /\ cmd' \in Command /\ cmd'.pc = cmd.pc /\ cmd'.report = cmd.report
      /\ cmd'.cutoff = cmd.cutoff /\ cmd'.abandoned = cmd.abandoned
      /\ cmd'.unfinished = cmd.unfinished /\ cmd'.log = cmd.log
      /\ cmd'.cause = cmd.cause /\ cmd'.slot = cmd.slot
  BY <1>0 DEF Command
<1>2. UNCHANGED <<executions, cursor, status, failure>>
  BY <1>0 DEF vars, graph, outcome
<1>3. Positions'
  BY <1>0, <1>1, <1>2, SettledSame DEF Positions, LastExecution, Current
<1>4. CleanupFailedDurably' = CleanupFailedDurably /\ Pending' = Pending
  BY <1>1 DEF CleanupFailedDurably, SlotOutcome, Pending
<1>5. Locals'
  BY <1>0, <1>1, <1>2, <1>4 DEF Locals, Idle
<1>6. Owned'
  BY <1>0, <1>1, <1>4 DEF Owned
<1>7. Tracks'
  BY <1>0, <1>1, UnchangedSessions
<1>8. ReportHonest'
  BY <1>0, <1>1, <1>2, SettledSame DEF ReportHonest, Idle
<1>9. QED
  BY <1>1, <1>3, <1>5, <1>6, <1>7, <1>8 DEF CommandKept

LEMMA SignalKeeps == CoordInv /\ SignalArrives => CommandKept
BY SameKeeps DEF SignalArrives

LEMMA StutterKeeps == CoordInv /\ UNCHANGED coordVars => CommandKept
<1> SUFFICES ASSUME CoordInv, UNCHANGED coordVars PROVE CommandKept
  OBVIOUS
<1>1. cmd.signal \in BOOLEAN /\ cmd' = [cmd EXCEPT !.signal = cmd.signal]
  BY CommandIs DEF Command, coordVars
<1>2. QED
  BY <1>1, SameKeeps DEF coordVars

LEMMA CommandNext == CoordInv /\ [CoordNext]_coordVars => CommandKept
<1> SUFFICES ASSUME CoordInv, [CoordNext]_coordVars PROVE CommandKept
  OBVIOUS
<1>1. CASE Execute
  BY <1>1, FailingKeep, StartKeeps, PrepareKeeps, CreateSessionKeeps, CreationMisownedKeeps,
     RecordSessionKeeps, MarkRunningKeeps, WorkerEndsKeeps, RecordWorkerLogKeeps,
     AcceptOutputsKeeps, DeleteSessionKeeps, SettleAgentKeeps, EvaluateKeeps DEF Execute
<1>2. CASE Advance
  BY <1>2, FailingKeep, SuspendPlanReadyKeeps, VerifyPlanReadyKeeps, CommitTransitionKeeps,
     AttemptWaitKeeps, EnterWaitKeeps, SuspendWaitingKeeps, ContinueEngineKeeps, ReachTerminalKeeps, PublishOutputsKeeps, RecordOutputsKeeps,
     ConcludeKeeps DEF Advance
<1>3. CASE Settlement
  BY <1>3, FinalizeExecutionKeeps, FinalizeRunKeeps, FinalizeAgainKeeps,
     RecoveryInterruptedKeeps, RecoverFinalizationKeeps, RecoverTransitionKeeps,
     RecoverTerminalKeeps, RecoverAgentKeeps, RecoverAgentSettleKeeps DEF Settlement
<1>4. CASE Handoff
  BY <1>4, HandoffKeeps, CommitHandoffKeeps, RefuseEdgeKeeps DEF Handoff
<1>5. CASE SignalArrives \/ Crash \/ Resume \/ ResumePlan \/ UNCHANGED coordVars
  BY <1>5, SignalKeeps, CrashKeeps, ResumeKeeps, StutterKeeps
<1>6. QED
  BY <1>1, <1>2, <1>3, <1>4, <1>5 DEF CoordNext, Step

-----------------------------------------------------------------------------
(* The whole invariant, and what it gives.                                 *)

LEMMA HelperTypes ==
  ASSUME CoordInv, [CoordNext]_coordVars
  PROVE  /\ issued' \in Nat /\ live' \subseteq SessionIds
         /\ undeletable' \subseteq SessionIds /\ orphaned' \subseteq SessionIds
         /\ artifacts' \subseteq Nat /\ tree' \in BOOLEAN
<1>0. /\ issued \in Nat /\ live \subseteq SessionIds /\ undeletable \subseteq SessionIds
      /\ orphaned \subseteq SessionIds /\ artifacts \subseteq Nat /\ tree \in BOOLEAN
      /\ Len(executions) \in Nat
  BY DEF CoordInv, CoordTypeOK, TypeOK
<1>1. CASE UNCHANGED <<helper, disk>>
  BY <1>0, <1>1 DEF helper, disk
<1>2. ASSUME NEW k \in Slots, CreateSession(k) \/ CreationMisowned(k)
      PROVE  /\ issued' = issued + 1 /\ NextSession \in SessionIds
             /\ live' \subseteq live \cup {NextSession}
             /\ undeletable' \subseteq undeletable \cup {NextSession}
             /\ UNCHANGED <<orphaned, artifacts, tree>>
  BY <1>2 DEF CreateSession, CreationMisowned, NextSession, disk
<1>3. CASE RecordWorkerLog
  BY <1>0, <1>3 DEF RecordWorkerLog, helper
<1>4. CASE DeleteSession
  <2>1. cmd.slot[NextSlot].id \in SessionIds
    BY <1>4, CommandTypes DEF DeleteSession, NextSlot, Pending, Slots, CoordInv
  <2>2. QED
    BY <1>0, <1>4, <2>1 DEF DeleteSession, disk
<1>5. CASE PublishOutputs
  BY <1>0, <1>5 DEF PublishOutputs, helper
<1>6. CASE Crash
  BY <1>0, <1>6 DEF Crash, disk
<1>7. ASSUME NEW k \in Slots, CreateSession(k) \/ CreationMisowned(k)
      PROVE  /\ issued' \in Nat /\ live' \subseteq SessionIds
             /\ undeletable' \subseteq SessionIds /\ orphaned' \subseteq SessionIds
             /\ artifacts' \subseteq Nat /\ tree' \in BOOLEAN
  <2>1. /\ issued' = issued + 1 /\ NextSession \in SessionIds
        /\ live' \subseteq live \cup {NextSession}
        /\ undeletable' \subseteq undeletable \cup {NextSession}
        /\ UNCHANGED <<orphaned, artifacts, tree>>
    BY <1>2, <1>7
  <2>2. QED
    BY <1>0, <2>1
<1>8. QED
  BY <1>1, <1>3, <1>4, <1>5, <1>6, <1>7, HelperSteps

LEMMA CoordInvNext == CoordInv /\ [CoordNext]_coordVars => CoordInv'
<1> SUFFICES ASSUME CoordInv, [CoordNext]_coordVars PROVE CoordInv'
  OBVIOUS
<1>1. DocumentInv' /\ CommandKept
  BY DocumentNext, CommandNext
<1>2. CoordTypeOK'
  BY <1>1, HelperTypes
     DEF CommandKept, Command, Causes, Slot, DocumentInv, RunInv, CoordTypeOK
<1>3. QED
  BY <1>1, <1>2 DEF CommandKept, CoordInv, CommandInv

LEMMA CoordInvInit == CoordInit => CoordInv
<1> SUFFICES ASSUME CoordInit PROVE CoordInv
  OBVIOUS
<1>0. /\ Init /\ cmd = [Returned(None) EXCEPT !.pc = "engine"]
      /\ issued = 0 /\ live = {} /\ undeletable = {} /\ orphaned = {}
      /\ artifacts = {} /\ tree = FALSE
  BY DEF CoordInit
<1>1. RunInv /\ TypeOK
  BY <1>0, RunInvInit DEF RunInv
<1>2. executions = <<>> /\ generations = <<>> /\ waits = <<>> /\ grants = <<>> /\ ~run_outputs
  BY <1>0 DEF Init
<1>3. DocumentInv
  <2>1. DOMAIN executions = {} /\ DOMAIN generations = {}
    BY <1>2
  <2>2. QED
    BY <1>0, <1>1, <1>2, <2>1
       DEF DocumentInv, Compiled, OpenedByExecution, EndsAtWait, IdsIssued, CleanupRecordsTrue,
           RecordsBacked
<1>4. /\ cmd \in Command /\ cmd.pc = "engine" /\ cmd.report = None
      /\ cmd.cutoff = "open" /\ ~cmd.abandoned /\ ~cmd.unfinished
      /\ cmd.log = None /\ \A k \in Slots : cmd.slot[k] = EmptySlot
  <2>1. Returned(None) \in Command /\ "engine" \in Pcs
    BY ReturnedIs DEF Pcs
  <2>2. QED
    BY <1>0, <2>1, ReturnedIs DEF Command
<1>5. CoordTypeOK
  BY <1>0, <1>1, <1>4 DEF CoordTypeOK, Command, Causes, Slot
<1>6. Positions /\ Tracks /\ ReportHonest
  BY <1>4 DEF Positions, Tracks, ReportHonest, Idle
<1>7. Locals
  BY <1>4, NoneAssumption, CoordinatorAssumption DEF Locals, Idle, AgentPcs, Finalizers
<1>8. Owned
  BY <1>0, <1>4 DEF Owned, Pending, EmptySlot, RecordsAt, Slots
<1>9. QED
  BY <1>3, <1>5, <1>6, <1>7, <1>8 DEF CoordInv, CommandInv

LEMMA CoordInvAlways == CoordSpec => []CoordInv
<1>1. QED
  BY CoordInvInit, CoordInvNext, PTL DEF CoordSpec

\* Whatever the coordinator, a signal or a crash does, the durable document only ever
\* takes the steps of the reducer: every dispatch of pipeline_v2_coordinator.ts and
\* pipeline_v2_recovery.ts, with the parameters it passes, is a command RunState allows
\* from a state it can be in, so that every theorem about RunState is one about the
\* coordinated run.
THEOREM CoordinatorImplementsRunState == CoordSpec => ImplementsRunState
<1>1. CoordInit => Init
  BY DEF CoordInit
<1>2. CoordInv /\ [CoordNext]_coordVars => [Next]_vars
  BY StepImplements
<1>3. QED
  BY <1>1, <1>2, CoordInvAlways, PTL DEF CoordSpec, ImplementsRunState, Spec

\* Every variable of the coordination keeps its type, the command's locals included.
THEOREM CoordTypeCorrect == CoordSpec => []CoordTypeOK
<1>1. CoordInv => CoordTypeOK
  BY DEF CoordInv
<1>2. QED
  BY <1>1, CoordInvAlways, PTL

\* What is recorded is so, whatever failed or died before: a session whose cleanup is
\* recorded as completed is gone and one recorded as failed was tried; no command
\* returns before it tried to delete every session it created (only a dead process
\* leaves one untried); outputs and captured logs are on disk before the document
\* says so; and what a command reports is what it leaves behind.
THEOREM RecordsTrueAlways == CoordSpec => []RecordsTrue
<1>1. CoordInv => RecordsTrue
  <2>1. SUFFICES ASSUME CoordInv PROVE RecordsTrue
    OBVIOUS
  <2>2. ASSUME Idle PROVE live \subseteq undeletable \cup orphaned
    <3>1. Pending = {}
      BY <2>1, <2>2 DEF CoordInv, CommandInv, Owned, Idle, Holding
    <3>2. QED
      BY <2>1, <3>1 DEF CoordInv, CommandInv, Owned
  <2>3. QED
    BY <2>1, <2>2 DEF RecordsTrue, EverySessionAttempted, CoordInv, DocumentInv
<1>2. QED
  BY <1>1, CoordInvAlways, PTL

\* The engine and the places past a command's last look at the signal are entered
\* from their checkpoints only.
Watched == {"engine"} \cup Suspending

LEMMA PlaceEntered ==
  ASSUME CoordInv, [CoordNext]_coordVars, cmd'.pc \in Watched
  PROVE  \/ ContinueEngine \/ SuspendPlanReady \/ AttemptWait \/ EnterWait
         \/ SignalArrives \/ UNCHANGED coordVars
<1> DEFINE Elsewhere == cmd'.pc \notin Watched
<1>0. cmd \in Command
  BY CommandIs
\* What the next command can be.
<1>1. \A pc : At(pc).pc = pc
  BY <1>0 DEF At, Command
<1>2. \A cause : Failing(cause).pc = "finalize" /\ Abandoning(Failing(cause)).pc = "finalize"
  BY <1>0 DEF Failing, Abandoning, Command
<1>3. \A report : Returned(report).pc = "idle" /\ Abandoning(Returned(report)).pc = "idle"
  BY DEF Returned, Abandoning
<1> USE DEF Watched, Suspending, Dispatch, DispatchAware, DispatchOr, Become, Fail, Return
<1>6. ASSUME \/ EngineRefuses \/ PreparationFails \/ Prepare \/ MarkRunning
             \/ WorkerEnds \/ WorkerThrows \/ AcceptOutputs
      PROVE  Elsewhere
  BY <1>1, <1>2, <1>6 DEF EngineRefuses, PreparationFails, Prepare, MarkRunning, WorkerEnds,
     WorkerThrows, AcceptOutputs
<1>7. ASSUME \E k \in Slots : CreationFails(k) \/ CreationMisowned(k) PROVE Elsewhere
  BY <1>2, <1>7 DEF CreationFails, CreationMisowned
<1>8. ASSUME Start PROVE Elsewhere
  <2>1. \A pc : Tracked(pc).pc = pc
    BY <1>0 DEF Tracked, At, Command
  <2>2. QED
    BY <1>2, <1>8, <2>1 DEF Start
<1>9. ASSUME NEW k \in Slots, RecordSession(k) \/ CreateSession(k) PROVE Elsewhere
  <2>1. /\ [At(AfterRecord[k]) EXCEPT !.slot[k].durable = TRUE].pc = AfterRecord[k]
        /\ [At(RecordsAt[k]) EXCEPT !.slot[k].id = NextSession].pc = RecordsAt[k]
    BY <1>0 DEF At, Command
  <2>2. AfterRecord[k] \notin Watched /\ RecordsAt[k] \notin Watched
    BY DEF AfterRecord, RecordsAt, Slots
  <2>3. QED
    BY <1>2, <1>9, <2>1, <2>2 DEF RecordSession, CreateSession
<1>10. ASSUME RecordWorkerLog PROVE Elsewhere
  <2>1. \A log : Logged(log).pc \in {"accept", "finalize"}
    BY <1>0 DEF Logged, At, Failing, Command
  <2>2. QED
    BY <1>10, <2>1 DEF RecordWorkerLog
<1>11. ASSUME DeleteSession PROVE Elsewhere
  <2>1. cmd'.pc = cmd.pc /\ cmd.pc \notin Watched
    BY <1>0, <1>11 DEF DeleteSession, Command, Cleans
  <2>2. QED
    BY <2>1
<1>12. ASSUME SettleAgent \/ Evaluate PROVE Elsewhere
  <2>1. [At("settled") EXCEPT !.unfinished = FALSE].pc = "settled"
    BY <1>0 DEF At, Command
  <2>2. QED
    BY <1>2, <1>12, <2>1 DEF SettleAgent, Evaluate
<1>13. ASSUME \/ Interrupted \/ CommitTransition \/ PublishOutputs \/ PublicationFails
              \/ RecordOutputs \/ VerifyPlanReady \/ SuspendWaiting \/ ReachTerminal
       PROVE  Elsewhere
  BY <1>1, <1>2, <1>3, <1>13 DEF Interrupted, CommitTransition, PublishOutputs,
     PublicationFails, RecordOutputs, VerifyPlanReady, SuspendWaiting, ReachTerminal
<1>14. ASSUME Conclude PROVE Elsewhere
  <2>1. \A cause \in {"signal", "persist"} :
          LET c == [Failing(cause) EXCEPT !.cutoff = Cutoff] IN
          c.pc = "finalize" /\ Abandoning(c).pc = "finalize"
    BY <1>0 DEF Failing, Abandoning, Command
  <2>2. QED
    BY <1>3, <1>14, <2>1 DEF Conclude
<1>15. ASSUME FinalizeExecution PROVE Elsewhere
  <2>1. /\ Finalizing.pc = "finalize_run"
        /\ [Finalizing EXCEPT !.unfinished = FALSE].pc = "finalize_run"
    BY <1>0 DEF Finalizing, Command
  <2>2. QED
    BY <1>3, <1>15, <2>1 DEF FinalizeExecution
<1>16. ASSUME FinalizeRun \/ FinalizeAgain \/ RecoveryInterrupted \/ RefuseEdge
       PROVE  Elsewhere
  BY <1>1, <1>3, <1>16 DEF FinalizeRun, FinalizeAgain, RecoveryInterrupted, RefuseEdge
<1>18. ASSUME RecoverFinalization PROVE Elsewhere
  BY <1>3, <1>18 DEF RecoverFinalization, FinalizationReport
<1>19. ASSUME RecoverTransition \/ RecoverTerminal \/ RecoverAgentSettle PROVE Elsewhere
  BY <1>1, <1>3, <1>19 DEF RecoverTransition, RecoverTerminal, RecoverAgentSettle
<1>20. ASSUME RecoverAgent PROVE Elsewhere
  <2>1. \A log, slot : [At("recover_cleanup") EXCEPT !.log = log, !.slot = slot].pc
                         = "recover_cleanup"
    BY <1>0 DEF At, Command
  <2>2. QED
    BY <1>20, <2>1 DEF RecoverAgent
<1>21. ASSUME \/ AcceptTask \/ AcceptPlan \/ OpenStageGeneration \/ OpenStageIteration
              \/ CommitHandoff
       PROVE  Elsewhere
  BY <1>1, <1>3, <1>21 DEF AcceptTask, AcceptPlan, OpenStageGeneration, OpenStageIteration,
     CommitHandoff
<1>22. ASSUME Crash \/ Resume \/ ResumePlan PROVE Elsewhere
  <2>1. \A pc : [Returned(None) EXCEPT !.pc = pc].pc = pc
    BY DEF Returned
  <2>2. QED
    BY <1>3, <1>22, <2>1 DEF Crash, Resume, ResumePlan
<1>23. QED
  BY <1>6, <1>7, <1>8, <1>9, <1>10, <1>11, <1>12, <1>13, <1>14, <1>15, <1>16, <1>18,
     <1>19, <1>20, <1>21, <1>22
     DEF CoordNext, Step, Execute, Advance, Settlement, Handoff

\* A command that accepted a signal and is not past its last look at it reports no
\* success and no orderly suspension with its next step.
Unheard == {"success", "waiting", "plan_ready"}

LEMMA SignalHeard ==
  ASSUME CoordInv, ~Idle, cmd.signal, cmd.pc \notin Suspending, [CoordNext]_coordVars
  PROVE  cmd'.report \notin Unheard
<1> DEFINE Heard == cmd'.report \notin Unheard
<1>0. /\ cmd \in Command /\ cmd.report = None /\ None \notin Unheard
      /\ Locals /\ cmd.cause \in Causes
  BY CommandIs, ReportAssumption DEF CoordInv, CommandInv, Locals, Command, Reports, Unheard
\* What the next command can be: still running, or returned with a report.
<1>1. \A pc : At(pc).report \notin Unheard
  BY <1>0 DEF At, Command
<1>2. \A cause \in {"other", "signal", "persist"} :
        /\ Failing(cause).report \notin Unheard
        /\ Abandoning(Failing(cause)).report \notin Unheard
  BY <1>0, FailingIs DEF Causes
<1>3. \A report : Returned(report).report = report
  BY DEF Returned
<1>4. Abandoning(Returned("persist")) = Returned("persist")
  BY DEF Abandoning, Returned
<1>5. {"persist", "other", "signal", "refused", "crashed", TerminalReason, CleanupReason}
        \cap Unheard = {}
  BY DEF Unheard, TerminalReason, CleanupReason
<1> USE DEF Dispatch, DispatchAware, DispatchOr, Become, Fail, Return
<1>6. ASSUME \/ EngineRefuses \/ PreparationFails \/ Prepare \/ MarkRunning
             \/ WorkerEnds \/ WorkerThrows \/ AcceptOutputs
      PROVE  Heard
  BY <1>1, <1>2, <1>6 DEF EngineRefuses, PreparationFails, Prepare, MarkRunning, WorkerEnds,
     WorkerThrows, AcceptOutputs
<1>7. ASSUME \E k \in Slots : CreationFails(k) \/ CreationMisowned(k) PROVE Heard
  BY <1>2, <1>7 DEF CreationFails, CreationMisowned
\* Steps that take a signal's absence for granted, or lie past the last look at it.
<1>8. ASSUME \/ Start \/ Evaluate \/ SuspendPlanReady \/ VerifyPlanReady \/ AttemptWait
             \/ EnterWait \/ SuspendWaiting \/ ContinueEngine
             \/ ReachTerminal \/ \E k \in Slots : CreateSession(k)
      PROVE  FALSE
  BY <1>8 DEF Start, Evaluate, SuspendPlanReady, VerifyPlanReady, AttemptWait, EnterWait,
     SuspendWaiting, ContinueEngine, ReachTerminal, CreateSession, Suspending
<1>9. ASSUME NEW k \in Slots, RecordSession(k) PROVE Heard
  <2>1. [At(AfterRecord[k]) EXCEPT !.slot[k].durable = TRUE].report = cmd.report
    BY <1>0 DEF At, Command
  <2>2. QED
    BY <1>0, <1>2, <1>9, <2>1 DEF RecordSession
<1>10. ASSUME RecordWorkerLog PROVE Heard
  <2>1. \A log : Logged(log).report = cmd.report
    BY <1>0 DEF Logged, At, Failing, Command
  <2>2. QED
    BY <1>0, <1>10, <2>1 DEF RecordWorkerLog
<1>11. ASSUME DeleteSession PROVE Heard
  BY <1>0, <1>11 DEF DeleteSession, Command
<1>12. ASSUME SettleAgent PROVE Heard
  <2>1. [At("settled") EXCEPT !.unfinished = FALSE].report = cmd.report
    BY <1>0 DEF At, Command
  <2>2. QED
    BY <1>0, <1>2, <1>12, <2>1 DEF SettleAgent
<1>13. ASSUME \/ Interrupted \/ CommitTransition \/ PublishOutputs \/ PublicationFails
              \/ RecordOutputs
       PROVE  Heard
  BY <1>1, <1>2, <1>13 DEF Interrupted, CommitTransition, PublishOutputs, PublicationFails,
     RecordOutputs
<1>14. ASSUME Conclude PROVE Heard
  <2>1. cmd.pc = "conclude" /\ cmd.cutoff = "open" /\ Cutoff = "signal"
    BY <1>0, <1>14 DEF Conclude, Locals, Finalizers, Cutoff
  <2>2. \A cause \in {"signal", "persist"} :
          LET c == [Failing(cause) EXCEPT !.cutoff = Cutoff] IN
          c.report = cmd.report /\ Abandoning(c).report = cmd.report
    BY <1>0 DEF Failing, Abandoning, Command
  <2>3. CASE terminal.result = "success"
    BY <1>0, <1>14, <2>1, <2>2, <2>3 DEF Conclude
  <2>4. CASE terminal.result # "success"
    BY <1>0, <1>3, <1>5, <1>14, <2>1, <2>2, <2>4 DEF Conclude
  <2>5. QED
    BY <2>3, <2>4
<1>15. ASSUME FinalizeExecution PROVE Heard
  <2>1. /\ Finalizing.report = cmd.report
        /\ [Finalizing EXCEPT !.unfinished = FALSE].report = cmd.report
    BY <1>0 DEF Finalizing, Command
  <2>2. QED
    BY <1>0, <1>3, <1>4, <1>5, <1>15, <2>1 DEF FinalizeExecution
<1>16. ASSUME FinalizeRun PROVE Heard
  <2>1. cmd.cause \notin Unheard
    BY <1>0, <1>5 DEF Causes
  <2>2. QED
    BY <1>1, <1>3, <1>5, <1>16, <2>1 DEF FinalizeRun
<1>17. ASSUME FinalizeAgain \/ RecoveryInterrupted \/ RefuseEdge PROVE Heard
  BY <1>3, <1>4, <1>5, <1>17 DEF FinalizeAgain, RecoveryInterrupted, RefuseEdge
<1>18. ASSUME RecoverFinalization PROVE Heard
  BY <1>3, <1>4, <1>5, <1>18 DEF RecoverFinalization, FinalizationReport
<1>19. ASSUME RecoverTransition \/ RecoverTerminal \/ RecoverAgentSettle PROVE Heard
  BY <1>1, <1>3, <1>4, <1>5, <1>19 DEF RecoverTransition, RecoverTerminal, RecoverAgentSettle
<1>20. ASSUME RecoverAgent PROVE Heard
  <2>1. \A log, slot : [At("recover_cleanup") EXCEPT !.log = log, !.slot = slot].report
                         = cmd.report
    BY <1>0 DEF At, Command
  <2>2. QED
    BY <1>0, <1>20, <2>1 DEF RecoverAgent
<1>21. ASSUME \/ AcceptTask \/ AcceptPlan \/ OpenStageGeneration \/ OpenStageIteration
              \/ CommitHandoff
       PROVE  Heard
  BY <1>0, <1>1, <1>3, <1>4, <1>5, <1>21 DEF AcceptTask, AcceptPlan, OpenStageGeneration,
     OpenStageIteration, CommitHandoff
<1>22. ASSUME SignalArrives \/ Crash \/ Resume \/ ResumePlan \/ UNCHANGED coordVars
       PROVE  Heard
  BY <1>0, <1>3, <1>5, <1>22 DEF SignalArrives, Crash, Resume, ResumePlan, coordVars, Command
<1>23. QED
  BY <1>6, <1>7, <1>8, <1>9, <1>10, <1>11, <1>12, <1>13, <1>14, <1>15, <1>16, <1>17, <1>18,
     <1>19, <1>20, <1>21, <1>22
     DEF CoordNext, Step, Execute, Advance, Settlement, Handoff

\* Nor does it pass that last look.
LEMMA SignalStops ==
  ASSUME CoordInv, ~Idle, cmd.signal, cmd.pc \notin Suspending, [CoordNext]_coordVars
  PROVE  cmd'.pc \notin Suspending
<1>0. cmd \in Command
  BY CommandIs
<1>1. SUFFICES ASSUME cmd'.pc \in Suspending PROVE FALSE
  OBVIOUS
<1>2. \/ ContinueEngine \/ SuspendPlanReady \/ AttemptWait \/ EnterWait
      \/ SignalArrives \/ UNCHANGED coordVars
  BY <1>1, PlaceEntered DEF Watched
<1>3. ~ContinueEngine /\ ~SuspendPlanReady /\ ~AttemptWait /\ ~EnterWait
  BY DEF ContinueEngine, SuspendPlanReady, AttemptWait, EnterWait, Suspending
<1>4. ~SignalArrives
  BY DEF SignalArrives
<1>5. QED
  BY <1>1, <1>2, <1>3, <1>4 DEF coordVars

\* A signal is ignored only if it came after the command's last look: until then the
\* command that accepted it reports neither success nor an orderly suspension and does
\* not pass that look, not even when the signal races the run's final write, since the
\* cutoff that freezes the signal is taken before that write.
THEOREM SignalNeverIgnoredAlways == CoordSpec => SignalNeverIgnored
<1>1. CoordInv /\ [CoordNext]_coordVars =>
        [~Idle /\ cmd.signal /\ cmd.pc \notin Suspending =>
           /\ cmd'.report \notin {"success", "waiting", "plan_ready"}
           /\ cmd'.pc \notin Suspending]_coordVars
  BY SignalHeard, SignalStops DEF Unheard
<1>2. QED
  BY <1>1, CoordInvAlways, PTL DEF CoordSpec, SignalNeverIgnored

-----------------------------------------------------------------------------
(* Where a run stands that no command works on.                            *)

\* An active run is at a boundary, in a recovery window, before its handoff, or where
\* a crash left it in one of the three ways that nothing continues.
LEMMA ActiveIsKnown ==
  ASSUME CoordInv, status = "active"
  PROVE  \/ Window # "none"
         \/ CleanActive
         \/ PlanningSettled /\ ~AllBound /\ PlanReady
         \/ Strandable
<1>1. /\ TypeOK /\ Paired /\ WaitTriple /\ FinalStatusCoherent /\ OutputsBeforeEnd
      /\ Compiled /\ EndsAtWait
  BY DEF CoordInv, DocumentInv, RunInv, EndingInv
<1>2. SUFFICES ASSUME Window = "none"
               PROVE  \/ CleanActive
                      \/ PlanningSettled /\ ~AllBound /\ PlanReady
                      \/ Strandable
  OBVIOUS
<1>3. terminal = None /\ ~run_outputs /\ failure = None
  BY <1>1, <1>2 DEF Window, FinalStatusCoherent, TypeOK
<1>4. phase = "running"
  BY <1>1, <1>3 DEF WaitTriple, OutputsBeforeEnd, TypeOK, Phases
<1>5. waits = <<>> /\ grants = <<>> /\ ~HasOpenWait
  BY <1>1 DEF EndsAtWait, HasOpenWait
<1>6. CASE AllBound
  <2>1. ASSUME NEW e \in DOMAIN executions
        PROVE  executions[e].phase \in {"cleanup_completed", "evaluated"}
    <3>1. e \in DOMAIN transitions
      BY <1>1, <1>6 DEF AllBound, TypeOK
    <3>2. QED
      BY <1>1, <3>1 DEF Paired, ExecutionPairing
  <2>2. AllSettled
    BY <2>1 DEF AllSettled, IsSettled
  <2>3. ~LastFailed
    <3>1. SUFFICES ASSUME executions # <<>> PROVE LastExecution.phase # "failed"
      BY DEF LastFailed
    <3>2. Len(executions) \in DOMAIN executions /\ LastExecution = executions[Len(executions)]
      BY <3>1, LastCompiled
    <3>3. QED
      BY <2>1, <3>2
  <2>4. Undecided
    BY <1>3 DEF Undecided
  <2>5. QED
    BY <1>4, <1>5, <1>6, <2>2, <2>3, <2>4 DEF CleanActive
<1>7. CASE ~AllBound
  <2>1. executions # <<>>
    BY <1>1, <1>7 DEF Paired, ExecutionPairing, AllBound, TypeOK
  <2>2. LastExecution \in Execution /\ CompiledExecution(LastExecution)
    BY <2>1, LastCompiled
  <2>3. UnboundWindow = "none"
    BY <1>2, <1>3, <1>4, <1>7 DEF Window
  <2> DEFINE role == LastExecution.execution_role
             type == LastExecution.type
             at == LastExecution.phase
             s == LastExecution.state_id
  <2>4. /\ role \in {"planning", "control", "stage"} /\ type \in {"agent", "decision"}
        /\ at \in AgentPhases \cup DecisionPhases
    BY <2>2 DEF Execution, Roles
  <2>5. /\ role = "planning" => type = "agent"
        /\ role = "control" => type = "decision"
    BY <2>2, CompiledAssumption DEF CompiledExecution
  <2>6. /\ at # "failed"
        /\ ~Recovered
        /\ ~LastRecordedAs("stage", "agent", "cleanup_completed")
        /\ ~LastRecordedAs("control", "decision", "evaluated")
    BY <2>3, Zenon DEF UnboundWindow, Recovered
  <2>7. CASE ~IsSettled(LastExecution)
    BY <2>1, <2>6, <2>7 DEF Strandable, InFlight
  <2>8. CASE IsSettled(LastExecution)
    <3>1. at \in {"cleanup_completed", "evaluated"}
      BY <2>6, <2>8 DEF IsSettled
    <3>2. type = "agent" => at = "cleanup_completed"
      BY <2>2, <3>1 DEF CompiledExecution, AgentPhases
    <3>3. type = "decision" => at = "evaluated"
      BY <2>2, <3>1 DEF CompiledExecution, DecisionPhases
    <3>4. CASE role = "stage"
      BY <1>7, <2>4, <2>6, <3>1, <3>2, <3>3, <3>4 DEF LastRecordedAs, Strandable
    <3>5. CASE role = "planning"
      <4>1. PlanningSettled
        BY <1>3, <1>4, <1>5, <2>1, <2>5, <3>2, <3>5
           DEF PlanningSettled, Undecided, LastRecordedAs
      <4>2. QED
        BY <1>7, <4>1 DEF Strandable
    <3>6. CASE role = "control"
      BY <2>5, <2>6, <3>3, <3>6 DEF LastRecordedAs
    <3>7. QED
      BY <2>4, <3>4, <3>5, <3>6
  <2>9. QED
    BY <2>7, <2>8
<1>8. QED
  BY <1>6, <1>7

-----------------------------------------------------------------------------
(* The engine is entered from the boundary check only.                     *)

\* Only the boundary check, on a document it leaves alone, leads into the engine.
LEMMA EngineEntered ==
  ASSUME CoordInv, [CoordNext]_coordVars, cmd'.pc = "engine"
  PROVE  UNCHANGED vars /\ (cmd.pc = "engine" \/ ~StageWaitBoundary)
<1>0. cmd \in Command
  BY CommandIs
<1>1. \/ ContinueEngine \/ SuspendPlanReady \/ AttemptWait \/ EnterWait
      \/ SignalArrives \/ UNCHANGED coordVars
  BY PlaceEntered DEF Watched
<1>2. \A pc : At(pc).pc = pc
  BY <1>0 DEF At, Command
<1>3. ~SuspendPlanReady /\ ~AttemptWait /\ ~EnterWait
  BY <1>2 DEF SuspendPlanReady, AttemptWait, EnterWait, Become, Return, DispatchAware,
     DispatchOr, Returned, Abandoning
<1>4. CASE ContinueEngine
  BY <1>4 DEF ContinueEngine, Become
<1>5. CASE SignalArrives \/ UNCHANGED coordVars
  BY <1>0, <1>5 DEF SignalArrives, coordVars, Command
<1>6. QED
  BY <1>1, <1>3, <1>4, <1>5

\* So the wait of a stage is never skipped, by a resume either.
LEMMA WaitStaysBefore ==
  CoordInv /\ WaitBeforePlanning /\ [CoordNext]_coordVars => WaitBeforePlanning'
<1> SUFFICES ASSUME CoordInv, WaitBeforePlanning, [CoordNext]_coordVars
               PROVE  WaitBeforePlanning'
  OBVIOUS
<1>2. CASE cmd'.pc = "engine"
  <2>1. UNCHANGED vars /\ (cmd.pc = "engine" \/ ~StageWaitBoundary)
    BY <1>2, EngineEntered
  <2>2. ~StageWaitBoundary
    BY <1>2, <2>1 DEF WaitBeforePlanning
  <2>3. StageWaitBoundary' = StageWaitBoundary
    BY <2>1, SettledSame
  <2>4. QED
    BY <2>2, <2>3 DEF WaitBeforePlanning
<1>3. CASE cmd'.pc # "engine"
  BY <1>3 DEF WaitBeforePlanning
<1>4. QED
  BY <1>2, <1>3

-----------------------------------------------------------------------------
(* What a stage's wait offers.                                             *)

\* The graph of a step: an execution is started or rewritten, or a transition is
\* committed, or nothing of it moves.
LEMMA GraphSteps ==
  ASSUME CoordInv, [CoordNext]_coordVars
  PROVE  \/ UNCHANGED <<executions, transitions, cursor>>
         \/ StartDispatch /\ UNCHANGED <<transitions, cursor>>
         \/ (\E x \in Execution : RewrittenTo(x)) /\ UNCHANGED <<transitions, cursor>>
         \/ CommitDispatch
<1>1. UNCHANGED vars => UNCHANGED <<executions, transitions, cursor>>
  BY DEF vars, graph
<1>2. StartDispatch => UNCHANGED <<transitions, cursor>>
  BY DEF StartDispatch, StartCommand, StartExecution
<1>3. \A x : RewrittenTo(x) => UNCHANGED <<transitions, cursor>>
  BY DEF RewrittenTo, Settle
<1>4. WaitDispatch => UNCHANGED <<executions, transitions, cursor>>
  BY DEF WaitDispatch, WaitCommand, RunWaiting, graph
<1>5. EndDispatch \/ OutputsDispatch => UNCHANGED <<executions, transitions, cursor>>
  BY DEF EndDispatch, OutputsDispatch, TerminalCommand, TerminalReached, RunSucceeded,
         RunFailed, RunCleanupFailed, RunOutputsPublished, graph
<1>6. HandoffDispatch => UNCHANGED <<executions, transitions, cursor>>
  BY DEF HandoffDispatch, TaskRevisionAccepted, PlanRevisionAccepted,
         StageGenerationOpened, StageIterationOpened, graph
<1>7. QED
  BY <1>1, <1>2, <1>3, <1>4, <1>5, <1>6, StepsByCommand, RewriteEffects DEF Dispatched

\* A committed transition is the new last one, and the cursor follows it.
LEMMA CommitEffects ==
  ASSUME CoordInv, CommitDispatch
  PROVE  LET n == Len(executions) IN
         /\ UNCHANGED executions /\ n \in DOMAIN executions
         /\ DOMAIN transitions = 1..(n - 1) /\ DOMAIN transitions' = 1..n
         /\ \A i \in DOMAIN transitions : transitions'[i] = transitions[i]
         /\ Len(transitions') = n
         /\ transitions'[n].to = Current'
         /\ Current' = Edge[LastExecution.state_id][SettledOutcome]
<1> DEFINE to == Edge[LastExecution.state_id][SettledOutcome]
           new == [from |-> cursor.current_state, outcome |-> SettledOutcome, to |-> to,
                   execution_index |-> Len(executions)]
<1>1. /\ UNCHANGED executions /\ executions # <<>>
      /\ transitions' = Append(transitions, new)
      /\ cursor' = [current_state |-> to, transition_count |-> cursor.transition_count + 1]
      /\ \A i \in DOMAIN transitions : transitions[i].execution_index # Len(executions)
  BY DEF CommitDispatch, CommitCommand, TransitionCommitted, Committable
<1>2. /\ transitions \in Seq(Transition) /\ ExecutionPairing /\ Len(executions) \in Nat
      /\ Len(executions) \in DOMAIN executions
  BY <1>1, LastCompiled DEF CoordInv, CoordTypeOK, DocumentInv, RunInv, Paired, TypeOK
<1>3. Len(transitions) = Len(executions) - 1
  <2>1. SUFFICES ASSUME Len(transitions) = Len(executions) PROVE FALSE
    BY <1>2 DEF ExecutionPairing
  <2>2. Len(executions) \in DOMAIN transitions
    BY <1>1, <1>2, <2>1
  <2>3. QED
    BY <1>1, <1>2, <2>2 DEF ExecutionPairing
<1>4. new.to = to /\ Current' = to
  BY <1>1 DEF Current
<1> HIDE DEF new, to
<1>5. /\ Len(transitions') = Len(transitions) + 1
      /\ DOMAIN transitions' = 1..(Len(transitions) + 1)
      /\ DOMAIN transitions = 1..Len(transitions)
      /\ transitions'[Len(transitions) + 1] = new
      /\ \A i \in DOMAIN transitions : transitions'[i] = transitions[i]
  BY <1>1, <1>2
<1>6. QED
  BY <1>1, <1>2, <1>3, <1>4, <1>5 DEF to

\* The executions and the cursor walk along the transitions.
Walked ==
  /\ \A e \in DOMAIN executions : e > 1 => executions[e].state_id = transitions[e - 1].to
  /\ transitions # <<>> => Current = Latest(transitions).to

LEMMA WalkedNext == CoordInv /\ Walked /\ [CoordNext]_coordVars => Walked'
<1> SUFFICES ASSUME CoordInv, Walked, [CoordNext]_coordVars PROVE Walked'
  OBVIOUS
<1>0. /\ executions \in Seq(Execution) /\ transitions \in Seq(Transition)
      /\ Len(transitions) \in {Len(executions), Len(executions) - 1}
      /\ DOMAIN executions = 1..Len(executions) /\ Len(executions) \in Nat
  BY DEF CoordInv, CoordTypeOK, TypeOK, DocumentInv, RunInv, Paired, ExecutionPairing
<1>a. DOMAIN executions = 1..Len(executions) /\ Len(executions) \in Nat
  BY <1>0
<1>1. CASE UNCHANGED <<executions, transitions, cursor>>
  BY <1>1 DEF Walked, Current, Latest
<1>2. CASE StartDispatch /\ UNCHANGED <<transitions, cursor>>
  <2> DEFINE n == Len(executions) + 1
  <2>1. /\ DOMAIN executions' = 1..n /\ executions'[n].state_id = Current
        /\ \A e \in DOMAIN executions : executions'[e] = executions[e]
    BY <1>2, StartEffects
  <2>2. AllBound
    BY <1>2 DEF StartDispatch, StartCommand, StartExecution, StartableCursor
  <2>3. n > 1 => Current = transitions[n - 1].to
    BY <1>0, <2>2 DEF AllBound, Walked, Latest
  <2>4. ASSUME NEW e \in DOMAIN executions', e > 1
        PROVE  executions'[e].state_id = transitions[e - 1].to
    <3>1. e \in DOMAIN executions \/ e = n
      BY <1>a, <2>1
    <3>2. QED
      BY <2>1, <2>3, <2>4, <3>1 DEF Walked
  <2>5. QED
    BY <1>2, <2>4 DEF Walked, Current, Latest
<1>3. ASSUME NEW x \in Execution, RewrittenTo(x), UNCHANGED <<transitions, cursor>>
      PROVE  Walked'
  <2>1. \A e \in DOMAIN executions' :
          e \in DOMAIN executions /\ executions'[e].state_id = executions[e].state_id
    BY <1>3, RewrittenEffects DEF RewrittenTo
  <2>2. QED
    BY <1>3, <2>1 DEF Walked, Current, Latest
<1>4. CASE CommitDispatch
  <2>1. /\ UNCHANGED executions
        /\ DOMAIN transitions = 1..(Len(executions) - 1)
        /\ \A i \in DOMAIN transitions : transitions'[i] = transitions[i]
        /\ Current' = Latest(transitions)'.to
    BY <1>4, CommitEffects DEF Latest
  <2>2. \A e \in DOMAIN executions : e > 1 => e - 1 \in DOMAIN transitions
    BY <1>a, <2>1
  <2>3. QED
    BY <2>1, <2>2 DEF Walked, Latest
<1>5. QED
  BY <1>1, <1>2, <1>3, <1>4, GraphSteps

\* An execution whose completion hands the run from planning to a stage.
HandsOff(x) ==
  /\ x.execution_role = "planning"
  /\ Edge[x.state_id]["completed"] \in ExecutableStates
  /\ Role[Edge[x.state_id]["completed"]] = "stage"

\* A generation was opened between such an execution and its transition.
HandedOff ==
  \A g \in DOMAIN generations :
    LET n == generations[g].opened + 1 IN
    /\ n \in DOMAIN executions /\ HandsOff(executions[n])
    /\ n \in DOMAIN transitions =>
         transitions[n].to = Edge[executions[n].state_id]["completed"]

LEMMA HandedOffNext == CoordInv /\ HandedOff /\ [CoordNext]_coordVars => HandedOff'
<1> SUFFICES ASSUME CoordInv, HandedOff, [CoordNext]_coordVars, NEW g \in DOMAIN generations'
             PROVE  LET n == generations'[g].opened + 1 IN
                    /\ n \in DOMAIN executions' /\ HandsOff(executions'[n])
                    /\ n \in DOMAIN transitions' =>
                         transitions'[n].to = Edge[executions'[n].state_id]["completed"]
  BY DEF HandedOff, HandsOff, ExecutableStates, TerminalStates
<1> DEFINE n == generations'[g].opened + 1
           Goal == /\ n \in DOMAIN executions' /\ HandsOff(executions'[n])
                   /\ n \in DOMAIN transitions' =>
                        transitions'[n].to = Edge[executions'[n].state_id]["completed"]
<1>0. /\ executions \in Seq(Execution) /\ transitions \in Seq(Transition)
      /\ Len(transitions) \in {Len(executions), Len(executions) - 1}
      /\ DOMAIN executions = 1..Len(executions) /\ Len(executions) \in Nat
      /\ cursor.transition_count = Len(transitions)
      /\ \A e \in DOMAIN executions : CompiledExecution(executions[e])
  BY DEF CoordInv, CoordTypeOK, TypeOK, DocumentInv, RunInv, Paired, ExecutionPairing, Compiled
<1>a. /\ DOMAIN executions = 1..Len(executions) /\ Len(executions) \in Nat
      /\ DOMAIN transitions = 1..Len(transitions) /\ Len(transitions) \in Nat
      /\ Len(transitions) \in {Len(executions), Len(executions) - 1}
      /\ cursor.transition_count = Len(transitions)
  BY DEF CoordInv, CoordTypeOK, TypeOK, DocumentInv, RunInv, Paired, ExecutionPairing
<1>1. CASE /\ cmd.pc = "handoff" /\ PlanReady
           /\ generations'[g].opened = cursor.transition_count
           /\ UNCHANGED <<executions, transitions, cursor>>
  <2>1. executions # <<>> /\ ~AllBound
    BY <1>1 DEF CoordInv, CommandInv, Positions, PlanningSettled
  <2>2. n = Len(executions) /\ n \notin DOMAIN transitions
    <3>1. Len(transitions) = Len(executions) - 1
      BY <1>a, <2>1 DEF AllBound
    <3>2. n = Len(transitions) + 1
      BY <1>a, <1>1
    <3> HIDE DEF n
    <3>3. QED
      BY <1>a, <3>1, <3>2
  <2>3. n \in DOMAIN executions /\ executions[n] = LastExecution
    BY <2>1, <2>2, LastCompiled
  <2>4. HandsOff(executions[n])
    BY <1>0, <1>1, <2>3 DEF PlanReady, HandsOff, CompiledExecution
  <2>5. QED
    BY <1>1, <2>2, <2>3, <2>4
<1>2. ASSUME g \in DOMAIN generations, generations'[g].opened = generations[g].opened
      PROVE  Goal
  <2>0. /\ n \in DOMAIN executions /\ HandsOff(executions[n])
        /\ n \in DOMAIN transitions =>
             transitions[n].to = Edge[executions[n].state_id]["completed"]
    BY <1>2 DEF HandedOff
  <2> HIDE DEF n
  <2>a. n \in 1..Len(executions) /\ Len(executions) \in Nat
    BY <1>a, <2>0
  <2>1. CASE UNCHANGED <<executions, transitions, cursor>>
    BY <2>0, <2>1
  <2>2. CASE StartDispatch /\ UNCHANGED <<transitions, cursor>>
    <3>1. /\ DOMAIN executions' = 1..Len(executions) + 1
          /\ executions'[n] = executions[n]
      BY <2>0, <2>2, StartEffects
    <3>2. n \in DOMAIN executions'
      BY <2>a, <3>1
    <3>3. QED
      BY <2>0, <2>2, <3>1, <3>2
  <2>3. ASSUME NEW x \in Execution, RewrittenTo(x), UNCHANGED <<transitions, cursor>>
        PROVE  Goal
    <3>1. /\ n \in DOMAIN executions' /\ executions'[n].state_id = executions[n].state_id
          /\ CompiledExecution(executions'[n])
      BY <1>0, <2>0, <2>3, RewrittenEffects DEF RewrittenTo
    <3>2. HandsOff(executions'[n])
      BY <1>0, <2>0, <3>1 DEF HandsOff, CompiledExecution
    <3>3. QED
      BY <2>0, <2>3, <3>1, <3>2
  <2>4. CASE CommitDispatch
    <3>1. /\ UNCHANGED executions
          /\ DOMAIN transitions' = 1..Len(executions)
          /\ DOMAIN transitions = 1..(Len(executions) - 1)
          /\ \A i \in DOMAIN transitions : transitions'[i] = transitions[i]
          /\ transitions'[Len(executions)].to = Edge[LastExecution.state_id][SettledOutcome]
      BY <2>4, CommitEffects
    <3>2. CASE n \in DOMAIN transitions
      BY <2>0, <3>1, <3>2
    <3>3. CASE n \notin DOMAIN transitions
      <4>1. n = Len(executions)
        BY <2>a, <3>1, <3>3
      <4>2. executions[n] = LastExecution /\ executions[n].type = "agent"
        BY <1>0, <2>0, <4>1, CompiledAssumption
           DEF HandsOff, CompiledExecution, LastExecution, Latest
      <4>3. SettledOutcome = "completed"
        BY <4>2 DEF SettledOutcome
      <4>4. QED
        BY <2>0, <3>1, <4>1, <4>2, <4>3
    <3>4. QED
      BY <3>2, <3>3
  <2>5. QED
    BY <2>1, <2>2, <2>3, <2>4, GraphSteps
<1>3. QED
  BY <1>1, <1>2, GenerationsStep

\* Nothing of the graph or the lifecycle moves once the run waits.
LEMMA WaitingRests ==
  ASSUME CoordInv, waits # <<>>, [CoordNext]_coordVars
  PROVE  UNCHANGED <<executions, generations, waits>>
<1>1. status = "waiting"
  BY DEF CoordInv, DocumentInv, EndsAtWait
<1>2. UNCHANGED vars => UNCHANGED <<executions, generations, waits>>
  BY DEF vars, graph, stages
<1>3. ~ExecutionCommand
  BY <1>1, ExecutionFrame
<1>4. ~WaitDispatch
  BY <1>1, WaitAtBoundary DEF StageWaitBoundary
<1>5. EndDispatch \/ OutputsDispatch => UNCHANGED <<executions, generations, waits>>
  BY DEF EndDispatch, OutputsDispatch, TerminalCommand, TerminalReached, RunSucceeded,
         RunFailed, RunCleanupFailed, RunOutputsPublished, graph, stages
<1>6. ~HandoffDispatch
  BY <1>1 DEF HandoffDispatch, CoordInv, CommandInv, Positions, PlanningSettled
<1>7. ~RewriteDispatch /\ ~StartDispatch /\ ~CommitDispatch
  BY <1>3, RewriteIsCommand, StartIsCommand, CommitIsCommand DEF ExecutionCommand, StartCommand
<1>8. QED
  BY <1>2, <1>4, <1>5, <1>6, <1>7, StepsByCommand DEF Dispatched

\* The offer of a wait is right when it is made.
LEMMA OfferMade ==
  ASSUME CoordInv, Walked, HandedOff, WaitDispatch
  PROVE  OfferFits'
<1>0. StageWaitBoundary /\ TypeOK /\ waits = <<>>
  BY WaitAtBoundary DEF StageWaitBoundary, CoordInv, CoordTypeOK, DocumentInv, EndsAtWait
<1>1. PICK request : RunWaiting(Current, request, WaitOffer)
  BY DEF WaitDispatch, WaitCommand
<1>2. /\ UNCHANGED <<executions, generations>>
      /\ DOMAIN waits' = {1} /\ waits'[1].actions = WaitOffer
  <2> DEFINE new == [transition_count |-> cursor.transition_count, state_id |-> Current,
                     request |-> request, actions |-> WaitOffer,
                     intent |-> None, response |-> None]
  <2>1. waits' = Append(<<>>, new) /\ UNCHANGED <<executions, generations>>
    BY <1>0, <1>1 DEF RunWaiting, graph, stages
  <2>2. new.actions = WaitOffer
    OBVIOUS
  <2> HIDE DEF new
  <2>3. QED
    BY <2>1, <2>2
<1>3. Role[Current] = "planning"
  BY <1>0 DEF StageWaitBoundary
<1> DEFINE n == Latest(generations).opened + 1
<1>4. /\ n \in DOMAIN executions /\ HandsOff(executions[n])
      /\ n \in DOMAIN transitions =>
           transitions[n].to = Edge[executions[n].state_id]["completed"]
  <2>1. /\ Len(generations) \in DOMAIN generations
        /\ Latest(generations) = generations[Len(generations)]
    BY <1>0, LastGeneration
       DEF StageWaitBoundary, HasOpenIteration, HasOpenGeneration, OpenGeneration
  <2>2. QED
    BY <2>1 DEF HandedOff
<1> HIDE DEF n
<1>5. /\ Len(executions) \in Nat /\ DOMAIN executions = 1..Len(executions)
      /\ DOMAIN transitions = 1..Len(executions)
      /\ n \in 1..Len(executions)
  BY <1>0, <1>4 DEF TypeOK, StageWaitBoundary, AllBound
<1>6. n < Len(executions)
  <2>1. n # Len(executions)
    BY <1>0, <1>4 DEF StageWaitBoundary, LastExecution, Latest, HandsOff
  <2>2. n \in 1..Len(executions) /\ Len(executions) \in Nat
    BY <1>5
  <2>3. QED
    BY <2>1, <2>2
<1>7. /\ StageEntry = transitions[n].to
      /\ transitions[n].to = Edge[executions[n].state_id]["completed"]
  BY <1>4, <1>5 DEF StageEntry, OpenGeneration, n
<1>8. executions[n + 1].state_id = StageEntry
  <2>1. n + 1 \in DOMAIN executions /\ n + 1 > 1 /\ (n + 1) - 1 = n
    BY <1>5, <1>6
  <2>2. QED
    BY <1>7, <2>1 DEF Walked
<1>9. executions[n + 1].execution_role = "stage"
  <2>1. n + 1 \in DOMAIN executions
    BY <1>5, <1>6
  <2>2. CompiledExecution(executions[n + 1])
    BY <2>1 DEF CoordInv, DocumentInv, Compiled
  <2>3. QED
    BY <1>4, <1>7, <1>8, <2>2 DEF HandsOff, CompiledExecution
<1>10. \A f \in Latest(generations).opened + 1 .. (n + 1) - 1 :
         executions[f].execution_role # "stage"
  <2>1. Latest(generations).opened + 1 .. (n + 1) - 1 = {n}
    BY <1>5 DEF n
  <2>2. QED
    BY <1>4, <2>1 DEF HandsOff
<1>11. /\ WaitOffer.continue_stage = StageEntry
       /\ WaitOffer.revise_task = Current
  BY DEF WaitOffer
<1>12. n + 1 \in DOMAIN executions
  BY <1>5, <1>6
<1>13. QED
  <2>1. SUFFICES ASSUME NEW w \in DOMAIN waits'
                 PROVE  /\ \E e \in DOMAIN executions :
                             /\ executions[e].execution_role = "stage"
                             /\ \A f \in Latest(generations).opened + 1 .. e - 1 :
                                  executions[f].execution_role # "stage"
                             /\ executions[e].state_id = waits'[w].actions.continue_stage
                        /\ Role[waits'[w].actions.revise_task] = "planning"
    BY <1>2 DEF OfferFits, Latest
  <2>2. waits'[w].actions = WaitOffer
    BY <1>2
  <2>3. QED
    BY <1>3, <1>8, <1>9, <1>10, <1>11, <1>12, <2>2

LEMMA OfferNext ==
  CoordInv /\ Walked /\ HandedOff /\ OfferFits /\ [CoordNext]_coordVars => OfferFits'
<1> SUFFICES ASSUME CoordInv, Walked, HandedOff, OfferFits, [CoordNext]_coordVars
             PROVE  OfferFits'
  OBVIOUS
<1>1. CASE WaitDispatch
  BY <1>1, OfferMade
<1>2. CASE ~WaitDispatch /\ waits = <<>>
  <2>1. UNCHANGED waits
    BY <1>2, LedgerSteps
  <2>2. DOMAIN waits' = {}
    BY <1>2, <2>1
  <2>3. QED
    BY <2>2 DEF OfferFits
<1>3. CASE waits # <<>>
  <2>1. UNCHANGED <<executions, generations, waits>>
    BY <1>3, WaitingRests
  <2>2. QED
    BY <2>1 DEF OfferFits, Latest
<1>4. QED
  BY <1>1, <1>2, <1>3

\* What keeps the coordinator and the document together.
FitInv == CoordInv /\ WaitBeforePlanning /\ Walked /\ HandedOff /\ OfferFits

LEMMA FitInvInit == CoordInit => FitInv
<1> SUFFICES ASSUME CoordInit PROVE FitInv
  OBVIOUS
<1>1. /\ executions = <<>> /\ transitions = <<>> /\ generations = <<>> /\ waits = <<>>
  BY DEF CoordInit, Init
<1>2. /\ DOMAIN executions = {} /\ DOMAIN generations = {} /\ DOMAIN waits = {}
  BY <1>1
<1>3. WaitBeforePlanning
  BY <1>1 DEF WaitBeforePlanning, StageWaitBoundary
<1>4. QED
  BY <1>1, <1>2, <1>3, CoordInvInit DEF FitInv, Walked, HandedOff, OfferFits

LEMMA FitInvNext == FitInv /\ [CoordNext]_coordVars => FitInv'
BY CoordInvNext, WaitStaysBefore, WalkedNext, HandedOffNext, OfferNext DEF FitInv

\* The coordinator and the document fit together after every failure, signal and
\* restart: the engine is never entered where a stage's wait is missing, a wait offers
\* what it can lead to, and an active run that no command works on is one that resume
\* or resume-plan continues, or one of the three known ways a crash can strand it.
THEOREM CoordinatorFitsAlways == CoordSpec => []CoordinatorFits
<1>1. FitInv => CoordinatorFits
  BY ActiveIsKnown
     DEF FitInv, CoordInv, CoordinatorFits, StrandsOnlyKnown
<1>2. QED
  BY <1>1, FitInvInit, FitInvNext, PTL DEF CoordSpec
=============================================================================
