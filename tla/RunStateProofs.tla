--------------------------- MODULE RunStateProofs ---------------------------
(***************************************************************************)
(* Theorems about the run state document and its reducer, for every        *)
(* pipeline, every budget and every bound of RunState: types and endings,  *)
(* the wait triple, pairing and coherence of the records; then the ledgers *)
(* only append, and generations, iterations, grants and revised tasks hold *)
(* together.                                                               *)
(***************************************************************************)
EXTENDS RunState, FiniteSetTheorems, TLAPS

-----------------------------------------------------------------------------
(* Type correctness.                                                       *)

\* The last record of a nonempty ledger is one of its records.
LEMMA LatestIn ==
  ASSUME NEW S, NEW s \in Seq(S), s # <<>>
  PROVE  /\ Len(s) \in 1..Len(s)
         /\ Latest(s) \in S
BY DEF Latest

\* Rewriting the last record keeps the ledger's type, length and prefix.
LEMMA ReplaceLatestType ==
  ASSUME NEW S, NEW s \in Seq(S), s # <<>>, NEW e \in S
  PROVE  /\ ReplaceLatest(s, e) \in Seq(S)
         /\ Len(ReplaceLatest(s, e)) = Len(s)
         /\ Latest(ReplaceLatest(s, e)) = e
         /\ \A i \in 1..Len(s) - 1 : ReplaceLatest(s, e)[i] = s[i]
<1>1. Len(s) \in Nat /\ Len(s) > 0
  OBVIOUS
<1>2. s = [i \in 1..Len(s) |-> s[i]]
  OBVIOUS
<1>3. QED
  BY <1>1, <1>2 DEF ReplaceLatest, Latest

\* An execution command keeps the type when it writes an execution record.
LEMMA SettleType ==
  ASSUME TypeOK, executions # <<>>, NEW e \in Execution, Settle(e)
  PROVE  TypeOK'
<1>1. executions' \in Seq(Execution)
  BY ReplaceLatestType DEF TypeOK, Settle
<1>2. revision' \in Nat \ {0}
  BY DEF TypeOK, Settle, Commit
<1>3. QED
  BY <1>1, <1>2 DEF TypeOK, Settle, graph, stages, outcome

LEMMA InitType == Init => TypeOK
<1> SUFFICES ASSUME Init PROVE TypeOK
  OBVIOUS
<1>1. cursor \in [current_state : StateIds, transition_count : Nat]
  BY PipelineAssumption DEF Init
<1>2. \A S : <<>> \in Seq(S)
  OBVIOUS
<1>3. /\ executions \in Seq(Execution) /\ transitions \in Seq(Transition)
      /\ generations \in Seq(Generation)
      /\ task_revisions \in Seq(TaskRevision)
      /\ plan_revisions \in Seq(PlanRevision)
      /\ grants \in Seq(Grant) /\ waits \in Seq(Wait)
  BY <1>2 DEF Init
<1>4. /\ revision \in Nat \ {0}
      /\ status \in Statuses /\ phase \in Phases
      /\ terminal = None /\ failure = None
  BY DEF Init, Statuses, Phases
<1>5. run_outputs \in BOOLEAN
  BY Zenon DEF Init
<1>6. QED
  BY <1>1, <1>3, <1>4, <1>5 DEF TypeOK

\* A started execution is an execution record.
LEMMA StartType ==
  ASSUME TypeOK, NEW type \in ExecutionTypes, NEW s \in StateIds,
         NEW role \in Roles, NEW i \in IterationIndices \cup {None},
         StartExecution(type, s, role, i)
  PROVE  TypeOK'
<1> DEFINE e == [type |-> type, state_id |-> s, execution_role |-> role,
        iteration_index |-> i,
        phase |-> IF type = "agent" THEN "started" ELSE "evaluating",
        execution_session_id |-> None, tool_session_id |-> None,
        worker_log |-> None, stage_task |-> None, session_cleanup |-> None,
        result |-> None]
<1>1. type \in {"agent", "decision"}
  BY PipelineAssumption
<1>2. i \in Nat \cup {None}
  <2>1. ASSUME NEW g \in DOMAIN generations, i \in DOMAIN generations[g].iterations
        PROVE  i \in Nat
    <3>1. generations[g] \in Generation
      BY DEF TypeOK
    <3>2. generations[g].iterations \in Seq(Iteration)
      BY <3>1 DEF Generation
    <3>3. QED
      BY <2>1, <3>2
  <2>2. QED
    BY <2>1 DEF IterationIndices
<1>3. e \in Execution
  BY <1>1, <1>2 DEF Execution, AgentPhases, DecisionPhases
<1>4. executions' = Append(executions, e)
  BY DEF StartExecution
<1>5. executions' \in Seq(Execution)
  BY <1>3, <1>4 DEF TypeOK
<1>6. revision' \in Nat \ {0}
  BY DEF TypeOK, StartExecution, Commit
<1>7. QED
  BY <1>5, <1>6 DEF TypeOK, StartExecution, graph, stages, outcome

\* A binding a caller may send names a task, a revision and a digest.
LEMMA TaskBindingsType ==
  ASSUME TypeOK
  PROVE  TaskBindings \subseteq StageTask
<1>1. ASSUME NEW k \in DOMAIN task_revisions, NEW d \in TaskDigests
      PROVE  [task_id |-> task_revisions[k].task_id,
              revision |-> task_revisions[k].revision,
              sha256 |-> d] \in StageTask
  <2>1. task_revisions[k] \in TaskRevision
    BY DEF TypeOK
  <2>2. QED
    BY <2>1 DEF TaskRevision, StageTask
<1>2. QED
  BY <1>1 DEF TaskBindings

\* At most one session slot of the last execution is written, with a fresh id.
SlotsWritten(e) ==
  LET old == LastExecution
      Fresh == SessionIds \ DurableSessionIds
  IN  \/ /\ e.execution_session_id = old.execution_session_id
         /\ e.tool_session_id = old.tool_session_id
      \/ /\ e.execution_session_id \in Fresh
         /\ e.tool_session_id = old.tool_session_id
      \/ /\ e.execution_session_id = old.execution_session_id
         /\ e.tool_session_id \in Fresh

\* A cleanup record is written when the execution ends, and accounts for it.
CleanupWritten(e) ==
  \/ e.session_cleanup = LastExecution.session_cleanup
  \/ /\ e.phase \in {"cleanup_completed", "failed"}
     /\ CleanupFits(e, e.session_cleanup)

\* What an execution's phase says it cannot carry yet: the reducer looks at the
\* phase, and nothing else, before it binds the next field.
UnfilledSlots(e) ==
  /\ ~IsSettled(e) => e.session_cleanup = None /\ e.result = None
  /\ e.phase = "started" => e.stage_task = None
  /\ e.phase \in {"started", "data_prepared"} => e.execution_session_id = None
  /\ e.phase \in {"started", "data_prepared", "execution_session_created"}
       => e.tool_session_id = None
  /\ e.phase \in {"started", "data_prepared", "execution_session_created",
                  "sessions_created", "running"}
       => e.worker_log = None

\* The last execution becomes e: no field it has is replaced.
Fills(e) ==
  UnfilledSlots(LastExecution)
    => UnfilledSlots(e) /\ Filled(e, LastExecution, {"phase"})

LEMMA CompletedExecution ==
  ASSUME NEW old \in Execution, NEW new,
         /\ new.type = old.type /\ new.state_id = old.state_id
         /\ new.execution_role = old.execution_role
         /\ new.iteration_index = old.iteration_index,
         old.execution_session_id # None
           => new.execution_session_id = old.execution_session_id,
         old.tool_session_id # None => new.tool_session_id = old.tool_session_id,
         old.worker_log # None => new.worker_log = old.worker_log,
         old.stage_task # None => new.stage_task = old.stage_task,
         old.session_cleanup # None => new.session_cleanup = old.session_cleanup,
         old.result # None => new.result = old.result
  PROVE  Filled(new, old, {"phase"})
<1>1. DOMAIN old = {"type", "state_id", "execution_role", "iteration_index", "phase",
                    "execution_session_id", "tool_session_id", "worker_log",
                    "stage_task", "session_cleanup", "result"}
  BY DEF Execution
<1>2. QED
  BY <1>1 DEF Filled

\* Execution commands start an execution, bind a transition, or rewrite the
\* last, unsettled execution without touching what it was started as.
RewritesLast ==
  /\ executions # <<>>
  /\ ~IsSettled(LastExecution)
  /\ \E e \in Execution :
       /\ Settle(e)
       /\ e.type = LastExecution.type
       /\ e.state_id = LastExecution.state_id
       /\ e.execution_role = LastExecution.execution_role
       /\ e.iteration_index = LastExecution.iteration_index
       /\ SlotsWritten(e) /\ CleanupWritten(e) /\ Fills(e)

LEMMA ExecutionCases ==
  ASSUME TypeOK, ExecutionCommand
  PROVE  \/ \E type \in ExecutionTypes, s \in StateIds, role \in Roles,
               i \in IterationIndices \cup {None} : StartExecution(type, s, role, i)
         \/ \E o \in Outcomes, to \in StateIds : TransitionCommitted(o, to)
         \/ RewritesLast
<1> DEFINE e == LastExecution
<1>a. executions # <<>> => e \in Execution
  BY LatestIn DEF LastExecution, TypeOK
<1> USE DEF RewritesLast, SlotsWritten, CleanupWritten, FreshSessionId, CleanupFits
<1>1. ASSUME NEW task \in TaskBindings \cup {None}, AgentDataPrepared(task)
      PROVE  RewritesLast
  <2>1. [e EXCEPT !.phase = "data_prepared", !.stage_task = task] \in Execution
    BY <1>a, <1>1, TaskBindingsType
       DEF AgentDataPrepared, UnfinishedAgent, Execution, AgentPhases
  <2>2. Fills([e EXCEPT !.phase = "data_prepared", !.stage_task = task])
    BY <1>a, <1>1, CompletedExecution
       DEF AgentDataPrepared, UnfinishedAgent, Fills, UnfilledSlots, IsSettled, Execution
  <2>3. QED
    BY <1>a, <1>1, <2>1, <2>2 DEF AgentDataPrepared, UnfinishedAgent, IsSettled, Execution
<1>2. ASSUME NEW id \in SessionIds, AgentExecutionSessionCreated(id)
      PROVE  RewritesLast
  <2>1. [e EXCEPT !.phase = "execution_session_created",
                  !.execution_session_id = id] \in Execution
    BY <1>a, <1>2
       DEF AgentExecutionSessionCreated, UnfinishedAgent, Execution, AgentPhases
  <2>2. Fills([e EXCEPT !.phase = "execution_session_created",
                  !.execution_session_id = id])
    BY <1>a, <1>2, CompletedExecution
       DEF AgentExecutionSessionCreated, UnfinishedAgent, Fills, UnfilledSlots, IsSettled, Execution
  <2>3. QED
    BY <1>a, <1>2, <2>1, <2>2 DEF AgentExecutionSessionCreated, UnfinishedAgent, IsSettled, Execution
<1>3. ASSUME NEW id \in SessionIds, AgentToolSessionCreated(id)
      PROVE  RewritesLast
  <2>1. [e EXCEPT !.phase = "sessions_created", !.tool_session_id = id] \in Execution
    BY <1>a, <1>3
       DEF AgentToolSessionCreated, UnfinishedAgent, Execution, AgentPhases
  <2>2. Fills([e EXCEPT !.phase = "sessions_created", !.tool_session_id = id])
    BY <1>a, <1>3, CompletedExecution
       DEF AgentToolSessionCreated, UnfinishedAgent, Fills, UnfilledSlots, IsSettled, Execution
  <2>3. QED
    BY <1>a, <1>3, <2>1, <2>2 DEF AgentToolSessionCreated, UnfinishedAgent, IsSettled, Execution
<1>4. ASSUME AgentRunning
      PROVE  RewritesLast
  <2>1. [e EXCEPT !.phase = "running"] \in Execution
    BY <1>a, <1>4
       DEF AgentRunning, UnfinishedAgent, Execution, AgentPhases
  <2>2. Fills([e EXCEPT !.phase = "running"])
    BY <1>a, <1>4, CompletedExecution
       DEF AgentRunning, UnfinishedAgent, Fills, UnfilledSlots, IsSettled, Execution
  <2>3. QED
    BY <1>a, <1>4, <2>1, <2>2 DEF AgentRunning, UnfinishedAgent, IsSettled, Execution
<1>5. ASSUME NEW log \in WorkerLogs, AgentOutputsAccepted(log)
      PROVE  RewritesLast
  <2>1. [e EXCEPT !.phase = "outputs_accepted", !.worker_log = log] \in Execution
    BY <1>a, <1>5
       DEF AgentOutputsAccepted, UnfinishedAgent, Execution, AgentPhases
  <2>2. Fills([e EXCEPT !.phase = "outputs_accepted", !.worker_log = log])
    BY <1>a, <1>5, CompletedExecution
       DEF AgentOutputsAccepted, UnfinishedAgent, Fills, UnfilledSlots, IsSettled, Execution
  <2>3. QED
    BY <1>a, <1>5, <2>1, <2>2 DEF AgentOutputsAccepted, UnfinishedAgent, IsSettled, Execution
<1>6. ASSUME AgentCleanupCompleted
      PROVE  RewritesLast
  <2>1. [e EXCEPT !.phase = "cleanup_completed",
                  !.session_cleanup = [execution |-> "completed",
                                       tool |-> "completed"]] \in Execution
    BY <1>a, <1>6
       DEF AgentCleanupCompleted, UnfinishedAgent, Execution, AgentPhases, CleanupPair, CleanupValues
  <2>2. Fills([e EXCEPT !.phase = "cleanup_completed",
                  !.session_cleanup = [execution |-> "completed",
                                       tool |-> "completed"]])
    BY <1>a, <1>6, CompletedExecution
       DEF AgentCleanupCompleted, UnfinishedAgent, Fills, UnfilledSlots, IsSettled, Execution
  <2>3. QED
    BY <1>a, <1>6, <2>1, <2>2 DEF AgentCleanupCompleted, UnfinishedAgent, IsSettled, Execution
<1>7. ASSUME NEW reason \in AgentFailureReasons, NEW pair \in CleanupPair,
             NEW log \in WorkerLogs, AgentFailed(reason, pair, log)
      PROVE  RewritesLast
  <2>1. [e EXCEPT !.phase = "failed", !.session_cleanup = pair,
                  !.worker_log = log] \in Execution
    BY <1>a, <1>7
       DEF AgentFailed, UnfinishedAgent, Execution, AgentPhases
  <2>2. Fills([e EXCEPT !.phase = "failed", !.session_cleanup = pair,
                  !.worker_log = log])
    BY <1>a, <1>7, CompletedExecution
       DEF AgentFailed, UnfinishedAgent, Fills, UnfilledSlots, IsSettled, Execution, WorkerLogKept
  <2>3. QED
    BY ZenonT(30), <1>a, <1>7, <2>1, <2>2 DEF AgentFailed, UnfinishedAgent, IsSettled, Execution
<1>8. ASSUME NEW o \in Outcomes, DecisionEvaluated(o)
      PROVE  RewritesLast
  <2>1. [e EXCEPT !.phase = "evaluated", !.result = o] \in Execution
    BY <1>a, <1>8
       DEF DecisionEvaluated, UnfinishedDecision, Execution, DecisionPhases
  <2>2. Fills([e EXCEPT !.phase = "evaluated", !.result = o])
    BY <1>a, <1>8, CompletedExecution
       DEF DecisionEvaluated, UnfinishedDecision, Fills, UnfilledSlots, IsSettled, Execution
  <2>3. QED
    BY <1>a, <1>8, <2>1, <2>2 DEF DecisionEvaluated, UnfinishedDecision, IsSettled, Execution
<1>9. ASSUME DecisionFailed
      PROVE  RewritesLast
  <2>1. [e EXCEPT !.phase = "failed"] \in Execution
    BY <1>a, <1>9
       DEF DecisionFailed, UnfinishedDecision, Execution, DecisionPhases
  <2>2. Fills([e EXCEPT !.phase = "failed"])
    BY <1>a, <1>9, CompletedExecution
       DEF DecisionFailed, UnfinishedDecision, Fills, UnfilledSlots, IsSettled, Execution
  <2>3. QED
    BY <1>a, <1>9, <2>1, <2>2 DEF DecisionFailed, UnfinishedDecision, IsSettled, Execution
<1>10. QED
  BY <1>1, <1>2, <1>3, <1>4, <1>5, <1>6, <1>7, <1>8, <1>9 DEF ExecutionCommand

\* Every step of an execution keeps the type.
LEMMA ExecutionCommandType == TypeOK /\ ExecutionCommand => TypeOK'
<1> SUFFICES ASSUME TypeOK, ExecutionCommand PROVE TypeOK'
  OBVIOUS
<1>1. ASSUME NEW o \in Outcomes, NEW to \in StateIds, TransitionCommitted(o, to)
      PROVE  TypeOK'
  <2>1. Len(executions) \in Nat
    BY DEF TypeOK
  <2>2. [from |-> cursor.current_state, outcome |-> o, to |-> to,
         execution_index |-> Len(executions)] \in Transition
    BY <2>1 DEF TypeOK, Transition
  <2>3. transitions' \in Seq(Transition)
    BY <1>1, <2>2 DEF TypeOK, TransitionCommitted
  <2>4. cursor' \in [current_state : StateIds, transition_count : Nat]
    BY <1>1 DEF TypeOK, TransitionCommitted
  <2>5. revision' \in Nat \ {0}
    BY <1>1 DEF TypeOK, TransitionCommitted, Commit
  <2>6. QED
    BY <1>1, <2>3, <2>4, <2>5
       DEF TypeOK, TransitionCommitted, stages, outcome
<1>2. QED
  BY <1>1, ExecutionCases, StartType, SettleType DEF RewritesLast

\* Every step of the run as a whole keeps the type.
LEMMA RunCommandType == TypeOK /\ RunCommand => TypeOK'
<1> SUFFICES ASSUME TypeOK, RunCommand PROVE TypeOK'
  OBVIOUS
<1> USE DEF graph, stages, outcome
<1>a. waits # <<>> => OpenWait \in Wait
  BY LatestIn DEF OpenWait, TypeOK
<1>1. ASSUME NEW s \in StateIds, NEW request \in Requests,
             NEW actions \in ActionLists, RunWaiting(s, request, actions)
      PROVE  TypeOK'
  <2>1. [transition_count |-> cursor.transition_count, state_id |-> s,
         request |-> request, actions |-> actions,
         intent |-> None, response |-> None] \in Wait
    <3>1. cursor.transition_count \in Nat
      BY DEF TypeOK
    <3>2. QED
      BY <3>1 DEF Wait
  <2>2. waits' \in Seq(Wait)
    BY <1>1, <2>1 DEF TypeOK, RunWaiting
  <2>3. /\ revision' \in Nat \ {0}
        /\ status' \in Statuses /\ phase' \in Phases
    BY <1>1 DEF TypeOK, RunWaiting, Commit, Statuses, Phases
  <2>4. QED
    BY <1>1, <2>2, <2>3 DEF TypeOK, RunWaiting
<1>2. ASSUME NEW w \in DOMAIN waits, NEW request \in Requests,
             NEW action \in ActionIds,
             WaitResponseRecorded(w, request, action)
      PROVE  TypeOK'
  <2>1. waits # <<>>
    BY <1>2 DEF WaitResponseRecorded, TargetsOpenWait, HasOpenWait
  <2>2. [OpenWait EXCEPT !.response = action] \in Wait
    BY <1>a, <2>1 DEF Wait
  <2>3. waits' \in Seq(Wait)
    BY <1>2, <2>1, <2>2, ReplaceLatestType DEF TypeOK, WaitResponseRecorded
  <2>4. OpenWait.actions[action] \in StateIds
    BY <1>a, <1>2, <2>1, ActionAssumption DEF Wait, WaitResponseRecorded
  <2>5. cursor' \in [current_state : StateIds, transition_count : Nat]
    BY <1>2, <2>4 DEF TypeOK, WaitResponseRecorded, RoutedCursor
  <2>6. /\ revision' \in Nat \ {0}
        /\ status' \in Statuses /\ phase' \in Phases
    BY <1>2 DEF TypeOK, WaitResponseRecorded, Commit, Statuses, Phases
  <2>7. QED
    BY <1>2, <2>3, <2>5, <2>6 DEF TypeOK, WaitResponseRecorded
<1>3. ASSUME NEW s \in StateIds, NEW result \in {"success", "failed"},
             TerminalReached(s, result)
      PROVE  TypeOK'
  <2>1. /\ revision' \in Nat \ {0}
        /\ terminal' \in [state_id : StateIds, result : {"success", "failed"}]
                          \cup {None}
    BY <1>3 DEF TypeOK, TerminalReached, Commit
  <2>2. QED
    BY <1>3, <2>1 DEF TypeOK, TerminalReached
<1>4. ASSUME RunOutputsPublished PROVE TypeOK'
  <2>1. revision' \in Nat \ {0} /\ phase' \in Phases
    BY <1>4 DEF TypeOK, RunOutputsPublished, Commit, Phases
  <2>2. run_outputs' \in BOOLEAN
    BY <1>4, Zenon DEF RunOutputsPublished
  <2>3. QED
    BY <1>4, <2>1, <2>2 DEF TypeOK, RunOutputsPublished
<1>5. ASSUME RunSucceeded PROVE TypeOK'
  <2>1. /\ revision' \in Nat \ {0}
        /\ status' \in Statuses /\ phase' \in Phases
    BY <1>5 DEF TypeOK, RunSucceeded, Commit, Statuses, Phases
  <2>2. QED
    BY <1>5, <2>1 DEF TypeOK, RunSucceeded
<1>6. ASSUME NEW reason \in FailureReasons, RunFailed(reason) PROVE TypeOK'
  <2>1. /\ revision' \in Nat \ {0}
        /\ status' \in Statuses /\ phase' \in Phases
    BY <1>6 DEF TypeOK, RunFailed, Commit, Statuses, Phases
  <2>2. QED
    BY <1>6, <2>1 DEF TypeOK, RunFailed
<1>7. ASSUME RunCleanupFailed PROVE TypeOK'
  <2>1. /\ revision' \in Nat \ {0}
        /\ status' \in Statuses /\ phase' \in Phases
        /\ failure' \in FailureReasons
    BY <1>7 DEF TypeOK, RunCleanupFailed, Commit, Statuses, Phases, FailureReasons
  <2>2. QED
    BY <1>7, <2>1 DEF TypeOK, RunCleanupFailed
<1>8. QED
  BY <1>1, <1>2, <1>3, <1>4, <1>5, <1>6, <1>7 DEF RunCommand

\* The iterations of a recorded generation.
LEMMA IterationsType ==
  ASSUME TypeOK, NEW g \in DOMAIN generations
  PROVE  /\ generations[g] \in Generation
         /\ generations[g].iterations \in Seq(Iteration)
<1>1. generations[g] \in Generation
  BY DEF TypeOK
<1>2. QED
  BY <1>1 DEF Generation

\* Appending to, or rewriting, the iterations of a generation keeps its type.
LEMMA GenerationsType ==
  ASSUME TypeOK, NEW g \in DOMAIN generations, NEW its \in Seq(Iteration)
  PROVE  [generations EXCEPT ![g].iterations = its] \in Seq(Generation)
<1>1. generations[g] \in Generation
  BY DEF TypeOK
<1>2. [generations[g] EXCEPT !.iterations = its] \in Generation
  BY <1>1 DEF Generation
<1>3. QED
  BY <1>2 DEF TypeOK

\* Every step of the stage lifecycle and of the interventions keeps the type.
LEMMA StageCommandType == TypeOK /\ StageCommand => TypeOK'
<1> SUFFICES ASSUME TypeOK, StageCommand PROVE TypeOK'
  OBVIOUS
<1> USE DEF graph, stages, outcome
<1>1. ASSUME NEW plan \in PlanDigests, NEW budget \in InitialBudgets,
             NEW count \in 0..MaxTransitions,
             StageGenerationOpened(plan, budget, count)
      PROVE  TypeOK'
  <2>1. count \in Nat /\ budget \in Nat
    BY PipelineAssumption
  <2>2. [plan_sha256 |-> plan, initial_budget |-> budget, opened |-> count,
         iterations |-> <<>>, closed |-> None] \in Generation
    BY <2>1 DEF Generation
  <2>3. generations' \in Seq(Generation) /\ revision' \in Nat \ {0}
    BY <1>1, <2>2 DEF TypeOK, StageGenerationOpened, Commit
  <2>4. QED
    BY <1>1, <2>3 DEF TypeOK, StageGenerationOpened
<1>2. ASSUME NEW g \in DOMAIN generations, NEW i \in 1..MaxSafeInteger,
             NEW count \in 0..MaxTransitions, StageIterationOpened(g, i, count)
      PROVE  TypeOK'
  <2> DEFINE its == generations[g].iterations
             new == [opened |-> count, closed |-> None]
  <2>1. its \in Seq(Iteration)
    BY IterationsType
  <2>2. new \in Iteration
    BY PipelineAssumption DEF Iteration
  <2>3. Append(its, new) \in Seq(Iteration)
    BY <2>1, <2>2
  <2>4. generations' = [generations EXCEPT ![g].iterations = Append(its, new)]
    BY <1>2 DEF StageIterationOpened
  <2>5. generations' \in Seq(Generation)
    BY <2>3, <2>4, GenerationsType
  <2>6. revision' \in Nat \ {0}
    BY <1>2 DEF TypeOK, StageIterationOpened, Commit
  <2>7. QED
    BY <1>2, <2>5, <2>6 DEF TypeOK, StageIterationOpened
<1>3. ASSUME NEW g \in DOMAIN generations, NEW i \in IterationIndices,
             NEW by \in WaitBoundClose \cup ActiveClose,
             NEW w \in DOMAIN waits \cup {None},
             StageIterationClosed(g, i, by, w)
      PROVE  TypeOK'
  <2> DEFINE its == generations[g].iterations
             closing == [by |-> by, count |-> cursor.transition_count,
                         wait_index |-> w]
  <2>1. its \in Seq(Iteration)
    BY IterationsType
  <2>2. i \in DOMAIN its
    BY <1>3, <2>1 DEF StageIterationClosed, HasOpenIteration, OpenGeneration, Latest
  <2>3. its[i] \in Iteration
    BY <2>1, <2>2
  <2>4. w \in Nat \cup {None}
    BY DEF TypeOK
  <2>5. [its[i] EXCEPT !.closed = closing] \in Iteration
    BY <2>3, <2>4 DEF Iteration, TypeOK
  <2>6. [its EXCEPT ![i].closed = closing] \in Seq(Iteration)
    BY <2>1, <2>2, <2>5
  <2>7. generations' =
          [generations EXCEPT ![g].iterations = [its EXCEPT ![i].closed = closing]]
    BY <1>3 DEF StageIterationClosed
  <2>8. generations' \in Seq(Generation)
    BY <2>6, <2>7, GenerationsType
  <2>9. revision' \in Nat \ {0}
    BY SMTT(20), <1>3 DEF TypeOK, StageIterationClosed, Commit
  <2>10. QED
    BY <1>3, <2>8, <2>9 DEF TypeOK, StageIterationClosed
<1>4. ASSUME NEW g \in DOMAIN generations, StageGenerationClosed(g)
      PROVE  TypeOK'
  <2>1. generations[g] \in Generation
    BY DEF TypeOK
  <2>2. [generations[g] EXCEPT !.closed = [count |-> cursor.transition_count]]
          \in Generation
    BY <2>1 DEF TypeOK, Generation
  <2>3. generations' \in Seq(Generation)
    BY <1>4, <2>2 DEF TypeOK, StageGenerationClosed
  <2>4. revision' \in Nat \ {0}
    BY <1>4 DEF TypeOK, StageGenerationClosed, Commit
  <2>5. QED
    BY <1>4, <2>3, <2>4 DEF TypeOK, StageGenerationClosed
<1>5. ASSUME NEW w \in DOMAIN waits, NEW intent \in Intents,
             PlanIntentAccepted(w, intent)
      PROVE  TypeOK'
  <2>1. waits # <<>>
    BY <1>5 DEF PlanIntentAccepted, TargetsOpenWait, HasOpenWait
  <2>2. OpenWait \in Wait
    BY <2>1, LatestIn DEF OpenWait, TypeOK
  <2>3. [OpenWait EXCEPT !.intent = intent] \in Wait
    BY <2>2 DEF Wait
  <2>4. waits' \in Seq(Wait)
    BY <1>5, <2>1, <2>3, ReplaceLatestType DEF TypeOK, PlanIntentAccepted
  <2>5. revision' \in Nat \ {0}
    BY <1>5 DEF TypeOK, PlanIntentAccepted, Commit
  <2>6. QED
    BY <1>5, <2>4, <2>5 DEF TypeOK, PlanIntentAccepted
<1>6. ASSUME NEW t \in TaskIds, NEW r \in 1..MaxTaskRevisions,
             NEW digest \in TaskDigests, NEW w \in DOMAIN waits \cup {None},
             NEW intent \in Intents \cup {None},
             TaskRevisionAccepted(t, r, digest, w, intent)
      PROVE  TypeOK'
  <2>1. [task_id |-> t, revision |-> r, sha256 |-> digest,
         wait_index |-> w, intent |-> intent] \in TaskRevision
    BY DEF TypeOK, TaskRevision
  <2>2. task_revisions' \in Seq(TaskRevision) /\ revision' \in Nat \ {0}
    BY <1>6, <2>1 DEF TypeOK, TaskRevisionAccepted, Commit
  <2>3. QED
    BY <1>6, <2>2 DEF TypeOK, TaskRevisionAccepted
<1>7. ASSUME NEW r \in 1..MaxPlanRevisions, NEW plan \in PlanDigests,
             NEW origin \in DOMAIN executions,
             PlanRevisionAccepted(r, plan, origin)
      PROVE  TypeOK'
  <2>1. [sha256 |-> plan, origin_execution |-> origin] \in PlanRevision
    BY DEF TypeOK, PlanRevision
  <2>2. plan_revisions' \in Seq(PlanRevision) /\ revision' \in Nat \ {0}
    BY <1>7, <2>1 DEF TypeOK, PlanRevisionAccepted, Commit
  <2>3. QED
    BY <1>7, <2>2 DEF TypeOK, PlanRevisionAccepted
<1>8. ASSUME NEW g \in DOMAIN generations, NEW w \in DOMAIN waits,
             NEW intent \in Intents, NEW additional \in Extensions,
             IterationGrantRecorded(g, w, intent, additional)
      PROVE  TypeOK'
  <2>1. [generation_index |-> g, wait_index |-> w, intent |-> intent,
         additional |-> additional] \in Grant
    BY PipelineAssumption DEF TypeOK, Grant
  <2>2. grants' \in Seq(Grant) /\ revision' \in Nat \ {0}
    BY <1>8, <2>1 DEF TypeOK, IterationGrantRecorded, Commit
  <2>3. QED
    BY <1>8, <2>2 DEF TypeOK, IterationGrantRecorded
<1>9. QED
  BY <1>1, <1>2, <1>3, <1>4, <1>5, <1>6, <1>7, <1>8 DEF StageCommand

LEMMA StutterType == TypeOK /\ UNCHANGED vars => TypeOK'
BY DEF TypeOK, vars, graph, stages, outcome

\* Every reachable document has the shape of PipelineV2RunState.
THEOREM TypeCorrect == Spec => []TypeOK
<1>1. Init => TypeOK
  BY InitType
<1>2. TypeOK /\ [Next]_vars => TypeOK'
  BY ExecutionCommandType, RunCommandType, StageCommandType, StutterType
     DEF Next
<1>3. QED
  BY <1>1, <1>2, PTL DEF Spec

-----------------------------------------------------------------------------
(* The gates: what each group of commands presupposes and leaves alone.    *)

\* Execution commands need an active run without a failed execution and touch
\* the graph and the cursor only.
LEMMA ExecutionFrame ==
  ASSUME ExecutionCommand
  PROVE  /\ status = "active" /\ ~LastFailed
         /\ UNCHANGED <<status, phase, stages, waits, outcome>>
<1> USE DEF Admitted, StatusGate, FailureGate, WaitingAllowed, Finalization
<1>1. ASSUME NEW type \in ExecutionTypes, NEW s \in StateIds, NEW role \in Roles,
             NEW i \in IterationIndices \cup {None}, StartExecution(type, s, role, i)
      PROVE  /\ status = "active" /\ ~LastFailed
             /\ UNCHANGED <<status, phase, stages, waits, outcome>>
  BY <1>1 DEF StartExecution
<1>2. ASSUME NEW o \in Outcomes, NEW to \in StateIds, TransitionCommitted(o, to)
      PROVE  /\ status = "active" /\ ~LastFailed
             /\ UNCHANGED <<status, phase, stages, waits, outcome>>
  BY <1>2 DEF TransitionCommitted
<1> DEFINE Frame == /\ status = "active" /\ ~LastFailed
                    /\ UNCHANGED <<status, phase, stages, waits, outcome>>
<1>3. \A task : AgentDataPrepared(task) => Frame
  BY DEF AgentDataPrepared, UnfinishedAgent, Settle
<1>4. \A id : AgentExecutionSessionCreated(id) \/ AgentToolSessionCreated(id)
               => Frame
  BY DEF AgentExecutionSessionCreated, AgentToolSessionCreated,
         UnfinishedAgent, Settle
<1>5. AgentRunning \/ AgentCleanupCompleted => Frame
  BY DEF AgentRunning, AgentCleanupCompleted, UnfinishedAgent, Settle
<1>6. \A log : AgentOutputsAccepted(log) => Frame
  BY DEF AgentOutputsAccepted, UnfinishedAgent, Settle
<1>7. \A reason, pair, log : AgentFailed(reason, pair, log) => Frame
  BY DEF AgentFailed, UnfinishedAgent, Settle
<1>8. \A o : DecisionEvaluated(o) => Frame
  BY DEF DecisionEvaluated, UnfinishedDecision, Settle
<1>9. DecisionFailed => Frame
  BY DEF DecisionFailed, UnfinishedDecision, Settle
<1>10. QED
  BY <1>1, <1>2, <1>3, <1>4, <1>5, <1>6, <1>7, <1>8, <1>9
     DEF ExecutionCommand

\* Stage commands need a run that is not over and has no failed execution, and
\* they never touch the graph, the cursor or the status.
LEMMA StageFrame ==
  ASSUME StageCommand
  PROVE  /\ status \in {"active", "waiting"} /\ ~LastFailed
         /\ UNCHANGED <<status, phase, cursor, graph, outcome>>
<1> USE DEF Admitted, StatusGate, FailureGate, WaitingAllowed, Finalization
<1> DEFINE Frame == /\ status \in {"active", "waiting"} /\ ~LastFailed
                    /\ UNCHANGED <<status, phase, cursor, graph, outcome>>
<1>1. \A plan, budget, count : StageGenerationOpened(plan, budget, count) => Frame
  BY DEF StageGenerationOpened
<1>2. \A g, i, count : StageIterationOpened(g, i, count) => Frame
  BY DEF StageIterationOpened
<1>3. \A g, i, by, w : StageIterationClosed(g, i, by, w) => Frame
  BY DEF StageIterationClosed
<1>4. \A g : StageGenerationClosed(g) => Frame
  BY DEF StageGenerationClosed
<1>5. \A w, intent : PlanIntentAccepted(w, intent) => Frame
  BY DEF PlanIntentAccepted
<1>6. \A t, r, digest, w, intent :
        TaskRevisionAccepted(t, r, digest, w, intent) => Frame
  BY DEF TaskRevisionAccepted
<1>7. \A r, plan, origin : PlanRevisionAccepted(r, plan, origin) => Frame
  BY DEF PlanRevisionAccepted
<1>8. \A g, w, intent, additional :
        IterationGrantRecorded(g, w, intent, additional) => Frame
  BY DEF IterationGrantRecorded
<1>9. QED
  BY <1>1, <1>2, <1>3, <1>4, <1>5, <1>6, <1>7, <1>8 DEF StageCommand

\* After a failed execution the run as a whole only takes its finalization.
LEMMA RunGate ==
  ASSUME RunCommand
  PROVE  /\ status \in {"active", "waiting"}
         /\ LastFailed => \/ \E reason \in FailureReasons : RunFailed(reason)
                          \/ RunCleanupFailed
<1> USE DEF Admitted, StatusGate, FailureGate, WaitingAllowed, Finalization
<1> DEFINE Gate == status \in {"active", "waiting"} /\ ~LastFailed
<1>1. \A s, request, actions : RunWaiting(s, request, actions) => Gate
  BY DEF RunWaiting
<1>2. \A w, request, action : WaitResponseRecorded(w, request, action) => Gate
  BY DEF WaitResponseRecorded
<1>3. \A s, result : TerminalReached(s, result) => Gate
  BY DEF TerminalReached
<1>4. RunOutputsPublished \/ RunSucceeded => Gate
  BY DEF RunOutputsPublished, RunSucceeded
<1>5. /\ \A reason : RunFailed(reason) => status = "active"
      /\ RunCleanupFailed => status = "active"
  BY DEF RunFailed, RunCleanupFailed
<1>6. QED
  BY <1>1, <1>2, <1>3, <1>4, <1>5 DEF RunCommand

\* A finalized run is immutable: every handler passes the status gate first.
THEOREM FinalizedForever == Spec => FinalImmutable
<1>1. [Next]_vars => [~Finalized]_vars
  BY ExecutionFrame, StageFrame, RunGate DEF Next, Finalized
<1>2. QED
  BY <1>1, PTL DEF Spec, FinalImmutable

\* A failed execution latches the run: the only successor is a finalization,
\* and it changes nothing but the status, the phase and the failure.
THEOREM FailureLatches == Spec => FailureLatched
<1> DEFINE Latch ==
      LastFailed => /\ UNCHANGED <<graph, stages, waits, cursor, terminal, run_outputs>>
                    /\ phase' = "finished"
<1>1. \A reason : RunFailed(reason) => Latch
  BY DEF RunFailed
<1>2. RunCleanupFailed => Latch
  BY DEF RunCleanupFailed
<1>3. Next => Latch
  BY <1>1, <1>2, ExecutionFrame, StageFrame, RunGate DEF Next
<1>4. [Next]_vars => [Latch]_vars
  BY <1>3
<1>5. QED
  BY <1>4, PTL DEF Spec, FailureLatched

-----------------------------------------------------------------------------
(* The wait journal.                                                       *)

\* An appended record is the last one and leaves the others where they were.
LEMMA AppendLatest ==
  ASSUME NEW S, NEW s \in Seq(S), NEW e \in S
  PROVE  /\ Append(s, e) \in Seq(S)
         /\ Append(s, e) # <<>>
         /\ Len(Append(s, e)) = Len(s) + 1
         /\ Latest(Append(s, e)) = e
         /\ \A i \in 1..Len(s) : Append(s, e)[i] = s[i]
BY DEF Latest

\* A command that leaves status, phase and journal alone keeps WaitTriple.
LEMMA WaitTripleFrame ==
  ASSUME WaitTriple, UNCHANGED <<status, phase, waits>>
  PROVE  WaitTriple'
BY DEF WaitTriple, HasOpenWait

LEMMA WaitTripleInit == Init => WaitTriple
BY DEF Init, WaitTriple, HasOpenWait

\* The open wait, also with an answer or an intent written into it.
LEMMA OpenWaitType ==
  ASSUME TypeOK, waits # <<>>
  PROVE  /\ waits \in Seq(Wait) /\ OpenWait \in Wait
         /\ \A action \in ActionIds :
              /\ [OpenWait EXCEPT !.response = action] \in Wait
              /\ [OpenWait EXCEPT !.response = action].response = action
         /\ \A intent \in Intents :
              /\ [OpenWait EXCEPT !.intent = intent] \in Wait
              /\ [OpenWait EXCEPT !.intent = intent].response = OpenWait.response
<1>1. waits \in Seq(Wait)
  BY DEF TypeOK
<1>2. OpenWait \in Wait
  BY <1>1, LatestIn DEF OpenWait
<1>3. QED
  BY <1>1, <1>2 DEF Wait

\* The journal after its last record was rewritten.
LEMMA JournalRewritten ==
  ASSUME WaitTriple, NEW new \in Wait, waits \in Seq(Wait), waits # <<>>,
         waits' = ReplaceLatest(waits, new)
  PROVE  /\ HasOpenWait' <=> new.response = None
         /\ \A w \in DOMAIN waits' : w < Len(waits') => waits'[w].response # None
<1>1. /\ waits' \in Seq(Wait) /\ Len(waits') = Len(waits)
      /\ Latest(waits') = new
      /\ \A i \in 1..Len(waits) - 1 : waits'[i] = waits[i]
  BY ReplaceLatestType
<1>2. waits' # <<>>
  BY <1>1
<1>3. QED
  BY <1>1, <1>2 DEF WaitTriple, HasOpenWait

LEMMA WaitTripleRunWaiting ==
  ASSUME TypeOK, WaitTriple, NEW s \in StateIds, NEW request \in Requests,
         NEW actions \in ActionLists, RunWaiting(s, request, actions)
  PROVE  WaitTriple'
<1> DEFINE new == [transition_count |-> cursor.transition_count,
                   state_id |-> s, request |-> request,
                   actions |-> actions, intent |-> None, response |-> None]
<1>1. waits' = Append(waits, new) /\ status' = "waiting" /\ phase' = "waiting"
  BY DEF RunWaiting
<1>2. waits \in Seq(Wait) /\ cursor.transition_count \in Nat
  BY DEF TypeOK
<1>3. new \in Wait /\ new.response = None
  BY <1>2 DEF Wait
<1>4. \A w \in DOMAIN waits : waits[w].response # None
  BY <1>2 DEF RunWaiting, WaitTriple, HasOpenWait, Latest
<1>5. /\ waits' \in Seq(Wait) /\ waits' # <<>>
      /\ Len(waits') = Len(waits) + 1
      /\ Latest(waits') = new
      /\ \A i \in 1..Len(waits) : waits'[i] = waits[i]
  <2> HIDE DEF new
  <2>1. QED
    BY <1>1, <1>2, <1>3, AppendLatest
<1>6. /\ HasOpenWait'
      /\ \A w \in DOMAIN waits' : w < Len(waits') => waits'[w].response # None
  <2> HIDE DEF new
  <2>1. QED
    BY <1>2, <1>3, <1>4, <1>5 DEF HasOpenWait
<1>7. QED
  BY <1>1, <1>6 DEF WaitTriple

LEMMA WaitTripleResponse ==
  ASSUME TypeOK, WaitTriple, NEW w \in DOMAIN waits, NEW request \in Requests,
         NEW action \in ActionIds, WaitResponseRecorded(w, request, action)
  PROVE  WaitTriple'
<1> DEFINE new == [OpenWait EXCEPT !.response = action]
<1>1. /\ waits' = ReplaceLatest(waits, new) /\ waits # <<>>
      /\ status' = "active" /\ phase' = "running"
      /\ action \in DOMAIN OpenWait.actions
  BY DEF WaitResponseRecorded, TargetsOpenWait, HasOpenWait
<1>2. new \in Wait /\ new.response = action /\ waits \in Seq(Wait)
      /\ OpenWait \in Wait
  BY <1>1, OpenWaitType
<1>3. action # None
  BY <1>1, <1>2, ActionAssumption DEF Wait
<1>4. /\ ~HasOpenWait'
      /\ \A v \in DOMAIN waits' : v < Len(waits') => waits'[v].response # None
  <2> HIDE DEF new
  <2>1. QED
    BY <1>1, <1>2, <1>3, JournalRewritten
<1>5. QED
  BY <1>1, <1>4 DEF WaitTriple

LEMMA WaitTripleIntent ==
  ASSUME TypeOK, WaitTriple, NEW w \in DOMAIN waits, NEW intent \in Intents,
         PlanIntentAccepted(w, intent)
  PROVE  WaitTriple'
<1> DEFINE new == [OpenWait EXCEPT !.intent = intent]
<1>1. /\ waits' = ReplaceLatest(waits, new) /\ waits # <<>> /\ HasOpenWait
      /\ UNCHANGED <<status, phase>>
  BY DEF PlanIntentAccepted, TargetsOpenWait, HasOpenWait
<1>2. new \in Wait /\ new.response = None /\ waits \in Seq(Wait)
  BY <1>1, OpenWaitType DEF HasOpenWait, OpenWait
<1>3. /\ HasOpenWait'
      /\ \A v \in DOMAIN waits' : v < Len(waits') => waits'[v].response # None
  <2> HIDE DEF new
  <2>1. QED
    BY <1>1, <1>2, JournalRewritten
<1>4. QED
  BY <1>1, <1>3 DEF WaitTriple

LEMMA WaitTripleNext == TypeOK /\ WaitTriple /\ [Next]_vars => WaitTriple'
<1> SUFFICES ASSUME TypeOK, WaitTriple, [Next]_vars PROVE WaitTriple'
  OBVIOUS
<1>1. CASE ExecutionCommand
  BY <1>1, ExecutionFrame, WaitTripleFrame
<1>2. CASE RunCommand
  <2>1. ASSUME NEW s \in StateIds, NEW result \in {"success", "failed"},
               TerminalReached(s, result)
        PROVE  WaitTriple'
    BY <2>1, WaitTripleFrame DEF TerminalReached
  <2> USE DEF Admitted, StatusGate, WaitingAllowed, WaitTriple, HasOpenWait
  <2>2. CASE RunOutputsPublished
    BY <2>2 DEF RunOutputsPublished
  <2>3. CASE RunSucceeded
    BY <2>3 DEF RunSucceeded
  <2>4. ASSUME NEW reason \in FailureReasons, RunFailed(reason)
        PROVE  WaitTriple'
    BY <2>4 DEF RunFailed
  <2>5. CASE RunCleanupFailed
    BY <2>5 DEF RunCleanupFailed
  <2>6. QED
    BY <1>2, <2>1, <2>2, <2>3, <2>4, <2>5, WaitTripleRunWaiting,
       WaitTripleResponse DEF RunCommand
<1>3. CASE StageCommand
  <2>1. \/ \E w \in DOMAIN waits, intent \in Intents : PlanIntentAccepted(w, intent)
        \/ UNCHANGED waits
    BY ZenonT(30), <1>3 DEF StageCommand, StageGenerationOpened, StageIterationOpened,
       StageIterationClosed, StageGenerationClosed, TaskRevisionAccepted,
       PlanRevisionAccepted, IterationGrantRecorded
  <2>2. CASE UNCHANGED waits
    BY <1>3, <2>2, StageFrame, WaitTripleFrame
  <2>3. QED
    BY <2>1, <2>2, WaitTripleIntent
<1>4. CASE UNCHANGED vars
  BY <1>4, WaitTripleFrame DEF vars
<1>5. QED
  BY <1>1, <1>2, <1>3, <1>4 DEF Next

\* The status, the phase and the wait journal agree in every reachable document.
THEOREM WaitTripleAlways == Spec => []WaitTriple
<1>1. Init => WaitTriple
  BY WaitTripleInit
<1>2. TypeOK /\ WaitTriple /\ [Next]_vars => WaitTriple'
  BY WaitTripleNext
<1>3. QED
  BY <1>1, <1>2, TypeCorrect, PTL DEF Spec

\* While the run waits, the only stage commands are the intervention records,
\* which leave the accepted plans and the number of generations alone.
LEMMA WaitingStageFrame ==
  ASSUME TypeOK, StageCommand, status = "waiting"
  PROVE  UNCHANGED plan_revisions /\ Len(generations') = Len(generations)
<1> USE DEF Admitted, StatusGate, WaitingAllowed
<1> DEFINE Frame == UNCHANGED <<generations, plan_revisions>>
<1>1. \A g, i, by, w : StageIterationClosed(g, i, by, w)
        => UNCHANGED plan_revisions /\ Len(generations') = Len(generations)
  <2>1. generations \in Seq(Generation)
    BY DEF TypeOK
  <2>2. QED
    BY <2>1 DEF StageIterationClosed
<1>2. \A w, intent : PlanIntentAccepted(w, intent) => Frame
  BY DEF PlanIntentAccepted, stages
<1>3. \A t, r, digest, w, intent :
        TaskRevisionAccepted(t, r, digest, w, intent) => Frame
  BY DEF TaskRevisionAccepted
<1>4. \A g, w, intent, additional :
        IterationGrantRecorded(g, w, intent, additional) => Frame
  BY DEF IterationGrantRecorded
<1>5. \/ \E g, i, by, w : StageIterationClosed(g, i, by, w)
      \/ \E w, intent : PlanIntentAccepted(w, intent)
      \/ \E t, r, digest, w, intent :
           TaskRevisionAccepted(t, r, digest, w, intent)
      \/ \E g, w, intent, additional :
           IterationGrantRecorded(g, w, intent, additional)
  BY DEF StageCommand, StageGenerationOpened, StageIterationOpened,
         StageGenerationClosed, PlanRevisionAccepted
<1>6. QED
  BY <1>1, <1>2, <1>3, <1>4, <1>5

\* Nothing but the response moves a waiting run, and the response changes only
\* the wait and the cursor.
THEOREM WaitFreezes == Spec => WaitFreezesGraph
<1> DEFINE Frozen ==
      status = "waiting" =>
        /\ UNCHANGED <<graph, plan_revisions, outcome>>
        /\ Len(generations') = Len(generations)
        /\ status' = "waiting" => UNCHANGED cursor
        /\ status' # "waiting" => UNCHANGED stages
<1> USE DEF Admitted, StatusGate, WaitingAllowed
<1>1. TypeOK /\ StageCommand => Frozen
  BY StageFrame, WaitingStageFrame
<1>2. ExecutionCommand => Frozen
  BY ExecutionFrame
<1>3. RunCommand => Frozen
  <2>1. \A s, request, actions : RunWaiting(s, request, actions) => Frozen
    BY DEF RunWaiting
  <2>2. \A w, request, action : WaitResponseRecorded(w, request, action) => Frozen
    BY DEF WaitResponseRecorded, stages
  <2>3. \A s, result : TerminalReached(s, result) => Frozen
    BY DEF TerminalReached
  <2>4. RunOutputsPublished \/ RunSucceeded \/ RunCleanupFailed => Frozen
    BY DEF RunOutputsPublished, RunSucceeded, RunCleanupFailed
  <2>5. \A reason : RunFailed(reason) => Frozen
    BY DEF RunFailed
  <2>6. QED
    BY <2>1, <2>2, <2>3, <2>4, <2>5 DEF RunCommand
<1>4. TypeOK /\ [Next]_vars => [Frozen]_vars
  BY <1>1, <1>2, <1>3 DEF Next
<1>5. QED
  BY <1>4, TypeCorrect, PTL DEF Spec, WaitFreezesGraph

-----------------------------------------------------------------------------
(* Executions and transitions.                                             *)

\* ExecutionPairing is inductive together with the discipline that only the
\* last execution may be unsettled; both follow the code's numbering of
\* executions by their position.
EarlierSettled ==
  \A e \in DOMAIN executions : e < Len(executions) => IsSettled(executions[e])
Paired == ExecutionPairing /\ EarlierSettled

LEMMA PairedInit == Init => Paired
<1> SUFFICES ASSUME Init PROVE Paired
  OBVIOUS
<1>1. Len(executions) = 0 /\ Len(transitions) = 0
  BY DEF Init
<1>2. QED
  BY <1>1, PipelineAssumption DEF Init, Paired, ExecutionPairing, EarlierSettled

LEMMA PairedFrame ==
  ASSUME Paired, UNCHANGED <<executions, transitions, cursor>>
  PROVE  Paired'
BY DEF Paired, ExecutionPairing, EarlierSettled, IsSettled

\* A step of the last, unsettled execution: it has no transition to disturb.
LEMMA PairedSettle ==
  ASSUME TypeOK, Paired, executions # <<>>, ~IsSettled(LastExecution),
         NEW e \in Execution, Settle(e)
  PROVE  Paired'
<1>1. /\ executions \in Seq(Execution) /\ transitions \in Seq(Transition)
      /\ UNCHANGED <<transitions, cursor>>
      /\ executions' = ReplaceLatest(executions, e)
  BY DEF TypeOK, Settle
<1>2. /\ Len(executions') = Len(executions) /\ executions' \in Seq(Execution)
      /\ \A i \in 1..Len(executions) - 1 : executions'[i] = executions[i]
  BY <1>1, ReplaceLatestType
<1>3. Len(transitions) = Len(executions) - 1
  <2>1. SUFFICES ASSUME Len(transitions) = Len(executions) PROVE FALSE
    BY DEF Paired, ExecutionPairing
  <2>2. Len(executions) \in DOMAIN transitions
    BY <1>1, <2>1
  <2>3. QED
    BY <2>2 DEF Paired, ExecutionPairing, LastExecution, Latest, IsSettled
<1>4. \A i \in DOMAIN transitions : executions'[i] = executions[i]
  BY <1>1, <1>2, <1>3
<1>5. ExecutionPairing'
  BY <1>1, <1>2, <1>4 DEF Paired, ExecutionPairing
<1>6. EarlierSettled'
  BY <1>1, <1>2 DEF Paired, EarlierSettled, IsSettled
<1>7. QED
  BY <1>5, <1>6 DEF Paired

LEMMA PairedStart ==
  ASSUME TypeOK, Paired, NEW type \in ExecutionTypes, NEW s \in StateIds,
         NEW role \in Roles, NEW i \in IterationIndices \cup {None},
         StartExecution(type, s, role, i)
  PROVE  Paired'
<1>1. /\ executions \in Seq(Execution) /\ transitions \in Seq(Transition)
      /\ UNCHANGED <<transitions, cursor>>
      /\ Len(executions') = Len(executions) + 1
      /\ DOMAIN executions' = 1..Len(executions')
      /\ \A e \in 1..Len(executions) : executions'[e] = executions[e]
  BY DEF TypeOK, StartExecution
<1>2. /\ Len(transitions) = Len(executions)
      /\ \A e \in DOMAIN executions : IsSettled(executions[e])
  <2>1. Len(transitions) = Len(executions)
    BY DEF StartExecution, StartableCursor, AllBound
  <2>2. executions # <<>> => IsSettled(LastExecution)
    BY DEF StartExecution, StartableCursor, NoInFlightExecution
  <2>3. QED
    BY <1>1, <2>1, <2>2 DEF Paired, EarlierSettled, LastExecution, Latest
<1>3. ExecutionPairing'
  BY <1>1, <1>2 DEF Paired, ExecutionPairing
<1>4. EarlierSettled'
  BY <1>1, <1>2 DEF EarlierSettled, IsSettled
<1>5. QED
  BY <1>3, <1>4 DEF Paired

LEMMA PairedTransition ==
  ASSUME TypeOK, Paired, NEW o \in Outcomes, NEW to \in StateIds,
         TransitionCommitted(o, to)
  PROVE  Paired'
<1> DEFINE new == [from |-> cursor.current_state, outcome |-> o, to |-> to,
                   execution_index |-> Len(executions)]
<1>1. /\ executions \in Seq(Execution) /\ transitions \in Seq(Transition)
      /\ executions # <<>> /\ UNCHANGED executions
      /\ transitions' = Append(transitions, new)
      /\ cursor.transition_count \in Nat
  BY DEF TypeOK, TransitionCommitted, Committable
<1>2. Len(transitions) = Len(executions) - 1
  <2>1. \A i \in DOMAIN transitions : transitions[i].execution_index # Len(executions)
    BY DEF TransitionCommitted, Committable
  <2>2. QED
    BY <1>1, <2>1 DEF Paired, ExecutionPairing
<1>3. /\ LastExecution.phase \in {"cleanup_completed", "evaluated"}
      /\ LastExecution.state_id = cursor.current_state
      /\ cursor'.transition_count = cursor.transition_count + 1
      /\ cursor.transition_count < MaxTransitions
  BY <1>1 DEF TransitionCommitted, Committable, TypeOK
<1>4. /\ Len(transitions') = Len(executions)
      /\ DOMAIN transitions' = 1..Len(executions)
      /\ \A i \in 1..Len(executions) - 1 : transitions'[i] = transitions[i]
      /\ transitions'[Len(executions)] = new
  <2>1. /\ Len(transitions') = Len(transitions) + 1
        /\ transitions'[Len(transitions) + 1] = new
        /\ \A i \in 1..Len(transitions) : transitions'[i] = transitions[i]
        /\ DOMAIN transitions' = 1..Len(transitions) + 1
    <3> HIDE DEF new
    <3>1. QED
      BY <1>1
  <2>2. QED
    BY <1>1, <1>2, <2>1
<1>5. ExecutionPairing'
  BY <1>1, <1>2, <1>3, <1>4, PipelineAssumption
     DEF Paired, ExecutionPairing, LastExecution, Latest
<1>6. EarlierSettled'
  BY <1>1 DEF Paired, EarlierSettled, IsSettled
<1>7. QED
  BY <1>5, <1>6 DEF Paired

LEMMA PairedNext == TypeOK /\ Paired /\ [Next]_vars => Paired'
<1> SUFFICES ASSUME TypeOK, Paired, [Next]_vars PROVE Paired'
  OBVIOUS
<1>1. CASE ExecutionCommand
  BY <1>1, ExecutionCases, PairedStart, PairedTransition, PairedSettle
     DEF RewritesLast
<1>2. CASE RunCommand
  <2>1. UNCHANGED <<executions, transitions>> /\ UNCHANGED cursor.transition_count
    <3>1. \A s, request, actions : RunWaiting(s, request, actions)
            => UNCHANGED <<graph, cursor>>
      BY DEF RunWaiting
    <3>2. \A w, request, action : WaitResponseRecorded(w, request, action)
            => UNCHANGED graph /\ UNCHANGED cursor.transition_count
      BY DEF WaitResponseRecorded, RoutedCursor, TypeOK
    <3>3. \A s, result : TerminalReached(s, result) => UNCHANGED <<graph, cursor>>
      BY DEF TerminalReached
    <3>4. RunOutputsPublished \/ RunSucceeded \/ RunCleanupFailed
            => UNCHANGED <<graph, cursor>>
      BY DEF RunOutputsPublished, RunSucceeded, RunCleanupFailed
    <3>5. \A reason : RunFailed(reason) => UNCHANGED <<graph, cursor>>
      BY DEF RunFailed
    <3>6. QED
      BY <1>2, <3>1, <3>2, <3>3, <3>4, <3>5 DEF RunCommand, graph
  <2>2. QED
    BY <2>1 DEF Paired, ExecutionPairing, EarlierSettled, IsSettled
<1>3. CASE StageCommand
  BY <1>3, StageFrame, PairedFrame DEF graph
<1>4. CASE UNCHANGED vars
  BY <1>4, PairedFrame DEF vars, graph
<1>5. QED
  BY <1>1, <1>2, <1>3, <1>4 DEF Next

\* Every transition belongs to the execution of its position, ran from the
\* state that execution was started at, and only the last execution may be
\* unbound, unfinished or failed.
THEOREM PairingAlways == Spec => []ExecutionPairing
<1>1. Init => Paired
  BY PairedInit
<1>2. TypeOK /\ Paired /\ [Next]_vars => Paired'
  BY PairedNext
<1>3. Paired => ExecutionPairing
  BY DEF Paired
<1>4. QED
  BY <1>1, <1>2, <1>3, TypeCorrect, PTL DEF Spec

-----------------------------------------------------------------------------
(* The records of a run agree with one another.                            *)

\* Which id a slot of an execution record holds.
SlotKinds == {"execution", "tool"}
SlotId(e, kind) == IF kind = "execution" THEN e.execution_session_id
                                         ELSE e.tool_session_id

\* Uniqueness of session ids, slot by slot.
SlotsUnique ==
  \A i, j \in DOMAIN executions : \A s, t \in SlotKinds :
    /\ SlotId(executions[i], s) = SlotId(executions[j], t)
    /\ SlotId(executions[i], s) # None
    => i = j /\ s = t

LEMMA UniqueBySlots == SlotsUnique => SessionIdsUnique
<1>. SUFFICES ASSUME SlotsUnique,
                     NEW a \in (DOMAIN executions) \X SlotKinds,
                     NEW b \in (DOMAIN executions) \X SlotKinds,
                     SlotId(executions[a[1]], a[2]) = SlotId(executions[b[1]], b[2]),
                     SlotId(executions[a[1]], a[2]) # None
              PROVE  a = b
  BY DEF SessionIdsUnique, SlotId, SlotKinds
<1>1. /\ a[1] \in DOMAIN executions /\ a[2] \in SlotKinds /\ a = <<a[1], a[2]>>
      /\ b[1] \in DOMAIN executions /\ b[2] \in SlotKinds /\ b = <<b[1], b[2]>>
  OBVIOUS
<1>2. a[1] = b[1] /\ a[2] = b[2]
  BY <1>1 DEF SlotsUnique
<1>3. QED
  BY <1>1, <1>2

\* Every id a slot holds is one a later creation is refused for.
LEMMA SlotsAreDurable ==
  ASSUME NEW i \in DOMAIN executions, NEW kind \in SlotKinds
  PROVE  SlotId(executions[i], kind) \in DurableSessionIds \cup {None}
<1> DEFINE id == SlotId(executions[i], kind)
<1>1. id \in {executions[i].execution_session_id, executions[i].tool_session_id}
  BY DEF SlotId, SlotKinds
<1>2. id \in UNION {{executions[k].execution_session_id, executions[k].tool_session_id}
                      : k \in DOMAIN executions}
  <2> HIDE DEF id
  <2>1. QED
    BY <1>1
<1>3. QED
  BY <1>2 DEF DurableSessionIds

\* What rewriting the last execution does to the ledger, position by position.
LEMMA SettlePositions ==
  ASSUME TypeOK, executions # <<>>, NEW e \in Execution, Settle(e)
  PROVE  /\ Len(executions) \in DOMAIN executions
         /\ Len(executions') = Len(executions)
         /\ DOMAIN executions' = DOMAIN executions
         /\ executions'[Len(executions)] = e
         /\ LastExecution' = e
         /\ \A i \in DOMAIN executions :
              i # Len(executions) => executions'[i] = executions[i]
<1>1. executions \in Seq(Execution) /\ executions' = ReplaceLatest(executions, e)
  BY DEF TypeOK, Settle
<1>2. /\ executions' \in Seq(Execution)
      /\ Len(executions') = Len(executions)
      /\ Latest(executions') = e
      /\ \A i \in 1..Len(executions) - 1 : executions'[i] = executions[i]
  BY <1>1, ReplaceLatestType
<1>3. QED
  BY <1>1, <1>2 DEF Latest, LastExecution

LEMMA UniqueSettle ==
  ASSUME TypeOK, SlotsUnique, executions # <<>>,
         NEW e \in Execution, Settle(e), SlotsWritten(e)
  PROVE  SlotsUnique'
<1> DEFINE n == Len(executions)
<1>1. /\ DOMAIN executions' = DOMAIN executions
      /\ n \in DOMAIN executions /\ executions'[n] = e
      /\ \A i \in DOMAIN executions : i # n => executions'[i] = executions[i]
  BY SettlePositions
<1>2. PICK written \in SlotKinds :
        /\ \A i \in DOMAIN executions, s \in SlotKinds :
             i # n \/ s # written
               => SlotId(executions'[i], s) = SlotId(executions[i], s)
        /\ \/ SlotId(executions'[n], written) = SlotId(executions[n], written)
           \/ SlotId(executions'[n], written) \in SessionIds \ DurableSessionIds
  <2>1. CASE e.execution_session_id \in SessionIds \ DurableSessionIds
             /\ e.tool_session_id = LastExecution.tool_session_id
    BY <1>1, <2>1 DEF SlotId, SlotKinds, LastExecution, Latest
  <2>2. CASE e.execution_session_id = LastExecution.execution_session_id
    <3>1. "tool" \in SlotKinds
      BY DEF SlotKinds
    <3>2. QED
      BY <1>1, <2>2, <3>1 DEF SlotId, SlotKinds, LastExecution, Latest, SlotsWritten
  <2>3. QED
    BY <2>1, <2>2 DEF SlotsWritten
<1>3. SUFFICES ASSUME NEW i \in DOMAIN executions, NEW j \in DOMAIN executions,
                      NEW s \in SlotKinds, NEW t \in SlotKinds,
                      SlotId(executions'[i], s) = SlotId(executions'[j], t),
                      SlotId(executions'[i], s) # None
               PROVE  i = j /\ s = t
  BY <1>1 DEF SlotsUnique, SlotId
<1>4. QED
  BY <1>2, <1>3, SlotsAreDurable, NoneAssumption DEF SlotsUnique

LEMMA UniqueNext == TypeOK /\ SlotsUnique /\ [Next]_vars => SlotsUnique'
<1> SUFFICES ASSUME TypeOK, SlotsUnique, [Next]_vars PROVE SlotsUnique'
  OBVIOUS
<1>1. CASE UNCHANGED executions
  BY <1>1 DEF SlotsUnique, SlotId
<1>2. ASSUME NEW type \in ExecutionTypes, NEW s \in StateIds, NEW role \in Roles,
             NEW i \in IterationIndices \cup {None}, StartExecution(type, s, role, i)
      PROVE  SlotsUnique'
  <2>1. /\ executions \in Seq(Execution)
        /\ Len(executions') = Len(executions) + 1
        /\ DOMAIN executions' = 1..Len(executions')
        /\ \A e \in 1..Len(executions) : executions'[e] = executions[e]
        /\ executions'[Len(executions) + 1].execution_session_id = None
        /\ executions'[Len(executions) + 1].tool_session_id = None
    BY <1>2 DEF TypeOK, StartExecution
  <2>2. QED
    BY <2>1 DEF SlotsUnique, SlotId, SlotKinds
<1>3. ASSUME NEW o \in Outcomes, NEW to \in StateIds, TransitionCommitted(o, to)
      PROVE  SlotsUnique'
  BY <1>3, <1>1 DEF TransitionCommitted
<1>4. CASE ExecutionCommand
  BY <1>2, <1>3, <1>4, ExecutionCases, UniqueSettle DEF RewritesLast
<1>5. CASE RunCommand
  BY <1>5, <1>1 DEF RunCommand, RunWaiting, WaitResponseRecorded, TerminalReached,
     RunOutputsPublished, RunSucceeded, RunFailed, RunCleanupFailed, graph
<1>6. CASE StageCommand
  BY <1>6, <1>1, StageFrame DEF graph
<1>7. CASE UNCHANGED vars
  BY <1>7, <1>1 DEF vars, graph
<1>8. QED
  BY <1>4, <1>5, <1>6, <1>7 DEF Next

\* CleanupAccounted in its two parts: the ledger's and the ending's.
CleanupByRecord ==
  \A i \in DOMAIN executions :
    executions[i].session_cleanup # None =>
      CleanupFits(executions[i], executions[i].session_cleanup)
CleanupEnding ==
  /\ status = "cleanup_failed"
       <=> (status \notin {"active", "waiting"} /\ LastCleanupFailed)
  /\ status = "cleanup_failed" <=> failure = CleanupReason

LEMMA CleanupParts == CleanupByRecord /\ CleanupEnding => CleanupAccounted
BY DEF CleanupAccounted, CleanupByRecord, CleanupEnding, CleanupFits

\* What the ending of a run rests on.  A cleanup record exists only for a
\* settled execution, and outputs are published before a run can succeed.
CleanupAtSettlement ==
  \A i \in DOMAIN executions :
    executions[i].session_cleanup # None =>
      executions[i].phase \in {"cleanup_completed", "failed"}
OutputsBeforeEnd == phase = "publishing_outputs" => run_outputs
EndingInv ==
  /\ CleanupByRecord /\ CleanupEnding /\ CleanupAtSettlement
  /\ FinalStatusCoherent /\ OutputsBeforeEnd

LEMMA CleanupRecordsSettle ==
  ASSUME TypeOK, CleanupByRecord, CleanupAtSettlement, executions # <<>>,
         ~IsSettled(LastExecution), NEW e \in Execution, Settle(e),
         CleanupWritten(e)
  PROVE  CleanupByRecord' /\ CleanupAtSettlement'
<1>1. LastExecution.session_cleanup = None
  BY SettlePositions DEF CleanupAtSettlement, LastExecution, Latest, IsSettled
<1>2. e.session_cleanup # None =>
        /\ e.phase \in {"cleanup_completed", "failed"}
        /\ CleanupFits(e, e.session_cleanup)
  BY <1>1 DEF CleanupWritten
<1>3. ASSUME NEW i \in DOMAIN executions'
      PROVE  executions'[i].session_cleanup # None =>
               /\ executions'[i].phase \in {"cleanup_completed", "failed"}
               /\ CleanupFits(executions'[i], executions'[i].session_cleanup)
  BY <1>2, SettlePositions DEF CleanupByRecord, CleanupAtSettlement
<1>4. QED
  BY <1>3 DEF CleanupByRecord, CleanupAtSettlement, CleanupFits

LEMMA EndingExecution ==
  ASSUME TypeOK, EndingInv, ExecutionCommand
  PROVE  EndingInv'
<1>1. /\ status = "active"
      /\ UNCHANGED <<status, phase, terminal, run_outputs, failure>>
  BY ExecutionFrame DEF outcome
<1>2. /\ CleanupByRecord /\ CleanupAtSettlement
      /\ FinalStatusCoherent /\ OutputsBeforeEnd
      /\ failure # CleanupReason
  BY <1>1 DEF EndingInv, CleanupEnding
<1>3. terminal = None /\ CleanupByRecord' /\ CleanupAtSettlement'
  <2>1. ASSUME NEW type \in ExecutionTypes, NEW s \in StateIds, NEW role \in Roles,
               NEW i \in IterationIndices \cup {None}, StartExecution(type, s, role, i)
        PROVE  terminal = None /\ CleanupByRecord' /\ CleanupAtSettlement'
    <3>1. /\ executions \in Seq(Execution)
          /\ Len(executions') = Len(executions) + 1
          /\ DOMAIN executions' = 1..Len(executions')
          /\ \A e \in 1..Len(executions) : executions'[e] = executions[e]
          /\ executions'[Len(executions) + 1].session_cleanup = None
      BY <2>1 DEF TypeOK, StartExecution
    <3>2. terminal = None
      BY <2>1 DEF StartExecution, StartableCursor
    <3>3. QED
      BY <1>2, <3>1, <3>2 DEF CleanupByRecord, CleanupAtSettlement, CleanupFits
  <2>2. ASSUME NEW o \in Outcomes, NEW to \in StateIds, TransitionCommitted(o, to)
        PROVE  terminal = None /\ CleanupByRecord' /\ CleanupAtSettlement'
    BY <1>2, <2>2
       DEF TransitionCommitted, CleanupByRecord, CleanupAtSettlement, CleanupFits
  <2>3. CASE RewritesLast
    <3>1. terminal = None
      BY <1>2, <2>3, SettlePositions
         DEF RewritesLast, FinalStatusCoherent, AllSettled, LastExecution, Latest
    <3>2. QED
      BY <1>2, <2>3, <3>1, CleanupRecordsSettle DEF RewritesLast
  <2>4. QED
    BY <2>1, <2>2, <2>3, ExecutionCases
<1>4. CleanupEnding'
  BY <1>1, <1>2 DEF CleanupEnding
<1>5. FinalStatusCoherent'
  BY <1>1, <1>2, <1>3 DEF FinalStatusCoherent
<1>6. OutputsBeforeEnd'
  BY <1>1, <1>2 DEF OutputsBeforeEnd
<1>7. QED
  BY <1>3, <1>4, <1>5, <1>6 DEF EndingInv

LEMMA EndingRun ==
  ASSUME TypeOK, EndingInv, RunCommand
  PROVE  EndingInv'
<1> USE DEF EndingInv, Admitted, StatusGate, FailureGate, WaitingAllowed, Finalization
<1>1. UNCHANGED graph /\ CleanupByRecord' /\ CleanupAtSettlement'
  <2>1. UNCHANGED graph
    BY DEF RunCommand, RunWaiting, WaitResponseRecorded, TerminalReached,
       RunOutputsPublished, RunSucceeded, RunFailed, RunCleanupFailed
  <2>2. QED
    BY <2>1 DEF graph, CleanupByRecord, CleanupAtSettlement, CleanupFits
<1>2. LastFailed' = LastFailed /\ LastCleanupFailed' = LastCleanupFailed
  BY <1>1 DEF graph, LastFailed, LastCleanupFailed, LastExecution, FailedCleanup, Latest
<1>3. AllSettled' = AllSettled /\ AllBound' = AllBound
  BY <1>1 DEF graph, AllSettled, AllBound, IsSettled
<1> DEFINE Ending == CleanupEnding' /\ FinalStatusCoherent' /\ OutputsBeforeEnd'
<1>4. ASSUME NEW s \in StateIds, NEW request \in Requests,
             NEW actions \in ActionLists, RunWaiting(s, request, actions)
      PROVE  Ending
  BY <1>3, <1>4 DEF RunWaiting, Undecided, outcome, CleanupEnding, FinalStatusCoherent,
     OutputsBeforeEnd
<1>5. ASSUME NEW w \in DOMAIN waits, NEW request \in Requests,
             NEW action \in ActionIds, WaitResponseRecorded(w, request, action)
      PROVE  Ending
  BY <1>3, <1>5 DEF WaitResponseRecorded, TargetsOpenWait, Undecided, outcome,
     CleanupEnding, FinalStatusCoherent, OutputsBeforeEnd
<1>6. ASSUME NEW s \in StateIds, NEW result \in {"success", "failed"},
             TerminalReached(s, result)
      PROVE  Ending
  BY <1>2, <1>3, <1>6 DEF TerminalReached, CleanBoundary, CleanupEnding,
     FinalStatusCoherent, OutputsBeforeEnd
<1>7. ASSUME RunOutputsPublished PROVE Ending
  BY <1>2, <1>3, <1>7 DEF RunOutputsPublished, CleanupEnding, FinalStatusCoherent,
     OutputsBeforeEnd
<1>8. ASSUME RunSucceeded PROVE Ending
  BY <1>2, <1>3, <1>8 DEF RunSucceeded, outcome, LastCleanupFailed, CleanupEnding,
     FinalStatusCoherent, OutputsBeforeEnd, CleanupReason
<1>9. ASSUME NEW reason \in FailureReasons, RunFailed(reason) PROVE Ending
  BY <1>2, <1>3, <1>9, FailureAssumption
     DEF RunFailed, RunFailureReason, CleanupEnding, FinalStatusCoherent,
     OutputsBeforeEnd
<1>10. ASSUME RunCleanupFailed PROVE Ending
  BY <1>2, <1>3, <1>10, FailureAssumption
     DEF RunCleanupFailed, CleanupEnding, FinalStatusCoherent, OutputsBeforeEnd,
     FailureReasons, CleanupReason, TerminalReason
<1>11. QED
  BY <1>1, <1>4, <1>5, <1>6, <1>7, <1>8, <1>9, <1>10 DEF RunCommand

LEMMA EndingNext == TypeOK /\ EndingInv /\ [Next]_vars => EndingInv'
<1> SUFFICES ASSUME TypeOK, EndingInv, [Next]_vars PROVE EndingInv'
  OBVIOUS
<1>1. ASSUME UNCHANGED <<executions, transitions, cursor, status, phase, terminal,
                         run_outputs, failure>>
      PROVE  EndingInv'
  BY <1>1 DEF EndingInv, CleanupByRecord, CleanupEnding, CleanupAtSettlement,
     CleanupFits, FinalStatusCoherent, OutputsBeforeEnd, LastCleanupFailed, LastFailed,
     LastExecution, FailedCleanup, AllSettled, AllBound, IsSettled, Latest
<1>2. CASE StageCommand
  BY <1>1, <1>2, StageFrame DEF graph, outcome
<1>3. CASE UNCHANGED vars
  BY <1>1, <1>3 DEF vars, graph, outcome
<1>4. QED
  BY <1>2, <1>3, EndingExecution, EndingRun DEF Next

LEMMA EndingInit == Init => EndingInv
<1> SUFFICES ASSUME Init PROVE EndingInv
  OBVIOUS
<1>1. DOMAIN executions = {}
  BY DEF Init
<1>2. CleanupByRecord /\ CleanupAtSettlement /\ OutputsBeforeEnd
  BY <1>1 DEF Init, CleanupByRecord, CleanupAtSettlement, OutputsBeforeEnd
<1>3. CleanupEnding
  BY FailureAssumption DEF Init, CleanupEnding, FailureReasons
<1>4. FinalStatusCoherent
  BY FailureAssumption DEF Init, FinalStatusCoherent, FailureReasons
<1>5. QED
  BY <1>2, <1>3, <1>4 DEF EndingInv

-----------------------------------------------------------------------------
(* The cursor, replayed from the records.                                  *)

\* Every nonempty set of naturals has a least element: of the intervals from 0
\* to its elements one contains no other, strict inclusion being well-founded.
LEMMA LeastElement ==
  ASSUME NEW S, S \subseteq Nat, S # {}
  PROVE  \E n \in S : \A m \in S : n <= m
<1> DEFINE T == {0..n : n \in S}
<1>1. T \subseteq FiniteSubsetsOf(Nat) /\ T # {}
  <2>1. \A n \in S : 0..n \subseteq Nat /\ IsFiniteSet(0..n)
    BY FS_Interval
  <2>2. QED
    BY <2>1 DEF FiniteSubsetsOf
<1>2. PICK x \in T : \A y \in T : <<y, x>> \notin StrictSubsetOrdering(Nat)
  BY <1>1, WFMin, FS_StrictSubsetOrderingWellFounded
<1>3. PICK n \in S : x = 0..n
  OBVIOUS
<1>4. ASSUME NEW m \in S, m < n PROVE FALSE
  <2>1. 0..m \subseteq 0..n /\ n \in 0..n /\ n \notin 0..m
    BY <1>4
  <2>2. <<0..m, 0..n>> \in StrictSubsetOrdering(Nat)
    BY <2>1 DEF StrictSubsetOrdering
  <2>3. QED
    BY <1>2, <1>3, <2>2
<1>5. QED
  BY <1>4

\* Every nonempty set of positions of a ledger has a greatest element.
LEMMA GreatestElement ==
  ASSUME NEW L \in Nat, NEW S, S \subseteq 1..L, S # {}
  PROVE  \E n \in S : \A m \in S : m <= n
<1> DEFINE D == {L - n : n \in S}
<1>1. D \subseteq Nat /\ D # {}
  OBVIOUS
<1>2. PICK d \in D : \A m \in D : d <= m
  BY <1>1, LeastElement
<1>3. PICK n \in S : d = L - n
  OBVIOUS
<1>4. \A m \in S : L - m \in D
  OBVIOUS
<1>5. ASSUME NEW m \in S PROVE m <= n
  <2>1. L - n <= L - m
    BY <1>2, <1>3, <1>4
  <2>2. m \in 1..L /\ n \in 1..L
    OBVIOUS
  <2>3. QED
    BY <2>1, <2>2
<1>6. QED
  BY <1>5

\* The answered waits of a boundary in a journal, the newest of them, and where
\* a journal and the transitions put the cursor after n of these.
AnsweredAt(ws, n) ==
  {w \in DOMAIN ws : ws[w].transition_count = n /\ ws[w].response # None}
NewestOf(at) ==
  IF at = {} THEN 0 ELSE CHOOSE w \in at : \A v \in at : v <= w
ReplayOf(ts, ws, n) ==
  LET w == NewestOf(AnsweredAt(ws, n)) IN
  IF w # 0 THEN ws[w].actions[ws[w].response]
  ELSE IF n = 0 THEN EntryState ELSE ts[n].to

LEMMA ReplayedStateIs == ASSUME NEW n PROVE ReplayedState(n) = ReplayOf(transitions, waits, n)
BY DEF ReplayedState, ReplayOf, LastAnsweredWaitAt, NewestOf, AnsweredAt

LEMMA NewestAnswered ==
  ASSUME NEW ws \in Seq(Wait), NEW n
  PROVE  /\ AnsweredAt(ws, n) = {} => NewestOf(AnsweredAt(ws, n)) = 0
         /\ AnsweredAt(ws, n) # {} =>
              /\ NewestOf(AnsweredAt(ws, n)) \in AnsweredAt(ws, n)
              /\ \A v \in AnsweredAt(ws, n) : v <= NewestOf(AnsweredAt(ws, n))
<1> DEFINE A == AnsweredAt(ws, n)
           L == Len(ws)
<1>1. A \subseteq 1..L
  BY DEF AnsweredAt
<1>2. L \in Nat
  OBVIOUS
<1>3. ASSUME A # {}
      PROVE  \E w \in A : \A v \in A : v <= w
  <2> HIDE DEF A, L
  <2>1. QED
    BY <1>1, <1>2, <1>3, GreatestElement
<1>4. QED
  BY <1>3 DEF NewestOf

\* The replay up to a boundary depends on its answered waits and on the
\* transition that reached it.
SameAt(ts, ws, us, new, n) ==
  /\ AnsweredAt(new, n) = AnsweredAt(ws, n)
  /\ \A w \in AnsweredAt(ws, n) : new[w] = ws[w]
  /\ n # 0 => us[n] = ts[n]

LEMMA ReplayStable ==
  ASSUME NEW ws \in Seq(Wait), NEW ts, NEW us, NEW new, NEW n,
         SameAt(ts, ws, us, new, n)
  PROVE  ReplayOf(us, new, n) = ReplayOf(ts, ws, n)
<1>1. NewestOf(AnsweredAt(ws, n)) # 0 => NewestOf(AnsweredAt(ws, n)) \in AnsweredAt(ws, n)
  BY NewestAnswered
<1>2. QED
  BY <1>1 DEF ReplayOf, SameAt

\* CursorReplay as a relation of the three records.
ReplayHolds(c, ts, ws) ==
  /\ c.current_state = ReplayOf(ts, ws, Len(ts))
  /\ \A i \in DOMAIN ts : ts[i].from = ReplayOf(ts, ws, i - 1)

\* No wait is recorded ahead of the cursor, and the open one is at it.
WaitBoundaries ==
  /\ \A w \in DOMAIN waits : waits[w].transition_count <= cursor.transition_count
  /\ HasOpenWait => OpenWait.transition_count = cursor.transition_count
ReplayInv == ReplayHolds(cursor, transitions, waits) /\ WaitBoundaries

LEMMA ReplayCorrect == ReplayInv => CursorReplay
BY ReplayedStateIs DEF ReplayInv, ReplayHolds, CursorReplay

LEMMA ReplayInit == Init => ReplayInv
<1> SUFFICES ASSUME Init PROVE ReplayInv
  OBVIOUS
<1>1. waits \in Seq(Wait) /\ AnsweredAt(waits, 0) = {} /\ Len(transitions) = 0
  BY DEF Init, AnsweredAt
<1>2. ReplayOf(transitions, waits, 0) = EntryState
  BY <1>1, NewestAnswered DEF ReplayOf
<1>3. QED
  BY <1>1, <1>2 DEF Init, ReplayInv, ReplayHolds, WaitBoundaries, HasOpenWait

LEMMA ReplayFrame ==
  ASSUME ReplayInv, UNCHANGED <<cursor, transitions, waits>>
  PROVE  ReplayInv'
BY DEF ReplayInv, ReplayHolds, WaitBoundaries, HasOpenWait, OpenWait

LEMMA ReplayTransition ==
  ASSUME TypeOK, WaitTriple, ExecutionPairing, ReplayInv,
         NEW o \in Outcomes, NEW to \in StateIds, TransitionCommitted(o, to)
  PROVE  ReplayInv'
<1> DEFINE n == Len(transitions)
           new == [from |-> cursor.current_state, outcome |-> o, to |-> to,
                   execution_index |-> Len(executions)]
<1>1. /\ transitions \in Seq(Transition) /\ waits \in Seq(Wait) /\ n \in Nat
      /\ waits' = waits /\ cursor.transition_count = n /\ ~HasOpenWait
  BY DEF TypeOK, TransitionCommitted, ExecutionPairing, WaitTriple, Admitted,
     StatusGate, WaitingAllowed
<1>2. /\ transitions' = Append(transitions, new)
      /\ cursor'.current_state = to /\ cursor'.transition_count = n + 1
  BY <1>1 DEF TransitionCommitted
<1>3. /\ Len(transitions') = n + 1 /\ DOMAIN transitions' = 1..(n + 1)
      /\ transitions'[n + 1] = new
      /\ \A i \in 1..n : transitions'[i] = transitions[i]
  <2> HIDE DEF new
  <2>1. QED
    BY <1>1, <1>2
<1>4. new.to = to /\ new.from = cursor.current_state
  OBVIOUS
<1>5. \A m \in 0..n :
        ReplayOf(transitions', waits', m) = ReplayOf(transitions, waits, m)
  <2>1. TAKE m \in 0..n
  <2>2. m # 0 => transitions'[m] = transitions[m]
    BY <1>1, <1>3
  <2>3. SameAt(transitions, waits, transitions', waits', m)
    BY <1>1, <2>2 DEF SameAt
  <2>4. QED
    BY <1>1, <2>3, ReplayStable
<1>6. ReplayOf(transitions', waits', n + 1) = to
  <2>1. \A w \in DOMAIN waits : waits[w].transition_count <= n
    BY <1>1 DEF ReplayInv, WaitBoundaries
  <2>2. AnsweredAt(waits, n + 1) = {}
    BY <1>1, <2>1 DEF AnsweredAt
  <2>3. QED
    BY <1>1, <1>3, <1>4, <2>2, NewestAnswered DEF ReplayOf
<1>7. ReplayHolds(cursor', transitions', waits')
  <2>1. cursor'.current_state = ReplayOf(transitions', waits', Len(transitions'))
    BY <1>2, <1>3, <1>6
  <2>2. ASSUME NEW i \in DOMAIN transitions'
        PROVE  transitions'[i].from = ReplayOf(transitions', waits', i - 1)
    <3>1. CASE i = n + 1
      <4>1. ReplayOf(transitions', waits', n) = cursor.current_state
        BY <1>1, <1>5 DEF ReplayInv, ReplayHolds
      <4>2. transitions'[i].from = cursor.current_state
        BY <1>3, <1>4, <3>1
      <4>3. i - 1 = n
        BY <1>1, <3>1
      <4>4. QED
        BY <4>1, <4>2, <4>3
    <3>2. CASE i \in 1..n
      <4>1. i - 1 \in 0..n /\ i \in DOMAIN transitions
        BY <1>1, <3>2
      <4>2. QED
        BY <1>3, <1>5, <3>2, <4>1 DEF ReplayInv, ReplayHolds
    <3>3. QED
      BY <1>1, <1>3, <3>1, <3>2
  <2>3. QED
    BY <2>1, <2>2 DEF ReplayHolds
<1>8. WaitBoundaries'
  <2>1. \A w \in DOMAIN waits : waits[w].transition_count \in Nat
    <3>1. \A w \in DOMAIN waits : waits[w] \in Wait
      BY <1>1
    <3>2. QED
      BY <3>1 DEF Wait
  <2>2. ~HasOpenWait'
    BY <1>1 DEF HasOpenWait
  <2>3. QED
    BY <1>1, <1>2, <2>1, <2>2 DEF ReplayInv, WaitBoundaries
<1>9. QED
  BY <1>7, <1>8 DEF ReplayInv

\* A wait that is entered, or rewritten without an answer, moves nothing.
LEMMA ReplayUnanswered ==
  ASSUME TypeOK, ReplayInv, UNCHANGED <<cursor, transitions>>,
         waits' \in Seq(Wait), waits' # <<>>,
         OpenWait'.response = None,
         OpenWait'.transition_count = cursor.transition_count,
         Len(waits') \in {Len(waits), Len(waits) + 1},
         Len(waits') = Len(waits) => OpenWait.response = None,
         \A w \in 1..Len(waits') - 1 : waits'[w] = waits[w]
  PROVE  ReplayInv'
<1>1. waits \in Seq(Wait) /\ cursor.transition_count \in Nat
  BY DEF TypeOK
<1>2. \A n : AnsweredAt(waits', n) = AnsweredAt(waits, n)
  BY <1>1 DEF AnsweredAt, OpenWait, Latest
<1>3. \A n : \A w \in AnsweredAt(waits, n) : waits'[w] = waits[w]
  BY <1>1 DEF AnsweredAt, OpenWait, Latest
<1>4. \A n : ReplayOf(transitions', waits', n) = ReplayOf(transitions, waits, n)
  <2>1. TAKE n
  <2>2. SameAt(transitions, waits, transitions', waits', n)
    BY <1>2, <1>3 DEF SameAt
  <2>3. QED
    BY <1>1, <2>2, ReplayStable
<1>5. ReplayHolds(cursor', transitions', waits')
  BY <1>4 DEF ReplayInv, ReplayHolds
<1>6. WaitBoundaries'
  BY <1>1 DEF ReplayInv, WaitBoundaries, OpenWait, Latest
<1>7. QED
  BY <1>5, <1>6 DEF ReplayInv

LEMMA ReplayWaiting ==
  ASSUME TypeOK, ReplayInv, NEW s \in StateIds, NEW request \in Requests,
         NEW actions \in ActionLists, RunWaiting(s, request, actions)
  PROVE  ReplayInv'
<1> DEFINE new == [transition_count |-> cursor.transition_count,
                   state_id |-> s, request |-> request,
                   actions |-> actions, intent |-> None, response |-> None]
<1>1. waits \in Seq(Wait) /\ cursor.transition_count \in Nat
  BY DEF TypeOK
<1>2. new \in Wait /\ new.response = None
      /\ new.transition_count = cursor.transition_count
  BY <1>1 DEF Wait
<1>3. waits' = Append(waits, new) /\ UNCHANGED <<cursor, transitions>>
  BY DEF RunWaiting, graph
<1>4. /\ waits' \in Seq(Wait) /\ waits' # <<>> /\ OpenWait' = new
      /\ Len(waits') = Len(waits) + 1 /\ Len(waits) \in Nat
      /\ \A w \in 1..Len(waits) : waits'[w] = waits[w]
  <2> HIDE DEF new
  <2>1. QED
    BY <1>1, <1>2, <1>3, AppendLatest DEF OpenWait
<1>5. QED
  <2> HIDE DEF new
  <2>1. QED
    BY <1>2, <1>3, <1>4, ReplayUnanswered

LEMMA ReplayIntent ==
  ASSUME TypeOK, ReplayInv, NEW w \in DOMAIN waits, NEW intent \in Intents,
         PlanIntentAccepted(w, intent)
  PROVE  ReplayInv'
<1> DEFINE new == [OpenWait EXCEPT !.intent = intent]
<1>1. /\ waits' = ReplaceLatest(waits, new) /\ waits # <<>> /\ HasOpenWait
      /\ UNCHANGED <<cursor, transitions>>
  BY DEF PlanIntentAccepted, TargetsOpenWait, HasOpenWait, graph
<1>2. /\ waits \in Seq(Wait) /\ OpenWait \in Wait /\ new \in Wait
      /\ new.response = None /\ OpenWait.response = None
  BY <1>1, OpenWaitType DEF HasOpenWait, OpenWait
<1>3. new.transition_count = cursor.transition_count
  BY <1>1, <1>2 DEF ReplayInv, WaitBoundaries, Wait
<1>4. /\ waits' \in Seq(Wait) /\ waits' # <<>> /\ OpenWait' = new
      /\ Len(waits') = Len(waits)
      /\ \A v \in 1..Len(waits) - 1 : waits'[v] = waits[v]
  <2> HIDE DEF new
  <2>1. /\ waits' \in Seq(Wait) /\ Latest(waits') = new
        /\ Len(waits') = Len(waits)
        /\ \A v \in 1..Len(waits) - 1 : waits'[v] = waits[v]
    BY <1>1, <1>2, ReplaceLatestType
  <2>2. Len(waits) # 0
    BY <1>1, <1>2
  <2>3. QED
    BY <2>1, <2>2 DEF OpenWait
<1>5. QED
  <2> HIDE DEF new
  <2>1. QED
    BY <1>1, <1>2, <1>3, <1>4, ReplayUnanswered

LEMMA ReplayResponse ==
  ASSUME TypeOK, ExecutionPairing, ReplayInv, NEW w \in DOMAIN waits,
         NEW request \in Requests, NEW action \in ActionIds,
         WaitResponseRecorded(w, request, action)
  PROVE  ReplayInv'
<1> DEFINE new == [OpenWait EXCEPT !.response = action]
           n == Len(transitions)
           last == Len(waits)
<1>1. /\ waits' = ReplaceLatest(waits, new) /\ waits # <<>> /\ HasOpenWait
      /\ transitions' = transitions /\ action \in DOMAIN OpenWait.actions
      /\ cursor' = [cursor EXCEPT !.current_state = OpenWait.actions[action]]
  BY DEF WaitResponseRecorded, TargetsOpenWait, HasOpenWait, graph, RoutedCursor
<1>2. /\ waits \in Seq(Wait) /\ OpenWait \in Wait /\ new \in Wait
      /\ new.response = action /\ OpenWait.response = None
      /\ transitions \in Seq(Transition)
  BY <1>1, OpenWaitType DEF HasOpenWait, OpenWait, TypeOK
<1>3. action # None
  BY <1>1, <1>2, ActionAssumption DEF Wait
<1>4. /\ new.transition_count = OpenWait.transition_count
      /\ new.actions = OpenWait.actions
      /\ OpenWait.transition_count = n /\ cursor.transition_count = n /\ n \in Nat
  BY <1>1, <1>2 DEF ReplayInv, WaitBoundaries, Wait, ExecutionPairing
<1>5. /\ waits' \in Seq(Wait) /\ Len(waits') = last /\ waits'[last] = new
      /\ last \in DOMAIN waits' /\ last # 0
      /\ \A v \in 1..last - 1 : waits'[v] = waits[v]
  <2> HIDE DEF new
  <2>1. /\ waits' \in Seq(Wait) /\ Latest(waits') = new
        /\ Len(waits') = last
        /\ \A v \in 1..last - 1 : waits'[v] = waits[v]
    BY <1>1, <1>2, ReplaceLatestType
  <2>2. last \in Nat \ {0}
    BY <1>1, <1>2
  <2>3. QED
    BY <2>1, <2>2 DEF Latest
<1>6. \A m \in 0..n - 1 :
        ReplayOf(transitions', waits', m) = ReplayOf(transitions, waits, m)
  <2> HIDE DEF new
  <2>1. TAKE m \in 0..n - 1
  <2>2. m # n
    BY <1>4
  <2>a. DOMAIN waits' = 1..last /\ DOMAIN waits = 1..last
        /\ last \notin AnsweredAt(waits', m) /\ last \notin AnsweredAt(waits, m)
    BY <1>2, <1>4, <1>5, <2>2 DEF AnsweredAt, OpenWait, Latest
  <2>3. AnsweredAt(waits', m) = AnsweredAt(waits, m)
    BY <1>5, <2>a DEF AnsweredAt
  <2>4. \A v \in AnsweredAt(waits, m) : waits'[v] = waits[v]
    BY <1>2, <1>4, <1>5, <2>2 DEF AnsweredAt, OpenWait, Latest
  <2>5. QED
    <3>1. SameAt(transitions, waits, transitions', waits', m)
      BY <1>1, <2>3, <2>4 DEF SameAt
    <3>2. QED
      BY <1>2, <3>1, ReplayStable
<1>7. ReplayOf(transitions', waits', n) = OpenWait.actions[action]
  <2> HIDE DEF new
  <2>1. last \in AnsweredAt(waits', n)
    BY <1>2, <1>3, <1>4, <1>5 DEF AnsweredAt
  <2>2. NewestOf(AnsweredAt(waits', n)) = last
    <3>1. \A v \in AnsweredAt(waits', n) : v <= last
      BY <1>5 DEF AnsweredAt
    <3>2. AnsweredAt(waits', n) \subseteq Nat
      BY <1>5 DEF AnsweredAt
    <3>3. QED
      BY <1>5, <2>1, <3>1, <3>2, NewestAnswered
  <2>3. QED
    BY <1>2, <1>4, <1>5, <2>2 DEF ReplayOf
<1>8. ReplayHolds(cursor', transitions', waits')
  <2>1. cursor'.current_state = OpenWait.actions[action]
    BY <1>1 DEF TypeOK
  <2>2. \A i \in DOMAIN transitions : i - 1 \in 0..n - 1
    BY <1>2
  <2>3. QED
    BY <1>1, <1>6, <1>7, <2>1, <2>2 DEF ReplayInv, ReplayHolds
<1>9. WaitBoundaries'
  <2> HIDE DEF new
  <2>1. ~HasOpenWait'
    BY <1>2, <1>3, <1>5 DEF HasOpenWait, Latest
  <2>2. cursor'.transition_count = cursor.transition_count
    BY <1>1 DEF TypeOK
  <2>3. \A v \in 1..last : waits[v].transition_count <= cursor.transition_count
    BY <1>2 DEF ReplayInv, WaitBoundaries
  <2>4. \A v \in DOMAIN waits' : waits'[v].transition_count <= cursor.transition_count
    <3>1. TAKE v \in DOMAIN waits'
    <3>2. CASE v = last
      BY <1>4, <1>5, <3>2
    <3>3. CASE v # last
      <4>1. v \in 1..last - 1
        BY <1>5, <3>3
      <4>2. QED
        BY <1>5, <2>3, <4>1
    <3>4. QED
      BY <3>2, <3>3
  <2>5. QED
    BY <2>1, <2>2, <2>4 DEF WaitBoundaries
<1>10. QED
  BY <1>8, <1>9 DEF ReplayInv

LEMMA ReplayNext ==
  TypeOK /\ WaitTriple /\ ExecutionPairing /\ ReplayInv /\ [Next]_vars => ReplayInv'
<1> SUFFICES ASSUME TypeOK, WaitTriple, ExecutionPairing, ReplayInv, [Next]_vars
             PROVE  ReplayInv'
  OBVIOUS
<1>1. CASE ExecutionCommand
  <2>1. ASSUME NEW type \in ExecutionTypes, NEW s \in StateIds, NEW role \in Roles,
               NEW i \in IterationIndices \cup {None}, StartExecution(type, s, role, i)
        PROVE  ReplayInv'
    BY <2>1, ReplayFrame DEF StartExecution
  <2>2. CASE RewritesLast
    BY <2>2, ReplayFrame DEF RewritesLast, Settle
  <2>3. QED
    BY <1>1, <2>1, <2>2, ExecutionCases, ReplayTransition
<1>2. CASE RunCommand
  <2>1. \/ \E s \in StateIds, request \in Requests, actions \in ActionLists :
             RunWaiting(s, request, actions)
        \/ \E w \in DOMAIN waits, request \in Requests, action \in ActionIds :
             WaitResponseRecorded(w, request, action)
        \/ UNCHANGED <<cursor, transitions, waits>>
    BY <1>2 DEF RunCommand, TerminalReached, RunOutputsPublished, RunSucceeded,
       RunFailed, RunCleanupFailed, graph
  <2>2. QED
    BY <2>1, ReplayFrame, ReplayWaiting, ReplayResponse
<1>3. CASE StageCommand
  <2>1. \/ \E w \in DOMAIN waits, intent \in Intents : PlanIntentAccepted(w, intent)
        \/ UNCHANGED waits
    BY <1>3 DEF StageCommand, StageGenerationOpened, StageIterationOpened,
       StageIterationClosed, StageGenerationClosed, TaskRevisionAccepted,
       PlanRevisionAccepted, IterationGrantRecorded
  <2>2. CASE UNCHANGED waits
    BY <1>3, <2>2, StageFrame, ReplayFrame DEF graph
  <2>3. QED
    BY <2>1, <2>2, ReplayIntent
<1>4. CASE UNCHANGED vars
  BY <1>4, ReplayFrame DEF vars, graph
<1>5. QED
  BY <1>1, <1>2, <1>3, <1>4 DEF Next

\* The records of a run agree after any sequence of commands: no session id
\* names two slots, every cleanup record accounts for what was created, the
\* ending follows from terminal, outputs and cleanup, and the cursor is where
\* the transitions and the answered waits put it.
THEOREM RunCoherentAlways == Spec => []RunCoherent
<1>1. Init => SlotsUnique /\ EndingInv /\ ReplayInv
  <2>1. Init => SlotsUnique
    BY DEF Init, SlotsUnique
  <2>2. QED
    BY <2>1, EndingInit, ReplayInit
<1>2. /\ TypeOK /\ WaitTriple /\ ExecutionPairing /\ [Next]_vars
      /\ SlotsUnique /\ EndingInv /\ ReplayInv
      => (SlotsUnique /\ EndingInv /\ ReplayInv)'
  BY UniqueNext, EndingNext, ReplayNext
<1>3. TypeOK /\ SlotsUnique /\ EndingInv /\ ReplayInv => RunCoherent
  BY UniqueBySlots, CleanupParts, ReplayCorrect DEF EndingInv, RunCoherent
<1>4. QED
  BY <1>1, <1>2, <1>3, TypeCorrect, WaitTripleAlways, PairingAlways, PTL DEF Spec

-----------------------------------------------------------------------------
(* What each command that touches a generation does to the ledger,         *)
(* position by position.                                                   *)

Its(g) == generations[g].iterations

\* The generation all stage commands are about is the last one.
LEMMA LastGeneration ==
  ASSUME TypeOK, generations # <<>>
  PROVE  /\ Len(generations) \in DOMAIN generations
         /\ OpenGeneration = generations[Len(generations)]
         /\ OpenGeneration.iterations = Its(Len(generations))
BY DEF TypeOK, OpenGeneration, Latest, Its

LEMMA GenerationOpenedShape ==
  ASSUME TypeOK, NEW plan \in PlanDigests, NEW budget \in InitialBudgets,
         NEW count \in 0..MaxTransitions, StageGenerationOpened(plan, budget, count)
  PROVE  LET n == Len(generations) + 1 IN
         /\ Len(generations') = n /\ DOMAIN generations' = 1..n
         /\ \A g \in DOMAIN generations : generations'[g] = generations[g]
         /\ generations'[n].iterations = <<>> /\ generations'[n].closed = None
         /\ generations'[n].opened = cursor.transition_count
         /\ generations'[n].initial_budget = budget
         /\ ~HasOpenGeneration
<1> DEFINE new == [plan_sha256 |-> plan, initial_budget |-> budget, opened |-> count,
                   iterations |-> <<>>, closed |-> None]
<1>1. /\ generations \in Seq(Generation) /\ generations' = Append(generations, new)
      /\ count = cursor.transition_count /\ ~HasOpenGeneration
  BY DEF TypeOK, StageGenerationOpened, OpeningBoundary
<1>2. /\ Len(generations') = Len(generations) + 1
      /\ DOMAIN generations' = 1..Len(generations) + 1
      /\ generations'[Len(generations) + 1] = new
      /\ \A g \in DOMAIN generations : generations'[g] = generations[g]
  <2> HIDE DEF new
  <2>1. QED
    BY <1>1
<1>3. QED
  BY <1>1, <1>2

\* Only the last generation changes, and of it only its iterations.
OnlyIterations(g) ==
  /\ g = Len(generations) /\ g \in DOMAIN generations
  /\ Len(generations') = Len(generations)
  /\ DOMAIN generations' = DOMAIN generations
  /\ \A h \in DOMAIN generations : h # g => generations'[h] = generations[h]
  /\ generations'[g].plan_sha256 = generations[g].plan_sha256
  /\ generations'[g].opened = generations[g].opened
  /\ generations'[g].closed = generations[g].closed
  /\ generations'[g].initial_budget = generations[g].initial_budget

LEMMA IterationsWritten ==
  ASSUME TypeOK, NEW g \in DOMAIN generations, g = Len(generations),
         NEW its \in Seq(Iteration),
         generations' = [generations EXCEPT ![g].iterations = its]
  PROVE  OnlyIterations(g) /\ generations'[g].iterations = its
<1>1. generations \in Seq(Generation) /\ generations[g] \in Generation
  BY DEF TypeOK
<1>2. generations'[g] = [generations[g] EXCEPT !.iterations = its]
  BY <1>1
<1>3. /\ generations'[g].iterations = its
      /\ generations'[g].plan_sha256 = generations[g].plan_sha256
      /\ generations'[g].opened = generations[g].opened
      /\ generations'[g].closed = generations[g].closed
      /\ generations'[g].initial_budget = generations[g].initial_budget
  BY <1>1, <1>2 DEF Generation
<1>4. /\ DOMAIN generations' = DOMAIN generations
      /\ Len(generations') = Len(generations)
      /\ \A h \in DOMAIN generations : h # g => generations'[h] = generations[h]
  <2>1. generations' \in Seq(Generation)
    BY GenerationsType
  <2>2. QED
    BY <1>1, <2>1
<1>5. QED
  BY <1>3, <1>4 DEF OnlyIterations

LEMMA IterationOpenedShape ==
  ASSUME TypeOK, NEW g \in DOMAIN generations, NEW i \in 1..MaxSafeInteger,
         NEW count \in 0..MaxTransitions, StageIterationOpened(g, i, count)
  PROVE  LET n == Len(Its(g)) + 1 IN
         /\ OnlyIterations(g)
         /\ generations[g].closed = None
         /\ Its(g) # <<>> => Its(g)[Len(Its(g))].closed # None
         /\ Its(g) \in Seq(Iteration)
         /\ DOMAIN Its(g)' = 1..n /\ Len(Its(g)') = n
         /\ \A k \in DOMAIN Its(g) : Its(g)'[k] = Its(g)[k]
         /\ Its(g)'[n].opened = cursor.transition_count
         /\ Its(g)'[n].closed = None
         /\ EffectiveBudget(g) <= MaxSafeInteger /\ n <= EffectiveBudget(g)
<1> DEFINE new == [opened |-> count, closed |-> None]
<1>1. /\ HasOpenGeneration /\ ~HasOpenIteration /\ g = Len(generations)
      /\ generations' = [generations EXCEPT ![g].iterations = Append(Its(g), new)]
      /\ count = cursor.transition_count
      /\ EffectiveBudget(g) <= MaxSafeInteger /\ Len(Its(g)) + 1 <= EffectiveBudget(g)
  BY DEF StageIterationOpened, OpeningBoundary, WithinBudget, Its
<1>2. Its(g) \in Seq(Iteration) /\ new \in Iteration
  <2>1. new \in Iteration
    BY PipelineAssumption DEF Iteration
  <2>2. QED
    BY <2>1, IterationsType DEF Its
<1>3. generations # <<>> /\ OpenGeneration = generations[g]
  BY <1>1, LastGeneration DEF HasOpenGeneration
<1>4. /\ Append(Its(g), new) \in Seq(Iteration)
      /\ Len(Append(Its(g), new)) = Len(Its(g)) + 1
      /\ DOMAIN Append(Its(g), new) = 1..Len(Its(g)) + 1
      /\ Append(Its(g), new)[Len(Its(g)) + 1] = new
      /\ \A k \in DOMAIN Its(g) : Append(Its(g), new)[k] = Its(g)[k]
  <2> HIDE DEF new
  <2>1. QED
    BY <1>2
<1>5. OnlyIterations(g) /\ generations'[g].iterations = Append(Its(g), new)
  <2> HIDE DEF new
  <2>1. QED
    BY <1>1, <1>4, IterationsWritten
<1>6. /\ generations[g].closed = None
      /\ Its(g) # <<>> => Its(g)[Len(Its(g))].closed # None
  BY <1>1, <1>3 DEF HasOpenGeneration, HasOpenIteration, OpenGeneration, Latest, Its
<1>7. new.opened = count /\ new.closed = None
  OBVIOUS
<1>8. Its(g)' = Append(Its(g), new)
  BY <1>5 DEF Its
<1>9. QED
  <2> HIDE DEF new
  <2>1. QED
    BY <1>1, <1>2, <1>4, <1>5, <1>6, <1>7, <1>8

LEMMA IterationClosedShape ==
  ASSUME TypeOK, NEW g \in DOMAIN generations, NEW i \in IterationIndices,
         NEW by \in WaitBoundClose \cup ActiveClose,
         NEW w \in DOMAIN waits \cup {None}, StageIterationClosed(g, i, by, w)
  PROVE  LET n == Len(Its(g)) IN
         /\ OnlyIterations(g)
         /\ generations[g].closed = None
         /\ n \in DOMAIN Its(g) /\ Its(g)[n].closed = None
         /\ Its(g) \in Seq(Iteration)
         /\ DOMAIN Its(g)' = DOMAIN Its(g) /\ Len(Its(g)') = n
         /\ \A k \in DOMAIN Its(g) : k # n => Its(g)'[k] = Its(g)[k]
         /\ Its(g)'[n].opened = Its(g)[n].opened
         /\ Its(g)'[n].closed =
              [by |-> by, count |-> cursor.transition_count, wait_index |-> w]
<1> DEFINE n == Len(Its(g))
           closing == [by |-> by, count |-> cursor.transition_count, wait_index |-> w]
<1>1. /\ HasOpenIteration /\ g = Len(generations) /\ i = n
      /\ generations' = [generations EXCEPT ![g].iterations[i].closed = closing]
  BY DEF StageIterationClosed, Its
<1>2. generations # <<>> /\ OpenGeneration = generations[g]
  BY <1>1, LastGeneration DEF HasOpenIteration, HasOpenGeneration
<1>3. Its(g) \in Seq(Iteration) /\ Its(g) # <<>>
  BY <1>1, <1>2, IterationsType DEF HasOpenIteration, Its
<1>4. n \in DOMAIN Its(g) /\ Its(g)[n] \in Iteration
  BY <1>3
<1>5. [Its(g)[n] EXCEPT !.closed = closing] \in Iteration
  <2>1. w \in Nat \cup {None} /\ cursor.transition_count \in Nat
    BY DEF TypeOK
  <2>2. QED
    BY <1>4, <2>1 DEF Iteration
<1>6. DEFINE its == [Its(g) EXCEPT ![n].closed = closing]
<1>7. /\ its \in Seq(Iteration) /\ DOMAIN its = DOMAIN Its(g) /\ Len(its) = n
      /\ \A k \in DOMAIN Its(g) : k # n => its[k] = Its(g)[k]
      /\ its[n].opened = Its(g)[n].opened /\ its[n].closed = closing
  <2> HIDE DEF closing
  <2>1. its = [Its(g) EXCEPT ![n] = [Its(g)[n] EXCEPT !.closed = closing]]
    BY <1>4
  <2>2. /\ its \in Seq(Iteration) /\ DOMAIN its = DOMAIN Its(g) /\ Len(its) = n
        /\ \A k \in DOMAIN Its(g) : k # n => its[k] = Its(g)[k]
        /\ its[n] = [Its(g)[n] EXCEPT !.closed = closing]
    BY <1>3, <1>4, <1>5, <2>1
  <2>3. QED
    BY <1>4, <2>2 DEF Iteration
<1>8. OnlyIterations(g) /\ generations'[g].iterations = its
  <2>1. generations' = [generations EXCEPT ![g].iterations = its]
    BY <1>1 DEF Its
  <2>2. QED
    <3> HIDE DEF its, closing
    <3>1. QED
      BY ZenonT(30), <1>1, <1>7, <2>1, IterationsWritten
<1>9. generations[g].closed = None /\ Its(g)[n].closed = None
  BY <1>1, <1>2 DEF HasOpenGeneration, HasOpenIteration, OpenGeneration, Latest, Its
<1>10. Its(g)' = its
  BY <1>8 DEF Its
<1>11. QED
  <2> HIDE DEF its
  <2>1. QED
    BY <1>3, <1>4, <1>7, <1>8, <1>9, <1>10

LEMMA GenerationClosedShape ==
  ASSUME TypeOK, NEW g \in DOMAIN generations, StageGenerationClosed(g)
  PROVE  /\ g = Len(generations)
         /\ Len(generations') = Len(generations)
         /\ DOMAIN generations' = DOMAIN generations
         /\ \A h \in DOMAIN generations : h # g => generations'[h] = generations[h]
         /\ generations[g].closed = None
         /\ Its(g) # <<>> /\ Its(g)[Len(Its(g))].closed # None
         /\ generations'[g].iterations = generations[g].iterations
         /\ generations'[g].opened = generations[g].opened
         /\ generations'[g].initial_budget = generations[g].initial_budget
         /\ generations'[g].plan_sha256 = generations[g].plan_sha256
         /\ generations'[g].closed = [count |-> cursor.transition_count]
<1> DEFINE closing == [count |-> cursor.transition_count]
<1>1. /\ HasOpenGeneration /\ ~HasOpenIteration /\ g = Len(generations)
      /\ OpenGeneration.iterations # <<>>
      /\ generations' = [generations EXCEPT ![g].closed = closing]
  BY DEF StageGenerationClosed
<1>2. generations \in Seq(Generation) /\ generations[g] \in Generation
  BY DEF TypeOK
<1>3. OpenGeneration = generations[g]
  BY <1>1, LastGeneration DEF HasOpenGeneration
<1>4. generations'[g] = [generations[g] EXCEPT !.closed = closing]
  BY <1>1, <1>2
<1>5. /\ generations'[g].iterations = generations[g].iterations
      /\ generations'[g].opened = generations[g].opened
      /\ generations'[g].initial_budget = generations[g].initial_budget
      /\ generations'[g].plan_sha256 = generations[g].plan_sha256
      /\ generations'[g].closed = closing
  BY <1>2, <1>4 DEF Generation
<1>6. /\ DOMAIN generations' = DOMAIN generations
      /\ Len(generations') = Len(generations)
      /\ \A h \in DOMAIN generations : h # g => generations'[h] = generations[h]
  BY <1>1, <1>2
<1>7. /\ generations[g].closed = None
      /\ Its(g) # <<>> /\ Its(g)[Len(Its(g))].closed # None
  BY <1>1, <1>3 DEF HasOpenGeneration, HasOpenIteration, OpenGeneration, Latest, Its
<1>8. QED
  BY <1>1, <1>5, <1>6, <1>7

\* The commands that touch the generations; every other one leaves them alone.
OpensGeneration ==
  \E plan \in PlanDigests, budget \in InitialBudgets, count \in 0..MaxTransitions :
    StageGenerationOpened(plan, budget, count)
OpensIteration ==
  \E g \in DOMAIN generations, i \in 1..MaxSafeInteger, count \in 0..MaxTransitions :
    StageIterationOpened(g, i, count)
ClosesIteration ==
  \E g \in DOMAIN generations, i \in IterationIndices,
     by \in WaitBoundClose \cup ActiveClose, w \in DOMAIN waits \cup {None} :
    StageIterationClosed(g, i, by, w)
ClosesGeneration == \E g \in DOMAIN generations : StageGenerationClosed(g)
AcceptsIntent ==
  \E w \in DOMAIN waits, intent \in Intents : PlanIntentAccepted(w, intent)
AcceptsTask ==
  \E t \in TaskIds, r \in 1..MaxTaskRevisions, digest \in TaskDigests,
     w \in DOMAIN waits \cup {None}, intent \in Intents \cup {None} :
    TaskRevisionAccepted(t, r, digest, w, intent)
AcceptsPlan ==
  \E r \in 1..MaxPlanRevisions, plan \in PlanDigests, origin \in DOMAIN executions :
    PlanRevisionAccepted(r, plan, origin)
RecordsGrant ==
  \E g \in DOMAIN generations, w \in DOMAIN waits, intent \in Intents,
     additional \in Extensions : IterationGrantRecorded(g, w, intent, additional)

LEMMA StageCases ==
  StageCommand <=>
    \/ OpensGeneration \/ OpensIteration \/ ClosesIteration \/ ClosesGeneration
    \/ AcceptsIntent \/ AcceptsTask \/ AcceptsPlan \/ RecordsGrant
BY DEF StageCommand, OpensGeneration, OpensIteration, ClosesIteration,
       ClosesGeneration, AcceptsIntent, AcceptsTask, AcceptsPlan, RecordsGrant

\* What each of them leaves alone.
LEMMA StageUntouched ==
  /\ OpensGeneration \/ OpensIteration \/ ClosesIteration \/ ClosesGeneration
       => UNCHANGED <<task_revisions, plan_revisions, grants, waits>>
  /\ AcceptsIntent => UNCHANGED <<generations, task_revisions, plan_revisions, grants>>
  /\ AcceptsTask => UNCHANGED <<generations, plan_revisions, grants, waits>>
  /\ AcceptsPlan => UNCHANGED <<generations, task_revisions, grants, waits>>
  /\ RecordsGrant => UNCHANGED <<generations, task_revisions, plan_revisions, waits>>
<1>1. OpensGeneration \/ OpensIteration \/ ClosesIteration \/ ClosesGeneration
        => UNCHANGED <<task_revisions, plan_revisions, grants, waits>>
  BY DEF OpensGeneration, OpensIteration, ClosesIteration, ClosesGeneration,
     StageGenerationOpened, StageIterationOpened, StageIterationClosed,
     StageGenerationClosed
<1>2. AcceptsIntent => UNCHANGED <<generations, task_revisions, plan_revisions, grants>>
  BY DEF AcceptsIntent, PlanIntentAccepted, stages
<1>3. AcceptsTask => UNCHANGED <<generations, plan_revisions, grants, waits>>
  BY DEF AcceptsTask, TaskRevisionAccepted
<1>4. AcceptsPlan => UNCHANGED <<generations, task_revisions, grants, waits>>
  BY DEF AcceptsPlan, PlanRevisionAccepted
<1>5. RecordsGrant => UNCHANGED <<generations, task_revisions, plan_revisions, waits>>
  BY DEF RecordsGrant, IterationGrantRecorded
<1>6. QED
  BY <1>1, <1>2, <1>3, <1>4, <1>5

-----------------------------------------------------------------------------
(* The ledgers are append-only.                                            *)

\* The ledgers that only grow, and the records that are only completed.
AppendOnly ==
  /\ GrowsAtEnd(transitions', transitions, DOMAIN transitions)
  /\ GrowsAtEnd(task_revisions', task_revisions, DOMAIN task_revisions)
  /\ GrowsAtEnd(plan_revisions', plan_revisions, DOMAIN plan_revisions)
  /\ GrowsAtEnd(grants', grants, DOMAIN grants)
  /\ GrowsAtEnd(executions', executions,
                {e \in DOMAIN executions : IsSettled(executions[e])})
  /\ GrowsAtEnd(waits', waits, {w \in DOMAIN waits : waits[w].response # None})
  /\ GrowsAtEnd(generations', generations, ClosedRecords(generations))
  /\ \A g \in DOMAIN generations :
       GrowsAtEnd(generations'[g].iterations, generations[g].iterations,
                  ClosedRecords(generations[g].iterations))

LEMMA GrowsSame ==
  ASSUME NEW S, NEW s \in Seq(S), NEW fixed
  PROVE  GrowsAtEnd(s, s, fixed)
BY DEF GrowsAtEnd

LEMMA GrowsByAppend ==
  ASSUME NEW S, NEW s \in Seq(S), NEW e, NEW fixed \in SUBSET DOMAIN s
  PROVE  GrowsAtEnd(Append(s, e), s, fixed)
BY DEF GrowsAtEnd

\* Rewriting the last record is no loss as long as it was not final.
LEMMA GrowsByReplace ==
  ASSUME NEW S, NEW s \in Seq(S), s # <<>>, NEW e \in S,
         NEW fixed \in SUBSET DOMAIN s, Len(s) \notin fixed
  PROVE  GrowsAtEnd(ReplaceLatest(s, e), s, fixed)
<1>1. /\ Len(ReplaceLatest(s, e)) = Len(s)
      /\ \A i \in 1..Len(s) - 1 : ReplaceLatest(s, e)[i] = s[i]
  BY ReplaceLatestType
<1>2. fixed \subseteq 1..Len(s) - 1 /\ Len(s) \in Nat
  OBVIOUS
<1>3. QED
  BY <1>1, <1>2 DEF GrowsAtEnd

LEMMA LedgerTypes ==
  ASSUME TypeOK
  PROVE  /\ transitions \in Seq(Transition) /\ task_revisions \in Seq(TaskRevision)
         /\ plan_revisions \in Seq(PlanRevision) /\ grants \in Seq(Grant)
         /\ executions \in Seq(Execution) /\ waits \in Seq(Wait)
         /\ generations \in Seq(Generation)
BY DEF TypeOK

\* The generations of a command that leaves them alone.
LEMMA GenerationsGrowSame ==
  ASSUME TypeOK, UNCHANGED generations
  PROVE  /\ GrowsAtEnd(generations', generations, ClosedRecords(generations))
         /\ \A g \in DOMAIN generations :
              GrowsAtEnd(generations'[g].iterations, generations[g].iterations,
                         ClosedRecords(generations[g].iterations))
<1>1. \A g \in DOMAIN generations : generations[g].iterations \in Seq(Iteration)
  BY IterationsType
<1>2. QED
  BY <1>1, GrowsSame, LedgerTypes

LEMMA GenerationsGrow ==
  ASSUME TypeOK,
         OpensGeneration \/ OpensIteration \/ ClosesIteration \/ ClosesGeneration
  PROVE  /\ GrowsAtEnd(generations', generations, ClosedRecords(generations))
         /\ \A g \in DOMAIN generations :
              GrowsAtEnd(generations'[g].iterations, generations[g].iterations,
                         ClosedRecords(generations[g].iterations))
<1> DEFINE Grown ==
      /\ GrowsAtEnd(generations', generations, ClosedRecords(generations))
      /\ \A g \in DOMAIN generations :
           GrowsAtEnd(generations'[g].iterations, generations[g].iterations,
                      ClosedRecords(generations[g].iterations))
<1>a. /\ generations \in Seq(Generation)
      /\ \A g \in DOMAIN generations : generations[g].iterations \in Seq(Iteration)
  BY IterationsType, LedgerTypes
<1>b. \A g \in DOMAIN generations :
        GrowsAtEnd(Its(g), Its(g), ClosedRecords(Its(g)))
  BY <1>a, GrowsSame DEF Its
<1>1. CASE OpensGeneration
  <2>1. /\ Len(generations') = Len(generations) + 1
        /\ \A g \in DOMAIN generations : generations'[g] = generations[g]
    BY <1>1, GenerationOpenedShape DEF OpensGeneration
  <2>2. QED
    BY <1>a, <1>b, <2>1 DEF GrowsAtEnd, ClosedRecords, Its
<1>2. ASSUME NEW g \in DOMAIN generations, OnlyIterations(g),
             generations[g].closed = None,
             GrowsAtEnd(Its(g)', Its(g), ClosedRecords(Its(g)))
      PROVE  Grown
  <2>1. GrowsAtEnd(generations', generations, ClosedRecords(generations))
    BY <1>a, <1>2 DEF GrowsAtEnd, ClosedRecords, OnlyIterations
  <2>2. ASSUME NEW h \in DOMAIN generations
        PROVE  GrowsAtEnd(generations'[h].iterations, generations[h].iterations,
                          ClosedRecords(generations[h].iterations))
    <3>1. CASE h = g
      BY <1>2, <3>1 DEF Its
    <3>2. CASE h # g
      BY <1>b, <1>2, <3>2 DEF Its, OnlyIterations
    <3>3. QED
      BY <3>1, <3>2
  <2>3. QED
    BY <2>1, <2>2
<1>3. CASE OpensIteration
  <2>1. PICK g \in DOMAIN generations, i \in 1..MaxSafeInteger,
             count \in 0..MaxTransitions : StageIterationOpened(g, i, count)
    BY <1>3 DEF OpensIteration
  <2>2. /\ OnlyIterations(g) /\ generations[g].closed = None
        /\ Its(g) \in Seq(Iteration)
        /\ Len(Its(g)') = Len(Its(g)) + 1
        /\ \A k \in DOMAIN Its(g) : Its(g)'[k] = Its(g)[k]
    BY <2>1, IterationOpenedShape
  <2>3. GrowsAtEnd(Its(g)', Its(g), ClosedRecords(Its(g)))
    BY <2>2 DEF GrowsAtEnd, ClosedRecords
  <2>4. QED
    BY <1>2, <2>2, <2>3
<1>4. CASE ClosesIteration
  <2>1. PICK g \in DOMAIN generations, i \in IterationIndices,
             by \in WaitBoundClose \cup ActiveClose, w \in DOMAIN waits \cup {None} :
               StageIterationClosed(g, i, by, w)
    BY <1>4 DEF ClosesIteration
  <2>2. /\ OnlyIterations(g) /\ generations[g].closed = None
        /\ Its(g) \in Seq(Iteration) /\ Its(g)[Len(Its(g))].closed = None
        /\ Len(Its(g)') = Len(Its(g))
        /\ \A k \in DOMAIN Its(g) : k # Len(Its(g)) => Its(g)'[k] = Its(g)[k]
    BY <2>1, IterationClosedShape
  <2>3. GrowsAtEnd(Its(g)', Its(g), ClosedRecords(Its(g)))
    BY <2>2 DEF GrowsAtEnd, ClosedRecords
  <2>4. QED
    BY <1>2, <2>2, <2>3
<1>5. CASE ClosesGeneration
  <2>1. PICK g \in DOMAIN generations : StageGenerationClosed(g)
    BY <1>5 DEF ClosesGeneration
  <2>2. /\ Len(generations') = Len(generations)
        /\ \A h \in DOMAIN generations : h # g => generations'[h] = generations[h]
        /\ generations[g].closed = None
        /\ \A h \in DOMAIN generations :
             generations'[h].iterations = generations[h].iterations
    BY <2>1, GenerationClosedShape
  <2>3. QED
    BY <1>a, <1>b, <2>2 DEF GrowsAtEnd, ClosedRecords, Its
<1>6. QED
  BY <1>1, <1>3, <1>4, <1>5

\* A step that leaves the lifecycle ledgers alone, or the graph, loses nothing.
LEMMA GraphGrowsSame ==
  ASSUME TypeOK, UNCHANGED graph
  PROVE  /\ GrowsAtEnd(transitions', transitions, DOMAIN transitions)
         /\ GrowsAtEnd(executions', executions,
                       {e \in DOMAIN executions : IsSettled(executions[e])})
BY GrowsSame, LedgerTypes DEF graph

LEMMA WaitsGrowSame ==
  ASSUME TypeOK, UNCHANGED waits
  PROVE  GrowsAtEnd(waits', waits, {w \in DOMAIN waits : waits[w].response # None})
BY GrowsSame, LedgerTypes

LEMMA InterventionsGrowSame ==
  ASSUME TypeOK, UNCHANGED <<task_revisions, plan_revisions, grants>>
  PROVE  /\ GrowsAtEnd(task_revisions', task_revisions, DOMAIN task_revisions)
         /\ GrowsAtEnd(plan_revisions', plan_revisions, DOMAIN plan_revisions)
         /\ GrowsAtEnd(grants', grants, DOMAIN grants)
BY GrowsSame, LedgerTypes

\* The open wait is the last one: rewriting it loses no answer.
LEMMA WaitsGrowRewritten ==
  ASSUME TypeOK, HasOpenWait, NEW e \in Wait, waits' = ReplaceLatest(waits, e)
  PROVE  GrowsAtEnd(waits', waits, {w \in DOMAIN waits : waits[w].response # None})
<1> DEFINE answered == {w \in DOMAIN waits : waits[w].response # None}
<1>1. waits \in Seq(Wait) /\ waits # <<>> /\ waits[Len(waits)].response = None
  BY LedgerTypes DEF HasOpenWait, Latest
<1>2. answered \in SUBSET DOMAIN waits /\ Len(waits) \notin answered
  BY <1>1
<1>3. QED
  <2> HIDE DEF answered
  <2>1. GrowsAtEnd(ReplaceLatest(waits, e), waits, answered)
    BY <1>1, <1>2, GrowsByReplace
  <2>2. QED
    BY <2>1 DEF answered

LEMMA AppendOnlyExecution == TypeOK /\ ExecutionCommand => AppendOnly
<1> SUFFICES ASSUME TypeOK, ExecutionCommand PROVE AppendOnly
  OBVIOUS
<1> DEFINE settled == {e \in DOMAIN executions : IsSettled(executions[e])}
<1>a. UNCHANGED <<stages, waits>>
  BY ExecutionCases DEF StartExecution, TransitionCommitted, RewritesLast, Settle
<1>b. /\ executions \in Seq(Execution) /\ transitions \in Seq(Transition)
      /\ settled \in SUBSET DOMAIN executions
  BY LedgerTypes
<1>1. /\ GrowsAtEnd(executions', executions, settled)
      /\ GrowsAtEnd(transitions', transitions, DOMAIN transitions)
  <2>1. ASSUME NEW type \in ExecutionTypes, NEW s \in StateIds, NEW role \in Roles,
               NEW i \in IterationIndices \cup {None}, StartExecution(type, s, role, i)
        PROVE  /\ GrowsAtEnd(executions', executions, settled)
               /\ GrowsAtEnd(transitions', transitions, DOMAIN transitions)
    <3>1. PICK e : executions' = Append(executions, e)
      BY <2>1 DEF StartExecution
    <3>2. transitions' = transitions
      BY <2>1 DEF StartExecution
    <3> HIDE DEF settled
    <3>3. QED
      BY <1>b, <3>1, <3>2, GrowsByAppend, GrowsSame
  <2>2. ASSUME NEW o \in Outcomes, NEW to \in StateIds, TransitionCommitted(o, to)
        PROVE  /\ GrowsAtEnd(executions', executions, settled)
               /\ GrowsAtEnd(transitions', transitions, DOMAIN transitions)
    <3>1. PICK e : transitions' = Append(transitions, e)
      BY <2>2 DEF TransitionCommitted
    <3>2. executions' = executions
      BY <2>2 DEF TransitionCommitted
    <3> HIDE DEF settled
    <3>3. QED
      BY <1>b, <3>1, <3>2, GrowsByAppend, GrowsSame
  <2>3. CASE RewritesLast
    <3>1. PICK e \in Execution : Settle(e)
      BY <2>3 DEF RewritesLast
    <3>2. /\ executions' = ReplaceLatest(executions, e) /\ transitions' = transitions
          /\ executions # <<>> /\ ~IsSettled(LastExecution)
      BY <2>3, <3>1 DEF RewritesLast, Settle
    <3>3. Len(executions) \notin settled
      BY <3>2 DEF LastExecution, Latest
    <3> HIDE DEF settled
    <3>4. QED
      BY <1>b, <3>2, <3>3, GrowsByReplace, GrowsSame
  <2>4. QED
    BY <2>1, <2>2, <2>3, ExecutionCases
<1>2. QED
  BY <1>a, <1>1, WaitsGrowSame, InterventionsGrowSame, GenerationsGrowSame
     DEF AppendOnly, stages

LEMMA AppendOnlyRun == TypeOK /\ RunCommand => AppendOnly
<1> SUFFICES ASSUME TypeOK, RunCommand PROVE AppendOnly
  OBVIOUS
<1>a. UNCHANGED <<graph, stages>>
  BY DEF RunCommand, RunWaiting, WaitResponseRecorded, TerminalReached,
     RunOutputsPublished, RunSucceeded, RunFailed, RunCleanupFailed
<1>1. \/ \E s \in StateIds, request \in Requests, actions \in ActionLists :
           RunWaiting(s, request, actions)
      \/ \E w \in DOMAIN waits, request \in Requests, action \in ActionIds :
           WaitResponseRecorded(w, request, action)
      \/ UNCHANGED waits
  BY DEF RunCommand, TerminalReached, RunOutputsPublished, RunSucceeded,
     RunFailed, RunCleanupFailed
<1>2. GrowsAtEnd(waits', waits, {w \in DOMAIN waits : waits[w].response # None})
  <2>1. ASSUME NEW s \in StateIds, NEW request \in Requests,
               NEW actions \in ActionLists, RunWaiting(s, request, actions)
        PROVE  GrowsAtEnd(waits', waits, {w \in DOMAIN waits : waits[w].response # None})
    <3>1. PICK e : waits' = Append(waits, e)
      BY <2>1 DEF RunWaiting
    <3>2. {w \in DOMAIN waits : waits[w].response # None} \in SUBSET DOMAIN waits
      OBVIOUS
    <3>3. QED
      BY <3>1, <3>2, LedgerTypes, GrowsByAppend
  <2>2. ASSUME NEW w \in DOMAIN waits, NEW request \in Requests,
               NEW action \in ActionIds, WaitResponseRecorded(w, request, action)
        PROVE  GrowsAtEnd(waits', waits, {v \in DOMAIN waits : waits[v].response # None})
    <3>1. HasOpenWait /\ waits' = ReplaceLatest(waits, [OpenWait EXCEPT !.response = action])
      BY <2>2 DEF WaitResponseRecorded, TargetsOpenWait
    <3>2. [OpenWait EXCEPT !.response = action] \in Wait
      BY <3>1, OpenWaitType DEF Wait, HasOpenWait
    <3>3. QED
      BY <3>1, <3>2, WaitsGrowRewritten
  <2>3. QED
    BY <1>1, <2>1, <2>2, WaitsGrowSame
<1>3. QED
  BY <1>a, <1>2, GraphGrowsSame, InterventionsGrowSame, GenerationsGrowSame
     DEF AppendOnly, stages

LEMMA AppendOnlyStage == TypeOK /\ StageCommand => AppendOnly
<1> SUFFICES ASSUME TypeOK, StageCommand PROVE AppendOnly
  OBVIOUS
<1>a. UNCHANGED graph
  BY StageFrame
<1> USE DEF AppendOnly
<1>1. CASE OpensGeneration \/ OpensIteration \/ ClosesIteration \/ ClosesGeneration
  BY <1>a, <1>1, StageUntouched, GraphGrowsSame, WaitsGrowSame, InterventionsGrowSame,
     GenerationsGrow
<1>2. CASE AcceptsIntent
  <2>1. PICK w \in DOMAIN waits, intent \in Intents : PlanIntentAccepted(w, intent)
    BY <1>2 DEF AcceptsIntent
  <2>2. HasOpenWait /\ waits' = ReplaceLatest(waits, [OpenWait EXCEPT !.intent = intent])
    BY <2>1 DEF PlanIntentAccepted, TargetsOpenWait
  <2>3. [OpenWait EXCEPT !.intent = intent] \in Wait
    BY <2>2, OpenWaitType DEF Wait, HasOpenWait
  <2>4. QED
    BY <1>a, <1>2, <2>2, <2>3, StageUntouched, WaitsGrowRewritten, GraphGrowsSame,
       InterventionsGrowSame, GenerationsGrowSame
<1>3. CASE AcceptsTask
  <2>1. PICK e : task_revisions' = Append(task_revisions, e)
    BY <1>3 DEF AcceptsTask, TaskRevisionAccepted
  <2>2. QED
    BY <1>a, <1>3, <2>1, StageUntouched, GraphGrowsSame, WaitsGrowSame,
       GenerationsGrowSame, GrowsByAppend, GrowsSame, LedgerTypes
<1>4. CASE AcceptsPlan
  <2>1. PICK e : plan_revisions' = Append(plan_revisions, e)
    BY <1>4 DEF AcceptsPlan, PlanRevisionAccepted
  <2>2. QED
    BY <1>a, <1>4, <2>1, StageUntouched, GraphGrowsSame, WaitsGrowSame,
       GenerationsGrowSame, GrowsByAppend, GrowsSame, LedgerTypes
<1>5. CASE RecordsGrant
  <2>1. PICK e : grants' = Append(grants, e)
    BY <1>5 DEF RecordsGrant, IterationGrantRecorded
  <2>2. QED
    BY <1>a, <1>5, <2>1, StageUntouched, GraphGrowsSame, WaitsGrowSame,
       GenerationsGrowSame, GrowsByAppend, GrowsSame, LedgerTypes
<1>6. QED
  BY <1>1, <1>2, <1>3, <1>4, <1>5, StageCases

\* No step loses a record.
LEMMA AppendOnlyNext == TypeOK /\ [Next]_vars => AppendOnly
<1> SUFFICES ASSUME TypeOK, [Next]_vars PROVE AppendOnly
  OBVIOUS
<1>1. CASE UNCHANGED vars
  BY <1>1, GraphGrowsSame, WaitsGrowSame, InterventionsGrowSame, GenerationsGrowSame
     DEF vars, stages, AppendOnly
<1>2. QED
  BY <1>1, AppendOnlyExecution, AppendOnlyRun, AppendOnlyStage DEF Next

LEMMA CompletedSame == ASSUME NEW r, NEW moving PROVE Filled(r, r, moving)
BY DEF Filled

SlotsByPhase == \A i \in DOMAIN executions : UnfilledSlots(executions[i])
ExecutionsFilled ==
  \A i \in DOMAIN executions : Filled(executions'[i], executions[i], {"phase"})

\* The phases an execution went through say which fields it still lacks, so a
\* command that looks at the phase alone replaces none.
LEMMA ExecutionsFill ==
  TypeOK /\ SlotsByPhase /\ [Next]_vars => SlotsByPhase' /\ ExecutionsFilled
<1> SUFFICES ASSUME TypeOK, SlotsByPhase, [Next]_vars
             PROVE  SlotsByPhase' /\ ExecutionsFilled
  OBVIOUS
<1>1. CASE UNCHANGED executions
  BY <1>1, CompletedSame DEF SlotsByPhase, ExecutionsFilled
<1>2. ASSUME NEW type \in ExecutionTypes, NEW s \in StateIds, NEW role \in Roles,
             NEW i \in IterationIndices \cup {None}, StartExecution(type, s, role, i)
      PROVE  SlotsByPhase' /\ ExecutionsFilled
  <2> DEFINE n == Len(executions) + 1
             e == [type |-> type, state_id |-> s, execution_role |-> role,
                   iteration_index |-> i,
                   phase |-> IF type = "agent" THEN "started" ELSE "evaluating",
                   execution_session_id |-> None, tool_session_id |-> None,
                   worker_log |-> None, stage_task |-> None,
                   session_cleanup |-> None, result |-> None]
  <2>1. executions \in Seq(Execution) /\ executions' = Append(executions, e)
    BY <1>2 DEF TypeOK, StartExecution
  <2>2. UnfilledSlots(e)
    BY DEF UnfilledSlots
  <2> HIDE DEF e
  <2>3. /\ DOMAIN executions' = 1..n /\ executions'[n] = e
        /\ \A k \in DOMAIN executions : executions'[k] = executions[k]
        /\ \A k \in 1..n : k = n \/ k \in DOMAIN executions
    BY <2>1
  <2>4. QED
    BY <2>2, <2>3, CompletedSame DEF SlotsByPhase, ExecutionsFilled
<1>3. CASE RewritesLast
  <2>1. PICK e \in Execution : Settle(e) /\ Fills(e)
    BY <1>3 DEF RewritesLast
  <2>2. /\ Len(executions) \in DOMAIN executions
        /\ DOMAIN executions' = DOMAIN executions
        /\ executions'[Len(executions)] = e
        /\ \A i \in DOMAIN executions :
             i # Len(executions) => executions'[i] = executions[i]
    BY <1>3, <2>1, SettlePositions DEF RewritesLast
  <2>3. UnfilledSlots(e) /\ Filled(e, executions[Len(executions)], {"phase"})
    BY <2>1, <2>2 DEF Fills, SlotsByPhase, LastExecution, Latest
  <2>4. QED
    BY <2>2, <2>3, CompletedSame DEF SlotsByPhase, ExecutionsFilled
<1>4. CASE ExecutionCommand
  BY <1>1, <1>2, <1>3, <1>4, ExecutionCases DEF TransitionCommitted
<1>5. CASE RunCommand
  BY <1>5, <1>1 DEF RunCommand, RunWaiting, WaitResponseRecorded, TerminalReached,
     RunOutputsPublished, RunSucceeded, RunFailed, RunCleanupFailed, graph
<1>6. CASE StageCommand
  BY <1>6, <1>1, StageFrame DEF graph
<1>7. QED
  BY <1>1, <1>4, <1>5, <1>6 DEF Next, vars, graph

WaitsFilled == \A w \in DOMAIN waits : Filled(waits'[w], waits[w], {})

\* A wait gains an intent and a response, each once.
LEMMA WaitFilled ==
  ASSUME NEW old \in Wait, NEW new,
         \/ \E intent : old.intent = None /\ new = [old EXCEPT !.intent = intent]
         \/ \E action : old.response = None /\ new = [old EXCEPT !.response = action]
  PROVE  Filled(new, old, {})
<1>1. DOMAIN old = {"transition_count", "state_id", "request", "actions", "intent",
                    "response"}
  BY DEF Wait
<1>2. QED
  BY <1>1 DEF Filled, Wait

LEMMA WaitsFillRewritten ==
  ASSUME TypeOK, HasOpenWait, NEW new \in Wait, waits' = ReplaceLatest(waits, new),
         Filled(new, OpenWait, {})
  PROVE  WaitsFilled
<1>1. waits \in Seq(Wait) /\ waits # <<>>
  BY LedgerTypes DEF HasOpenWait
<1>2. /\ Latest(waits') = new /\ Len(waits') = Len(waits)
      /\ \A i \in 1..Len(waits) - 1 : waits'[i] = waits[i]
  BY <1>1, ReplaceLatestType
<1>3. \A w \in DOMAIN waits : w = Len(waits) \/ w \in 1..Len(waits) - 1
  BY <1>1
<1>4. QED
  BY <1>1, <1>2, <1>3, CompletedSame DEF WaitsFilled, OpenWait, Latest

LEMMA WaitsFill == TypeOK /\ [Next]_vars => WaitsFilled
<1> SUFFICES ASSUME TypeOK, [Next]_vars PROVE WaitsFilled
  OBVIOUS
<1>1. CASE UNCHANGED waits
  BY <1>1, CompletedSame DEF WaitsFilled
<1>2. ASSUME NEW s \in StateIds, NEW request \in Requests,
             NEW actions \in ActionLists, RunWaiting(s, request, actions)
      PROVE  WaitsFilled
  <2>1. PICK e : waits' = Append(waits, e)
    BY <1>2 DEF RunWaiting
  <2>2. \A w \in DOMAIN waits : waits'[w] = waits[w]
    BY <2>1, LedgerTypes
  <2>3. QED
    BY <2>2, CompletedSame DEF WaitsFilled
<1>3. ASSUME NEW w \in DOMAIN waits, NEW request \in Requests,
             NEW action \in ActionIds, WaitResponseRecorded(w, request, action)
      PROVE  WaitsFilled
  <2> DEFINE new == [OpenWait EXCEPT !.response = action]
  <2>1. HasOpenWait /\ waits' = ReplaceLatest(waits, new) /\ OpenWait.response = None
    BY <1>3 DEF WaitResponseRecorded, TargetsOpenWait, HasOpenWait, OpenWait
  <2>2. OpenWait \in Wait /\ new \in Wait
    BY <2>1, OpenWaitType DEF Wait, HasOpenWait
  <2>3. Filled(new, OpenWait, {})
    BY <2>1, <2>2, WaitFilled
  <2> HIDE DEF new
  <2>4. QED
    BY <2>1, <2>2, <2>3, WaitsFillRewritten
<1>4. ASSUME NEW w \in DOMAIN waits, NEW intent \in Intents,
             PlanIntentAccepted(w, intent)
      PROVE  WaitsFilled
  <2> DEFINE new == [OpenWait EXCEPT !.intent = intent]
  <2>1. HasOpenWait /\ waits' = ReplaceLatest(waits, new) /\ OpenWait.intent = None
    BY <1>4 DEF PlanIntentAccepted, TargetsOpenWait
  <2>2. OpenWait \in Wait /\ new \in Wait
    BY <2>1, OpenWaitType DEF Wait, HasOpenWait
  <2>3. Filled(new, OpenWait, {})
    BY <2>1, <2>2, WaitFilled
  <2> HIDE DEF new
  <2>4. QED
    BY <2>1, <2>2, <2>3, WaitsFillRewritten
<1>5. CASE ExecutionCommand
  BY <1>5, <1>1, ExecutionFrame
<1>6. CASE RunCommand
  BY <1>6, <1>1, <1>2, <1>3 DEF RunCommand, TerminalReached, RunOutputsPublished,
     RunSucceeded, RunFailed, RunCleanupFailed
<1>7. CASE StageCommand
  <2>1. AcceptsIntent => WaitsFilled
    BY <1>4 DEF AcceptsIntent
  <2>2. QED
    BY <1>7, <1>1, <2>1, StageCases, StageUntouched
<1>8. QED
  BY <1>1, <1>5, <1>6, <1>7 DEF Next, vars

GenerationsFilled ==
  \A g \in DOMAIN generations :
    /\ Filled(generations'[g], generations[g], {"iterations"})
    /\ \A i \in DOMAIN generations[g].iterations :
         Filled(generations'[g].iterations[i], generations[g].iterations[i], {})

LEMMA GenerationFilled ==
  ASSUME NEW old \in Generation, NEW new,
         /\ new.plan_sha256 = old.plan_sha256 /\ new.opened = old.opened
         /\ new.initial_budget = old.initial_budget,
         old.closed # None => new.closed = old.closed
  PROVE  Filled(new, old, {"iterations"})
<1>1. DOMAIN old = {"plan_sha256", "initial_budget", "opened", "iterations", "closed"}
  BY DEF Generation
<1>2. QED
  BY <1>1 DEF Filled

LEMMA IterationFilled ==
  ASSUME NEW old \in Iteration, NEW new, new.opened = old.opened,
         old.closed # None => new.closed = old.closed
  PROVE  Filled(new, old, {})
<1>1. DOMAIN old = {"opened", "closed"}
  BY DEF Iteration
<1>2. QED
  BY <1>1 DEF Filled

LEMMA GenerationsFillStage ==
  ASSUME TypeOK,
         OpensGeneration \/ OpensIteration \/ ClosesIteration \/ ClosesGeneration
  PROVE  GenerationsFilled
<1>a. /\ generations \in Seq(Generation)
      /\ \A g \in DOMAIN generations : generations[g] \in Generation
      /\ \A g \in DOMAIN generations : Its(g) \in Seq(Iteration)
      /\ \A g \in DOMAIN generations : \A i \in DOMAIN Its(g) : Its(g)[i] \in Iteration
  BY IterationsType, LedgerTypes DEF Its
<1>1. CASE OpensGeneration
  <2>1. \A g \in DOMAIN generations : generations'[g] = generations[g]
    BY <1>1, GenerationOpenedShape DEF OpensGeneration
  <2>2. QED
    BY <2>1, CompletedSame DEF GenerationsFilled
<1>2. ASSUME NEW g \in DOMAIN generations, OnlyIterations(g),
             \A i \in DOMAIN Its(g) : Filled(Its(g)'[i], Its(g)[i], {})
      PROVE  GenerationsFilled
  <2>1. Filled(generations'[g], generations[g], {"iterations"})
    BY <1>a, <1>2, GenerationFilled DEF OnlyIterations
  <2>2. QED
    BY <1>2, <2>1, CompletedSame DEF GenerationsFilled, OnlyIterations, Its
<1>3. CASE OpensIteration
  <2>1. PICK g \in DOMAIN generations, i \in 1..MaxSafeInteger,
             count \in 0..MaxTransitions : StageIterationOpened(g, i, count)
    BY <1>3 DEF OpensIteration
  <2>2. OnlyIterations(g) /\ \A k \in DOMAIN Its(g) : Its(g)'[k] = Its(g)[k]
    BY <2>1, IterationOpenedShape
  <2>3. QED
    BY <1>2, <2>2, CompletedSame
<1>4. CASE ClosesIteration
  <2>1. PICK g \in DOMAIN generations, i \in IterationIndices,
             by \in WaitBoundClose \cup ActiveClose, w \in DOMAIN waits \cup {None} :
               StageIterationClosed(g, i, by, w)
    BY <1>4 DEF ClosesIteration
  <2> DEFINE n == Len(Its(g))
  <2>2. /\ OnlyIterations(g) /\ n \in DOMAIN Its(g) /\ Its(g)[n].closed = None
        /\ \A k \in DOMAIN Its(g) : k # n => Its(g)'[k] = Its(g)[k]
        /\ Its(g)'[n].opened = Its(g)[n].opened
    BY <2>1, IterationClosedShape
  <2>3. Filled(Its(g)'[n], Its(g)[n], {})
    BY <1>a, <2>2, IterationFilled
  <2>4. QED
    BY <1>2, <2>2, <2>3, CompletedSame
<1>5. CASE ClosesGeneration
  <2>1. PICK g \in DOMAIN generations : StageGenerationClosed(g)
    BY <1>5 DEF ClosesGeneration
  <2>2. /\ \A h \in DOMAIN generations : h # g => generations'[h] = generations[h]
        /\ generations[g].closed = None
        /\ generations'[g].iterations = generations[g].iterations
        /\ generations'[g].opened = generations[g].opened
        /\ generations'[g].initial_budget = generations[g].initial_budget
        /\ generations'[g].plan_sha256 = generations[g].plan_sha256
    BY <2>1, GenerationClosedShape
  <2>3. Filled(generations'[g], generations[g], {"iterations"})
    BY <1>a, <2>2, GenerationFilled
  <2>4. QED
    BY <2>2, <2>3, CompletedSame DEF GenerationsFilled
<1>6. QED
  BY <1>1, <1>3, <1>4, <1>5

LEMMA GenerationsFill == TypeOK /\ [Next]_vars => GenerationsFilled
<1> SUFFICES ASSUME TypeOK, [Next]_vars PROVE GenerationsFilled
  OBVIOUS
<1>1. CASE UNCHANGED generations
  BY <1>1, CompletedSame DEF GenerationsFilled
<1>2. CASE ExecutionCommand
  BY <1>2, <1>1, ExecutionFrame DEF stages
<1>3. CASE RunCommand
  BY <1>3, <1>1 DEF RunCommand, RunWaiting, WaitResponseRecorded, TerminalReached,
     RunOutputsPublished, RunSucceeded, RunFailed, RunCleanupFailed, stages
<1>4. CASE StageCommand
  BY <1>4, <1>1, StageCases, StageUntouched, GenerationsFillStage
<1>5. QED
  BY <1>1, <1>2, <1>3, <1>4 DEF Next, vars, stages

\* No command loses or rewrites a record: ledgers grow at their end, what is
\* settled, closed or answered stays, and a field that is bound is never replaced.
THEOREM LedgersAppendOnlyAlways == Spec => LedgersAppendOnly
<1>1. Init => SlotsByPhase
  BY DEF Init, SlotsByPhase
<1>2. TypeOK /\ SlotsByPhase /\ [Next]_vars => SlotsByPhase'
  BY ExecutionsFill
<1>3. TypeOK /\ SlotsByPhase /\ [Next]_vars => [AppendOnly /\ FieldsKept]_vars
  BY AppendOnlyNext, ExecutionsFill, WaitsFill, GenerationsFill
     DEF FieldsKept, ExecutionsFilled, WaitsFilled, GenerationsFilled
<1>4. QED
  BY <1>1, <1>2, <1>3, TypeCorrect, PTL DEF Spec, LedgersAppendOnly, AppendOnly

-----------------------------------------------------------------------------
(* One generation and one iteration open at most, in the order of the      *)
(* boundaries.  The invariant adds to SingleOpenLifecycle that no count is *)
(* ahead of the cursor, without which a later closure could go backwards.  *)

IterationOrdered(gen, i, n) ==
  LET its == gen.iterations IN
  /\ gen.opened <= its[i].opened /\ its[i].opened <= n
  /\ its[i].closed # None =>
       /\ its[i].opened <= its[i].closed.count
       /\ its[i].closed.count <= n
  /\ i < Len(its) =>
       /\ its[i].closed # None
       /\ its[i].closed.count <= its[i + 1].opened

GenerationOrdered(gen, n) ==
  /\ gen.opened <= n
  /\ \A i \in DOMAIN gen.iterations : IterationOrdered(gen, i, n)
  /\ gen.closed # None =>
       /\ gen.iterations # <<>>
       /\ Latest(gen.iterations).closed # None
       /\ Latest(gen.iterations).closed.count <= gen.closed.count
       /\ gen.closed.count <= n

LifecycleOrdered(gens, n) ==
  \A g \in DOMAIN gens :
    /\ GenerationOrdered(gens[g], n)
    /\ g < Len(gens) =>
         /\ gens[g].closed # None
         /\ gens[g].closed.count <= gens[g + 1].opened

LifecycleInv == LifecycleOrdered(generations, cursor.transition_count)

LEMMA LifecycleCorrect == LifecycleInv => SingleOpenLifecycle
BY DEF LifecycleInv, LifecycleOrdered, GenerationOrdered, IterationOrdered,
       SingleOpenLifecycle

LEMMA GenerationFields ==
  ASSUME NEW gen \in Generation
  PROVE  /\ gen.opened \in Nat /\ gen.iterations \in Seq(Iteration)
         /\ gen.closed # None => gen.closed.count \in Nat
         /\ \A i \in DOMAIN gen.iterations :
              /\ gen.iterations[i].opened \in Nat
              /\ gen.iterations[i].closed # None =>
                   gen.iterations[i].closed.count \in Nat
<1>1. /\ gen.opened \in Nat /\ gen.iterations \in Seq(Iteration)
      /\ gen.closed # None => gen.closed.count \in Nat
  BY DEF Generation
<1>2. \A i \in DOMAIN gen.iterations : gen.iterations[i] \in Iteration
  BY <1>1
<1>3. QED
  BY <1>1, <1>2 DEF Iteration

\* The order of a generation still holds when the cursor has moved on.
LEMMA OrderedLater ==
  ASSUME NEW gen \in Generation, NEW n \in Nat, NEW m \in Nat, n <= m,
         GenerationOrdered(gen, n)
  PROVE  GenerationOrdered(gen, m)
<1>1. ASSUME NEW i \in DOMAIN gen.iterations PROVE IterationOrdered(gen, i, m)
  <2>1. IterationOrdered(gen, i, n)
    BY DEF GenerationOrdered
  <2>2. gen.iterations[i].opened <= m
    BY <2>1, GenerationFields DEF IterationOrdered
  <2>3. gen.iterations[i].closed # None => gen.iterations[i].closed.count <= m
    BY <2>1, GenerationFields DEF IterationOrdered
  <2>4. QED
    BY <2>1, <2>2, <2>3 DEF IterationOrdered
<1>2. gen.opened <= m /\ (gen.closed # None => gen.closed.count <= m)
  BY GenerationFields DEF GenerationOrdered
<1>3. QED
  BY <1>1, <1>2 DEF GenerationOrdered

LEMMA LifecycleFrame ==
  ASSUME TypeOK, LifecycleInv, UNCHANGED generations,
         cursor'.transition_count \in Nat,
         cursor.transition_count <= cursor'.transition_count
  PROVE  LifecycleInv'
<1>1. /\ \A g \in DOMAIN generations : generations[g] \in Generation
      /\ cursor.transition_count \in Nat
  BY DEF TypeOK
<1>2. \A g \in DOMAIN generations :
        GenerationOrdered(generations[g], cursor'.transition_count)
  BY <1>1, OrderedLater DEF LifecycleInv, LifecycleOrdered
<1>3. QED
  BY <1>2 DEF LifecycleInv, LifecycleOrdered

LEMMA LifecycleGenerationOpened ==
  ASSUME TypeOK, LifecycleInv, OpensGeneration
  PROVE  LifecycleInv'
<1> DEFINE last == Len(generations)
           c == cursor.transition_count
<1>1. PICK plan \in PlanDigests, budget \in InitialBudgets, count \in 0..MaxTransitions :
        StageGenerationOpened(plan, budget, count)
  BY DEF OpensGeneration
<1>2. /\ Len(generations') = last + 1 /\ DOMAIN generations' = 1..last + 1
      /\ \A g \in DOMAIN generations : generations'[g] = generations[g]
      /\ generations'[last + 1].iterations = <<>>
      /\ generations'[last + 1].closed = None
      /\ generations'[last + 1].opened = c
      /\ ~HasOpenGeneration
  BY <1>1, GenerationOpenedShape
<1>3. cursor' = cursor /\ generations \in Seq(Generation) /\ c \in Nat
  BY <1>1 DEF StageGenerationOpened, TypeOK
<1>4. GenerationOrdered(generations'[last + 1], c)
  BY <1>2, <1>3 DEF GenerationOrdered
<1>5. last # 0 => generations[last].closed # None
  BY <1>2, <1>3 DEF HasOpenGeneration, Latest
<1>6. ASSUME NEW g \in DOMAIN generations
      PROVE  /\ GenerationOrdered(generations'[g], c)
             /\ generations'[g].closed # None
             /\ generations'[g].closed.count <= generations'[g + 1].opened
  <2>1. /\ GenerationOrdered(generations[g], c) /\ g \in 1..last
        /\ g < last => /\ generations[g].closed # None
                       /\ generations[g].closed.count <= generations[g + 1].opened
    BY <1>3 DEF LifecycleInv, LifecycleOrdered
  <2>2. CASE g = last
    BY <1>2, <1>3, <1>5, <2>1, <2>2 DEF GenerationOrdered
  <2>3. CASE g # last
    <3>1. g < last /\ g + 1 \in DOMAIN generations
      BY <1>3, <2>1, <2>3
    <3>2. QED
      BY <1>2, <2>1, <3>1
  <2>4. QED
    BY <2>2, <2>3
<1>7. QED
  BY <1>2, <1>3, <1>4, <1>6 DEF LifecycleInv, LifecycleOrdered

\* A step that rewrites only the last generation keeps the order as soon as
\* that generation is in order.
LEMMA LifecycleLastRewritten ==
  ASSUME TypeOK, LifecycleInv, NEW g \in DOMAIN generations, g = Len(generations),
         UNCHANGED cursor, Len(generations') = Len(generations),
         DOMAIN generations' = DOMAIN generations,
         \A h \in DOMAIN generations : h # g => generations'[h] = generations[h],
         generations'[g].opened = generations[g].opened,
         GenerationOrdered(generations'[g], cursor.transition_count)
  PROVE  LifecycleInv'
<1>1. generations \in Seq(Generation) /\ Len(generations) \in Nat
  BY DEF TypeOK
<1>2. ASSUME NEW h \in DOMAIN generations, h # g
      PROVE  /\ GenerationOrdered(generations'[h], cursor.transition_count)
             /\ generations'[h].closed # None
             /\ generations'[h].closed.count <= generations'[h + 1].opened
  <2>1. h < Len(generations) /\ h + 1 \in DOMAIN generations
    BY <1>1, <1>2
  <2>2. /\ generations[h].closed # None
        /\ generations[h].closed.count <= generations[h + 1].opened
        /\ GenerationOrdered(generations[h], cursor.transition_count)
    BY <2>1 DEF LifecycleInv, LifecycleOrdered
  <2>3. generations'[h + 1].opened = generations[h + 1].opened
    BY <2>1
  <2>4. QED
    BY <1>2, <2>2, <2>3
<1>3. QED
  BY <1>1, <1>2 DEF LifecycleInv, LifecycleOrdered

LEMMA LifecycleIterationOpened ==
  ASSUME TypeOK, LifecycleInv, OpensIteration
  PROVE  LifecycleInv'
<1>1. PICK g \in DOMAIN generations, i \in 1..MaxSafeInteger, count \in 0..MaxTransitions :
        StageIterationOpened(g, i, count)
  BY DEF OpensIteration
<1> DEFINE n == Len(Its(g))
           c == cursor.transition_count
<1>2. /\ OnlyIterations(g) /\ generations[g].closed = None
      /\ n # 0 => Its(g)[n].closed # None
      /\ Its(g) \in Seq(Iteration)
      /\ DOMAIN Its(g)' = 1..n + 1 /\ Len(Its(g)') = n + 1
      /\ \A k \in DOMAIN Its(g) : Its(g)'[k] = Its(g)[k]
      /\ Its(g)'[n + 1].opened = c /\ Its(g)'[n + 1].closed = None
  BY <1>1, IterationOpenedShape
<1>3. cursor' = cursor /\ c \in Nat /\ generations[g] \in Generation
  BY <1>1 DEF StageIterationOpened, TypeOK
<1>4. GenerationOrdered(generations[g], c)
  BY DEF LifecycleInv, LifecycleOrdered
<1>5. ASSUME NEW k \in 1..n + 1 PROVE IterationOrdered(generations'[g], k, c)
  <2>1. CASE k = n + 1
    BY SMTT(30), <1>2, <1>3, <1>4, <2>1 DEF IterationOrdered, GenerationOrdered, OnlyIterations, Its
  <2>2. CASE k # n + 1
    <3>1. k \in DOMAIN Its(g) /\ k \in 1..n
      BY <1>2, <2>2
    <3>2. IterationOrdered(generations[g], k, c)
      BY <1>4, <3>1 DEF GenerationOrdered, Its
    <3>3. CASE k = n
      BY SMTT(30), <1>2, <1>3, <3>1, <3>2, <3>3 DEF IterationOrdered, OnlyIterations, Its
    <3>4. CASE k # n
      <4>1. k < n /\ k + 1 \in DOMAIN Its(g)
        BY <1>2, <3>1, <3>4
      <4>2. QED
        BY <1>2, <1>3, <3>1, <3>2, <4>1 DEF IterationOrdered, OnlyIterations, Its
    <3>5. QED
      BY <3>3, <3>4
  <2>3. QED
    BY <2>1, <2>2
<1>6. GenerationOrdered(generations'[g], c)
  BY <1>2, <1>4, <1>5 DEF GenerationOrdered, OnlyIterations, Its
<1>7. QED
  BY <1>2, <1>3, <1>6, LifecycleLastRewritten DEF OnlyIterations

LEMMA LifecycleIterationClosed ==
  ASSUME TypeOK, LifecycleInv, ClosesIteration
  PROVE  LifecycleInv'
<1>1. PICK g \in DOMAIN generations, i \in IterationIndices,
           by \in WaitBoundClose \cup ActiveClose, w \in DOMAIN waits \cup {None} :
        StageIterationClosed(g, i, by, w)
  BY DEF ClosesIteration
<1> DEFINE n == Len(Its(g))
           c == cursor.transition_count
<1>2. /\ OnlyIterations(g) /\ generations[g].closed = None
      /\ n \in DOMAIN Its(g) /\ Its(g)[n].closed = None /\ Its(g) \in Seq(Iteration)
      /\ DOMAIN Its(g)' = DOMAIN Its(g) /\ Len(Its(g)') = n
      /\ \A k \in DOMAIN Its(g) : k # n => Its(g)'[k] = Its(g)[k]
      /\ Its(g)'[n].opened = Its(g)[n].opened
      /\ Its(g)'[n].closed = [by |-> by, count |-> c, wait_index |-> w]
  BY <1>1, IterationClosedShape
<1>3. cursor' = cursor /\ c \in Nat /\ generations[g] \in Generation
  BY <1>1 DEF StageIterationClosed, TypeOK
<1>4. GenerationOrdered(generations[g], c) /\ Its(g)'[n].closed.count = c
  BY <1>2 DEF LifecycleInv, LifecycleOrdered
<1>5. ASSUME NEW k \in DOMAIN Its(g) PROVE IterationOrdered(generations'[g], k, c)
  <2>1. IterationOrdered(generations[g], k, c) /\ k \in 1..n
    BY <1>2, <1>4 DEF GenerationOrdered, Its
  <2>2. CASE k = n
    BY SMTT(30), <1>2, <1>3, <1>4, <2>1, <2>2 DEF IterationOrdered, OnlyIterations, Its
  <2>3. CASE k # n
    <3>1. k < n /\ k + 1 \in DOMAIN Its(g) /\ Its(g)'[k + 1].opened = Its(g)[k + 1].opened
      BY <1>2, <2>1, <2>3
    <3>2. QED
      BY <1>2, <2>1, <2>3, <3>1 DEF IterationOrdered, OnlyIterations, Its
  <2>4. QED
    BY <2>2, <2>3
<1>6. GenerationOrdered(generations'[g], c)
  BY <1>2, <1>4, <1>5 DEF GenerationOrdered, OnlyIterations, Its
<1>7. QED
  BY <1>2, <1>3, <1>6, LifecycleLastRewritten DEF OnlyIterations

LEMMA LifecycleGenerationClosed ==
  ASSUME TypeOK, LifecycleInv, ClosesGeneration
  PROVE  LifecycleInv'
<1>1. PICK g \in DOMAIN generations : StageGenerationClosed(g)
  BY DEF ClosesGeneration
<1> DEFINE c == cursor.transition_count
<1>2. /\ g = Len(generations) /\ Len(generations') = Len(generations)
      /\ DOMAIN generations' = DOMAIN generations
      /\ \A h \in DOMAIN generations : h # g => generations'[h] = generations[h]
      /\ Its(g) # <<>> /\ Its(g)[Len(Its(g))].closed # None
      /\ generations'[g].iterations = generations[g].iterations
      /\ generations'[g].opened = generations[g].opened
      /\ generations'[g].closed = [count |-> c]
  BY <1>1, GenerationClosedShape
<1>3. cursor' = cursor /\ c \in Nat /\ generations[g] \in Generation
  BY <1>1 DEF StageGenerationClosed, TypeOK
<1>4. /\ GenerationOrdered(generations[g], c) /\ generations'[g].closed.count = c
      /\ Len(Its(g)) \in DOMAIN Its(g)
  <2>1. Its(g) \in Seq(Iteration)
    BY <1>3, GenerationFields DEF Its
  <2>2. QED
    BY <1>2, <2>1 DEF LifecycleInv, LifecycleOrdered
<1>5. \A k \in DOMAIN Its(g) : IterationOrdered(generations'[g], k, c)
  BY <1>2, <1>4 DEF GenerationOrdered, IterationOrdered, Its
<1>6. GenerationOrdered(generations'[g], c)
  BY <1>2, <1>3, <1>4, <1>5 DEF GenerationOrdered, IterationOrdered, Latest, Its
<1>7. QED
  BY <1>2, <1>3, <1>6, LifecycleLastRewritten

\* Every other step leaves the generations alone, and none moves back.
LEMMA GenerationSteps ==
  ASSUME [Next]_vars
  PROVE  \/ OpensGeneration \/ OpensIteration \/ ClosesIteration \/ ClosesGeneration
         \/ UNCHANGED generations
<1>1. CASE ExecutionCommand
  BY <1>1 DEF ExecutionCommand, StartExecution, TransitionCommitted,
     AgentDataPrepared, AgentExecutionSessionCreated, AgentToolSessionCreated,
     AgentRunning, AgentOutputsAccepted, AgentCleanupCompleted, AgentFailed,
     DecisionEvaluated, DecisionFailed, Settle, stages
<1>2. CASE RunCommand
  BY <1>2 DEF RunCommand, RunWaiting, WaitResponseRecorded, TerminalReached,
     RunOutputsPublished, RunSucceeded, RunFailed, RunCleanupFailed, stages
<1>3. CASE StageCommand
  BY <1>3, StageCases, StageUntouched
<1>4. CASE UNCHANGED vars
  BY <1>4 DEF vars, stages
<1>5. QED
  BY <1>1, <1>2, <1>3, <1>4 DEF Next

LEMMA CursorAdvances ==
  ASSUME TypeOK, [Next]_vars
  PROVE  /\ cursor'.transition_count \in Nat
         /\ cursor.transition_count <= cursor'.transition_count
<1>0. cursor \in [current_state : StateIds, transition_count : Nat]
  BY DEF TypeOK
<1>1. CASE UNCHANGED cursor
  BY <1>0, <1>1
<1>2. ASSUME NEW o \in Outcomes, NEW to \in StateIds, TransitionCommitted(o, to)
      PROVE  cursor'.transition_count = cursor.transition_count + 1
  BY <1>2 DEF TransitionCommitted
<1>3. ASSUME NEW w \in DOMAIN waits, NEW request \in Requests, NEW action \in ActionIds,
             WaitResponseRecorded(w, request, action)
      PROVE  cursor'.transition_count = cursor.transition_count
  BY <1>0, <1>3 DEF WaitResponseRecorded, RoutedCursor
<1>4. CASE ExecutionCommand
  <2>1. \/ UNCHANGED cursor
        \/ \E o \in Outcomes, to \in StateIds : TransitionCommitted(o, to)
    BY <1>4, ExecutionCases DEF StartExecution, RewritesLast, Settle
  <2>2. QED
    BY <1>0, <1>1, <1>2, <2>1
<1>5. CASE RunCommand
  <2>1. \/ UNCHANGED cursor
        \/ \E w \in DOMAIN waits, request \in Requests, action \in ActionIds :
             WaitResponseRecorded(w, request, action)
    BY <1>5 DEF RunCommand, RunWaiting, TerminalReached, RunOutputsPublished,
       RunSucceeded, RunFailed, RunCleanupFailed
  <2>2. QED
    BY <1>0, <1>1, <1>3, <2>1
<1>6. CASE StageCommand
  BY <1>1, <1>6, StageFrame
<1>7. CASE UNCHANGED vars
  BY <1>1, <1>7 DEF vars
<1>8. QED
  BY <1>4, <1>5, <1>6, <1>7 DEF Next

LEMMA LifecycleNext == TypeOK /\ LifecycleInv /\ [Next]_vars => LifecycleInv'
BY GenerationSteps, CursorAdvances, LifecycleFrame, LifecycleGenerationOpened,
   LifecycleIterationOpened, LifecycleIterationClosed, LifecycleGenerationClosed

-----------------------------------------------------------------------------
(* The budget.  A grant total is a sum over the ledger, given by a         *)
(* recursive function; that the sum exists, is a natural number and only   *)
(* grows with the ledger are facts about every length of the ledger, proved *)
(* from the least length at which they would fail.                         *)

Given(gs, g, i) == IF gs[i].generation_index = g THEN gs[i].additional ELSE 0
IsGrantSum(f, gs, g, n) ==
  f = [i \in 0..n |-> IF i = 0 THEN 0 ELSE f[i - 1] + Given(gs, g, i)]
GrantSum(gs, g) == CHOOSE f : IsGrantSum(f, gs, g, Len(gs))

LEMMA GrantTotalIs == ASSUME NEW g PROVE GrantTotal(g) = GrantSum(grants, g)[Len(grants)]
BY DEF GrantTotal, GrantSum, IsGrantSum, Given

LEMMA GivenType ==
  ASSUME NEW gs \in Seq(Grant), NEW g, NEW i \in DOMAIN gs
  PROVE  Given(gs, g, i) \in Nat
<1>1. gs[i] \in Grant
  OBVIOUS
<1>2. QED
  BY <1>1 DEF Given, Grant

LEMMA GrantSumExists ==
  ASSUME NEW gs \in Seq(Grant), NEW g
  PROVE  IsGrantSum(GrantSum(gs, g), gs, g, Len(gs))
<1> DEFINE Missing == {n \in Nat : ~\E f : IsGrantSum(f, gs, g, n)}
<1>1. ASSUME Missing # {} PROVE FALSE
  <2>1. PICK n \in Missing : \A m \in Missing : n <= m
    BY <1>1, LeastElement
  <2>2. n # 0
    <3>1. IsGrantSum([i \in 0..0 |-> 0], gs, g, 0)
      BY DEF IsGrantSum
    <3>2. QED
      BY <2>1, <3>1
  <2>3. n - 1 \in Nat /\ n - 1 \notin Missing
    BY <2>1, <2>2
  <2>4. PICK f : IsGrantSum(f, gs, g, n - 1)
    BY <2>3
  <2>5. DEFINE h == [i \in 0..n |-> IF i = n THEN f[n - 1] + Given(gs, g, n) ELSE f[i]]
  <2>6. IsGrantSum(h, gs, g, n)
    <3>1. ASSUME NEW i \in 0..n
          PROVE  h[i] = IF i = 0 THEN 0 ELSE h[i - 1] + Given(gs, g, i)
      <4>1. CASE i = n
        <5>1. h[i] = f[n - 1] + Given(gs, g, n) /\ h[n - 1] = f[n - 1]
          BY <2>2, <2>3, <4>1
        <5>2. QED
          BY <2>2, <4>1, <5>1
      <4>2. CASE i # n
        <5>1. i \in 0..n - 1 /\ h[i] = f[i]
          BY <2>1, <4>2
        <5>2. f[i] = IF i = 0 THEN 0 ELSE f[i - 1] + Given(gs, g, i)
          BY <2>4, <5>1 DEF IsGrantSum
        <5>3. i # 0 => h[i - 1] = f[i - 1]
          BY <2>1, <5>1
        <5>4. QED
          BY <5>1, <5>2, <5>3
      <4>3. QED
        BY <4>1, <4>2
    <3>2. h = [i \in 0..n |-> h[i]]
      OBVIOUS
    <3>3. QED
      <4> HIDE DEF h
      <4>1. QED
        BY <3>1, <3>2 DEF IsGrantSum
  <2>7. QED
    BY <2>1, <2>6
<1>2. \E f : IsGrantSum(f, gs, g, Len(gs))
  <2>1. Len(gs) \in Nat /\ Len(gs) \notin Missing
    <3> HIDE DEF Missing
    <3>1. QED
      BY <1>1
  <2>2. QED
    BY <2>1
<1>3. QED
  BY <1>2 DEF GrantSum

\* A longer ledger repeats the sums of the shorter one, and goes on from there.
LEMMA GrantSumGrows ==
  ASSUME NEW gs \in Seq(Grant), NEW hs \in Seq(Grant), NEW g,
         Len(gs) <= Len(hs), \A i \in DOMAIN gs : hs[i] = gs[i]
  PROVE  /\ GrantSum(gs, g)[Len(gs)] \in Nat
         /\ GrantSum(hs, g)[Len(hs)] \in Nat
         /\ GrantSum(gs, g)[Len(gs)] <= GrantSum(hs, g)[Len(hs)]
<1> DEFINE f == GrantSum(gs, g)
           h == GrantSum(hs, g)
           n == Len(gs)
           m == Len(hs)
<1>a. n \in Nat /\ m \in Nat /\ DOMAIN gs = 1..n /\ DOMAIN hs = 1..m
  OBVIOUS
<1>b. /\ \A i \in 0..n : f[i] = IF i = 0 THEN 0 ELSE f[i - 1] + Given(gs, g, i)
      /\ \A i \in 0..m : h[i] = IF i = 0 THEN 0 ELSE h[i - 1] + Given(hs, g, i)
  <2>1. IsGrantSum(f, gs, g, n) /\ IsGrantSum(h, hs, g, m)
    BY GrantSumExists
  <2> HIDE DEF f, h
  <2>2. QED
    BY <2>1 DEF IsGrantSum
<1>c. /\ \A i \in 1..m : Given(hs, g, i) \in Nat
      /\ \A i \in 1..n : Given(hs, g, i) = Given(gs, g, i)
  BY <1>a, GivenType DEF Given
<1> HIDE DEF f, h
<1>1. \A i \in 0..m : h[i] \in Nat
  <2> DEFINE Bad == {i \in 0..m : h[i] \notin Nat}
  <2>1. ASSUME Bad # {} PROVE FALSE
    <3>0. Bad \subseteq Nat
      BY <1>a
    <3>1. PICK i \in Bad : \A j \in Bad : i <= j
      <4> HIDE DEF Bad
      <4>1. QED
        BY <2>1, <3>0, LeastElement
    <3>2. CASE i = 0
      BY <1>b, <3>1, <3>2
    <3>3. CASE i # 0
      <4>1. i \in 1..m /\ i - 1 \in 0..m /\ i - 1 \notin Bad
        BY <1>a, <3>1, <3>3
      <4>2. h[i - 1] \in Nat /\ h[i] = h[i - 1] + Given(hs, g, i)
        BY <1>b, <3>3, <4>1
      <4>3. QED
        BY <1>c, <3>1, <4>1, <4>2
    <3>4. QED
      BY <3>2, <3>3
  <2>2. QED
    BY <2>1
<1>2. f[n] = h[n]
  <2> DEFINE Bad == {i \in 0..n : f[i] # h[i]}
  <2>1. ASSUME Bad # {} PROVE FALSE
    <3>0. Bad \subseteq Nat
      BY <1>a
    <3>1. PICK i \in Bad : \A j \in Bad : i <= j
      <4> HIDE DEF Bad
      <4>1. QED
        BY <2>1, <3>0, LeastElement
    <3>2. CASE i = 0
      BY <1>a, <1>b, <3>1, <3>2
    <3>3. CASE i # 0
      <4>1. i \in 1..n /\ i \in 0..m /\ i - 1 \in 0..n /\ i - 1 \notin Bad
        BY <1>a, <3>1, <3>3
      <4>2. /\ f[i - 1] = h[i - 1] /\ f[i] = f[i - 1] + Given(gs, g, i)
            /\ h[i] = h[i - 1] + Given(hs, g, i)
        BY <1>b, <3>3, <4>1
      <4>3. QED
        BY <1>c, <3>1, <4>1, <4>2
    <3>4. QED
      BY <3>2, <3>3
  <2>2. QED
    BY <1>a, <2>1
<1>3. h[n] <= h[m]
  <2> DEFINE Bad == {i \in n..m : ~(h[n] <= h[i])}
  <2>1. ASSUME Bad # {} PROVE FALSE
    <3>0. Bad \subseteq Nat
      BY <1>a
    <3>1. PICK i \in Bad : \A j \in Bad : i <= j
      <4> HIDE DEF Bad
      <4>1. QED
        BY <2>1, <3>0, LeastElement
    <3>2. n \in 0..m /\ h[n] \in Nat /\ i \in n..m /\ ~(h[n] <= h[i]) /\ i # n
      <4>1. n \in 0..m
        BY <1>a
      <4>2. h[n] \in Nat
        BY <1>1, <4>1
      <4>3. i \in n..m /\ ~(h[n] <= h[i])
        BY <3>1
      <4>4. QED
        BY <4>1, <4>2, <4>3
    <3>3. i \in 1..m /\ i - 1 \in n..m /\ i - 1 \in 0..m /\ i - 1 \notin Bad
      <4>1. n \in Nat /\ m \in Nat /\ i \in n..m /\ i # n
        BY <1>a, <3>2
      <4> HIDE DEF n, m, Bad
      <4>2. i \in 1..m /\ i - 1 \in n..m /\ i - 1 \in 0..m /\ ~(i <= i - 1)
        BY <4>1
      <4>3. QED
        BY <3>1, <4>2
    <3>4. h[n] <= h[i - 1] /\ h[i] = h[i - 1] + Given(hs, g, i)
      BY <1>b, <3>3
    <3>5. QED
      BY <1>1, <1>c, <3>1, <3>2, <3>3, <3>4
  <2>2. QED
    BY <1>a, <2>1
<1>4. f[n] \in Nat /\ h[m] \in Nat /\ f[n] <= h[m]
  BY <1>1, <1>2, <1>3, <1>a
<1>5. QED
  BY <1>4 DEF f, h

LEMMA GrantTotalGrows ==
  ASSUME TypeOK, [Next]_vars, NEW g
  PROVE  GrantTotal(g) \in Nat /\ GrantTotal(g)' \in Nat /\ GrantTotal(g) <= GrantTotal(g)'
<1>1. grants \in Seq(Grant) /\ grants' \in Seq(Grant)
  <2>1. TypeOK'
    BY ExecutionCommandType, RunCommandType, StageCommandType, StutterType DEF Next
  <2>2. QED
    BY <2>1 DEF TypeOK
<1>2. Len(grants) <= Len(grants') /\ \A i \in DOMAIN grants : grants'[i] = grants[i]
  BY <1>1, AppendOnlyNext DEF AppendOnly, GrowsAtEnd
<1>3. GrantTotal(g)' = GrantSum(grants', g)[Len(grants')]
  BY DEF GrantTotal, GrantSum, IsGrantSum, Given
<1>4. QED
  BY <1>1, <1>2, <1>3, GrantTotalIs, GrantSumGrows

LEMMA TypeNext == TypeOK /\ [Next]_vars => TypeOK'
BY ExecutionCommandType, RunCommandType, StageCommandType, StutterType DEF Next

Capped(budget) == IF budget <= MaxSafeInteger THEN budget ELSE MaxSafeInteger

\* A generation that keeps its initial budget and opens no iteration stays
\* within its effective budget, for this one never shrinks.
LEMMA BudgetKept ==
  ASSUME TypeOK, BudgetRespected, [Next]_vars, NEW g \in DOMAIN generations,
         generations'[g].initial_budget = generations[g].initial_budget,
         Len(generations'[g].iterations) = Len(generations[g].iterations)
  PROVE  Len(generations'[g].iterations) <= Capped(EffectiveBudget(g)')
<1>1. /\ generations[g].initial_budget \in Nat
      /\ Len(generations[g].iterations) \in Nat
  <2>1. generations[g] \in Generation
    BY DEF TypeOK
  <2>2. QED
    BY <2>1 DEF Generation
<1>2. /\ EffectiveBudget(g) \in Nat /\ EffectiveBudget(g)' \in Nat
      /\ EffectiveBudget(g) <= EffectiveBudget(g)'
  BY <1>1, GrantTotalGrows DEF EffectiveBudget
<1>3. Len(generations[g].iterations) <= Capped(EffectiveBudget(g))
  BY DEF BudgetRespected, Capped
<1>4. QED
  BY <1>1, <1>2, <1>3, PipelineAssumption DEF Capped

LEMMA BudgetNext == TypeOK /\ BudgetRespected /\ [Next]_vars => BudgetRespected'
<1> SUFFICES ASSUME TypeOK, BudgetRespected, [Next]_vars,
                    NEW g \in DOMAIN generations'
             PROVE  Len(generations'[g].iterations) <= Capped(EffectiveBudget(g)')
  BY DEF BudgetRespected, Capped
<1>1. CASE UNCHANGED generations
  BY <1>1, BudgetKept
<1>2. CASE OpensGeneration
  <2>1. /\ DOMAIN generations' = 1..Len(generations) + 1
        /\ \A h \in DOMAIN generations : generations'[h] = generations[h]
        /\ generations'[Len(generations) + 1].iterations = <<>>
    BY <1>2, GenerationOpenedShape DEF OpensGeneration
  <2>2. CASE g \in DOMAIN generations
    BY <2>1, <2>2, BudgetKept
  <2>3. CASE g \notin DOMAIN generations
    <3>1. g = Len(generations) + 1
      BY <2>1, <2>3, LedgerTypes
    <3>2. Len(generations'[g].iterations) = 0
      BY <2>1, <3>1
    <3>3. EffectiveBudget(g)' \in Nat
      <4>1. generations'[g] \in Generation
        BY SMTT(30), TypeNext DEF TypeOK
      <4>2. generations'[g].initial_budget \in Nat
        BY <4>1 DEF Generation
      <4>3. QED
        BY <4>2, GrantTotalGrows DEF EffectiveBudget
    <3>4. QED
      BY <3>2, <3>3, PipelineAssumption DEF Capped
  <2>4. QED
    BY <2>2, <2>3
<1>3. CASE OpensIteration
  <2>1. PICK h \in DOMAIN generations, i \in 1..MaxSafeInteger, count \in 0..MaxTransitions :
          StageIterationOpened(h, i, count)
    BY <1>3 DEF OpensIteration
  <2>2. /\ OnlyIterations(h)
        /\ Len(Its(h)') <= EffectiveBudget(h) /\ EffectiveBudget(h) <= MaxSafeInteger
    BY <2>1, IterationOpenedShape
  <2>3. CASE g = h
    <3>1. EffectiveBudget(h)' = EffectiveBudget(h)
      <4>1. grants' = grants
        BY <1>3, StageUntouched
      <4>2. GrantTotal(h)' = GrantTotal(h)
        BY <4>1 DEF GrantTotal
      <4>3. QED
        BY <2>2, <4>2 DEF EffectiveBudget, OnlyIterations
    <3>2. QED
      BY <2>2, <2>3, <3>1 DEF Capped, Its
  <2>4. CASE g # h
    BY <2>2, <2>4, BudgetKept DEF OnlyIterations
  <2>5. QED
    BY <2>3, <2>4
<1>4. CASE ClosesIteration
  <2>1. PICK h \in DOMAIN generations, i \in IterationIndices,
             by \in WaitBoundClose \cup ActiveClose, w \in DOMAIN waits \cup {None} :
          StageIterationClosed(h, i, by, w)
    BY <1>4 DEF ClosesIteration
  <2>2. OnlyIterations(h) /\ Len(Its(h)') = Len(Its(h))
    BY <2>1, IterationClosedShape
  <2>3. QED
    BY <2>2, BudgetKept DEF OnlyIterations, Its
<1>5. CASE ClosesGeneration
  <2>1. /\ DOMAIN generations' = DOMAIN generations
        /\ \A h \in DOMAIN generations :
             /\ generations'[h].initial_budget = generations[h].initial_budget
             /\ generations'[h].iterations = generations[h].iterations
    BY <1>5, GenerationClosedShape DEF ClosesGeneration
  <2>2. QED
    BY <2>1, BudgetKept
<1>6. QED
  BY <1>1, <1>2, <1>3, <1>4, <1>5, GenerationSteps

-----------------------------------------------------------------------------
(* What a step does to one iteration: it keeps it, closes it at the         *)
(* cursor's boundary, or has just opened it there.                          *)

IterationKept(g, i) ==
  /\ g \in DOMAIN generations /\ i \in DOMAIN generations[g].iterations
  /\ generations'[g].iterations[i].opened = generations[g].iterations[i].opened
  /\ generations'[g].iterations[i].closed = generations[g].iterations[i].closed

IterationClosing(g, i) ==
  /\ g \in DOMAIN generations /\ i \in DOMAIN generations[g].iterations
  /\ generations'[g].iterations[i].opened = generations[g].iterations[i].opened
  /\ generations[g].iterations[i].closed = None
  /\ \E by \in WaitBoundClose \cup ActiveClose, w \in DOMAIN waits \cup {None} :
       /\ StageIterationClosed(g, i, by, w)
       /\ generations'[g].iterations[i].closed =
            [by |-> by, count |-> cursor.transition_count, wait_index |-> w]

IterationNew(g, i) ==
  /\ OpensIteration
  /\ generations'[g].iterations[i].opened = cursor.transition_count
  /\ generations'[g].iterations[i].closed = None

LEMMA IterationEffects ==
  ASSUME TypeOK, [Next]_vars, NEW g \in DOMAIN generations',
         NEW i \in DOMAIN generations'[g].iterations
  PROVE  IterationKept(g, i) \/ IterationClosing(g, i) \/ IterationNew(g, i)
<1>1. CASE UNCHANGED generations
  BY <1>1 DEF IterationKept
<1>2. CASE OpensGeneration
  <2>1. /\ DOMAIN generations' = 1..Len(generations) + 1
        /\ \A h \in DOMAIN generations : generations'[h] = generations[h]
        /\ generations'[Len(generations) + 1].iterations = <<>>
    BY <1>2, GenerationOpenedShape DEF OpensGeneration
  <2>2. g \in DOMAIN generations
    BY <2>1, LedgerTypes
  <2>3. QED
    BY <2>1, <2>2 DEF IterationKept
<1>3. CASE OpensIteration
  <2>1. PICK h \in DOMAIN generations, k \in 1..MaxSafeInteger, count \in 0..MaxTransitions :
          StageIterationOpened(h, k, count)
    BY <1>3 DEF OpensIteration
  <2>2. LET n == Len(Its(h)) + 1 IN
        /\ OnlyIterations(h) /\ Its(h) \in Seq(Iteration)
        /\ DOMAIN Its(h)' = 1..n
        /\ \A j \in DOMAIN Its(h) : Its(h)'[j] = Its(h)[j]
        /\ Its(h)'[n].opened = cursor.transition_count
        /\ Its(h)'[n].closed = None
    BY <2>1, IterationOpenedShape
  <2>3. CASE g # h
    BY <2>2, <2>3 DEF IterationKept, OnlyIterations
  <2>4. CASE g = h
    <3>1. i \in DOMAIN Its(h) \/ i = Len(Its(h)) + 1
      BY <2>2, <2>4 DEF Its
    <3>2. QED
      BY <1>3, <2>2, <2>4, <3>1 DEF IterationKept, IterationNew, Its
  <2>5. QED
    BY <2>3, <2>4
<1>4. CASE ClosesIteration
  <2>1. PICK h \in DOMAIN generations, k \in IterationIndices,
             by \in WaitBoundClose \cup ActiveClose, w \in DOMAIN waits \cup {None} :
          StageIterationClosed(h, k, by, w)
    BY <1>4 DEF ClosesIteration
  <2>2. LET n == Len(Its(h)) IN
        /\ OnlyIterations(h) /\ Its(h)[n].closed = None
        /\ DOMAIN Its(h)' = DOMAIN Its(h)
        /\ \A j \in DOMAIN Its(h) : j # n => Its(h)'[j] = Its(h)[j]
        /\ Its(h)'[n].opened = Its(h)[n].opened
        /\ Its(h)'[n].closed =
             [by |-> by, count |-> cursor.transition_count, wait_index |-> w]
    BY <2>1, IterationClosedShape
  <2>3. k = Len(Its(h))
    BY <2>1 DEF StageIterationClosed, Its
  <2>4. CASE g # h
    BY <2>2, <2>4 DEF IterationKept, OnlyIterations
  <2>5. CASE g = h /\ i # k
    BY <2>2, <2>3, <2>5 DEF IterationKept, Its
  <2>6. CASE g = h /\ i = k
    BY <2>1, <2>2, <2>3, <2>6 DEF IterationClosing, Its
  <2>7. QED
    BY <2>4, <2>5, <2>6
<1>5. CASE ClosesGeneration
  <2>1. /\ DOMAIN generations' = DOMAIN generations
        /\ \A h \in DOMAIN generations :
             generations'[h].iterations = generations[h].iterations
    BY <1>5, GenerationClosedShape DEF ClosesGeneration
  <2>2. QED
    BY <2>1 DEF IterationKept
<1>6. QED
  BY <1>1, <1>2, <1>3, <1>4, <1>5, GenerationSteps

\* An iteration stays where it is for ever, with the count it was opened at.
LEMMA IterationStays ==
  ASSUME TypeOK, [Next]_vars, NEW g \in DOMAIN generations,
         NEW i \in DOMAIN generations[g].iterations
  PROVE  /\ g \in DOMAIN generations' /\ i \in DOMAIN generations'[g].iterations
         /\ IterationKept(g, i) \/ IterationClosing(g, i)
<1>1. TypeOK' /\ AppendOnly
  BY TypeNext, AppendOnlyNext
<1>2. g \in DOMAIN generations'
  <2>1. generations \in Seq(Generation) /\ generations' \in Seq(Generation)
    BY <1>1 DEF TypeOK
  <2>2. QED
    BY <1>1, <2>1 DEF AppendOnly, GrowsAtEnd
<1>3. i \in DOMAIN generations'[g].iterations
  <2>1. /\ generations[g].iterations \in Seq(Iteration)
        /\ generations'[g].iterations \in Seq(Iteration)
    BY SMTT(30), <1>1, <1>2, GenerationFields DEF TypeOK
  <2>2. QED
    BY SMTT(30), <1>1, <2>1 DEF AppendOnly, GrowsAtEnd
<1>4. ASSUME IterationNew(g, i) PROVE IterationKept(g, i)
  <2>1. PICK h \in DOMAIN generations, k \in 1..MaxSafeInteger, count \in 0..MaxTransitions :
          StageIterationOpened(h, k, count)
    BY <1>4 DEF IterationNew, OpensIteration
  <2>2. OnlyIterations(h) /\ \A j \in DOMAIN Its(h) : Its(h)'[j] = Its(h)[j]
    BY <2>1, IterationOpenedShape
  <2>3. QED
    BY <2>2 DEF OnlyIterations, IterationKept, Its
<1>5. QED
  BY <1>2, <1>3, <1>4, IterationEffects

-----------------------------------------------------------------------------
(* Stage executions lie inside the iteration they name.                    *)

\* An execution was there before with the same role and iteration, or it is
\* the one that has just started at the cursor's boundary.
LEMMA ExecutionEffects ==
  ASSUME TypeOK, [Next]_vars, NEW e \in DOMAIN executions'
  PROVE  \/ /\ e \in DOMAIN executions
            /\ executions'[e].execution_role = executions[e].execution_role
            /\ executions'[e].iteration_index = executions[e].iteration_index
         \/ \E type \in ExecutionTypes, s \in StateIds, role \in Roles,
               i \in IterationIndices \cup {None} :
              /\ StartExecution(type, s, role, i)
              /\ e = Len(executions) + 1
              /\ executions'[e].execution_role = role
              /\ executions'[e].iteration_index = i
<1>1. CASE UNCHANGED executions
  BY <1>1
<1>2. CASE RewritesLast
  <2>1. PICK x \in Execution :
          /\ Settle(x)
          /\ x.execution_role = LastExecution.execution_role
          /\ x.iteration_index = LastExecution.iteration_index
    BY <1>2 DEF RewritesLast
  <2>2. /\ DOMAIN executions' = DOMAIN executions
        /\ executions'[Len(executions)] = x
        /\ \A i \in DOMAIN executions :
             i # Len(executions) => executions'[i] = executions[i]
    BY <1>2, <2>1, SettlePositions DEF RewritesLast
  <2>3. QED
    BY <2>1, <2>2 DEF LastExecution, Latest
<1>3. ASSUME NEW type \in ExecutionTypes, NEW s \in StateIds, NEW role \in Roles,
             NEW i \in IterationIndices \cup {None}, StartExecution(type, s, role, i)
      PROVE  \/ e \in DOMAIN executions /\ executions'[e] = executions[e]
             \/ /\ e = Len(executions) + 1
                /\ executions'[e].execution_role = role
                /\ executions'[e].iteration_index = i
  <2> DEFINE new == [type |-> type, state_id |-> s, execution_role |-> role,
        iteration_index |-> i,
        phase |-> IF type = "agent" THEN "started" ELSE "evaluating",
        execution_session_id |-> None, tool_session_id |-> None,
        worker_log |-> None, stage_task |-> None, session_cleanup |-> None,
        result |-> None]
  <2>1. executions' = Append(executions, new) /\ executions \in Seq(Execution)
    BY <1>3 DEF StartExecution, TypeOK
  <2>2. new.execution_role = role /\ new.iteration_index = i
    OBVIOUS
  <2> HIDE DEF new
  <2>3. QED
    BY <2>1, <2>2
<1>4. UNCHANGED executions \/ ExecutionCommand
  <2>1. RunCommand => UNCHANGED executions
    BY DEF RunCommand, RunWaiting, WaitResponseRecorded, TerminalReached,
       RunOutputsPublished, RunSucceeded, RunFailed, RunCleanupFailed, graph
  <2>2. QED
    BY <2>1, StageFrame DEF Next, vars, graph
<1>5. (\E o \in Outcomes, to \in StateIds : TransitionCommitted(o, to))
        => UNCHANGED executions
  BY DEF TransitionCommitted
<1>6. QED
  BY <1>1, <1>2, <1>3, <1>4, <1>5, ExecutionCases

\* The iteration a stage execution is started in: open, the newest, and opened
\* no later than the cursor.
LEMMA OpenIterationIs ==
  ASSUME TypeOK, LifecycleInv, HasOpenIteration
  PROVE  LET g == Len(generations)
             i == Len(generations[g].iterations)
         IN  /\ g \in DOMAIN generations /\ i \in DOMAIN generations[g].iterations
             /\ i = Len(OpenGeneration.iterations)
             /\ generations[g].iterations[i].closed = None
             /\ generations[g].iterations[i].opened <= cursor.transition_count
<1> DEFINE g == Len(generations)
           i == Len(generations[g].iterations)
<1>1. /\ generations # <<>> /\ OpenGeneration.iterations # <<>>
      /\ Latest(OpenGeneration.iterations).closed = None
  BY DEF HasOpenIteration, HasOpenGeneration
<1>2. g \in DOMAIN generations /\ OpenGeneration = generations[g]
  BY <1>1, LastGeneration
<1>3. generations[g].iterations \in Seq(Iteration)
  BY <1>2, IterationsType
<1>4. /\ i \in DOMAIN generations[g].iterations
      /\ generations[g].iterations[i].closed = None
  BY <1>1, <1>2, <1>3 DEF Latest
<1>5. IterationOrdered(generations[g], i, cursor.transition_count)
  BY <1>2, <1>4 DEF LifecycleInv, LifecycleOrdered, GenerationOrdered
<1>6. QED
  BY <1>2, <1>4, <1>5 DEF IterationOrdered

LEMMA MembershipNext ==
  TypeOK /\ ExecutionPairing /\ LifecycleInv /\ StageMembership /\ [Next]_vars
    => StageMembership'
<1> SUFFICES ASSUME TypeOK, ExecutionPairing, LifecycleInv, StageMembership,
                    [Next]_vars, NEW e \in DOMAIN executions',
                    executions'[e].execution_role = "stage"
             PROVE  \E g \in DOMAIN generations' :
                      /\ executions'[e].iteration_index \in DOMAIN generations'[g].iterations
                      /\ SpansBoundary(
                           generations'[g].iterations[executions'[e].iteration_index], e - 1)
  BY DEF StageMembership
<1>a. /\ executions \in Seq(Execution) /\ transitions \in Seq(Transition)
      /\ cursor.transition_count \in Nat /\ cursor.transition_count = Len(transitions)
      /\ Len(executions) - 1 <= Len(transitions)
  BY DEF TypeOK, ExecutionPairing
<1>1. CASE /\ e \in DOMAIN executions
           /\ executions'[e].execution_role = executions[e].execution_role
           /\ executions'[e].iteration_index = executions[e].iteration_index
  <2> DEFINE i == executions[e].iteration_index
  <2>1. PICK g \in DOMAIN generations :
          /\ i \in DOMAIN generations[g].iterations
          /\ SpansBoundary(generations[g].iterations[i], e - 1)
    BY <1>1 DEF StageMembership
  <2>2. /\ g \in DOMAIN generations' /\ i \in DOMAIN generations'[g].iterations
        /\ IterationKept(g, i) \/ IterationClosing(g, i)
    BY <2>1, IterationStays
  <2>3. SpansBoundary(generations'[g].iterations[i], e - 1)
    <3>1. CASE IterationKept(g, i)
      BY <2>1, <3>1 DEF SpansBoundary, IterationKept
    <3>2. CASE IterationClosing(g, i)
      <4>1. generations'[g].iterations[i].closed.count = cursor.transition_count
        BY <3>2 DEF IterationClosing
      <4>2. e - 1 <= cursor.transition_count
        BY <1>a, <1>1
      <4>3. QED
        BY <2>1, <3>2, <4>1, <4>2 DEF SpansBoundary, IterationClosing
    <3>3. QED
      BY <2>2, <3>1, <3>2
  <2>4. QED
    BY <1>1, <2>2, <2>3
<1>2. ASSUME NEW type \in ExecutionTypes, NEW s \in StateIds, NEW role \in Roles,
             NEW i \in IterationIndices \cup {None},
             StartExecution(type, s, role, i), e = Len(executions) + 1,
             executions'[e].execution_role = role, executions'[e].iteration_index = i
      PROVE  \E g \in DOMAIN generations' :
               /\ i \in DOMAIN generations'[g].iterations
               /\ SpansBoundary(generations'[g].iterations[i], e - 1)
  <2>1. HasOpenIteration /\ i = Len(OpenGeneration.iterations)
    BY <1>2 DEF StartExecution, IterationForRole
  <2>2. UNCHANGED generations /\ e - 1 = cursor.transition_count
    BY <1>2, <1>a DEF StartExecution, StartableCursor, AllBound, stages
  <2>3. LET g == Len(generations) IN
        /\ g \in DOMAIN generations /\ i \in DOMAIN generations[g].iterations
        /\ generations[g].iterations[i].closed = None
        /\ generations[g].iterations[i].opened <= cursor.transition_count
    BY <2>1, OpenIterationIs
  <2>4. QED
    BY <2>2, <2>3 DEF SpansBoundary
<1>3. QED
  BY <1>1, <1>2, ExecutionEffects

-----------------------------------------------------------------------------
(* The wait journal: which records a step may answer.                      *)

WaitEntered ==
  \E s \in StateIds, request \in Requests, actions \in ActionLists :
    RunWaiting(s, request, actions)
WaitAnswered ==
  \E w \in DOMAIN waits, request \in Requests, action \in ActionIds :
    WaitResponseRecorded(w, request, action)

LEMMA WaitSteps ==
  ASSUME [Next]_vars
  PROVE  WaitEntered \/ WaitAnswered \/ AcceptsIntent \/ UNCHANGED waits
<1>1. ExecutionCommand => UNCHANGED waits
  BY ExecutionFrame
<1>2. RunCommand => WaitEntered \/ WaitAnswered \/ UNCHANGED waits
  BY DEF RunCommand, WaitEntered, WaitAnswered, TerminalReached,
     RunOutputsPublished, RunSucceeded, RunFailed, RunCleanupFailed
<1>3. StageCommand => AcceptsIntent \/ UNCHANGED waits
  BY StageCases, StageUntouched
<1>4. QED
  BY <1>1, <1>2, <1>3 DEF Next, vars

\* A wait keeps its boundary and, once accepted, its intent; it is answered in
\* the step of its response only, while it is the last record.
WaitKept(w) ==
  /\ w \in DOMAIN waits'
  /\ waits'[w].transition_count = waits[w].transition_count
  /\ waits[w].intent # None => waits'[w].intent = waits[w].intent
  /\ waits'[w].response # None =>
       waits[w].response # None \/ (WaitAnswered /\ HasOpenWait /\ w = Len(waits))

LEMMA WaitRewritten ==
  ASSUME TypeOK, HasOpenWait, NEW new \in Wait, waits' = ReplaceLatest(waits, new),
         new.transition_count = OpenWait.transition_count,
         OpenWait.intent # None => new.intent = OpenWait.intent,
         new.response # None => WaitAnswered
  PROVE  DOMAIN waits' = DOMAIN waits /\ \A w \in DOMAIN waits : WaitKept(w)
<1>1. waits \in Seq(Wait) /\ waits # <<>>
  BY LedgerTypes DEF HasOpenWait
<1>2. /\ waits' \in Seq(Wait) /\ Len(waits') = Len(waits) /\ waits'[Len(waits)] = new
      /\ \A i \in 1..Len(waits) - 1 : waits'[i] = waits[i]
  <2>1. /\ waits' \in Seq(Wait) /\ Len(waits') = Len(waits) /\ Latest(waits') = new
        /\ \A i \in 1..Len(waits) - 1 : waits'[i] = waits[i]
    BY <1>1, ReplaceLatestType
  <2>2. QED
    BY <2>1 DEF Latest
<1>3. ASSUME NEW w \in DOMAIN waits PROVE WaitKept(w)
  <2>1. CASE w = Len(waits)
    BY <1>1, <1>2, <2>1 DEF WaitKept, OpenWait, Latest
  <2>2. CASE w # Len(waits)
    BY <1>1, <1>2, <2>2 DEF WaitKept
  <2>3. QED
    BY <2>1, <2>2
<1>4. QED
  BY <1>1, <1>2, <1>3

LEMMA WaitEffects ==
  ASSUME TypeOK, [Next]_vars
  PROVE  /\ \A w \in DOMAIN waits : WaitKept(w)
         /\ \A w \in DOMAIN waits' :
              w \notin DOMAIN waits => waits'[w].response = None
<1>1. CASE UNCHANGED waits
  BY <1>1 DEF WaitKept
<1>2. CASE WaitEntered
  <2>1. PICK s \in StateIds, request \in Requests, actions \in ActionLists :
          RunWaiting(s, request, actions)
    BY <1>2 DEF WaitEntered
  <2> DEFINE new == [transition_count |-> cursor.transition_count, state_id |-> s,
                     request |-> request, actions |-> actions,
                     intent |-> None, response |-> None]
  <2>2. waits' = Append(waits, new) /\ waits \in Seq(Wait) /\ new.response = None
    BY <2>1, LedgerTypes DEF RunWaiting
  <2> HIDE DEF new
  <2>3. QED
    BY <2>2 DEF WaitKept
<1>3. CASE WaitAnswered
  <2>1. PICK w \in DOMAIN waits, request \in Requests, action \in ActionIds :
          WaitResponseRecorded(w, request, action)
    BY <1>3 DEF WaitAnswered
  <2> DEFINE new == [OpenWait EXCEPT !.response = action]
  <2>2. HasOpenWait /\ waits # <<>> /\ waits' = ReplaceLatest(waits, new)
    BY <2>1 DEF WaitResponseRecorded, TargetsOpenWait, HasOpenWait
  <2>3. /\ OpenWait \in Wait /\ new \in Wait
        /\ new.transition_count = OpenWait.transition_count
        /\ new.intent = OpenWait.intent
    BY <2>2, OpenWaitType DEF Wait
  <2> HIDE DEF new
  <2>4. QED
    BY <1>3, <2>2, <2>3, WaitRewritten
<1>4. CASE AcceptsIntent
  <2>1. PICK w \in DOMAIN waits, intent \in Intents : PlanIntentAccepted(w, intent)
    BY <1>4 DEF AcceptsIntent
  <2> DEFINE new == [OpenWait EXCEPT !.intent = intent]
  <2>2. /\ HasOpenWait /\ waits # <<>> /\ waits' = ReplaceLatest(waits, new)
        /\ OpenWait.intent = None /\ OpenWait.response = None
    BY <2>1 DEF PlanIntentAccepted, TargetsOpenWait, HasOpenWait, OpenWait
  <2>3. /\ OpenWait \in Wait /\ new \in Wait
        /\ new.transition_count = OpenWait.transition_count
        /\ new.response = None
    BY <2>2, OpenWaitType DEF Wait
  <2> HIDE DEF new
  <2>4. QED
    BY <2>2, <2>3, WaitRewritten
<1>5. QED
  BY <1>1, <1>2, <1>3, <1>4, WaitSteps

-----------------------------------------------------------------------------
(* No iteration is left open across an answered wait.                      *)

\* Without an open iteration every recorded one is closed, no later than now.
LEMMA AllClosed ==
  ASSUME TypeOK, LifecycleInv, ~HasOpenIteration, NEW g \in DOMAIN generations,
         NEW i \in DOMAIN generations[g].iterations
  PROVE  /\ generations[g].iterations[i].closed # None
         /\ generations[g].iterations[i].closed.count <= cursor.transition_count
<1> DEFINE its == generations[g].iterations
<1>1. /\ its \in Seq(Iteration) /\ generations \in Seq(Generation)
      /\ i \in 1..Len(its) /\ its # <<>>
  BY IterationsType, LedgerTypes
<1>2. /\ GenerationOrdered(generations[g], cursor.transition_count)
      /\ g # Len(generations) => generations[g].closed # None
  <2>1. g # Len(generations) => g < Len(generations)
    BY <1>1
  <2>2. QED
    BY <2>1 DEF LifecycleInv, LifecycleOrdered
<1>3. Latest(its).closed # None
  <2>1. CASE generations[g].closed # None
    BY <1>2, <2>1 DEF GenerationOrdered
  <2>2. CASE generations[g].closed = None
    <3>1. generations # <<>> /\ OpenGeneration = generations[g]
      BY <1>1, <1>2, <2>2, LastGeneration
    <3>2. HasOpenGeneration
      BY <2>2, <3>1 DEF HasOpenGeneration, OpenGeneration
    <3>3. QED
      BY <1>1, <3>1, <3>2 DEF HasOpenIteration
  <2>3. QED
    BY <2>1, <2>2
<1>4. IterationOrdered(generations[g], i, cursor.transition_count)
  BY <1>2 DEF GenerationOrdered
<1>5. its[i].closed # None
  <2>1. CASE i = Len(its)
    BY <1>3, <2>1 DEF Latest
  <2>2. CASE i # Len(its)
    BY <1>1, <1>4, <2>2 DEF IterationOrdered
  <2>3. QED
    BY <2>1, <2>2
<1>6. QED
  BY <1>4, <1>5 DEF IterationOrdered

LEMMA AcrossNext ==
  ASSUME TypeOK, WaitBoundaries, LifecycleInv, NoIterationAcrossWait, [Next]_vars
  PROVE  NoIterationAcrossWait'
<1> SUFFICES ASSUME NEW w \in DOMAIN waits', waits'[w].response # None,
                    NEW g \in DOMAIN generations',
                    NEW i \in DOMAIN generations'[g].iterations,
                    generations'[g].iterations[i].opened < waits'[w].transition_count
             PROVE  /\ generations'[g].iterations[i].closed # None
                    /\ generations'[g].iterations[i].closed.count
                         <= waits'[w].transition_count
  BY DEF NoIterationAcrossWait
<1>1. /\ w \in DOMAIN waits /\ WaitKept(w)
      /\ waits'[w].transition_count = waits[w].transition_count
      /\ waits[w].response # None \/ (WaitAnswered /\ HasOpenWait /\ w = Len(waits))
  BY WaitEffects DEF WaitKept
<1>2. waits[w].transition_count \in Nat /\ cursor.transition_count \in Nat
      /\ waits[w].transition_count <= cursor.transition_count
  <2>1. waits[w] \in Wait
    BY <1>1, LedgerTypes
  <2>2. QED
    BY <1>1, <2>1 DEF Wait, TypeOK, WaitBoundaries
<1>3. ~IterationNew(g, i)
  BY <1>1, <1>2 DEF IterationNew
<1>4. IterationKept(g, i) \/ IterationClosing(g, i)
  BY <1>3, IterationEffects
<1>5. /\ g \in DOMAIN generations /\ i \in DOMAIN generations[g].iterations
      /\ generations[g].iterations[i].opened < waits[w].transition_count
  BY <1>1, <1>4 DEF IterationKept, IterationClosing
<1>6. CASE waits[w].response # None
  <2>1. /\ generations[g].iterations[i].closed # None
        /\ generations[g].iterations[i].closed.count <= waits[w].transition_count
    BY <1>1, <1>5, <1>6 DEF NoIterationAcrossWait
  <2>2. QED
    BY <1>1, <1>4, <2>1 DEF IterationKept, IterationClosing
<1>7. CASE WaitAnswered /\ HasOpenWait /\ w = Len(waits)
  <2>1. UNCHANGED generations /\ ~HasOpenIteration
    BY <1>7 DEF WaitAnswered, WaitResponseRecorded, ResponseUnblocked, stages
  <2>2. waits[w].transition_count = cursor.transition_count
    BY <1>7 DEF WaitBoundaries, OpenWait, Latest
  <2>3. QED
    BY <1>1, <1>5, <2>1, <2>2, AllClosed
<1>8. QED
  BY <1>1, <1>6, <1>7

-----------------------------------------------------------------------------
(* Closures by grant or by replanning rest on the durable record.          *)

LEMMA RecordsStay ==
  ASSUME TypeOK, [Next]_vars
  PROVE  /\ \A k \in DOMAIN grants : k \in DOMAIN grants' /\ grants'[k] = grants[k]
         /\ \A k \in DOMAIN task_revisions :
              k \in DOMAIN task_revisions' /\ task_revisions'[k] = task_revisions[k]
         /\ \A g \in DOMAIN generations : g \in DOMAIN generations'
<1>1. AppendOnly
  BY AppendOnlyNext
<1>2. /\ grants \in Seq(Grant) /\ grants' \in Seq(Grant)
      /\ task_revisions \in Seq(TaskRevision) /\ task_revisions' \in Seq(TaskRevision)
      /\ generations \in Seq(Generation) /\ generations' \in Seq(Generation)
  BY TypeNext DEF TypeOK
<1>3. QED
  BY <1>1, <1>2 DEF AppendOnly, GrowsAtEnd

\* The record behind a closure, as a relation of the ledgers.
BackedBy(ws, gs, ts, g, closed) ==
  /\ closed.wait_index \in DOMAIN ws
  /\ ws[closed.wait_index].intent # None
  /\ ws[closed.wait_index].transition_count = closed.count
  /\ closed.by = "grant" =>
       \E k \in DOMAIN gs : /\ gs[k].generation_index = g
                            /\ gs[k].wait_index = closed.wait_index
  /\ closed.by = "replanned" =>
       \E k \in DOMAIN ts : ts[k].wait_index = closed.wait_index

LEMMA BackedNext ==
  ASSUME TypeOK, WaitBoundaries, InterventionBacked, [Next]_vars
  PROVE  InterventionBacked'
<1> SUFFICES ASSUME NEW g \in DOMAIN generations',
                    NEW i \in DOMAIN generations'[g].iterations,
                    generations'[g].iterations[i].closed # None,
                    generations'[g].iterations[i].closed.by \in WaitBoundClose
             PROVE  BackedBy(waits', grants', task_revisions', g,
                             generations'[g].iterations[i].closed)
  BY DEF InterventionBacked, BackedBy
<1> DEFINE closed == generations'[g].iterations[i].closed
<1>1. CASE IterationKept(g, i)
  <2>1. BackedBy(waits, grants, task_revisions, g, closed)
    BY <1>1 DEF IterationKept, InterventionBacked, BackedBy
  <2>2. WaitKept(closed.wait_index)
    BY <2>1, WaitEffects DEF BackedBy
  <2>3. /\ closed.wait_index \in DOMAIN waits'
        /\ waits'[closed.wait_index].intent # None
        /\ waits'[closed.wait_index].transition_count = closed.count
    BY <2>1, <2>2 DEF BackedBy, WaitKept
  <2>4. closed.by = "grant" =>
          \E k \in DOMAIN grants' : /\ grants'[k].generation_index = g
                                    /\ grants'[k].wait_index = closed.wait_index
    BY <2>1, RecordsStay DEF BackedBy
  <2>5. closed.by = "replanned" =>
          \E k \in DOMAIN task_revisions' :
            task_revisions'[k].wait_index = closed.wait_index
    BY <2>1, RecordsStay DEF BackedBy
  <2> HIDE DEF closed
  <2>6. BackedBy(waits', grants', task_revisions', g, closed)
    BY <2>3, <2>4, <2>5 DEF BackedBy
  <2>7. QED
    BY <2>6 DEF closed
<1>2. CASE IterationClosing(g, i)
  <2>1. PICK by \in WaitBoundClose \cup ActiveClose, w \in DOMAIN waits \cup {None} :
          /\ StageIterationClosed(g, i, by, w)
          /\ closed = [by |-> by, count |-> cursor.transition_count, wait_index |-> w]
    BY <1>2 DEF IterationClosing
  <2>2. /\ closed.by = by /\ closed.count = cursor.transition_count
        /\ closed.wait_index = w
    BY <2>1
  <2>3. /\ TargetsOpenWait(w) /\ OpenWait.intent # None
        /\ InterventionRecorded(by, g, w)
        /\ UNCHANGED <<waits, grants, task_revisions>>
    BY <2>1, <2>2 DEF StageIterationClosed
  <2>4. /\ w \in DOMAIN waits /\ waits[w].intent # None
        /\ waits[w].transition_count = cursor.transition_count
    <3>1. HasOpenWait /\ w = Len(waits) /\ waits # <<>> /\ waits \in Seq(Wait)
      BY <2>3, LedgerTypes DEF TargetsOpenWait, HasOpenWait
    <3>2. QED
      BY <2>3, <3>1 DEF OpenWait, Latest, WaitBoundaries
  <2>5. /\ by = "grant" => \E k \in DOMAIN grants : /\ grants[k].generation_index = g
                                                    /\ grants[k].wait_index = w
        /\ by = "replanned" => \E k \in DOMAIN task_revisions :
                                 task_revisions[k].wait_index = w
    BY <2>3 DEF InterventionRecorded
  <2> HIDE DEF closed
  <2>6. BackedBy(waits', grants', task_revisions', g, closed)
    BY <2>2, <2>3, <2>4, <2>5 DEF BackedBy
  <2>7. QED
    BY <2>6 DEF closed
<1>3. QED
  BY <1>1, <1>2, IterationEffects DEF IterationNew

-----------------------------------------------------------------------------
(* The intervention ledgers agree with the journal.                        *)

GrantsBacked ==
  \A k \in DOMAIN grants :
    /\ grants[k].generation_index \in DOMAIN generations
    /\ grants[k].wait_index \in DOMAIN waits
    /\ waits[grants[k].wait_index].intent = grants[k].intent
    /\ \A l \in DOMAIN grants :
         /\ grants[l].generation_index = grants[k].generation_index
         /\ grants[l].wait_index = grants[k].wait_index
         => l = k

\* A grant was recorded before, or it is the one this step records for the
\* open generation and the open wait, which had none.
GrantNew(k) ==
  /\ k = Len(grants) + 1
  /\ grants'[k].generation_index \in DOMAIN generations
  /\ grants'[k].wait_index \in DOMAIN waits
  /\ waits[grants'[k].wait_index].intent = grants'[k].intent
  /\ UNCHANGED <<waits, generations>>
  /\ NotYetGranted(grants'[k].generation_index, grants'[k].wait_index)

LEMMA GrantEffects ==
  ASSUME TypeOK, [Next]_vars, NEW k \in DOMAIN grants'
  PROVE  (k \in DOMAIN grants /\ grants'[k] = grants[k]) \/ GrantNew(k)
<1>1. UNCHANGED grants \/ RecordsGrant
  <2>1. ExecutionCommand => UNCHANGED grants
    BY ExecutionFrame DEF stages
  <2>2. RunCommand => UNCHANGED grants
    BY DEF RunCommand, RunWaiting, WaitResponseRecorded, TerminalReached,
       RunOutputsPublished, RunSucceeded, RunFailed, RunCleanupFailed, stages
  <2>3. StageCommand => UNCHANGED grants \/ RecordsGrant
    BY StageCases, StageUntouched
  <2>4. QED
    BY <2>1, <2>2, <2>3 DEF Next, vars, stages
<1>2. CASE RecordsGrant
  <2>1. PICK g \in DOMAIN generations, w \in DOMAIN waits, intent \in Intents,
             additional \in Extensions : IterationGrantRecorded(g, w, intent, additional)
    BY <1>2 DEF RecordsGrant
  <2> DEFINE new == [generation_index |-> g, wait_index |-> w, intent |-> intent,
                     additional |-> additional]
  <2>2. /\ grants' = Append(grants, new) /\ grants \in Seq(Grant)
        /\ waits[w].intent = intent /\ NotYetGranted(g, w)
        /\ UNCHANGED <<waits, generations>>
    BY <2>1, LedgerTypes DEF IterationGrantRecorded, TargetsOpenWait, OpenWait, Latest
  <2>3. new.generation_index = g /\ new.wait_index = w /\ new.intent = intent
    OBVIOUS
  <2> HIDE DEF new
  <2>4. QED
    BY <2>2, <2>3 DEF GrantNew
<1>3. QED
  BY <1>1, <1>2

LEMMA GrantsBackedNext == TypeOK /\ GrantsBacked /\ [Next]_vars => GrantsBacked'
<1> SUFFICES ASSUME TypeOK, GrantsBacked, [Next]_vars, NEW k \in DOMAIN grants'
             PROVE  /\ grants'[k].generation_index \in DOMAIN generations'
                    /\ grants'[k].wait_index \in DOMAIN waits'
                    /\ waits'[grants'[k].wait_index].intent = grants'[k].intent
                    /\ \A l \in DOMAIN grants' :
                         /\ grants'[l].generation_index = grants'[k].generation_index
                         /\ grants'[l].wait_index = grants'[k].wait_index
                         => l = k
  BY DEF GrantsBacked
<1>1. /\ grants'[k].generation_index \in DOMAIN generations'
      /\ grants'[k].wait_index \in DOMAIN waits'
      /\ waits'[grants'[k].wait_index].intent = grants'[k].intent
  <2>1. CASE GrantNew(k)
    BY <2>1 DEF GrantNew
  <2>2. CASE k \in DOMAIN grants /\ grants'[k] = grants[k]
    <3>1. grants[k].intent # None
      <4>1. grants[k] \in Grant
        BY <2>2, LedgerTypes
      <4>2. QED
        BY <4>1, NoneAssumption DEF Grant
    <3>2. /\ grants[k].generation_index \in DOMAIN generations
          /\ grants[k].wait_index \in DOMAIN waits
          /\ waits[grants[k].wait_index].intent = grants[k].intent
      BY <2>2 DEF GrantsBacked
    <3>3. WaitKept(grants[k].wait_index)
      BY <3>2, WaitEffects
    <3>4. QED
      BY <2>2, <3>1, <3>2, <3>3, RecordsStay DEF WaitKept
  <2>3. QED
    BY <2>1, <2>2, GrantEffects
<1>2. ASSUME NEW l \in DOMAIN grants',
             grants'[l].generation_index = grants'[k].generation_index,
             grants'[l].wait_index = grants'[k].wait_index
      PROVE  l = k
  <2>1. /\ (k \in DOMAIN grants /\ grants'[k] = grants[k]) \/ GrantNew(k)
        /\ (l \in DOMAIN grants /\ grants'[l] = grants[l]) \/ GrantNew(l)
    BY GrantEffects
  <2>2. QED
    BY <1>2, <2>1 DEF GrantNew, NotYetGranted, GrantsBacked
<1>3. QED
  BY <1>1, <1>2

\* The records of task t before position k of the ledger.
Earlier(ts, k, t) == {l \in 1..k - 1 : ts[l].task_id = t}
NumberedFrom(ts) ==
  \A k \in DOMAIN ts : ts[k].revision = 1 + Cardinality(Earlier(ts, k, ts[k].task_id))

LEMMA EarlierFinite ==
  ASSUME NEW ts, NEW k \in Nat, NEW t
  PROVE  IsFiniteSet(Earlier(ts, k, t)) /\ Cardinality(Earlier(ts, k, t)) \in Nat
<1>1. IsFiniteSet(1..k - 1) /\ Earlier(ts, k, t) \subseteq 1..k - 1
  BY FS_Interval DEF Earlier
<1>2. QED
  BY <1>1, FS_Subset, FS_CardinalityType

\* The latest revision of a task is the number of its records: what makes the
\* next accepted revision the consecutive one.
LEMMA LatestCounts ==
  ASSUME TypeOK, NumberedFrom(task_revisions), NEW t
  PROVE  LatestTaskRevision(t) =
           Cardinality(Earlier(task_revisions, Len(task_revisions) + 1, t))
<1> DEFINE n == Len(task_revisions)
           of == {i \in DOMAIN task_revisions : task_revisions[i].task_id = t}
<1>1. task_revisions \in Seq(TaskRevision) /\ n \in Nat
  BY LedgerTypes
<1>2. of = Earlier(task_revisions, n + 1, t)
  BY <1>1 DEF Earlier
<1>3. CASE of = {}
  BY <1>2, <1>3, FS_EmptySet DEF LatestTaskRevision
<1>4. CASE of # {}
  <2>1. of \subseteq 1..n
    BY <1>1
  <2>2. \E m \in of : \A j \in of : j <= m
    <3> HIDE DEF of
    <3>1. QED
      BY <1>1, <1>4, <2>1, GreatestElement
  <2>3. PICK m \in of : /\ \A j \in of : j <= m
                        /\ LatestTaskRevision(t) = task_revisions[m].revision
    <3>1. LatestTaskRevision(t) =
            task_revisions[CHOOSE i \in of : \A j \in of : j <= i].revision
      BY <1>4 DEF LatestTaskRevision
    <3> HIDE DEF of
    <3>2. QED
      BY <2>2, <3>1
  <2>4. m \in 1..n /\ task_revisions[m].task_id = t
    BY <1>1
  <2>5. of = Earlier(task_revisions, m, t) \cup {m}
    <3>1. \A j \in of : j \in 1..m - 1 \/ j = m
      BY <2>1, <2>3, <2>4
    <3>2. QED
      BY <1>1, <2>4, <3>1 DEF Earlier
  <2>6. /\ IsFiniteSet(Earlier(task_revisions, m, t))
        /\ Cardinality(Earlier(task_revisions, m, t)) \in Nat
        /\ m \notin Earlier(task_revisions, m, t)
    <3>1. m \in Nat /\ m \notin 1..m - 1
      BY <2>4
    <3>2. m \notin Earlier(task_revisions, m, t)
      BY <3>1 DEF Earlier
    <3> HIDE DEF of
    <3>3. QED
      BY <3>1, <3>2, EarlierFinite
  <2>7. Cardinality(of) = Cardinality(Earlier(task_revisions, m, t)) + 1
    <3> HIDE DEF of
    <3>1. QED
      BY <2>5, <2>6, FS_AddElement
  <2>8. task_revisions[m].revision = 1 + Cardinality(Earlier(task_revisions, m, t))
    BY <1>1, <2>4 DEF NumberedFrom
  <2> HIDE DEF of
  <2>9. QED
    BY <1>2, <2>3, <2>6, <2>7, <2>8
<1>5. QED
  BY <1>3, <1>4

\* A revised task carries the intent of its wait, never the absent one.
RevisionsIntended ==
  \A k \in DOMAIN task_revisions :
    LET r == task_revisions[k] IN
    r.revision > 1 =>
      /\ r.wait_index \in DOMAIN waits
      /\ r.intent # None /\ waits[r.wait_index].intent = r.intent

TaskNew(k) ==
  LET r == task_revisions'[k] IN
  /\ k = Len(task_revisions) + 1
  /\ r.revision = LatestTaskRevision(r.task_id) + 1
  /\ UNCHANGED waits
  /\ r.revision # 1 =>
       /\ r.wait_index \in DOMAIN waits
       /\ r.intent # None /\ waits[r.wait_index].intent = r.intent

LEMMA TaskEffects ==
  ASSUME TypeOK, [Next]_vars, NEW k \in DOMAIN task_revisions'
  PROVE  \/ k \in DOMAIN task_revisions /\ task_revisions'[k] = task_revisions[k]
         \/ TaskNew(k)
<1>1. UNCHANGED task_revisions \/ AcceptsTask
  <2>1. ExecutionCommand => UNCHANGED task_revisions
    BY ExecutionFrame DEF stages
  <2>2. RunCommand => UNCHANGED task_revisions
    BY DEF RunCommand, RunWaiting, WaitResponseRecorded, TerminalReached,
       RunOutputsPublished, RunSucceeded, RunFailed, RunCleanupFailed, stages
  <2>3. StageCommand => UNCHANGED task_revisions \/ AcceptsTask
    BY StageCases, StageUntouched
  <2>4. QED
    BY <2>1, <2>2, <2>3 DEF Next, vars, stages
<1>2. CASE AcceptsTask
  <2>1. PICK t \in TaskIds, r \in 1..MaxTaskRevisions, digest \in TaskDigests,
             w \in DOMAIN waits \cup {None}, intent \in Intents \cup {None} :
          TaskRevisionAccepted(t, r, digest, w, intent)
    BY <1>2 DEF AcceptsTask
  <2> DEFINE new == [task_id |-> t, revision |-> r, sha256 |-> digest,
                     wait_index |-> w, intent |-> intent]
  <2>2. /\ task_revisions' = Append(task_revisions, new)
        /\ task_revisions \in Seq(TaskRevision)
        /\ r = LatestTaskRevision(t) + 1 /\ UNCHANGED waits
    BY <2>1, LedgerTypes DEF TaskRevisionAccepted
  <2>3. r # 1 => w \in DOMAIN waits /\ intent # None /\ waits[w].intent = intent
    <3>1. SUFFICES ASSUME r # 1
                   PROVE  w \in DOMAIN waits /\ intent # None /\ waits[w].intent = intent
      OBVIOUS
    <3>2. /\ HasOpenWait /\ w = Len(waits) /\ OpenWait.intent # None
          /\ intent = OpenWait.intent
      BY <2>1, <3>1 DEF TaskRevisionAccepted, TargetsOpenWait
    <3>3. waits # <<>> /\ waits \in Seq(Wait)
      BY <3>2, LedgerTypes DEF HasOpenWait
    <3>4. QED
      BY <3>2, <3>3 DEF OpenWait, Latest
  <2>4. /\ new.task_id = t /\ new.revision = r /\ new.wait_index = w
        /\ new.intent = intent
    OBVIOUS
  <2> HIDE DEF new
  <2>5. /\ DOMAIN task_revisions' = 1..Len(task_revisions) + 1
        /\ task_revisions'[Len(task_revisions) + 1] = new
        /\ \A j \in DOMAIN task_revisions : task_revisions'[j] = task_revisions[j]
    BY <2>2
  <2>6. CASE k = Len(task_revisions) + 1
    BY <2>2, <2>3, <2>4, <2>5, <2>6 DEF TaskNew
  <2>7. CASE k # Len(task_revisions) + 1
    BY <2>2, <2>5, <2>7
  <2>8. QED
    BY <2>6, <2>7
<1>3. QED
  BY <1>1, <1>2

LEMMA NumberedNext ==
  ASSUME TypeOK, NumberedFrom(task_revisions), [Next]_vars
  PROVE  NumberedFrom(task_revisions')
<1> SUFFICES ASSUME NEW k \in DOMAIN task_revisions'
             PROVE  task_revisions'[k].revision =
                      1 + Cardinality(Earlier(task_revisions', k,
                                              task_revisions'[k].task_id))
  BY DEF NumberedFrom
<1>1. /\ task_revisions \in Seq(TaskRevision) /\ task_revisions' \in Seq(TaskRevision)
      /\ \A j \in DOMAIN task_revisions : task_revisions'[j] = task_revisions[j]
      /\ k \in Nat
  BY SMTT(30), TypeNext, LedgerTypes, RecordsStay DEF TypeOK
<1>2. CASE k \in DOMAIN task_revisions /\ task_revisions'[k] = task_revisions[k]
  <2>1. \A t : Earlier(task_revisions', k, t) = Earlier(task_revisions, k, t)
    BY <1>1, <1>2 DEF Earlier
  <2>2. QED
    BY <1>2, <2>1 DEF NumberedFrom
<1>3. CASE TaskNew(k)
  <2> DEFINE t == task_revisions'[k].task_id
  <2>1. k = Len(task_revisions) + 1
    BY <1>3 DEF TaskNew
  <2>2. Earlier(task_revisions', k, t) = Earlier(task_revisions, k, t)
    BY <1>1, <2>1 DEF Earlier
  <2>3. task_revisions'[k].revision = LatestTaskRevision(t) + 1
    BY <1>3 DEF TaskNew
  <2> HIDE DEF t
  <2>4. /\ LatestTaskRevision(t) = Cardinality(Earlier(task_revisions, k, t))
        /\ Cardinality(Earlier(task_revisions, k, t)) \in Nat
    BY <1>1, <2>1, LatestCounts, EarlierFinite
  <2>5. task_revisions'[k].revision = 1 + Cardinality(Earlier(task_revisions', k, t))
    BY <2>2, <2>3, <2>4
  <2>6. QED
    BY <2>5 DEF t
<1>4. QED
  BY <1>2, <1>3, TaskEffects

LEMMA IntendedNext == TypeOK /\ RevisionsIntended /\ [Next]_vars => RevisionsIntended'
<1> SUFFICES ASSUME TypeOK, RevisionsIntended, [Next]_vars,
                    NEW k \in DOMAIN task_revisions',
                    task_revisions'[k].revision > 1
             PROVE  /\ task_revisions'[k].wait_index \in DOMAIN waits'
                    /\ task_revisions'[k].intent # None
                    /\ waits'[task_revisions'[k].wait_index].intent =
                         task_revisions'[k].intent
  BY DEF RevisionsIntended
<1>1. CASE k \in DOMAIN task_revisions /\ task_revisions'[k] = task_revisions[k]
  <2>1. /\ task_revisions[k].wait_index \in DOMAIN waits
        /\ task_revisions[k].intent # None
        /\ waits[task_revisions[k].wait_index].intent = task_revisions[k].intent
    BY <1>1 DEF RevisionsIntended
  <2>2. WaitKept(task_revisions[k].wait_index)
    BY <2>1, WaitEffects
  <2>3. QED
    BY <1>1, <2>1, <2>2 DEF WaitKept
<1>2. CASE TaskNew(k)
  <2>1. task_revisions'[k].revision # 1
    <3>1. task_revisions'[k] \in TaskRevision
      BY SMTT(30), TypeNext DEF TypeOK
    <3>2. task_revisions'[k].revision \in Nat
      BY <3>1 DEF TaskRevision
    <3>3. QED
      BY <3>2
  <2>2. QED
    BY <1>2, <2>1 DEF TaskNew
<1>3. QED
  BY <1>1, <1>2, TaskEffects

LEMMA LedgersCorrect ==
  GrantsBacked /\ NumberedFrom(task_revisions) /\ RevisionsIntended
    => InterventionLedgers
BY DEF GrantsBacked, NumberedFrom, Earlier, RevisionsIntended, InterventionLedgers

-----------------------------------------------------------------------------
(* The lifecycle.  Its parts are inductive together with the order of the  *)
(* boundaries (LifecycleInv) and the intents of the revised tasks.         *)

StageInv ==
  /\ LifecycleInv
  /\ BudgetRespected
  /\ StageMembership
  /\ NoIterationAcrossWait
  /\ InterventionBacked
  /\ GrantsBacked
  /\ NumberedFrom(task_revisions)
  /\ RevisionsIntended

LEMMA StageInit == Init => StageInv
BY DEF Init, StageInv, LifecycleInv, LifecycleOrdered, BudgetRespected,
   StageMembership, NoIterationAcrossWait, InterventionBacked, GrantsBacked,
   NumberedFrom, RevisionsIntended

LEMMA StageNext ==
  ASSUME TypeOK, WaitTriple, ExecutionPairing, ReplayInv, StageInv, [Next]_vars
  PROVE  StageInv'
<1>1. WaitBoundaries
  BY DEF ReplayInv
<1>2. NumberedFrom(task_revisions)'
  BY NumberedNext DEF StageInv, NumberedFrom, Earlier
<1>3. QED
  BY <1>1, <1>2, LifecycleNext, BudgetNext, MembershipNext, AcrossNext, BackedNext,
     GrantsBackedNext, IntendedNext DEF StageInv

LEMMA StageCorrect == StageInv => StageLifecycle
BY LifecycleCorrect, LedgersCorrect DEF StageInv, StageLifecycle

\* The stage lifecycle holds together after any sequence of commands: one open
\* generation and iteration at most and in order, never more iterations than
\* budget and grants allow, stage executions inside their iteration, none open
\* across an answered wait, and every intervention on its durable record.
THEOREM StageLifecycleAlways == Spec => []StageLifecycle
<1>1. Init => ReplayInv /\ StageInv
  BY ReplayInit, StageInit
<1>2. /\ TypeOK /\ WaitTriple /\ ExecutionPairing /\ [Next]_vars
      /\ ReplayInv /\ StageInv
      => (ReplayInv /\ StageInv)'
  BY ReplayNext, StageNext
<1>3. StageInv => StageLifecycle
  BY StageCorrect
<1>4. QED
  BY <1>1, <1>2, <1>3, TypeCorrect, WaitTripleAlways, PairingAlways, PTL DEF Spec
=============================================================================
