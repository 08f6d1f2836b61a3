------------------------------ MODULE RunState ------------------------------
(***************************************************************************)
(* The durable state document of one pipeline v2 run and the reducer that  *)
(* advances it (src/orchestrator/src/pipeline_v2_state.ts,                 *)
(* reducePipelineV2RunCommand).  A variable is a field of the document; an *)
(* action is one reducer command, its guard the conjunction of the gates   *)
(* before the switch and of the command's own case.  A rejected command    *)
(* throws and leaves the document untouched, so it is not a step.          *)
(*                                                                         *)
(* Abstracted data: digests, ids and bodies are members of small constant  *)
(* sets; timestamps, profiles, run inputs, output lists, stage and template *)
(* ids and the identity of the bundle are left out; `index` fields equal   *)
(* to the position in the ledger, and the fields iteration_count and       *)
(* open_iteration, which repeat what the list `iterations` says, are read  *)
(* from the sequence itself.                                               *)
(* commit_history is represented by `revision`: one entry per command.     *)
(***************************************************************************)
EXTENDS Integers, Sequences, FiniteSets

CONSTANTS
  StateIds,          \* states of the compiled pipeline
  EntryState,        \* pipeline.entry_state
  MaxTransitions,    \* pipeline.max_transitions
  Outcomes,          \* outcomes an edge of the graph is labelled with
  ExecutionTypes,    \* subset of {"agent", "decision"} a run starts
  SessionIds,        \* ids a helper may hand out for a session
  WorkerLogs,        \* worker log bindings
  PlanDigests,       \* digests of accepted plans
  InitialBudgets,    \* initial iteration budgets a policy may choose
  Extensions,        \* additional_iterations a grant may carry
  MaxSafeInteger,    \* Number.MAX_SAFE_INTEGER
  TaskIds, TaskDigests,
  Intents, Requests, \* digests of wait intents and wait requests
  ActionLists,       \* each a function from action ids to target states
  None               \* an absent optional field

\* Bounds: caps on ledgers that the code leaves unbounded.
CONSTANTS MaxWaits, MaxGenerations, MaxPlanRevisions, MaxTaskRevisions

ASSUME PipelineAssumption ==
  /\ EntryState \in StateIds
  /\ MaxTransitions \in Nat \ {0}
  /\ InitialBudgets \subseteq Nat \ {0}
  /\ Extensions \subseteq Nat \ {0}
  /\ MaxSafeInteger \in Nat
  /\ ExecutionTypes \subseteq {"agent", "decision"}

ASSUME BoundsAssumption ==
  /\ MaxWaits \in Nat
  /\ MaxGenerations \in Nat
  /\ MaxPlanRevisions \in Nat
  /\ MaxTaskRevisions \in Nat

\* An absent field is told apart from every value it could hold, and an offer
\* of a wait is a nonempty map from action ids to states.
ASSUME NoneAssumption ==
  /\ None \notin SessionIds
  /\ None \notin WorkerLogs
  /\ None \notin Intents
  /\ None \notin Nat

ASSUME ActionAssumption ==
  \A list \in ActionLists :
    /\ DOMAIN list # {} /\ None \notin DOMAIN list
    /\ list \in [DOMAIN list -> StateIds]

VARIABLES
  revision,        \* length of commit_history
  status,
  phase,
  cursor,          \* [current_state, transition_count]
  executions,
  transitions,
  generations,
  task_revisions,
  plan_revisions,
  grants,
  waits,
  terminal,        \* None or [state_id, result]
  run_outputs,     \* TRUE once the run outputs are recorded as published
  failure          \* None or the failure reason

graph == <<executions, transitions>>
stages == <<generations, task_revisions, plan_revisions, grants>>
outcome == <<terminal, run_outputs, failure>>
vars == <<revision, status, phase, cursor, graph, stages, waits, outcome>>

-----------------------------------------------------------------------------
(* The vocabulary of the document.                                         *)

Statuses == {"active", "waiting", "success", "failed", "cleanup_failed"}
Phases == {"running", "waiting", "publishing_outputs", "finished"}
Roles == {"planning", "control", "stage"}
AgentPhases ==
  {"started", "data_prepared", "execution_session_created", "sessions_created",
   "running", "outputs_accepted", "cleanup_completed", "failed"}
DecisionPhases == {"evaluating", "evaluated", "failed"}

\* The failure reasons the successor rules tell apart; "other" stands for
\* every remaining member of the closed reason sets.
CleanupReason == "session_cleanup_failed"
TerminalReason == "terminal_failed"
FailureReasons == {CleanupReason, TerminalReason, "other"}
AgentFailureReasons == {CleanupReason, "other"}

ASSUME FailureAssumption == None \notin FailureReasons

CleanupValues == {"not_required", "completed", "failed"}
CleanupPair == [execution : CleanupValues, tool : CleanupValues]
WaitBoundClose == {"grant", "replanned"}
ActiveClose == {"normal_close"}     \* "exhausted" obeys the same rules
StageTask == [task_id : TaskIds, revision : Nat, sha256 : TaskDigests]

Execution ==
  [type : {"agent", "decision"}, state_id : StateIds, execution_role : Roles,
   iteration_index : Nat \cup {None}, phase : AgentPhases \cup DecisionPhases,
   execution_session_id : SessionIds \cup {None},
   tool_session_id : SessionIds \cup {None},
   worker_log : WorkerLogs \cup {None},
   stage_task : StageTask \cup {None},
   session_cleanup : CleanupPair \cup {None},
   result : Outcomes \cup {None}]

Transition ==
  [from : StateIds, outcome : Outcomes, to : StateIds, execution_index : Nat]

Iteration ==
  [opened : Nat,
   closed : [by : WaitBoundClose \cup ActiveClose, count : Nat,
             wait_index : Nat \cup {None}] \cup {None}]

Generation ==
  [plan_sha256 : PlanDigests, initial_budget : Nat, opened : Nat,
   iterations : Seq(Iteration),
   closed : [count : Nat] \cup {None}]

TaskRevision ==
  [task_id : TaskIds, revision : Nat, sha256 : TaskDigests,
   wait_index : Nat \cup {None}, intent : Intents \cup {None}]

PlanRevision == [sha256 : PlanDigests, origin_execution : Nat]

Grant ==
  [generation_index : Nat, wait_index : Nat, intent : Intents,
   additional : Nat]

ActionIds == UNION {DOMAIN list : list \in ActionLists}

Wait ==
  [transition_count : Nat, state_id : StateIds, request : Requests,
   actions : ActionLists, intent : Intents \cup {None},
   response : ActionIds \cup {None}]

TypeOK ==
  /\ revision \in Nat \ {0}
  /\ status \in Statuses
  /\ phase \in Phases
  /\ cursor \in [current_state : StateIds, transition_count : Nat]
  /\ executions \in Seq(Execution)
  /\ transitions \in Seq(Transition)
  /\ generations \in Seq(Generation)
  /\ task_revisions \in Seq(TaskRevision)
  /\ plan_revisions \in Seq(PlanRevision)
  /\ grants \in Seq(Grant)
  /\ waits \in Seq(Wait)
  /\ terminal \in [state_id : StateIds, result : {"success", "failed"}] \cup {None}
  /\ run_outputs \in BOOLEAN
  /\ failure \in FailureReasons \cup {None}

-----------------------------------------------------------------------------
(* Reading the ledgers.                                                    *)

Latest(s) == s[Len(s)]
ReplaceLatest(s, e) == [s EXCEPT ![Len(s)] = e]

LastExecution == Latest(executions)

IsSettled(e) == e.phase \in {"cleanup_completed", "evaluated", "failed"}
LastFailed == executions # <<>> /\ LastExecution.phase = "failed"
NoInFlightExecution == executions # <<>> => IsSettled(LastExecution)
AllSettled == \A i \in DOMAIN executions : IsSettled(executions[i])
AllBound == Len(transitions) = Len(executions)

HasOpenWait == waits # <<>> /\ Latest(waits).response = None
OpenWait == Latest(waits)

HasOpenGeneration == generations # <<>> /\ Latest(generations).closed = None
OpenGeneration == Latest(generations)

\* Mutant: the newest iteration counts as open although it was closed.
HasAnyIteration ==
  /\ HasOpenGeneration
  /\ OpenGeneration.iterations # <<>>

HasOpenIteration ==
  /\ HasOpenGeneration
  /\ OpenGeneration.iterations # <<>>
  /\ Latest(OpenGeneration.iterations).closed = None

\* hasFailedSessionCleanup: an execution with at least one failed slot.
FailedCleanup(e) ==
  /\ e.session_cleanup # None
  /\ "failed" \in {e.session_cleanup.execution, e.session_cleanup.tool}

\* The initial budget of generation g plus its recorded grants.
GrantTotal(g) ==
  LET total[i \in 0..Len(grants)] ==
        IF i = 0 THEN 0
        ELSE total[i - 1] + (IF grants[i].generation_index = g
                             THEN grants[i].additional ELSE 0)
  IN  total[Len(grants)]
EffectiveBudget(g) == generations[g].initial_budget + GrantTotal(g)

LatestTaskRevision(t) ==
  LET of == {i \in DOMAIN task_revisions : task_revisions[i].task_id = t}
  IN  IF of = {} THEN 0
      ELSE task_revisions[CHOOSE i \in of : \A j \in of : j <= i].revision

\* The two session slots of every execution.
DurableSessionIds ==
  (UNION {{executions[i].execution_session_id, executions[i].tool_session_id} :
            i \in DOMAIN executions}) \ {None}

-----------------------------------------------------------------------------
(* The gates before the switch.                                            *)

\* Mutant: a waiting run does not take the closure of its iteration.
WaitingAllowedNoClosure ==
  {"wait_response_recorded", "plan_intent_accepted", "task_revision_accepted",
   "iteration_grant_recorded"}

WaitingAllowed ==
  {"wait_response_recorded", "plan_intent_accepted", "task_revision_accepted",
   "iteration_grant_recorded", "stage_iteration_closed"}
Finalization == {"run_failed", "run_cleanup_failed"}

\* Mutants: a waiting run takes every command; a finalized run takes commands;
\* the failure of the last execution does not latch.
StatusGateWhileWaiting(kind) == status \in {"active", "waiting"}
StatusGateAfterEnd(kind) ==
  status # "waiting" \/ kind \in WaitingAllowed
FailureGateMissing(kind) == TRUE

\* A waiting run takes only the response and the intervention records, a
\* finalized run nothing; after a failed execution only the finalization.
StatusGate(kind) ==
  \/ status = "active"
  \/ status = "waiting" /\ kind \in WaitingAllowed
FailureGate(kind) == LastFailed => kind \in Finalization
Admitted(kind) == StatusGate(kind) /\ FailureGate(kind)

\* Every accepted command grows the revision by exactly one.
Commit == revision' = revision + 1

Undecided == terminal = None /\ ~run_outputs /\ failure = None

\* create_run: the first document.
Init ==
  /\ revision = 1
  /\ status = "active"
  /\ phase = "running"
  /\ cursor = [current_state |-> EntryState, transition_count |-> 0]
  /\ executions = <<>> /\ transitions = <<>>
  /\ generations = <<>> /\ task_revisions = <<>>
  /\ plan_revisions = <<>> /\ grants = <<>>
  /\ waits = <<>>
  /\ terminal = None /\ run_outputs = FALSE /\ failure = None

-----------------------------------------------------------------------------
(* Executions.                                                             *)

\* Mutant: an execution may start although the last one is not bound yet.
StartableUnbound(s) ==
  /\ phase = "running"
  /\ terminal = None
  /\ NoInFlightExecution
  /\ cursor.transition_count < MaxTransitions
  /\ s = cursor.current_state

StartableCursor(s) ==
  /\ phase = "running"
  /\ terminal = None
  /\ NoInFlightExecution
  /\ AllBound
  /\ cursor.transition_count < MaxTransitions
  /\ s = cursor.current_state

\* A stage execution names the open iteration; the other roles start outside.
IterationForRole(role, i) ==
  IF role = "stage"
  THEN HasOpenIteration /\ i = Len(OpenGeneration.iterations)
  ELSE ~HasOpenIteration /\ i = None

\* start_agent_execution and start_decision_execution.
StartExecution(type, s, role, i) ==
  /\ Admitted("start_execution")
  /\ StartableCursor(s)
  /\ IterationForRole(role, i)
  /\ executions' = Append(executions,
       [type |-> type, state_id |-> s, execution_role |-> role,
        iteration_index |-> i,
        phase |-> IF type = "agent" THEN "started" ELSE "evaluating",
        execution_session_id |-> None, tool_session_id |-> None,
        worker_log |-> None, stage_task |-> None, session_cleanup |-> None,
        result |-> None])
  /\ Commit
  /\ UNCHANGED <<status, phase, cursor, transitions, stages, waits, outcome>>

UnfinishedAgent(kind) ==
  /\ Admitted(kind)
  /\ executions # <<>>
  /\ LastExecution.type = "agent"
  /\ ~IsSettled(LastExecution)

UnfinishedDecision(kind) ==
  /\ Admitted(kind)
  /\ executions # <<>>
  /\ LastExecution.type = "decision"
  /\ LastExecution.phase = "evaluating"

\* Rewrites the last execution; every execution command ends with it.
Settle(e) ==
  /\ executions' = ReplaceLatest(executions, e)
  /\ Commit
  /\ UNCHANGED <<status, phase, cursor, transitions, stages, waits, outcome>>

StageTaskRecorded(task) ==
  LET matches == {i \in DOMAIN task_revisions :
                    /\ task_revisions[i].task_id = task.task_id
                    /\ task_revisions[i].revision = task.revision
                    /\ task_revisions[i].sha256 = task.sha256}
  IN  Cardinality(matches) = 1

AgentDataPrepared(task) ==
  /\ UnfinishedAgent("agent_data_prepared")
  /\ LastExecution.phase = "started"
  /\ task # None => /\ LastExecution.execution_role = "stage"
                    /\ StageTaskRecorded(task)
  /\ Settle([LastExecution EXCEPT !.phase = "data_prepared",
                                  !.stage_task = task])

\* rejectDurableSessionId: an id serves one slot of one execution, ever.
FreshSessionId(id) == id \notin DurableSessionIds

AgentExecutionSessionCreated(id) ==
  /\ UnfinishedAgent("agent_execution_session_created")
  /\ LastExecution.phase = "data_prepared"
  /\ FreshSessionId(id)
  /\ Settle([LastExecution EXCEPT !.phase = "execution_session_created",
                                  !.execution_session_id = id])

AgentToolSessionCreated(id) ==
  /\ UnfinishedAgent("agent_tool_session_created")
  /\ LastExecution.phase = "execution_session_created"
  /\ FreshSessionId(id)
  /\ Settle([LastExecution EXCEPT !.phase = "sessions_created",
                                  !.tool_session_id = id])

AgentRunning ==
  /\ UnfinishedAgent("agent_running")
  /\ LastExecution.phase = "sessions_created"
  /\ Settle([LastExecution EXCEPT !.phase = "running"])

AgentOutputsAccepted(log) ==
  /\ UnfinishedAgent("agent_outputs_accepted")
  /\ LastExecution.phase = "running"
  /\ Settle([LastExecution EXCEPT !.phase = "outputs_accepted",
                                  !.worker_log = log])

AgentCleanupCompleted ==
  /\ UnfinishedAgent("agent_cleanup_completed")
  /\ LastExecution.phase = "outputs_accepted"
  /\ None \notin {LastExecution.execution_session_id,
                  LastExecution.tool_session_id}
  /\ Settle([LastExecution EXCEPT
               !.phase = "cleanup_completed",
               !.session_cleanup = [execution |-> "completed",
                                    tool |-> "completed"]])

\* Mutant: the tool slot is not compared with the recorded session.
ExecutionCleanupFits(e, pair) ==
  (e.execution_session_id = None) <=> (pair.execution = "not_required")

\* A slot without a session needs no cleanup; one with a session has an outcome.
CleanupFits(e, pair) ==
  /\ (e.execution_session_id = None) <=> (pair.execution = "not_required")
  /\ (e.tool_session_id = None) <=> (pair.tool = "not_required")

\* A worker log bound at acceptance is repeated by the failure.
WorkerLogKept(log) == LastExecution.worker_log \in {None, log}

AgentFailed(reason, pair, log) ==
  /\ UnfinishedAgent("agent_failed")
  /\ CleanupFits(LastExecution, pair)
  /\ reason = CleanupReason <=> "failed" \in {pair.execution, pair.tool}
  /\ WorkerLogKept(log)
  /\ Settle([LastExecution EXCEPT !.phase = "failed",
                                  !.session_cleanup = pair,
                                  !.worker_log = log])

DecisionEvaluated(o) ==
  /\ UnfinishedDecision("decision_evaluated")
  /\ Settle([LastExecution EXCEPT !.phase = "evaluated", !.result = o])

DecisionFailed ==
  /\ UnfinishedDecision("decision_failed")
  /\ Settle([LastExecution EXCEPT !.phase = "failed"])

\* The last execution is complete and carries no transition yet.
Committable(o) ==
  /\ executions # <<>>
  /\ LastExecution.phase = IF LastExecution.type = "agent"
                           THEN "cleanup_completed" ELSE "evaluated"
  /\ LastExecution.type = "decision" => LastExecution.result = o
  /\ \A i \in DOMAIN transitions :
       transitions[i].execution_index # Len(executions)

TransitionCommitted(o, to) ==
  /\ Admitted("transition_committed")
  /\ phase = "running"
  /\ terminal = None
  /\ Committable(o)
  /\ cursor.current_state = LastExecution.state_id
  /\ cursor.transition_count < MaxTransitions
  /\ transitions' = Append(transitions,
       [from |-> cursor.current_state, outcome |-> o, to |-> to,
        execution_index |-> Len(executions)])
  /\ cursor' = [current_state |-> to,
                transition_count |-> cursor.transition_count + 1]
  /\ Commit
  /\ UNCHANGED <<status, phase, executions, stages, waits, outcome>>

-----------------------------------------------------------------------------
(* The wait journal and the end of the run.                                *)

\* Nothing runs and every execution has committed its transition.
CleanBoundary == AllSettled /\ AllBound

RunWaiting(s, request, actions) ==
  /\ Admitted("run_waiting")
  /\ Len(waits) < MaxWaits                                       \* bound
  /\ phase = "running"
  /\ Undecided
  /\ ~HasOpenWait
  /\ CleanBoundary
  /\ s = cursor.current_state
  /\ status' = "waiting"
  /\ phase' = "waiting"
  /\ waits' = Append(waits,
       [transition_count |-> cursor.transition_count, state_id |-> s,
        request |-> request, actions |-> actions,
        intent |-> None, response |-> None])
  /\ Commit
  /\ UNCHANGED <<cursor, graph, stages, outcome>>

\* The open wait a waiting run's command names by its index.
TargetsOpenWait(w) ==
  /\ status = "waiting"
  /\ HasOpenWait
  /\ w = Len(waits)

\* The intervention must have closed the iteration the wait suspended.
ResponseUnblocked == ~HasOpenIteration

\* The cursor moves to the state the answered action leads to.
RoutedCursor(action) ==
  [cursor EXCEPT !.current_state = OpenWait.actions[action]]

WaitResponseRecorded(w, request, action) ==
  /\ Admitted("wait_response_recorded")
  /\ phase = "waiting"
  /\ TargetsOpenWait(w)
  /\ request = OpenWait.request
  /\ action \in DOMAIN OpenWait.actions
  /\ Undecided
  /\ ResponseUnblocked
  /\ waits' = ReplaceLatest(waits, [OpenWait EXCEPT !.response = action])
  /\ status' = "active"
  /\ phase' = "running"
  /\ cursor' = RoutedCursor(action)
  /\ Commit
  /\ UNCHANGED <<graph, stages, outcome>>

TerminalReached(s, result) ==
  /\ Admitted("terminal_reached")
  /\ phase = "running"
  /\ terminal = None
  /\ s = cursor.current_state
  /\ CleanBoundary
  /\ terminal' = [state_id |-> s, result |-> result]
  /\ Commit
  /\ UNCHANGED <<status, phase, cursor, graph, stages, waits, run_outputs,
                 failure>>

RunOutputsPublished ==
  /\ Admitted("run_outputs_published")
  /\ phase = "running"
  /\ terminal # None
  /\ ~run_outputs
  /\ run_outputs' = TRUE
  /\ phase' = "publishing_outputs"
  /\ Commit
  /\ UNCHANGED <<status, cursor, graph, stages, waits, terminal, failure>>

RunSucceeded ==
  /\ Admitted("run_succeeded")
  /\ terminal # None
  /\ terminal.result = "success"
  /\ phase = "publishing_outputs"
  /\ status' = "success"
  /\ phase' = "finished"
  /\ Commit
  /\ UNCHANGED <<cursor, graph, stages, waits, outcome>>

LastCleanupFailed ==
  /\ LastFailed
  /\ LastExecution.type = "agent"
  /\ FailedCleanup(LastExecution)

\* A failed terminal whose outputs are published fails with exactly its reason.
RunFailureReason(reason) ==
  /\ reason # CleanupReason
  /\ reason = TerminalReason <=>
       /\ terminal # None
       /\ terminal.result = "failed"
       /\ run_outputs

RunFailed(reason) ==
  /\ Admitted("run_failed")
  /\ AllSettled
  /\ ~LastCleanupFailed
  /\ RunFailureReason(reason)
  /\ status' = "failed"
  /\ phase' = "finished"
  /\ failure' = reason
  /\ Commit
  /\ UNCHANGED <<cursor, graph, stages, waits, terminal, run_outputs>>

RunCleanupFailed ==
  /\ Admitted("run_cleanup_failed")
  /\ terminal = None
  /\ LastCleanupFailed
  /\ status' = "cleanup_failed"
  /\ phase' = "finished"
  /\ failure' = CleanupReason
  /\ Commit
  /\ UNCHANGED <<cursor, graph, stages, waits, terminal, run_outputs>>

-----------------------------------------------------------------------------
(* Stage generations, iterations and the intervention ledgers.             *)

\* The boundary at which a generation or an iteration may be opened.
OpeningBoundary(count) ==
  /\ phase = "running"
  /\ Undecided
  /\ ~HasOpenWait
  /\ count = cursor.transition_count
  /\ NoInFlightExecution

\* A generation binds the last accepted plan revision.
BindsLastPlan(plan) ==
  plan_revisions # <<>> /\ plan = Latest(plan_revisions).sha256

StageGenerationOpened(plan, budget, count) ==
  /\ Admitted("stage_generation_opened")
  /\ Len(generations) < MaxGenerations                           \* bound
  /\ OpeningBoundary(count)
  /\ ~HasOpenGeneration
  /\ BindsLastPlan(plan)
  /\ generations' = Append(generations,
       [plan_sha256 |-> plan, initial_budget |-> budget, opened |-> count,
        iterations |-> <<>>, closed |-> None])
  /\ Commit
  /\ UNCHANGED <<status, phase, cursor, graph, task_revisions, plan_revisions,
                 grants, waits, outcome>>

\* The next iteration fits a budget that is representable at all.
WithinBudget(g) ==
  /\ EffectiveBudget(g) <= MaxSafeInteger
  /\ Len(generations[g].iterations) + 1 <= EffectiveBudget(g)

StageIterationOpened(g, i, count) ==
  /\ Admitted("stage_iteration_opened")
  /\ OpeningBoundary(count)
  /\ HasOpenGeneration /\ g = Len(generations)
  /\ ~HasOpenIteration
  /\ i = Len(OpenGeneration.iterations) + 1
  /\ WithinBudget(g)
  /\ generations' = [generations EXCEPT
       ![g].iterations = Append(@, [opened |-> count, closed |-> None])]
  /\ Commit
  /\ UNCHANGED <<status, phase, cursor, graph, task_revisions, plan_revisions,
                 grants, waits, outcome>>

\* Mutant: a record of any wait is accepted.
InterventionOfAnyWait(by, g, w) ==
  IF by = "grant"
  THEN \E k \in DOMAIN grants : grants[k].generation_index = g
  ELSE \E k \in DOMAIN task_revisions : task_revisions[k].wait_index # None

\* The durable record a wait-bound closure rests on: the grant of this wait
\* and intent for the generation, or a task revision accepted in this wait.
InterventionRecorded(by, g, w) ==
  IF by = "grant"
  THEN \E k \in DOMAIN grants :
         /\ grants[k].generation_index = g
         /\ grants[k].wait_index = w
         /\ grants[k].intent = waits[w].intent
  ELSE \E k \in DOMAIN task_revisions : task_revisions[k].wait_index = w

StageIterationClosed(g, i, by, w) ==
  /\ Admitted("stage_iteration_closed")
  /\ by \in WaitBoundClose <=> w # None
  /\ phase = IF by \in WaitBoundClose THEN "waiting" ELSE "running"
  /\ terminal = None
  /\ HasOpenIteration
  /\ g = Len(generations) /\ i = Len(generations[g].iterations)
  /\ by \in WaitBoundClose => /\ TargetsOpenWait(w)
                              /\ OpenWait.intent # None
                              /\ InterventionRecorded(by, g, w)
  /\ generations' = [generations EXCEPT
       ![g].iterations[i].closed =
          [by |-> by, count |-> cursor.transition_count, wait_index |-> w]]
  /\ Commit
  /\ UNCHANGED <<status, phase, cursor, graph, task_revisions, plan_revisions,
                 grants, waits, outcome>>

\* The three closing reasons of a generation obey the same rules.
StageGenerationClosed(g) ==
  /\ Admitted("stage_generation_closed")
  /\ phase = "running"
  /\ terminal = None
  /\ HasOpenGeneration /\ g = Len(generations)
  /\ ~HasOpenIteration
  /\ OpenGeneration.iterations # <<>>
  /\ generations' = [generations EXCEPT
       ![g].closed = [count |-> cursor.transition_count]]
  /\ Commit
  /\ UNCHANGED <<status, phase, cursor, graph, task_revisions, plan_revisions,
                 grants, waits, outcome>>

\* An exact repeat of the accepted intent returns the document unchanged, a
\* stutter here; a different intent for the same wait is rejected.
PlanIntentAccepted(w, intent) ==
  /\ Admitted("plan_intent_accepted")
  /\ TargetsOpenWait(w)
  /\ OpenWait.intent = None
  /\ waits' = ReplaceLatest(waits, [OpenWait EXCEPT !.intent = intent])
  /\ Commit
  /\ UNCHANGED <<status, phase, cursor, graph, stages, outcome>>

\* The wait links a task revision record carries: none for revision 1.
TaskRevisionAccepted(t, r, digest, w, intent) ==
  /\ Admitted("task_revision_accepted")
  /\ Len(task_revisions) < MaxTaskRevisions                      \* bound
  /\ r = LatestTaskRevision(t) + 1
  /\ IF r = 1
     THEN /\ w = None /\ intent = None
          /\ phase = "running" /\ Undecided /\ ~HasOpenWait
     ELSE /\ TargetsOpenWait(w)
          /\ OpenWait.intent # None /\ intent = OpenWait.intent
  /\ task_revisions' = Append(task_revisions,
       [task_id |-> t, revision |-> r, sha256 |-> digest,
        wait_index |-> w, intent |-> intent])
  /\ Commit
  /\ UNCHANGED <<status, phase, cursor, graph, generations, plan_revisions,
                 grants, waits, outcome>>

\* The origin is the last execution: planning, cleaned up and not yet bound.
PlanOrigin(e) ==
  /\ Len(executions) = Len(transitions) + 1
  /\ e = Len(executions)
  /\ executions[e].execution_role = "planning"
  /\ executions[e].type = "agent"
  /\ executions[e].phase = "cleanup_completed"

PlanRevisionAccepted(r, plan, origin) ==
  /\ Admitted("plan_revision_accepted")
  /\ Len(plan_revisions) < MaxPlanRevisions                      \* bound
  /\ phase = "running"
  /\ Undecided
  /\ ~HasOpenWait
  /\ ~HasOpenIteration
  /\ PlanOrigin(origin)
  /\ r = Len(plan_revisions) + 1
  /\ plan_revisions' = Append(plan_revisions,
       [sha256 |-> plan, origin_execution |-> origin])
  /\ Commit
  /\ UNCHANGED <<status, phase, cursor, graph, generations, task_revisions,
                 grants, waits, outcome>>

NotYetGranted(g, w) ==
  \A k \in DOMAIN grants :
    ~(grants[k].generation_index = g /\ grants[k].wait_index = w)

\* One grant per generation and wait, for the intent the wait accepted.
IterationGrantRecorded(g, w, intent, additional) ==
  /\ Admitted("iteration_grant_recorded")
  /\ TargetsOpenWait(w)
  /\ OpenWait.intent # None /\ intent = OpenWait.intent
  /\ HasOpenGeneration /\ g = Len(generations)
  /\ NotYetGranted(g, w)
  /\ grants' = Append(grants,
       [generation_index |-> g, wait_index |-> w, intent |-> intent,
        additional |-> additional])
  /\ Commit
  /\ UNCHANGED <<status, phase, cursor, graph, generations, task_revisions,
                 plan_revisions, waits, outcome>>

-----------------------------------------------------------------------------
(* The commands a caller may send, one disjunct per group of handlers.     *)

IterationIndices ==
  UNION {DOMAIN generations[g].iterations : g \in DOMAIN generations}

\* Bindings of recorded tasks, with the right digest or a stale one.
TaskBindings ==
  {[task_id |-> task_revisions[k].task_id,
    revision |-> task_revisions[k].revision, sha256 |-> d] :
     k \in DOMAIN task_revisions, d \in TaskDigests}

ExecutionCommand ==
  \/ \E type \in ExecutionTypes, s \in StateIds, role \in Roles,
        i \in IterationIndices \cup {None} : StartExecution(type, s, role, i)
  \/ \E task \in TaskBindings \cup {None} : AgentDataPrepared(task)
  \/ \E id \in SessionIds : AgentExecutionSessionCreated(id)
  \/ \E id \in SessionIds : AgentToolSessionCreated(id)
  \/ AgentRunning
  \/ \E log \in WorkerLogs : AgentOutputsAccepted(log)
  \/ AgentCleanupCompleted
  \/ \E reason \in AgentFailureReasons, pair \in CleanupPair,
        log \in WorkerLogs : AgentFailed(reason, pair, log)
  \/ \E o \in Outcomes : DecisionEvaluated(o)
  \/ DecisionFailed
  \/ \E o \in Outcomes, to \in StateIds : TransitionCommitted(o, to)

RunCommand ==
  \/ \E s \in StateIds, request \in Requests, actions \in ActionLists :
       RunWaiting(s, request, actions)
  \/ \E w \in DOMAIN waits, request \in Requests, action \in ActionIds :
       WaitResponseRecorded(w, request, action)
  \/ \E s \in StateIds, result \in {"success", "failed"} :
       TerminalReached(s, result)
  \/ RunOutputsPublished
  \/ RunSucceeded
  \/ \E reason \in FailureReasons : RunFailed(reason)
  \/ RunCleanupFailed

StageCommand ==
  \/ \E plan \in PlanDigests, budget \in InitialBudgets,
        count \in 0..MaxTransitions : StageGenerationOpened(plan, budget, count)
  \/ \E g \in DOMAIN generations, i \in 1..MaxSafeInteger, count \in 0..MaxTransitions :
       StageIterationOpened(g, i, count)
  \/ \E g \in DOMAIN generations, i \in IterationIndices,
        by \in WaitBoundClose \cup ActiveClose, w \in DOMAIN waits \cup {None} :
       StageIterationClosed(g, i, by, w)
  \/ \E g \in DOMAIN generations : StageGenerationClosed(g)
  \/ \E w \in DOMAIN waits, intent \in Intents : PlanIntentAccepted(w, intent)
  \/ \E t \in TaskIds, r \in 1..MaxTaskRevisions, digest \in TaskDigests,
        w \in DOMAIN waits \cup {None}, intent \in Intents \cup {None} :
       TaskRevisionAccepted(t, r, digest, w, intent)
  \/ \E r \in 1..MaxPlanRevisions, plan \in PlanDigests,
        origin \in DOMAIN executions : PlanRevisionAccepted(r, plan, origin)
  \/ \E g \in DOMAIN generations, w \in DOMAIN waits, intent \in Intents,
        additional \in Extensions :
       IterationGrantRecorded(g, w, intent, additional)

Next == ExecutionCommand \/ RunCommand \/ StageCommand

Spec == Init /\ [][Next]_vars

-----------------------------------------------------------------------------
(* Safety invariants.                                                      *)

\* The status, the phase and the wait journal tell one story: the run waits
\* exactly while the last wait record is open, no earlier record is open, and
\* a finished phase belongs exactly to a final status.
WaitTriple ==
  /\ status = "waiting" <=> phase = "waiting"
  /\ status = "waiting" <=> HasOpenWait
  /\ \A w \in DOMAIN waits : w < Len(waits) => waits[w].response # None
  /\ phase = "finished" <=> status \in {"success", "failed", "cleanup_failed"}

\* Every transition belongs to the execution of the same position and starts
\* at the state it ran; only the last execution may lack a transition, may be
\* unfinished or failed; and the cursor counts the committed transitions.
ExecutionPairing ==
  /\ Len(transitions) \in {Len(executions), Len(executions) - 1}
  /\ \A i \in DOMAIN transitions :
       /\ transitions[i].execution_index = i
       /\ transitions[i].from = executions[i].state_id
       /\ executions[i].phase \in {"cleanup_completed", "evaluated"}
  /\ cursor.transition_count = Len(transitions)
  /\ Len(transitions) <= MaxTransitions

\* The wait that moved the cursor at boundary n last, 0 when none did.
LastAnsweredWaitAt(n) ==
  LET at == {w \in DOMAIN waits : /\ waits[w].transition_count = n
                                  /\ waits[w].response # None}
  IN  IF at = {} THEN 0 ELSE CHOOSE w \in at : \A v \in at : v <= w

\* Where the records alone put the cursor after n transitions.
ReplayedState(n) ==
  LET w == LastAnsweredWaitAt(n) IN
  IF w # 0 THEN waits[w].actions[waits[w].response]
  ELSE IF n = 0 THEN EntryState ELSE transitions[n].to

\* The cursor is derivable: transitions and answered waits replayed in order
\* give the current state, and every transition starts where the replay stood.
CursorReplay ==
  /\ cursor.current_state = ReplayedState(Len(transitions))
  /\ \A i \in DOMAIN transitions : transitions[i].from = ReplayedState(i - 1)

\* A durable session id names one slot of one execution for the whole run.
SessionIdsUnique ==
  LET slots == (DOMAIN executions) \X {"execution", "tool"}
      id(slot) == IF slot[2] = "execution"
                  THEN executions[slot[1]].execution_session_id
                  ELSE executions[slot[1]].tool_session_id
  IN  \A a, b \in slots : id(a) = id(b) /\ id(a) # None => a = b

\* What a failed agent leaves behind matches what it had created: a slot is
\* reported exactly for a recorded session, and the run can only end as
\* cleanup_failed after a slot whose cleanup is unconfirmed.
CleanupAccounted ==
  /\ \A i \in DOMAIN executions :
       LET pair == executions[i].session_cleanup IN
       pair # None =>
         /\ pair.execution = "not_required"
              <=> executions[i].execution_session_id = None
         /\ pair.tool = "not_required" <=> executions[i].tool_session_id = None
  /\ status = "cleanup_failed" <=> (status \notin {"active", "waiting"} /\ LastCleanupFailed)
  /\ status = "cleanup_failed" <=> failure = CleanupReason

\* The terminal status follows from the terminal record: success needs a
\* successful terminal with published outputs, terminal_failed names exactly a
\* failed terminal with published outputs, and nothing is in flight then.
FinalStatusCoherent ==
  /\ terminal # None =>
       /\ AllSettled /\ AllBound
       /\ terminal.state_id = cursor.current_state
       /\ status # "waiting"
  /\ run_outputs => terminal # None
  /\ status = "success" =>
       run_outputs /\ terminal.result = "success" /\ failure = None
  /\ failure = TerminalReason =>
       run_outputs /\ terminal.result = "failed" /\ status = "failed"
  /\ failure # None <=> status \in {"failed", "cleanup_failed"}

\* At most one generation and one iteration are open, both the newest, and the
\* counts at which the lifecycle was opened and closed never go backwards.
SingleOpenLifecycle ==
  /\ \A g \in DOMAIN generations :
       LET gen == generations[g]
           its == gen.iterations IN
       /\ g < Len(generations) => gen.closed # None
       /\ gen.closed # None =>
            /\ its # <<>>
            /\ Latest(its).closed # None
            /\ Latest(its).closed.count <= gen.closed.count
            /\ g < Len(generations) => gen.closed.count <= generations[g + 1].opened
       /\ \A i \in DOMAIN its :
            /\ i < Len(its) => /\ its[i].closed # None
                               /\ its[i].closed.count <= its[i + 1].opened
            /\ its[i].closed # None => its[i].opened <= its[i].closed.count
            /\ gen.opened <= its[i].opened

\* No generation ever holds more iterations than its initial budget and its
\* grants allow, and no iteration was opened on an unrepresentable budget.
BudgetRespected ==
  \A g \in DOMAIN generations :
    Len(generations[g].iterations) <=
      IF EffectiveBudget(g) <= MaxSafeInteger THEN EffectiveBudget(g)
                                             ELSE MaxSafeInteger

\* A stage execution ran inside the iteration it names: some generation's
\* iteration of that index was opened at or before the execution's boundary
\* and not closed before it; other executions started outside every iteration.
SpansBoundary(it, n) ==
  /\ it.opened <= n
  /\ it.closed # None => n <= it.closed.count
StageMembership ==
  \A e \in DOMAIN executions :
    executions[e].execution_role = "stage" =>
      \E g \in DOMAIN generations :
        /\ executions[e].iteration_index \in DOMAIN generations[g].iterations
        /\ SpansBoundary(
             generations[g].iterations[executions[e].iteration_index], e - 1)

\* A closure by grant or by replanning rests on the durable record of its wait:
\* a grant of that generation and wait for the accepted intent, or a revised
\* task of that wait, recorded at the boundary where the wait was entered.
InterventionBacked ==
  \A g \in DOMAIN generations :
    \A i \in DOMAIN generations[g].iterations :
      LET closed == generations[g].iterations[i].closed IN
      closed # None /\ closed.by \in WaitBoundClose =>
        /\ closed.wait_index \in DOMAIN waits
        /\ waits[closed.wait_index].intent # None
        /\ waits[closed.wait_index].transition_count = closed.count
        /\ closed.by = "grant" =>
             \E k \in DOMAIN grants :
               /\ grants[k].generation_index = g
               /\ grants[k].wait_index = closed.wait_index
        /\ closed.by = "replanned" =>
             \E k \in DOMAIN task_revisions :
               task_revisions[k].wait_index = closed.wait_index

\* No iteration survives an answered wait: one opened before the wait was
\* entered is closed at the latest at the wait's boundary.
NoIterationAcrossWait ==
  \A w \in DOMAIN waits : waits[w].response # None =>
    \A g \in DOMAIN generations : \A i \in DOMAIN generations[g].iterations :
      LET it == generations[g].iterations[i] IN
      it.opened < waits[w].transition_count =>
        it.closed # None /\
        (it.closed.count <= waits[w].transition_count)

\* The intervention ledgers are consistent with the journal: every grant and
\* every revised task carries the intent its wait accepted, a generation gets
\* one grant per wait, and a task's revisions are consecutive from 1.
InterventionLedgers ==
  /\ \A k \in DOMAIN grants :
       /\ grants[k].generation_index \in DOMAIN generations
       /\ grants[k].wait_index \in DOMAIN waits
       /\ waits[grants[k].wait_index].intent = grants[k].intent
       /\ \A l \in DOMAIN grants :
            /\ grants[l].generation_index = grants[k].generation_index
            /\ grants[l].wait_index = grants[k].wait_index
            => l = k
  /\ \A k \in DOMAIN task_revisions :
       LET r == task_revisions[k] IN
       /\ r.revision =
            1 + Cardinality({l \in 1..k - 1 :
                               task_revisions[l].task_id = r.task_id})
       /\ r.revision > 1 =>
            /\ r.wait_index \in DOMAIN waits
            /\ waits[r.wait_index].intent = r.intent

\* The records of a run agree with one another after any sequence of commands:
\* every field has its type, no session is named twice, what was cleaned up is
\* what was created, the ending follows from terminal and outputs, and the cursor
\* from the records.
RunCoherent ==
  /\ TypeOK
  /\ SessionIdsUnique
  /\ CleanupAccounted
  /\ FinalStatusCoherent
  /\ CursorReplay

\* The stage lifecycle holds together across waits, replans and grants: one
\* generation and one iteration open at most, within the budget, executions
\* inside their iteration, none open across an answered wait, and every
\* intervention resting on its durable record, however often a step is repeated.
StageLifecycle ==
  /\ SingleOpenLifecycle
  /\ BudgetRespected
  /\ StageMembership
  /\ NoIterationAcrossWait
  /\ InterventionBacked
  /\ InterventionLedgers
-----------------------------------------------------------------------------
(* Action properties: what no command may do.                              *)

\* Once the last execution failed, nothing but the finalization happens: the
\* ledgers, the journal, the cursor and the terminal stay as they are.
FailureLatched ==
  [][LastFailed => /\ UNCHANGED <<graph, stages, waits, cursor, terminal, run_outputs>>
                   /\ phase' = "finished"]_vars

Finalized == status \notin {"active", "waiting"}

\* No legal sequence of commands strands a run: until it is finalized some
\* command is admitted, so a waiting run whose iteration is still open can
\* always be brought to its response.
NeverStuck == ~Finalized => ENABLED Next

\* A finalized run is immutable.
FinalImmutable == [][~Finalized]_vars

\* A waiting run keeps its graph, its plans and its cursor until the response,
\* and the response changes nothing but the wait and the cursor.
WaitFreezesGraph ==
  [][status = "waiting" =>
       /\ UNCHANGED <<graph, plan_revisions, outcome>>
       /\ Len(generations') = Len(generations)
       /\ status' = "waiting" => UNCHANGED cursor
       /\ status' # "waiting" => UNCHANGED stages]_vars

GrowsAtEnd(new, old, fixed) ==
  /\ Len(new) >= Len(old)
  /\ \A i \in fixed : new[i] = old[i]
ClosedRecords(records) == {i \in DOMAIN records : records[i].closed # None}

\* A field that says something keeps saying it, but for the `moving` fields.
Filled(new, old, moving) ==
  \A f \in DOMAIN old \ moving : old[f] # None => new[f] = old[f]

\* A record gains the fields it lacks and replaces none: the worker log, the
\* sessions, the task and the cleanup of an unsettled execution included.
FieldsKept ==
  /\ \A e \in DOMAIN executions :
       Filled(executions'[e], executions[e], {"phase"})
  /\ \A w \in DOMAIN waits : Filled(waits'[w], waits[w], {})
  /\ \A g \in DOMAIN generations :
       /\ Filled(generations'[g], generations[g], {"iterations"})
       /\ \A i \in DOMAIN generations[g].iterations :
            Filled(generations'[g].iterations[i],
                   generations[g].iterations[i], {})

\* Records are only ever completed: the append-only ledgers grow at the end; a
\* settled execution, a closed iteration or generation and an answered wait are
\* never rewritten; and of any other record no command replaces a field that is
\* bound, though the commands look at the phase and seldom at the field.
LedgersAppendOnly ==
  [][/\ GrowsAtEnd(transitions', transitions, DOMAIN transitions)
     /\ GrowsAtEnd(task_revisions', task_revisions, DOMAIN task_revisions)
     /\ GrowsAtEnd(plan_revisions', plan_revisions, DOMAIN plan_revisions)
     /\ GrowsAtEnd(grants', grants, DOMAIN grants)
     /\ GrowsAtEnd(executions', executions,
                   {e \in DOMAIN executions : IsSettled(executions[e])})
     /\ GrowsAtEnd(waits', waits,
                   {w \in DOMAIN waits : waits[w].response # None})
     /\ GrowsAtEnd(generations', generations, ClosedRecords(generations))
     /\ \A g \in DOMAIN generations :
          GrowsAtEnd(generations'[g].iterations, generations[g].iterations,
                     ClosedRecords(generations[g].iterations))
     /\ FieldsKept]_vars
=============================================================================
