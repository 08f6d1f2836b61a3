--------------------------- MODULE ControlledRun ---------------------------
(***************************************************************************)
(* One pipeline v2 run under its controllers: the durable document of      *)
(* RunState, the immutable documents the controllers publish beside it,    *)
(* and at most one controller at a time, for the run's mutation lock       *)
(* admits one owner.  A controller is a sequence of steps; a step reads    *)
(* the document, skips what an earlier attempt already recorded, and       *)
(* otherwise publishes one document or dispatches one reducer command.     *)
(* Every publication and every dispatch may fail, confirmed or             *)
(* unconfirmed, and the process may die between any two steps; the         *)
(* operator then starts the same command, or another one, from the start.  *)
(*                                                                         *)
(* The runner between two commands is the deterministic part: it runs the  *)
(* execution the cursor stands at, and enters the wait after a stage.      *)
(* ContinueStage, ReviseTask and RunPlanHandoff add the commands,          *)
(* Interventions composes them.                                            *)
(*                                                                         *)
(* Abstracted data: a digest is the document it is the digest of.          *)
(***************************************************************************)
EXTENDS RunStateLoader, TLC

CONSTANTS
  PlanningState,     \* plans, and is where a finished stage iteration waits
  StageState,
  Bodies,            \* bodies of task revisions
  FirstBody,         \* the body the first plan gives every task
  MaxFaults          \* bound: failed calls and deaths of one behaviour

ASSUME ControlledRunAssumption ==
  /\ {PlanningState, StageState} \subseteq StateIds
  /\ FirstBody \in Bodies
  /\ MaxFaults \in Nat

VARIABLES
  published,   \* place -> content of the immutable documents
  call,        \* the controller call in progress, or Idle
  answer,      \* how the last call ended
  faults

controlled == <<published, call, answer, faults>>
allVars == <<vars, controlled>>

\* The closed vocabulary of a stage wait, each action with its target.
Offer == [continue_stage |-> StageState, revise_task |-> PlanningState]
Reserved == {"continue_stage", "revise_task"}

\* What a run offers whose only waits are stage waits.
StageOffers == {Offer}

\* The snapshot a controller compares its result with.
Document ==
  [revision |-> revision, status |-> status, phase |-> phase,
   cursor |-> cursor, executions |-> executions, transitions |-> transitions,
   generations |-> generations, task_revisions |-> task_revisions,
   plan_revisions |-> plan_revisions, grants |-> grants, waits |-> waits,
   outcome |-> outcome]

NoOutcome == <<None, FALSE, None>>

Idle == [kind |-> "none"]
Answers == {"none", "done", "rejected", "failed", "invalid_result"}

InitControlled ==
  /\ Init
  /\ published = <<>>
  /\ call = Idle
  /\ answer = "none"
  /\ faults = 0

-----------------------------------------------------------------------------
(* Steps of a controller call.                                             *)

\* A command is started with its arguments; base is the snapshot it reads, and
\* inner the snapshot of the nested controller that runs.
Begin(kind, arguments) ==
  /\ call = Idle
  /\ call' = [kind |-> kind, step |-> "start", args |-> arguments,
              base |-> Document, inner |-> None]
  /\ answer' = "none"
  /\ UNCHANGED <<vars, published, faults>>

At(step) == call # Idle /\ call.step = step
Running(kind, step) == At(step) /\ call.kind = kind

GoTo(step) == call' = [call EXCEPT !.step = step] /\ UNCHANGED answer
Finish(how) == call' = Idle /\ answer' = how

\* A step that writes nothing.
Skip(step) == GoTo(step) /\ UNCHANGED <<vars, published, faults>>
Rest(how) == Finish(how) /\ UNCHANGED <<vars, published, faults>>

\* A verified step: the snapshot becomes the base of the next comparison.
Verified(holds, step) ==
  /\ IF holds THEN /\ call' = [call EXCEPT !.step = step, !.base = Document]
                   /\ UNCHANGED answer
              ELSE Finish("invalid_result")
  /\ UNCHANGED <<vars, published, faults>>

\* The same, for the snapshot a nested controller goes on with.
VerifiedInner(holds, step) ==
  /\ IF holds THEN /\ call' = [call EXCEPT !.step = step, !.inner = Document]
                   /\ UNCHANGED answer
              ELSE Finish("invalid_result")
  /\ UNCHANGED <<vars, published, faults>>

\* A write-once publication; a failed one may or may not have arrived.
Fits(place, content) == place \in DOMAIN published => published[place] = content
Publish(place, content, step) ==
  \/ /\ Fits(place, content)
     /\ published' = (place :> content) @@ published
     /\ GoTo(step)
     /\ UNCHANGED <<vars, faults>>
  \/ /\ ~Fits(place, content)
     /\ Rest("rejected")
  \/ /\ Fits(place, content) /\ faults < MaxFaults
     /\ faults' = faults + 1
     /\ Finish("failed")
     /\ published' \in {published, (place :> content) @@ published}
     /\ UNCHANGED vars

\* A dispatched command commits, is not committed, is committed although its
\* confirmation failed, or is refused by the reducer.
Dispatch(Command, step) ==
  \/ /\ Command
     /\ GoTo(step)
     /\ UNCHANGED <<published, faults>>
  \/ /\ faults < MaxFaults
     /\ faults' = faults + 1
     /\ Finish("failed")
     /\ Command \/ UNCHANGED vars
     /\ UNCHANGED published
  \/ /\ ~ENABLED Command
     /\ Rest("rejected")

\* The process dies between two steps.
Die ==
  /\ call # Idle
  /\ faults < MaxFaults
  /\ faults' = faults + 1
  /\ Finish("failed")
  /\ UNCHANGED <<vars, published>>

-----------------------------------------------------------------------------
(* The runner: executions, transitions and the entry of a wait.            *)

Runner(Command) == call = Idle /\ Command /\ UNCHANGED controlled

LatestTask(t) ==
  task_revisions[CHOOSE k \in DOMAIN task_revisions :
                   /\ task_revisions[k].task_id = t
                   /\ \A l \in DOMAIN task_revisions :
                        task_revisions[l].task_id = t => l <= k]
BoundTask ==
  IF LastExecution.execution_role # "stage" \/ TaskIds = {} THEN None
  ELSE LET record == LatestTask(CHOOSE t \in TaskIds : TRUE)
       IN  [task_id |-> record.task_id, revision |-> record.revision,
            sha256 |-> record.sha256]

FreshId == CHOOSE id \in SessionIds : id \notin DurableSessionIds

RunsExecution ==
  \/ /\ cursor.current_state = PlanningState
     /\ ~HasOpenIteration
     /\ StartExecution("agent", PlanningState, "planning", None)
  \/ /\ cursor.current_state = StageState
     /\ HasOpenIteration
     /\ StartExecution("agent", StageState, "stage",
                       Len(OpenGeneration.iterations))
  \/ executions # <<>> /\ AgentDataPrepared(BoundTask)
  \/ AgentExecutionSessionCreated(FreshId)
  \/ AgentToolSessionCreated(FreshId)
  \/ AgentRunning
  \/ \E log \in WorkerLogs : AgentOutputsAccepted(log)
  \/ AgentCleanupCompleted

\* A planning execution is bound by the handoff, a stage execution here.
BindsExecution ==
  /\ executions # <<>>
  /\ LastExecution.execution_role = "stage"
  /\ TransitionCommitted("completed", PlanningState)

WaitPlace(w) == <<"request", w>>
NextRequest == <<"request", cursor.transition_count>>

\* The planning state is entered again while the iteration is still open.
AtReview ==
  /\ cursor.current_state = PlanningState
  /\ HasOpenIteration
  /\ status = "active"
  /\ AllBound /\ AllSettled

\* Entering a wait: the request is published before the record names it.
PublishRequest ==
  /\ call = Idle
  /\ AtReview
  /\ Len(waits) < MaxWaits
  /\ WaitPlace(Len(waits) + 1) \notin DOMAIN published
  /\ published' = (WaitPlace(Len(waits) + 1) :> NextRequest) @@ published
  /\ UNCHANGED <<vars, call, answer, faults>>

EntersWait ==
  /\ AtReview
  /\ WaitPlace(Len(waits) + 1) \in DOMAIN published
  /\ RunWaiting(PlanningState, published[WaitPlace(Len(waits) + 1)], Offer)

RunnerStep ==
  \/ Runner(RunsExecution)
  \/ Runner(BindsExecution)
  \/ Runner(EntersWait)
  \/ PublishRequest

-----------------------------------------------------------------------------
(* recordPipelineV2WaitAction: the answer of a wait, from the generic       *)
(* response command and as the last step of an intervention.               *)

ResponsePlace(w) == <<"response", w>>

\* The wait named by the answer exists, an open one is the last one, and its
\* published request still is the one the record binds.
AnswerableWait(w) ==
  /\ w \in DOMAIN waits
  /\ waits[w].response = None => w = Len(waits)
  /\ Fits(WaitPlace(w), waits[w].request)

\* A repeated answer is adopted, a different one is a conflict, a fresh one is
\* published and then recorded.
Answer(w, action, step, next) ==
  \/ ~AnswerableWait(w) /\ Rest("rejected")
  \/ /\ AnswerableWait(w) /\ waits[w].response # None
     /\ IF waits[w].response = action
        THEN Publish(ResponsePlace(w), action, next)
        ELSE Rest("rejected")
  \/ /\ AnswerableWait(w) /\ waits[w].response = None
     /\ IF action \in DOMAIN waits[w].actions
        THEN Publish(ResponsePlace(w), action, step)
        ELSE Rest("rejected")

RecordAnswer(w, action, next) ==
  Dispatch(WaitResponseRecorded(w, waits[w].request, action), next)

\* orchestrator respond: every action a stage wait offers has a command of its
\* own, and the generic one refuses it before anything is published.
BeginRespond(w, action) == Begin("respond", [wait |-> w, action |-> action])

RespondStep ==
  /\ Running("respond", "start")
  /\ call.args.action \in Reserved
  /\ Rest("rejected")
=============================================================================
