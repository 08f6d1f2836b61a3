--------------------------- MODULE RunPlanHandoff ---------------------------
(***************************************************************************)
(* The handoff from a planning execution to its stage (orchestrator          *)
(* resume-plan and the automatic continuation of a run that is plan ready): *)
(* accept the run plan the execution proposed, open the stage of the plan,   *)
(* the first one or the one that replaces a revised stage, and commit the   *)
(* planning execution's transition into it.  A retry finds any prefix of     *)
(* these durable; once the transition is, the plan is restored instead.     *)
(***************************************************************************)
EXTENDS RunPlanCandidate, ReplannedStage

BeginHandoff == Begin("resume_plan", None)

-----------------------------------------------------------------------------
(* classifyHandoffBoundary.                                                *)

ReplannedClosures(d) ==
  {<<g, i>> \in (DOMAIN d.generations) \X (1..MaxSafeInteger) :
     /\ i \in DOMAIN d.generations[g].iterations
     /\ d.generations[g].iterations[i].closed # None
     /\ d.generations[g].iterations[i].closed.by = "replanned"}

\* isInitialHandoffBoundary.
InitialBoundary(d) ==
  d.waits = <<>> /\ d.grants = <<>> /\ ReplannedClosures(d) = {}

SettledPlanning ==
  /\ executions # <<>>
  /\ LastExecution.type = "agent"
  /\ LastExecution.execution_role = "planning"
  /\ LastExecution.iteration_index = None
  /\ LastExecution.phase = "cleanup_completed"

\* targetWaitOf: the wait of the newest replanned closure, the last wait of the
\* run, answered with revise_task; 0 without one.
NewestClosure(d) ==
  CHOOSE c \in ReplannedClosures(d) : \A o \in ReplannedClosures(d) : o[1] <= c[1]
TargetWait(d) ==
  IF ReplannedClosures(d) = {} THEN 0
  ELSE LET c == NewestClosure(d)
           w == d.generations[c[1]].iterations[c[2]].closed.wait_index
       IN  IF /\ w = Len(d.waits)
              /\ d.waits[w].response = "revise_task"
              /\ d.waits[w].intent # None
           THEN w ELSE 0

\* previousGenerationIndexOf.
PreviousGeneration(d) == NewestClosure(d)[1]

\* A transition was committed: it binds the last execution, the cursor is at its
\* target, and the newest generation has an open iteration.
TransitionBound ==
  /\ Bound
  /\ Latest(transitions).execution_index = Len(executions)
  /\ cursor.current_state = Latest(transitions).to
  /\ HasOpenIteration

\* The four branches, by the history and by whether the transition is durable.
HandoffBranch ==
  CASE ~(RunningUndecided /\ SettledPlanning) -> "none"
    [] InitialBoundary(Document) ->
         (CASE Unbound /\ LastExecution.state_id = cursor.current_state -> "initial_a"
            [] TransitionBound /\ Len(generations) = 1 -> "initial_b"
            [] OTHER -> "none")
    [] TargetWait(Document) = 0 -> "none"
    [] Unbound /\ LastExecution.state_id = cursor.current_state -> "branch_a"
    [] TransitionBound -> "branch_b"
    [] OTHER -> "none"

ClassifyHandoff ==
  /\ Running("resume_plan", "start")
  /\ CASE HandoffBranch \in {"initial_a", "branch_a"} -> Skip("accept")
       [] HandoffBranch \in {"initial_b", "branch_b"} -> Skip("restore")
       [] OTHER -> Rest("rejected")

-----------------------------------------------------------------------------
(* The accepted or restored plan.                                          *)

AcceptPlan ==
  \/ Construct("resume_plan", "publish")
  \/ PublishCandidate("resume_plan", "publish", "record")
  \/ RecordCandidate("resume_plan", "record", "accepted")

\* verifyIntentWrapper: a replanned stage needs the wait's intent document.
IntentLoads(d) ==
  LET w == TargetWait(d) IN Holds(ReviseIntentPlace(w), d.waits[w].intent)

VerifyPlan ==
  /\ Running("resume_plan", "accepted")
  /\ IF ~AcceptedResult(call.base, Document) THEN Rest("invalid_result")
     ELSE IF InitialBoundary(Document)
          THEN Verified(TRUE, "stage")
          ELSE IF IntentLoads(Document) THEN Verified(TRUE, "close")
               ELSE Rest("rejected")

\* Once the transition is committed the plan is only restored.
RestorePlan ==
  /\ Running("resume_plan", "restore")
  /\ IF ~RestoredPlan THEN Rest("rejected")
     ELSE IF InitialBoundary(Document) THEN Verified(TRUE, "stage")
          ELSE IF IntentLoads(Document) THEN Verified(TRUE, "transition")
               ELSE Rest("rejected")

-----------------------------------------------------------------------------
(* The stage.                                                              *)

CloseStage ==
  \/ /\ Running("resume_plan", "close")
     /\ CloseReplaced(TargetWait(Document), "closed")
  \/ /\ Running("resume_plan", "closed")
     /\ VerifiedInner(/\ ClosureApplied(call.base, Document, TargetWait(Document))
                      /\ CloseResult(Document, TargetWait(Document)), "stage")

EnsureStage ==
  /\ Running("resume_plan", "stage")
  /\ EnsureIteration("stage", "ensured")

\* verifyInitialStageResult: the plan's open generation, with its iteration.
InitialStageResult(d) ==
  LET new == Latest(d.generations) IN
  /\ new.plan_sha256 = AcceptedPlan
  /\ new.initial_budget = InitialBudget
  /\ new.closed = None
  /\ HasOpenIn(d)

\* verifyStageResult, for a replanned stage: opened at the wait, after the
\* generation the wait's closure is in.
ReplannedStageResult(d) ==
  /\ InitialStageResult(d)
  /\ Latest(d.generations).opened = d.waits[TargetWait(d)].transition_count
  /\ PreviousGeneration(d) = Len(d.generations) - 1

VerifyStage ==
  /\ Running("resume_plan", "ensured")
  /\ IF InitialBoundary(Document)
     THEN Verified(InitialStageResult(Document), "transition")
     ELSE Verified(/\ EnsureRegion(call.inner, Document)
                   /\ ReplannedGeneration(call.inner, Document, TargetWait(Document))
                   /\ ReplannedStageResult(Document), "transition")

-----------------------------------------------------------------------------
(* The transition.                                                         *)

OpenInitialTransition ==
  /\ InitialBoundary(Document)
  /\ CommitTransition(InitialTransitionBound, "opened")
OpenReplannedTransition ==
  /\ ~InitialBoundary(Document)
  /\ CommitTransition(ReplannedTransitionBound(TargetWait(Document)), "opened")
OpenTransition ==
  /\ Running("resume_plan", "transition")
  /\ OpenInitialTransition \/ OpenReplannedTransition

\* verifyInitialTransitionResult.
InitialTransitionResult(d) ==
  LET new == Latest(d.generations) IN
  /\ InitialStageResult(d)
  /\ new.opened = Len(d.transitions) - 1
  /\ d.cursor.current_state = StageState

\* verifyTransitionResult.
ReplannedTransitionResult(d) ==
  /\ ReplannedStageResult(d)
  /\ Latest(d.transitions).execution_index = Len(d.executions)

VerifyTransition ==
  /\ Running("resume_plan", "opened")
  /\ Verified(/\ TransitionAppended(call.base, Document)
              /\ TransitionOnly(call.base, Document)
              /\ IF InitialBoundary(Document)
                 THEN InitialTransitionResult(Document)
                 ELSE ReplannedTransitionResult(Document), "resume")

-----------------------------------------------------------------------------
(* What the resumed run starts from: verifyHandoffStateBoundary.            *)

\* The last transition binds the settled planning execution.
ResumedCursor(d) ==
  LET last == Latest(d.transitions)  execution == Latest(d.executions) IN
  /\ d.status = "active" /\ d.phase = "running" /\ d.outcome = NoOutcome
  /\ d.cursor = [current_state |-> last.to, transition_count |-> Len(d.transitions)]
  /\ Len(d.executions) = Len(d.transitions)
  /\ last.outcome = "completed"
  /\ last.execution_index = Len(d.executions)
  /\ execution.type = "agent" /\ execution.execution_role = "planning"
  /\ execution.phase = "cleanup_completed"
  /\ execution.state_id = last.from

\* ... into the newest generation, open at its last iteration.
ResumedGeneration(d) ==
  /\ Latest(d.generations).closed = None
  /\ HasOpenIn(d)
  /\ d.plan_revisions # <<>>
  /\ d.waits = <<>> => Len(d.generations) = 1

\* The replaced generation before it, closed with the wait that was answered.
ResumedReplacement(d) ==
  LET w == Len(d.waits)
      closure == Latest(d.generations[Len(d.generations) - 1].iterations).closed
      wait == d.waits[w]
  IN  /\ PreviousGeneration(d) = Len(d.generations) - 1
      /\ d.generations[Len(d.generations) - 1].closed = [count |-> closure.count]
      /\ closure.by = "replanned" /\ closure.wait_index = w
      /\ wait.transition_count = closure.count
      /\ wait.state_id = Latest(d.transitions).from
      /\ wait.response = "revise_task" /\ wait.intent # None
      /\ wait.actions["revise_task"] = Latest(d.transitions).from
      /\ Latest(d.generations).opened = wait.transition_count
      /\ Latest(Latest(d.generations).iterations).opened = wait.transition_count

ResumePlan ==
  /\ Running("resume_plan", "resume")
  /\ Rest(IF /\ ResumedCursor(Document) /\ ResumedGeneration(Document)
             /\ InitialBoundary(Document) \/ ResumedReplacement(Document)
          THEN "done" ELSE "invalid_result")

HandoffStep ==
  \/ ClassifyHandoff \/ AcceptPlan \/ VerifyPlan \/ RestorePlan
  \/ CloseStage \/ EnsureStage \/ VerifyStage
  \/ OpenTransition \/ VerifyTransition \/ ResumePlan
=============================================================================
