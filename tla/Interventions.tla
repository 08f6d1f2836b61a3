--------------------------- MODULE Interventions ---------------------------
(***************************************************************************)
(* The commands an operator gives a waiting run, composed: continue-stage,  *)
(* revise-task, respond and resume-plan over one run and its documents, in  *)
(* every order, each from the start after every failure and death.  The     *)
(* replanning loop closes here: stage, wait, intervention, planning, stage. *)
(***************************************************************************)
EXTENDS ContinueStage, ReviseTask, RunPlanHandoff

OperatorBegins ==
  \/ \E w \in DOMAIN waits, n \in Extensions : BeginContinue(w, n)
  \/ \E w \in DOMAIN waits, t \in TaskIds, b \in Bodies : BeginRevise(w, t, b)
  \/ \E w \in DOMAIN waits, a \in Reserved : BeginRespond(w, a)
  \/ executions # <<>> /\ BeginHandoff

CallStep == ContinueStep \/ ReviseStep \/ RespondStep \/ HandoffStep

InterventionsNext ==
  \/ OperatorBegins
  \/ CallStep
  \/ Die
  \/ RunnerStep

\* The command that an accepted intent, or a plan-ready run, waits for.
RetryOwn ==
  \/ /\ waits # <<>> /\ OpenWait.intent # None
     /\ \/ /\ OpenWait.intent.kind = "continue_stage_intent"
           /\ BeginContinue(Len(waits), OpenWait.intent.additional)
        \/ /\ OpenWait.intent.kind = "revise_task_intent"
           /\ BeginRevise(Len(waits), OpenWait.intent.task_id,
                          OpenWait.intent.new.body)
\* The automatic continuation of a plan-ready run.
ContinuePlanReady == SettledPlanning /\ Unbound /\ BeginHandoff

\* A started call goes on, and an operator whose command failed repeats it.
InterventionsFairness ==
  /\ WF_allVars(CallStep)
  /\ SF_allVars(RetryOwn)
  /\ SF_allVars(ContinuePlanReady)

InterventionsSpec ==
  /\ InitControlled
  /\ [][InterventionsNext]_allVars
  /\ InterventionsFairness

-----------------------------------------------------------------------------
(* Safety.                                                                 *)

\* Whatever the document names by its digest was published before: a restored
\* run finds the request, the intent, the answer, every task and every plan.
NamedDocumentsPublished ==
  /\ \A w \in DOMAIN waits :
       /\ Holds(WaitPlace(w), waits[w].request)
       /\ waits[w].intent # None => Holds(IntentPlace(w), waits[w].intent)
       /\ waits[w].response # None => Holds(ResponsePlace(w), waits[w].response)
  /\ \A k \in DOMAIN task_revisions :
       Holds(TaskPlace(task_revisions[k].task_id, task_revisions[k].revision),
             task_revisions[k].sha256)
  /\ \A p \in DOMAIN plan_revisions : Holds(PlanPlace(p), plan_revisions[p].sha256)

\* However often a command is repeated, a wait has one effect: one grant and
\* one new iteration, or one revised task and one replacing generation.
OneEffectPerWait ==
  \A w \in DOMAIN waits :
    LET count == waits[w].transition_count
        At_(g) == {i \in DOMAIN generations[g].iterations :
                     generations[g].iterations[i].opened >= count
                     /\ (w < Len(waits) => generations[g].iterations[i].opened
                                             < waits[w + 1].transition_count)}
        granted == {k \in DOMAIN grants : grants[k].wait_index = w}
        revised == {k \in DOMAIN task_revisions : task_revisions[k].wait_index = w}
    IN  /\ Cardinality(granted) + Cardinality(revised) <= 1
        /\ Cardinality(UNION {{<<g, i>> : i \in At_(g)} : g \in DOMAIN generations}) <= 1
        /\ waits[w].response = "continue_stage" => granted # {}
        /\ waits[w].response = "revise_task" => revised # {}

\* No legal sequence of commands, failures and deaths makes a controller
\* mistrust a result of its own: the comparison of a result with its base
\* accepts every suffix an earlier attempt left and the call completed.
ResultsRecognized == answer # "invalid_result"

ChainsSound == NamedDocumentsPublished /\ OneEffectPerWait /\ ResultsRecognized

\* Between any two steps the document is one the loader accepts, so a new
\* process can always open it.
ControlledLoads == LoaderAccepts

-----------------------------------------------------------------------------
(* What a rejected and a foreign command may not do.                       *)

\* The call repeats the intent its wait accepted, and the command's effect is
\* not complete or nothing has run since.
OwnIntent ==
  /\ waits # <<>> /\ OpenWait.intent # None
  /\ \/ call.kind = "continue_stage" /\ C = OpenWait.intent
     \/ /\ call.kind = "revise_task"
        /\ OpenWait.intent.kind = "revise_task_intent"
        /\ call.args = [wait |-> OpenWait.intent.wait,
                        task |-> OpenWait.intent.task_id,
                        body |-> OpenWait.intent.new.body]
StillAtWait ==
  /\ Len(executions) = OpenWait.transition_count
  /\ OpenWait.response \in {None, "continue_stage", "revise_task"}

\* Repeating an accepted intervention is never refused while nothing has run
\* since its wait, wherever the previous attempts stopped.
OwnRetryAdmitted ==
  [][answer' = "rejected" /\ answer # "rejected" /\ call # Idle
       => ~(OwnIntent /\ StillAtWait)]_allVars

\* A command with another intent than the one the wait accepted leaves the
\* run and its documents as they are.
ForeignIntentInert ==
  [][/\ call.kind \in {"continue_stage", "revise_task"}
     /\ waits # <<>> /\ OpenWait.intent # None
     /\ ~OwnIntent
     => UNCHANGED <<vars, published>>]_allVars

\* The documents of the chains and the document of the run agree after every step
\* of every attempt, and the run can be opened there.
InterventionsSound == ChainsSound /\ ControlledLoads

\* A repeated command is told apart from a foreign one: the first is let through to
\* its end, the second leaves everything as it is.
RetriesSound == OwnRetryAdmitted /\ ForeignIntentInert

-----------------------------------------------------------------------------
(* Progress.                                                               *)

Accepted(w) ==
  /\ status = "waiting" /\ w = Len(waits)
  /\ waits[w].intent # None
Completed(w) ==
  /\ w \in DOMAIN waits
  /\ \/ waits[w].response = "continue_stage" /\ HasOpenIteration
     \/ waits[w].response = "revise_task"

\* An accepted intervention that its operator repeats completes, whatever
\* finite number of calls fail or die in between; and a settled planning
\* execution whose proposal fits the ledgers is handed to its stage.
PlanAwaitsHandoff(e) ==
  /\ Len(executions) = e /\ Unbound /\ SettledPlanning
  /\ (LastExecution.worker_log = "new") = (waits = <<>>)
InterventionsComplete ==
  /\ \A w \in 1..MaxWaits : Accepted(w) ~> Completed(w)
  /\ \A e \in 1..MaxTransitions : PlanAwaitsHandoff(e) ~> Len(transitions) >= e
=============================================================================
