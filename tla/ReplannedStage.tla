--------------------------- MODULE ReplannedStage ---------------------------
(***************************************************************************)
(* openPipelineV2ReplannedStage: after the plan that follows a revised task  *)
(* is accepted, the generation the wait replaced is closed and one for the   *)
(* new plan opened.  A retry finds the old generation open (c0), closed (c1), *)
(* or closed and followed by the new one (c2).                              *)
(***************************************************************************)
EXTENDS StageTransition

ReviseIntentPlace(w) == <<"intent", w>>

-----------------------------------------------------------------------------
(* validateReplannedBoundary.                                              *)

\* replannedGenerationContext.
ReplacedIndex(d) ==
  LET last == Latest(d.generations) IN
  IF last.closed = None /\ last.plan_sha256 = Latest(d.plan_revisions).sha256
  THEN Len(d.generations) - 1 ELSE Len(d.generations)
ReplannedForm(d) ==
  CASE ReplacedIndex(d) = Len(d.generations) - 1 -> "c2"
    [] Latest(d.generations).closed = None -> "c0"
    [] OTHER -> "c1"

\* replannedOldGenerationAt: its last iteration was closed for this wait, and a
\* closed generation was closed at its boundary.
ReplacedByWait(d, w) ==
  LET old == d.generations[ReplacedIndex(d)]
      anchor == d.waits[w].transition_count
  IN  /\ d.generations # <<>> /\ ReplacedIndex(d) # 0
      /\ old.iterations # <<>>
      /\ Latest(old.iterations).closed =
           [by |-> "replanned", wait_index |-> w, count |-> anchor]
      /\ ReplannedForm(d) # "c0" => old.closed = [count |-> anchor]

\* replannedNewGenerationForm: no iteration, or the first one, at the wait.
SuccessorForm(d, w) ==
  LET new == Latest(d.generations)  anchor == d.waits[w].transition_count IN
  /\ new.opened = anchor
  /\ new.iterations \in {<<>>, <<[opened |-> anchor, closed |-> None]>>}

\* acceptedTaskRevisionOfWait: one record of the wait, the task's latest.
RevisedTask(d, w) ==
  LET bound == {k \in DOMAIN d.task_revisions : d.task_revisions[k].wait_index = w}
  IN  \E k \in bound :
        LET record == d.task_revisions[k] IN
        /\ bound = {k}
        /\ record.intent = d.waits[w].intent
        /\ record.sha256 = d.waits[w].intent.new
        /\ record.revision > 1
        /\ \A l \in DOMAIN d.task_revisions :
             d.task_revisions[l].task_id = record.task_id
               => d.task_revisions[l].revision <= record.revision

\* acceptedPlanBoundaries: the new plan follows the one the replaced generation
\* ran.
PlanFollows(d) ==
  /\ Len(d.plan_revisions) > 1
  /\ d.plan_revisions[Len(d.plan_revisions) - 1].sha256
       = d.generations[ReplacedIndex(d)].plan_sha256

\* compiledPlanCarriesRevisedTask.
PlanCarriesRevision(d, w) ==
  \A k \in DOMAIN d.task_revisions :
    d.task_revisions[k].wait_index = w =>
      Latest(d.plan_revisions).sha256.tasks[d.task_revisions[k].task_id]
        = d.task_revisions[k].sha256

\* planningExecutionBoundary: the unbound planning execution of the new plan, at
\* the state the wait's answer led to.
PlanningBoundary(d, w) ==
  LET last == Latest(d.executions)  wait == d.waits[w] IN
  /\ d.cursor = [current_state |-> wait.actions["revise_task"],
                 transition_count |-> wait.transition_count]
  /\ Len(d.transitions) = wait.transition_count
  /\ Len(d.executions) = Len(d.transitions) + 1
  /\ Latest(d.plan_revisions).origin_execution = Len(d.executions)
  /\ last.type = "agent" /\ last.execution_role = "planning"
  /\ last.phase = "cleanup_completed"
  /\ last.state_id = wait.actions["revise_task"]

AnsweredRevision(d, w) ==
  /\ d.status = "active" /\ d.phase = "running" /\ d.outcome = NoOutcome
  /\ w = Len(d.waits)
  /\ d.waits[w].intent # None
  /\ d.waits[w].response = "revise_task"

ReplannedBoundary(d, w) ==
  /\ AnsweredRevision(d, w)
  /\ RevisedTask(d, w)
  /\ ReplacedByWait(d, w)
  /\ ReplannedForm(d) = "c2" => SuccessorForm(d, w)
  /\ PlanFollows(d)
  /\ PlanCarriesRevision(d, w)
  /\ PlanningBoundary(d, w)

-----------------------------------------------------------------------------
(* closePipelineV2ReplannedGeneration and what its results must be.         *)

CloseReplaced(w, next) ==
  \/ ~ReplannedBoundary(Document, w) /\ Rest("rejected")
  \/ /\ ReplannedBoundary(Document, w)
     /\ IF ReplannedForm(Document) = "c0"
        THEN Dispatch(StageGenerationClosed(Len(generations)), next)
        ELSE Skip(next)

\* genRecordEquals for the target: the closure and nothing else.
ClosedAt(old, new, count) ==
  /\ old.closed = None
  /\ new = [old EXCEPT !.closed = [count |-> count]]

\* verifyAppliedClosure.
ClosureApplied(before, after, w) ==
  LET g == Len(before.generations) IN
  IF ReplannedForm(before) # "c0" THEN after = before
  ELSE /\ after.revision = before.revision + 1
       /\ Unchanged(before, after, {"revision", "generations"})
       /\ Len(after.generations) = g
       /\ SubSeq(after.generations, 1, g - 1) = SubSeq(before.generations, 1, g - 1)
       /\ ClosedAt(before.generations[g], after.generations[g],
                   before.waits[w].transition_count)

\* verifyCloseResult of the stage: the closed boundary is read again, c2-bare
\* and c2-open apart.
CloseResult(d, w) ==
  /\ ReplannedBoundary(d, w)
  /\ ReplannedForm(d) # "c0"

ClosedForm(d) ==
  CASE ReplannedForm(d) = "c1" -> "c1"
    [] Latest(d.generations).iterations = <<>> -> "c2-bare"
    [] OTHER -> "c2-open"

-----------------------------------------------------------------------------
(* verifyEnsureResult: the new generation, appended to the closed result.   *)

EnsureDelta(form) == CASE form = "c1" -> 2 [] form = "c2-bare" -> 1 [] OTHER -> 0

EnsureRegion(closed, after) ==
  /\ after.revision = closed.revision + EnsureDelta(ClosedForm(closed))
  /\ after.status = "active" /\ after.phase = "running"
  /\ Unchanged(closed, after, {"revision", "generations"})

ReplannedGeneration(closed, after, w) ==
  LET g == Len(closed.generations)
      new == Latest(after.generations)
      anchor == closed.waits[w].transition_count
  IN  /\ new.plan_sha256 = AcceptedPlan
      /\ new.initial_budget = InitialBudget
      /\ new.opened = anchor /\ new.closed = None
      /\ new.iterations = <<[opened |-> anchor, closed |-> None]>>
      /\ CASE ClosedForm(closed) = "c1" ->
                /\ Len(after.generations) = g + 1
                /\ SubSeq(after.generations, 1, g) = closed.generations
           [] ClosedForm(closed) = "c2-bare" ->
                /\ Len(after.generations) = g
                /\ SubSeq(after.generations, 1, g - 1)
                     = SubSeq(closed.generations, 1, g - 1)
           [] OTHER -> after.generations = closed.generations
=============================================================================
