-------------------------- MODULE StageTransition --------------------------
(***************************************************************************)
(* The transition out of a settled planning execution into the stage its    *)
(* plan opened: applyPipelineV2StageTransitionCommit and the bindings its    *)
(* two callers require, for the first stage of a run and for the stage of a *)
(* revised plan.  c0 commits, c1 finds the transition committed.            *)
(***************************************************************************)
EXTENDS StageIteration

Unbound == Len(executions) = Len(transitions) + 1
Bound == Len(executions) = Len(transitions)

\* The newest generation is the accepted plan's and its first iteration is open
\* at the anchor.
OpenedAt(anchor) ==
  /\ HasOpenIteration
  /\ SameGeneration
  /\ OpenGeneration.opened = anchor
  /\ OpenGeneration.iterations = <<[opened |-> anchor, closed |-> None]>>

\* The settled planning execution the last plan was taken from.
SettledOrigin ==
  /\ Latest(plan_revisions).origin_execution = Len(executions)
  /\ LastExecution.type = "agent"
  /\ LastExecution.execution_role = "planning"
  /\ LastExecution.phase = "cleanup_completed"

\* The cursor still at the execution's state, or at the target of its transition.
CommittedForm(from, anchor) ==
  \/ /\ Unbound /\ Len(transitions) = anchor
     /\ cursor = [current_state |-> from, transition_count |-> anchor]
  \/ /\ Bound /\ Len(transitions) = anchor + 1
     /\ cursor = [current_state |-> StageState, transition_count |-> anchor + 1]
     /\ Latest(transitions) = [from |-> from, outcome |-> "completed",
                               to |-> StageState, execution_index |-> anchor + 1]

RunningUndecided == status = "active" /\ phase = "running" /\ Undecided

\* requireInitialTransitionBindings: the only plan, the only generation.
InitialTransitionBound ==
  /\ RunningUndecided
  /\ waits = <<>> /\ grants = <<>>
  /\ Len(plan_revisions) = 1 /\ Len(generations) = 1
  /\ SettledOrigin
  /\ OpenedAt(Len(executions) - 1)
  /\ CommittedForm(LastExecution.state_id, Len(executions) - 1)

\* requireTransitionBindings: the wait answered with revise_task and the plan
\* that follows the one it revised ...
RevisedWaitBound(w) ==
  /\ w = Len(waits)
  /\ waits[w].response = "revise_task"
  /\ waits[w].intent # None
  /\ Len(plan_revisions) > 1

\* ... the replaced generation, closed at the wait, and its successor.
ReplacedPair(w) ==
  LET old == generations[Len(generations) - 1]
      anchor == waits[w].transition_count
  IN  /\ Len(generations) > 1
      /\ old.plan_sha256 = plan_revisions[Len(plan_revisions) - 1].sha256
      /\ old.closed = [count |-> anchor]
      /\ Latest(old.iterations).closed =
           [by |-> "replanned", wait_index |-> w, count |-> anchor]
      /\ OpenedAt(anchor)

ReplannedTransitionBound(w) ==
  /\ RunningUndecided
  /\ RevisedWaitBound(w)
  /\ ReplacedPair(w)
  /\ SettledOrigin
  /\ LastExecution.state_id = waits[w].actions["revise_task"]
  /\ CommittedForm(waits[w].actions["revise_task"], waits[w].transition_count)

\* The precheck of the command is the reducer's; a committed transition is
\* found, never repeated.
CommitTransition(bound, next) ==
  \/ ~bound /\ Rest("rejected")
  \/ bound /\ Bound /\ Skip(next)
  \/ bound /\ Unbound /\ Dispatch(TransitionCommitted("completed", StageState), next)

\* transitionAppliedExactly: one transition more, bound to the execution, the
\* cursor at its target ...
TransitionAppended(before, after) ==
  LET added == Len(after.transitions) - Len(before.transitions)
      last == before.executions[Len(before.executions)]
  IN  /\ added \in {0, 1}
      /\ after.revision = before.revision + added
      /\ SubSeq(after.transitions, 1, Len(before.transitions)) = before.transitions
      /\ Latest(after.transitions) =
           [from |-> last.state_id, outcome |-> "completed", to |-> StageState,
            execution_index |-> Len(before.executions)]
      /\ after.cursor = [current_state |-> StageState,
                         transition_count |-> Len(before.executions)]

\* ... and nothing else: no execution, generation or wait moved.
TransitionOnly(before, after) ==
  Unchanged(before, after, {"revision", "cursor", "transitions"})
=============================================================================
