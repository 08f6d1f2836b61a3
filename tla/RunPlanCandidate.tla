-------------------------- MODULE RunPlanCandidate --------------------------
(***************************************************************************)
(* The run plan a planning execution proposes: constructed from the          *)
(* proposal and the ledgers, verified, published, recorded.  A proposal names *)
(* tasks by id only and brings the bodies of the new ones, so a plan always  *)
(* points at the latest revisions; a plan that was already published for the *)
(* execution is found again and must be the proposal's.                      *)
(*                                                                         *)
(* Abstracted data: the execution's worker log stands for its proposal,     *)
(* "new" with a body for every task, "pointers" with none.                  *)
(***************************************************************************)
EXTENDS StageIteration

TaskPlace(t, r) == <<"task", t, r>>
TaskManifest(t, r, body, previous) ==
  [task |-> t, revision |-> r, body |-> body, previous |-> previous]

Holds(place, content) ==
  place \in DOMAIN published /\ published[place] = content

TaskRecords(t) == {k \in DOMAIN task_revisions : task_revisions[k].task_id = t}
LatestSha(t) == LatestTask(t).sha256

Origin == Len(executions)
ProposesNew == executions[Origin].worker_log = "new"
RootTask(t) == TaskManifest(t, 1, FirstBody, None)

-----------------------------------------------------------------------------
(* constructPipelineV2RunPlanCandidateFromProposal.                        *)

\* The plan of this execution if it is recorded, else the one after the last;
\* its base is the plan before it.
OfOrigin == {p \in DOMAIN plan_revisions : plan_revisions[p].origin_execution = Origin}
TargetRevision ==
  IF OfOrigin # {} THEN Len(plan_revisions) ELSE Len(plan_revisions) + 1
BaseDigest ==
  IF TargetRevision = 1 THEN None ELSE plan_revisions[TargetRevision - 1].sha256

OriginReadable ==
  OfOrigin \subseteq {Len(plan_revisions)}

\* The documents of the base plan and of the tasks it keeps.
BaseLoads == TargetRevision > 1 => PlanPlace(TargetRevision - 1) \in DOMAIN published
TaskLoads(t) ==
  TaskRecords(t) # {} =>
    /\ TaskPlace(t, LatestTaskRevision(t)) \in DOMAIN published
    /\ LatestTaskRevision(t) > 1
         => TaskPlace(t, LatestTaskRevision(t) - 1) \in DOMAIN published

PlanManifest(tasks) ==
  [revision |-> TargetRevision, origin |-> Origin, previous |-> BaseDigest,
   tasks |-> tasks]

\* freshConstruction: a task is either new or known, never both or neither.
FreshPlan ==
  PlanManifest([t \in TaskIds |->
                  IF TaskRecords(t) = {} THEN RootTask(t) ELSE LatestSha(t)])
FreshConstructs ==
  /\ OfOrigin = {}
  /\ \A t \in TaskIds : ProposesNew <=> TaskRecords(t) = {}
  /\ BaseLoads
  /\ \A t \in TaskIds : TaskLoads(t)

\* anchoredRetryConstruction: the published plan is of this execution, follows
\* the same base and carries the proposal's new tasks, or tasks still durable.
AnchoredPlan == published[PlanPlace(TargetRevision)]
AnchoredTask(t) ==
  LET pointer == AnchoredPlan.tasks[t]
      records == {k \in TaskRecords(t) : task_revisions[k].revision = pointer.revision}
  IN  /\ Holds(TaskPlace(t, pointer.revision), pointer)
      /\ IF ProposesNew
         THEN /\ pointer = RootTask(t)
              /\ \A k \in records : task_revisions[k].sha256 = pointer
         ELSE \E k \in records : task_revisions[k].sha256 = pointer
AnchoredConstructs ==
  /\ AnchoredPlan.origin = Origin
  /\ AnchoredPlan.previous = BaseDigest
  /\ BaseLoads
  /\ \A t \in TaskIds : AnchoredTask(t)

PlanCandidate ==
  IF PlanPlace(TargetRevision) \in DOMAIN published THEN AnchoredPlan ELSE FreshPlan

CandidateConstructs ==
  /\ OriginReadable
  /\ IF PlanPlace(TargetRevision) \in DOMAIN published
     THEN AnchoredConstructs ELSE FreshConstructs

-----------------------------------------------------------------------------
(* acceptPipelineV2RunPlanCandidateCore.                                   *)

\* reconcileCandidate, the tasks: a durable one is the candidate's, at its
\* latest revision; a missing one is a first revision.
TaskReconciles(t, pointer) ==
  IF TaskRecords(t) = {} THEN pointer.revision = 1
  ELSE pointer.revision = LatestTaskRevision(t) /\ LatestSha(t) = pointer

\* ... the plan: the recorded one with nothing missing, or the next one.
PlanReconciles(plan) ==
  IF plan.revision \in DOMAIN plan_revisions
  THEN /\ plan.revision = Len(plan_revisions)
       /\ plan_revisions[plan.revision] =
            [sha256 |-> plan, origin_execution |-> plan.origin]
       /\ \A t \in TaskIds : TaskRecords(t) # {}
  ELSE /\ plan.revision = Len(plan_revisions) + 1
       /\ plan.previous =
            (IF plan_revisions = <<>> THEN None ELSE AcceptedPlan)

Construct(kind, next) ==
  /\ Running(kind, "accept")
  /\ IF /\ CandidateConstructs
        /\ \A t \in TaskIds : TaskReconciles(t, PlanCandidate.tasks[t])
        /\ PlanReconciles(PlanCandidate)
     THEN Skip(next) ELSE Rest("rejected")

\* publishPreparedRunPlanCandidate: every task that is not there, then the plan.
Unpublished ==
  {t \in TaskIds : ~Holds(TaskPlace(t, PlanCandidate.tasks[t].revision),
                          PlanCandidate.tasks[t])}

PublishCandidate(kind, step, next) ==
  /\ Running(kind, step)
  /\ IF Unpublished # {}
     THEN LET t == CHOOSE t \in Unpublished : TRUE IN
          Publish(TaskPlace(t, PlanCandidate.tasks[t].revision),
                  PlanCandidate.tasks[t], step)
     ELSE Publish(PlanPlace(PlanCandidate.revision), PlanCandidate, next)

\* One command per missing record, the plan last.
RecordCandidate(kind, step, next) ==
  LET plan == PlanCandidate
      missing == {t \in TaskIds : TaskRecords(t) = {}}
  IN  /\ Running(kind, step)
      /\ IF missing # {}
         THEN LET t == CHOOSE t \in missing : TRUE IN
              Dispatch(TaskRevisionAccepted(t, 1, plan.tasks[t], None, None), step)
         ELSE IF plan.revision \in DOMAIN plan_revisions
              THEN Skip(next)
              ELSE Dispatch(PlanRevisionAccepted(plan.revision, plan, plan.origin),
                            next)

\* recordPresent, verifyAcceptedResult, verifyAcceptanceResult: the candidate is
\* the plan the document ends with, every task it points at is recorded, and
\* nothing but the two ledgers moved.
AcceptedResult(before, after) ==
  LET last == Latest(after.plan_revisions) IN
  /\ last.sha256 = AnchoredPlan
  /\ last.origin_execution = Len(after.executions)
  /\ \A t \in TaskIds : \E k \in DOMAIN after.task_revisions :
       after.task_revisions[k].sha256 = last.sha256.tasks[t]
  /\ Unchanged(before, after, {"revision", "task_revisions", "plan_revisions"})

\* restorePipelineV2AcceptedRunPlan and verifyRestoreResult: the last plan and
\* the tasks it points at load, and are what the ledgers name.
RestoredPlan ==
  /\ Holds(PlanPlace(Len(plan_revisions)), AcceptedPlan)
  /\ \A t \in TaskIds :
       Holds(TaskPlace(t, AcceptedPlan.tasks[t].revision), AcceptedPlan.tasks[t])
=============================================================================
