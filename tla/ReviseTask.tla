----------------------------- MODULE ReviseTask -----------------------------
(***************************************************************************)
(* orchestrator revise-task: accept the intent to revise one task of the     *)
(* open stage together with the revised task, close the suspended iteration *)
(* as replanned and answer the wait with revise_task, which returns the run *)
(* to its planning state.  The outermost controller derives the intent from *)
(* the accepted plan and sorts a retry into the window it left off in.      *)
(***************************************************************************)
EXTENDS RunPlanCandidate

IntentOf(w) == <<"intent", w>>

ReviseIntent(w, t, previous, new) ==
  [kind |-> "revise_task_intent", wait |-> w, task_id |-> t,
   expected_previous |-> previous, new |-> new]

BeginRevise(w, t, body) ==
  Begin("revise_task", [wait |-> w, task |-> t, body |-> body])

-----------------------------------------------------------------------------
(* deriveIntervention: what the command means in the accepted plan.          *)

Plan == Latest(plan_revisions).sha256
Pointer == Plan.tasks[call.args.task]

\* The accepted plan is restored, the open generation runs it, it holds the task,
\* and the last wait, the named one, offers the revision.
Derivable ==
  /\ plan_revisions # <<>> /\ RestoredPlan
  /\ HasOpenGeneration /\ OpenGeneration.iterations # <<>>
  /\ BindsLastPlan(OpenGeneration.plan_sha256)
  /\ call.args.task \in DOMAIN Plan.tasks
  /\ call.args.wait \in DOMAIN waits /\ call.args.wait = Len(waits)
  /\ "revise_task" \in DOMAIN OpenWait.actions

Candidate ==
  TaskManifest(call.args.task, Pointer.revision + 1, call.args.body, Pointer)
Revision ==
  ReviseIntent(call.args.wait, call.args.task, Pointer, Candidate)

\* stepsOf.
Carried(d, intent) ==
  LET wait == d.waits[intent.wait]
      last == Latest(Latest(d.generations).iterations)
      revised == {k \in DOMAIN d.task_revisions :
                    d.task_revisions[k].wait_index = intent.wait}
  IN  {step \in {"intent", "task", "closure", "response"} :
         CASE step = "intent" -> wait.intent = intent
           [] step = "task" ->
                \E k \in revised :
                  /\ d.task_revisions[k].sha256 = intent.new
                  /\ d.task_revisions[k].intent = intent
           [] step = "closure" ->
                /\ last.closed # None
                /\ last.closed.by = "replanned"
                /\ last.closed.wait_index = intent.wait
           [] step = "response" -> wait.response = "revise_task"}

-----------------------------------------------------------------------------
(* classifyRetryWindow.                                                     *)

\* verifyProgressedPrefix: every step before the closure, and the task the wait
\* revised still is the latest.
ProgressedPrefix ==
  LET bound == {k \in DOMAIN task_revisions :
                  task_revisions[k].wait_index = call.args.wait}
  IN  /\ {"intent", "task"} \subseteq Carried(Document, Revision)
      /\ Cardinality(bound) = 1
      /\ LatestTaskRevision(call.args.task) = Candidate.revision

\* verifySkipAcceptanceGenerationExact: the open generation of the last plan,
\* without an open iteration.
SkipsAcceptance ==
  /\ HasOpenGeneration /\ ~HasOpenIteration
  /\ BindsLastPlan(OpenGeneration.plan_sha256)

NothingRanSince ==
  /\ Undecided
  /\ Len(transitions) = OpenWait.transition_count
  /\ Len(executions) = Len(transitions)

AcceptanceWindow ==
  /\ NothingRanSince
  /\ status = "waiting" /\ OpenWait.response = None
  /\ cursor.current_state = OpenWait.state_id
  /\ "closure" \notin Carried(Document, Revision)
  /\ HasOpenIteration

\* Mutant: a waiting run never is in the completion window.
CompletionOnceAnswered ==
  /\ NothingRanSince
  /\ {"closure", "response"} \subseteq Carried(Document, Revision)
  /\ status = "active"
  /\ SkipsAcceptance
  /\ ProgressedPrefix

CompletionWindow ==
  /\ NothingRanSince
  /\ "closure" \in Carried(Document, Revision)
  /\ IF status = "waiting"
     THEN OpenWait.response = None /\ cursor.current_state = OpenWait.state_id
     ELSE /\ status = "active"
          /\ "response" \in Carried(Document, Revision)
          /\ cursor.current_state = OpenWait.actions["revise_task"]
  /\ SkipsAcceptance
  /\ ProgressedPrefix

StartRevise ==
  /\ Running("revise_task", "start")
  /\ IF ~Derivable THEN Rest("rejected")
     ELSE \/ AcceptanceWindow /\ Skip("accept")
          \/ CompletionWindow /\ Skip("close")
          \/ ~AcceptanceWindow /\ ~CompletionWindow /\ Rest("rejected")

-----------------------------------------------------------------------------
(* acceptPipelineV2ReviseTaskIntent: the task document, the intent document, *)
(* the intent record, the task record.                                      *)

\* The pointer is durable and its document is there; the body differs.
CurrentTaskDurable ==
  /\ \E k \in DOMAIN task_revisions :
       /\ task_revisions[k].task_id = call.args.task
       /\ task_revisions[k].revision = Pointer.revision
       /\ task_revisions[k].sha256 = Pointer
  /\ TaskPlace(call.args.task, Pointer.revision) \in DOMAIN published

RecordsBeyond ==
  {k \in DOMAIN task_revisions :
     /\ task_revisions[k].task_id = call.args.task
     /\ task_revisions[k].revision >= Candidate.revision}

CandidateAdmissible ==
  \A k \in RecordsBeyond :
    /\ task_revisions[k].revision = Candidate.revision
    /\ task_revisions[k].sha256 = Candidate
    /\ task_revisions[k].wait_index = call.args.wait
    /\ task_revisions[k].intent = Revision

\* Mutant: the intent the wait already carries is not compared.
AcceptAnyIntent ==
  /\ Running("revise_task", "accept")
  /\ IF CurrentTaskDurable /\ call.args.body # Pointer.body
     THEN Publish(TaskPlace(call.args.task, Candidate.revision), Candidate,
                  "publish_intent")
     ELSE Rest("rejected")

AcceptRevise ==
  /\ Running("revise_task", "accept")
  /\ IF /\ OpenWait.intent \in {None, Revision}
        /\ CurrentTaskDurable
        /\ call.args.body # Pointer.body
        /\ CandidateAdmissible
        /\ RecordsBeyond # {} => OpenWait.intent = Revision
     THEN Publish(TaskPlace(call.args.task, Candidate.revision), Candidate,
                  "publish_intent")
     ELSE Rest("rejected")

PublishRevise ==
  /\ Running("revise_task", "publish_intent")
  /\ Publish(IntentOf(call.args.wait), Revision, "record_intent")

RecordReviseIntent ==
  /\ Running("revise_task", "record_intent")
  /\ IF OpenWait.intent = Revision
     THEN Skip("record_task")
     ELSE Dispatch(PlanIntentAccepted(call.args.wait, Revision), "record_task")

RecordRevisedTask ==
  /\ Running("revise_task", "record_task")
  /\ IF RecordsBeyond # {}
     THEN Skip("accepted")
     ELSE Dispatch(TaskRevisionAccepted(call.args.task, Candidate.revision,
                     Candidate, call.args.wait, Revision), "accepted")

-----------------------------------------------------------------------------
(* compareDelta: a result differs from its base in the allowed steps only.   *)

TasksDelta(before, after, intent, added) ==
  IF "task" \in added
  THEN after.task_revisions =
         Append(before.task_revisions,
           [task_id |-> intent.task_id, revision |-> intent.new.revision,
            sha256 |-> intent.new, wait_index |-> intent.wait, intent |-> intent])
  ELSE after.task_revisions = before.task_revisions

RevisedWaits(before, after, intent, added) ==
  LET w == intent.wait IN
  /\ Len(after.waits) = Len(before.waits)
  /\ \A v \in DOMAIN before.waits \ {w} : after.waits[v] = before.waits[v]
  /\ after.waits[w] =
       [before.waits[w] EXCEPT
          !.intent = IF "intent" \in added THEN intent ELSE @,
          !.response = IF "response" \in added THEN "revise_task" ELSE @]

RevisedGenerations(before, after, intent, added) ==
  LET g == Len(before.generations)
      its == before.generations[g].iterations
      closure == [by |-> "replanned", wait_index |-> intent.wait,
                  count |-> before.waits[intent.wait].transition_count]
  IN  after.generations =
        IF "closure" \in added
        THEN [before.generations EXCEPT
                ![g].iterations[Len(its)].closed = closure]
        ELSE before.generations

RevisedRevision(before, after, added) ==
  after.revision = before.revision + Cardinality(added)

ReviseDelta(before, after, intent, allowed) ==
  LET added == Carried(after, intent) \ Carried(before, intent) IN
  /\ Carried(before, intent) \subseteq Carried(after, intent)
  /\ added \subseteq allowed
  /\ RevisedRevision(before, after, added)
  /\ IF "response" \in added
     THEN after.status = "active" /\ after.phase = "running"
     ELSE after.status = before.status /\ after.phase = before.phase
  /\ after.cursor =
       [before.cursor EXCEPT
          !.current_state = IF "response" \in added THEN PlanningState ELSE @]
  /\ \A region \in {"executions", "transitions", "plan_revisions", "grants",
                    "outcome"} : after[region] = before[region]
  /\ TasksDelta(before, after, intent, added)
  /\ RevisedGenerations(before, after, intent, added)
  /\ RevisedWaits(before, after, intent, added)

\* verifyAcceptanceResult.
VerifyAccepted ==
  /\ Running("revise_task", "accepted")
  /\ Verified(/\ ReviseDelta(call.base, Document, Revision, {"intent", "task"})
              /\ {"intent", "task"} \subseteq Carried(Document, Revision),
              "close")

-----------------------------------------------------------------------------
(* applyPipelineV2ReviseTaskClosure.                                       *)

\* requireAcceptedTaskRecord: exactly one record of the wait, still the latest.
AcceptedTaskRecord(d) ==
  LET bound == {k \in DOMAIN d.task_revisions :
                  d.task_revisions[k].wait_index = call.args.wait}
  IN  \E k \in bound :
        /\ bound = {k}
        /\ d.task_revisions[k].sha256 = Candidate
        /\ d.task_revisions[k].intent = Revision
        /\ \A l \in DOMAIN d.task_revisions :
             d.task_revisions[l].task_id = call.args.task
               => d.task_revisions[l].revision <= d.task_revisions[k].revision

\* requireReviseClosureBindings, for a waiting and for an answered run.
ClosureBound ==
  /\ IF status = "waiting"
     THEN OpenWait.response = None /\ cursor.current_state = OpenWait.state_id
     ELSE /\ status = "active" /\ OpenWait.response = "revise_task"
          /\ cursor.current_state = OpenWait.actions["revise_task"]
  /\ OpenWait.intent = Revision
  /\ cursor.transition_count = OpenWait.transition_count
  /\ Len(transitions) = OpenWait.transition_count
  /\ Len(executions) = OpenWait.transition_count
  /\ HasOpenGeneration /\ BindsLastPlan(OpenGeneration.plan_sha256)

\* applyCompletedClosureRetry: an answered run must carry the closure.
CloseReplanned ==
  /\ Running("revise_task", "close")
  /\ IF ~(ClosureBound /\ AcceptedTaskRecord(Document)) THEN Rest("rejected")
     ELSE IF "closure" \in Carried(Document, Revision) THEN Skip("closed")
     ELSE IF status = "active" THEN Rest("rejected")
     ELSE Dispatch(StageIterationClosed(Len(generations),
                     Len(OpenGeneration.iterations), "replanned",
                     call.args.wait), "closed")

-----------------------------------------------------------------------------
(* completePipelineV2ReviseTask.                                           *)

RevisedBoundary(d, state) ==
  LET wait == d.waits[call.args.wait] IN
  /\ d.cursor = [current_state |-> state, transition_count |-> wait.transition_count]
  /\ Len(d.transitions) = wait.transition_count
  /\ Len(d.executions) = wait.transition_count

\* verifyClosureResultBeforeResponse: the wait, open or answered, at its boundary ...
ClosureWait(d) ==
  LET wait == d.waits[call.args.wait] IN
  /\ call.args.wait = Len(d.waits)
  /\ wait.intent = Revision
  /\ \/ /\ d.status = "waiting" /\ d.phase = "waiting" /\ wait.response = None
        /\ RevisedBoundary(d, wait.state_id)
     \/ /\ d.status = "active" /\ d.phase = "running"
        /\ wait.response = "revise_task"
        /\ RevisedBoundary(d, wait.actions["revise_task"])

\* ... and the closed iteration of the generation of the last plan.
ClosureIteration(d) ==
  LET gen == Latest(d.generations) IN
  /\ gen.closed = None
  /\ gen.plan_sha256 = Latest(d.plan_revisions).sha256
  /\ gen.iterations # <<>>
  /\ Latest(gen.iterations).closed =
       [by |-> "replanned", wait_index |-> call.args.wait,
        count |-> d.waits[call.args.wait].transition_count]

\* verifyClosureResultAgainstDurable holds by the comparison with the document.
VerifyClosure ==
  /\ Running("revise_task", "closed")
  /\ VerifiedInner(/\ ClosureWait(Document) /\ ClosureIteration(Document)
                   /\ AcceptedTaskRecord(Document), "respond")

Respond ==
  \/ /\ Running("revise_task", "respond")
     /\ Answer(call.args.wait, "revise_task", "record_response", "responded")
  \/ /\ Running("revise_task", "record_response")
     /\ RecordAnswer(call.args.wait, "revise_task", "responded")

\* verifyResponseResult: the wait's answer and the cursor moved, and nothing the
\* closure left.
RevisedResponse(before, after) ==
  LET w == call.args.wait
      answered == [before.waits EXCEPT ![w].response = "revise_task"]
  IN  /\ after.waits = answered
      /\ after.status = "active" /\ after.phase = "running"
      /\ RevisedBoundary(after, before.waits[w].actions["revise_task"])
      /\ after.revision = before.revision + (IF before.status = "waiting" THEN 1 ELSE 0)
      /\ Unchanged(before, after, {"revision", "status", "phase", "cursor", "waits"})

VerifyResponse ==
  /\ Running("revise_task", "responded")
  /\ IF RevisedResponse(call.inner, Document)
     THEN Skip("completed") ELSE Rest("invalid_result")

\* verifyCompletionResult of the intervention.
VerifyRevised ==
  /\ Running("revise_task", "completed")
  /\ Verified(/\ ReviseDelta(call.base, Document, Revision,
                             {"closure", "response"})
              /\ Carried(Document, Revision)
                   = {"intent", "task", "closure", "response"}, "resume")

-----------------------------------------------------------------------------
(* What the resumed run starts from: verifyHandoffBoundary.                 *)

\* The answered wait at its boundary ...
RevisionHandoff(d) ==
  LET wait == d.waits[call.args.wait] IN
  /\ d.status = "active" /\ d.phase = "running"
  /\ call.args.wait = Len(d.waits)
  /\ wait.intent = Revision /\ wait.response = "revise_task"
  /\ RevisedBoundary(d, wait.actions["revise_task"])

\* ... and the revised task, which follows its predecessor in the ledger.
RevisionChained(d) ==
  /\ AcceptedTaskRecord(d)
  /\ \E k \in DOMAIN d.task_revisions :
       /\ d.task_revisions[k].task_id = call.args.task
       /\ d.task_revisions[k].revision = Candidate.revision - 1
       /\ d.task_revisions[k].sha256 = Candidate.previous

ResumeRevised ==
  /\ Running("revise_task", "resume")
  /\ Rest(IF RevisionHandoff(Document) /\ RevisionChained(Document)
             /\ ClosureIteration(Document)
          THEN "done" ELSE "invalid_result")

ReviseStep ==
  \/ StartRevise \/ AcceptRevise \/ PublishRevise \/ RecordReviseIntent
  \/ RecordRevisedTask \/ VerifyAccepted \/ CloseReplanned \/ VerifyClosure
  \/ Respond \/ VerifyResponse \/ VerifyRevised \/ ResumeRevised
=============================================================================
