--------------------------- MODULE ContinueStage ---------------------------
(***************************************************************************)
(* orchestrator continue-stage: accept the intent to grant iterations, grant *)
(* them, close the suspended iteration by the grant, answer the wait with    *)
(* continue_stage and open the next iteration.  Four nested controllers,    *)
(* each of which may find its part already durable (intent, grant,          *)
(* completion, continued stage), below one that restores the accepted plan  *)
(* and compares every result with the snapshot it started from.             *)
(***************************************************************************)
EXTENDS StageIteration

ContinueIntent(w, additional) ==
  [kind |-> "continue_stage_intent", wait |-> w, additional |-> additional]
IntentPlace(w) == <<"intent", w>>

BeginContinue(w, additional) == Begin("continue_stage", ContinueIntent(w, additional))

C == call.args          \* the intent of the running call
W == waits[C.wait]

-----------------------------------------------------------------------------
(* Which steps of the command a document already carries.                  *)

SuffixOrder == <<"intent", "grant", "closure", "response", "successor">>

\* The iteration of the last generation closed by a grant of wait w, or 0.
GrantClosed(d, w) ==
  LET its == Latest(d.generations).iterations
      by == {i \in DOMAIN its : /\ its[i].closed # None
                                /\ its[i].closed.by = "grant"
                                /\ its[i].closed.wait_index = w}
  IN  IF by = {} THEN 0 ELSE CHOOSE i \in by : TRUE

\* findDeclaredWait: the target is the last wait and offers the action.
DeclaredWait(d, w, action) ==
  /\ w \in DOMAIN d.waits /\ w = Len(d.waits)
  /\ action \in DOMAIN d.waits[w].actions

SuffixReadable(d, intent) ==
  /\ DeclaredWait(d, intent.wait, "continue_stage")
  /\ d.generations # <<>>
  /\ \A k \in DOMAIN d.grants :
       /\ d.grants[k].generation_index = Len(d.generations)
       /\ d.grants[k].wait_index = intent.wait
       => d.grants[k].intent = intent /\ d.grants[k].additional = intent.additional

\* suffixStepsOf.
SuffixSteps(d, intent) ==
  LET wait == d.waits[intent.wait]
      gen == Latest(d.generations)
      open == IF gen.iterations # <<>> /\ Latest(gen.iterations).closed = None
              THEN Len(gen.iterations) ELSE 0
      closed == GrantClosed(d, intent.wait)
  IN  {step \in {"intent", "grant", "closure", "response", "successor"} :
         CASE step = "intent" -> wait.intent = intent
           [] step = "grant" ->
                \E k \in DOMAIN d.grants :
                  /\ d.grants[k].generation_index = Len(d.generations)
                  /\ d.grants[k].wait_index = intent.wait
           [] step = "closure" -> closed # 0
           [] step = "response" -> wait.response = "continue_stage"
           [] step = "successor" ->
                /\ closed # 0 /\ open = closed + 1
                /\ gen.iterations[open].opened = wait.transition_count}

\* appendedStepCount: a step never appears before its predecessors.
OrderedSteps(steps) ==
  \A i, j \in DOMAIN SuffixOrder :
    i < j /\ SuffixOrder[j] \in steps => SuffixOrder[i] \in steps

-----------------------------------------------------------------------------
(* compareSuffixDelta: a result differs from its base in the appended steps  *)
(* and in nothing else.                                                      *)

SameRegions(before, after, regions) ==
  \A region \in regions : after[region] = before[region]

GrantsDelta(before, after, intent, added) ==
  after.grants = IF "grant" \in added
                 THEN Append(before.grants,
                        [generation_index |-> Len(before.generations),
                         wait_index |-> intent.wait, intent |-> intent,
                         additional |-> intent.additional])
                 ELSE before.grants

WaitsDelta(before, after, intent, added) ==
  LET w == intent.wait IN
  /\ Len(after.waits) = Len(before.waits)
  /\ \A v \in DOMAIN before.waits : v # w => after.waits[v] = before.waits[v]
  /\ after.waits[w] =
       [before.waits[w] EXCEPT
          !.intent = IF "intent" \in added THEN intent ELSE @,
          !.response = IF "response" \in added THEN "continue_stage" ELSE @]

GenerationsDelta(before, after, intent, added) ==
  LET g == Len(before.generations)
      old == before.generations[g].iterations
      new == after.generations[g].iterations
      count == before.waits[intent.wait].transition_count
      closing == IF "closure" \in added THEN {Len(old)} ELSE {}
  IN  /\ Len(after.generations) = g
      /\ \A h \in 1..g - 1 : after.generations[h] = before.generations[h]
      /\ [after.generations[g] EXCEPT !.iterations = <<>>]
           = [before.generations[g] EXCEPT !.iterations = <<>>]
      /\ Len(new) = Len(old) + (IF "successor" \in added THEN 1 ELSE 0)
      /\ \A i \in DOMAIN old \ closing : new[i] = old[i]
      /\ \A i \in closing :
           new[i] = [old[i] EXCEPT !.closed =
                       [by |-> "grant", count |-> count, wait_index |-> intent.wait]]
      /\ "successor" \in added =>
           Latest(new) = [opened |-> count, closed |-> None]

\* Mutant: every retry must append something.
DeltaGrows(before, after, intent, allowed) ==
  LET added == SuffixSteps(after, intent) \ SuffixSteps(before, intent)
  IN  added # {} /\ after.revision = before.revision + Cardinality(added)

SuffixDelta(before, after, intent, allowed) ==
  LET old == SuffixSteps(before, intent)
      new == SuffixSteps(after, intent)
      added == new \ old
  IN  /\ SuffixReadable(before, intent) /\ SuffixReadable(after, intent)
      /\ old \subseteq new /\ added \subseteq allowed
      /\ OrderedSteps(new)
      /\ after.revision = before.revision + Cardinality(added)
      /\ IF "response" \in added
         THEN after.status = "active" /\ after.phase = "running"
         ELSE after.status = before.status /\ after.phase = before.phase
      /\ after.cursor =
           [before.cursor EXCEPT
              !.current_state = IF "response" \in added THEN StageState ELSE @]
      /\ SameRegions(before, after,
           {"executions", "transitions", "task_revisions", "plan_revisions",
            "outcome"})
      /\ GrantsDelta(before, after, intent, added)
      /\ WaitsDelta(before, after, intent, added)
      /\ GenerationsDelta(before, after, intent, added)

-----------------------------------------------------------------------------
(* acceptPipelineV2ContinueStageIntent.                                    *)

\* A waiting run whose last wait offers the action, over an open iteration of
\* the generation the last accepted plan opened.
ContinueAcceptable ==
  /\ status = "waiting" /\ phase = "waiting" /\ HasOpenWait
  /\ C.wait = Len(waits)
  /\ "continue_stage" \in DOMAIN W.actions
  /\ HasOpenIteration
  /\ BindsLastPlan(OpenGeneration.plan_sha256)

\* The grant must leave a representable budget.
BudgetRepresentable ==
  EffectiveBudget(Len(generations)) + C.additional <= MaxSafeInteger

\* recognizeProgressedAcceptance: an earlier attempt of the same command has
\* closed the iteration or answered the wait, and nothing has run since.
ContinueProgressed ==
  LET d == Document IN
  /\ SuffixReadable(d, C)
  /\ "intent" \in SuffixSteps(d, C)
  /\ SuffixDelta(call.base, d, C, {"intent", "grant", "closure", "response", "successor"})
  /\ \/ W.response = "continue_stage"
     \/ W.response = None /\ GrantClosed(d, C.wait) = Len(OpenGeneration.iterations)
  /\ Len(transitions) = W.transition_count
  /\ Len(executions) = W.transition_count

AcceptContinue ==
  /\ Running("continue_stage", "start")
  /\ \/ /\ C.wait \in DOMAIN waits /\ ContinueAcceptable
        /\ \/ W.intent = C /\ Publish(IntentPlace(C.wait), C, "accepted")
           \/ W.intent \notin {None, C} /\ Rest("rejected")
           \/ /\ W.intent = None
              /\ IF BudgetRepresentable
                 THEN Publish(IntentPlace(C.wait), C, "intent")
                 ELSE Rest("rejected")
     \/ /\ ~(C.wait \in DOMAIN waits /\ ContinueAcceptable)
        /\ IF ContinueProgressed THEN Skip("accepted") ELSE Rest("rejected")

RecordContinue ==
  /\ Running("continue_stage", "intent")
  /\ Dispatch(PlanIntentAccepted(C.wait, C), "accepted")

\* verifyAcceptanceResult: the wait carries the intent, and the acceptance
\* appended nothing but it.
AcceptanceResult ==
  /\ "intent" \in SuffixSteps(Document, C)
  /\ SuffixDelta(call.base, Document, C, {"intent"})

\* verifyRestoreResult: the restored plan is the last one of the document and
\* the open generation runs it.
RestoreResult ==
  /\ plan_revisions # <<>>
  /\ PlanPlace(Len(plan_revisions)) \in DOMAIN published
  /\ published[PlanPlace(Len(plan_revisions))] = Latest(plan_revisions).sha256
  /\ HasOpenGeneration
  /\ BindsLastPlan(OpenGeneration.plan_sha256)

VerifyContinue ==
  /\ Running("continue_stage", "accepted")
  /\ Verified(AcceptanceResult /\ RestoreResult, "grant")

-----------------------------------------------------------------------------
(* applyPipelineV2ContinueStageGrant.                                      *)

ContinueSteps == SuffixSteps(Document, C)

\* Nothing has run or moved since the wait.
ImmediateBoundary(d, state) ==
  LET wait == d.waits[C.wait] IN
  /\ d.cursor = [current_state |-> state, transition_count |-> wait.transition_count]
  /\ Len(d.transitions) = wait.transition_count
  /\ Len(d.executions) = wait.transition_count

\* requireBindings: the waiting run the grant belongs to.
GrantBound ==
  /\ status = "waiting" /\ phase = "waiting" /\ HasOpenWait
  /\ C.wait = Len(waits)
  /\ "continue_stage" \in DOMAIN W.actions
  /\ W.intent = C
  /\ HasOpenGeneration /\ OpenGeneration.iterations # <<>>

\* exactGrantPresent.
GrantPresent(d) ==
  LET of == {k \in DOMAIN d.grants : /\ d.grants[k].generation_index = Len(d.generations)
                                     /\ d.grants[k].wait_index = C.wait}
  IN  \E k \in of : of = {k} /\ d.grants[k].intent = C
                    /\ d.grants[k].additional = C.additional

\* exactGrantClosurePresent: the last iteration, closed by this grant, with no
\* successor yet.
ClosurePresent(d) ==
  LET gen == Latest(d.generations) IN
  /\ d.generations # <<>> /\ gen.closed = None
  /\ gen.iterations # <<>>
  /\ Latest(gen.iterations).closed =
       [by |-> "grant", wait_index |-> C.wait,
        count |-> d.waits[C.wait].transition_count]

\* applyCompletedGrantRetry: what it asks of the answered wait ...
GrantAnswered ==
  /\ status = "active" /\ C.wait = Len(waits)
  /\ W.intent = C
  /\ W.response = "continue_stage"
  /\ cursor.current_state = W.actions["continue_stage"]
  /\ cursor.transition_count = W.transition_count
  /\ Len(executions) <= W.transition_count

\* ... and of the granted generation: the closed iteration is still the last.
GrantCompleted == GrantAnswered /\ GrantPresent(Document) /\ ClosurePresent(Document)

\* verifyCompletedShape of the continued stage: the answered wait of an active run ...
CompletedRun(d) ==
  /\ d.status = "active" /\ d.phase = "running" /\ d.outcome = NoOutcome
  /\ C.wait = Len(d.waits)
  /\ LET wait == d.waits[C.wait] IN
     /\ wait.intent = C
     /\ wait.response = "continue_stage"
     /\ wait.actions["continue_stage"] = StageState
     /\ ImmediateBoundary(d, StageState)

\* ... the generation of its one grant ...
CompletedGrant(d) ==
  LET exact == {k \in DOMAIN d.grants : /\ d.grants[k].wait_index = C.wait
                                        /\ d.grants[k].intent = C
                                        /\ d.grants[k].additional = C.additional}
      gen == Latest(d.generations)
  IN  /\ \E k \in exact : exact = {k}
                          /\ d.grants[k].generation_index = Len(d.generations)
      /\ GrantPresent(d)
      /\ gen.closed = None
      /\ gen.plan_sha256 = Latest(d.plan_revisions).sha256

\* ... and its last iteration: the one the grant closed, or its successor.
CompletedIterations(d) ==
  LET its == Latest(d.generations).iterations
      closed == {i \in DOMAIN its :
                   its[i].closed = [by |-> "grant", wait_index |-> C.wait,
                                    count |-> d.waits[C.wait].transition_count]}
  IN  \E i \in closed :
        /\ closed = {i}
        /\ \/ Len(its) = i
           \/ /\ Len(its) = i + 1
              /\ its[i + 1] = [opened |-> d.waits[C.wait].transition_count,
                               closed |-> None]

CompletedShape(d) == CompletedRun(d) /\ CompletedGrant(d) /\ CompletedIterations(d)

\* planContinueStageGrant: grant and closure, the closure alone, or nothing;
\* a run whose successor is open already goes on behind the completion.
PlanGrant ==
  /\ Running("continue_stage", "grant")
  /\ \/ GrantBound /\ "grant" \notin ContinueSteps /\ Skip("record_grant")
     \/ /\ GrantBound
        /\ "grant" \in ContinueSteps /\ "closure" \notin ContinueSteps
        /\ Skip("close")
     \/ GrantBound /\ {"grant", "closure"} \subseteq ContinueSteps /\ Skip("granted")
     \/ ~GrantBound /\ GrantCompleted /\ Skip("granted")
     \/ ~GrantBound /\ ~GrantCompleted /\ CompletedShape(Document) /\ Skip("completed")
     \/ ~GrantBound /\ ~GrantCompleted /\ ~CompletedShape(Document) /\ Rest("rejected")

RecordGrant ==
  /\ Running("continue_stage", "record_grant")
  /\ Dispatch(IterationGrantRecorded(Len(generations), C.wait, C, C.additional),
              "close")

CloseByGrant ==
  /\ Running("continue_stage", "close")
  /\ IF GrantPresent(Document)
     THEN Dispatch(StageIterationClosed(Len(generations),
                     Len(OpenGeneration.iterations), "grant", C.wait), "granted")
     ELSE Rest("invalid_result")

-----------------------------------------------------------------------------
(* completePipelineV2ContinueStage: the answer, after the closure.          *)

\* verifyGrantResultBeforeResponse.
GrantResult(d) ==
  LET wait == d.waits[C.wait] IN
  /\ Len(d.waits) = C.wait
  /\ wait.intent = C
  /\ "continue_stage" \in DOMAIN wait.actions
  /\ \/ /\ d.status = "waiting" /\ wait.response = None
        /\ ImmediateBoundary(d, wait.state_id)
     \/ /\ d.status = "active" /\ wait.response = "continue_stage"
        /\ ImmediateBoundary(d, wait.actions["continue_stage"])
  /\ GrantPresent(d)
  /\ ClosurePresent(d)

\* verifyResponseResult: the answered wait is the one that was granted, and the
\* granted generation did not move.
ResponseResult(granted, d) ==
  LET before == granted.waits[C.wait]  wait == d.waits[C.wait] IN
  /\ Len(d.waits) = C.wait
  /\ [wait EXCEPT !.response = before.response] = before
  /\ wait.response = "continue_stage"
  /\ before.response # None => before.response = wait.response
  /\ d.status = "active" /\ d.phase = "running"
  /\ ImmediateBoundary(d, before.actions["continue_stage"])
  /\ GrantPresent(d)
  /\ ClosurePresent(granted) /\ ClosurePresent(d)
  /\ Latest(d.generations) = Latest(granted.generations)

CompleteContinue ==
  \/ /\ Running("continue_stage", "granted")
     /\ VerifiedInner(GrantResult(Document), "respond")
  \/ /\ Running("continue_stage", "respond")
     /\ Answer(C.wait, "continue_stage", "record_response", "responded")
  \/ /\ Running("continue_stage", "record_response")
     /\ RecordAnswer(C.wait, "continue_stage", "responded")
  \/ /\ Running("continue_stage", "responded")
     /\ IF ResponseResult(call.inner, Document)
        THEN Skip("completed") ELSE Rest("invalid_result")

-----------------------------------------------------------------------------
(* openPipelineV2ContinuedStage: the next iteration, once.                  *)

VerifyCompletion ==
  /\ Running("continue_stage", "completed")
  /\ VerifiedInner(CompletedShape(Document), "open")

\* The open generation of the plan gets its next iteration, once.
OpenSuccessor ==
  /\ Running("continue_stage", "open")
  /\ EnsureIteration("open", "opened")

\* verifyEnsureResult: everything but the target generation is as before ...
EnsureRegions(before, after) ==
  LET opened == ~HasOpenIn(before) IN
  /\ after.revision = before.revision + (IF opened THEN 1 ELSE 0)
  /\ \A region \in DOMAIN before \ {"revision", "generations"} :
       after[region] = before[region]
  /\ Len(after.generations) = Len(before.generations)
  /\ \A g \in 1..Len(before.generations) - 1 :
       after.generations[g] = before.generations[g]

\* ... which carries its successor at the boundary of the wait.
EnsureGeneration(before, after) ==
  LET old == Latest(before.generations)  new == Latest(after.generations) IN
  /\ [new EXCEPT !.iterations = <<>>] = [old EXCEPT !.iterations = <<>>]
  /\ IF HasOpenIn(before) THEN new = old
     ELSE new.iterations =
            Append(old.iterations,
                   [opened |-> before.waits[C.wait].transition_count, closed |-> None])

\* verifyOpenResult, by the intervention: the whole suffix is there, appended to
\* the snapshot its acceptance left.
OpenResult ==
  /\ SuffixDelta(call.base, Document, C, {"grant", "closure", "response", "successor"})
  /\ "successor" \in ContinueSteps
  /\ W.response = "continue_stage"
  /\ ImmediateBoundary(Document, W.actions["continue_stage"])
  /\ GrantPresent(Document)
  /\ LET gen == Latest(generations)  n == Len(gen.iterations) IN
     /\ gen.closed = None /\ BindsLastPlan(gen.plan_sha256)
     /\ GrantClosed(Document, C.wait) = n - 1
     /\ gen.iterations[n].closed = None

VerifyContinued ==
  /\ Running("continue_stage", "opened")
  /\ Verified(/\ EnsureRegions(call.inner, Document)
              /\ EnsureGeneration(call.inner, Document)
              /\ OpenResult, "resume")

\* verifyHandoffBoundary of the resume controller: the run goes on from the
\* boundary the intervention left.
ResumeBoundary(d) ==
  /\ d.status = "active" /\ d.phase = "running"
  /\ C.wait = Len(d.waits)
  /\ LET wait == d.waits[C.wait]  its == Latest(d.generations).iterations IN
     /\ wait.intent = C /\ wait.response = "continue_stage"
     /\ ImmediateBoundary(d, wait.actions["continue_stage"])
     /\ GrantPresent(d)
     /\ Latest(d.generations).closed = None
     /\ Len(its) > 1
     /\ its[Len(its) - 1].closed # None
     /\ its[Len(its) - 1].closed.by = "grant"
     /\ its[Len(its) - 1].closed.wait_index = C.wait
     /\ Latest(its) = [opened |-> wait.transition_count, closed |-> None]

ResumeContinued ==
  /\ Running("continue_stage", "resume")
  /\ Rest(IF ResumeBoundary(Document) THEN "done" ELSE "invalid_result")

ContinueStep ==
  \/ AcceptContinue \/ RecordContinue \/ VerifyContinue
  \/ PlanGrant \/ RecordGrant \/ CloseByGrant \/ CompleteContinue
  \/ VerifyCompletion \/ OpenSuccessor \/ VerifyContinued \/ ResumeContinued
=============================================================================
