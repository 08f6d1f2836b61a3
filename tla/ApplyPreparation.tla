-------------------------- MODULE ApplyPreparation --------------------------
(***************************************************************************)
(* preparePipelineV2ProjectApply: under the shared lock, bind the operation  *)
(* to the reviewed observation, probe the metadata, plan, publish the plan   *)
(* and seal the payloads one by one, each confirmed in the journal.  A call  *)
(* repeats from wherever an earlier one, or another at the same time, got.  *)
(***************************************************************************)
EXTENDS ApplyOperation

LockShared(c) ==
  /\ At(c, "lock_shared")
  /\ AcquireShared(c, "open")
  /\ UNCHANGED <<operation, faults, lapses>> /\ UnchangedProject /\ UnchangedPackage

\* The existing operation is loaded; one that is prepared, or past its preparation,
\* goes to the writer, with the lock released in between.
OpenOperation(c) ==
  /\ At(c, "open")
  /\ IF operation # None /\ operation.status \notin {"preparing", "failed"}
     THEN IF operation.status = "prepared" /\ ~PackageWhole(operation)
          THEN Leave(c) ELSE Goto(c, "load")
     ELSE calls' = [calls EXCEPT ![c].op = operation, ![c].current = TRUE,
                                 ![c].pc = "observe"]
  /\ UNCHANGED <<operation, faults, lapses>> /\ UnchangedProject /\ UnchangedPackage

\* The observation covers the baseline, the workspace and the project.
Observe(c) ==
  /\ At(c, "observe")
  /\ IF tree # review.operator THEN Leave(c) ELSE Goto(c, "create")
  /\ UNCHANGED <<operation, faults, lapses>> /\ UnchangedProject /\ UnchangedPackage

\* A create that finds the operation there adopts it.
CreateOperation(c) ==
  /\ At(c, "create")
  /\ IF Op(c) # None THEN Goto(c, "probe") /\ UNCHANGED operation
     ELSE IF operation # None
     THEN /\ calls' = [calls EXCEPT ![c].op = operation, ![c].current = TRUE,
                                    ![c].pc = "probe"]
          /\ UNCHANGED operation
     ELSE Store(c, Preparing, "probe")
  /\ UNCHANGED <<faults, lapses>> /\ UnchangedProject /\ UnchangedPackage

\* recordFailure; what another call prepared stays prepared.
RecordFailure(c) ==
  IF Op(c).status = "prepared" THEN Leave(c) /\ UNCHANGED operation
  ELSE Record(c, [Op(c) EXCEPT !.status = "failed", !.failed = TRUE])

\* The probe refuses metadata that a later attempt may find in order.
Probe(c) ==
  /\ At(c, "probe")
  /\ \/ Goto(c, "plan") /\ UNCHANGED <<operation, faults>>
     \/ faults < MaxFaults /\ faults' = faults + 1 /\ RecordFailure(c)
  /\ UNCHANGED lapses /\ UnchangedProject /\ UnchangedPackage

\* planProjectApplySteps from the observed trees.
BuildPlan(c) ==
  /\ At(c, "plan")
  /\ IF ~Plannable(review) THEN RecordFailure(c)
     ELSE Goto(c, "publish_plan") /\ UNCHANGED operation
  /\ UNCHANGED <<faults, lapses>> /\ UnchangedProject /\ UnchangedPackage

\* The plan is published once; what is stored must be this plan.
PublishPlan(c) ==
  /\ At(c, "publish_plan")
  /\ LET built == PlanOf(review) IN
     IF Op(c).plan \notin {None, built} \/ plan \notin {None, built}
     THEN Leave(c) /\ UNCHANGED plan
     ELSE Goto(c, "commit_plan") /\ plan' = built
  /\ UNCHANGED <<operation, sealed, faults, lapses>> /\ UnchangedProject

Resumed(op) == IF op.status = "failed" THEN "preparing" ELSE op.status

\* The failure reason of a failed operation stays in the candidate.
CommitPlan(c) ==
  /\ At(c, "commit_plan")
  /\ IF Op(c).plan # None THEN Goto(c, "seal") /\ UNCHANGED operation
     ELSE Commit(c, [Op(c) EXCEPT !.plan = plan, !.status = Resumed(Op(c))],
                 operation.plan = plan, "seal")
  /\ UNCHANGED <<faults, lapses>> /\ UnchangedProject /\ UnchangedPackage

\* The next payload is streamed from the workspace and published.
NextPayload(c) == Payloads(plan)[Op(c).sealed + 1]
Seal(c) ==
  /\ At(c, "seal")
  /\ IF Op(c).sealed = Len(Payloads(plan))
     THEN Goto(c, "complete") /\ UNCHANGED sealed
     ELSE Goto(c, "commit_payload") /\ sealed' = sealed \cup {NextPayload(c)}
  /\ UNCHANGED <<plan, operation, faults, lapses>> /\ UnchangedProject

CommitPayload(c) ==
  /\ At(c, "commit_payload")
  /\ LET k == Op(c).sealed + 1 IN
     Commit(c, [Op(c) EXCEPT !.sealed = k, !.status = Resumed(Op(c)), !.failed = FALSE],
            operation.sealed >= k, "seal")
  /\ UNCHANGED <<faults, lapses>> /\ UnchangedProject /\ UnchangedPackage

CommitPrepared(c) ==
  /\ At(c, "complete")
  /\ IF ~PackageWhole(Op(c)) THEN Leave(c) /\ UNCHANGED operation
     ELSE Commit(c, [Op(c) EXCEPT !.status = "prepared", !.failed = FALSE],
                 operation.status = "prepared" /\ operation.plan = plan, "load")
  /\ UNCHANGED <<faults, lapses>> /\ UnchangedProject /\ UnchangedPackage

PrepareStep(c) ==
  \/ LockShared(c) \/ OpenOperation(c) \/ Observe(c) \/ CreateOperation(c)
  \/ Probe(c) \/ BuildPlan(c) \/ PublishPlan(c) \/ CommitPlan(c) \/ Seal(c)
  \/ CommitPayload(c) \/ CommitPrepared(c)
=============================================================================
