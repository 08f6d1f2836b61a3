--------------------------- MODULE StageIteration ---------------------------
(***************************************************************************)
(* ensurePipelineV2StageIteration: the open iteration of the accepted plan's *)
(* stage, opened if it is missing.  The continued stage, the first stage and *)
(* the stage of a revised plan all ask for it, each on every retry.          *)
(***************************************************************************)
EXTENDS ControlledRun

CONSTANT InitialBudget    \* the policy's initial iteration budget

ASSUME InitialBudgetAssumption == InitialBudget \in Nat \ {0}

AcceptedPlan == Latest(plan_revisions).sha256
PlanPlace(r) == <<"plan", r>>
HasOpenIn(d) ==
  /\ d.generations # <<>>
  /\ Latest(d.generations).iterations # <<>>
  /\ Latest(Latest(d.generations).iterations).closed = None

\* checkRunBoundary: an undecided active run without an open wait, whose last
\* execution is settled.
RunBoundary ==
  /\ status = "active" /\ phase = "running" /\ Undecided
  /\ ~HasOpenWait
  /\ AllSettled

\* resolveValidatedContext: the compiled plan is the last accepted one, and its
\* document is there to be compiled.
PlanContext ==
  /\ plan_revisions # <<>>
  /\ PlanPlace(Len(plan_revisions)) \in DOMAIN published
  /\ published[PlanPlace(Len(plan_revisions))] = AcceptedPlan

SameGeneration ==
  /\ OpenGeneration.plan_sha256 = AcceptedPlan
  /\ OpenGeneration.initial_budget = InitialBudget

\* A result is compared region by region with the snapshot before it.
Unchanged(before, after, but) ==
  \A region \in DOMAIN before \ but : after[region] = before[region]

\* The missing commands, checked in a row against the reducer and dispatched:
\* a generation and its first iteration, the next iteration, or nothing.
EnsureIteration(step, next) ==
  \/ ~(RunBoundary /\ PlanContext) /\ Rest("rejected")
  \/ /\ RunBoundary /\ PlanContext /\ ~HasOpenGeneration
     /\ Dispatch(StageGenerationOpened(AcceptedPlan, InitialBudget,
                   cursor.transition_count), step)
  \/ /\ RunBoundary /\ PlanContext
     /\ HasOpenGeneration /\ ~SameGeneration
     /\ Rest("rejected")
  \/ /\ RunBoundary /\ PlanContext
     /\ HasOpenGeneration /\ SameGeneration
     /\ IF HasOpenIteration THEN Skip(next)
        ELSE Dispatch(StageIterationOpened(Len(generations),
                        Len(OpenGeneration.iterations) + 1,
                        cursor.transition_count), next)
=============================================================================
