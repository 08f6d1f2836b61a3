\* The stage lifecycle whole: budgets and grants, replans and task revisions.  Plans
\* are told apart by their place in the ledger, so one digest will do.
SPECIFICATION Spec
CONSTANTS
  s1 = s1  s2 = s2
  x1 = x1  x2 = x2  x3 = x3  x4 = x4
  None = None
  EntryState = s1
  StateIds = {s1}
  MaxTransitions = 2
  Outcomes = {"ok"}
  ExecutionTypes = {"agent"}
  SessionIds = {x1, x2}
  WorkerLogs = {"l1"}
  PlanDigests = {x3}
  InitialBudgets = {1}
  Extensions = {1}
  MaxSafeInteger = 2
  TaskIds = {"t1"}
  TaskDigests = {"d1"}
  Intents = {"i1"}
  Requests = {"q1"}
  ActionLists <- MCOneAction
  MaxWaits = 2
  MaxGenerations = 2
  MaxPlanRevisions = 2
  MaxTaskRevisions = 2
SYMMETRY StageSymmetry
CHECK_DEADLOCK FALSE
INVARIANTS
  StageLifecycle
  NeverStuck
PROPERTIES
  LedgersAppendOnly
  FailureLatched
