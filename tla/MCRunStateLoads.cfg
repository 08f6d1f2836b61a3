\* A document the reducer accepts and the loader rejects.  With the invariant
\* OpeningNeverPrecedesFailure: an opening before the failure of its boundary.
SPECIFICATION Spec
CONSTANTS
  s1 = s1  s2 = s2
  x1 = x1  x2 = x2  x3 = x3  x4 = x4
  None = None
  EntryState = s1
  StateIds = {s1}
  MaxTransitions = 3
  Outcomes = {"ok"}
  ExecutionTypes = {"agent", "decision"}
  SessionIds = {x1, x2}
  WorkerLogs = {"l1"}
  PlanDigests = {x3, x4}
  InitialBudgets = {1}
  Extensions = {1}
  MaxSafeInteger = 2
  TaskIds = {}
  TaskDigests = {"d1"}
  Intents = {"i1"}
  Requests = {"q1"}
  ActionLists <- MCOneAction
  MaxWaits = 1
  MaxGenerations = 1
  MaxPlanRevisions = 2
  MaxTaskRevisions = 0
SYMMETRY StageSymmetry
CHECK_DEADLOCK FALSE
INVARIANTS
  UnfailedDocumentLoads
