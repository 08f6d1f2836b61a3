\* The execution graph: agents and decisions, two waits that lead to two states,
\* no stage lifecycle.
SPECIFICATION Spec
CONSTANTS
  s1 = s1  s2 = s2
  x1 = x1  x2 = x2  x3 = x3  x4 = x4
  None = None
  EntryState = s1
  StateIds = {s1, s2}
  MaxTransitions = 2
  Outcomes = {"ok", "redo"}
  ExecutionTypes = {"agent", "decision"}
  SessionIds = {x1, x2, x3, x4}
  WorkerLogs = {"l1", "l2"}
  PlanDigests = {"p1"}
  InitialBudgets = {1}
  Extensions = {1}
  MaxSafeInteger = 3
  TaskIds = {"t1"}
  TaskDigests = {"d1"}
  Intents = {"i1"}
  Requests = {"q1"}
  ActionLists <- MCActionLists
  MaxWaits = 2
  MaxGenerations = 0
  MaxPlanRevisions = 0
  MaxTaskRevisions = 0
SYMMETRY SessionSymmetry
CHECK_DEADLOCK FALSE
INVARIANTS
  ExecutionPairing
  RunCoherent
  WaitTriple
PROPERTIES
  FinalImmutable
  WaitFreezesGraph
