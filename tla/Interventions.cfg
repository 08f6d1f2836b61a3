\* One task, two bodies and the revised ones; two waits: continue then revise,
\* revise then continue, twice either.
SPECIFICATION InterventionsSpec
CONSTANTS
  None = None
  PlanningState = "planning"
  StageState = "stage"
  EntryState = "planning"
  StateIds = {"planning", "stage"}
  MaxTransitions = 4
  Outcomes = {"completed"}
  ExecutionTypes = {"agent"}
  SessionIds = {1, 2, 3, 4, 5, 6, 7, 8, 9, 10, 11, 12}
  WorkerLogs = {"new", "pointers"}
  PlanDigests = {}
  InitialBudgets = {1}
  InitialBudget = 1
  Extensions = {1}
  MaxSafeInteger = 10
  TaskIds = {"t1"}
  TaskDigests = {}
  Intents = {}
  Requests = {}
  ActionLists <- StageOffers
  Bodies = {"b0", "b1"}
  FirstBody = "b0"
  MaxFaults = 2
  MaxWaits = 2
  MaxGenerations = 3
  MaxPlanRevisions = 3
  MaxTaskRevisions = 4
CHECK_DEADLOCK FALSE
INVARIANTS
  InterventionsSound
PROPERTIES
  RetriesSound
  InterventionsComplete
