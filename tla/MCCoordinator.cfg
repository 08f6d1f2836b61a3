\* One run from its control decision to its end or its wait, with every failure.
SPECIFICATION FairCoordSpec
CONSTANTS
  check = check  plan = plan  work = work  gate = gate  report = report
  done = done  stop = stop
  None = None
  StateIds <- MCStates
  Kind <- MCKind
  Role <- MCRole
  Edge <- MCEdge
  EntryState = check
  MaxTransitions = 4
  SessionIds = {1, 2, 3, 4}
  Outcomes = {"go", "halt", "again", "completed"}
  ActionLists <- MCOffers
  ExecutionTypes = {"agent", "decision"}
  WorkerLogs = {"captured", "unavailable"}
  PlanDigests = {"p1"}
  InitialBudgets = {1}
  Extensions = {1}
  MaxSafeInteger = 3
  TaskIds = {"t1"}
  TaskDigests = {"d1"}
  Intents = {"i1"}
  Requests = {"q1"}
  MaxWaits = 1
  MaxGenerations = 1
  MaxPlanRevisions = 1
  MaxTaskRevisions = 1
INVARIANTS
  CoordinatorFits
  NeverRejected
  RecordsTrue
PROPERTIES
  SignalNeverIgnored
  ImplementsRunState
  CommandReturns
