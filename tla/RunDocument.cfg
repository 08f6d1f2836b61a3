\* Three commands on one run, each with a few dispatches.
SPECIFICATION FairSpec
CONSTANTS
    c1 = c1
    c2 = c2
    c3 = c3
    NoCommand = NoCommand
    Torn = Torn
    Commands = {c1, c2, c3}
    MaxDispatches = 2
    EntryPersists = TRUE
INVARIANTS DocumentSafe AcknowledgedSurvives NotCommittedLeavesNoTrace
PROPERTIES NoLostUpdate PoisonedSinkIsSilent ImplementsLog LockIsReleased
CHECK_DEADLOCK FALSE
