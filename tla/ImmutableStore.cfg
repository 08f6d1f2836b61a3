\* Two publishers race for one name with the same or different contents.
SPECIFICATION Spec
CONSTANTS
    Absent = Absent
    Publishers = {p1, p2}
    Contents = {x, y}
    MaxFaults = 2
    MaxCalls = 2
INVARIANTS StoreSafe
PROPERTIES ImplementsWriteOnce CallReturns
CHECK_DEADLOCK FALSE
