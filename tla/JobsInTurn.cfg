\* One request at a time, one process.
SPECIFICATION Spec
CONSTANTS
    None = None
    Job = {j1, j2}
    NameOf <- OwnNames
    Trigger = {"daily", "hourly"}
    Finite = {}
    Request = {r1, r2, r3, r4}
    Process = {p1}
    Ops = {"create", "delete", "pause", "resume", "trigger"}
    Existing = {j1}
    OneAtATime = TRUE
    Faults = {}
SYMMETRY Symmetry
INVARIANTS RowTellsStore JobHasRow GaugeCountsJobs
CHECK_DEADLOCK FALSE
