\* Two jobs of one name.
SPECIFICATION Spec
CONSTANTS
    None = None
    Job = {j1, j2}
    NameOf <- OneName
    Trigger = {"daily"}
    Finite = {}
    Request = {r1}
    Process = {p1}
    Ops = {"create", "delete", "pause", "resume", "trigger"}
    Existing = {j1}
    OneAtATime = TRUE
    Faults = {}
INVARIANTS JobHasRow
CHECK_DEADLOCK FALSE
