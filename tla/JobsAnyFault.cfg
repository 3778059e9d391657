\* Two processes, requests that overlap on two jobs of one name, triggers
\* with and without an end; every call may fail, with its effect or without.
SPECIFICATION Spec
CONSTANTS
    None = None
    Job = {j1, j2}
    NameOf <- OneName
    Trigger = {"daily", "once"}
    Finite = {"once"}
    Request = {r1, r2}
    Process = {p1, p2}
    Ops = {"create", "delete", "pause", "resume", "trigger"}
    Existing = {j1}
    OneAtATime = FALSE
    Faults = {"database", "store", "lost_reply", "crash"}
SYMMETRY Symmetry
INVARIANTS TypeOK  DeletedIsGone Awaited
CHECK_DEADLOCK FALSE
