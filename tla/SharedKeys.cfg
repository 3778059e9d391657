\* One key for clients and for a scheduled task, whose message may come back
\* while it is run.  A client's call that fails does nothing, and no client
\* is late.
SPECIFICATION SharedSpec
CONSTANTS
    Nil = Nil
    NoKey = NoKey
    Request = {r1, r2}
    Task = {t1}
    Owner = {r1, r2, t1}
    Worker = {w1, w2}
    IdemKey <- OneKey
    KeyOf <- SameKey
    TtlChoice = {2}
    Window = 2
    HardLimit = 1
    MaxRetries = 0
    OnDuplicate <- SkipOrCached
    Faults = {"redis", "crash"}
    WorkFaults = {"redis", "lost_reply", "kill", "disconnect"}
    MaxLosses = 1
SYMMETRY Symmetry
PROPERTIES KeyIsMutex WindowSurvivesClients
CHECK_DEADLOCK FALSE
