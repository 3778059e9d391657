\* No symmetry: it is unsound for liveness.
SPECIFICATION FairSpec
CONSTANTS
    Nil = Nil
    Client = {c1, c2, c3}
    c3 = c3
    Manager = {"m1", "m2"}
    ManagerOf <- SharedManager
    LockTtl = 2
    Timeout = 2
    Faults = {"redis", "lost_reply", "crash", "late"}
INVARIANTS
    TypeOK
PROPERTIES
    IsMutex
    OnlyTakerTouches
    WaitEnds
CHECK_DEADLOCK FALSE
