\* Any lateness, any fault; turns a minute and the grace time apart.
SPECIFICATION Spec
CONSTANTS
    Nil = Nil
    Instance = {i1, i2}
    Minute = 4
    LockTtl = 3
    Grace = 2
    Period = 6
    FirstTurn = 2
    MaxLate = 1
    Faults = {"redis", "broker", "lost_reply", "crash"}
    Horizon = 8
SYMMETRY Symmetry
INVARIANTS
    TypeOK
    SkippedForItsOwnTurn
    AtMostOncePerTurn
    EveryTurnSent
CHECK_DEADLOCK FALSE
