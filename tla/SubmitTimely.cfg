\* Two keys, the one named like the lock of the other; clients that retry;
\* calls that fail do nothing; nobody is late.
SPECIFICATION Spec
CONSTANTS
    Nil = Nil
    NoKey = NoKey
    Request = {r1, r2, r3}
    Owner = {r1, r2, r3}
    IdemKey <- NestedKeys
    TtlChoice = {1, 2}
    Faults = {"redis", "broker", "database", "crash"}
SYMMETRY RequestSymmetry
INVARIANTS AtMostOneProcessing AnswersNameRealTasks
CHECK_DEADLOCK FALSE
