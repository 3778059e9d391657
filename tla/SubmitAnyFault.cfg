\* One key and every fault: what holds however late and however unlucky.
\* No symmetry: it is unsound for liveness.
SPECIFICATION FairSpec
CONSTANTS
    Nil = Nil
    NoKey = NoKey
    Request = {r1, r2, r3}
    Owner = {r1, r2, r3}
    IdemKey <- OneKey
    TtlChoice = {2}
    Faults = {"redis", "broker", "database", "lost_reply", "crash", "late"}
INVARIANTS TypeOK SettledKeyIsNotResent AnswersNameRealTasks NoOrphanLock
PROPERTIES LockEventuallyFreed
CHECK_DEADLOCK FALSE
