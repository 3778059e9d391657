\* Two tasks with one key; as a duplicate the one is skipped or asks for the
\* cached result and the other raises; every fault, and one may be revoked.
SPECIFICATION Spec
CONSTANTS
    Nil = Nil
    Task = {t1, t2}
    Owner = {t1, t2}
    Worker = {w1, w2}
    IdemKey <- GeneratedKeys
    KeyOf <- GeneratedKey
    JsonText <- TextOf
    NotGiven = NotGiven
    Window = 2
    HardLimit = 1
    MaxRetries = 1
    Flaky = {t1}
    OnDuplicate <- AllModes
    t1 = t1
    t2 = t2
    Faults = {"redis", "lost_reply", "kill", "disconnect"}
    MaxLosses = 1
    Revocable = {t1}
SYMMETRY WorkerSymmetry
INVARIANTS TypeOK OneBodyPerKey ResultOutlivesLock NoSelfSkip NoTaskLost
PROPERTIES NoRerunWithinWindow 
CHECK_DEADLOCK FALSE
