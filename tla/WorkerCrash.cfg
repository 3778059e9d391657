\* One task, one crash: the redelivery is turned away by the lock.
SPECIFICATION Spec
CONSTANTS
    Nil = Nil
    Task = {t1}
    Owner = {t1}
    Worker = {w1, w2}
    IdemKey <- GeneratedKeys
    KeyOf <- GeneratedKey
    JsonText <- TextOf
    NotGiven = NotGiven
    Window = 2
    HardLimit = 1
    MaxRetries = 0
    Flaky = {t1}
    OnDuplicate <- AllSkip
    t1 = t1
    t2 = t2
    Faults = {"kill"}
    MaxLosses = 1
    Revocable = {}
PROPERTIES SkippedForARun
CHECK_DEADLOCK FALSE
