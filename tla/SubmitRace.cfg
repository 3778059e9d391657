\* Two requests at once, nothing fails.
SPECIFICATION Spec
CONSTANTS
    Nil = Nil
    NoKey = NoKey
    Request = {r1, r2}
    Owner = {r1, r2}
    IdemKey <- OneKey
    TtlChoice = {2}
    Faults = {}
INVARIANTS ExactlyOnceSubmission
CHECK_DEADLOCK FALSE
