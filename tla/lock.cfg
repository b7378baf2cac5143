\* Three slots for two processes each, one after the other; the third is another user's
\* and may be killed at any step.
CONSTANTS
    Procs = {p1, p2, p3}
    Mortal = {p1}
    IOErrors = TRUE
    None = None
    Dests = {d1}
    Timeout = 1
    ZoneOffset = 0
    CanSignal <- TwoUsers
    MaxRuns = 1
    MaxTime = 3
SPECIFICATION LockSpec
INVARIANTS LockTypeOK ExclusiveUntilRobbed
PROPERTIES LiveLockKept AbandonedLockTaken
SYMMETRY Alike
CHECK_DEADLOCK FALSE
