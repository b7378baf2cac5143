\* One command at a time; one of them may be killed, all may fail.
CONSTANTS
    Procs = {p1, p2}
    Mortal = {p1}
    IOErrors = TRUE
    None = None
    Torn = Torn
    Dests = {d1}
    Timeout = 0
    ZoneOffset = 0
    CanSignal <- EverySignal
    MaxRuns = 0
    MaxTime = 1
    Cands = {c1, c2}
    Texts = {t1}
    Ready = {c1, c2}
    Serial = TRUE
    Commands = {"promote", "rollback", "delete"}
    Verdicts = {"auto_passed", "manual_review", "rejected", "blocked"}
    MaxCopies = 2
    DestOf <- OneDestination
    MaxProms = 2
    MaxEdits = 1
SPECIFICATION EngineSpec
SYMMETRY CandSymmetry
INVARIANTS EngineTypeOK NoCandidateLost RecordedBlockStays PromotedHasBlock RolledBackStaysOut HandLinesKept BlocksSnapshotted RolledBackWasUndone
PROPERTIES LastCopyKept ImplementsDestinations
\* the commands end when ids, time or candidates run out
CHECK_DEADLOCK FALSE
