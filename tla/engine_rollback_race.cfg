\* A promotion completes while a rollback is at work.
CONSTANTS
    Procs = {p1, p2}
    Mortal = {}
    IOErrors = FALSE
    None = None
    Torn = Torn
    Dests = {d1}
    Timeout = 1
    ZoneOffset = 0
    CanSignal <- EverySignal
    MaxRuns = 0
    MaxTime = 2
    Cands = {c1, c2}
    Texts = {t1}
    Ready = {c1, c2}
    Serial = FALSE
    Commands = {"promote", "rollback"}
    Verdicts = {"auto_passed", "manual_review", "rejected", "blocked"}
    MaxCopies = 2
    DestOf <- OneDestination
    MaxProms = 2
    MaxEdits = 0
SPECIFICATION EngineSpec
PROPERTIES RollbackChecked
\* the commands end when ids, time or candidates run out
CHECK_DEADLOCK FALSE
