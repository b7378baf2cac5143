\* Two slots promote at the same time; nobody is killed and no write fails.
CONSTANTS
    Procs = {p1, p2}
    Mortal = {}
    IOErrors = FALSE
    None = None
    Torn = Torn
    Dests = {d1}
    Timeout = 1
    ZoneOffset = 0
    CanSignal <- EverySignal
    MaxRuns = 1
    MaxTime = 2
    Cands = {c1, c2}
    Texts = {t1}
    Ready = {c1, c2}
    Serial = FALSE
    Commands = {"promote"}
    Verdicts = {"auto_passed", "manual_review", "rejected", "blocked"}
    MaxCopies = 2
    DestOf <- OneDestination
    MaxProms = 3
    MaxEdits = 0
SPECIFICATION EngineSpec
PROPERTIES AlwaysAppendOnly
\* the commands end when ids, time or candidates run out
CHECK_DEADLOCK FALSE
