\* Three promotions of two slots, whose processes follow each other and one of which may
\* be killed at any step, east of UTC: every lock counts as expired at once.
CONSTANTS
    Procs = {p1, p2}
    Mortal = {p1}
    IOErrors = FALSE
    None = None
    Torn = Torn
    Dests = {d1}
    Timeout = 1
    ZoneOffset = 2
    CanSignal <- EverySignal
    MaxRuns = 1
    MaxTime = 1
    Cands = {c1, c2}
    Texts = {t1}
    Ready = {c1, c2}
    Serial = FALSE
    Commands = {"promote"}
    Verdicts = {"auto_passed", "manual_review", "rejected", "blocked"}
    MaxCopies = 2
    DestOf <- OneDestination
    MaxProms = 3
    MaxEdits = 0
SPECIFICATION FairEngineSpec
INVARIANTS BlocksUntilRobbed HeldUntilRobbed
PROPERTIES AppendOnly PromotionEnds
\* the commands end when ids, time or candidates run out
CHECK_DEADLOCK FALSE
