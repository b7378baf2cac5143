\* An edit and a review of the same candidate at the same time.
CONSTANTS
    Procs = {p1, p2}
    Mortal = {}
    IOErrors = FALSE
    None = None
    Torn = Torn
    Cands = {c1}
    Texts = {t1, t2}
    Serial = FALSE
    Commands = {"create", "review", "edit"}
    Verdicts = {"auto_passed", "manual_review", "rejected", "blocked"}
    Ready = {}
    MaxCopies = 2
SPECIFICATION QueueSpec
INVARIANTS NoCandidateLost
\* every candidate may be deleted and every process killed
CHECK_DEADLOCK FALSE
