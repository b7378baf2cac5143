\* Two processes review, approve, edit and promote one candidate at the same time;
\* either may be killed or fail to write.
CONSTANTS
    Procs = {p1, p2}
    Mortal = {p1, p2}
    IOErrors = TRUE
    None = None
    Torn = Torn
    Cands = {c1}
    Texts = {t1, t2}
    Serial = FALSE
    Commands = {"review", "approve", "edit", "promote"}
    Verdicts = {"auto_passed", "manual_review"}
    Ready = {c1}
    MaxCopies = 1
SPECIFICATION QueueSpec
SYMMETRY Symmetry
INVARIANTS PromotedIsLedgered PromotedTextCleared ApprovedTextWasApproved
\* the processes may be killed, the candidate lost or there in too many copies
CHECK_DEADLOCK FALSE
