\* One undisturbed command at a time.
CONSTANTS
    Procs = {p1}
    Mortal = {}
    IOErrors = FALSE
    None = None
    Torn = Torn
    Cands = {c1, c2}
    Texts = {t1}
    Serial = TRUE
    Commands = {"create", "review", "approve", "reject", "hold", "edit", "delete", "promote", "rollback"}
    Verdicts = {"auto_passed", "manual_review", "rejected", "blocked"}
    Ready = {}
    MaxCopies = 2
SPECIFICATION QueueSpec
INVARIANTS QueueTypeOK OneFileAtRest AuditAgrees
PROPERTIES ImplementsLifecycle
\* every candidate may be deleted and every process killed
CHECK_DEADLOCK FALSE
