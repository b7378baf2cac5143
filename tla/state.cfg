\* Inits, forced or not, overwriting or not, one after the other, stopped anywhere.
CONSTANTS
    Procs = {p1, p2}
    Mortal = {p1}
    IOErrors = TRUE
    None = None
    Torn = Torn
    Break = Break
    Templates = {manifest}
    Directories = {queue}
    Ledgers = {audit}
    InitAlone = TRUE
    MaxEvents = 2
SPECIFICATION StateSpec
INVARIANTS StateTypeOK LedgerFaithful
PROPERTIES InitCompletes UserContentKept
