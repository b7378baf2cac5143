\* One process rebuilds or reads and may be killed, another reads or rebuilds.
CONSTANTS
    Procs = {p1, p2}
    Mortal = {p1}
    IOErrors = TRUE
    None = None
    Paths = {a, b}
    OneRebuild = TRUE
    MaxVersions = 2
SPECIFICATION FairIndexSpec
INVARIANTS IndexTypeOK
PROPERTIES ImplementsCache AnswersTruthful CommandsEnd
