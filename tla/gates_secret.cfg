\* One candidate of every kind: a secret without a source hash.
CONSTANTS
    Cands = {c1}
    Dests <- DestPaths
    Texts <- ThreeTexts
    StopWords <- Common
    Drafts <- Proposals
    Policies <- OnlyDefault
    Default <- DefaultPolicy
    MaxAge = 2
    MaxBlocks = 1
    None = None
SPECIFICATION GateSpec
INVARIANTS SecretsRefused
