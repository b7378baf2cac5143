\* One candidate of every kind, reviewed under either policy.
CONSTANTS
    Cands = {c1}
    Dests <- DestPaths
    Texts <- ThreeTexts
    StopWords <- Common
    Drafts <- Proposals
    Policies <- BothPolicies
    Default <- DefaultPolicy
    MaxAge = 2
    MaxBlocks = 2
    None = None
SPECIFICATION GateSpec
INVARIANTS GateTypeOK FileSecretsRefused DeniedDestinationKept NoUnreviewedConflict
PROPERTIES UnreviewedAllowed
