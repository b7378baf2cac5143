--------------------------- MODULE MCPolicyGates ---------------------------
(***************************************************************************)
(* Constant values for model checking PolicyGates.                         *)
(***************************************************************************)
EXTENDS PolicyGates, TLC

DestPaths == {"MEMORY.md", ".env"}

\* Two lines that share two words; one line, its beginning, and one that talks
\* about promotions.
Short == << <<"brad", "likes", "tea">> >>
Longer == << <<"brad", "likes", "the", "tea">>, <<"in", "winter">> >>
AboutPromotions == << <<"promotion", "of", "candidate">> >>
ThreeTexts == {Short, Longer, AboutPromotions}
Common == {"the", "of", "in"}

\* The default policy, its limits scaled down to the model's.
DefaultPolicy ==
    [allowed |-> {"MEMORY.md"}, allowExternal |-> FALSE, requireSourceHash |-> TRUE,
     manualSensitivities |-> {"sensitive"}, manualScopes |-> {"persona", "ssot", "security"},
     rejectMinRisk |-> "critical", manualMinRisk |-> "high", staleDays |-> 1,
     maxManual |-> 2, maxAuto |-> 1, detectConflicts |-> TRUE]

\* A policy that asks for nothing it need not ask for.
LaxPolicy ==
    [DefaultPolicy EXCEPT !.allowExternal = TRUE, !.requireSourceHash = FALSE,
        !.manualSensitivities = {}, !.manualScopes = {}, !.manualMinRisk = "critical",
        !.staleDays = 2, !.maxAuto = 2, !.detectConflicts = FALSE]
BothPolicies == {DefaultPolicy, LaxPolicy}
OnlyDefault == {DefaultPolicy}

\* Drafts that differ from a plain one in at most two fields, so that any two
\* rules meet, and drafts that pass every rule but conflict detection.
Plain ==
    [source |-> "file", dest |-> "MEMORY.md", scope |-> "project", risk |-> "low",
     sensitivity |-> "internal", length |-> 1, text |-> Short]
EveryDraft ==
    [source : {"file", "external", "manual"}, dest : DestPaths, scope : {"project", "ssot"},
     risk : {"low", "high", "critical"}, sensitivity : {"internal", "sensitive", "secret"},
     length : 1..3, text : {Short}]
PairsOfRules == {d \in EveryDraft : Cardinality({f \in DOMAIN d : d[f] # Plain[f]}) <= 2}
OverlappingDrafts ==
    [source : {"file"}, dest : {"MEMORY.md"}, scope : {"project"}, risk : {"low"},
     sensitivity : {"internal"}, length : {1}, text : ThreeTexts]
Proposals == PairsOfRules \cup OverlappingDrafts
=============================================================================
