---------------------------- MODULE PolicyGates ----------------------------
(***************************************************************************)
(* The policy gates of gates.py and conflict.py, their second evaluation   *)
(* at promotion (executor.py validate_promotion_phase) and the decisions   *)
(* of approvals.py, while source files, the clock and the destinations     *)
(* change between the commands.                                            *)
(*                                                                         *)
(* A command is one step here: CandidateQueue has its file operations and  *)
(* PromotionEngine the lock.  A candidate keeps what the gates look at.  A *)
(* text is a sequence of lines, a line a sequence of words; a destination  *)
(* is the sequence of the blocks appended to it.                           *)
(***************************************************************************)
EXTENDS Naturals, FiniteSets, SequencesExt

CONSTANTS
    Cands,      \* the candidates
    Dests,      \* paths inside the project root and outside .antma
    Texts,      \* the texts proposed
    StopWords,  \* words that are too short or too common to count
    Drafts,     \* what a user may propose
    Policies,   \* the policy files of the project
    Default,    \* the policy promotions run under
    MaxAge,     \* bound on the age of a source file, in days
    MaxBlocks,  \* bound on the blocks in all destinations
    None

Risks == [low |-> 0, medium |-> 1, high |-> 2, critical |-> 3]
Sensitivities == {"public", "internal", "sensitive", "secret"}
Scopes == {"personal", "project", "shared", "persona", "ssot", "security"}

\* Sources: a file inside the project root, one outside, or anything that is
\* not a file (manual, message and api are treated alike).
DraftRecords ==
    [source : {"file", "external", "manual"}, dest : Dests, scope : Scopes,
     risk : DOMAIN Risks, sensitivity : Sensitivities, length : Nat, text : Texts]

PolicyRecords ==
    [allowed : SUBSET Dests, allowExternal : BOOLEAN, requireSourceHash : BOOLEAN,
     manualSensitivities : SUBSET Sensitivities, manualScopes : SUBSET Scopes,
     rejectMinRisk : DOMAIN Risks, manualMinRisk : DOMAIN Risks, staleDays : Nat,
     maxManual : Nat, maxAuto : Nat, detectConflicts : BOOLEAN]

ASSUME GateConstants ==
    /\ Drafts \subseteq DraftRecords
    /\ Policies \subseteq PolicyRecords
    /\ Default \in Policies
    /\ MaxAge \in Nat
    /\ MaxBlocks \in Nat
    /\ None \notin DraftRecords

VARIABLES
    status,  \* status[c]: the queue c is in, or "absent"
    draft,   \* draft[c]: what c proposes
    source,  \* source[c]: c's source file against the hash taken at creation
    age,     \* age[c]: days since c's source file was last written
    blocks   \* blocks[d]: what stands in destination d

world == <<source, age>>
vars == <<status, draft, source, age, blocks>>

ReviewStatuses == {"manual_review", "held"}
Promotable == {"auto_passed", "approved"}
GateStatuses == {"auto_passed", "manual_review", "rejected", "blocked"}
Statuses == GateStatuses \cup ReviewStatuses \cup Promotable
            \cup {"absent", "candidate", "promoted", "failed"}

\* A block is written by hand or appended for a candidate, which had been
\* approved or had passed the gates.
Blocks == [from : {"hand"} \cup Promotable, text : Texts]

GateTypeOK ==
    /\ status \in [Cands -> Statuses]
    /\ draft \in [Cands -> Drafts \cup {None}]
    /\ source \in [Cands -> {"unchanged", "changed", "missing"}]
    /\ age \in [Cands -> 0..MaxAge]
    /\ blocks \in [Dests -> Seq(Blocks)]
    /\ \A c \in Cands : status[c] # "absent" => draft[c] # None

Init ==
    /\ status = [c \in Cands |-> "absent"]
    /\ draft = [c \in Cands |-> None]
    /\ source = [c \in Cands |-> "missing"]
    /\ age = [c \in Cands |-> 0]
    /\ blocks = [d \in Dests |-> <<>>]

-----------------------------------------------------------------------------
(* Conflict detection *)

\* The words of the markers that render_append_block puts around a text.
Marker == <<"antma", "promotion", "candidate">>

BlockLines(b) == IF b.from = "hand" THEN b.text ELSE <<Marker>> \o b.text
Lines(content) == FlattenSeq([i \in DOMAIN content |-> BlockLines(content[i])])

MeaningfulTokens(line) == ToSet(line) \ StopWords

\* Two meaningful words in one line of a destination that does not already
\* contain the text.
DetectConflicts(content, text) ==
    LET file == Lines(content)
        words == FlattenSeq(text)
    IN /\ words \notin SubSeqs(FlattenSeq(file))
       /\ \E i \in DOMAIN file :
            Cardinality(MeaningfulTokens(words) \cap MeaningfulTokens(file[i])) >= 2

-----------------------------------------------------------------------------
(* The gates *)

FromFile(d) == d.source # "manual"
RiskAtLeast(risk, threshold) == Risks[risk] >= Risks[threshold]

SourceBlocked(policy, c) ==
    /\ FromFile(draft[c])
    /\ \/ draft[c].source = "external" /\ ~policy.allowExternal
       \/ source[c] # "unchanged"

\* GateEngine.evaluate: the first rule that objects decides.
Evaluate(policy, c) ==
    LET d == draft[c] IN
    IF d.dest \notin policy.allowed THEN "blocked"
    ELSE IF ~FromFile(d) /\ policy.requireSourceHash THEN "manual_review"
    ELSE IF SourceBlocked(policy, c) THEN "blocked"
    ELSE IF d.sensitivity = "secret" THEN "rejected"
    ELSE IF d.sensitivity \in policy.manualSensitivities THEN "manual_review"
    ELSE IF FromFile(d) /\ age[c] > policy.staleDays THEN "manual_review"
    ELSE IF d.scope \in policy.manualScopes THEN "manual_review"
    ELSE IF RiskAtLeast(d.risk, policy.rejectMinRisk) THEN "rejected"
    ELSE IF RiskAtLeast(d.risk, policy.manualMinRisk) THEN "manual_review"
    ELSE IF d.length > policy.maxManual THEN "blocked"
    ELSE IF d.length > policy.maxAuto THEN "manual_review"
    ELSE IF policy.detectConflicts /\ DetectConflicts(blocks[d.dest], d.text)
    THEN "manual_review"
    ELSE "auto_passed"

-----------------------------------------------------------------------------
(* The commands.  The definitions named ...Mutant are what a plausible slip *)
(* would make of the definition that follows them; Next uses none.         *)

\* A file source exists when it is hashed; how old it is nobody knows.
CreateCandidate(c) ==
    /\ status[c] = "absent"
    /\ \E d \in Drafts, days \in 0..MaxAge :
        /\ draft' = [draft EXCEPT ![c] = d]
        /\ age' = [age EXCEPT ![c] = days]
    /\ status' = [status EXCEPT ![c] = "candidate"]
    /\ source' = [source EXCEPT ![c] = "unchanged"]
    /\ UNCHANGED blocks

\* By id a candidate is evaluated whatever its status, under any policy.
RunReview(c) ==
    /\ status[c] # "absent"
    /\ \E policy \in Policies : status' = [status EXCEPT ![c] = Evaluate(policy, c)]
    /\ UNCHANGED <<draft, world, blocks>>

\* The status is named after the verb.
DecisionMutant(c) ==
    /\ status[c] \in ReviewStatuses
    /\ \E to \in {"approved", "rejected", "hold"} : status' = [status EXCEPT ![c] = to]
    /\ UNCHANGED <<draft, world, blocks>>

Decision(c) ==
    /\ status[c] \in ReviewStatuses
    /\ \E to \in {"approved", "rejected", "held"} : status' = [status EXCEPT ![c] = to]
    /\ UNCHANGED <<draft, world, blocks>>

\* An edit keeps the review status.
EditCandidateMutant(c) ==
    /\ status[c] \in ReviewStatuses
    /\ \E d \in Drafts :
        /\ d.source = draft[c].source
        /\ draft' = [draft EXCEPT ![c] = d]
    /\ UNCHANGED <<status, world, blocks>>

\* A material edit changes anything but the source, and starts over.
EditCandidate(c) ==
    /\ status[c] \in ReviewStatuses
    /\ \E d \in Drafts :
        /\ d.source = draft[c].source
        /\ draft' = [draft EXCEPT ![c] = d]
    /\ status' = [status EXCEPT ![c] = "candidate"]
    /\ UNCHANGED <<world, blocks>>

\* The gates are not evaluated again at promotion.
PromotionValidMutant(c) == FromFile(draft[c]) => source[c] = "unchanged"

\* validate_promotion_phase: the gates again for what passed them, and the
\* source again for everything that has one.
PromotionValid(c) ==
    /\ status[c] = "auto_passed" => Evaluate(Default, c) = "auto_passed"
    /\ FromFile(draft[c]) => source[c] = "unchanged"

AppendBlock(d, block) ==
    /\ Cardinality({at \in Dests \X (1..MaxBlocks) : at[2] <= Len(blocks[at[1]])}) < MaxBlocks
    /\ blocks' = [blocks EXCEPT ![d] = Append(@, block)]

Promote(c) ==
    /\ status[c] \in Promotable
    /\ PromotionValid(c)
    /\ AppendBlock(draft[c].dest, [from |-> status[c], text |-> draft[c].text])
    /\ status' = [status EXCEPT ![c] = "promoted"]
    /\ UNCHANGED <<draft, world>>

PromotionFails(c) ==
    /\ status[c] \in Promotable
    /\ ~PromotionValid(c)
    /\ status' = [status EXCEPT ![c] = "failed"]
    /\ UNCHANGED <<draft, world, blocks>>

-----------------------------------------------------------------------------
(* The world around the commands *)

\* Written again, perhaps with the content it was hashed with.
SourceWritten(c) ==
    /\ status[c] # "absent" /\ FromFile(draft[c])
    /\ \E content \in {"unchanged", "changed"} : source' = [source EXCEPT ![c] = content]
    /\ age' = [age EXCEPT ![c] = 0]
    /\ UNCHANGED <<status, draft, blocks>>

SourceRemoved(c) ==
    /\ status[c] # "absent" /\ FromFile(draft[c])
    /\ source' = [source EXCEPT ![c] = "missing"]
    /\ UNCHANGED <<status, draft, age, blocks>>

DayPasses ==
    /\ age' = [c \in Cands |-> IF age[c] < MaxAge THEN age[c] + 1 ELSE age[c]]
    /\ UNCHANGED <<status, draft, source, blocks>>

EditByHand(d) ==
    /\ \E text \in Texts : AppendBlock(d, [from |-> "hand", text |-> text])
    /\ UNCHANGED <<status, draft, world>>

Next ==
    \/ \E c \in Cands :
        CreateCandidate(c) \/ RunReview(c) \/ Decision(c) \/ EditCandidate(c) \/ Promote(c)
        \/ PromotionFails(c) \/ SourceWritten(c) \/ SourceRemoved(c)
    \/ DayPasses
    \/ \E d \in Dests : EditByHand(d)

GateSpec == Init /\ [][Next]_vars

-----------------------------------------------------------------------------
(* Properties *)

Promotes(c) == status[c] \in Promotable /\ status'[c] = "promoted"

\* What is promoted without a human decision breaks no rule of the default
\* policy at that moment, whichever policy reviewed it and whatever happened
\* to its source, to the clock and to the destination since.
\* (executor.py validate_promotion_phase.)
UnreviewedAllowed ==
    [][\A c \in Cands :
        Promotes(c) /\ status[c] = "auto_passed" =>
            LET d == draft[c] IN
            /\ d.dest \in Default.allowed
            /\ d.sensitivity # "secret"
            /\ d.sensitivity \notin Default.manualSensitivities
            /\ d.scope \notin Default.manualScopes
            /\ Risks[d.risk] < Risks[Default.manualMinRisk]
            /\ d.length <= Default.maxAuto
            /\ FromFile(d) => age[c] <= Default.staleDays
            /\ d.source = "external" => Default.allowExternal
            /\ d.source = "manual" => ~Default.requireSourceHash]_vars

\* A candidate of secret sensitivity that has a file source is never approved
\* or promoted, whatever is edited, decided or changed around it.
\* (gates.py evaluate; approvals.py edit_candidate.)
FileSecretsRefused ==
    \A c \in Cands :
        status[c] \in Promotable \cup ReviewStatuses \cup {"promoted"}
        /\ FromFile(draft[c]) => draft[c].sensitivity # "secret"

\* Nothing is appended to a destination that every policy denies, not even
\* after an approval followed by an edit.  (gates.py _validate_destination.)
DeniedDestinationKept ==
    \A d \in Dests : (\A policy \in Policies : d \notin policy.allowed) =>
        \A i \in DOMAIN blocks[d] : blocks[d][i].from = "hand"

\* A block that was promoted without a human decision overlaps with nothing
\* above it: of two candidates that passed the gates before either was
\* promoted, the second is stopped.  (gates.py _validate_conflicts.)
NoUnreviewedConflict ==
    Default.detectConflicts =>
        \A d \in Dests : \A i \in DOMAIN blocks[d] :
            blocks[d][i].from = "auto_passed" =>
                ~DetectConflicts(SubSeq(blocks[d], 1, i - 1), blocks[d][i].text)

\* No secret is ever promoted.  The code breaks this: a source without a hash
\* is sent to manual review before the sensitivity is looked at, and an approval
\* then carries the secret through.  (policy.py on_secret; gates.py evaluate.)
SecretsRefused ==
    \A c \in Cands : status[c] = "promoted" => draft[c].sensitivity # "secret"
=============================================================================
