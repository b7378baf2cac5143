------------------------- MODULE PolicyGatesProofs -------------------------
(***************************************************************************)
(* Proofs about PolicyGates, for any candidates, drafts and policies.      *)
(***************************************************************************)
EXTENDS PolicyGates, TLAPS

\* The gates end in one of four verdicts.
LEMMA EvaluateVerdict ==
    ASSUME NEW policy, NEW c
    PROVE  Evaluate(policy, c) \in GateStatuses
BY DEF Evaluate, GateStatuses

\* What passes the gates breaks none of their rules.
LEMMA PassedEvery ==
    ASSUME NEW policy \in PolicyRecords, NEW c, draft[c] \in DraftRecords, age[c] \in Nat,
           Evaluate(policy, c) = "auto_passed"
    PROVE  LET d == draft[c] IN
           /\ d.dest \in policy.allowed
           /\ d.sensitivity # "secret"
           /\ d.sensitivity \notin policy.manualSensitivities
           /\ d.scope \notin policy.manualScopes
           /\ ~RiskAtLeast(d.risk, policy.manualMinRisk)
           /\ ~(d.length > policy.maxAuto)
           /\ FromFile(d) => ~(age[c] > policy.staleDays)
           /\ d.source = "external" => policy.allowExternal
           /\ d.source = "manual" => ~policy.requireSourceHash
           /\ policy.detectConflicts => ~DetectConflicts(blocks[d.dest], d.text)
BY DEF Evaluate, FromFile, SourceBlocked

\* The gates ask a human about a candidate with a file source only when its
\* sensitivity is not secret, and about none whose destination is not allowed.
LEMMA AskedAbout ==
    ASSUME NEW policy, NEW c, Evaluate(policy, c) \in Promotable \cup ReviewStatuses
    PROVE  /\ draft[c].dest \in policy.allowed
           /\ FromFile(draft[c]) => draft[c].sensitivity # "secret"
BY DEF Evaluate, Promotable, ReviewStatuses, FromFile

-----------------------------------------------------------------------------
LEMMA GateInitTypeOK == Init => GateTypeOK
BY GateConstants DEF Init, GateTypeOK, Statuses

LEMMA AppendBlockType ==
    ASSUME GateTypeOK, NEW d \in Dests, NEW b \in Blocks, AppendBlock(d, b)
    PROVE  /\ blocks' \in [Dests -> Seq(Blocks)]
           /\ blocks' = [blocks EXCEPT ![d] = Append(blocks[d], b)]
<1>1. blocks[d] \in Seq(Blocks)
  BY DEF GateTypeOK
<1>2. Append(blocks[d], b) \in Seq(Blocks)
  BY <1>1
<1> QED
  BY <1>2 DEF AppendBlock, GateTypeOK

LEMMA GateTypeStep == GateTypeOK /\ [Next]_vars => GateTypeOK'
<1> SUFFICES ASSUME GateTypeOK, [Next]_vars PROVE GateTypeOK'
  OBVIOUS
<1> USE GateConstants
<1>1. ASSUME NEW c \in Cands, CreateCandidate(c) PROVE GateTypeOK'
  BY <1>1 DEF CreateCandidate, GateTypeOK, Statuses
<1>2. ASSUME NEW c \in Cands, RunReview(c) PROVE GateTypeOK'
  BY <1>2, EvaluateVerdict DEF RunReview, GateTypeOK, Statuses, world
<1>3. ASSUME NEW c \in Cands, Decision(c) PROVE GateTypeOK'
  BY <1>3 DEF Decision, GateTypeOK, Statuses, ReviewStatuses, GateStatuses, Promotable, world
<1>4. ASSUME NEW c \in Cands, EditCandidate(c) PROVE GateTypeOK'
  BY <1>4 DEF EditCandidate, GateTypeOK, Statuses, world
<1>5. ASSUME NEW c \in Cands, Promote(c) PROVE GateTypeOK'
  <2>1. draft[c] \in DraftRecords
    BY <1>5 DEF Promote, GateTypeOK, Promotable
  <2>2. /\ draft[c].dest \in Dests
        /\ [from |-> status[c], text |-> draft[c].text] \in Blocks
    BY <1>5, <2>1 DEF Promote, DraftRecords, Blocks
  <2>3. blocks' \in [Dests -> Seq(Blocks)]
    BY <1>5, <2>2, AppendBlockType DEF Promote
  <2> QED
    BY <1>5, <2>3 DEF Promote, GateTypeOK, Statuses, Promotable, world
<1>6. ASSUME NEW c \in Cands, PromotionFails(c) PROVE GateTypeOK'
  BY <1>6 DEF PromotionFails, GateTypeOK, Statuses, Promotable, world
<1>7. ASSUME NEW c \in Cands, SourceWritten(c) PROVE GateTypeOK'
  BY <1>7 DEF SourceWritten, GateTypeOK
<1>8. ASSUME NEW c \in Cands, SourceRemoved(c) PROVE GateTypeOK'
  BY <1>8 DEF SourceRemoved, GateTypeOK
<1>9. ASSUME DayPasses PROVE GateTypeOK'
  BY <1>9 DEF DayPasses, GateTypeOK
<1>10. ASSUME NEW d \in Dests, EditByHand(d) PROVE GateTypeOK'
  <2>1. blocks' \in [Dests -> Seq(Blocks)]
    BY <1>10, AppendBlockType DEF EditByHand, Blocks
  <2> QED
    BY <1>10, <2>1 DEF EditByHand, GateTypeOK, world
<1>11. ASSUME UNCHANGED vars PROVE GateTypeOK'
  BY <1>11 DEF vars, GateTypeOK
<1> QED
  BY <1>1, <1>2, <1>3, <1>4, <1>5, <1>6, <1>7, <1>8, <1>9, <1>10, <1>11 DEF Next

\* Candidates, sources and destinations keep their types.
\* (candidates.py, gates.py, executor.py.)
THEOREM GateTypeCorrect == GateSpec => []GateTypeOK
BY GateInitTypeOK, GateTypeStep, PTL DEF GateSpec

-----------------------------------------------------------------------------
\* Only Promote promotes.
LEMMA PromotesOnlyPromote ==
    ASSUME GateTypeOK, [Next]_vars, NEW c \in Cands, Promotes(c)
    PROVE  Promote(c)
<1> USE DEF GateTypeOK
<1>0. status[c] \in {"auto_passed", "approved"} /\ status'[c] = "promoted"
  BY DEF Promotes, Promotable
<1>1. ASSUME NEW x \in Cands, CreateCandidate(x) PROVE FALSE
  BY <1>0, <1>1 DEF CreateCandidate
<1>2. ASSUME NEW x \in Cands, RunReview(x) PROVE FALSE
  <2>1. PICK policy \in Policies : status' = [status EXCEPT ![x] = Evaluate(policy, x)]
    BY <1>2 DEF RunReview
  <2>2. Evaluate(policy, x) # "promoted"
    BY EvaluateVerdict DEF GateStatuses
  <2> QED
    BY <1>0, <2>1, <2>2
<1>3. ASSUME NEW x \in Cands, Decision(x) PROVE FALSE
  BY <1>0, <1>3 DEF Decision
<1>4. ASSUME NEW x \in Cands, EditCandidate(x) PROVE FALSE
  BY <1>0, <1>4 DEF EditCandidate
<1>5. ASSUME NEW x \in Cands, Promote(x) PROVE x = c
  BY <1>0, <1>5 DEF Promote
<1>6. ASSUME NEW x \in Cands, PromotionFails(x) PROVE FALSE
  BY <1>0, <1>6 DEF PromotionFails
<1>7. ASSUME status' = status PROVE FALSE
  BY <1>0, <1>7
<1> QED
  BY <1>1, <1>2, <1>3, <1>4, <1>5, <1>6, <1>7
     DEF Next, vars, SourceWritten, SourceRemoved, DayPasses, EditByHand

\* Whatever reviewed it, and whatever has changed since: a promotion without a
\* human decision breaks no rule of the default policy.
\* (executor.py validate_promotion_phase.)
THEOREM UnreviewedAllowedHolds == GateSpec => UnreviewedAllowed
<1> DEFINE Allowed(d, c) ==
        /\ d.dest \in Default.allowed
        /\ d.sensitivity # "secret"
        /\ d.sensitivity \notin Default.manualSensitivities
        /\ d.scope \notin Default.manualScopes
        /\ Risks[d.risk] < Risks[Default.manualMinRisk]
        /\ d.length <= Default.maxAuto
        /\ FromFile(d) => age[c] <= Default.staleDays
        /\ d.source = "external" => Default.allowExternal
        /\ d.source = "manual" => ~Default.requireSourceHash
<1>1. ASSUME GateTypeOK, [Next]_vars, NEW c \in Cands, Promotes(c), status[c] = "auto_passed"
      PROVE  Allowed(draft[c], c)
  <2>1. Promote(c)
    BY <1>1, PromotesOnlyPromote
  <2>2. Evaluate(Default, c) = "auto_passed"
    BY <1>1, <2>1 DEF Promote, PromotionValid
  <2>3. draft[c] \in DraftRecords /\ age[c] \in Nat /\ Default \in PolicyRecords
    BY <1>1, GateConstants DEF GateTypeOK
  <2>4. /\ draft[c].length \in Nat /\ Default.maxAuto \in Nat /\ Default.staleDays \in Nat
        /\ draft[c].risk \in DOMAIN Risks /\ Default.manualMinRisk \in DOMAIN Risks
    BY <2>3 DEF DraftRecords, PolicyRecords
  <2>5. Risks[draft[c].risk] \in Nat /\ Risks[Default.manualMinRisk] \in Nat
    BY <2>4 DEF Risks
  <2>6. ~RiskAtLeast(draft[c].risk, Default.manualMinRisk)
    BY <2>2, <2>3, PassedEvery
  <2>7. Risks[draft[c].risk] < Risks[Default.manualMinRisk]
    BY <2>5, <2>6 DEF RiskAtLeast
  <2> QED
    BY <2>2, <2>3, <2>4, <2>7, PassedEvery
<1>2. GateTypeOK /\ [Next]_vars =>
        [\A c \in Cands : Promotes(c) /\ status[c] = "auto_passed" => Allowed(draft[c], c)]_vars
  BY <1>1
<1> QED
  BY <1>2, GateTypeCorrect, PTL DEF GateSpec, UnreviewedAllowed

-----------------------------------------------------------------------------
\* A secret with a file source is never put to a human: a review rejects or
\* blocks it, and an edit that makes one starts the candidate over.
\* (gates.py evaluate; approvals.py edit_candidate.)
THEOREM FileSecretsRefusedHolds == GateSpec => []FileSecretsRefused
<1>1. Init => FileSecretsRefused
  BY DEF Init, FileSecretsRefused, Promotable, ReviewStatuses
<1>2. GateTypeOK /\ FileSecretsRefused /\ [Next]_vars => FileSecretsRefused'
  <2> SUFFICES ASSUME GateTypeOK, FileSecretsRefused, [Next]_vars, NEW c \in Cands,
                      status'[c] \in Promotable \cup ReviewStatuses \cup {"promoted"},
                      FromFile(draft'[c])
               PROVE  draft'[c].sensitivity # "secret"
    BY DEF FileSecretsRefused, FromFile
  <2> USE DEF GateTypeOK
  <2>1. CASE status'[c] = status[c] /\ draft'[c] = draft[c]
    BY <2>1 DEF FileSecretsRefused, FromFile
  <2>2. ASSUME NEW x \in Cands, CreateCandidate(x) \/ EditCandidate(x)
        PROVE  status'[c] = status[c] /\ draft'[c] = draft[c]
    BY <2>2 DEF CreateCandidate, EditCandidate, Promotable, ReviewStatuses
  <2>3. ASSUME NEW x \in Cands, RunReview(x), status'[c] # status[c]
        PROVE  draft'[c].sensitivity # "secret"
    <3>1. PICK policy \in Policies : status' = [status EXCEPT ![x] = Evaluate(policy, x)]
      BY <2>3 DEF RunReview
    <3>2. x = c /\ status'[c] = Evaluate(policy, c) /\ draft' = draft
      BY <2>3, <3>1 DEF RunReview
    <3>3. Evaluate(policy, c) # "promoted"
      BY EvaluateVerdict DEF GateStatuses
    <3> QED
      BY <3>2, <3>3, AskedAbout
  <2>4. ASSUME NEW x \in Cands, Decision(x) \/ Promote(x) \/ PromotionFails(x),
               status'[c] # status[c]
        PROVE  draft'[c].sensitivity # "secret"
    <3>1. x = c /\ draft' = draft /\ status[c] \in Promotable \cup ReviewStatuses
      BY <2>4 DEF Decision, Promote, PromotionFails
    <3> QED
      BY <3>1 DEF FileSecretsRefused
  <2>5. ASSUME UNCHANGED <<status, draft>> PROVE draft'[c].sensitivity # "secret"
    BY <2>1, <2>5
  <2>6. ASSUME NEW x \in Cands,
               RunReview(x) \/ Decision(x) \/ Promote(x) \/ PromotionFails(x)
        PROVE  draft' = draft
    BY <2>6 DEF RunReview, Decision, Promote, PromotionFails
  <2> QED
    BY <2>1, <2>2, <2>3, <2>4, <2>5, <2>6
       DEF Next, vars, SourceWritten, SourceRemoved, DayPasses, EditByHand
<1> QED
  BY <1>1, <1>2, GateTypeCorrect, PTL DEF GateSpec

\* A destination that every policy denies keeps what its user wrote: the
\* strengthening says that nothing waiting for a decision or for promotion
\* names one.  (gates.py _validate_destination.)
Denied(d) == \A policy \in Policies : d \notin policy.allowed

NoneForDenied ==
    \A c \in Cands : status[c] \in Promotable \cup ReviewStatuses => ~Denied(draft[c].dest)

THEOREM DeniedDestinationKeptHolds == GateSpec => []DeniedDestinationKept
<1> DEFINE IInv == NoneForDenied /\ DeniedDestinationKept
<1>1. Init => IInv
  BY DEF Init, NoneForDenied, DeniedDestinationKept, Promotable, ReviewStatuses
<1>2. GateTypeOK /\ NoneForDenied /\ [Next]_vars => NoneForDenied'
  <2> SUFFICES ASSUME GateTypeOK, NoneForDenied, [Next]_vars, NEW c \in Cands,
                      status'[c] \in Promotable \cup ReviewStatuses
               PROVE  ~Denied(draft'[c].dest)
    BY DEF NoneForDenied, Denied
  <2> USE DEF GateTypeOK
  <2>1. CASE status'[c] = status[c] /\ draft'[c] = draft[c]
    BY <2>1 DEF NoneForDenied
  <2>2. ASSUME NEW x \in Cands, CreateCandidate(x) \/ EditCandidate(x)
        PROVE  status'[c] = status[c] /\ draft'[c] = draft[c]
    BY <2>2 DEF CreateCandidate, EditCandidate, Promotable, ReviewStatuses
  <2>3. ASSUME NEW x \in Cands, RunReview(x), status'[c] # status[c]
        PROVE  ~Denied(draft'[c].dest)
    <3>1. PICK policy \in Policies : status' = [status EXCEPT ![x] = Evaluate(policy, x)]
      BY <2>3 DEF RunReview
    <3>2. x = c /\ status'[c] = Evaluate(policy, c) /\ draft' = draft
      BY <2>3, <3>1 DEF RunReview
    <3> QED
      BY <3>2, AskedAbout DEF Denied
  <2>4. ASSUME NEW x \in Cands, Decision(x) \/ Promote(x) \/ PromotionFails(x),
               status'[c] # status[c]
        PROVE  ~Denied(draft'[c].dest)
    <3>1. x = c /\ draft' = draft /\ status[c] \in Promotable \cup ReviewStatuses
      BY <2>4 DEF Decision, Promote, PromotionFails
    <3> QED
      BY <3>1 DEF NoneForDenied
  <2>5. ASSUME NEW x \in Cands,
               RunReview(x) \/ Decision(x) \/ Promote(x) \/ PromotionFails(x)
        PROVE  draft' = draft
    BY <2>5 DEF RunReview, Decision, Promote, PromotionFails
  <2> QED
    BY <2>1, <2>2, <2>3, <2>4, <2>5
       DEF Next, vars, SourceWritten, SourceRemoved, DayPasses, EditByHand
<1>3. GateTypeOK /\ IInv /\ [Next]_vars => DeniedDestinationKept'
  <2> SUFFICES ASSUME GateTypeOK, IInv, [Next]_vars, NEW d \in Dests, Denied(d),
                      NEW i \in DOMAIN blocks'[d]
               PROVE  blocks'[d][i].from = "hand"
    BY DEF DeniedDestinationKept, Denied
  <2>1. CASE blocks'[d] = blocks[d]
    BY <2>1 DEF DeniedDestinationKept, Denied
  <2>2. ASSUME NEW b \in Blocks, AppendBlock(d, b), b.from = "hand"
        PROVE  blocks'[d][i].from = "hand"
    <3>1. blocks[d] \in Seq(Blocks) /\ blocks'[d] = Append(blocks[d], b)
      BY <2>2, AppendBlockType DEF GateTypeOK
    <3>2. \A j \in DOMAIN blocks[d] : blocks[d][j].from = "hand"
      BY DEF DeniedDestinationKept, Denied
    <3> QED
      BY <2>2, <3>1, <3>2
  <2>3. ASSUME NEW c \in Cands, Promote(c) PROVE blocks'[d] = blocks[d]
    <3>1. draft[c] \in DraftRecords /\ draft[c].dest # d
      BY <2>3, GateConstants DEF Promote, Promotable, NoneForDenied, GateTypeOK
    <3>2. /\ draft[c].dest \in Dests
          /\ [from |-> status[c], text |-> draft[c].text] \in Blocks
      BY <2>3, <3>1 DEF Promote, DraftRecords, Blocks
    <3> QED
      BY <2>3, <3>1, <3>2, AppendBlockType DEF Promote, GateTypeOK
  <2>4. ASSUME NEW e \in Dests, EditByHand(e) PROVE blocks'[d][i].from = "hand"
    <3>1. PICK text \in Texts : AppendBlock(e, [from |-> "hand", text |-> text])
      BY <2>4 DEF EditByHand
    <3>2. [from |-> "hand", text |-> text] \in Blocks
      BY DEF Blocks
    <3>3. CASE e = d
      BY <2>2, <3>1, <3>2, <3>3
    <3>4. CASE e # d
      BY <2>1, <3>1, <3>2, <3>4, AppendBlockType DEF GateTypeOK
    <3> QED
      BY <3>3, <3>4
  <2> QED
    BY <2>1, <2>3, <2>4
       DEF Next, vars, CreateCandidate, RunReview, Decision, EditCandidate, PromotionFails,
           SourceWritten, SourceRemoved, DayPasses
<1> QED
  BY <1>1, <1>2, <1>3, GateTypeCorrect, PTL DEF GateSpec

-----------------------------------------------------------------------------
\* Appending leaves everything above a block as it was.
LEMMA AboveAppended ==
    ASSUME NEW S, NEW s \in Seq(S), NEW e \in S, NEW i \in 1..(Len(s) + 1)
    PROVE  SubSeq(Append(s, e), 1, i - 1) = SubSeq(s, 1, i - 1)
OBVIOUS

\* A block promoted without a human decision overlaps with nothing above it,
\* however many candidates were reviewed before it and whoever wrote the lines.
\* (gates.py _validate_conflicts; executor.py validate_promotion_phase.)
THEOREM NoUnreviewedConflictHolds == GateSpec => []NoUnreviewedConflict
<1>1. Init => NoUnreviewedConflict
  BY DEF Init, NoUnreviewedConflict
<1>2. GateTypeOK /\ NoUnreviewedConflict /\ [Next]_vars => NoUnreviewedConflict'
  <2> SUFFICES ASSUME GateTypeOK, NoUnreviewedConflict, [Next]_vars, Default.detectConflicts,
                      NEW d \in Dests, NEW i \in DOMAIN blocks'[d],
                      blocks'[d][i].from = "auto_passed"
               PROVE  ~DetectConflicts(SubSeq(blocks'[d], 1, i - 1), blocks'[d][i].text)
    BY DEF NoUnreviewedConflict, DetectConflicts, Lines
  <2>1. CASE blocks'[d] = blocks[d]
    BY <2>1 DEF NoUnreviewedConflict
  <2>2. ASSUME NEW b \in Blocks, AppendBlock(d, b),
               b.from = "auto_passed" => ~DetectConflicts(blocks[d], b.text)
        PROVE  ~DetectConflicts(SubSeq(blocks'[d], 1, i - 1), blocks'[d][i].text)
    <3>1. blocks[d] \in Seq(Blocks) /\ blocks'[d] = Append(blocks[d], b)
      BY <2>2, AppendBlockType DEF GateTypeOK
    <3>2. i \in 1..(Len(blocks[d]) + 1)
      BY <3>1
    <3>3. SubSeq(blocks'[d], 1, i - 1) = SubSeq(blocks[d], 1, i - 1)
      BY <3>1, <3>2, AboveAppended
    <3>4. CASE i = Len(blocks[d]) + 1
      <4>1. SubSeq(blocks[d], 1, i - 1) = blocks[d]
        BY <3>1, <3>4
      <4>2. blocks'[d][i] = b
        BY <3>1, <3>4
      <4> QED
        BY <2>2, <3>3, <4>1, <4>2
    <3>5. CASE i # Len(blocks[d]) + 1
      <4>1. i \in DOMAIN blocks[d] /\ blocks'[d][i] = blocks[d][i]
        BY <3>1, <3>2, <3>5
      <4> QED
        BY <3>3, <4>1 DEF NoUnreviewedConflict
    <3> QED
      BY <3>4, <3>5
  <2>3. ASSUME NEW e \in Dests, NEW b \in Blocks, AppendBlock(e, b), e # d
        PROVE  blocks'[d] = blocks[d]
    BY <2>3, AppendBlockType DEF GateTypeOK
  <2>4. ASSUME NEW c \in Cands, Promote(c)
        PROVE  ~DetectConflicts(SubSeq(blocks'[d], 1, i - 1), blocks'[d][i].text)
    <3> DEFINE b == [from |-> status[c], text |-> draft[c].text]
    <3>1. draft[c] \in DraftRecords /\ age[c] \in Nat /\ Default \in PolicyRecords
      BY <2>4, GateConstants DEF Promote, Promotable, GateTypeOK
    <3>2. draft[c].dest \in Dests /\ b \in Blocks /\ AppendBlock(draft[c].dest, b)
      BY <2>4, <3>1 DEF Promote, DraftRecords, Blocks
    <3>3. b.from = "auto_passed" => ~DetectConflicts(blocks[draft[c].dest], b.text)
      BY <2>4, <3>1, PassedEvery DEF Promote, PromotionValid
    <3>4. CASE draft[c].dest = d
      BY <2>2, <3>2, <3>3, <3>4
    <3>5. CASE draft[c].dest # d
      BY <2>1, <2>3, <3>2, <3>5
    <3> QED
      BY <3>4, <3>5
  <2>5. ASSUME NEW e \in Dests, EditByHand(e)
        PROVE  ~DetectConflicts(SubSeq(blocks'[d], 1, i - 1), blocks'[d][i].text)
    <3>1. PICK text \in Texts : AppendBlock(e, [from |-> "hand", text |-> text])
      BY <2>5 DEF EditByHand
    <3> DEFINE b == [from |-> "hand", text |-> text]
    <3>2. b \in Blocks /\ b.from # "auto_passed"
      BY DEF Blocks
    <3> HIDE DEF b
    <3>3. CASE e = d
      BY <2>2, <3>1, <3>2, <3>3 DEF b
    <3>4. CASE e # d
      BY <2>1, <2>3, <3>1, <3>2, <3>4 DEF b
    <3> QED
      BY <3>3, <3>4
  <2> QED
    BY <2>1, <2>4, <2>5
       DEF Next, vars, CreateCandidate, RunReview, Decision, EditCandidate, PromotionFails,
           SourceWritten, SourceRemoved, DayPasses
<1> QED
  BY <1>1, <1>2, GateTypeCorrect, PTL DEF GateSpec
=============================================================================
