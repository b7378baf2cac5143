------------------------ MODULE CandidateQueueProofs ------------------------
(***************************************************************************)
(* Proofs about the candidate queue for any number of processes,           *)
(* candidates and versions, with every interleaving, crash and I/O error:  *)
(* its type invariant, and that what is in promoted/ and approved/ has a   *)
(* ledger record and was passed by the gates or approved by a reviewer.    *)
(***************************************************************************)
EXTENDS CandidateQueue, TLAPS

\* The whole state of the queue.
qvars == <<queueVars, dead>>

LEMMA DecisionStatusFacts ==
    \A d \in Decisions : /\ DecisionStatus[d] \in {"approved", "rejected", "held"}
                         /\ DecisionStatus[d] = "approved" => d = "approve"
  BY DEF Decisions, DecisionStatus

\* Writing one file keeps the type of all of them.
LEMMA SetFileType ==
    ASSUME QueueTypeOK, NEW c \in Cands, NEW s \in Status,
           NEW v \in Texts \cup {None, Torn}, SetFile(c, s, v)
    PROVE  files' \in [Cands -> [Status -> Texts \cup {None, Torn}]]
  BY DEF QueueTypeOK, SetFile

\* A file other than the written one keeps its contents.
LEMMA SetFileReads ==
    ASSUME QueueTypeOK, NEW c \in Cands, NEW s \in Status, NEW v, SetFile(c, s, v)
    PROVE  \A d \in Cands, r \in Status :
             files'[d][r] = IF d = c /\ r = s THEN v ELSE files[d][r]
  BY DEF QueueTypeOK, SetFile

LEMMA JobFields ==
    ASSUME QueueTypeOK, NEW p \in Procs, job[p] # None
    PROVE  /\ job[p] \in Jobs
           /\ job[p].cmd \in AllCommands /\ job[p].at \in Points
           /\ job[p].cand \in Cands /\ job[p].old \in Status /\ job[p].new \in Status
           /\ job[p].text \in Texts \cup {None}
<1>1. job[p] \in Jobs
  BY DEF QueueTypeOK
<1> QED BY <1>1 DEF Jobs

\* One process's job is replaced by a well-formed one.
LEMMA JobStep ==
    ASSUME QueueTypeOK, NEW p \in Procs, NEW j \in Jobs \cup {None},
           j # None => WellFormed(j), job' = [job EXCEPT ![p] = j]
    PROVE  /\ job' \in [Procs -> Jobs \cup {None}]
           /\ \A q \in Procs : job'[q] # None => WellFormed(job'[q])
  BY DEF QueueTypeOK

LEMMA PointsAreWords ==
    \A a \in {"load", "reload", "unlink", "validate", "record", "promote_audit",
              "open", "fill", "unlink_old", "audit"} : a \in Points
  BY DEF Points

\* The job's part of the type invariant.
JobsOK ==
    /\ job \in [Procs -> Jobs \cup {None}]
    /\ \A p \in Procs : job[p] # None => WellFormed(job[p])

LEMMA ContinueOK ==
    ASSUME QueueTypeOK, NEW p \in Procs, NEW a \in Points, job[p] # None,
           \/ job[p].at \notin {"load", "unlink", "audit"} /\ a # "unlink"
           \/ job[p].cmd = "delete" /\ a \in {"unlink", "audit"},
           Continue(p, a)
    PROVE  JobsOK'
<1>1. job[p] \in Jobs /\ WellFormed(job[p])
  BY JobFields DEF QueueTypeOK
<1>2. [job[p] EXCEPT !.at = a] \in Jobs /\ WellFormed([job[p] EXCEPT !.at = a])
  BY <1>1 DEF Jobs, WellFormed
<1>3. job' = [job EXCEPT ![p] = [job[p] EXCEPT !.at = a]]
  BY DEF Continue
<1> QED BY <1>2, <1>3, JobStep DEF JobsOK

LEMMA FinishOK ==
    ASSUME QueueTypeOK, NEW p \in Procs, Finish(p)
    PROVE  JobsOK'
  BY JobStep DEF JobsOK, Finish

LEMMA LoadOK ==
    ASSUME QueueTypeOK, NEW p \in Procs, NEW a \in Points, NEW s \in Status, NEW t \in Texts,
           job[p] # None, a # "unlink", job[p].cmd # "delete",
           \/ job' = [job EXCEPT ![p] = [@ EXCEPT !.at = a, !.new = s, !.text = t]]
           \/ job' = [job EXCEPT ![p] = [@ EXCEPT !.at = a, !.text = t, !.new = s]]
           \/ job' = [job EXCEPT ![p] = [@ EXCEPT !.at = a, !.text = t]]
    PROVE  JobsOK'
<1> DEFINE j == [job[p] EXCEPT !.at = a, !.new = s, !.text = t]
           k == [job[p] EXCEPT !.at = a, !.text = t]
<1>1. job[p] \in Jobs
  BY JobFields
<1>2. j \in Jobs /\ WellFormed(j) /\ k \in Jobs /\ WellFormed(k)
  BY <1>1 DEF Jobs, WellFormed
<1>3. j = [job[p] EXCEPT !.at = a, !.text = t, !.new = s]
  BY <1>1 DEF Jobs
<1>4. job' = [job EXCEPT ![p] = j] \/ job' = [job EXCEPT ![p] = k]
  BY <1>3
<1> QED BY <1>2, <1>4, JobStep DEF JobsOK

LEMMA RedirectOK ==
    ASSUME QueueTypeOK, NEW p \in Procs, NEW a \in Points, NEW s \in Status, job[p] # None,
           a # "unlink", job[p].at \notin {"load", "unlink", "audit"},
           job' = [job EXCEPT ![p] = [@ EXCEPT !.at = a, !.new = s]]
    PROVE  JobsOK'
<1> DEFINE j == [job[p] EXCEPT !.at = a, !.new = s]
<1>1. job[p] \in Jobs /\ WellFormed(job[p])
  BY JobFields DEF QueueTypeOK
<1>2. j \in Jobs /\ WellFormed(j)
  BY <1>1 DEF Jobs, WellFormed
<1>3. job' = [job EXCEPT ![p] = j]
  OBVIOUS
<1> QED BY <1>2, <1>3, JobStep DEF JobsOK

LEMMA QueueInitTypeOK ==
    ASSUME QueueInit PROVE QueueTypeOK
<1> USE WorkspaceConstants, QueueConstants, NoneIsNoJob
<1> PICK version \in [Ready -> Texts] :
       /\ files = [c \in Cands |-> [s \in Status |->
                     IF c \in Ready /\ s = "auto_passed" THEN version[c] ELSE None]]
       /\ gated = [c \in Cands |-> IF c \in Ready THEN {version[c]} ELSE {}]
  BY DEF QueueInit
<1>1. files \in [Cands -> [Status -> Texts \cup {None, Torn}]]
  OBVIOUS
<1>2. gated \in [Cands -> SUBSET Texts]
  OBVIOUS
<1> QED BY <1>1, <1>2 DEF QueueInit, QueueTypeOK, Status

LEMMA QueueTypeStep ==
    ASSUME QueueTypeOK, [QueueNext]_qvars PROVE QueueTypeOK'
<1> USE WorkspaceConstants, QueueConstants, NoneIsNoJob
<1>1. ASSUME NEW p \in Procs, NEW c \in Cands, NEW t \in Texts, CreateCandidate(p, c, t)
      PROVE  QueueTypeOK'
  <2>1. files' \in [Cands -> [Status -> Texts \cup {None, Torn}]]
    BY <1>1, SetFileType DEF CreateCandidate, Status
  <2>2. JobsOK'
    BY <1>1, JobStep DEF CreateCandidate, JobsOK, Jobs, WellFormed, AllCommands, Points, Status
  <2> QED BY <1>1, <2>1, <2>2 DEF QueueTypeOK, JobsOK, CreateCandidate
<1>2. ASSUME NEW p \in Procs, NEW c \in Cands, NEW s \in Status, NEW cmd \in AllCommands,
             Start(p, cmd, c, s)
      PROVE  QueueTypeOK'
  <2>1. JobsOK'
    BY <1>2, JobStep DEF Start, JobsOK, Jobs, WellFormed, Points
  <2> QED BY <1>2, <2>1 DEF QueueTypeOK, JobsOK, Start, auxVars
<1>3. ASSUME NEW p \in Procs, NEW v \in GateStatuses, Evaluate(p, v)
      PROVE  QueueTypeOK'
  <2>1. JobsOK'
    BY <1>3, LoadOK, PointsAreWords DEF Evaluate, Load, Running, GateStatuses, Status
  <2>2. job[p].cand \in Cands /\ Loaded(p) \in Texts
    BY <1>3, JobFields DEF Evaluate, Load, Running
  <2>3. gated' \in [Cands -> SUBSET Texts]
    BY <1>3, <2>2 DEF QueueTypeOK, Evaluate
  <2> QED BY <1>3, <2>1, <2>3 DEF QueueTypeOK, JobsOK, Evaluate
<1>4. ASSUME NEW p \in Procs, Reload(p)
      PROVE  QueueTypeOK'
  <2>1. JobsOK'
    <3>1. job[p] # None /\ job[p].cmd # "delete" /\ Loaded(p) \in Texts
      BY <1>4 DEF QueueTypeOK, WellFormed, Reload, Running
    <3> QED BY <1>4, <3>1, LoadOK, JobFields, PointsAreWords DEF Reload
  <2> QED BY <1>4, <2>1 DEF QueueTypeOK, JobsOK, Reload, auxVars
<1>5. ASSUME NEW p \in Procs, Decide(p)
      PROVE  QueueTypeOK'
  <2>1. DecisionStatus[job[p].cmd] \in Status
    BY <1>5, DecisionStatusFacts DEF Decide, Load, Status
  <2>2. JobsOK'
    BY <1>5, <2>1, LoadOK, PointsAreWords DEF Decide, Load, Running, Decisions
  <2>3. job[p].cand \in Cands /\ Loaded(p) \in Texts
    BY <1>5, JobFields DEF Decide, Load, Running
  <2>4. approved' \in [Cands -> SUBSET Texts]
    BY <1>5, <2>3 DEF QueueTypeOK, Decide
  <2> QED BY <1>5, <2>2, <2>4 DEF QueueTypeOK, JobsOK, Decide
<1>6. ASSUME NEW p \in Procs, NEW t \in Texts \cup {None}, Edit(p, t)
      PROVE  QueueTypeOK'
  <2>1. job[p] # None /\ Loaded(p) \in Texts /\ "candidate" \in Status /\ job[p].cmd # "delete"
    BY <1>6 DEF Edit, Load, Running, Status
  <2>2. CASE t = None
    <3>1. JobsOK'
      BY <1>6, <2>1, <2>2, LoadOK, JobFields, PointsAreWords DEF Edit
    <3> QED BY <1>6, <3>1 DEF QueueTypeOK, JobsOK, Edit, auxVars
  <2>3. CASE t # None
    <3>1. JobsOK'
      BY <1>6, <2>1, <2>3, LoadOK, PointsAreWords DEF Edit
    <3> QED BY <1>6, <3>1 DEF QueueTypeOK, JobsOK, Edit, auxVars
  <2> QED BY <2>2, <2>3
<1>7. ASSUME NEW p \in Procs, MoveToRolledBack(p) \/ PromoteLoad(p)
      PROVE  QueueTypeOK'
  <2>1. job[p] # None /\ Loaded(p) \in Texts /\ "rolled_back" \in Status
       /\ job[p].cmd # "delete"
    BY <1>7 DEF MoveToRolledBack, PromoteLoad, Load, Running, Status
  <2>2. JobsOK'
    BY <1>7, <2>1, LoadOK, JobFields, PointsAreWords DEF MoveToRolledBack, PromoteLoad
  <2> QED BY <1>7, <2>2 DEF QueueTypeOK, JobsOK, MoveToRolledBack, PromoteLoad, auxVars
<1>8. ASSUME NEW p \in Procs, LoadFails(p) \/ WriteFails(p)
      PROVE  QueueTypeOK'
  <2>1. JobsOK'
    BY <1>8, FinishOK DEF LoadFails, WriteFails
  <2> QED BY <1>8, <2>1 DEF QueueTypeOK, JobsOK, LoadFails, WriteFails, auxVars
<1>9. ASSUME NEW p \in Procs, CheckDeletable(p)
      PROVE  QueueTypeOK'
  <2>1. JobsOK'
    BY <1>9, ContinueOK, PointsAreWords DEF CheckDeletable, Load, Running
  <2> QED BY <1>9, <2>1 DEF QueueTypeOK, JobsOK, CheckDeletable, auxVars
<1>10. ASSUME NEW p \in Procs, Unlink(p)
       PROVE  QueueTypeOK'
  <2>1. files' \in [Cands -> [Status -> Texts \cup {None, Torn}]]
    BY <1>10, SetFileType, JobFields DEF Unlink, Running
  <2>2. job[p] # None /\ job[p].cmd = "delete"
    BY <1>10 DEF QueueTypeOK, WellFormed, Unlink, Running
  <2>3. JobsOK'
    BY <1>10, <2>2, ContinueOK, FinishOK, PointsAreWords DEF Unlink
  <2> QED BY <1>10, <2>1, <2>3, JobFields DEF QueueTypeOK, JobsOK, Unlink, Running
<1>11. ASSUME NEW p \in Procs, Validate(p)
       PROVE  QueueTypeOK'
  <2>1. job[p] # None /\ job[p].at = "validate"
    BY <1>11 DEF Validate, Running
  <2>2. JobsOK'
    BY <1>11, <2>1, ContinueOK, PointsAreWords DEF Validate
  <2>3. job[p].cand \in Cands /\ job[p].text \in Texts
    BY <2>1, JobFields DEF QueueTypeOK, WellFormed
  <2>4. gated' \in [Cands -> SUBSET Texts]
    BY <1>11, <2>3 DEF QueueTypeOK, Validate
  <2> QED BY <1>11, <2>2, <2>4 DEF QueueTypeOK, JobsOK, Validate
<1>12. ASSUME NEW p \in Procs, Record(p)
       PROVE  QueueTypeOK'
  <2>1. JobsOK'
    BY <1>12, ContinueOK, PointsAreWords DEF Record, Running
  <2> QED BY <1>12, <2>1, JobFields DEF QueueTypeOK, JobsOK, Record, Running, auxVars
<1>13. ASSUME NEW p \in Procs, AuditPromotion(p)
       PROVE  QueueTypeOK'
  <2>1. JobsOK'
    BY <1>13, RedirectOK, PointsAreWords DEF AuditPromotion, Running, Status
  <2> QED BY <1>13, <2>1, JobFields DEF QueueTypeOK, JobsOK, AuditPromotion, Running, Status,
             auxVars
<1>14. ASSUME NEW p \in Procs, FailCandidate(p)
       PROVE  QueueTypeOK'
  <2>1. JobsOK'
    BY <1>14, RedirectOK, PointsAreWords DEF FailCandidate, Status
  <2> QED BY <1>14, <2>1 DEF QueueTypeOK, JobsOK, FailCandidate, auxVars
<1>15. ASSUME NEW p \in Procs, OpenTarget(p)
       PROVE  QueueTypeOK'
  <2>1. files' \in [Cands -> [Status -> Texts \cup {None, Torn}]]
    BY <1>15, SetFileType, JobFields DEF OpenTarget, Running
  <2>2. JobsOK'
    BY <1>15, ContinueOK, PointsAreWords DEF OpenTarget, Running
  <2> QED BY <1>15, <2>1, <2>2 DEF QueueTypeOK, JobsOK, OpenTarget, auxVars
<1>16. ASSUME NEW p \in Procs, FillTarget(p)
       PROVE  QueueTypeOK'
  <2>1. files' \in [Cands -> [Status -> Texts \cup {None, Torn}]]
    <3>1. job[p].cand \in Cands /\ job[p].new \in Status /\ job[p].text \in Texts \cup {None}
      BY <1>16, JobFields DEF FillTarget, Running
    <3>2. CASE UNCHANGED files
      BY <3>2 DEF QueueTypeOK
    <3>3. CASE SetFile(job[p].cand, job[p].new, job[p].text)
      BY <3>1, <3>3, SetFileType
    <3>4. CASE SetFile(job[p].cand, job[p].new, Torn)
      BY <3>1, <3>4, SetFileType
    <3> QED BY <1>16, <3>2, <3>3, <3>4 DEF FillTarget
  <2>2. JobsOK'
    BY <1>16, ContinueOK, PointsAreWords DEF FillTarget, Running
  <2> QED BY <1>16, <2>1, <2>2 DEF QueueTypeOK, JobsOK, FillTarget, auxVars
<1>17. ASSUME NEW p \in Procs, UnlinkOld(p)
       PROVE  QueueTypeOK'
  <2>1. files' \in [Cands -> [Status -> Texts \cup {None, Torn}]]
    BY <1>17, SetFileType, JobFields DEF UnlinkOld, Running, QueueTypeOK
  <2>2. JobsOK'
    BY <1>17, ContinueOK, FinishOK, PointsAreWords DEF UnlinkOld, AfterMove, Running
  <2> QED BY <1>17, <2>1, <2>2 DEF QueueTypeOK, JobsOK, UnlinkOld, auxVars
<1>18. ASSUME NEW p \in Procs, AppendAudit(p)
       PROVE  QueueTypeOK'
  <2>1. JobsOK'
    BY <1>18, FinishOK DEF AppendAudit
  <2> QED BY <1>18, <2>1, JobFields DEF QueueTypeOK, JobsOK, AppendAudit, Running, auxVars
<1>19. ASSUME NEW p \in Procs, KillCommand(p)
       PROVE  QueueTypeOK'
  <2>1. JobsOK'
    BY <1>19, FinishOK DEF KillCommand
  <2> QED BY <1>19, <2>1 DEF QueueTypeOK, JobsOK, KillCommand, auxVars
<1>20. CASE UNCHANGED qvars
  BY <1>20 DEF QueueTypeOK, WellFormed, qvars, queueVars
<1>21. ASSUME NEW p \in Procs, StartCommand(p)
       PROVE  QueueTypeOK'
  BY <1>21, <1>1, <1>2 DEF StartCommand, StartReview, StartById, StartPromote, StartRollback,
     AllCommands, Decisions
<1> QED BY <1>3, <1>4, <1>5, <1>6, <1>7, <1>8, <1>9, <1>10, <1>11, <1>12, <1>13, <1>14,
           <1>15, <1>16, <1>17, <1>18, <1>19, <1>20, <1>21
        DEF QueueNext, DecideWhatToWrite, DeleteStep, PromoteStep, WriteStep

\* Files, running commands, audit and ledger keep their types; every status a
\* command writes is one of the ten queue directories.
THEOREM QueueTypeCorrect == QueueSpec => []QueueTypeOK
  BY QueueInitTypeOK, QueueTypeStep, PTL DEF QueueSpec, qvars

-----------------------------------------------------------------------------
\* What must hold of a running command j for it to write only what is allowed;
\* L, A and G stand for ledgered, approved and gated.
WritesTo(j, s) == j.at \in {"open", "fill"} /\ j.new = s

JobInv(j, L, A, G) ==
    /\ j.at = "load" => j.new = j.old
    /\ j.at = "reload" => j.new \in GateStatuses
    /\ j.at = "validate" => j.cmd = "promote"
    /\ j.cmd = "promote" /\ j.at \in {"load", "validate"} => j.old \in Promotable
    /\ j.at = "validate" /\ j.old = "approved" => j.text \in A[j.cand]
    /\ j.at \in {"record", "promote_audit"} => j.text \in A[j.cand] \cup G[j.cand]
    /\ j.at = "promote_audit" => j.cand \in L
    /\ WritesTo(j, "promoted") => j.cand \in L /\ j.text \in A[j.cand] \cup G[j.cand]
    /\ WritesTo(j, "approved") => j.text \in A[j.cand]

JobsInv == \A p \in Procs : job[p] # None => JobInv(job[p], ledgered, approved, gated)

QueueInv ==
    JobsInv /\ PromotedIsLedgered /\ PromotedTextCleared /\ ApprovedTextWasApproved

\* Ledger records, approvals and gate passes are never withdrawn.
Grows ==
    /\ ledgered \subseteq ledgered'
    /\ \A c \in Cands : approved[c] \subseteq approved'[c] /\ gated[c] \subseteq gated'[c]

LEMMA JobInvGrows ==
    ASSUME NEW j \in Jobs, NEW L, NEW L2, NEW A, NEW A2, NEW G, NEW G2,
           JobInv(j, L, A, G), L \subseteq L2,
           A[j.cand] \subseteq A2[j.cand], G[j.cand] \subseteq G2[j.cand]
    PROVE  JobInv(j, L2, A2, G2)
  BY DEF JobInv

\* A step of p that changes only p's job, to a safe one.
LEMMA JobsInvStep ==
    ASSUME QueueTypeOK, JobsInv, Grows, NEW p \in Procs,
           job' = [job EXCEPT ![p] = job'[p]],
           job'[p] # None => JobInv(job'[p], ledgered', approved', gated')
    PROVE  JobsInv'
<1> SUFFICES ASSUME NEW q \in Procs, q # p, job[q] # None
             PROVE  JobInv(job[q], ledgered', approved', gated')
  BY DEF JobsInv, QueueTypeOK
<1>1. job[q] \in Jobs /\ job[q].cand \in Cands /\ JobInv(job[q], ledgered, approved, gated)
  BY JobFields DEF JobsInv
<1> QED BY <1>1, JobInvGrows DEF Grows

\* A step that leaves the files alone keeps what they promise.
LEMMA FilesInvStep ==
    ASSUME QueueTypeOK, QueueInv, Grows, UNCHANGED files
    PROVE  (PromotedIsLedgered /\ PromotedTextCleared /\ ApprovedTextWasApproved)'
  BY DEF QueueInv, PromotedIsLedgered, PromotedTextCleared, ApprovedTextWasApproved, Grows

LEMMA QuietStep ==
    ASSUME QueueTypeOK, QueueInv, Grows, UNCHANGED files, NEW p \in Procs,
           job' = [job EXCEPT ![p] = job'[p]],
           job'[p] # None => JobInv(job'[p], ledgered', approved', gated')
    PROVE  QueueInv'
  BY JobsInvStep, FilesInvStep DEF QueueInv

LEMMA QueueInvStep ==
    ASSUME QueueTypeOK, QueueInv, [QueueNext]_qvars
    PROVE  QueueInv'
<1> USE WorkspaceConstants, QueueConstants, NoneIsNoJob
<1>1. ASSUME NEW p \in Procs, NEW c \in Cands, NEW t \in Texts, CreateCandidate(p, c, t)
      PROVE  QueueInv'
  <2>1. Grows
    BY <1>1 DEF CreateCandidate, Grows
  <2>2. /\ job' = [job EXCEPT ![p] = job'[p]]
        /\ JobInv(job'[p], ledgered', approved', gated')
    BY <1>1 DEF CreateCandidate, QueueTypeOK, JobInv, WritesTo
  <2>3. JobsInv'
    BY <2>1, <2>2, JobsInvStep DEF QueueInv
  <2>4. \A d \in Cands : /\ files'[d]["promoted"] = files[d]["promoted"]
                         /\ files'[d]["approved"] = files[d]["approved"]
    BY <1>1, SetFileReads DEF CreateCandidate, Status
  <2> QED BY <1>1, <2>3, <2>4 DEF QueueInv, CreateCandidate, PromotedIsLedgered,
             PromotedTextCleared, ApprovedTextWasApproved
<1>2. ASSUME NEW p \in Procs, NEW c \in Cands, NEW s \in Status, NEW cmd \in AllCommands,
             Start(p, cmd, c, s), cmd = "promote" => s \in Promotable
      PROVE  QueueInv'
  <2>1. Grows
    BY <1>2 DEF Start, Grows, auxVars
  <2>2. /\ job' = [job EXCEPT ![p] = job'[p]]
        /\ JobInv(job'[p], ledgered', approved', gated')
    BY <1>2 DEF Start, QueueTypeOK, JobInv, WritesTo
  <2> QED BY <1>2, <2>1, <2>2, QuietStep DEF Start
<1>3. ASSUME NEW p \in Procs, NEW v \in GateStatuses, Evaluate(p, v)
      PROVE  QueueInv'
  <2>1. Grows
    BY <1>3, JobFields DEF Evaluate, Load, Running, Grows, QueueTypeOK
  <2>2. job[p] \in Jobs
    BY <1>3, JobFields DEF Evaluate, Load, Running
  <2>3. /\ job' = [job EXCEPT ![p] = job'[p]]
        /\ JobInv(job'[p], ledgered', approved', gated')
    BY <1>3, <2>2 DEF Evaluate, Load, QueueTypeOK, Jobs, JobInv, WritesTo
  <2> QED BY <1>3, <2>1, <2>3, QuietStep DEF Evaluate
<1>4. ASSUME NEW p \in Procs, Reload(p)
      PROVE  QueueInv'
  <2>1. Grows
    BY <1>4 DEF Reload, Grows, auxVars
  <2>2. job[p] \in Jobs /\ job[p].new \in GateStatuses
    BY <1>4, JobFields DEF Reload, Running, QueueInv, JobsInv, JobInv
  <2>3. /\ job' = [job EXCEPT ![p] = job'[p]]
        /\ JobInv(job'[p], ledgered', approved', gated')
    BY <1>4, <2>2 DEF Reload, QueueTypeOK, Jobs, JobInv, WritesTo, GateStatuses
  <2> QED BY <1>4, <2>1, <2>3, QuietStep DEF Reload
<1>5. ASSUME NEW p \in Procs, Decide(p)
      PROVE  QueueInv'
  <2>1. job[p] \in Jobs /\ job[p].cand \in Cands /\ job[p].cmd \in Decisions
    BY <1>5, JobFields DEF Decide, Load, Running
  <2>2. Grows
    BY <1>5, <2>1 DEF Decide, Grows, QueueTypeOK
  <2>3. /\ DecisionStatus[job[p].cmd] # "promoted"
        /\ DecisionStatus[job[p].cmd] = "approved" => Loaded(p) \in approved'[job[p].cand]
    BY <1>5, <2>1, DecisionStatusFacts DEF Decide, QueueTypeOK
  <2>4. /\ job' = [job EXCEPT ![p] = job'[p]]
        /\ JobInv(job'[p], ledgered', approved', gated')
    BY <1>5, <2>1, <2>3 DEF Decide, QueueTypeOK, Jobs, JobInv, WritesTo
  <2> QED BY <1>5, <2>2, <2>4, QuietStep DEF Decide
<1>6. ASSUME NEW p \in Procs, NEW t \in Texts \cup {None}, Edit(p, t)
      PROVE  QueueInv'
  <2>1. Grows
    BY <1>6 DEF Edit, Grows, auxVars
  <2>2. job[p] \in Jobs
    BY <1>6, JobFields DEF Edit, Load, Running
  <2>3. /\ job' = [job EXCEPT ![p] = job'[p]]
        /\ JobInv(job'[p], ledgered', approved', gated')
    <3>1. job[p].new \notin {"promoted", "approved"} \/ t # None
      BY <1>6 DEF Edit, Load, Running, QueueInv, JobsInv, JobInv, ReviewStatuses
    <3> QED BY <1>6, <2>2, <3>1 DEF Edit, Load, QueueTypeOK, Jobs, JobInv, WritesTo
  <2> QED BY <1>6, <2>1, <2>3, QuietStep DEF Edit
<1>7. ASSUME NEW p \in Procs, MoveToRolledBack(p)
      PROVE  QueueInv'
  <2>1. Grows
    BY <1>7 DEF MoveToRolledBack, Grows, auxVars
  <2>2. job[p] \in Jobs
    BY <1>7, JobFields DEF MoveToRolledBack, Load, Running
  <2>3. /\ job' = [job EXCEPT ![p] = job'[p]]
        /\ JobInv(job'[p], ledgered', approved', gated')
    BY <1>7, <2>2 DEF MoveToRolledBack, Load, QueueTypeOK, Jobs, JobInv, WritesTo
  <2> QED BY <1>7, <2>1, <2>3, QuietStep DEF MoveToRolledBack
<1>8. ASSUME NEW p \in Procs, PromoteLoad(p)
      PROVE  QueueInv'
  <2>1. Grows
    BY <1>8 DEF PromoteLoad, Grows, auxVars
  <2>2. job[p] \in Jobs /\ job[p].cand \in Cands /\ job[p].old \in Promotable
    BY <1>8, JobFields DEF PromoteLoad, Load, Running, QueueInv, JobsInv, JobInv
  <2>3. job[p].old = "approved" => Loaded(p) \in approved[job[p].cand]
    BY <1>8, <2>2 DEF PromoteLoad, Load, Loaded, QueueInv, ApprovedTextWasApproved
  <2>4. /\ job' = [job EXCEPT ![p] = job'[p]]
        /\ JobInv(job'[p], ledgered', approved', gated')
    BY <1>8, <2>2, <2>3 DEF PromoteLoad, Load, QueueTypeOK, Jobs, JobInv, WritesTo, auxVars
  <2> QED BY <1>8, <2>1, <2>4, QuietStep DEF PromoteLoad
<1>9. ASSUME NEW p \in Procs, LoadFails(p) \/ WriteFails(p) \/ KillCommand(p)
      PROVE  QueueInv'
  <2>1. Grows /\ UNCHANGED files /\ job' = [job EXCEPT ![p] = None]
    BY <1>9 DEF LoadFails, WriteFails, KillCommand, Finish, Grows, auxVars
  <2>2. job' = [job EXCEPT ![p] = job'[p]] /\ job'[p] = None
    BY <2>1 DEF QueueTypeOK
  <2> QED BY <2>1, <2>2, QuietStep
<1>10. ASSUME NEW p \in Procs, CheckDeletable(p)
       PROVE  QueueInv'
  <2>1. Grows
    BY <1>10 DEF CheckDeletable, Grows, auxVars
  <2>2. job[p] \in Jobs
    BY <1>10, JobFields DEF CheckDeletable, Load, Running
  <2>3. /\ job' = [job EXCEPT ![p] = job'[p]]
        /\ JobInv(job'[p], ledgered', approved', gated')
    BY <1>10, <2>2 DEF CheckDeletable, Load, Continue, QueueTypeOK, Jobs, JobInv, WritesTo
  <2> QED BY <1>10, <2>1, <2>3, QuietStep DEF CheckDeletable
<1>11. ASSUME NEW p \in Procs, Unlink(p)
       PROVE  QueueInv'
  <2>1. job[p] \in Jobs /\ job[p].cand \in Cands /\ job[p].old \in Status
        /\ job[p].cmd = "delete"
    BY <1>11, JobFields DEF Unlink, Running, QueueTypeOK, WellFormed
  <2>2. Grows
    BY <1>11 DEF Unlink, Grows
  <2>3. /\ job' = [job EXCEPT ![p] = job'[p]]
        /\ job'[p] # None => JobInv(job'[p], ledgered', approved', gated')
    <3>1. CASE files[job[p].cand][job[p].old] # None
      BY <1>11, <2>1, <3>1 DEF Unlink, Continue, QueueTypeOK, Jobs, JobInv, WritesTo
    <3>2. CASE files[job[p].cand][job[p].old] = None
      BY <1>11, <2>1, <3>2, NoneIsNoJob DEF Unlink, Finish, QueueTypeOK
    <3> QED BY <3>1, <3>2
  <2>4. JobsInv'
    BY <2>2, <2>3, JobsInvStep DEF QueueInv
  <2>5. \A d \in Cands, s \in Status : files'[d][s] \in {files[d][s], None}
    BY <1>11, <2>1, SetFileReads DEF Unlink
  <2> QED BY <1>11, <2>4, <2>5 DEF QueueInv, Unlink, PromotedIsLedgered,
             PromotedTextCleared, ApprovedTextWasApproved, Status
<1>12. ASSUME NEW p \in Procs, Validate(p)
       PROVE  QueueInv'
  <2>1. /\ job[p] \in Jobs /\ job[p].cand \in Cands
        /\ job[p].old \in Promotable /\ job[p].cmd = "promote"
        /\ job[p].old = "approved" => job[p].text \in approved[job[p].cand]
    BY <1>12, JobFields DEF Validate, Running, QueueInv, JobsInv, JobInv
  <2>2. Grows /\ (job[p].old = "auto_passed" => job[p].text \in gated'[job[p].cand])
    BY <1>12, <2>1 DEF Validate, Grows, QueueTypeOK
  <2>3. /\ job' = [job EXCEPT ![p] = job'[p]]
        /\ JobInv(job'[p], ledgered', approved', gated')
    BY <1>12, <2>1, <2>2 DEF Validate, Continue, QueueTypeOK, Jobs, JobInv, WritesTo, Promotable
  <2> QED BY <1>12, <2>2, <2>3, QuietStep DEF Validate
<1>13. ASSUME NEW p \in Procs, Record(p)
       PROVE  QueueInv'
  <2>1. /\ job[p] \in Jobs
        /\ job[p].text \in approved[job[p].cand] \cup gated[job[p].cand]
    BY <1>13, JobFields DEF Record, Running, QueueInv, JobsInv, JobInv
  <2>2. Grows /\ job[p].cand \in ledgered'
    BY <1>13 DEF Record, Grows, auxVars
  <2>3. /\ job' = [job EXCEPT ![p] = job'[p]]
        /\ JobInv(job'[p], ledgered', approved', gated')
    BY <1>13, <2>1, <2>2 DEF Record, Continue, QueueTypeOK, Jobs, JobInv, WritesTo, auxVars
  <2> QED BY <1>13, <2>2, <2>3, QuietStep DEF Record
<1>14. ASSUME NEW p \in Procs, AuditPromotion(p)
       PROVE  QueueInv'
  <2>1. /\ job[p] \in Jobs /\ job[p].cand \in ledgered
        /\ job[p].text \in approved[job[p].cand] \cup gated[job[p].cand]
    BY <1>14, JobFields DEF AuditPromotion, Running, QueueInv, JobsInv, JobInv
  <2>2. Grows
    BY <1>14 DEF AuditPromotion, Grows, auxVars
  <2>3. /\ job' = [job EXCEPT ![p] = job'[p]]
        /\ JobInv(job'[p], ledgered', approved', gated')
    BY <1>14, <2>1 DEF AuditPromotion, QueueTypeOK, Jobs, JobInv, WritesTo, auxVars
  <2> QED BY <1>14, <2>2, <2>3, QuietStep DEF AuditPromotion
<1>15. ASSUME NEW p \in Procs, FailCandidate(p)
       PROVE  QueueInv'
  <2>1. job[p] \in Jobs
    BY <1>15, JobFields DEF FailCandidate
  <2>2. Grows
    BY <1>15 DEF FailCandidate, Grows, auxVars
  <2>3. /\ job' = [job EXCEPT ![p] = job'[p]]
        /\ JobInv(job'[p], ledgered', approved', gated')
    BY <1>15, <2>1 DEF FailCandidate, QueueTypeOK, Jobs, JobInv, WritesTo, auxVars
  <2> QED BY <1>15, <2>2, <2>3, QuietStep DEF FailCandidate
<1>16. ASSUME NEW p \in Procs, OpenTarget(p)
       PROVE  QueueInv'
  <2>1. /\ job[p] \in Jobs /\ job[p].cand \in Cands /\ job[p].new \in Status
        /\ JobInv(job[p], ledgered, approved, gated)
    BY <1>16, JobFields DEF OpenTarget, Running, QueueInv, JobsInv
  <2>2. Grows
    BY <1>16 DEF OpenTarget, Grows, auxVars
  <2>3. /\ job' = [job EXCEPT ![p] = job'[p]]
        /\ JobInv(job'[p], ledgered', approved', gated')
    BY <1>16, <2>1 DEF OpenTarget, Running, Continue, QueueTypeOK, Jobs, JobInv, WritesTo, auxVars
  <2>4. JobsInv'
    BY <2>2, <2>3, JobsInvStep DEF QueueInv
  <2>5. \A d \in Cands, s \in Status :
          files'[d][s] = IF d = job[p].cand /\ s = job[p].new THEN Torn ELSE files[d][s]
    BY <1>16, <2>1, SetFileReads DEF OpenTarget
  <2>6. job[p].new = "promoted" => job[p].cand \in ledgered
    BY <1>16, <2>1 DEF OpenTarget, Running, JobInv, WritesTo
  <2> QED BY <1>16, <2>4, <2>5, <2>6 DEF QueueInv, OpenTarget, PromotedIsLedgered,
             PromotedTextCleared, ApprovedTextWasApproved, Status, auxVars
<1>17. ASSUME NEW p \in Procs, FillTarget(p)
       PROVE  QueueInv'
  <2>1. /\ job[p] \in Jobs /\ job[p].cand \in Cands /\ job[p].new \in Status
        /\ JobInv(job[p], ledgered, approved, gated)
    BY <1>17, JobFields DEF FillTarget, Running, QueueInv, JobsInv
  <2>2. Grows
    BY <1>17 DEF FillTarget, Grows, auxVars
  <2>3. /\ job' = [job EXCEPT ![p] = job'[p]]
        /\ JobInv(job'[p], ledgered', approved', gated')
    BY <1>17, <2>1 DEF FillTarget, Running, Continue, QueueTypeOK, Jobs, JobInv, WritesTo
  <2>4. JobsInv'
    BY <2>2, <2>3, JobsInvStep DEF QueueInv
  <2>5. \A d \in Cands, s \in Status :
          \/ files'[d][s] = files[d][s]
          \/ d = job[p].cand /\ s = job[p].new /\ files'[d][s] \in {job[p].text, Torn}
    BY <1>17, <2>1, SetFileReads DEF FillTarget
  <2>6. /\ job[p].new = "promoted" => job[p].cand \in ledgered
        /\ job[p].new = "promoted" =>
             job[p].text \in approved[job[p].cand] \cup gated[job[p].cand]
        /\ job[p].new = "approved" => job[p].text \in approved[job[p].cand]
    BY <1>17, <2>1 DEF FillTarget, Running, JobInv, WritesTo
  <2>7. UNCHANGED <<ledgered, approved, gated>>
    BY <1>17 DEF FillTarget, auxVars
  <2>8. PromotedIsLedgered' /\ PromotedTextCleared' /\ ApprovedTextWasApproved'
    BY <2>5, <2>6, <2>7 DEF QueueInv, PromotedIsLedgered, PromotedTextCleared,
       ApprovedTextWasApproved, Status
  <2> QED BY <2>4, <2>8 DEF QueueInv
<1>18. ASSUME NEW p \in Procs, UnlinkOld(p)
       PROVE  QueueInv'
  <2>1. job[p] \in Jobs /\ job[p].cand \in Cands /\ job[p].old \in Status
    BY <1>18, JobFields DEF UnlinkOld, Running
  <2>2. Grows
    BY <1>18 DEF UnlinkOld, Grows, auxVars
  <2>3. /\ job' = [job EXCEPT ![p] = job'[p]]
        /\ job'[p] # None => JobInv(job'[p], ledgered', approved', gated')
    <3>1. CASE Continue(p, "audit")
      <4>1. job'[p] = [job[p] EXCEPT !.at = "audit"] /\ job' = [job EXCEPT ![p] = job'[p]]
        BY <3>1 DEF Continue, QueueTypeOK
      <4> QED BY <2>1, <4>1, <1>18 DEF Jobs, JobInv, WritesTo
    <3>2. CASE Finish(p)
      BY <3>2 DEF Finish, QueueTypeOK
    <3> QED BY <1>18, <3>1, <3>2 DEF UnlinkOld, AfterMove
  <2>4. JobsInv'
    BY <2>2, <2>3, JobsInvStep DEF QueueInv
  <2>5. \A d \in Cands, s \in Status : files'[d][s] \in {files[d][s], None}
    BY <1>18, <2>1, SetFileReads DEF UnlinkOld
  <2> QED BY <1>18, <2>4, <2>5 DEF QueueInv, UnlinkOld, PromotedIsLedgered,
             PromotedTextCleared, ApprovedTextWasApproved, Status, auxVars
<1>19. ASSUME NEW p \in Procs, AppendAudit(p)
       PROVE  QueueInv'
  <2>1. Grows /\ UNCHANGED files /\ job' = [job EXCEPT ![p] = None]
    BY <1>19 DEF AppendAudit, Finish, Grows, auxVars
  <2>2. job' = [job EXCEPT ![p] = job'[p]] /\ job'[p] = None
    BY <2>1 DEF QueueTypeOK
  <2> QED BY <2>1, <2>2, QuietStep
<1>20. CASE UNCHANGED qvars
  BY <1>20 DEF qvars, queueVars, auxVars, QueueInv, JobsInv, PromotedIsLedgered,
     PromotedTextCleared, ApprovedTextWasApproved
<1>21. ASSUME NEW p \in Procs, StartCommand(p)
       PROVE  QueueInv'
  BY <1>21, <1>1, <1>2 DEF StartCommand, StartReview, StartById, StartPromote, StartRollback,
     AllCommands, Decisions
<1> QED BY <1>3, <1>4, <1>5, <1>6, <1>7, <1>8, <1>9, <1>10, <1>11, <1>12, <1>13, <1>14, <1>15,
           <1>16, <1>17, <1>18, <1>19, <1>20, <1>21
        DEF QueueNext, DecideWhatToWrite, DeleteStep, PromoteStep, WriteStep

LEMMA QueueInvariant == QueueSpec => []QueueInv
<1> USE WorkspaceConstants, QueueConstants
<1>1. QueueInit => QueueInv
  BY DEF QueueInit, QueueInv, JobsInv, PromotedIsLedgered, PromotedTextCleared,
     ApprovedTextWasApproved, Status
<1>2. QueueTypeOK /\ QueueInv /\ [QueueNext]_qvars => QueueInv'
  BY QueueInvStep
<1>3. QueueSpec => []QueueTypeOK
  BY QueueTypeCorrect
<1> QED BY <1>1, <1>2, <1>3, PTL DEF QueueSpec, qvars

\* Whatever commands run at once, are killed or fail to write, a file in promoted/
\* means that promotions.jsonl has a record of its candidate (executor.py promote_one).
THEOREM PromotedIsLedgeredHolds == QueueSpec => []PromotedIsLedgered
<1>1. QueueInv => PromotedIsLedgered
  BY DEF QueueInv
<1> QED BY <1>1, QueueInvariant, PTL

\* In the same generality, what is in promoted/ was passed by the gates or approved:
\* the second gate run in validate_promotion_phase makes up for the second load in
\* apply_gate_result.
THEOREM PromotedTextClearedHolds == QueueSpec => []PromotedTextCleared
<1>1. QueueInv => PromotedTextCleared
  BY DEF QueueInv
<1> QED BY <1>1, QueueInvariant, PTL

\* In the same generality, what is in approved/ is what the reviewer's command loaded
\* (approvals.py _decision).
THEOREM ApprovedTextWasApprovedHolds == QueueSpec => []ApprovedTextWasApproved
<1>1. QueueInv => ApprovedTextWasApproved
  BY DEF QueueInv
<1> QED BY <1>1, QueueInvariant, PTL
=============================================================================
