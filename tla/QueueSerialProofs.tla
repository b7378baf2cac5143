------------------------- MODULE QueueSerialProofs -------------------------
(***************************************************************************)
(* Proofs about the candidate queue while its commands run one at a time,  *)
(* for any number of processes, candidates and versions: first with kills  *)
(* and failing writes (no candidate is lost), then without (a candidate    *)
(* has one file and the audit ledger agrees with its directory).           *)
(***************************************************************************)
EXTENDS CandidateQueueProofs, FiniteSetTheorems

OneCommand == \A p, q \in Procs : job[p] # None /\ job[q] # None => p = q

\* No command but p's is running.
Alone(p) == \A q \in Procs \ {p} : job[q] = None

LEMMA RunsAlone ==
    ASSUME OneCommand, NEW p \in Procs, job[p] # None
    PROVE  Alone(p)
  BY DEF OneCommand, Alone

LEMMA StartsAlone ==
    ASSUME Serial, NEW p \in Procs, NEW cmd, MayStart(p, cmd)
    PROVE  Alone(p) /\ job[p] = None
  BY DEF MayStart, Alone

\* A step of p leaves one command running when p is alone or stops.
LEMMA OneCommandStep ==
    ASSUME QueueTypeOK, OneCommand, NEW p \in Procs,
           job' = [job EXCEPT ![p] = job'[p]], Alone(p) \/ job'[p] = None
    PROVE  OneCommand'
<1>1. \A q \in Procs : q # p => job'[q] = job[q]
  BY DEF QueueTypeOK
<1> QED BY <1>1 DEF OneCommand, Alone

-----------------------------------------------------------------------------
\* With kills and failing writes: the files a running command j relies on,
\* for F the files and B the candidates created.
MovePoints == {"open", "fill", "unlink_old"}

MoveInv(j, F, B) ==
    /\ j.cand \in B
    /\ j.at = "reload" => j.cmd = "review"
    /\ j.at \in {"validate", "record", "promote_audit", "open"} => F[j.cand][j.old] \in Texts
    /\ j.at = "fill" =>
         /\ F[j.cand][j.new] = Torn
         /\ j.old # j.new => F[j.cand][j.old] \in Texts
    /\ j.at = "unlink_old" => F[j.cand][j.new] \in Texts
    /\ j.cmd = "promote" =>
         j.old \in Promotable /\ (j.at \in MovePoints => j.new \in {"promoted", "failed"})

FilesBorn == \A c \in Cands : \A s \in Status : files[c][s] # None => c \in born

KeptInv ==
    /\ OneCommand /\ FilesBorn /\ NoCandidateLost
    /\ \A p \in Procs : job[p] # None => MoveInv(job[p], files, born)

\* A step that leaves the files alone.
LEMMA KeptQuiet ==
    ASSUME QueueTypeOK, KeptInv, UNCHANGED <<files, born, deleted>>, NEW p \in Procs,
           job' = [job EXCEPT ![p] = job'[p]], Alone(p) \/ job'[p] = None,
           job'[p] # None => MoveInv(job'[p], files, born)
    PROVE  KeptInv'
<1>1. \A q \in Procs : q # p => job'[q] = job[q]
  BY DEF QueueTypeOK
<1>2. \A q \in Procs : job'[q] # None => MoveInv(job'[q], files', born')
  BY <1>1 DEF KeptInv
<1>3. OneCommand'
  BY OneCommandStep DEF KeptInv
<1> QED BY <1>2, <1>3 DEF KeptInv, FilesBorn, NoCandidateLost

\* A step of the only command that writes a file of its candidate c.
LEMMA KeptWrite ==
    ASSUME QueueTypeOK, KeptInv, NEW p \in Procs, Alone(p), NEW c \in Cands,
           job' = [job EXCEPT ![p] = job'[p]],
           \A d \in Cands : d # c => files'[d] = files[d],
           born \subseteq born', c \in born', born' \subseteq born \cup {c},
           deleted \subseteq deleted',
           c \in deleted' \/ \E s \in Status : files'[c][s] # None,
           job'[p] # None => MoveInv(job'[p], files', born')
    PROVE  KeptInv'
<1>1. \A q \in Procs : q # p => job'[q] = None
  BY DEF QueueTypeOK, Alone
<1>2. OneCommand'
  BY OneCommandStep DEF KeptInv
<1>3. FilesBorn'
  BY DEF KeptInv, FilesBorn
<1>4. NoCandidateLost'
  BY DEF KeptInv, NoCandidateLost, QueueTypeOK
<1> QED BY <1>1, <1>2, <1>3, <1>4 DEF KeptInv

LEMMA KeptInvStep ==
    ASSUME Serial, QueueTypeOK, KeptInv, [QueueNext]_qvars
    PROVE  KeptInv'
<1> USE WorkspaceConstants, QueueConstants, NoneIsNoJob
<1>1. ASSUME NEW p \in Procs, NEW c \in Cands, NEW t \in Texts, CreateCandidate(p, c, t)
      PROVE  KeptInv'
  <2>1. Alone(p)
    BY <1>1, StartsAlone DEF CreateCandidate
  <2>2. "candidate" \in Status /\ \A d \in Cands, r \in Status :
          files'[d][r] = IF d = c /\ r = "candidate" THEN Torn ELSE files[d][r]
    BY <1>1, SetFileReads DEF CreateCandidate, Status
  <2>3. \A d \in Cands : d # c => files'[d] = files[d]
    BY <1>1 DEF CreateCandidate, SetFile, QueueTypeOK
  <2>4. /\ job' = [job EXCEPT ![p] = job'[p]]
        /\ job'[p] = [cmd |-> "create", at |-> "fill", cand |-> c,
                      old |-> "candidate", new |-> "candidate", text |-> t]
    BY <1>1 DEF CreateCandidate, QueueTypeOK
  <2>5. MoveInv(job'[p], files', born')
    BY <1>1, <2>2, <2>4 DEF CreateCandidate, MoveInv
  <2>6. /\ born \subseteq born' /\ c \in born' /\ born' \subseteq born \cup {c}
        /\ deleted' = deleted
        /\ files'[c]["candidate"] # None
    BY <1>1, <2>2 DEF CreateCandidate
  <2> QED BY <2>1, <2>2, <2>3, <2>4, <2>5, <2>6, KeptWrite
<1>2. ASSUME NEW p \in Procs, NEW c \in Cands, NEW s \in Status, NEW cmd \in AllCommands,
             Start(p, cmd, c, s), cmd = "promote" => s \in Promotable
      PROVE  KeptInv'
  <2>1. Alone(p)
    BY <1>2, StartsAlone DEF Start
  <2>2. c \in born
    BY <1>2 DEF Start, KeptInv, FilesBorn
  <2>3. /\ job' = [job EXCEPT ![p] = job'[p]]
        /\ MoveInv(job'[p], files, born)
    BY <1>2, <2>2 DEF Start, QueueTypeOK, MoveInv, MovePoints
  <2> QED BY <1>2, <2>1, <2>3, KeptQuiet DEF Start, auxVars
<1> DEFINE Safe(p) == /\ Alone(p) /\ job[p] \in Jobs /\ WellFormed(job[p])
                      /\ job[p].cand \in Cands /\ job[p].old \in Status /\ job[p].new \in Status
                      /\ MoveInv(job[p], files, born)
<1>3. ASSUME NEW p \in Procs, job[p] # None
      PROVE  Safe(p)
  BY <1>3, JobFields, RunsAlone DEF KeptInv, QueueTypeOK
<1>4. ASSUME NEW p \in Procs, NEW v \in GateStatuses, Evaluate(p, v)
      PROVE  KeptInv'
  <2>1. Safe(p)
    BY <1>3, <1>4 DEF Evaluate, Load, Running
  <2>2. /\ job' = [job EXCEPT ![p] = job'[p]]
        /\ MoveInv(job'[p], files, born)
    BY <1>4, <2>1 DEF Evaluate, Load, QueueTypeOK, Jobs, MoveInv, MovePoints
  <2> QED BY <1>4, <2>1, <2>2, KeptQuiet DEF Evaluate
<1>5. ASSUME NEW p \in Procs, Reload(p)
      PROVE  KeptInv'
  <2>1. Safe(p)
    BY <1>3, <1>5 DEF Reload, Running
  <2>2. /\ job' = [job EXCEPT ![p] = job'[p]]
        /\ MoveInv(job'[p], files, born)
    BY <1>5, <2>1 DEF Reload, Running, Loaded, QueueTypeOK, Jobs, MoveInv, MovePoints
  <2> QED BY <1>5, <2>1, <2>2, KeptQuiet DEF Reload, auxVars
<1>6. ASSUME NEW p \in Procs, Decide(p)
      PROVE  KeptInv'
  <2>1. Safe(p)
    BY <1>3, <1>6 DEF Decide, Load, Running
  <2>2. /\ job' = [job EXCEPT ![p] = job'[p]]
        /\ MoveInv(job'[p], files, born)
    BY <1>6, <2>1 DEF Decide, Load, Loaded, Decisions, QueueTypeOK, Jobs, MoveInv, MovePoints
  <2> QED BY <1>6, <2>1, <2>2, KeptQuiet DEF Decide
<1>7. ASSUME NEW p \in Procs, NEW t \in Texts \cup {None}, Edit(p, t)
      PROVE  KeptInv'
  <2>1. Safe(p)
    BY <1>3, <1>7 DEF Edit, Load, Running
  <2>2. /\ job' = [job EXCEPT ![p] = job'[p]]
        /\ MoveInv(job'[p], files, born)
    BY <1>7, <2>1 DEF Edit, Load, Loaded, QueueTypeOK, Jobs, MoveInv, MovePoints
  <2> QED BY <1>7, <2>1, <2>2, KeptQuiet DEF Edit, auxVars
<1>8. ASSUME NEW p \in Procs, MoveToRolledBack(p) \/ PromoteLoad(p)
      PROVE  KeptInv'
  <2>1. Safe(p)
    BY <1>3, <1>8 DEF MoveToRolledBack, PromoteLoad, Load, Running
  <2>2. /\ job' = [job EXCEPT ![p] = job'[p]]
        /\ MoveInv(job'[p], files, born)
    <3>1. CASE MoveToRolledBack(p)
      BY <2>1, <3>1 DEF MoveToRolledBack, Load, Loaded, QueueTypeOK, Jobs, MoveInv, MovePoints
    <3>2. CASE PromoteLoad(p)
      BY <2>1, <3>2 DEF PromoteLoad, Load, Loaded, QueueTypeOK, Jobs, MoveInv, MovePoints
    <3> QED BY <1>8, <3>1, <3>2
  <2> QED BY <1>8, <2>1, <2>2, KeptQuiet DEF MoveToRolledBack, PromoteLoad, auxVars
<1>9. ASSUME NEW p \in Procs, LoadFails(p) \/ WriteFails(p) \/ KillCommand(p)
      PROVE  KeptInv'
  <2>1. job' = [job EXCEPT ![p] = job'[p]] /\ job'[p] = None
    BY <1>9 DEF LoadFails, WriteFails, KillCommand, Finish, QueueTypeOK
  <2> QED BY <1>9, <2>1, KeptQuiet DEF LoadFails, WriteFails, KillCommand, auxVars
<1>10. ASSUME NEW p \in Procs, CheckDeletable(p) \/ Validate(p) \/ Record(p)
       PROVE  KeptInv'
  <2>1. Safe(p)
    BY <1>3, <1>10 DEF CheckDeletable, Validate, Record, Load, Running
  <2>2. \E a \in {"unlink", "record", "promote_audit"} :
          /\ Continue(p, a)
          /\ a # "unlink" => files[job[p].cand][job[p].old] \in Texts
    BY <1>10, <2>1 DEF CheckDeletable, Validate, Record, Running, MoveInv
  <2>3. /\ job' = [job EXCEPT ![p] = job'[p]]
        /\ MoveInv(job'[p], files, born)
    BY <2>1, <2>2 DEF Continue, QueueTypeOK, Jobs, MoveInv, MovePoints
  <2> QED BY <1>10, <2>1, <2>3, KeptQuiet DEF CheckDeletable, Validate, Record, auxVars
<1>11. ASSUME NEW p \in Procs, AuditPromotion(p) \/ FailCandidate(p)
       PROVE  KeptInv'
  <2>1. Safe(p)
    BY <1>3, <1>11 DEF AuditPromotion, FailCandidate, Running
  <2>2. job[p].cand \in born /\ files[job[p].cand][job[p].old] \in Texts
    BY <1>11, <2>1 DEF AuditPromotion, FailCandidate, Running, MoveInv, Promotable, MovePoints
  <2>3. /\ job' = [job EXCEPT ![p] = job'[p]]
        /\ \E s \in {"promoted", "failed"} : job'[p] = [job[p] EXCEPT !.at = "open", !.new = s]
    BY <1>11, <2>1 DEF AuditPromotion, FailCandidate, QueueTypeOK
  <2>4. MoveInv(job'[p], files, born)
    BY <2>1, <2>2, <2>3 DEF Jobs, MoveInv, MovePoints
  <2> QED BY <1>11, <2>1, <2>3, <2>4, KeptQuiet DEF AuditPromotion, FailCandidate, auxVars
<1>12. ASSUME NEW p \in Procs, Unlink(p)
       PROVE  KeptInv'
  <2>1. Safe(p) /\ job[p].cmd = "delete"
    BY <1>3, <1>12 DEF Unlink, Running, WellFormed
  <2> DEFINE c == job[p].cand
  <2>2. CASE files[c][job[p].old] # None
    <3>1. /\ job' = [job EXCEPT ![p] = job'[p]]
          /\ job'[p] = [job[p] EXCEPT !.at = "audit"]
      BY <1>12, <2>1, <2>2 DEF Unlink, Continue, QueueTypeOK
    <3>2. MoveInv(job'[p], files', born)
      BY <2>1, <3>1 DEF Jobs, MoveInv, MovePoints
    <3>3. \A d \in Cands : d # c => files'[d] = files[d]
      BY <1>12, <2>1 DEF Unlink, SetFile, QueueTypeOK
    <3>4. c \in born /\ c \in deleted' /\ deleted \subseteq deleted' /\ born' = born
      BY <1>12, <2>1, <2>2 DEF Unlink, MoveInv
    <3> QED BY <2>1, <3>1, <3>2, <3>3, <3>4, KeptWrite
  <2>3. CASE files[c][job[p].old] = None
    <3>1. job' = [job EXCEPT ![p] = job'[p]] /\ job'[p] = None
      BY <1>12, <2>3, NoneIsNoJob DEF Unlink, Finish, QueueTypeOK
    <3>2. UNCHANGED <<files, born, deleted>>
      BY <1>12, <2>1, <2>3 DEF Unlink, SetFile, QueueTypeOK
    <3> QED BY <3>1, <3>2, KeptQuiet
  <2> QED BY <2>2, <2>3
<1>13. ASSUME NEW p \in Procs, OpenTarget(p)
       PROVE  KeptInv'
  <2>1. Safe(p)
    BY <1>3, <1>13 DEF OpenTarget, Running
  <2>2. \A d \in Cands, r \in Status : files'[d][r] =
          IF d = job[p].cand /\ r = job[p].new THEN Torn ELSE files[d][r]
    BY <1>13, <2>1, SetFileReads DEF OpenTarget
  <2>3. \A d \in Cands : d # job[p].cand => files'[d] = files[d]
    BY <1>13, <2>1 DEF OpenTarget, SetFile, QueueTypeOK
  <2>4. /\ job' = [job EXCEPT ![p] = job'[p]]
        /\ job'[p] = [job[p] EXCEPT !.at = "fill"]
    BY <1>13, <2>1 DEF OpenTarget, Continue, QueueTypeOK
  <2>5. job[p].at = "open"
    BY <1>13 DEF OpenTarget, Running
  <2>6. MoveInv(job'[p], files', born)
    BY <2>1, <2>2, <2>4, <2>5 DEF Jobs, MoveInv, MovePoints
  <2>7. born' = born /\ deleted' = deleted /\ job[p].cand \in born
    BY <1>13, <2>1 DEF OpenTarget, auxVars, MoveInv
  <2> QED BY <2>1, <2>2, <2>3, <2>4, <2>6, <2>7, KeptWrite
<1>14. ASSUME NEW p \in Procs, FillTarget(p)
       PROVE  KeptInv'
  <2>1. Safe(p) /\ job[p].at = "fill"
    BY <1>3, <1>14 DEF FillTarget, Running
  <2>2. job[p].text \in Texts /\ files[job[p].cand][job[p].new] = Torn
    BY <2>1 DEF WellFormed, MoveInv
  <2>3. SetFile(job[p].cand, job[p].new, job[p].text)
    BY <1>14, <2>2 DEF FillTarget
  <2>4. \A d \in Cands, r \in Status : files'[d][r] =
          IF d = job[p].cand /\ r = job[p].new THEN job[p].text ELSE files[d][r]
    BY <2>1, <2>3, SetFileReads
  <2>5. \A d \in Cands : d # job[p].cand => files'[d] = files[d]
    BY <2>1, <2>3 DEF SetFile, QueueTypeOK
  <2>6. /\ job' = [job EXCEPT ![p] = job'[p]]
        /\ job'[p] = [job[p] EXCEPT !.at = "unlink_old"]
    BY <1>14, <2>1 DEF FillTarget, Continue, QueueTypeOK
  <2>7. MoveInv(job'[p], files', born)
    BY <2>1, <2>2, <2>4, <2>6 DEF Jobs, MoveInv, MovePoints
  <2>8. born' = born /\ deleted' = deleted /\ job[p].cand \in born
    BY <1>14, <2>1 DEF FillTarget, auxVars, MoveInv
  <2> QED BY <2>1, <2>2, <2>4, <2>5, <2>6, <2>7, <2>8, KeptWrite
<1>15. ASSUME NEW p \in Procs, UnlinkOld(p)
       PROVE  KeptInv'
  <2>1. Safe(p) /\ job[p].at = "unlink_old"
    BY <1>3, <1>15 DEF UnlinkOld, Running
  <2>2. files[job[p].cand][job[p].new] \in Texts
    BY <2>1 DEF MoveInv
  <2>3. files'[job[p].cand][job[p].new] \in Texts
    BY <1>15, <2>1, <2>2, SetFileReads DEF UnlinkOld
  <2>4. \A d \in Cands : d # job[p].cand => files'[d] = files[d]
    BY <1>15, <2>1 DEF UnlinkOld, SetFile, QueueTypeOK
  <2>5. /\ job' = [job EXCEPT ![p] = job'[p]]
        /\ job'[p] # None => job'[p] = [job[p] EXCEPT !.at = "audit"]
    BY <1>15, <2>1 DEF UnlinkOld, AfterMove, Continue, Finish, QueueTypeOK
  <2>6. job'[p] # None => MoveInv(job'[p], files', born)
    BY <2>1, <2>5 DEF Jobs, MoveInv, MovePoints
  <2>7. born' = born /\ deleted' = deleted /\ job[p].cand \in born
    BY <1>15, <2>1 DEF UnlinkOld, auxVars, MoveInv
  <2> QED BY <2>1, <2>3, <2>4, <2>5, <2>6, <2>7, KeptWrite
<1>16. ASSUME NEW p \in Procs, AppendAudit(p)
       PROVE  KeptInv'
  <2>1. job' = [job EXCEPT ![p] = job'[p]] /\ job'[p] = None
    BY <1>16 DEF AppendAudit, Finish, QueueTypeOK
  <2> QED BY <1>16, <2>1, KeptQuiet DEF AppendAudit, auxVars
<1>17. CASE UNCHANGED qvars
  BY <1>17 DEF qvars, queueVars, auxVars, KeptInv, OneCommand, FilesBorn, NoCandidateLost
<1>18. ASSUME NEW p \in Procs, StartCommand(p)
       PROVE  KeptInv'
  BY <1>18, <1>1, <1>2 DEF StartCommand, StartReview, StartById, StartPromote, StartRollback,
     AllCommands, Decisions
<1> HIDE DEF Safe
<1> QED BY <1>4, <1>5, <1>6, <1>7, <1>8, <1>9, <1>10, <1>11, <1>12, <1>13, <1>14, <1>15,
           <1>16, <1>17, <1>18
        DEF QueueNext, DecideWhatToWrite, DeleteStep, PromoteStep, WriteStep

LEMMA KeptInvariant == ASSUME Serial PROVE QueueSpec => []KeptInv
<1> USE WorkspaceConstants, QueueConstants
<1>1. QueueInit => KeptInv
  BY DEF QueueInit, KeptInv, OneCommand, FilesBorn, NoCandidateLost, Status
<1>2. QueueTypeOK /\ KeptInv /\ [QueueNext]_qvars => KeptInv'
  BY KeptInvStep
<1>3. QueueSpec => []QueueTypeOK
  BY QueueTypeCorrect
<1> QED BY <1>1, <1>2, <1>3, PTL DEF QueueSpec, qvars

\* While one command runs at a time, killed or failing to write wherever it may
\* be, a candidate that nobody deleted still has a file (write_candidate_data
\* writes the target before it unlinks the old path).
THEOREM NoCandidateLostHolds == ASSUME Serial PROVE QueueSpec => []NoCandidateLost
<1>1. KeptInv => NoCandidateLost
  BY DEF KeptInv
<1> QED BY <1>1, KeptInvariant, PTL

\* Of a step: a candidate's last readable copy goes only where LastCopyKept says.
LastCopyStep ==
    \A c \in Cands :
      HasReadable(c) /\ ~HasReadable(c)' =>
        \E p \in Procs :
          /\ job[p] # None /\ job[p].cand = c
          /\ \/ job[p].at = "unlink"
             \/ job[p].at = "open" /\ job[p].old = job[p].new

LEMMA LastCopyStepHolds ==
    ASSUME QueueTypeOK, KeptInv, [QueueNext]_qvars
    PROVE  LastCopyStep
<1> USE WorkspaceConstants, QueueConstants
<1>1. CASE UNCHANGED files
  BY <1>1 DEF LastCopyStep, HasReadable
<1>2. ASSUME NEW p \in Procs, NEW c \in Cands, NEW t \in Texts, CreateCandidate(p, c, t)
      PROVE  LastCopyStep
  <2>1. ~HasReadable(c)
    BY <1>2 DEF CreateCandidate, HasReadable, KeptInv, FilesBorn
  <2>2. \A d \in Cands : d # c => files'[d] = files[d]
    BY <1>2 DEF CreateCandidate, SetFile, QueueTypeOK
  <2> QED BY <2>1, <2>2 DEF LastCopyStep, HasReadable
<1>3. ASSUME NEW p \in Procs, job[p] # None, NEW v, NEW s \in Status,
             SetFile(job[p].cand, s, v)
      PROVE  \A d \in Cands : d # job[p].cand => files'[d] = files[d]
  BY <1>3, JobFields DEF SetFile, QueueTypeOK
<1>4. ASSUME NEW p \in Procs, Unlink(p)
      PROVE  LastCopyStep
  <2>1. job[p] # None /\ job[p].at = "unlink"
    BY <1>4 DEF Unlink, Running
  <2> QED BY <1>3, <1>4, <2>1, JobFields DEF Unlink, LastCopyStep, HasReadable
<1>5. ASSUME NEW p \in Procs, OpenTarget(p)
      PROVE  LastCopyStep
  <2>1. job[p] # None /\ job[p].at = "open" /\ MoveInv(job[p], files, born)
    BY <1>5 DEF OpenTarget, Running, KeptInv
  <2>2. \A d \in Cands : d # job[p].cand => files'[d] = files[d]
    BY <1>3, <1>5, <2>1, JobFields DEF OpenTarget
  <2>3. job[p].old # job[p].new => files'[job[p].cand][job[p].old] \in Texts
    BY <1>5, <2>1, JobFields, SetFileReads DEF OpenTarget, MoveInv
  <2>4. job[p].old # job[p].new => \E s \in Status : files'[job[p].cand][s] \in Texts
    BY <2>1, <2>3, JobFields
  <2> QED BY <2>1, <2>2, <2>4 DEF LastCopyStep, HasReadable
<1>6. ASSUME NEW p \in Procs, FillTarget(p) \/ UnlinkOld(p)
      PROVE  LastCopyStep
  <2>1. /\ job[p] # None /\ MoveInv(job[p], files, born) /\ WellFormed(job[p])
        /\ job[p].at = IF FillTarget(p) THEN "fill" ELSE "unlink_old"
    BY <1>6 DEF FillTarget, UnlinkOld, Running, KeptInv, QueueTypeOK
  <2>2. files'[job[p].cand][job[p].new] \in Texts
    <3>1. CASE FillTarget(p)
      <4>1. job[p].text \in Texts /\ files[job[p].cand][job[p].new] = Torn
        BY <2>1, <3>1 DEF WellFormed, MoveInv
      <4>2. SetFile(job[p].cand, job[p].new, job[p].text)
        BY <3>1, <4>1 DEF FillTarget
      <4> QED BY <2>1, <4>1, <4>2, JobFields, SetFileReads
    <3>2. CASE UnlinkOld(p)
      <4>1. files[job[p].cand][job[p].new] \in Texts
        BY <2>1, <3>2 DEF UnlinkOld, Running, MoveInv
      <4> QED BY <2>1, <3>2, <4>1, JobFields, SetFileReads DEF UnlinkOld
    <3> QED BY <1>6, <3>1, <3>2
  <2>3. \A d \in Cands : d # job[p].cand => files'[d] = files[d]
    BY <1>1, <1>3, <1>6, <2>1, JobFields DEF FillTarget, UnlinkOld
  <2>4. \E s \in Status : files'[job[p].cand][s] \in Texts
    BY <2>1, <2>2, JobFields
  <2> QED BY <2>3, <2>4 DEF LastCopyStep, HasReadable
<1>7. ASSUME NEW p \in Procs, NEW cmd, NEW c, NEW s, Start(p, cmd, c, s)
      PROVE  UNCHANGED files
  BY <1>7 DEF Start
<1>8. ASSUME NEW p \in Procs,
             DecideWhatToWrite(p) \/ CheckDeletable(p) \/ PromoteStep(p) \/ WriteFails(p)
             \/ AppendAudit(p) \/ KillCommand(p)
      PROVE  UNCHANGED files
  BY <1>8 DEF DecideWhatToWrite, Evaluate, Reload, Decide, Edit, MoveToRolledBack, LoadFails,
     CheckDeletable, PromoteStep, PromoteLoad, Validate, Record, AuditPromotion, FailCandidate,
     WriteFails, AppendAudit, KillCommand
<1>9. ASSUME NEW p \in Procs, StartCommand(p)
      PROVE  LastCopyStep
  BY <1>9, <1>1, <1>2, <1>7 DEF StartCommand, StartReview, StartById, StartPromote,
     StartRollback
<1>10. CASE UNCHANGED qvars
  BY <1>1, <1>10 DEF qvars, queueVars
<1> QED BY <1>1, <1>4, <1>5, <1>6, <1>8, <1>9, <1>10
        DEF QueueNext, DeleteStep, WriteStep

\* In the same generality, the last readable copy of a candidate goes only when a
\* delete unlinks it or a command rewrites it in place.
THEOREM LastCopyKeptHolds == ASSUME Serial PROVE QueueSpec => LastCopyKept
<1>1. QueueTypeOK /\ KeptInv /\ [QueueNext]_qvars => [LastCopyStep]_<<queueVars, dead>>
  BY LastCopyStepHolds DEF qvars
<1>2. QueueSpec => []QueueTypeOK
  BY QueueTypeCorrect
<1>3. QueueSpec => [][LastCopyStep]_<<queueVars, dead>>
  BY <1>1, <1>2, KeptInvariant, PTL DEF QueueSpec, qvars
<1> QED BY <1>3 DEF LastCopyKept, LastCopyStep

-----------------------------------------------------------------------------
\* Without kills and failing writes.  f is the row of files of one candidate.
Only(f, s) == f[s] \in Texts /\ \A r \in Status \ {s} : f[r] = None
Empty(f) == \A s \in Status : f[s] = None

\* Of a candidate no command is at work on: its one file and its audit agree.
Settled(c, F, A, B, D) ==
    IF c \in B \ D THEN \E s \in Status : Only(F[c], s) /\ A[c] = s
    ELSE Empty(F[c]) /\ A[c] = IF c \in D THEN "deleted" ELSE None

\* The moves a command may make: from old to new, or in place.
MayMove(j, L) ==
    \/ j.new = j.old
    \/ j.new \in GateStatuses
    \/ j.old \in ReviewStatuses /\ j.new \in {"approved", "rejected", "held", "candidate"}
    \/ j.old \in Promotable /\ j.new = "failed"
    \/ j.old \in Promotable /\ j.new = "promoted" /\ j.cand \in L
    \/ j.new = "rolled_back" /\ j.cand \in L

\* The shape the files, the audit, the history and the ledger have while j runs:
\* what it has found ...
Reading(j, F, A, B, D, L) ==
    /\ j.cand \in B
    /\ j.cand \in D <=> j.cmd = "delete" /\ j.at = "audit"
    /\ j.at \in Points \ {"fill", "unlink_old", "audit"} => Only(F[j.cand], j.old)
    /\ j.at \in Points \ (MovePoints \cup {"audit"}) => A[j.cand] = j.old
    /\ j.at = "load" =>
         /\ j.new = j.old
         /\ j.cmd = "promote" => j.old \in Promotable
         /\ j.cmd = "rollback" => j.cand \in L
    /\ j.at = "reload" => j.cmd = "review" /\ j.new \in GateStatuses
    /\ j.at = "unlink" => j.old \in Deletable
    /\ j.at \in {"validate", "record", "promote_audit"} =>
         j.cmd = "promote" /\ j.old \in Promotable
    /\ j.at = "promote_audit" => j.cand \in L

\* ... and what it has written.
Writing(j, F, A, L) ==
    /\ j.at \in MovePoints =>
         /\ MayMove(j, L)
         /\ j.cmd = "promote" /\ j.new = "promoted" => A[j.cand] = "promoted"
    /\ j.at \in {"fill", "unlink_old"} =>
         /\ IF j.at = "fill" THEN F[j.cand][j.new] = Torn ELSE F[j.cand][j.new] \in Texts
         /\ j.old # j.new => F[j.cand][j.old] \in Texts
         /\ \A r \in Status \ {j.old, j.new} : F[j.cand][r] = None
    /\ j.at = "audit" =>
         IF j.cmd = "delete" THEN Empty(F[j.cand]) ELSE Only(F[j.cand], j.new)

Shape(j, F, A, B, D, L) == Reading(j, F, A, B, D, L) /\ Writing(j, F, A, L)

UndisturbedInv ==
    /\ OneCommand /\ deleted \subseteq born
    /\ \A c \in Cands : AtRest(c) => Settled(c, files, audit, born, deleted)
    /\ \A p \in Procs : job[p] # None =>
         Shape(job[p], files, audit, born, deleted, ledgered)

\* A step of the only command, at work on c, that leaves the rest alone.
LEMMA UndisturbedStep ==
    ASSUME QueueTypeOK, UndisturbedInv, NEW p \in Procs, Alone(p), NEW c \in Cands,
           job' = [job EXCEPT ![p] = job'[p]], job[p] = None \/ job[p].cand = c,
           \A d \in Cands : d # c => /\ files'[d] = files[d] /\ audit'[d] = audit[d]
                                     /\ d \in born' <=> d \in born
                                     /\ d \in deleted' <=> d \in deleted,
           deleted' \subseteq born',
           job'[p] # None =>
             job'[p].cand = c /\ Shape(job'[p], files', audit', born', deleted', ledgered'),
           job'[p] = None => Settled(c, files', audit', born', deleted')
    PROVE  UndisturbedInv'
<1>1. \A q \in Procs : q # p => job[q] = None /\ job'[q] = None
  BY DEF QueueTypeOK, Alone
<1>2. OneCommand'
  BY OneCommandStep DEF UndisturbedInv
<1>3. ASSUME NEW d \in Cands, AtRest(d)'
      PROVE  Settled(d, files', audit', born', deleted')
  <2>1. CASE d = c
    BY <1>3, <2>1 DEF AtRest
  <2>2. CASE d # c
    <3>1. AtRest(d)
      BY <1>1, <2>2 DEF AtRest
    <3>2. Settled(d, files, audit, born, deleted)
      BY <3>1 DEF UndisturbedInv
    <3> QED BY <2>2, <3>2 DEF Settled
  <2> QED BY <2>1, <2>2
<1> QED BY <1>1, <1>2, <1>3 DEF UndisturbedInv

\* A step of a running command in memory only.
LEMMA UndisturbedQuiet ==
    ASSUME QueueTypeOK, UndisturbedInv, UNCHANGED <<files, audit, born, deleted>>,
           NEW p \in Procs, Alone(p), job[p] # None,
           job' = [job EXCEPT ![p] = job'[p]], job'[p] # None,
           job'[p].cand = job[p].cand,
           Shape(job'[p], files, audit, born, deleted, ledgered')
    PROVE  UndisturbedInv'
<1>1. job[p].cand \in Cands /\ deleted \subseteq born
  BY JobFields DEF UndisturbedInv
<1> QED BY <1>1, UndisturbedStep

LEMMA UndisturbedInit == ASSUME QueueInit PROVE UndisturbedInv
<1> USE WorkspaceConstants, QueueConstants
<1>1. ASSUME NEW c \in Cands
      PROVE  Settled(c, files, audit, born, deleted)
  <2>1. CASE c \in Ready
    <3>1. Only(files[c], "auto_passed") /\ audit[c] = "auto_passed"
      BY <2>1 DEF QueueInit, Only, Status
    <3> QED BY <2>1, <3>1 DEF QueueInit, Settled, Status
  <2>2. CASE c \notin Ready
    BY <2>2 DEF QueueInit, Settled, Empty, Status
  <2> QED BY <2>1, <2>2
<1>2. OneCommand /\ deleted \subseteq born /\ \A p \in Procs : job[p] = None
  BY DEF QueueInit, OneCommand
<1> QED BY <1>1, <1>2 DEF UndisturbedInv

LEMMA UndisturbedInvStep ==
    ASSUME Serial, Mortal = {}, ~IOErrors, QueueTypeOK, UndisturbedInv, [QueueNext]_qvars
    PROVE  UndisturbedInv'
<1> USE WorkspaceConstants, QueueConstants, NoneIsNoJob
<1>1. ASSUME NEW p \in Procs, NEW c \in Cands, NEW t \in Texts, CreateCandidate(p, c, t)
      PROVE  UndisturbedInv'
  <2>1. Alone(p) /\ job[p] = None /\ c \notin born /\ c \notin deleted
    BY <1>1, StartsAlone DEF CreateCandidate, UndisturbedInv
  <2>2. Empty(files[c])
    BY <2>1 DEF UndisturbedInv, AtRest, Alone, Settled
  <2>3. "candidate" \in Status /\ \A r \in Status :
          files'[c][r] = IF r = "candidate" THEN Torn ELSE None
    BY <1>1, <2>2, SetFileReads DEF CreateCandidate, Status, Empty
  <2>4. /\ job' = [job EXCEPT ![p] = job'[p]]
        /\ job'[p] = [cmd |-> "create", at |-> "fill", cand |-> c,
                      old |-> "candidate", new |-> "candidate", text |-> t]
    BY <1>1 DEF CreateCandidate, QueueTypeOK
  <2>5. born' = born \cup {c} /\ deleted' = deleted /\ audit' = audit
        /\ \A d \in Cands : d # c => files'[d] = files[d]
    BY <1>1 DEF CreateCandidate, SetFile, QueueTypeOK
  <2>6. Shape(job'[p], files', audit', born', deleted', ledgered')
    BY <2>1, <2>3, <2>4, <2>5 DEF Shape, Reading, Writing, MayMove, MovePoints
  <2>7. job'[p] # None /\ job'[p].cand = c /\ deleted' \subseteq born'
    BY <2>3, <2>4, <2>5 DEF UndisturbedInv, Jobs, AllCommands, Points
  <2>8. \A d \in Cands : d # c =>
          /\ files'[d] = files[d] /\ audit'[d] = audit[d]
          /\ d \in born' <=> d \in born
          /\ d \in deleted' <=> d \in deleted
    BY <2>5
  <2> QED BY <2>1, <2>4, <2>6, <2>7, <2>8, UndisturbedStep
<1>2. ASSUME NEW p \in Procs, NEW c \in Cands, NEW s \in Status, NEW cmd \in AllCommands,
             Start(p, cmd, c, s), cmd = "promote" => s \in Promotable,
             cmd = "rollback" => c \in ledgered
      PROVE  UndisturbedInv'
  <2>1. Alone(p) /\ job[p] = None
    BY <1>2, StartsAlone DEF Start
  <2>2. Settled(c, files, audit, born, deleted)
    BY <2>1 DEF UndisturbedInv, AtRest, Alone
  <2>3. c \in born /\ c \notin deleted /\ Only(files[c], s) /\ audit[c] = s
    BY <1>2, <2>2 DEF Start, Settled, Only, Empty
  <2>4. /\ job' = [job EXCEPT ![p] = job'[p]]
        /\ job'[p] = [cmd |-> cmd, at |-> "load", cand |-> c, old |-> s, new |-> s, text |-> None]
    BY <1>2 DEF Start, QueueTypeOK
  <2>5. UNCHANGED <<files, audit, ledgered, born, deleted>>
    BY <1>2 DEF Start, auxVars
  <2>6. Shape(job'[p], files', audit', born', deleted', ledgered')
    BY <1>2, <2>3, <2>4, <2>5 DEF Shape, Reading, Writing, MovePoints
  <2>7. job'[p].cand = c /\ deleted' \subseteq born'
    BY <2>4, <2>5 DEF UndisturbedInv
  <2>8. job'[p] # None
    BY <2>4 DEF Jobs, Points
  <2> QED BY <2>1, <2>4, <2>5, <2>6, <2>7, <2>8, UndisturbedStep
<1> DEFINE Safe(p) == /\ Alone(p) /\ job[p] \in Jobs /\ WellFormed(job[p])
                      /\ job[p].cand \in Cands /\ job[p].old \in Status /\ job[p].new \in Status
                      /\ Shape(job[p], files, audit, born, deleted, ledgered)
<1>3. ASSUME NEW p \in Procs, job[p] # None
      PROVE  Safe(p)
  BY <1>3, JobFields, RunsAlone DEF UndisturbedInv, QueueTypeOK
<1>4. ASSUME NEW p \in Procs, NEW v \in GateStatuses, Evaluate(p, v)
      PROVE  UndisturbedInv'
  <2>1. Safe(p) /\ job[p] # None /\ job[p].at = "load" /\ job[p].cmd = "review"
        /\ Loaded(p) \in Texts /\ v \in Status
    BY <1>3, <1>4 DEF Evaluate, Load, Running, GateStatuses, Status
  <2>2. /\ job' = [job EXCEPT ![p] = job'[p]]
        /\ job'[p] = [job[p] EXCEPT !.at = "reload", !.new = v, !.text = Loaded(p)]
    BY <1>4 DEF Evaluate, QueueTypeOK
  <2>3. /\ job'[p].cmd = job[p].cmd /\ job'[p].at = "reload"
        /\ job'[p].cand = job[p].cand /\ job'[p].old = job[p].old /\ job'[p].new = v
    BY <2>1, <2>2 DEF Jobs
  <2>4. Shape(job'[p], files, audit, born, deleted, ledgered)
    BY <2>1, <2>3 DEF Points, Shape, Reading, Writing, MovePoints
  <2>5. job'[p] # None
    <3>1. [job[p] EXCEPT !.at = "reload", !.new = v, !.text = Loaded(p)] \in Jobs
      BY <2>1 DEF Jobs, Points, Status
    <3> QED BY <2>2, <3>1
  <2> QED BY <1>4, <2>1, <2>2, <2>3, <2>4, <2>5, UndisturbedQuiet DEF Evaluate
<1>5. ASSUME NEW p \in Procs, Reload(p)
      PROVE  UndisturbedInv'
  <2>1. Safe(p) /\ job[p] # None /\ job[p].at = "reload" /\ Loaded(p) \in Texts
    BY <1>3, <1>5 DEF Reload, Running
  <2>2. /\ job' = [job EXCEPT ![p] = job'[p]]
        /\ job'[p] = [job[p] EXCEPT !.at = "open", !.text = Loaded(p)]
    BY <1>5 DEF Reload, QueueTypeOK
  <2>3. /\ job'[p].cmd = job[p].cmd /\ job'[p].at = "open"
        /\ job'[p].cand = job[p].cand /\ job'[p].old = job[p].old /\ job'[p].new = job[p].new
    BY <2>1, <2>2 DEF Jobs
  <2>4. Shape(job'[p], files, audit, born, deleted, ledgered)
    BY <2>1, <2>3 DEF Points, Shape, Reading, Writing, MovePoints, MayMove
  <2>5. job'[p] # None
    <3>1. [job[p] EXCEPT !.at = "open", !.text = Loaded(p)] \in Jobs
      BY <2>1 DEF Jobs, Points, Status
    <3> QED BY <2>2, <3>1
  <2> QED BY <1>5, <2>1, <2>2, <2>3, <2>4, <2>5, UndisturbedQuiet DEF Reload, auxVars
<1>6. ASSUME NEW p \in Procs, Decide(p) \/ (\E t \in Texts \cup {None} : Edit(p, t))
      PROVE  UndisturbedInv'
  <2>1. Safe(p) /\ job[p] # None /\ job[p].at = "load" /\ job[p].cmd \in Decisions \cup {"edit"}
        /\ job[p].old \in ReviewStatuses /\ Loaded(p) \in Texts
    BY <1>3, <1>6 DEF Decide, Edit, Load, Running
  <2> DEFINE Opened == \E s \in {"approved", "rejected", "held", "candidate", job[p].new},
                          t \in Texts :
                         job'[p] = [job[p] EXCEPT !.at = "open", !.new = s, !.text = t]
  <2>2. job' = [job EXCEPT ![p] = job'[p]] /\ Opened
    <3>1. CASE Decide(p)
      <4>1. job[p].cmd \in Decisions /\ Loaded(p) \in Texts
        BY <3>1 DEF Decide, Load
      <4>2. DecisionStatus[job[p].cmd] \in {"approved", "rejected", "held"}
        BY <4>1, DecisionStatusFacts
      <4>3. job' = [job EXCEPT ![p] = [@ EXCEPT !.at = "open", !.text = Loaded(p),
                                                !.new = DecisionStatus[job[p].cmd]]]
        BY <3>1 DEF Decide
      <4>4. job'[p] = [job[p] EXCEPT !.at = "open", !.new = DecisionStatus[job[p].cmd],
                                     !.text = Loaded(p)]
        BY <2>1, <4>3 DEF QueueTypeOK, Jobs
      <4> QED BY <4>1, <4>2, <4>3, <4>4 DEF QueueTypeOK
    <3>2. ASSUME NEW t \in Texts \cup {None}, Edit(p, t)
          PROVE  job' = [job EXCEPT ![p] = job'[p]] /\ Opened
      <4>1. Loaded(p) \in Texts
        BY <2>1
      <4>2. CASE t = None
        <5>1. job' = [job EXCEPT ![p] = [@ EXCEPT !.at = "open", !.text = Loaded(p)]]
          BY <3>2, <4>2 DEF Edit
        <5>2. job'[p] = [job[p] EXCEPT !.at = "open", !.new = job[p].new, !.text = Loaded(p)]
          BY <2>1, <5>1 DEF QueueTypeOK, Jobs
        <5> QED BY <4>1, <5>1, <5>2 DEF QueueTypeOK
      <4>3. CASE t # None
        <5>1. job' = [job EXCEPT ![p] = [@ EXCEPT !.at = "open", !.text = t,
                                                  !.new = "candidate"]]
          BY <3>2, <4>3 DEF Edit
        <5>2. job'[p] = [job[p] EXCEPT !.at = "open", !.new = "candidate", !.text = t]
          BY <2>1, <5>1 DEF QueueTypeOK, Jobs
        <5> QED BY <4>3, <5>1, <5>2 DEF QueueTypeOK
      <4> QED BY <4>2, <4>3
    <3> QED BY <1>6, <3>1, <3>2
  <2>3. \E s \in {"approved", "rejected", "held", "candidate", job[p].new} :
          /\ job'[p].cmd = job[p].cmd /\ job'[p].at = "open"
          /\ job'[p].cand = job[p].cand /\ job'[p].old = job[p].old /\ job'[p].new = s
    BY <2>1, <2>2 DEF Jobs
  <2>4. Shape(job'[p], files, audit, born, deleted, ledgered)
    BY <2>1, <2>3 DEF Points, Shape, Reading, Writing, MovePoints, MayMove, Decisions
  <2>5. job'[p] # None
    <3>1. PICK s \in Status, t \in Texts :
                 job'[p] = [job[p] EXCEPT !.at = "open", !.new = s, !.text = t]
      <4>1. {"approved", "rejected", "held", "candidate", job[p].new} \subseteq Status
        BY <2>1 DEF Status
      <4> HIDE DEF Safe
      <4> QED BY <2>2, <4>1
    <3>2. [job[p] EXCEPT !.at = "open", !.new = s, !.text = t] \in Jobs
      BY <2>1 DEF Jobs, Points
    <3> QED BY <3>1, <3>2
  <2>6. UNCHANGED <<files, audit, ledgered, born, deleted>>
    BY <1>6 DEF Decide, Edit, auxVars
  <2> QED BY <2>1, <2>2, <2>3, <2>4, <2>5, <2>6, UndisturbedQuiet
<1>7. ASSUME NEW p \in Procs, MoveToRolledBack(p)
      PROVE  UndisturbedInv'
  <2>1. Safe(p) /\ job[p] # None /\ job[p].at = "load" /\ job[p].cmd = "rollback"
        /\ Loaded(p) \in Texts
    BY <1>3, <1>7 DEF MoveToRolledBack, Load, Running
  <2>2. /\ job' = [job EXCEPT ![p] = job'[p]]
        /\ job'[p] = [job[p] EXCEPT !.at = "open", !.text = Loaded(p), !.new = "rolled_back"]
    BY <1>7 DEF MoveToRolledBack, QueueTypeOK
  <2>3. /\ job'[p].cmd = job[p].cmd /\ job'[p].at = "open"
        /\ job'[p].cand = job[p].cand /\ job'[p].old = job[p].old /\ job'[p].new = "rolled_back"
    BY <2>1, <2>2 DEF Jobs
  <2>4. Shape(job'[p], files, audit, born, deleted, ledgered)
    BY <2>1, <2>3 DEF Points, Shape, Reading, Writing, MovePoints, MayMove
  <2>5. job'[p] # None
    <3>1. [job[p] EXCEPT !.at = "open", !.text = Loaded(p), !.new = "rolled_back"] \in Jobs
      BY <2>1 DEF Jobs, Points, Status
    <3> QED BY <2>2, <3>1
  <2> QED BY <1>7, <2>1, <2>2, <2>3, <2>4, <2>5, UndisturbedQuiet DEF MoveToRolledBack, auxVars
<1>8. ASSUME NEW p \in Procs, LoadFails(p)
      PROVE  UndisturbedInv'
  <2>1. Safe(p) /\ job[p] # None /\ job[p].at \in {"load", "reload"}
    BY <1>3, <1>8 DEF LoadFails, Running
  <2>2. job' = [job EXCEPT ![p] = job'[p]] /\ job'[p] = None
    BY <1>8 DEF LoadFails, Finish, QueueTypeOK
  <2>3. UNCHANGED <<files, audit, born, deleted>> /\ deleted \subseteq born
    BY <1>8 DEF LoadFails, auxVars, UndisturbedInv
  <2>4. Settled(job[p].cand, files, audit, born, deleted)
    BY <2>1 DEF Points, MovePoints, Shape, Reading, Settled
  <2> QED BY <2>1, <2>2, <2>3, <2>4, UndisturbedStep
<1>9. ASSUME NEW p \in Procs, CheckDeletable(p)
      PROVE  UndisturbedInv'
  <2>1. Safe(p) /\ job[p] # None /\ job[p].at = "load" /\ job[p].cmd = "delete"
    BY <1>3, <1>9 DEF CheckDeletable, Load, Running
  <2>2. /\ job' = [job EXCEPT ![p] = job'[p]]
        /\ job'[p] = [job[p] EXCEPT !.at = "unlink"]
    BY <1>9 DEF CheckDeletable, Continue, QueueTypeOK
  <2>3. /\ job'[p] # None /\ job'[p].cand = job[p].cand
        /\ Shape(job'[p], files, audit, born, deleted, ledgered)
    BY <1>9, <2>1, <2>2 DEF CheckDeletable, Jobs, Points, Shape, Reading, Writing, MovePoints
  <2> QED BY <1>9, <2>1, <2>2, <2>3, UndisturbedQuiet DEF CheckDeletable, auxVars
<1>10. ASSUME NEW p \in Procs, Unlink(p)
       PROVE  UndisturbedInv'
  <2>1. Safe(p) /\ job[p] # None /\ job[p].at = "unlink" /\ job[p].cmd = "delete"
    BY <1>3, <1>10 DEF Unlink, Running, WellFormed
  <2>2. Only(files[job[p].cand], job[p].old) /\ job[p].cand \in born
    BY <2>1 DEF Shape, Reading, Points
  <2>3. files[job[p].cand][job[p].old] # None
    BY <2>2 DEF Only
  <2>4. /\ job' = [job EXCEPT ![p] = job'[p]]
        /\ job'[p] = [job[p] EXCEPT !.at = "audit"]
        /\ deleted' = deleted \cup {job[p].cand}
        /\ born' = born /\ audit' = audit
    BY <1>10, <2>3 DEF Unlink, Continue, QueueTypeOK
  <2>5. /\ Empty(files'[job[p].cand])
        /\ \A d \in Cands : d # job[p].cand => files'[d] = files[d]
    BY <1>10, <2>1, <2>2, SetFileReads DEF Unlink, SetFile, QueueTypeOK, Only, Empty
  <2>6. Shape(job'[p], files', audit', born', deleted', ledgered')
    BY <2>1, <2>2, <2>4, <2>5 DEF Jobs, Points, Shape, Reading, Writing, MovePoints
  <2>7. job'[p].cand = job[p].cand /\ deleted' \subseteq born'
    BY <2>1, <2>2, <2>4 DEF Jobs, UndisturbedInv
  <2>8. job'[p] # None
    BY <2>1, <2>4 DEF Jobs, Points
  <2> QED BY <2>1, <2>4, <2>5, <2>6, <2>7, <2>8, UndisturbedStep
<1>11. ASSUME NEW p \in Procs, PromoteLoad(p)
       PROVE  UndisturbedInv'
  <2>1. Safe(p) /\ job[p] # None /\ job[p].at = "load" /\ job[p].cmd = "promote"
        /\ Loaded(p) \in Texts
    BY <1>3, <1>11 DEF PromoteLoad, Load, Running
  <2>2. /\ job' = [job EXCEPT ![p] = job'[p]]
        /\ job'[p] = [job[p] EXCEPT !.at = "validate", !.text = Loaded(p)]
    BY <1>11 DEF PromoteLoad, QueueTypeOK
  <2>3. /\ job'[p].cmd = job[p].cmd /\ job'[p].at = "validate"
        /\ job'[p].cand = job[p].cand /\ job'[p].old = job[p].old /\ job'[p].new = job[p].new
    BY <2>1, <2>2 DEF Jobs
  <2>4. Shape(job'[p], files, audit, born, deleted, ledgered)
    BY <2>1, <2>3 DEF Points, Shape, Reading, Writing, MovePoints
  <2>5. job'[p] # None
    <3>1. [job[p] EXCEPT !.at = "validate", !.text = Loaded(p)] \in Jobs
      BY <2>1 DEF Jobs, Points, Status
    <3> QED BY <2>2, <3>1
  <2> QED BY <1>11, <2>1, <2>2, <2>3, <2>4, <2>5, UndisturbedQuiet DEF PromoteLoad, auxVars
<1>12. ASSUME NEW p \in Procs, Validate(p) \/ Record(p)
       PROVE  UndisturbedInv'
  <2>1. Safe(p) /\ job[p] # None /\ job[p].at \in {"validate", "record"}
    BY <1>3, <1>12 DEF Validate, Record, Running
  <2>2. /\ job' = [job EXCEPT ![p] = job'[p]]
        /\ \E a \in {"record", "promote_audit"} :
             /\ job'[p] = [job[p] EXCEPT !.at = a]
             /\ a = "promote_audit" => job[p].cand \in ledgered'
    BY <1>12 DEF Validate, Record, Continue, QueueTypeOK
  <2>3. /\ job'[p] # None /\ job'[p].cand = job[p].cand
        /\ Shape(job'[p], files, audit, born, deleted, ledgered')
    BY <2>1, <2>2 DEF Jobs, Points, Shape, Reading, Writing, MovePoints
  <2> QED BY <1>12, <2>1, <2>2, <2>3, UndisturbedQuiet DEF Validate, Record, auxVars
<1>13. ASSUME NEW p \in Procs, AuditPromotion(p)
       PROVE  UndisturbedInv'
  <2>1. Safe(p) /\ job[p] # None /\ job[p].at = "promote_audit"
    BY <1>3, <1>13 DEF AuditPromotion, Running
  <2>2. /\ job' = [job EXCEPT ![p] = job'[p]]
        /\ job'[p] = [job[p] EXCEPT !.at = "open", !.new = "promoted"]
    BY <1>13 DEF AuditPromotion, QueueTypeOK
  <2>3. /\ UNCHANGED <<files, born, deleted, ledgered>> /\ deleted \subseteq born
        /\ \A d \in Cands : audit'[d] = IF d = job[p].cand THEN "promoted" ELSE audit[d]
    BY <1>13 DEF AuditPromotion, auxVars, QueueTypeOK, UndisturbedInv
  <2>4. /\ job'[p].cmd = job[p].cmd /\ job'[p].at = "open"
        /\ job'[p].cand = job[p].cand /\ job'[p].old = job[p].old /\ job'[p].new = "promoted"
    BY <2>1, <2>2 DEF Jobs
  <2>5. Shape(job'[p], files', audit', born', deleted', ledgered')
    BY <2>1, <2>3, <2>4 DEF Points, Shape, Reading, Writing, MovePoints, MayMove
  <2>6. job'[p] # None
    <3>1. [job[p] EXCEPT !.at = "open", !.new = "promoted"] \in Jobs
      BY <2>1 DEF Jobs, Points, Status
    <3> QED BY <2>2, <3>1
  <2>7. /\ deleted' \subseteq born'
        /\ \A d \in Cands : d # job[p].cand =>
             /\ files'[d] = files[d] /\ audit'[d] = audit[d]
             /\ d \in born' <=> d \in born
             /\ d \in deleted' <=> d \in deleted
    BY <2>3
  <2> QED BY <2>1, <2>2, <2>4, <2>5, <2>6, <2>7, UndisturbedStep
<1>14. ASSUME NEW p \in Procs, FailCandidate(p)
       PROVE  UndisturbedInv'
  <2>1. Safe(p) /\ job[p] # None /\ job[p].at = "validate"
    BY <1>3, <1>14 DEF FailCandidate
  <2>2. /\ job' = [job EXCEPT ![p] = job'[p]]
        /\ job'[p] = [job[p] EXCEPT !.at = "open", !.new = "failed"]
    BY <1>14 DEF FailCandidate, QueueTypeOK
  <2>3. /\ job'[p].cmd = job[p].cmd /\ job'[p].at = "open"
        /\ job'[p].cand = job[p].cand /\ job'[p].old = job[p].old /\ job'[p].new = "failed"
    BY <2>1, <2>2 DEF Jobs
  <2>4. Shape(job'[p], files, audit, born, deleted, ledgered)
    BY <2>1, <2>3 DEF Points, Shape, Reading, Writing, MovePoints, MayMove
  <2>5. job'[p] # None
    <3>1. [job[p] EXCEPT !.at = "open", !.new = "failed"] \in Jobs
      BY <2>1 DEF Jobs, Points, Status
    <3> QED BY <2>2, <3>1
  <2> QED BY <1>14, <2>1, <2>2, <2>3, <2>4, <2>5, UndisturbedQuiet DEF FailCandidate, auxVars
<1>15. ASSUME NEW p \in Procs, OpenTarget(p)
       PROVE  UndisturbedInv'
  <2>1. Safe(p) /\ job[p] # None /\ job[p].at = "open" /\ job[p].cmd # "delete"
    BY <1>3, <1>15 DEF OpenTarget, Running, WellFormed
  <2>2. \A d \in Cands, r \in Status : files'[d][r] =
          IF d = job[p].cand /\ r = job[p].new THEN Torn ELSE files[d][r]
    BY <1>15, <2>1, SetFileReads DEF OpenTarget
  <2>3. \A d \in Cands : d # job[p].cand => files'[d] = files[d]
    BY <1>15, <2>1 DEF OpenTarget, SetFile, QueueTypeOK
  <2>4. /\ job' = [job EXCEPT ![p] = job'[p]]
        /\ job'[p] = [job[p] EXCEPT !.at = "fill"]
    BY <1>15 DEF OpenTarget, Continue, QueueTypeOK
  <2>5. UNCHANGED <<audit, born, deleted, ledgered>> /\ deleted \subseteq born
    BY <1>15 DEF OpenTarget, auxVars, UndisturbedInv
  <2>6. Shape(job'[p], files', audit', born', deleted', ledgered')
    BY <2>1, <2>2, <2>4, <2>5
    DEF Jobs, Points, Shape, Reading, Writing, MovePoints, MayMove, Only
  <2>7. job'[p] # None /\ job'[p].cand = job[p].cand
    BY <2>1, <2>4 DEF Jobs, Points
  <2> QED BY <2>1, <2>3, <2>4, <2>5, <2>6, <2>7, UndisturbedStep
<1>16. ASSUME NEW p \in Procs, FillTarget(p)
       PROVE  UndisturbedInv'
  <2>1. Safe(p) /\ job[p] # None /\ job[p].at = "fill" /\ job[p].cmd # "delete"
    BY <1>3, <1>16 DEF FillTarget, Running, WellFormed
  <2>2. job[p].text \in Texts /\ files[job[p].cand][job[p].new] = Torn
    BY <2>1 DEF WellFormed, Shape, Writing
  <2>3. SetFile(job[p].cand, job[p].new, job[p].text)
    BY <1>16, <2>2 DEF FillTarget
  <2>4. \A d \in Cands, r \in Status : files'[d][r] =
          IF d = job[p].cand /\ r = job[p].new THEN job[p].text ELSE files[d][r]
    BY <2>1, <2>3, SetFileReads
  <2>5. /\ job' = [job EXCEPT ![p] = job'[p]]
        /\ job'[p] = [job[p] EXCEPT !.at = "unlink_old"]
    BY <1>16 DEF FillTarget, Continue, QueueTypeOK
  <2>6. UNCHANGED <<audit, born, deleted, ledgered>> /\ deleted \subseteq born
    BY <1>16 DEF FillTarget, auxVars, UndisturbedInv
  <2>7. Shape(job'[p], files', audit', born', deleted', ledgered')
    BY <2>1, <2>2, <2>4, <2>5, <2>6
    DEF Jobs, Points, Shape, Reading, Writing, MovePoints, MayMove
  <2>8. job'[p] # None /\ job'[p].cand = job[p].cand
    BY <2>1, <2>5 DEF Jobs, Points
  <2>9. \A d \in Cands : d # job[p].cand => files'[d] = files[d]
    BY <2>1, <2>3 DEF SetFile, QueueTypeOK
  <2> QED BY <2>1, <2>5, <2>6, <2>7, <2>8, <2>9, UndisturbedStep
<1>17. ASSUME NEW p \in Procs, UnlinkOld(p)
       PROVE  UndisturbedInv'
  <2>1. Safe(p) /\ job[p] # None /\ job[p].at = "unlink_old" /\ job[p].cmd # "delete"
    BY <1>3, <1>17 DEF UnlinkOld, Running, WellFormed
  <2>2. /\ files[job[p].cand][job[p].new] \in Texts
        /\ \A r \in Status \ {job[p].old, job[p].new} : files[job[p].cand][r] = None
    BY <2>1 DEF Shape, Writing
  <2>3. Only(files'[job[p].cand], job[p].new)
    BY <1>17, <2>1, <2>2, SetFileReads DEF UnlinkOld, Only
  <2>4. \A d \in Cands : d # job[p].cand => files'[d] = files[d]
    BY <1>17, <2>1 DEF UnlinkOld, SetFile, QueueTypeOK
  <2>5. UNCHANGED <<audit, born, deleted, ledgered>> /\ deleted \subseteq born
    BY <1>17 DEF UnlinkOld, auxVars, UndisturbedInv
  <2>6. CASE Continue(p, "audit")
    <3>1. /\ job' = [job EXCEPT ![p] = job'[p]]
          /\ job'[p] = [job[p] EXCEPT !.at = "audit"]
      BY <2>6 DEF Continue, QueueTypeOK
    <3>2. Shape(job'[p], files', audit', born', deleted', ledgered')
      BY <2>1, <2>3, <2>5, <3>1 DEF Jobs, Points, Shape, Reading, Writing, MovePoints
    <3>3. job'[p] # None /\ job'[p].cand = job[p].cand
      BY <2>1, <3>1 DEF Jobs, Points
    <3> QED BY <2>1, <2>4, <2>5, <3>1, <3>2, <3>3, UndisturbedStep
  <2>7. CASE Finish(p) /\ job[p].cmd = "promote" /\ job[p].new = "promoted"
    <3>1. job' = [job EXCEPT ![p] = job'[p]] /\ job'[p] = None
      BY <2>7 DEF Finish, QueueTypeOK
    <3>2. audit[job[p].cand] = job[p].new /\ job[p].cand \in born \ deleted
      BY <2>1, <2>7 DEF Shape, Reading, Writing, MovePoints
    <3>3. Settled(job[p].cand, files', audit', born', deleted')
      BY <2>1, <2>3, <2>5, <3>2 DEF Settled
    <3> QED BY <2>1, <2>4, <2>5, <3>1, <3>3, UndisturbedStep
  <2> QED BY <1>17, <2>6, <2>7 DEF UnlinkOld, AfterMove
<1>18. ASSUME NEW p \in Procs, AppendAudit(p)
       PROVE  UndisturbedInv'
  <2>1. Safe(p) /\ job[p] # None /\ job[p].at = "audit"
    BY <1>3, <1>18 DEF AppendAudit, Running
  <2>2. job' = [job EXCEPT ![p] = job'[p]] /\ job'[p] = None
    BY <1>18 DEF AppendAudit, Finish, QueueTypeOK
  <2>3. /\ UNCHANGED <<files, born, deleted>> /\ deleted \subseteq born
        /\ \A d \in Cands : audit'[d] =
             IF d = job[p].cand THEN IF job[p].cmd = "delete" THEN "deleted" ELSE job[p].new
             ELSE audit[d]
    BY <1>18 DEF AppendAudit, auxVars, QueueTypeOK, UndisturbedInv
  <2>4. Settled(job[p].cand, files', audit', born', deleted')
    BY <2>1, <2>3 DEF Settled, Shape, Reading, Writing
  <2> QED BY <2>1, <2>2, <2>3, <2>4, UndisturbedStep
<1>19. ASSUME NEW p \in Procs, WriteFails(p) \/ KillCommand(p)
       PROVE  FALSE
  BY <1>19 DEF WriteFails, KillCommand
<1>20. CASE UNCHANGED qvars
  BY <1>20 DEF qvars, queueVars, auxVars, UndisturbedInv, OneCommand, AtRest
<1>21. ASSUME NEW p \in Procs, StartCommand(p)
       PROVE  UndisturbedInv'
  BY <1>21, <1>1, <1>2 DEF StartCommand, StartReview, StartById, StartPromote, StartRollback,
     AllCommands, Decisions
<1> HIDE DEF Safe
<1> QED BY <1>4, <1>5, <1>6, <1>7, <1>8, <1>9, <1>10, <1>11, <1>12, <1>13, <1>14, <1>15,
           <1>16, <1>17, <1>18, <1>19, <1>20, <1>21
        DEF QueueNext, DecideWhatToWrite, DeleteStep, PromoteStep, WriteStep

LEMMA UndisturbedInvariant ==
    ASSUME Serial, Mortal = {}, ~IOErrors PROVE QueueSpec => []UndisturbedInv
<1>1. QueueInit => UndisturbedInv
  BY UndisturbedInit
<1>2. QueueTypeOK /\ UndisturbedInv /\ [QueueNext]_qvars => UndisturbedInv'
  BY UndisturbedInvStep
<1>3. QueueSpec => []QueueTypeOK
  BY QueueTypeCorrect
<1> QED BY <1>1, <1>2, <1>3, PTL DEF QueueSpec, qvars

-----------------------------------------------------------------------------
\* No two directories share a name, so of two one is walked first.
LEMMA DirectoriesDiffer ==
    /\ Status = {QueueOrder[i] : i \in 1..10}
    /\ \A i, j \in 1..10 : QueueOrder[i] = QueueOrder[j] => i = j
  BY DEF QueueOrder, Status

LEMMA BeforeOrders ==
    \A s \in Status : \A r \in Before[s] : r \in Status /\ s \notin Before[r] /\ r # s
<1> SUFFICES ASSUME NEW s \in Status, NEW r \in Before[s]
             PROVE  r \in Status /\ s \notin Before[r] /\ r # s
  OBVIOUS
<1>1. \A y \in Status : \A x \in Before[y] :
        \E n \in 1..10 : \E m \in n+1..10 : QueueOrder[n] = x /\ QueueOrder[m] = y
  BY DEF Before
<1>2. PICK n \in 1..10, m \in 1..10 : n < m /\ QueueOrder[n] = r /\ QueueOrder[m] = s
  BY <1>1
<1>3. r \in Status /\ r # s
  BY <1>2, DirectoriesDiffer
<1>4. ASSUME s \in Before[r]
      PROVE  FALSE
  <2>1. PICK k \in 1..10, l \in 1..10 : k < l /\ QueueOrder[k] = s /\ QueueOrder[l] = r
    BY <1>1, <1>3, <1>4
  <2> QED BY <1>2, <2>1, DirectoriesDiffer
<1> QED BY <1>3, <1>4

LEMMA BeforeIsTotal ==
    \A r, s \in Status : r # s => r \in Before[s] \/ s \in Before[r]
<1> SUFFICES ASSUME NEW r \in Status, NEW s \in Status, r # s
             PROVE  r \in Before[s] \/ s \in Before[r]
  OBVIOUS
<1>1. PICK i \in 1..10, j \in 1..10 : QueueOrder[i] = r /\ QueueOrder[j] = s /\ i # j
  BY DirectoriesDiffer
<1>2. CASE i < j
  <2>1. j \in i+1..10
    BY <1>2
  <2> QED BY <1>1, <2>1 DEF Before
<1>3. CASE j < i
  <2>1. i \in j+1..10
    BY <1>3
  <2> QED BY <1>1, <2>1 DEF Before
<1> QED BY <1>1, <1>2, <1>3

\* The directory in which find_candidate_file finds a candidate with files f.
First(f, s) == f[s] # None /\ \A r \in Before[s] : f[r] = None
FirstOf(f) == CHOOSE s \in Status : First(f, s)
StageOf(f, c, D) ==
    IF \E s \in Status : f[s] # None THEN FirstOf(f)
    ELSE IF c \in D THEN "deleted" ELSE "absent"

LEMMA FirstIsFirstOf ==
    ASSUME NEW f, NEW s \in Status, First(f, s)
    PROVE  FirstOf(f) = s
<1>1. FirstOf(f) \in Status /\ First(f, FirstOf(f))
  BY DEF FirstOf
<1> QED BY <1>1, BeforeIsTotal DEF First

\* Of two files the one in the directory that is walked first is found.
LEMMA FirstOfTwo ==
    ASSUME NEW f, NEW r \in Status, NEW s \in Status, f[r] # None, f[s] # None,
           \A q \in Status \ {r, s} : f[q] = None
    PROVE  First(f, r) \/ First(f, s)
<1>1. CASE s \in Before[r]
  BY <1>1, BeforeOrders DEF First
<1>2. CASE s \notin Before[r]
  BY <1>2, BeforeOrders DEF First
<1> QED BY <1>1, <1>2

\* A candidate with one file is in that file's directory ...
LEMMA StageOfOne ==
    ASSUME NEW f, NEW c, NEW D, NEW s \in Status, Only(f, s)
    PROVE  StageOf(f, c, D) = s
<1>1. f[s] # None
  BY QueueConstants DEF Only
<1>2. First(f, s)
  BY <1>1, FirstOfTwo DEF Only
<1> QED BY <1>1, <1>2, FirstIsFirstOf DEF StageOf

\* ... and one with two files is in one of theirs, whatever they hold.
LEMMA StageOfTwo ==
    ASSUME NEW f, NEW c, NEW D, NEW r \in Status, NEW s \in Status,
           f[r] # None, f[s] # None, \A q \in Status \ {r, s} : f[q] = None
    PROVE  StageOf(f, c, D) \in {r, s}
  BY FirstOfTwo, FirstIsFirstOf DEF StageOf

LEMMA StageIsStageOf ==
    \A c \in Cands : Stage(c) = StageOf(files[c], c, deleted)
  BY DEF Stage, StageOf, FirstOf, First, Found

LEMMA CopiesOfOne ==
    ASSUME NEW c, NEW s \in Status, Only(files[c], s)
    PROVE  Copies(c) = 1
<1>1. {r \in Status : files[c][r] # None} = {s}
  BY QueueConstants DEF Only
<1> QED BY <1>1, FS_Singleton DEF Copies

LEMMA CopiesOfNone ==
    ASSUME NEW c, Empty(files[c])
    PROVE  Copies(c) = 0
<1>1. {r \in Status : files[c][r] # None} = {}
  BY DEF Empty
<1> QED BY <1>1, FS_EmptySet DEF Copies

\* Run one at a time and undisturbed, the commands leave every candidate with one
\* file, or none once it has been deleted.
THEOREM OneFileAtRestHolds ==
    ASSUME Serial, Mortal = {}, ~IOErrors PROVE QueueSpec => []OneFileAtRest
<1>1. UndisturbedInv => OneFileAtRest
  <2> SUFFICES ASSUME UndisturbedInv, NEW c \in Cands, AtRest(c)
               PROVE  Copies(c) = IF c \in born /\ c \notin deleted THEN 1 ELSE 0
    BY DEF OneFileAtRest
  <2>1. Settled(c, files, audit, born, deleted)
    BY DEF UndisturbedInv
  <2> QED BY <2>1, CopiesOfOne, CopiesOfNone DEF Settled
<1> QED BY <1>1, UndisturbedInvariant, PTL

\* Under the same conditions the last audit event of every candidate at rest
\* reports the directory its file is in.
THEOREM AuditAgreesHolds ==
    ASSUME Serial, Mortal = {}, ~IOErrors PROVE QueueSpec => []AuditAgrees
<1>1. UndisturbedInv => AuditAgrees
  <2> SUFFICES ASSUME UndisturbedInv, NEW c \in Cands, AtRest(c)
               PROVE  audit[c] = IF Stage(c) = "absent" THEN None ELSE Stage(c)
    BY DEF AuditAgrees
  <2>1. Settled(c, files, audit, born, deleted)
    BY DEF UndisturbedInv
  <2>2. CASE c \in born \ deleted
    <3>1. PICK s \in Status : Only(files[c], s) /\ audit[c] = s
      BY <2>1, <2>2 DEF Settled
    <3> QED BY <3>1, StageOfOne, StageIsStageOf DEF Status
  <2>3. CASE c \notin born \ deleted
    BY <2>1, <2>3, StageIsStageOf DEF Settled, StageOf, Empty
  <2> QED BY <2>2, <2>3
<1> QED BY <1>1, UndisturbedInvariant, PTL

-----------------------------------------------------------------------------
\* The refinement.  A step that changes the stage of c alone ...
LEMMA StageMoves ==
    ASSUME NEW c \in Cands, UNCHANGED ledgered,
           \A d \in Cands \ {c} : files'[d] = files[d] /\ (d \in deleted' <=> d \in deleted)
    PROVE  Lifecycle!Move(c, StageOf(files'[c], c, deleted'))
<1>1. \A d \in Cands : Stage(d)' = StageOf(files'[d], d, deleted')
  BY DEF Stage, StageOf, FirstOf, First, Found
<1>2. \A d \in Cands \ {c} : Stage(d)' = Stage(d)
  BY <1>1, StageIsStageOf DEF StageOf
<1> QED BY <1>1, <1>2 DEF Lifecycle!Move

\* ... and one that changes no stage.
LEMMA StageStays ==
    ASSUME NEW c \in Cands,
           \A d \in Cands \ {c} : files'[d] = files[d] /\ (d \in deleted' <=> d \in deleted),
           StageOf(files'[c], c, deleted') = StageOf(files[c], c, deleted)
    PROVE  UNCHANGED [d \in Cands |-> Stage(d)]
<1>1. \A d \in Cands : Stage(d)' = StageOf(files'[d], d, deleted')
  BY DEF Stage, StageOf, FirstOf, First, Found
<1>2. \A d \in Cands : Stage(d)' = Stage(d)
  BY <1>1, StageIsStageOf DEF StageOf
<1> QED BY <1>2

LEMMA QuietStages ==
    ASSUME UNCHANGED <<files, deleted>>
    PROVE  UNCHANGED [d \in Cands |-> Stage(d)]
  BY DEF Stage, Found

\* A move that MayMove allows is a step of the lifecycle.
LEMMA MoveIsAllowed ==
    ASSUME NEW j \in Jobs, NEW c \in Cands, c = j.cand, MayMove(j, ledgered), j.new # j.old,
           Stage(c) = j.old, Lifecycle!Move(c, j.new)
    PROVE  Lifecycle!Next
<1> USE DEF Lifecycle!Queued, Lifecycle!Gates, Lifecycle!AwaitingDecision
<1> DEFINE stage == [d \in Cands |-> Stage(d)]
<1>1. stage[c] = j.old /\ j.old \in Lifecycle!Queued
  BY DEF Jobs, Status
<1>2. CASE j.new \in GateStatuses
  BY <1>1, <1>2 DEF GateStatuses, Lifecycle!Review, Lifecycle!Next
<1>3. CASE j.old \in ReviewStatuses /\ j.new \in {"approved", "rejected", "held", "candidate"}
  BY <1>1, <1>3 DEF ReviewStatuses, Lifecycle!Decide, Lifecycle!Next
<1>4. CASE /\ j.old \in Promotable
           /\ j.new = "failed" \/ (j.new = "promoted" /\ j.cand \in ledgered)
  BY <1>1, <1>4 DEF Promotable, Lifecycle!Promote, Lifecycle!Next
<1>5. CASE j.new = "rolled_back" /\ j.cand \in ledgered
  BY <1>1, <1>5 DEF Lifecycle!RollBack, Lifecycle!Next
<1> QED BY <1>2, <1>3, <1>4, <1>5 DEF MayMove

LifecycleStep == [Lifecycle!Next]_<<[c \in Cands |-> Stage(c)], ledgered>>

LEMMA QueueStepIsLifecycleStep ==
    ASSUME Serial, Mortal = {}, ~IOErrors, QueueTypeOK, UndisturbedInv, [QueueNext]_qvars
    PROVE  LifecycleStep
<1> USE WorkspaceConstants, QueueConstants, NoneIsNoJob
<1>1. CASE UNCHANGED <<files, deleted, ledgered>>
  BY <1>1, QuietStages DEF LifecycleStep
<1>2. ASSUME NEW p \in Procs, NEW c \in Cands, NEW t \in Texts, CreateCandidate(p, c, t)
      PROVE  LifecycleStep
  <2>1. c \notin born /\ c \notin deleted
    BY <1>2 DEF CreateCandidate, UndisturbedInv
  <2>2. Empty(files[c])
    BY <1>2, <2>1, StartsAlone DEF CreateCandidate, UndisturbedInv, AtRest, Alone, Settled
  <2>3. Stage(c) = "absent"
    BY <2>1, <2>2, StageIsStageOf DEF StageOf, Empty
  <2>4. "candidate" \in Status /\ \A r \in Status :
          files'[c][r] = IF r = "candidate" THEN Torn ELSE None
    BY <1>2, <2>2, SetFileReads DEF CreateCandidate, Status, Empty
  <2>5. StageOf(files'[c], c, deleted') = "candidate"
    <3>1. First(files'[c], "candidate")
      BY <2>4, BeforeOrders DEF First
    <3> QED BY <2>4, <3>1, FirstIsFirstOf DEF StageOf
  <2>6. \A d \in Cands \ {c} : files'[d] = files[d] /\ (d \in deleted' <=> d \in deleted)
    BY <1>2 DEF CreateCandidate, SetFile, QueueTypeOK
  <2>7. Lifecycle!Move(c, "candidate")
    BY <1>2, <2>5, <2>6, StageMoves DEF CreateCandidate
  <2> QED BY <2>3, <2>7 DEF LifecycleStep, Lifecycle!Next, Lifecycle!Create
<1> DEFINE Safe(p, c) == /\ job[p] \in Jobs /\ job[p].cand = c
                         /\ job[p].old \in Status /\ job[p].new \in Status
                         /\ WellFormed(job[p])
                         /\ Shape(job[p], files, audit, born, deleted, ledgered)
<1>3. ASSUME NEW p \in Procs, job[p] # None
      PROVE  \E c \in Cands : Safe(p, c)
  BY <1>3, JobFields DEF UndisturbedInv, QueueTypeOK
<1>4. ASSUME NEW p \in Procs, Record(p)
      PROVE  LifecycleStep
  <2>1. job[p] # None /\ job[p].at = "record"
    BY <1>4 DEF Record, Running
  <2>2. PICK c \in Cands : Safe(p, c)
    BY <1>3, <2>1
  <2>3. Only(files[c], job[p].old) /\ job[p].old \in Promotable
    BY <2>1, <2>2 DEF Shape, Reading, Points
  <2>4. Stage(c) \in Promotable
    BY <2>2, <2>3, StageOfOne, StageIsStageOf
  <2>5. ledgered' = ledgered \cup {c} /\ UNCHANGED [d \in Cands |-> Stage(d)]
    BY <1>4, <2>2, QuietStages DEF Record, auxVars
  <2> QED BY <2>4, <2>5 DEF LifecycleStep, Lifecycle!Next, Lifecycle!RecordPromotion, Promotable
<1>5. ASSUME NEW p \in Procs, Unlink(p)
      PROVE  LifecycleStep
  <2>1. job[p] # None /\ job[p].at = "unlink"
    BY <1>5 DEF Unlink, Running
  <2>2. PICK c \in Cands : Safe(p, c)
    BY <1>3, <2>1
  <2>3. Only(files[c], job[p].old) /\ job[p].old \in Deletable
    BY <2>1, <2>2 DEF Shape, Reading, Points
  <2>4. Stage(c) \in Deletable
    BY <2>2, <2>3, StageOfOne, StageIsStageOf
  <2>5. deleted' = deleted \cup {c}
    BY <1>5, <2>2, <2>3 DEF Unlink, Only
  <2>6. /\ Empty(files'[c])
        /\ \A d \in Cands \ {c} : files'[d] = files[d] /\ (d \in deleted' <=> d \in deleted)
    BY <1>5, <2>2, <2>3, <2>5, SetFileReads DEF Unlink, SetFile, QueueTypeOK, Only, Empty
  <2>7. StageOf(files'[c], c, deleted') = "deleted"
    BY <2>5, <2>6 DEF StageOf, Empty
  <2>8. Lifecycle!Move(c, "deleted")
    BY <1>5, <2>6, <2>7, StageMoves DEF Unlink
  <2> QED BY <2>4, <2>8 DEF LifecycleStep, Lifecycle!Next, Lifecycle!Delete, Deletable, Status,
             Lifecycle!Queued, Lifecycle!Gates, Lifecycle!AwaitingDecision
\* Opening the target makes it the stage when its directory comes first.
<1>6. ASSUME NEW p \in Procs, OpenTarget(p)
      PROVE  LifecycleStep
  <2>1. job[p] # None /\ job[p].at = "open"
    BY <1>6 DEF OpenTarget, Running
  <2>2. PICK c \in Cands : Safe(p, c)
    BY <1>3, <2>1
  <2>3. Only(files[c], job[p].old) /\ MayMove(job[p], ledgered)
    BY <2>1, <2>2 DEF Shape, Reading, Writing, Points, MovePoints
  <2>4. Stage(c) = job[p].old
    BY <2>2, <2>3, StageOfOne, StageIsStageOf
  <2>5. /\ \A r \in Status : files'[c][r] = IF r = job[p].new THEN Torn ELSE files[c][r]
        /\ \A d \in Cands \ {c} : files'[d] = files[d] /\ (d \in deleted' <=> d \in deleted)
        /\ UNCHANGED ledgered
    BY <1>6, <2>2, SetFileReads DEF OpenTarget, SetFile, QueueTypeOK, auxVars
  <2>6. StageOf(files'[c], c, deleted') \in {job[p].old, job[p].new}
    <3>1. /\ files'[c][job[p].old] # None /\ files'[c][job[p].new] # None
          /\ \A q \in Status \ {job[p].old, job[p].new} : files'[c][q] = None
      BY <2>2, <2>3, <2>5 DEF Only
    <3> QED BY <2>2, <3>1, StageOfTwo
  <2>7. CASE StageOf(files'[c], c, deleted') = job[p].old
    BY <2>4, <2>5, <2>7, StageStays, StageIsStageOf DEF LifecycleStep
  <2>8. CASE StageOf(files'[c], c, deleted') = job[p].new /\ job[p].new # job[p].old
    BY <2>2, <2>3, <2>4, <2>5, <2>8, StageMoves, MoveIsAllowed DEF LifecycleStep
  <2> QED BY <2>6, <2>7, <2>8
<1>7. ASSUME NEW p \in Procs, FillTarget(p)
      PROVE  LifecycleStep
  <2>1. job[p] # None /\ job[p].at = "fill"
    BY <1>7 DEF FillTarget, Running
  <2>2. PICK c \in Cands : Safe(p, c)
    BY <1>3, <2>1
  <2>3. /\ files[c][job[p].new] = Torn
        /\ job[p].old # job[p].new => files[c][job[p].old] \in Texts
        /\ \A r \in Status \ {job[p].old, job[p].new} : files[c][r] = None
        /\ job[p].text \in Texts
    BY <2>1, <2>2 DEF Shape, Writing, WellFormed
  <2>4. SetFile(c, job[p].new, job[p].text)
    BY <1>7, <2>2, <2>3 DEF FillTarget
  <2>5. /\ \A r \in Status : files'[c][r] = IF r = job[p].new THEN job[p].text ELSE files[c][r]
        /\ \A d \in Cands \ {c} : files'[d] = files[d]
        /\ UNCHANGED <<deleted, ledgered>>
    BY <1>7, <2>2, <2>4, SetFileReads DEF FillTarget, SetFile, QueueTypeOK, auxVars
  <2>6. StageOf(files'[c], c, deleted') = StageOf(files[c], c, deleted)
    <3>1. /\ files[c][job[p].old] # None /\ files[c][job[p].new] # None
          /\ files'[c][job[p].old] # None /\ files'[c][job[p].new] # None
          /\ \A q \in Status \ {job[p].old, job[p].new} :
               files[c][q] = None /\ files'[c][q] = None
      BY <2>2, <2>3, <2>5
    <3>2. PICK f, g : f = files[c] /\ g = files'[c]
      OBVIOUS
    <3>3. PICK r \in Status, s \in Status : r = job[p].old /\ s = job[p].new
      BY <2>2
    <3>4. /\ f[r] # None /\ f[s] # None /\ g[r] # None /\ g[s] # None
          /\ \A q \in Status \ {r, s} : f[q] = None /\ g[q] = None
      BY <3>1, <3>2, <3>3
    <3>5. PICK q \in {r, s} : First(f, q) /\ First(g, q)
      BY <3>4, FirstOfTwo, BeforeOrders DEF First
    <3>6. StageOf(f, c, deleted) = q /\ StageOf(g, c, deleted) = q
      BY <3>4, <3>5, FirstIsFirstOf DEF StageOf
    <3> QED BY <2>5, <3>2, <3>6
  <2> QED BY <2>5, <2>6, StageStays DEF LifecycleStep
\* Unlinking the old path completes the move when the old directory comes first.
<1>8. ASSUME NEW p \in Procs, UnlinkOld(p)
      PROVE  LifecycleStep
  <2>1. job[p] # None /\ job[p].at = "unlink_old"
    BY <1>8 DEF UnlinkOld, Running
  <2>2. PICK c \in Cands : Safe(p, c)
    BY <1>3, <2>1
  <2>3. /\ files[c][job[p].new] \in Texts /\ MayMove(job[p], ledgered)
        /\ job[p].old # job[p].new => files[c][job[p].old] \in Texts
        /\ \A r \in Status \ {job[p].old, job[p].new} : files[c][r] = None
    BY <2>1, <2>2 DEF Shape, Writing, MovePoints
  <2>4. StageOf(files[c], c, deleted) \in {job[p].old, job[p].new}
    <3>1. files[c][job[p].old] # None /\ files[c][job[p].new] # None
      BY <2>3
    <3> QED BY <2>2, <2>3, <3>1, StageOfTwo
  <2>5. Only(files'[c], job[p].new)
    BY <1>8, <2>2, <2>3, SetFileReads DEF UnlinkOld, Only
  <2>6. /\ \A d \in Cands \ {c} : files'[d] = files[d]
        /\ UNCHANGED <<deleted, ledgered>>
    BY <1>8, <2>2 DEF UnlinkOld, SetFile, QueueTypeOK, auxVars
  <2>7. StageOf(files'[c], c, deleted') = job[p].new
    BY <2>2, <2>5, StageOfOne
  <2>8. CASE StageOf(files[c], c, deleted) = job[p].new
    BY <2>6, <2>7, <2>8, StageStays DEF LifecycleStep
  <2>9. CASE StageOf(files[c], c, deleted) = job[p].old /\ job[p].new # job[p].old
    BY <2>2, <2>3, <2>6, <2>7, <2>9, StageMoves, MoveIsAllowed, StageIsStageOf
    DEF LifecycleStep
  <2> QED BY <2>4, <2>8, <2>9
<1>9. ASSUME NEW p \in Procs, NEW cmd, NEW c, NEW s, Start(p, cmd, c, s)
      PROVE  UNCHANGED <<files, deleted, ledgered>>
  BY <1>9 DEF Start, auxVars
<1>10. ASSUME NEW p \in Procs,
              \/ DecideWhatToWrite(p) \/ CheckDeletable(p) \/ PromoteLoad(p) \/ Validate(p)
              \/ AuditPromotion(p) \/ FailCandidate(p) \/ WriteFails(p) \/ AppendAudit(p)
              \/ KillCommand(p)
       PROVE  UNCHANGED <<files, deleted, ledgered>>
  BY <1>10 DEF DecideWhatToWrite, Evaluate, Reload, Decide, Edit, MoveToRolledBack, LoadFails,
     CheckDeletable, PromoteLoad, Validate, AuditPromotion, FailCandidate,
     WriteFails, AppendAudit, KillCommand, auxVars
<1>11. ASSUME NEW p \in Procs, StartCommand(p)
       PROVE  LifecycleStep
  BY <1>11, <1>1, <1>2, <1>9 DEF StartCommand, StartReview, StartById, StartPromote,
     StartRollback
<1>12. CASE UNCHANGED qvars
  BY <1>1, <1>12 DEF qvars, queueVars, auxVars
<1> HIDE DEF Safe
<1> QED BY <1>1, <1>4, <1>5, <1>6, <1>7, <1>8, <1>10, <1>11, <1>12
        DEF QueueNext, DeleteStep, PromoteStep, WriteStep

LEMMA QueueInitIsLifecycleInit ==
    ASSUME Ready = {}, QueueInit PROVE Lifecycle!Init
<1>1. \A c \in Cands : Empty(files[c]) /\ c \notin deleted
  BY DEF QueueInit, Empty, Status
<1>2. \A c \in Cands : Stage(c) = "absent"
  BY <1>1, StageIsStageOf DEF StageOf, Empty
<1> QED BY <1>2 DEF QueueInit, Lifecycle!Init

\* Under the same conditions, and from an empty queue, the files and the promotion
\* ledger implement CandidateLifecycle: each command is one step along its edges.
THEOREM ImplementsLifecycleHolds ==
    ASSUME Serial, Mortal = {}, ~IOErrors, Ready = {} PROVE QueueSpec => ImplementsLifecycle
<1>1. QueueInit => Lifecycle!Init
  BY QueueInitIsLifecycleInit
<1>2. QueueTypeOK /\ UndisturbedInv /\ [QueueNext]_qvars
        => [Lifecycle!Next]_<<[c \in Cands |-> Stage(c)], ledgered>>
  BY QueueStepIsLifecycleStep DEF LifecycleStep
<1>3. QueueSpec => []QueueTypeOK
  BY QueueTypeCorrect
<1> QED BY <1>1, <1>2, <1>3, UndisturbedInvariant, PTL
        DEF QueueSpec, qvars, ImplementsLifecycle, Lifecycle!Spec
=============================================================================
