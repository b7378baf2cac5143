--------------------------- MODULE CandidateQueue ---------------------------
(***************************************************************************)
(* The candidate queue: one directory per status below .antma/, one JSON   *)
(* file per candidate, and the commands that move the files: candidates.py *)
(* (create, delete, apply_gate_result), review.py, approvals.py, and the   *)
(* queue side of executor.py (promote, fail) and rollback.py.              *)
(*                                                                         *)
(* A command finds a file, loads it, computes the new contents in memory   *)
(* and writes them, each file operation being one step.  There is no lock  *)
(* on the queue: commands of different processes interleave freely.        *)
(*                                                                         *)
(* Of a candidate's contents only its material version is kept (text,      *)
(* scope, risk, sensitivity, destination, supersedes); its status is the   *)
(* directory it is in.                                                     *)
(***************************************************************************)
EXTENDS Naturals, FiniteSets, Workspace

CONSTANTS
    Cands,     \* candidate ids
    Texts,     \* material versions of a candidate
    Torn,      \* contents of a file that is truncated or half written
    Serial,    \* TRUE when a command starts only after the one before ended
    Commands,  \* the commands the users run
    Verdicts,  \* the verdicts the gates come to
    Ready,     \* candidates created and gate-passed before the behaviour starts
    MaxCopies  \* bound: a command starts while its candidate has this many files

QueueOrder == <<"candidate", "auto_passed", "manual_review", "approved", "held",
                "blocked", "rejected", "promoted", "rolled_back", "failed">>

Status == {"candidate", "auto_passed", "manual_review", "approved", "held",
           "blocked", "rejected", "promoted", "rolled_back", "failed"}

Deletable == Status \ {"promoted", "rolled_back"}
Reviewable == {"candidate", "blocked", "manual_review", "held"}
ReviewStatuses == {"manual_review", "held"}
Promotable == {"auto_passed", "approved"}

\* What GateEngine.evaluate may return.
GateStatuses == {"auto_passed", "manual_review", "rejected", "blocked"}

\* The status each manual decision leads to.
Decisions == {"approve", "reject", "hold"}
DecisionStatus == [approve |-> "approved", reject |-> "rejected", hold |-> "held"]

AllCommands == Decisions \cup {"create", "review", "edit", "delete", "promote", "rollback"}

ASSUME QueueConstants ==
    /\ Serial \in BOOLEAN
    /\ Commands \subseteq AllCommands
    /\ Verdicts \subseteq GateStatuses
    /\ Ready \subseteq Cands
    /\ MaxCopies \in Nat
    /\ None \notin Texts \cup {Torn}
    /\ Torn \notin Texts

VARIABLES
    files,     \* files[c][s]: the contents of c's file in the directory of s
    job,       \* job[p]: the command p is running, or None
    audit,     \* audit[c]: the status the last audit event of c reports
    ledgered,  \* the candidates with a record in ledger/promotions.jsonl
    born,      \* auxiliary: the candidates that have been created
    deleted,   \* auxiliary: the candidates a delete command has unlinked
    gated,     \* auxiliary: gated[c]: the versions the gates have passed
    approved   \* auxiliary: approved[c]: the versions a reviewer has approved

queueVars == <<files, job, audit, ledgered, born, deleted, gated, approved>>
auxVars == <<born, deleted, gated, approved>>

Points == {"load", "reload", "unlink", "validate", "record", "promote_audit",
           "open", "fill", "unlink_old", "audit"}

\* A running command: where it is, the path it found (old), the status it will
\* write (new) and the version it has in memory.
Jobs == [cmd : AllCommands, at : Points, cand : Cands, old : Status,
         new : Status, text : Texts \cup {None}]

ASSUME NoneIsNoJob == None \notin Jobs

\* A delete checks and unlinks; past its load every other command has a version
\* in memory.
WellFormed(j) ==
    \/ j.cmd = "delete" /\ j.at \in {"load", "unlink", "audit"}
    \/ j.cmd # "delete" /\ j.at # "unlink" /\ (j.at = "load" \/ j.text \in Texts)

QueueTypeOK ==
    /\ dead \subseteq Mortal
    /\ files \in [Cands -> [Status -> Texts \cup {None, Torn}]]
    /\ job \in [Procs -> Jobs \cup {None}]
    /\ audit \in [Cands -> Status \cup {"deleted", None}]
    /\ ledgered \subseteq Cands
    /\ born \subseteq Cands /\ deleted \subseteq Cands
    /\ gated \in [Cands -> SUBSET Texts]
    /\ approved \in [Cands -> SUBSET Texts]
    /\ \A p \in Procs : job[p] # None => WellFormed(job[p])

QueueInit ==
    /\ dead = {}
    /\ \E version \in [Ready -> Texts] :
         /\ files = [c \in Cands |-> [s \in Status |->
                       IF c \in Ready /\ s = "auto_passed" THEN version[c] ELSE None]]
         /\ gated = [c \in Cands |-> IF c \in Ready THEN {version[c]} ELSE {}]
    /\ job = [p \in Procs |-> None]
    /\ audit = [c \in Cands |-> IF c \in Ready THEN "auto_passed" ELSE None]
    /\ born = Ready
    /\ ledgered = {} /\ deleted = {}
    /\ approved = [c \in Cands |-> {}]

-----------------------------------------------------------------------------
\* iter_candidate_files walks the directories in this order.
Before == [s \in Status |->
            {QueueOrder[i] : i \in {n \in 1..10 : \E m \in n+1..10 : QueueOrder[m] = s}}]

\* find_candidate_file returns the first file with the candidate's id.
Found(c, s) ==
    /\ files[c][s] # None
    /\ \A r \in Before[s] : files[c][r] = None

\* The sort keys of candidate_files_for_review and promotable_files load every
\* listed file: one that does not parse makes the whole command fail.
ListReadable(dirs) == \A c \in Cands, s \in dirs : files[c][s] # Torn

Listed(c, s, dirs) == s \in dirs /\ files[c][s] # None /\ ListReadable(dirs)

Copies(c) == Cardinality({s \in Status : files[c][s] # None})

\* Truncation and content of a file being written (Path.write_text).
SetFile(c, s, v) == files' = [files EXCEPT ![c][s] = v]

Running(p, point) == Alive(p) /\ job[p] # None /\ job[p].at = point
Continue(p, point) == job' = [job EXCEPT ![p].at = point]
Finish(p) == job' = [job EXCEPT ![p] = None]

MayStart(p, cmd) ==
    /\ Alive(p)
    /\ job[p] = None
    /\ cmd \in Commands
    /\ Serial => \A q \in Procs : job[q] = None

Start(p, cmd, c, s) ==
    /\ MayStart(p, cmd)
    /\ files[c][s] # None
    /\ Copies(c) <= MaxCopies
    /\ job' = [job EXCEPT ![p] = [cmd |-> cmd, at |-> "load", cand |-> c,
                                  old |-> s, new |-> s, text |-> None]]
    /\ UNCHANGED <<files, audit, ledgered, auxVars, dead>>

-----------------------------------------------------------------------------
(* Starting a command: the file it works on is chosen. *)

\* create_candidate validates, draws a fresh id and creates the file; the
\* write itself is not yet complete.
CreateCandidate(p, c, t) ==
    /\ MayStart(p, "create")
    /\ c \notin born
    /\ born' = born \cup {c}
    /\ SetFile(c, "candidate", Torn)
    /\ job' = [job EXCEPT ![p] = [cmd |-> "create", at |-> "fill", cand |-> c,
                                  old |-> "candidate", new |-> "candidate", text |-> t]]
    /\ UNCHANGED <<audit, ledgered, deleted, gated, approved, dead>>

\* review run: by id whatever the status, or the pending ones, or with --all.
StartReview(p, c, s) ==
    /\ Start(p, "review", c, s)
    /\ \/ Found(c, s)
       \/ Listed(c, s, {"candidate"})
       \/ Listed(c, s, Reviewable)

\* approvals approve, reject, hold, edit and candidate delete take an id.
StartById(p, cmd, c, s) ==
    /\ cmd \in Decisions \cup {"edit", "delete"}
    /\ Start(p, cmd, c, s)
    /\ Found(c, s)

\* promote run: promotable_files checks the status of the loaded file or lists
\* the two promotable directories.
StartPromote(p, c, s) ==
    /\ s \in Promotable
    /\ Start(p, "promote", c, s)
    /\ files[c][s] # Torn
    /\ Found(c, s) \/ Listed(c, s, Promotable)

\* rollback of a recorded promotion, once the destination has been rewritten:
\* move_candidate_to_rolled_back looks the candidate up, whatever its status.
StartRollback(p, c, s) ==
    /\ c \in ledgered
    /\ Start(p, "rollback", c, s)
    /\ Found(c, s)

-----------------------------------------------------------------------------
(* Loading it and deciding what to write. *)

Loaded(p) == files[job[p].cand][job[p].old]

\* load_candidate has returned at this point of this command.
Load(p, point, cmds) ==
    /\ Running(p, point)
    /\ job[p].cmd \in cmds
    /\ Loaded(p) \in Texts

\* The file has gone or does not parse, or the status forbids the command.
LoadFails(p) ==
    /\ Running(p, "load") \/ Running(p, "reload")
    /\ \/ Loaded(p) \notin Texts
       \/ job[p].cmd \in Decisions \cup {"edit"} /\ job[p].old \notin ReviewStatuses
       \/ job[p].cmd = "delete" /\ job[p].old \notin Deletable
    /\ Finish(p)
    /\ UNCHANGED <<files, audit, ledgered, auxVars, dead>>

\* run_review evaluates the loaded candidate against the gates.
Evaluate(p, verdict) ==
    LET c == job[p].cand IN
    /\ Load(p, "load", {"review"})
    /\ gated' = IF verdict = "auto_passed"
                THEN [gated EXCEPT ![c] = @ \cup {Loaded(p)}] ELSE gated
    /\ job' = [job EXCEPT ![p] = [@ EXCEPT !.at = "reload", !.new = verdict,
                                           !.text = Loaded(p)]]
    /\ UNCHANGED <<files, audit, ledgered, born, deleted, approved, dead>>

\* apply_gate_result loads the file again and keeps what it finds now.
Reload(p) ==
    /\ Running(p, "reload")
    /\ Loaded(p) \in Texts
    /\ job' = [job EXCEPT ![p] = [@ EXCEPT !.at = "open", !.text = Loaded(p)]]
    /\ UNCHANGED <<files, audit, ledgered, auxVars, dead>>

\* The decision is applied to the file as it is when it is written.
DecideMutant(p) ==
    LET c == job[p].cand IN
    /\ Load(p, "load", Decisions)
    /\ job[p].old \in ReviewStatuses
    /\ approved' = IF job[p].cmd = "approve"
                   THEN [approved EXCEPT ![c] = @ \cup {Loaded(p)}] ELSE approved
    /\ job' = [job EXCEPT ![p] = [@ EXCEPT !.at = "reload", !.text = Loaded(p),
                                           !.new = DecisionStatus[job[p].cmd]]]
    /\ UNCHANGED <<files, audit, ledgered, born, deleted, gated, dead>>

\* approve_candidate, reject_candidate, hold_candidate.
Decide(p) ==
    LET c == job[p].cand IN
    /\ Load(p, "load", Decisions)
    /\ job[p].old \in ReviewStatuses
    /\ approved' = IF job[p].cmd = "approve"
                   THEN [approved EXCEPT ![c] = @ \cup {Loaded(p)}] ELSE approved
    /\ job' = [job EXCEPT ![p] = [@ EXCEPT !.at = "open", !.text = Loaded(p),
                                           !.new = DecisionStatus[job[p].cmd]]]
    /\ UNCHANGED <<files, audit, ledgered, born, deleted, gated, dead>>

\* edit_candidate: a material edit replaces the version and returns the
\* candidate to the start; an edit without options rewrites the file in place.
Edit(p, t) ==
    /\ Load(p, "load", {"edit"})
    /\ job[p].old \in ReviewStatuses
    /\ job' = [job EXCEPT ![p] =
                 IF t = None THEN [@ EXCEPT !.at = "open", !.text = Loaded(p)]
                 ELSE [@ EXCEPT !.at = "open", !.text = t, !.new = "candidate"]]
    /\ UNCHANGED <<files, audit, ledgered, auxVars, dead>>

\* The status is not checked.
CheckDeletableMutant(p) ==
    /\ Load(p, "load", {"delete"})
    /\ Continue(p, "unlink")
    /\ UNCHANGED <<files, audit, ledgered, auxVars, dead>>

\* delete_candidate: the status is checked, then the file unlinked.
CheckDeletable(p) ==
    /\ Load(p, "load", {"delete"})
    /\ job[p].old \in Deletable
    /\ Continue(p, "unlink")
    /\ UNCHANGED <<files, audit, ledgered, auxVars, dead>>

\* path.unlink(): when the file has gone, FileNotFoundError ends the command.
Unlink(p) ==
    LET c == job[p].cand
        there == files[c][job[p].old] # None IN
    /\ Running(p, "unlink")
    /\ SetFile(c, job[p].old, None)
    /\ deleted' = IF there THEN deleted \cup {c} ELSE deleted
    /\ IF there THEN Continue(p, "audit") ELSE Finish(p)
    /\ UNCHANGED <<audit, ledgered, born, gated, approved, dead>>

\* run_promotions loads the file before promote_one takes the lock.
PromoteLoad(p) ==
    /\ Load(p, "load", {"promote"})
    /\ job' = [job EXCEPT ![p] = [@ EXCEPT !.at = "validate", !.text = Loaded(p)]]
    /\ UNCHANGED <<files, audit, ledgered, auxVars, dead>>

\* An auto-passed candidate is not evaluated again.
ValidateMutant(p) ==
    /\ Running(p, "validate")
    /\ Continue(p, "record")
    /\ UNCHANGED <<files, audit, ledgered, auxVars, dead>>

\* The promotion record is left to be written later.
ValidateMutantNoRecord(p) ==
    LET c == job[p].cand IN
    /\ Running(p, "validate")
    /\ gated' = IF job[p].old = "auto_passed"
                THEN [gated EXCEPT ![c] = @ \cup {job[p].text}] ELSE gated
    /\ Continue(p, "promote_audit")
    /\ UNCHANGED <<files, audit, ledgered, born, deleted, approved, dead>>

\* validate_promotion_phase on the loaded data: an auto-passed candidate goes
\* through the gates again.
Validate(p) ==
    LET c == job[p].cand IN
    /\ Running(p, "validate")
    /\ gated' = IF job[p].old = "auto_passed"
                THEN [gated EXCEPT ![c] = @ \cup {job[p].text}] ELSE gated
    /\ Continue(p, "record")
    /\ UNCHANGED <<files, audit, ledgered, born, deleted, approved, dead>>

\* The line is appended to promotions.jsonl, then to audit.jsonl; only then is
\* the candidate moved.
Record(p) ==
    /\ Running(p, "record")
    /\ ledgered' = ledgered \cup {job[p].cand}
    /\ Continue(p, "promote_audit")
    /\ UNCHANGED <<files, audit, auxVars, dead>>

AuditPromotion(p) ==
    /\ Running(p, "promote_audit")
    /\ audit' = [audit EXCEPT ![job[p].cand] = "promoted"]
    /\ job' = [job EXCEPT ![p] = [@ EXCEPT !.at = "open", !.new = "promoted"]]
    /\ UNCHANGED <<files, ledgered, auxVars, dead>>

\* fail_candidate: any exception of promote_one, be it the gates, a changed
\* source, the lock or a write, moves the candidate to failed.
FailCandidate(p) ==
    /\ Alive(p)
    /\ job[p] # None
    /\ job[p].cmd = "promote"
    /\ job[p].new # "failed"
    /\ \/ job[p].at = "validate"
       \/ IOErrors /\ job[p].at \in {"record", "promote_audit", "open", "fill"}
    /\ job' = [job EXCEPT ![p] = [@ EXCEPT !.at = "open", !.new = "failed"]]
    /\ UNCHANGED <<files, audit, ledgered, auxVars, dead>>

\* The queue directory's name is used as the status.
MoveToRolledBackMutant(p) ==
    /\ Load(p, "load", {"rollback"})
    /\ job' = [job EXCEPT ![p] = [@ EXCEPT !.at = "open", !.text = Loaded(p),
                                           !.new = "rolled-back"]]
    /\ UNCHANGED <<files, audit, ledgered, auxVars, dead>>

\* move_candidate_to_rolled_back.
MoveToRolledBack(p) ==
    /\ Load(p, "load", {"rollback"})
    /\ job' = [job EXCEPT ![p] = [@ EXCEPT !.at = "open", !.text = Loaded(p),
                                           !.new = "rolled_back"]]
    /\ UNCHANGED <<files, audit, ledgered, auxVars, dead>>

-----------------------------------------------------------------------------
(* write_candidate_data: write the target, then unlink the old path. *)

\* The old file is renamed to the target, which is then opened for writing.
OpenTargetMutant(p) ==
    LET c == job[p].cand IN
    /\ Running(p, "open")
    /\ files' = [files EXCEPT ![c] = [@ EXCEPT ![job[p].old] = None, ![job[p].new] = Torn]]
    /\ Continue(p, "fill")
    /\ UNCHANGED <<audit, ledgered, auxVars, dead>>

\* The old path is unlinked before the new one is written.
OpenTargetMutantUnlink(p) ==
    /\ Running(p, "open")
    /\ SetFile(job[p].cand, job[p].old, None)
    /\ Continue(p, "fill")
    /\ UNCHANGED <<audit, ledgered, auxVars, dead>>

\* write_text opens the target with O_TRUNC ...
OpenTarget(p) ==
    /\ Running(p, "open")
    /\ SetFile(job[p].cand, job[p].new, Torn)
    /\ Continue(p, "fill")
    /\ UNCHANGED <<audit, ledgered, auxVars, dead>>

\* ... and then writes.  A target unlinked meanwhile stays unlinked; one that
\* another process has filled meanwhile may keep a tail of that text.
FillTarget(p) ==
    LET c == job[p].cand
        s == job[p].new IN
    /\ Running(p, "fill")
    /\ \/ files[c][s] = None /\ UNCHANGED files
       \/ files[c][s] # None /\ SetFile(c, s, job[p].text)
       \/ files[c][s] \in Texts /\ SetFile(c, s, Torn)
    /\ Continue(p, "unlink_old")
    /\ UNCHANGED <<audit, ledgered, auxVars, dead>>

\* The write fails and the exception ends the command.  (A promotion's first
\* failure is FailCandidate.)
WriteFails(p) ==
    /\ IOErrors
    /\ Running(p, "open") \/ Running(p, "fill")
    /\ job[p].cmd = "promote" => job[p].new = "failed"
    /\ Finish(p)
    /\ UNCHANGED <<files, audit, ledgered, auxVars, dead>>

\* After the old path is gone: a promotion has already been audited.
AfterMove(p) ==
    IF job[p].cmd = "promote" /\ job[p].new = "promoted"
    THEN Finish(p) ELSE Continue(p, "audit")

\* The old path stays.
UnlinkOldMutantNever(p) ==
    /\ Running(p, "unlink_old")
    /\ AfterMove(p)
    /\ UNCHANGED <<files, audit, ledgered, auxVars, dead>>

\* exists() and unlink() of the old path are one step.
UnlinkOld(p) ==
    /\ Running(p, "unlink_old")
    /\ IF job[p].old # job[p].new
       THEN SetFile(job[p].cand, job[p].old, None) ELSE UNCHANGED files
    /\ AfterMove(p)
    /\ UNCHANGED <<audit, ledgered, auxVars, dead>>

\* The event reports the status before the command.
AppendAuditMutant(p) ==
    LET c == job[p].cand IN
    /\ Running(p, "audit")
    /\ audit' = [audit EXCEPT ![c] = IF job[p].cmd = "delete" THEN "deleted" ELSE job[p].old]
    /\ Finish(p)
    /\ UNCHANGED <<files, ledgered, auxVars, dead>>

\* append_audit_event, the last step of every other command.
AppendAudit(p) ==
    LET c == job[p].cand IN
    /\ Running(p, "audit")
    /\ audit' = [audit EXCEPT ![c] = IF job[p].cmd = "delete" THEN "deleted" ELSE job[p].new]
    /\ Finish(p)
    /\ UNCHANGED <<files, ledgered, auxVars, dead>>

\* p is killed: what it has written stays.
KillCommand(p) ==
    /\ p \in Mortal \ dead
    /\ dead' = dead \cup {p}
    /\ Finish(p)
    /\ UNCHANGED <<files, audit, ledgered, auxVars>>

-----------------------------------------------------------------------------
StartCommand(p) ==
    \E c \in Cands :
      \/ \E t \in Texts : CreateCandidate(p, c, t)
      \/ \E s \in Status :
           \/ StartReview(p, c, s)
           \/ \E cmd \in Decisions \cup {"edit", "delete"} : StartById(p, cmd, c, s)
           \/ StartPromote(p, c, s)
           \/ StartRollback(p, c, s)

DecideWhatToWrite(p) ==
    \/ \E v \in Verdicts : Evaluate(p, v)
    \/ Reload(p)
    \/ Decide(p)
    \/ \E t \in Texts \cup {None} : Edit(p, t)
    \/ MoveToRolledBack(p)
    \/ LoadFails(p)

DeleteStep(p) == CheckDeletable(p) \/ Unlink(p)

PromoteStep(p) ==
    PromoteLoad(p) \/ Validate(p) \/ Record(p) \/ AuditPromotion(p) \/ FailCandidate(p)

WriteStep(p) ==
    OpenTarget(p) \/ FillTarget(p) \/ WriteFails(p) \/ UnlinkOld(p) \/ AppendAudit(p)

QueueNext ==
    \E p \in Procs :
      \/ StartCommand(p)
      \/ DecideWhatToWrite(p)
      \/ DeleteStep(p)
      \/ PromoteStep(p)
      \/ WriteStep(p)
      \/ KillCommand(p)

QueueSpec == QueueInit /\ [][QueueNext]_<<queueVars, dead>>

-----------------------------------------------------------------------------
\* A file in promoted/ means a line in promotions.jsonl: promote_one appends the
\* ledger record before it moves the candidate, so that a crash between the two
\* never leaves a promoted candidate that cannot be rolled back.
PromotedIsLedgered ==
    \A c \in Cands : files[c]["promoted"] # None => c \in ledgered

\* The version in promoted/ is one the gates passed or a reviewer approved,
\* although apply_gate_result applies a verdict to whatever the file holds by
\* then and promote_one works on data loaded before its lock.
PromotedTextCleared ==
    \A c \in Cands : files[c]["promoted"] \in Texts =>
      files[c]["promoted"] \in gated[c] \cup approved[c]

\* The version in approved/ is one that an approve command has loaded: no
\* concurrent edit or review slips another version under the approval.
ApprovedTextWasApproved ==
    \A c \in Cands : files[c]["approved"] \in Texts =>
      files[c]["approved"] \in approved[c]

\* No command is at work on c.
AtRest(c) == \A p \in Procs : job[p] # None => job[p].cand # c

\* Between commands a candidate has exactly one file, or none once deleted.
OneFileAtRest ==
    \A c \in Cands : AtRest(c) =>
      Copies(c) = IF c \in born /\ c \notin deleted THEN 1 ELSE 0

\* Where the first file of c is; "deleted" or "absent" when there is none.
Stage(c) ==
    IF \E s \in Status : files[c][s] # None THEN CHOOSE s \in Status : Found(c, s)
    ELSE IF c \in deleted THEN "deleted" ELSE "absent"

\* Between commands the last audit event of a candidate reports the directory
\* its file is in: the audit ledger replays to the queue.
AuditAgrees ==
    \A c \in Cands : AtRest(c) =>
      audit[c] = IF Stage(c) = "absent" THEN None ELSE Stage(c)

\* A candidate that nobody deleted still has a file.
NoCandidateLost ==
    \A c \in born \ deleted : \E s \in Status : files[c][s] # None

\* The last readable copy of a candidate goes only when a delete command unlinks
\* it or a command rewrites it in place: a move writes the new file in full
\* before the old one is unlinked.
HasReadable(c) == \E s \in Status : files[c][s] \in Texts
LastCopyKept ==
    [][\A c \in Cands :
         HasReadable(c) /\ ~HasReadable(c)' =>
           \E p \in Procs :
             /\ job[p] # None /\ job[p].cand = c
             /\ \/ job[p].at = "unlink"
                \/ job[p].at = "open" /\ job[p].old = job[p].new]_<<queueVars, dead>>

Lifecycle == INSTANCE CandidateLifecycle
             WITH stage <- [c \in Cands |-> Stage(c)], recorded <- ledgered

\* Run one at a time and undisturbed, the commands move every candidate along
\* the lifecycle of CandidateLifecycle, each in a single visible step.
ImplementsLifecycle == Lifecycle!Spec
=============================================================================
