-------------------------- MODULE PromotionEngine --------------------------
(***************************************************************************)
(* Promotion into the Markdown destinations and its rollback, composed     *)
(* from the destination lock and the candidate queue: executor.py          *)
(* run_promotions and promote_one, snapshots.py, the promotion ledger, and *)
(* rollback.py.                                                            *)
(*                                                                         *)
(* A destination is the sequence of what has been put into it: the block   *)
(* of a promotion (its id), the newline a rollback leaves in place of a    *)
(* block, and lines a user writes by hand.  A content hash is the content. *)
(***************************************************************************)
EXTENDS DestinationLock, CandidateQueue, SequencesExt

CONSTANTS
    DestOf,    \* DestOf[t]: the destination a version names
    MaxProms,  \* bound on the promotion ids drawn
    MaxEdits   \* bound on the lines written by hand

ASSUME EngineConstants ==
    /\ DestOf \in [Texts -> Dests]
    /\ MaxProms \in Nat
    /\ MaxEdits \in Nat

VARIABLES
    dest,       \* dest[d]: the content of destination d
    snapshots,  \* the snapshots below .antma/snapshots
    records,    \* the records in ledger/promotions.jsonl
    nextId,     \* the next promotion id
    edits,      \* lines written by hand so far
    stage,      \* stage[p]: where p is in promote_one or rollback_promotion
    draft,      \* draft[p]: the promotion p works on, as far as it knows it
    undone      \* auxiliary: the promotions whose block a rollback has removed

engineVars == <<dest, snapshots, records, nextId, edits, stage, draft, undone>>
allVars == <<lockVars, queueVars, engineVars, dead>>

Newline == 0
ByHand == -1

Promotions == 1..MaxProms
Contents == Seq(Promotions \cup {Newline, ByHand})

\* A promotion's id, candidate, destination and its content before and after:
\* the data of a snapshot, and (with hashes for contents) of a ledger record.
PromotionRecords ==
    [id : Promotions, cand : Cands, dest : Dests, before : Contents, after : Contents]

ASSUME NoneIsNoPromotion == None \notin PromotionRecords

Stages == {"idle", "lock", "read", "snapshot", "replace", "record", "move", "release",
           "undo", "lookup"}

\* Every recorded promotion has its snapshot: the record names it, and the two
\* agree on the candidate, the destination and its content before and after.
EngineTypeOK ==
    /\ dest \in [Dests -> Contents]
    /\ snapshots \subseteq PromotionRecords
    /\ records \subseteq snapshots
    /\ nextId \in 1..(MaxProms + 1)
    /\ edits \in 0..MaxEdits
    /\ undone \subseteq Promotions
    /\ stage \in [Procs -> Stages]
    /\ draft \in [Procs -> PromotionRecords \cup {None}]
    /\ \A p \in Procs : stage[p] \notin {"idle", "move", "release"} => draft[p] # None

EngineInit ==
    /\ LockInit
    /\ QueueInit
    /\ dest = [d \in Dests |-> <<>>]
    /\ snapshots = {} /\ records = {} /\ undone = {}
    /\ nextId = 1
    /\ edits = 0
    /\ stage = [p \in Procs |-> "idle"]
    /\ draft = [p \in Procs |-> None]

EnterStage(p, to) == stage' = [stage EXCEPT ![p] = to]
Drop(p) == draft' = [draft EXCEPT ![p] = None]
Staged(p, at) == Alive(p) /\ stage[p] = at

HasBlock(text, id) == \E i \in DOMAIN text : text[i] = id

\* remove_marker_block puts one newline in place of the block.
RemoveBlock(text, id) == [i \in DOMAIN text |-> IF text[i] = id THEN Newline ELSE text[i]]

\* No command is at work, the lock and the destinations included.
Quiet == \A q \in Procs : stage[q] = "idle" /\ job[q] = None

-----------------------------------------------------------------------------
(* Promotion *)

\* run_promotions loads the candidate; promote_one resolves its destination,
\* draws an id and turns to the lock.
BeginPromotion(p) ==
    LET d == DestOf[Loaded(p)] IN
    /\ PromoteLoad(p)
    /\ nextId <= MaxProms
    /\ AcquireLock(p, d)
    /\ draft' = [draft EXCEPT ![p] = [id |-> nextId, cand |-> job[p].cand, dest |-> d,
                                      before |-> <<>>, after |-> <<>>]]
    /\ nextId' = nextId + 1
    /\ EnterStage(p, "lock")
    /\ UNCHANGED <<dest, snapshots, records, edits, undone>>

LockWork(p) ==
    /\ AcquireStep(p) \/ PayloadError(p)
    /\ UNCHANGED <<queueVars, engineVars>>

\* acquire_lock raises outside the try block: nothing is released.
LockRaises(p) ==
    /\ GiveUp(p)
    /\ FailCandidate(p)
    /\ EnterStage(p, "move")
    /\ Drop(p)
    /\ UNCHANGED <<dest, snapshots, records, nextId, edits, undone>>

ValidatePhase(p) ==
    /\ Staged(p, "lock")
    /\ At(p, "held")
    /\ Validate(p)
    /\ EnterStage(p, "read")
    /\ UNCHANGED <<lockVars, dest, snapshots, records, nextId, edits, draft, undone>>

\* The snapshot is left out.
ReadDestinationMutant(p) ==
    LET text == dest[draft[p].dest] IN
    /\ Staged(p, "read")
    /\ draft' = [draft EXCEPT ![p] = [@ EXCEPT !.before = text,
                                               !.after = Append(text, draft[p].id)]]
    /\ EnterStage(p, "replace")
    /\ UNCHANGED <<lockVars, queueVars, dest, snapshots, records, nextId, edits, undone, dead>>

\* The destination is read, a missing one as empty, and the block put at its end.
ReadDestination(p) ==
    LET text == dest[draft[p].dest] IN
    /\ Staged(p, "read")
    /\ draft' = [draft EXCEPT ![p] = [@ EXCEPT !.before = text,
                                               !.after = Append(text, draft[p].id)]]
    /\ EnterStage(p, "snapshot")
    /\ UNCHANGED <<lockVars, queueVars, dest, snapshots, records, nextId, edits, undone, dead>>

\* create_snapshot: before, after and manifest, in a directory of its own.
TakeSnapshot(p) ==
    /\ Staged(p, "snapshot")
    /\ snapshots' = snapshots \cup {draft[p]}
    /\ EnterStage(p, "replace")
    /\ UNCHANGED <<lockVars, queueVars, dest, records, nextId, edits, draft, undone, dead>>

\* atomic_write_text replaces the destination by the text computed before.
ReplaceDestination(p) ==
    /\ Staged(p, "replace")
    /\ dest' = [dest EXCEPT ![draft[p].dest] = draft[p].after]
    /\ EnterStage(p, "record")
    /\ UNCHANGED <<lockVars, queueVars, snapshots, records, nextId, edits, draft, undone, dead>>

RecordPromotion(p) ==
    /\ Staged(p, "record")
    /\ Record(p)
    /\ records' = records \cup {draft[p]}
    /\ EnterStage(p, "move")
    /\ UNCHANGED <<lockVars, dest, snapshots, nextId, edits, draft, undone>>

\* The rest of promote_one and all of fail_candidate are queue steps; the lock
\* is still held in the first case.
QueueWork(p) ==
    /\ Alive(p)
    /\ stage[p] \in {"idle", "move"}
    /\ \/ AuditPromotion(p) \/ WriteStep(p)
       \/ DecideWhatToWrite(p) \/ DeleteStep(p)
    /\ EnterStage(p, IF stage[p] = "move" /\ job'[p] = None
                     THEN IF At(p, "held") THEN "release" ELSE "idle"
                     ELSE stage[p])
    /\ IF stage'[p] = "idle" THEN Drop(p) ELSE UNCHANGED draft
    /\ UNCHANGED <<lockVars, dest, snapshots, records, nextId, edits, undone>>

\* The finally clause, after the candidate has been moved.
FinishPromotion(p) ==
    /\ Staged(p, "release")
    /\ ReleaseLock(p)
    /\ EnterStage(p, "idle")
    /\ Drop(p)
    /\ UNCHANGED <<queueVars, dest, snapshots, records, nextId, edits, undone>>

\* An exception while the lock is held: release it, then fail the candidate.
FailPromotion(p) ==
    /\ stage[p] \in {"lock", "read", "snapshot", "replace", "record", "move"}
    /\ ReleaseLock(p)
    /\ FailCandidate(p)
    /\ EnterStage(p, "move")
    /\ Drop(p)
    /\ UNCHANGED <<dest, snapshots, records, nextId, edits, undone>>

-----------------------------------------------------------------------------
(* Rollback *)

\* The text is taken from the snapshot without a look at the destination.
BeginRollbackMutant(p, r) ==
    /\ MayStart(p, "rollback")
    /\ Staged(p, "idle")
    /\ Serial => Quiet
    /\ r \in records
    /\ draft' = [draft EXCEPT ![p] = r]
    /\ EnterStage(p, "undo")
    /\ UNCHANGED <<lockVars, queueVars, dest, snapshots, records, nextId, edits, undone, dead>>

\* The candidate is moved without the destination being rewritten first.
BeginRollbackMutantMoveOnly(p, r) ==
    /\ MayStart(p, "rollback")
    /\ Staged(p, "idle")
    /\ Serial => Quiet
    /\ r \in records
    /\ dest[r.dest] = r.after
    /\ draft' = [draft EXCEPT ![p] = r]
    /\ EnterStage(p, "lookup")
    /\ UNCHANGED <<lockVars, queueVars, dest, snapshots, records, nextId, edits, undone, dead>>

\* find_promotion, and the comparison of the destination's hash.  On a mismatch
\* the command ends without effect.
BeginRollback(p, r) ==
    /\ MayStart(p, "rollback")
    /\ Staged(p, "idle")
    /\ Serial => Quiet
    /\ r \in records
    /\ dest[r.dest] = r.after
    /\ draft' = [draft EXCEPT ![p] = r]
    /\ EnterStage(p, "undo")
    /\ UNCHANGED <<lockVars, queueVars, dest, snapshots, records, nextId, edits, undone, dead>>

\* The destination is replaced by the text read above without the block.  No
\* lock is taken.
RemoveFromDestination(p) ==
    LET r == draft[p] IN
    /\ Staged(p, "undo")
    /\ dest' = [dest EXCEPT ![r.dest] = RemoveBlock(r.after, r.id)]
    /\ undone' = undone \cup {r.id}
    /\ EnterStage(p, "lookup")
    /\ UNCHANGED <<lockVars, queueVars, snapshots, records, nextId, edits, draft, dead>>

\* The write fails: the destination is as it was and the exception ends the
\* command.
RemoveFails(p) ==
    /\ IOErrors
    /\ Staged(p, "undo")
    /\ EnterStage(p, "idle")
    /\ Drop(p)
    /\ UNCHANGED <<lockVars, queueVars, dest, snapshots, records, nextId, edits, undone, dead>>

\* move_candidate_to_rolled_back looks the candidate up ...
FindRolledBack(p) ==
    /\ Staged(p, "lookup")
    /\ \E s \in Status : StartRollback(p, draft[p].cand, s)
    /\ EnterStage(p, "idle")
    /\ Drop(p)
    /\ UNCHANGED <<lockVars, dest, snapshots, records, nextId, edits, undone>>

\* ... or does not find it, after the destination has been rewritten.
RollbackLosesCandidate(p) ==
    /\ Staged(p, "lookup")
    /\ \A s \in Status : files[draft[p].cand][s] = None
    /\ EnterStage(p, "idle")
    /\ Drop(p)
    /\ UNCHANGED <<lockVars, queueVars, dest, snapshots, records, nextId, edits, undone, dead>>

-----------------------------------------------------------------------------
\* Every other command starts as in the queue.
StartOther(p) ==
    /\ Staged(p, "idle")
    /\ Serial => Quiet
    /\ \E c \in Cands :
         \/ \E t \in Texts : CreateCandidate(p, c, t)
         \/ \E s \in Status :
              \/ StartReview(p, c, s)
              \/ \E cmd \in Decisions \cup {"edit", "delete"} : StartById(p, cmd, c, s)
              \/ StartPromote(p, c, s)
    /\ UNCHANGED <<lockVars, engineVars>>

\* A user adds a line to a destination.
EditByHand(d) ==
    /\ edits < MaxEdits
    /\ Serial => Quiet
    /\ dest' = [dest EXCEPT ![d] = Append(@, ByHand)]
    /\ edits' = edits + 1
    /\ UNCHANGED <<lockVars, queueVars, snapshots, records, nextId, stage, draft, undone, dead>>

\* The process of an ended command exits.
EndCommand(p) ==
    /\ Staged(p, "idle") /\ job[p] = None
    /\ EndProcess(p)
    /\ UNCHANGED <<queueVars, engineVars>>

CrashPromoter(p) ==
    /\ Crash(p)
    /\ KillCommand(p)
    /\ EnterStage(p, "idle")
    /\ Drop(p)
    /\ UNCHANGED <<dest, snapshots, records, nextId, edits, undone>>

ClockTick == Tick /\ UNCHANGED <<queueVars, engineVars>>

PromotionStep(p) ==
    \/ BeginPromotion(p) \/ LockWork(p) \/ LockRaises(p)
    \/ ValidatePhase(p) \/ ReadDestination(p) \/ TakeSnapshot(p)
    \/ ReplaceDestination(p) \/ RecordPromotion(p)
    \/ FinishPromotion(p) \/ FailPromotion(p)

RollbackStep(p) ==
    \/ \E r \in records : BeginRollback(p, r)
    \/ RemoveFromDestination(p) \/ RemoveFails(p)
    \/ FindRolledBack(p) \/ RollbackLosesCandidate(p)

EngineNext ==
    \/ \E p \in Procs :
         StartOther(p) \/ PromotionStep(p) \/ QueueWork(p) \/ RollbackStep(p)
         \/ EndCommand(p) \/ CrashPromoter(p)
    \/ \E d \in Dests : EditByHand(d)
    \/ ClockTick

EngineSpec == EngineInit /\ [][EngineNext]_allVars

\* Every process is scheduled until it ends its command, and time passes.  Users
\* need not start anything.
EngineFairness ==
    /\ \A p \in Procs : WF_allVars(PromotionStep(p) \/ QueueWork(p))
    /\ WF_allVars(ClockTick)

FairEngineSpec == EngineSpec /\ EngineFairness

-----------------------------------------------------------------------------
\* Promotion only ever adds to the end of a destination: whatever was there is
\* still there, in place, after any number of concurrent promotions, exits and kills,
\* as long as no waiter has unlinked the lock of a process at work (LiveLockKept
\* says when that can be).
AppendOnly == [][robbed' \/ \A d \in Dests : IsPrefix(dest[d], dest'[d])]_allVars

\* The same without that condition, as the code states it of itself.
AlwaysAppendOnly == [][\A d \in Dests : IsPrefix(dest[d], dest'[d])]_allVars

\* A promotion recorded in promotions.jsonl has its block in the destination,
\* until a rollback of that very promotion removes it: no other promotion,
\* rollback or failed command takes it away.
RecordedBlockStays ==
    \A r \in records : r.id \notin undone => HasBlock(dest[r.dest], r.id)

\* So it is for promotions alone, however many at a time, as long as their locks keep
\* them apart.
BlocksUntilRobbed == robbed \/ RecordedBlockStays

\* Every block in a destination has a snapshot taken for it, and stands there
\* once: create_snapshot comes before the replace, whatever happens in between.
BlocksSnapshotted ==
    \A d \in Dests : \A i \in DOMAIN dest[d] : dest[d][i] \in Promotions =>
      /\ \E s \in snapshots : s.id = dest[d][i] /\ s.dest = d
      /\ \A j \in DOMAIN dest[d] : dest[d][j] = dest[d][i] => j = i

\* A candidate in promoted/ has the block of one of its recorded promotions in
\* the destination of that promotion, unless a rollback has taken that block out.
PromotedHasBlock ==
    \A c \in Cands : files[c]["promoted"] # None =>
      \E r \in records : r.cand = c /\ (HasBlock(dest[r.dest], r.id) \/ r.id \in undone)

\* So have the candidates of promotions alone, however many at a time and wherever
\* they are killed or fail, as long as their locks keep them apart.
HeldUntilRobbed == robbed \/ PromotedHasBlock

\* A block that a rollback has removed never comes back.
RolledBackStaysOut ==
    \A id \in undone, d \in Dests : ~HasBlock(dest[d], id)

\* A candidate in rolled-back/ is one whose block a rollback has taken out of a
\* destination: rollback_promotion rewrites the destination before it moves the
\* candidate, whatever else runs or dies meanwhile.
RolledBackWasUndone ==
    \A c \in Cands : files[c]["rolled_back"] # None =>
      \E r \in records : r.cand = c /\ r.id \in undone

\* Lines written by hand between commands survive promotions and rollbacks.
HandLinesKept ==
    edits = Cardinality({at \in Dests \X (1..(MaxProms + MaxEdits)) :
                           /\ at[2] \in DOMAIN dest[at[1]]
                           /\ dest[at[1]][at[2]] = ByHand})

\* When a rollback rewrites a destination, the destination still matches the
\* content the promotion ledger records for it.
RollbackChecked ==
    [][\A p \in Procs : stage[p] = "undo" /\ stage'[p] = "lookup" =>
         dest[draft[p].dest] = draft[p].after]_allVars

Documents == INSTANCE Destinations WITH
    text <- dest, recorded <- {r.id : r \in records}, removed <- undone

\* The readers of the destinations see the steps of Destinations alone, kills and
\* write errors included: promote_one puts its block in once and records it when
\* it stands there, rollback_promotion takes out a recorded block, once, while it
\* is the last thing in its destination, and nothing else comes or goes.
ImplementsDestinations == Documents!Spec

\* A promotion that waits for the lock of its destination ends, with the
\* candidate promoted or failed, although another process may die with the lock.
PromotionEnds ==
    \A p \in Procs : stage[p] = "lock" ~> (stage[p] = "idle" \/ ~Alive(p))
=============================================================================
