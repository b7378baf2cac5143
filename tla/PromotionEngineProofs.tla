----------------------- MODULE PromotionEngineProofs -----------------------
(***************************************************************************)
(* Proofs about the promotion engine for any number of processes,          *)
(* destinations, candidates and promotions: the composition implements the *)
(* lock and the queue it is built from, so that their theorems hold of it, *)
(* and concurrent promotions only ever append to a destination, until a    *)
(* waiter unlinks the lock of one at work.                                 *)
(***************************************************************************)
EXTENDS PromotionEngine, DestinationLockProofs, CandidateQueueProofs

\* Only a crash changes who is dead.
LEMMA QueueLeavesDead ==
    ASSUME NEW p \in Procs,
           \/ AuditPromotion(p) \/ WriteStep(p) \/ DecideWhatToWrite(p) \/ DeleteStep(p)
    PROVE  UNCHANGED dead
  BY DEF AuditPromotion, WriteStep, OpenTarget, FillTarget, WriteFails, UnlinkOld, AppendAudit,
         DecideWhatToWrite, Evaluate, Reload, Decide, Edit, MoveToRolledBack, LoadFails,
         DeleteStep, CheckDeletable, Unlink

LEMMA StartCommandsLeaveDead ==
    ASSUME NEW p \in Procs, StartOther(p)
    PROVE  UNCHANGED dead
  BY DEF StartOther, CreateCandidate, StartReview, StartPromote, StartById, Start

\* Every step of the engine is a step of the lock or leaves the lock alone.
LEMMA EngineStepIsLockStep ==
    ASSUME [EngineNext]_allVars PROVE [LockNext]_lvars
<1> USE DEF lvars, LockNext
<1>1. ASSUME NEW p \in Procs, StartOther(p) PROVE UNCHANGED lvars
  BY <1>1, StartCommandsLeaveDead DEF StartOther
<1>2. ASSUME NEW p \in Procs, BeginPromotion(p) PROVE LockNext
  <2>1. PICK d : AcquireLock(p, d) /\ d = DestOf[Loaded(p)]
    BY <1>2 DEF BeginPromotion
  <2>2. d \in Dests
    BY <1>2, <2>1, EngineConstants DEF BeginPromotion, PromoteLoad, Load
  <2> QED BY <2>1, <2>2
<1>3. ASSUME NEW p \in Procs, LockWork(p) PROVE LockNext
  BY <1>3 DEF LockWork
<1>4. ASSUME NEW p \in Procs, LockRaises(p) PROVE LockNext
  BY <1>4 DEF LockRaises
<1>5. ASSUME NEW p \in Procs,
             \/ ValidatePhase(p) \/ ReadDestination(p) \/ TakeSnapshot(p)
             \/ ReplaceDestination(p) \/ RecordPromotion(p)
      PROVE  UNCHANGED lvars
  BY <1>5 DEF ValidatePhase, Validate, ReadDestination, TakeSnapshot, ReplaceDestination,
              RecordPromotion, Record
<1>6. ASSUME NEW p \in Procs, FinishPromotion(p) \/ FailPromotion(p) PROVE LockNext
  BY <1>6 DEF FinishPromotion, FailPromotion
<1>7. ASSUME NEW p \in Procs, QueueWork(p) PROVE UNCHANGED lvars
  BY <1>7, QueueLeavesDead DEF QueueWork
<1>8. ASSUME NEW p \in Procs, RollbackStep(p) PROVE UNCHANGED lvars
  <2>1. ASSUME NEW c \in Cands, NEW s \in Status, StartRollback(p, c, s) PROVE UNCHANGED dead
    BY <2>1 DEF StartRollback, Start
  <2> QED BY <1>8, <2>1 DEF RollbackStep, BeginRollback, RemoveFromDestination, RemoveFails,
                          FindRolledBack, RollbackLosesCandidate, StartRollback, Start
<1>9. ASSUME NEW p \in Procs, CrashPromoter(p) PROVE LockNext
  BY <1>9 DEF CrashPromoter
<1>10. ASSUME NEW d \in Dests, EditByHand(d) PROVE UNCHANGED lvars
  BY <1>10 DEF EditByHand
<1>11. CASE ClockTick
  BY <1>11 DEF ClockTick
<1>12. CASE UNCHANGED allVars
  BY <1>12 DEF allVars
<1>13. ASSUME NEW p \in Procs, EndCommand(p) PROVE LockNext
  BY <1>13 DEF EndCommand
<1> QED BY <1>1, <1>2, <1>3, <1>4, <1>5, <1>6, <1>7, <1>8, <1>9, <1>10, <1>11, <1>12,
          <1>13 DEF EngineNext, PromotionStep

\* Composed with the queue, the ledgers and the destinations, the lock behaves
\* as it does on its own (executor.py promote_one calls acquire_lock and
\* release_lock and touches lock files in no other way).
THEOREM EngineImplementsLock == EngineSpec => LockSpec
<1>1. EngineInit => LockInit
  BY DEF EngineInit
<1>2. [EngineNext]_allVars => [LockNext]_lvars
  BY EngineStepIsLockStep
<1> QED BY <1>1, <1>2, PTL DEF EngineSpec, LockSpec, lvars

LEMMA LockLeavesDead ==
    ASSUME NEW p \in Procs, AcquireStep(p) \/ PayloadError(p)
    PROVE  UNCHANGED dead
  BY DEF AcquireStep, OpenLock, OpenFails, WritePayload, ReadPayload, JudgeAge,
         SignalOwner, BreakLock, WaitTimesOut, WaitSleeps, PayloadError

LEMMA RollbackOfRecordedCandidate ==
    ASSUME NEW p \in Procs, NEW c, NEW s \in Status, StartRollback(p, c, s),
           ledgered \subseteq Cands
    PROVE  QueueNext
  BY DEF StartRollback, QueueNext, StartCommand

\* Every step of the engine is a step of the queue or leaves the queue alone.
LEMMA EngineStepIsQueueStep ==
    ASSUME [EngineNext]_allVars, QueueTypeOK PROVE [QueueNext]_qvars
<1> USE DEF qvars
<1>1. ASSUME NEW p \in Procs, StartOther(p) PROVE QueueNext
  BY <1>1 DEF StartOther, QueueNext, StartCommand
<1>2. ASSUME NEW p \in Procs, BeginPromotion(p) PROVE QueueNext
  BY <1>2 DEF BeginPromotion, QueueNext, PromoteStep
<1>3. ASSUME NEW p \in Procs, LockWork(p) PROVE UNCHANGED qvars
  BY <1>3, LockLeavesDead DEF LockWork
<1>4. ASSUME NEW p \in Procs, LockRaises(p) \/ FailPromotion(p) PROVE QueueNext
  BY <1>4 DEF LockRaises, FailPromotion, QueueNext, PromoteStep
<1>5. ASSUME NEW p \in Procs, ValidatePhase(p) \/ RecordPromotion(p) PROVE QueueNext
  BY <1>5 DEF ValidatePhase, RecordPromotion, QueueNext, PromoteStep
<1>6. ASSUME NEW p \in Procs, ReadDestination(p) \/ TakeSnapshot(p) \/ ReplaceDestination(p)
      PROVE  UNCHANGED qvars
  BY <1>6 DEF ReadDestination, TakeSnapshot, ReplaceDestination
<1>7. ASSUME NEW p \in Procs, FinishPromotion(p) PROVE UNCHANGED qvars
  BY <1>7 DEF FinishPromotion, ReleaseLock
<1>8. ASSUME NEW p \in Procs, QueueWork(p) PROVE QueueNext
  BY <1>8 DEF QueueWork, QueueNext, PromoteStep
<1>9. ASSUME NEW p \in Procs, RollbackStep(p) PROVE [QueueNext]_qvars
  BY <1>9, RollbackOfRecordedCandidate
     DEF RollbackStep, BeginRollback, RemoveFromDestination, RemoveFails, FindRolledBack,
         RollbackLosesCandidate, QueueTypeOK
<1>10. ASSUME NEW p \in Procs, CrashPromoter(p) PROVE QueueNext
  BY <1>10 DEF CrashPromoter, QueueNext
<1>11. ASSUME NEW d \in Dests, EditByHand(d) PROVE UNCHANGED qvars
  BY <1>11 DEF EditByHand
<1>12. CASE ClockTick
  BY <1>12 DEF ClockTick, Tick
<1>13. CASE UNCHANGED allVars
  BY <1>13 DEF allVars
<1>14. ASSUME NEW p \in Procs, EndCommand(p) PROVE UNCHANGED qvars
  BY <1>14 DEF EndCommand, EndProcess
<1> QED BY <1>1, <1>2, <1>3, <1>4, <1>5, <1>6, <1>7, <1>8, <1>9, <1>10, <1>11, <1>12, <1>13,
          <1>14 DEF EngineNext, PromotionStep

\* Composed with the lock and the destinations, the queue behaves as it does on
\* its own: promote_one and rollback_promotion reach the queue only through the
\* moves, the ledger appends and the failure path the queue has steps for.
THEOREM EngineImplementsQueue == EngineSpec => QueueSpec
<1>1. EngineInit => QueueInit
  BY DEF EngineInit
<1>2. [EngineNext]_allVars /\ QueueTypeOK => [QueueNext]_qvars
  BY EngineStepIsQueueStep
<1>3. QueueInit => QueueTypeOK
  BY QueueInitTypeOK
<1>4. QueueTypeOK /\ [QueueNext]_qvars => QueueTypeOK'
  BY QueueTypeStep
<1> QED BY <1>1, <1>2, <1>3, <1>4, PTL DEF EngineSpec, QueueSpec, qvars

\* What was proved of the queue and of the lock holds of the engine: candidates
\* in promoted/ are ledgered and were cleared by the gates or a reviewer, and
\* promotions exclude each other until one of them is robbed of its lock.
THEOREM EngineKeepsQueueSafe ==
    EngineSpec => [](PromotedIsLedgered /\ PromotedTextCleared /\ ApprovedTextWasApproved)
  BY EngineImplementsQueue, PromotedIsLedgeredHolds, PromotedTextClearedHolds,
     ApprovedTextWasApprovedHolds, PTL

THEOREM EngineExcludes == EngineSpec => []ExclusiveUntilRobbed
  BY EngineImplementsLock, ExclusiveUntilRobbedHolds, PTL

-----------------------------------------------------------------------------
\* The setting of AppendOnly: destinations change by promotion alone.
OnlyPromotions == "rollback" \notin Commands /\ MaxEdits = 0

Lines == Seq(Int)
Drafts == [id : Int, cand : Cands, dest : Dests, before : Lines, after : Lines]

PromotingTypeOK ==
    /\ dest \in [Dests -> Lines]
    /\ nextId \in Nat
    /\ edits = 0
    /\ stage \in [Procs -> Stages \ {"undo", "lookup"}]
    /\ DOMAIN draft = Procs

Promoting == {"lock", "read", "snapshot", "replace", "record"}

\* What makes AppendOnly inductive: whoever has read the destination is alive and
\* holds its lock, and the text it will write is still the present content and
\* its block.
DraftFresh(p) ==
    /\ stage[p] \in Promoting => Alive(p) /\ draft[p] \in Drafts /\ draft[p].dest = want[p]
    /\ stage[p] \in {"read", "snapshot", "replace"} => lockPc[p] = "held"
    /\ stage[p] \in {"snapshot", "replace"} =>
         draft[p].after = Append(dest[draft[p].dest], draft[p].id)

DraftsFresh == \A p \in Procs : DraftFresh(p)

LEMMA AppendKeepsPrefix ==
    ASSUME NEW s \in Seq(Int), NEW e \in Int
    PROVE  Append(s, e) \in Seq(Int) /\ IsPrefix(s, Append(s, e)) /\ IsPrefix(s, s)
  BY DEF IsPrefix

\* A step that leaves p's stage, draft and the destinations alone, and p's lock
\* unless p has not got it yet.
LEMMA OthersDraft ==
    ASSUME NEW p \in Procs, DraftFresh(p), dest' = dest, stage'[p] = stage[p],
           draft'[p] = draft[p], want'[p] = want[p],
           lockPc[p] = "held" => lockPc'[p] = "held", Alive(p) => Alive(p)'
    PROVE  DraftFresh(p)'
  BY DEF DraftFresh

\* The lock steps of q concern the lock of q alone.
LEMMA OthersLock ==
    ASSUME NEW p \in Procs, NEW q \in Procs, p # q, LockTypeOK,
           \/ \E d \in Dests : AcquireLock(q, d)
           \/ AcquireStep(q) \/ PayloadError(q) \/ ReleaseLock(q) \/ GiveUp(q)
    PROVE  want'[p] = want[p] /\ lockPc'[p] = lockPc[p]
  BY DEF LockTypeOK, AcquireStep, AcquireLock, OpenLock, OpenFails, WritePayload, ReadPayload,
         JudgeAge, SignalOwner, BreakLock, WaitTimesOut, WaitSleeps, PayloadError, ReleaseLock,
         GiveUp, Leave, Goto

\* While it acquires the lock, a process keeps to its destination.
LEMMA AcquireKeepsWant ==
    ASSUME NEW p \in Procs, LockTypeOK, AcquireStep(p) \/ PayloadError(p)
    PROVE  want' = want /\ lockPc[p] # "held"
  BY DEF LockTypeOK, AcquireStep, OpenLock, OpenFails, WritePayload, ReadPayload, JudgeAge,
         SignalOwner, BreakLock, WaitTimesOut, WaitSleeps, PayloadError, Goto, At

\* A step of q alone that leaves the destinations alone.
LEMMA OneWorks ==
    ASSUME PromotingTypeOK, LockTypeOK, DraftsFresh, NEW q \in Procs, DraftFresh(q)',
           dest' = dest, edits' = edits, nextId' \in Nat,
           stage' \in [Procs -> Stages \ {"undo", "lookup"}], DOMAIN draft' = Procs,
           \A p \in Procs \ {q} : /\ stage'[p] = stage[p] /\ draft'[p] = draft[p]
                                  /\ want'[p] = want[p] /\ lockPc'[p] = lockPc[p]
                                  /\ Alive(p) => Alive(p)'
    PROVE  PromotingTypeOK' /\ DraftsFresh'
<1>1. PromotingTypeOK'
  BY DEF PromotingTypeOK
<1>2. ASSUME NEW p \in Procs PROVE DraftFresh(p)'
  <2>1. CASE p = q
    BY <2>1
  <2>2. CASE p # q
    BY <2>2, OthersDraft DEF DraftsFresh
  <2> QED BY <2>1, <2>2
<1> QED BY <1>1, <1>2 DEF DraftsFresh

LEMMA ReplaceStep ==
    ASSUME PromotingTypeOK, LockTypeOK, DraftsFresh, MutualExclusion,
           NEW q \in Procs, ReplaceDestination(q)
    PROVE  /\ PromotingTypeOK' /\ DraftsFresh'
           /\ \A d \in Dests : IsPrefix(dest[d], dest'[d])
<1> DEFINE e == draft[q].dest
<1>1. /\ stage[q] = "replace" /\ dest' = [dest EXCEPT ![e] = draft[q].after]
      /\ stage' = [stage EXCEPT ![q] = "record"]
      /\ UNCHANGED <<lockPc, want, draft, nextId, edits, dead>>
  BY DEF ReplaceDestination, Staged, EnterStage, lockVars
<1>2. /\ Alive(q) /\ draft[q] \in Drafts /\ e = want[q] /\ lockPc[q] = "held"
      /\ draft[q].after = Append(dest[e], draft[q].id)
  BY <1>1 DEF DraftsFresh, DraftFresh, Promoting
<1>3. e \in Dests /\ dest[e] \in Seq(Int) /\ draft[q].id \in Int
  BY <1>2 DEF Drafts, PromotingTypeOK, Lines
<1>4. draft[q].after \in Seq(Int) /\ IsPrefix(dest[e], draft[q].after)
  BY <1>2, <1>3, AppendKeepsPrefix
<1>5. \A d \in Dests : dest'[d] = IF d = e THEN draft[q].after ELSE dest[d]
  BY <1>1, <1>3 DEF PromotingTypeOK
<1>6. ASSUME NEW d \in Dests PROVE IsPrefix(dest[d], dest'[d])
  <2>1. dest[d] \in Seq(Int) /\ IsPrefix(dest[d], dest[d])
    BY AppendKeepsPrefix DEF PromotingTypeOK, Lines
  <2> QED BY <1>4, <1>5, <2>1
<1>7. PromotingTypeOK'
  <2>1. dest' \in [Dests -> Lines]
    BY <1>1, <1>3, <1>4 DEF PromotingTypeOK, Lines
  <2>2. stage' \in [Procs -> Stages \ {"undo", "lookup"}]
    BY <1>1 DEF PromotingTypeOK, Stages
  <2> QED BY <1>1, <2>1, <2>2 DEF PromotingTypeOK
<1>8. ASSUME NEW p \in Procs PROVE DraftFresh(p)'
  <2>1. CASE p = q
    BY <1>1, <1>2, <2>1 DEF DraftFresh, PromotingTypeOK, Promoting, Alive
  <2>2. CASE p # q
    <3>1. stage'[p] = stage[p]
      BY <1>1, <2>2 DEF PromotingTypeOK
    <3>2. stage[p] \in {"snapshot", "replace"} => draft[p].dest # e /\ draft[p].dest \in Dests
      BY <1>2, <1>3, <2>2 DEF DraftsFresh, DraftFresh, Promoting, MutualExclusion, Holds, At, Alive,
                              Drafts
    <3>3. stage[p] \in {"snapshot", "replace"} => dest'[draft[p].dest] = dest[draft[p].dest]
      BY <1>5, <3>2
    <3> QED BY <1>1, <3>1, <3>3 DEF DraftsFresh, DraftFresh, Alive
  <2> QED BY <2>1, <2>2
<1> QED BY <1>6, <1>7, <1>8 DEF DraftsFresh

\* The step that promote_one takes once run_promotions has loaded a candidate.
LEMMA BeginStep ==
    ASSUME PromotingTypeOK, LockTypeOK, QueueTypeOK, DraftsFresh, NEW q \in Procs, BeginPromotion(q)
    PROVE  PromotingTypeOK' /\ DraftsFresh' /\ dest' = dest
<1> DEFINE d == DestOf[Loaded(q)]
           r == [id |-> nextId, cand |-> job[q].cand, dest |-> d, before |-> <<>>, after |-> <<>>]
<1>1. d \in Dests /\ job[q].cand \in Cands
  BY EngineConstants, JobFields DEF BeginPromotion, PromoteLoad, Load, Running
<1>2. r \in Drafts
  <2>1. nextId \in Int /\ <<>> \in Seq(Int)
    BY DEF PromotingTypeOK
  <2> QED BY <1>1, <2>1 DEF Drafts, Lines
<1>3. /\ dest' = dest /\ edits' = edits /\ nextId' = nextId + 1
      /\ draft' = [draft EXCEPT ![q] = r] /\ stage' = [stage EXCEPT ![q] = "lock"]
  BY DEF BeginPromotion, EnterStage
<1>4. AcquireLock(q, d)
  BY DEF BeginPromotion
<1>5. want'[q] = d /\ Alive(q) /\ dead' = dead
  BY <1>4 DEF AcquireLock, LockTypeOK, At
<1>6. draft'[q] = r /\ stage'[q] = "lock" /\ r.dest = d
  BY <1>3 DEF PromotingTypeOK
<1>7. DraftFresh(q)'
  BY <1>2, <1>5, <1>6 DEF DraftFresh, Alive
<1>8. ASSUME NEW p \in Procs \ {q}
      PROVE  /\ stage'[p] = stage[p] /\ draft'[p] = draft[p]
             /\ want'[p] = want[p] /\ lockPc'[p] = lockPc[p]
             /\ Alive(p) => Alive(p)'
  <2>1. want'[p] = want[p] /\ lockPc'[p] = lockPc[p]
    BY <1>1, <1>4, OthersLock
  <2> QED BY <1>3, <1>5, <2>1 DEF PromotingTypeOK, Alive
<1>9. stage' \in [Procs -> Stages \ {"undo", "lookup"}] /\ DOMAIN draft' = Procs /\ nextId' \in Nat
  BY <1>3 DEF PromotingTypeOK, Stages
<1> QED BY <1>3, <1>7, <1>8, <1>9, OneWorks

LEMMA ReadStep ==
    ASSUME PromotingTypeOK, LockTypeOK, DraftsFresh, NEW q \in Procs, ReadDestination(q)
    PROVE  PromotingTypeOK' /\ DraftsFresh' /\ dest' = dest
<1> DEFINE text == dest[draft[q].dest]
           r == [draft[q] EXCEPT !.before = text, !.after = Append(text, draft[q].id)]
<1>1. /\ stage[q] = "read" /\ stage' = [stage EXCEPT ![q] = "snapshot"]
      /\ draft' = [draft EXCEPT ![q] = r]
      /\ UNCHANGED <<lockPc, want, dest, edits, nextId, dead>>
  BY DEF ReadDestination, Staged, EnterStage, lockVars
<1>2. Alive(q) /\ draft[q] \in Drafts /\ draft[q].dest = want[q] /\ lockPc[q] = "held"
  BY <1>1 DEF DraftsFresh, DraftFresh, Promoting
<1>3. text \in Seq(Int) /\ draft[q].id \in Int /\ Append(text, draft[q].id) \in Seq(Int)
  BY <1>2, AppendKeepsPrefix DEF Drafts, PromotingTypeOK, Lines
<1>4. /\ r \in Drafts /\ r.dest = draft[q].dest /\ r.id = draft[q].id
      /\ r.after = Append(text, draft[q].id)
  BY <1>2, <1>3 DEF Drafts, Lines
<1>5. draft'[q] = r /\ stage'[q] = "snapshot"
  BY <1>1 DEF PromotingTypeOK
<1>6. DraftFresh(q)'
  BY <1>1, <1>2, <1>4, <1>5 DEF DraftFresh, Alive
<1>7. /\ stage' \in [Procs -> Stages \ {"undo", "lookup"}] /\ DOMAIN draft' = Procs
      /\ \A p \in Procs \ {q} : stage'[p] = stage[p] /\ draft'[p] = draft[p]
  BY <1>1 DEF PromotingTypeOK, Stages
<1> QED BY <1>1, <1>6, <1>7, OneWorks DEF PromotingTypeOK, Alive

\* Every step keeps the drafts fresh and adds to destinations only at their end.
LEMMA EngineSafeStep ==
    ASSUME OnlyPromotions, PromotingTypeOK, LockTypeOK, QueueTypeOK, MutualExclusion, DraftsFresh,
           [EngineNext]_allVars
    PROVE  /\ PromotingTypeOK' /\ DraftsFresh'
           /\ \A d \in Dests : IsPrefix(dest[d], dest'[d])
<1> USE DEF EnterStage, Drop, Staged
<1>1. ASSUME PromotingTypeOK' /\ DraftsFresh', dest' = dest
      PROVE  /\ PromotingTypeOK' /\ DraftsFresh'
             /\ \A d \in Dests : IsPrefix(dest[d], dest'[d])
  BY <1>1, AppendKeepsPrefix DEF PromotingTypeOK, Lines
<1>2. ASSUME NEW q \in Procs, BeginPromotion(q)
      PROVE  PromotingTypeOK' /\ DraftsFresh' /\ dest' = dest
  BY <1>2, BeginStep
<1>3. ASSUME NEW q \in Procs, LockWork(q) PROVE PromotingTypeOK' /\ DraftsFresh' /\ dest' = dest
  <2>1. UNCHANGED <<dest, edits, nextId, stage, draft>>
    BY <1>3 DEF LockWork, engineVars
  <2>2. want' = want /\ lockPc[q] # "held" /\ dead' = dead
    BY <1>3, AcquireKeepsWant, LockLeavesDead DEF LockWork
  <2>3. DraftFresh(q)'
    BY <2>1, <2>2, OthersDraft DEF DraftsFresh, Alive
  <2>4. \A p \in Procs \ {q} : want'[p] = want[p] /\ lockPc'[p] = lockPc[p]
    BY <1>3, OthersLock DEF LockWork
  <2> QED BY <2>1, <2>2, <2>3, <2>4, OneWorks DEF PromotingTypeOK, Alive
<1>4. ASSUME NEW q \in Procs,
             LockRaises(q) \/ FailPromotion(q) \/ FinishPromotion(q)
      PROVE  PromotingTypeOK' /\ DraftsFresh' /\ dest' = dest
  <2>1. PICK to \in {"move", "idle"} :
          /\ stage' = [stage EXCEPT ![q] = to] /\ draft' = [draft EXCEPT ![q] = None]
          /\ UNCHANGED <<dest, edits, nextId, dead>>
    BY <1>4 DEF LockRaises, FailPromotion, FinishPromotion, ReleaseLock, GiveUp
  <2>2. stage'[q] \notin Promoting
    BY <2>1 DEF PromotingTypeOK, Promoting
  <2>3. DraftFresh(q)'
    BY <2>2 DEF DraftFresh, Promoting
  <2>4. \A p \in Procs \ {q} : want'[p] = want[p] /\ lockPc'[p] = lockPc[p]
    BY <1>4, OthersLock DEF LockRaises, FailPromotion, FinishPromotion
  <2>5. /\ stage' \in [Procs -> Stages \ {"undo", "lookup"}] /\ DOMAIN draft' = Procs
        /\ \A p \in Procs \ {q} : stage'[p] = stage[p] /\ draft'[p] = draft[p]
    BY <2>1 DEF PromotingTypeOK, Stages
  <2> QED BY <2>1, <2>3, <2>4, <2>5, OneWorks DEF PromotingTypeOK, Alive
<1>5. ASSUME NEW q \in Procs, ValidatePhase(q)
      PROVE  PromotingTypeOK' /\ DraftsFresh' /\ dest' = dest
  <2>1. /\ stage[q] = "lock" /\ lockPc[q] = "held" /\ stage' = [stage EXCEPT ![q] = "read"]
        /\ UNCHANGED <<lockPc, want, dest, edits, nextId, draft, dead>>
    BY <1>5 DEF ValidatePhase, Validate, At, lockVars
  <2>2. DraftFresh(q)'
    BY <2>1 DEF DraftsFresh, DraftFresh, PromotingTypeOK, Promoting, Alive
  <2>3. /\ stage' \in [Procs -> Stages \ {"undo", "lookup"}]
        /\ \A p \in Procs \ {q} : stage'[p] = stage[p]
    BY <2>1 DEF PromotingTypeOK, Stages
  <2> QED BY <2>1, <2>2, <2>3, OneWorks DEF PromotingTypeOK, Alive
<1>6. ASSUME NEW q \in Procs, ReadDestination(q)
      PROVE  PromotingTypeOK' /\ DraftsFresh' /\ dest' = dest
  BY <1>6, ReadStep
<1>7. ASSUME NEW q \in Procs, TakeSnapshot(q)
      PROVE  PromotingTypeOK' /\ DraftsFresh' /\ dest' = dest
  <2>1. /\ stage[q] = "snapshot" /\ stage' = [stage EXCEPT ![q] = "replace"]
        /\ UNCHANGED <<lockPc, want, dest, edits, nextId, draft, dead>>
    BY <1>7 DEF TakeSnapshot, lockVars
  <2>2. DraftFresh(q)'
    BY <2>1 DEF DraftsFresh, DraftFresh, PromotingTypeOK, Promoting, Alive
  <2>3. /\ stage' \in [Procs -> Stages \ {"undo", "lookup"}]
        /\ \A p \in Procs \ {q} : stage'[p] = stage[p]
    BY <2>1 DEF PromotingTypeOK, Stages
  <2> QED BY <2>1, <2>2, <2>3, OneWorks DEF PromotingTypeOK, Alive
<1>8. ASSUME NEW q \in Procs, ReplaceDestination(q)
      PROVE  PromotingTypeOK' /\ DraftsFresh' /\ \A d \in Dests : IsPrefix(dest[d], dest'[d])
  BY <1>8, ReplaceStep
<1>9. ASSUME NEW q \in Procs, RecordPromotion(q)
      PROVE  PromotingTypeOK' /\ DraftsFresh' /\ dest' = dest
  <2>1. /\ stage' = [stage EXCEPT ![q] = "move"]
        /\ UNCHANGED <<lockPc, want, dest, edits, nextId, draft, dead>>
    BY <1>9 DEF RecordPromotion, Record, lockVars
  <2>2. DraftFresh(q)'
    BY <2>1 DEF DraftFresh, PromotingTypeOK, Promoting
  <2>3. /\ stage' \in [Procs -> Stages \ {"undo", "lookup"}]
        /\ \A p \in Procs \ {q} : stage'[p] = stage[p]
    BY <2>1 DEF PromotingTypeOK, Stages
  <2> QED BY <2>1, <2>2, <2>3, OneWorks DEF PromotingTypeOK, Alive
<1>10. ASSUME NEW q \in Procs, QueueWork(q)
       PROVE  PromotingTypeOK' /\ DraftsFresh' /\ dest' = dest
  <2>1. PICK to \in {"move", "idle", "release"} : stage' = [stage EXCEPT ![q] = to]
    BY <1>10 DEF QueueWork
  <2>2. /\ UNCHANGED <<lockPc, want, dest, edits, nextId, dead>>
        /\ draft' = [draft EXCEPT ![q] = None] \/ draft' = draft
    BY <1>10, QueueLeavesDead DEF QueueWork, lockVars
  <2>3. DraftFresh(q)'
    BY <2>1 DEF DraftFresh, PromotingTypeOK, Promoting
  <2>4. /\ stage' \in [Procs -> Stages \ {"undo", "lookup"}] /\ DOMAIN draft' = Procs
        /\ \A p \in Procs \ {q} : stage'[p] = stage[p] /\ draft'[p] = draft[p]
    BY <2>1, <2>2 DEF PromotingTypeOK, Stages
  <2> QED BY <2>2, <2>3, <2>4, OneWorks DEF PromotingTypeOK, Alive
<1>11. ASSUME NEW q \in Procs, StartOther(q)
       PROVE  PromotingTypeOK' /\ DraftsFresh' /\ dest' = dest
  <2>1. UNCHANGED <<lockPc, want, dest, edits, nextId, stage, draft, dead>>
    BY <1>11, StartCommandsLeaveDead DEF StartOther, lockVars, engineVars
  <2> QED BY <2>1, OthersDraft DEF PromotingTypeOK, DraftsFresh, Alive
<1>12. ASSUME NEW q \in Procs PROVE ~RollbackStep(q)
  <2>1. stage[q] \notin {"undo", "lookup"}
    BY DEF PromotingTypeOK
  <2> QED BY <2>1 DEF RollbackStep, BeginRollback, RemoveFromDestination, RemoveFails,
                    FindRolledBack, RollbackLosesCandidate, MayStart, OnlyPromotions
<1>13. ASSUME NEW d \in Dests PROVE ~EditByHand(d)
  BY DEF EditByHand, PromotingTypeOK, OnlyPromotions
<1>14. CASE ClockTick \/ UNCHANGED allVars
  <2>1. UNCHANGED <<lockPc, want, dest, edits, nextId, stage, draft, dead>>
    BY <1>14 DEF ClockTick, Tick, engineVars, allVars, lockVars
  <2> QED BY <2>1, <1>1, OthersDraft DEF PromotingTypeOK, DraftsFresh, Alive
<1>15. ASSUME NEW q \in Procs, CrashPromoter(q)
       PROVE  PromotingTypeOK' /\ DraftsFresh' /\ dest' = dest
  <2>1. /\ stage' = [stage EXCEPT ![q] = "idle"] /\ draft' = [draft EXCEPT ![q] = None]
        /\ UNCHANGED <<lockPc, want, dest, edits, nextId>>
        /\ dead' = dead \cup {q}
    BY <1>15 DEF CrashPromoter, Crash, lockVars
  <2>2. DraftFresh(q)'
    BY <2>1 DEF DraftFresh, PromotingTypeOK, Promoting
  <2>3. /\ stage' \in [Procs -> Stages \ {"undo", "lookup"}] /\ DOMAIN draft' = Procs
        /\ \A p \in Procs \ {q} : stage'[p] = stage[p] /\ draft'[p] = draft[p]
    BY <2>1 DEF PromotingTypeOK, Stages
  <2>4. \A p \in Procs \ {q} : Alive(p) => Alive(p)'
    BY <2>1 DEF Alive
  <2> QED BY <2>1, <2>2, <2>3, <2>4, OneWorks DEF PromotingTypeOK
<1>16. CASE \E q \in Procs :
         PromotionStep(q) \/ QueueWork(q) \/ StartOther(q) \/ CrashPromoter(q)
  <2>1. CASE \E q \in Procs : ReplaceDestination(q)
    BY <1>8, <2>1
  <2>2. CASE \E q \in Procs :
          \/ PromotionStep(q) /\ ~ReplaceDestination(q)
          \/ QueueWork(q) \/ StartOther(q) \/ CrashPromoter(q)
    BY <2>2, <1>1, <1>2, <1>3, <1>4, <1>5, <1>6, <1>7, <1>9, <1>10, <1>11, <1>15
       DEF PromotionStep
  <2> QED BY <1>16, <2>1, <2>2
<1>17. ASSUME NEW q \in Procs, EndCommand(q)
       PROVE  PromotingTypeOK' /\ DraftsFresh' /\ dest' = dest
  <2>1. UNCHANGED <<lockPc, want, dest, edits, nextId, stage, draft, dead>>
    BY <1>17 DEF EndCommand, EndProcess, engineVars
  <2> QED BY <2>1, OthersDraft DEF PromotingTypeOK, DraftsFresh, Alive
<1> QED BY <1>1, <1>12, <1>13, <1>14, <1>16, <1>17 DEF EngineNext

\* Until somebody is robbed.
SafelyPromoting == robbed \/ (PromotingTypeOK /\ DraftsFresh)
EngineSafe == LockTypeOK /\ QueueTypeOK /\ ExclusiveUntilRobbed /\ SafelyPromoting

\* While nobody has been robbed after a step, nobody was before it.
LEMMA UnrobbedStep ==
    ASSUME EngineSafe, [EngineNext]_allVars, ~robbed'
    PROVE  /\ ~robbed
           /\ LockTypeOK /\ QueueTypeOK /\ MutualExclusion /\ PromotingTypeOK /\ DraftsFresh
<1>1. ~robbed
  BY EngineStepIsLockStep, LockGrows DEF EngineSafe
<1> QED BY <1>1 DEF EngineSafe, SafelyPromoting, ExclusiveUntilRobbed

LEMMA EngineSafeInvariant ==
    ASSUME OnlyPromotions PROVE EngineSpec => []EngineSafe
<1>1. EngineInit => SafelyPromoting
  BY DEF EngineInit, SafelyPromoting, PromotingTypeOK, Stages, Lines, DraftsFresh, DraftFresh,
         Promoting
<1>2. EngineSafe /\ [EngineNext]_allVars => SafelyPromoting'
  BY UnrobbedStep, EngineSafeStep DEF SafelyPromoting
<1>3. EngineSpec => [](LockTypeOK /\ QueueTypeOK)
  BY EngineImplementsLock, EngineImplementsQueue, LockTypeCorrect, QueueTypeCorrect, PTL
<1>4. EngineSpec => []ExclusiveUntilRobbed
  BY EngineExcludes
<1> QED BY <1>1, <1>2, <1>3, <1>4, PTL DEF EngineSpec, EngineSafe

\* Any number of concurrent promotions by any number of processes and users, whichever
\* of them exit, time out, fail half-way or are killed, leave every destination with its
\* content in place and new blocks after it, as long as nothing but promotions writes
\* there and no waiter has unlinked the lock of one at work (executor.py's "append-only
\* promotion").
THEOREM AppendOnlyHolds ==
    ASSUME OnlyPromotions PROVE EngineSpec => AppendOnly
<1> DEFINE Appends == robbed' \/ \A d \in Dests : IsPrefix(dest[d], dest'[d])
<1>1. EngineSafe /\ [EngineNext]_allVars => [Appends]_allVars
  BY UnrobbedStep, EngineSafeStep
<1> QED BY <1>1, EngineSafeInvariant, PTL DEF EngineSpec, AppendOnly

-----------------------------------------------------------------------------
\* What a promotion leaves behind, in the same setting: a record has its block,
\* which is in the destination before the record is written.
BackedDraft(p) == stage[p] = "record" => HasBlock(dest[draft[p].dest], draft[p].id)

Backed ==
    /\ \A r \in records : r.dest \in Dests /\ HasBlock(dest[r.dest], r.id)
    /\ \A p \in Procs : BackedDraft(p)

LEMMA PrefixKeepsBlock ==
    ASSUME NEW s \in Seq(Int), NEW t \in Seq(Int), IsPrefix(s, t), NEW id, HasBlock(s, id)
    PROVE  HasBlock(t, id)
<1>1. PICK i \in DOMAIN s : s[i] = id
  BY DEF HasBlock
<1>2. i \in 1..Len(s) /\ i \in 1..Len(t)
  BY DEF IsPrefix
<1>3. SubSeq(s, 1, Len(s))[i] = s[i] /\ SubSeq(t, 1, Len(s))[i] = t[i]
  BY <1>2 DEF IsPrefix
<1>4. t[i] = id
  BY <1>1, <1>3 DEF IsPrefix
<1> QED BY <1>2, <1>4 DEF HasBlock

LEMMA AppendHasBlock ==
    ASSUME NEW s \in Seq(Int), NEW id \in Int PROVE HasBlock(Append(s, id), id)
<1>1. Len(s) + 1 \in DOMAIN Append(s, id) /\ Append(s, id)[Len(s) + 1] = id
  OBVIOUS
<1> QED BY <1>1 DEF HasBlock

\* Destinations that grow keep the blocks they have.
LEMMA GrowingKeepsBlocks ==
    ASSUME PromotingTypeOK, PromotingTypeOK', \A d \in Dests : IsPrefix(dest[d], dest'[d]),
           NEW d \in Dests, NEW id, HasBlock(dest[d], id)
    PROVE  HasBlock(dest'[d], id)
<1>1. dest[d] \in Seq(Int) /\ dest'[d] \in Seq(Int)
  BY DEF PromotingTypeOK, Lines
<1> QED BY <1>1, PrefixKeepsBlock

\* A step of q alone that writes no record.
LEMMA OneBacks ==
    ASSUME PromotingTypeOK, PromotingTypeOK', DraftsFresh, Backed,
           \A d \in Dests : IsPrefix(dest[d], dest'[d]),
           NEW q \in Procs, BackedDraft(q)', records' = records,
           \A p \in Procs \ {q} : stage'[p] = stage[p] /\ draft'[p] = draft[p]
    PROVE  Backed'
<1>1. \A r \in records : HasBlock(dest'[r.dest], r.id)
  BY GrowingKeepsBlocks DEF Backed
<1>2. ASSUME NEW p \in Procs \ {q} PROVE BackedDraft(p)'
  <2>1. BackedDraft(p) /\ DraftFresh(p)
    BY DEF Backed, DraftsFresh
  <2>2. stage[p] = "record" => draft[p].dest \in Dests
    BY <2>1 DEF DraftFresh, Promoting, Drafts
  <2>3. stage[p] = "record" => HasBlock(dest'[draft[p].dest], draft[p].id)
    BY <2>1, <2>2, GrowingKeepsBlocks DEF BackedDraft
  <2> QED BY <2>3 DEF BackedDraft
<1> QED BY <1>1, <1>2 DEF Backed

\* The replace puts the block of the draft at the end of its destination.
LEMMA ReplaceBacks ==
    ASSUME PromotingTypeOK, PromotingTypeOK', DraftsFresh, Backed,
           \A d \in Dests : IsPrefix(dest[d], dest'[d]),
           NEW q \in Procs, ReplaceDestination(q)
    PROVE  Backed'
<1> DEFINE e == draft[q].dest
<1>1. /\ stage[q] = "replace" /\ dest' = [dest EXCEPT ![e] = draft[q].after]
      /\ stage' = [stage EXCEPT ![q] = "record"]
      /\ UNCHANGED <<draft, records>>
  BY DEF ReplaceDestination, Staged, EnterStage
<1>2. draft[q] \in Drafts /\ draft[q].after = Append(dest[e], draft[q].id)
  BY <1>1 DEF DraftsFresh, DraftFresh, Promoting
<1>3. e \in Dests /\ dest[e] \in Seq(Int) /\ draft[q].id \in Int
  BY <1>2 DEF Drafts, PromotingTypeOK, Lines
<1>4. HasBlock(draft[q].after, draft[q].id)
  BY <1>2, <1>3, AppendHasBlock
<1>5. dest'[e] = draft[q].after
  BY <1>1, <1>3 DEF PromotingTypeOK
<1>6. BackedDraft(q)'
  BY <1>1, <1>4, <1>5 DEF BackedDraft
<1>7. \A p \in Procs \ {q} : stage'[p] = stage[p] /\ draft'[p] = draft[p]
  BY <1>1 DEF PromotingTypeOK
<1> QED BY <1>1, <1>6, <1>7, OneBacks

LEMMA RecordBacks ==
    ASSUME PromotingTypeOK, DraftsFresh, Backed, NEW q \in Procs, RecordPromotion(q)
    PROVE  Backed'
<1>1. /\ stage[q] = "record" /\ stage' = [stage EXCEPT ![q] = "move"]
      /\ records' = records \cup {draft[q]}
      /\ UNCHANGED <<dest, draft>>
  BY DEF RecordPromotion, Staged, EnterStage
<1>2. draft[q].dest \in Dests /\ HasBlock(dest[draft[q].dest], draft[q].id)
  BY <1>1 DEF Backed, BackedDraft, DraftsFresh, DraftFresh, Promoting, Drafts
<1>3. \A r \in records' : r.dest \in Dests /\ HasBlock(dest'[r.dest], r.id)
  BY <1>1, <1>2 DEF Backed
<1>4. \A p \in Procs : stage'[p] = "record" => stage[p] = "record"
  BY <1>1 DEF PromotingTypeOK
<1> QED BY <1>1, <1>3, <1>4 DEF Backed, BackedDraft

LEMMA BackedStep ==
    ASSUME OnlyPromotions, PromotingTypeOK, PromotingTypeOK',
           DraftsFresh, Backed, \A d \in Dests : IsPrefix(dest[d], dest'[d]),
           [EngineNext]_allVars
    PROVE  Backed'
<1> USE DEF EnterStage, Drop, Staged
<1>1. ASSUME NEW q \in Procs,
             \/ PromotionStep(q) /\ ~ReplaceDestination(q) /\ ~RecordPromotion(q) /\ ~LockWork(q)
             \/ QueueWork(q) \/ CrashPromoter(q)
      PROVE  Backed'
  <2>1. PICK to \in Stages \ {"record"} : stage' = [stage EXCEPT ![q] = to]
    BY <1>1 DEF PromotionStep, BeginPromotion, LockRaises, ValidatePhase, ReadDestination,
                TakeSnapshot, FinishPromotion, FailPromotion, QueueWork, CrashPromoter, Stages,
                PromotingTypeOK
  <2>2. /\ records' = records
        /\ \A p \in Procs \ {q} : draft'[p] = draft[p]
    BY <1>1 DEF PromotionStep, BeginPromotion, LockRaises, ValidatePhase, ReadDestination,
                TakeSnapshot, FinishPromotion, FailPromotion, QueueWork, CrashPromoter,
                PromotingTypeOK
  <2>3. /\ stage'[q] # "record"
        /\ \A p \in Procs \ {q} : stage'[p] = stage[p]
    BY <2>1 DEF PromotingTypeOK
  <2>4. BackedDraft(q)'
    BY <2>3 DEF BackedDraft
  <2> QED BY <2>2, <2>3, <2>4, OneBacks
<1>2. ASSUME UNCHANGED <<dest, stage, draft, records>> PROVE Backed'
  BY <1>2 DEF Backed, BackedDraft
<1>3. ASSUME NEW q \in Procs, LockWork(q) \/ StartOther(q) PROVE Backed'
  BY <1>3, <1>2 DEF LockWork, StartOther, engineVars
<1>4. ASSUME NEW q \in Procs PROVE ~RollbackStep(q)
  <2>1. stage[q] \notin {"undo", "lookup"}
    BY DEF PromotingTypeOK
  <2> QED BY <2>1 DEF RollbackStep, BeginRollback, RemoveFromDestination, RemoveFails,
                    FindRolledBack, RollbackLosesCandidate, MayStart, OnlyPromotions
<1>5. ASSUME NEW d \in Dests PROVE ~EditByHand(d)
  BY DEF EditByHand, PromotingTypeOK, OnlyPromotions
<1>6. CASE ClockTick \/ (\E q \in Procs : EndCommand(q)) \/ UNCHANGED allVars
  BY <1>6, <1>2 DEF ClockTick, EndCommand, engineVars, allVars
<1> QED BY <1>1, <1>3, <1>4, <1>5, <1>6, ReplaceBacks, RecordBacks DEF EngineNext, PromotionStep

BackedUntilRobbed == robbed \/ Backed

LEMMA BackedInvariant ==
    ASSUME OnlyPromotions PROVE EngineSpec => []BackedUntilRobbed
<1>1. EngineInit => BackedUntilRobbed
  BY DEF EngineInit, BackedUntilRobbed, Backed, BackedDraft
<1>2. EngineSafe /\ BackedUntilRobbed /\ [EngineNext]_allVars => BackedUntilRobbed'
  BY UnrobbedStep, EngineSafeStep, BackedStep DEF BackedUntilRobbed
<1> QED BY <1>1, <1>2, EngineSafeInvariant, PTL DEF EngineSpec

\* In the same setting, and until a waiter unlinks the lock of one at work, the block of
\* every recorded promotion is in its destination (executor.py promote_one replaces the
\* destination, then appends the record).
THEOREM PromotionsKeepBlocks ==
    ASSUME OnlyPromotions PROVE EngineSpec => []BlocksUntilRobbed
<1>1. BackedUntilRobbed => BlocksUntilRobbed
  BY DEF BackedUntilRobbed, BlocksUntilRobbed, Backed, RecordedBlockStays
<1> QED BY <1>1, BackedInvariant, PTL
=============================================================================
