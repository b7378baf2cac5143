------------------------ MODULE DestinationLockProofs ------------------------
(***************************************************************************)
(* Proofs about the destination lock for every set of slots, processes and *)
(* users, timeout, clock bound and destination:                            *)
(*   - its type invariant;                                                 *)
(*   - that live processes exclude each other until a waiter unlinks the   *)
(*     lock of one at work, and what that waiter has read before;          *)
(*   - two settings in which no waiter ever does;                          *)
(*   - that an abandoned lock is taken, when the local time zone is UTC or *)
(*     lies east of it.                                                    *)
(***************************************************************************)
EXTENDS DestinationLock, TLAPS

\* The whole state of the lock.
lvars == <<lockVars, dead>>

LEMMA LockOfFacts ==
    ASSUME LockTypeOK, NEW p \in Procs, NEW b \in BOOLEAN
    PROVE  /\ LockOf(p, b) \in LockRecords
           /\ LockOf(p, b) # None
           /\ LockOf(p, b).owner = p
           /\ LockOf(p, b).run = runs[p]
<1>1. /\ LockOf(p, b) \in LockRecords
      /\ LockOf(p, b).owner = p
      /\ LockOf(p, b).run = runs[p]
  BY DEF LockTypeOK, LockRecords, LockOf
<1> QED BY <1>1, LockConstants

\* One case per action of the lock.
LEMMA LockCases ==
    ASSUME [LockNext]_lvars
    PROVE  \/ \E p \in Procs :
                \/ \E d \in Dests : AcquireLock(p, d)
                \/ OpenLock(p) \/ WritePayload(p) \/ BreakLock(p) \/ ReleaseLock(p)
                \/ ReadPayload(p) \/ JudgeAge(p) \/ SignalOwner(p)
                \/ OpenFails(p) \/ PayloadError(p) \/ WaitTimesOut(p) \/ WaitSleeps(p)
                \/ GiveUp(p) \/ EndProcess(p) \/ Crash(p)
           \/ Tick
           \/ UNCHANGED lvars
BY DEF LockNext, AcquireStep

LEMMA LockTypeStep ==
    ASSUME LockTypeOK, [LockNext]_lvars PROVE LockTypeOK'
<1> USE WorkspaceConstants, LockConstants
        DEF LockTypeOK, LockSteps, lockVars, At, Goto, Alive, Forget, Leave
<1>0. \A l \in LockRecords : l.owner \in Procs /\ l.run \in Nat
  BY DEF LockRecords
<1>1. ASSUME NEW p \in Procs, NEW d \in Dests, AcquireLock(p, d)
      PROVE  LockTypeOK'
  BY <1>1 DEF AcquireLock
<1>2. ASSUME NEW p \in Procs, OpenLock(p)
      PROVE  LockTypeOK'
  <2>1. want[p] \in Dests
    BY <1>2 DEF OpenLock
  <2>2. PICK l \in LockRecords : l = LockOf(p, FALSE) /\ l.owner = p /\ l.run = runs[p]
    BY LockOfFacts
  <2>3. lockFile' = [lockFile EXCEPT ![want[p]] = l] /\ runs[p] <= runs[p]
    BY <1>2, <2>2 DEF OpenLock
  <2>4. \A d \in Dests : lockFile'[d] # None => lockFile'[d].run <= runs[lockFile'[d].owner]
    BY <2>1, <2>2, <2>3
  <2>5. lockFile' \in [Dests -> LockRecords \cup {None}]
    BY <2>1, <2>2, <2>3
  <2> QED BY <1>2, <2>4, <2>5 DEF OpenLock
<1>3. ASSUME NEW p \in Procs, WritePayload(p)
      PROVE  LockTypeOK'
  <2>1. want[p] \in Dests
    BY <1>3 DEF WritePayload
  <2>2. PICK l \in LockRecords : l = LockOf(p, TRUE) /\ l.owner = p /\ l.run = runs[p]
    BY LockOfFacts
  <2>3. lockFile' = lockFile \/ lockFile' = [lockFile EXCEPT ![want[p]] = l]
    BY <1>3, <2>2 DEF WritePayload
  <2>4. \A d \in Dests : lockFile'[d] # None => lockFile'[d].run <= runs[lockFile'[d].owner]
    <3>1. l.run <= runs[l.owner]
      <4>1. runs[p] \in Int /\ runs[p] <= runs[p]
        OBVIOUS
      <4>2. l.run = runs[p] /\ runs[l.owner] = runs[p]
        BY <2>2
      <4> QED BY <4>1, <4>2
    <3>2. CASE lockFile' = lockFile
      BY <3>2
    <3>3. CASE lockFile' = [lockFile EXCEPT ![want[p]] = l]
      BY <2>1, <3>1, <3>3
    <3> QED BY <2>3, <3>2, <3>3
  <2>5. lockFile' \in [Dests -> LockRecords \cup {None}]
    <3>1. lockFile \in [Dests -> LockRecords \cup {None}]
      OBVIOUS
    <3> HIDE DEF LockTypeOK
    <3> QED BY <2>1, <2>2, <2>3, <3>1
  <2> QED BY <1>3, <2>4, <2>5 DEF WritePayload
<1>4. ASSUME NEW p \in Procs, ReadPayload(p)
      PROVE  LockTypeOK'
  BY <1>4 DEF ReadPayload
<1>5. ASSUME NEW p \in Procs, JudgeAge(p) \/ SignalOwner(p)
      PROVE  LockTypeOK'
  BY <1>5 DEF JudgeAge, SignalOwner
<1>6. ASSUME NEW p \in Procs, BreakLock(p)
      PROVE  LockTypeOK'
  <2>1. robbed' \in BOOLEAN
    BY <1>6 DEF BreakLock
  <2> QED BY <1>6, <2>1 DEF BreakLock
<1>7. ASSUME NEW p \in Procs,
             OpenFails(p) \/ WaitTimesOut(p) \/ WaitSleeps(p) \/ PayloadError(p)
      PROVE  LockTypeOK'
  BY <1>7 DEF OpenFails, WaitTimesOut, WaitSleeps, PayloadError
<1>8. ASSUME NEW p \in Procs, ReleaseLock(p)
      PROVE  LockTypeOK'
  BY <1>8 DEF ReleaseLock
<1>9. ASSUME NEW p \in Procs, GiveUp(p)
      PROVE  LockTypeOK'
  BY <1>9 DEF GiveUp
<1>10. ASSUME NEW p \in Procs, EndProcess(p)
       PROVE  LockTypeOK'
  <2>1. runs' \in [Procs -> 0..MaxRuns] /\ \A q \in Procs : runs[q] <= runs'[q]
    BY <1>10 DEF EndProcess
  <2>2. \A d \in Dests : lockFile[d] # None => lockFile[d].run <= runs'[lockFile[d].owner]
    BY <1>0, <2>1
  <2> QED BY <1>10, <2>1, <2>2 DEF EndProcess
<1>11. ASSUME NEW p \in Procs, Crash(p)
       PROVE  LockTypeOK'
  BY <1>11 DEF Crash
<1>12. CASE Tick
  BY <1>12 DEF Tick
<1>13. CASE UNCHANGED lvars
  BY <1>13 DEF lvars
<1> QED BY <1>1, <1>2, <1>3, <1>4, <1>5, <1>6, <1>7, <1>8, <1>9, <1>10, <1>11,
        <1>12, <1>13, LockCases

\* The clock, the runs of a slot, the dead and the robbery only grow.
LEMMA LockGrows ==
    ASSUME LockTypeOK, [LockNext]_lvars
    PROVE  /\ now <= now' /\ now \in Int /\ now' \in Int
           /\ dead \subseteq dead'
           /\ robbed => robbed'
           /\ \A q \in Procs : runs[q] <= runs'[q] /\ runs[q] \in Int /\ runs'[q] \in Int
<1> USE LockConstants
<1>1. now \in Int /\ \A q \in Procs : runs[q] \in Int
  BY DEF LockTypeOK
<1>2. ASSUME NEW p \in Procs, EndProcess(p)
      PROVE  /\ now' = now /\ dead' = dead /\ robbed' = robbed
             /\ \A q \in Procs : runs'[q] \in Int /\ runs[q] <= runs'[q]
  <2>1. \A q \in Procs : runs'[q] = IF q = p THEN runs[q] + 1 ELSE runs[q]
    BY <1>2 DEF EndProcess, LockTypeOK
  <2> QED BY <1>1, <1>2, <2>1 DEF EndProcess
<1>3. ASSUME NEW p \in Procs, BreakLock(p)
      PROVE  now' = now /\ runs' = runs /\ dead' = dead /\ (robbed => robbed')
  BY <1>3 DEF BreakLock
<1>4. ASSUME NEW p \in Procs, Crash(p)
      PROVE  now' = now /\ runs' = runs /\ dead \subseteq dead' /\ robbed' = robbed
  BY <1>4 DEF Crash, lockVars
<1>5. CASE Tick
  BY <1>1, <1>5 DEF Tick
<1>6. ASSUME NEW p \in Procs,
             \/ \E d \in Dests : AcquireLock(p, d)
             \/ OpenLock(p) \/ WritePayload(p) \/ ReleaseLock(p)
             \/ ReadPayload(p) \/ JudgeAge(p) \/ SignalOwner(p)
             \/ OpenFails(p) \/ PayloadError(p) \/ WaitTimesOut(p) \/ WaitSleeps(p)
             \/ GiveUp(p)
      PROVE  now' = now /\ runs' = runs /\ dead' = dead /\ robbed' = robbed
  BY <1>6 DEF AcquireLock, OpenLock, WritePayload, ReleaseLock, ReadPayload, JudgeAge,
       SignalOwner, OpenFails, PayloadError, WaitTimesOut, WaitSleeps, GiveUp
<1>7. CASE UNCHANGED lvars
  BY <1>1, <1>7 DEF lvars, lockVars
<1> QED BY <1>1, <1>2, <1>3, <1>4, <1>5, <1>6, <1>7, LockCases

\* The lock's variables keep their types: every waiter has a destination, only
\* a process that may be killed dies, and no lock file names a process that has yet
\* to start (executor.py acquire_lock).
THEOREM LockTypeCorrect == LockSpec => []LockTypeOK
<1> USE WorkspaceConstants, LockConstants
<1>1. LockInit => LockTypeOK
  <2> SUFFICES ASSUME LockInit PROVE LockTypeOK
    OBVIOUS
  <2>1. robbed \in BOOLEAN
    BY DEF LockInit
  <2>2. \A p \in Procs : lockPc[p] = "idle" /\ seen[p] = None
    BY DEF LockInit
  <2> QED BY <2>1, <2>2 DEF LockInit, LockTypeOK, LockSteps
<1>2. LockTypeOK /\ [LockNext]_lvars => LockTypeOK'
  BY LockTypeStep
<1> QED BY <1>1, <1>2, PTL DEF LockSpec, lvars

-----------------------------------------------------------------------------
\* Until a waiter robs someone, the file of a destination is the one that the live
\* process past O_EXCL has put there.
OwnsIts(p) ==
    /\ lockPc[p] = "payload" => lockFile[want[p]] = LockOf(p, FALSE)
    /\ lockPc[p] = "held"    => lockFile[want[p]] = LockOf(p, TRUE)

Owns == robbed \/ \A p \in Procs : Alive(p) => OwnsIts(p)

\* What p has found out since it read the payload stays true, whatever others do: the
\* lock it has read stays expired, and the process that wrote it gone.
Learnt(p, l) ==
    /\ l.run <= runs[l.owner]
    /\ lockPc[p] \in {"signal", "break"} => LockAge(l) > Timeout
    /\ lockPc[p] = "break" =>
         l.owner \in dead \/ l.run < runs[l.owner] \/ l.owner \notin CanSignal[p]

SeenEnded == \A p \in Procs : seen[p] # None => Learnt(p, seen[p])

LEMMA OwnsStep ==
    ASSUME LockTypeOK, Owns, [LockNext]_lvars
    PROVE  Owns'
<1> USE WorkspaceConstants, LockConstants DEF At, Goto, Alive, Forget, Leave
<1> SUFFICES ASSUME ~robbed', NEW q \in Procs, Alive(q)'
             PROVE  OwnsIts(q)'
  BY DEF Owns
<1>1. ~robbed /\ Alive(q)
  BY LockGrows
<1>2. \A p \in Procs : Alive(p) => OwnsIts(p)
  BY <1>1 DEF Owns
<1>3. \A p \in Procs, b \in BOOLEAN : LockOf(p, b) # None /\ LockOf(p, b).owner = p
  BY LockOfFacts
<1>4. /\ \A p \in Procs : lockPc[p] # "idle" => want[p] \in Dests
      /\ lockPc \in [Procs -> LockSteps] /\ want \in [Procs -> Dests \cup {None}]
      /\ started \in [Procs -> 0..MaxTime] /\ runs \in [Procs -> 0..MaxRuns]
      /\ lockFile \in [Dests -> LockRecords \cup {None}]
  BY DEF LockTypeOK
\* Live processes past O_EXCL have files of their own.
<1>5. ASSUME NEW p \in Procs, Alive(p), lockPc[p] \in {"payload", "held"},
             lockPc[q] \in {"payload", "held"}, want[p] = want[q]
      PROVE  p = q
  <2>1. PICK b \in BOOLEAN : lockFile[want[p]] = LockOf(p, b)
    BY <1>2, <1>5 DEF OwnsIts
  <2>2. PICK b2 \in BOOLEAN : lockFile[want[q]] = LockOf(q, b2)
    BY <1>1, <1>2, <1>5 DEF OwnsIts
  <2> QED BY <1>3, <1>5, <2>1, <2>2
\* A step that leaves q and its file alone.
<1>6. ASSUME lockPc'[q] = lockPc[q], want'[q] = want[q],
             started'[q] = started[q], runs'[q] = runs[q],
             lockPc[q] \in {"payload", "held"} => lockFile'[want[q]] = lockFile[want[q]]
      PROVE  OwnsIts(q)'
  BY <1>1, <1>2, <1>6 DEF OwnsIts, LockOf
<1>7. ASSUME lockPc'[q] \notin {"payload", "held"}
      PROVE  OwnsIts(q)'
  BY <1>7 DEF OwnsIts
<1>8. ASSUME NEW p \in Procs, NEW d \in Dests, AcquireLock(p, d)
      PROVE  OwnsIts(q)'
  <2>1. CASE q = p
    BY <1>4, <1>7, <1>8, <2>1 DEF AcquireLock
  <2>2. CASE q # p
    BY <1>4, <1>6, <1>8, <2>2 DEF AcquireLock
  <2> QED BY <2>1, <2>2
<1>9. ASSUME NEW p \in Procs, OpenLock(p)
      PROVE  OwnsIts(q)'
  <2>1. CASE q = p
    <3>1. /\ lockPc'[q] = "payload" /\ want' = want
          /\ lockFile'[want[q]] = LockOf(q, FALSE)
      BY <1>4, <1>9, <2>1 DEF OpenLock
    <3>2. LockOf(q, FALSE)' = LockOf(q, FALSE)
      BY <1>9 DEF OpenLock, LockOf
    <3> QED BY <3>1, <3>2 DEF OwnsIts
  <2>2. CASE q # p
    <3>1. lockPc[q] \in {"payload", "held"} => lockFile[want[q]] # None
      BY <1>1, <1>2, <1>3 DEF OwnsIts
    <3>2. lockPc[q] \in {"payload", "held"} => lockFile'[want[q]] = lockFile[want[q]]
      BY <1>4, <1>9, <3>1 DEF OpenLock
    <3> QED BY <1>4, <1>6, <1>9, <2>2, <3>2 DEF OpenLock
  <2> QED BY <2>1, <2>2
<1>10. ASSUME NEW p \in Procs, WritePayload(p)
       PROVE  OwnsIts(q)'
  <2>1. CASE q = p
    <3>1. lockFile[want[q]] = LockOf(q, FALSE)
      BY <1>1, <1>2, <1>10, <2>1 DEF WritePayload, OwnsIts
    <3>2. /\ lockPc'[q] = "held" /\ want' = want
          /\ lockFile'[want[q]] = LockOf(q, TRUE)
      BY <1>4, <1>10, <2>1, <3>1 DEF WritePayload
    <3>3. LockOf(q, TRUE)' = LockOf(q, TRUE)
      BY <1>10 DEF WritePayload, LockOf
    <3> QED BY <3>2, <3>3 DEF OwnsIts
  <2>2. CASE q # p
    <3>1. lockPc[q] \in {"payload", "held"} => want[q] # want[p]
      BY <1>5, <1>10, <2>2 DEF WritePayload
    <3> QED BY <1>4, <1>6, <1>10, <2>2, <3>1 DEF WritePayload
  <2> QED BY <2>1, <2>2
\* Nobody is at work where p unlinks.
<1>11. ASSUME NEW p \in Procs, BreakLock(p)
       PROVE  OwnsIts(q)'
  <2>1. CASE q = p
    BY <1>4, <1>7, <1>11, <2>1 DEF BreakLock
  <2>2. CASE q # p
    <3>1. lockPc[q] \in {"payload", "held"} => want[q] # want[p]
      BY <1>1, <1>11 DEF BreakLock, AtWork
    <3> QED BY <1>4, <1>6, <1>11, <2>2, <3>1 DEF BreakLock
  <2> QED BY <2>1, <2>2
<1>12. ASSUME NEW p \in Procs, ReleaseLock(p)
       PROVE  OwnsIts(q)'
  <2>1. CASE q = p
    BY <1>4, <1>7, <1>12, <2>1 DEF ReleaseLock
  <2>2. CASE q # p
    <3>1. lockPc[q] \in {"payload", "held"} => want[q] # want[p]
      BY <1>5, <1>12, <2>2 DEF ReleaseLock
    <3> QED BY <1>4, <1>6, <1>12, <2>2, <3>1 DEF ReleaseLock
  <2> QED BY <2>1, <2>2
<1>13. ASSUME NEW p \in Procs,
              \/ OpenFails(p) \/ ReadPayload(p) \/ JudgeAge(p) \/ SignalOwner(p)
              \/ PayloadError(p) \/ WaitTimesOut(p) \/ WaitSleeps(p)
              \/ GiveUp(p) \/ EndProcess(p)
       PROVE  OwnsIts(q)'
  <2>1. CASE q = p
    <3>1. lockPc'[q] \notin {"payload", "held"}
      BY <1>4, <1>13, <2>1 DEF OpenFails, ReadPayload, JudgeAge, SignalOwner, PayloadError,
           WaitTimesOut, WaitSleeps, GiveUp, EndProcess
    <3> QED BY <1>7, <3>1
  <2>2. CASE q # p
    <3>1. /\ lockPc'[q] = lockPc[q] /\ want'[q] = want[q] /\ lockFile' = lockFile
          /\ started'[q] = started[q] /\ runs'[q] = runs[q]
      BY <1>4, <1>13, <2>2 DEF OpenFails, ReadPayload, JudgeAge, SignalOwner, PayloadError,
           WaitTimesOut, WaitSleeps, GiveUp, EndProcess
    <3> QED BY <1>6, <3>1
  <2> QED BY <2>1, <2>2
<1>14. ASSUME NEW p \in Procs, Crash(p)
       PROVE  OwnsIts(q)'
  BY <1>6, <1>14 DEF Crash, lockVars
<1>15. CASE Tick \/ UNCHANGED lvars
  BY <1>6, <1>15 DEF Tick, lvars, lockVars
<1> QED BY <1>8, <1>9, <1>10, <1>11, <1>12, <1>13, <1>14, <1>15, LockCases

LEMMA SeenEndedStep ==
    ASSUME LockTypeOK, SeenEnded, [LockNext]_lvars
    PROVE  SeenEnded'
<1> USE WorkspaceConstants, LockConstants DEF At, Goto, Alive, Forget, Leave
<1> SUFFICES ASSUME NEW q \in Procs, seen'[q] # None
             PROVE  Learnt(q, seen[q])'
  BY DEF SeenEnded
<1>1. \A l \in LockRecords : l.owner \in Procs /\ l.run \in Nat /\ l.created \in Nat
  BY DEF LockRecords
<1>2. /\ lockPc \in [Procs -> LockSteps] /\ want \in [Procs -> Dests \cup {None}]
      /\ lockFile \in [Dests -> LockRecords \cup {None}]
      /\ seen \in [Procs -> LockRecords \cup {None}]
      /\ lockPc[q] # "idle" => want[q] \in Dests
      /\ \A d \in Dests : lockFile[d] # None => lockFile[d].run <= runs[lockFile[d].owner]
  BY DEF LockTypeOK
\* What was known before the step is known after it.
<1>3. ASSUME NEW l \in LockRecords, Learnt(q, l), lockPc'[q] = lockPc[q]
      PROVE  Learnt(q, l)'
  <2>1. l.owner \in Procs /\ l.run \in Nat /\ l.created \in Nat
    BY <1>1
  <2>2. /\ now <= now' /\ now \in Int /\ now' \in Int /\ dead \subseteq dead'
        /\ runs[l.owner] <= runs'[l.owner] /\ runs[l.owner] \in Int /\ runs'[l.owner] \in Int
    BY <2>1, LockGrows
  <2>3. LockAge(l) > Timeout => LockAge(l)' > Timeout
    BY <2>1, <2>2 DEF LockAge
  <2> QED BY <1>3, <2>1, <2>2, <2>3 DEF Learnt
<1>4. CASE seen'[q] = seen[q] /\ lockPc'[q] = lockPc[q]
  <2>1. PICK l \in LockRecords : l = seen[q] /\ l = seen'[q]
    BY <1>2, <1>4
  <2>2. Learnt(q, l)
    BY <2>1 DEF SeenEnded
  <2>3. Learnt(q, l)'
    BY <1>3, <1>4, <2>2
  <2> QED BY <2>1, <2>3 DEF Learnt, LockAge
<1>5. ASSUME NEW p \in Procs, ReadPayload(p), q = p
      PROVE  Learnt(q, seen[q])'
  <2>1. /\ seen'[q] = lockFile[want[q]] /\ want[q] \in Dests /\ lockPc'[q] = "age"
        /\ runs' = runs
    BY <1>2, <1>5 DEF ReadPayload
  <2> QED BY <1>2, <2>1 DEF Learnt
<1>6. ASSUME NEW p \in Procs, JudgeAge(p), q = p
      PROVE  Learnt(q, seen[q])'
  <2>1. /\ seen'[q] = seen[q] /\ lockPc'[q] = "signal" /\ runs' = runs /\ now' = now
        /\ LockAge(seen[q]) > Timeout
    BY <1>2, <1>6 DEF JudgeAge
  <2> QED BY <2>1 DEF Learnt, SeenEnded, LockAge
<1>7. ASSUME NEW p \in Procs, SignalOwner(p), q = p
      PROVE  Learnt(q, seen[q])'
  <2>1. /\ seen'[q] = seen[q] /\ lockPc[q] = "signal" /\ lockPc'[q] = "break"
        /\ runs' = runs /\ now' = now /\ dead' = dead /\ ~ProcessExists(q, seen[q])
    BY <1>2, <1>7 DEF SignalOwner
  <2>2. /\ seen[q].run <= runs[seen[q].owner] /\ LockAge(seen[q]) > Timeout
        /\ seen[q].run \in Int /\ runs[seen[q].owner] \in Int
    BY <1>1, <1>2, <2>1, LockGrows DEF SeenEnded, Learnt
  <2>3. \/ seen[q].owner \in dead \/ seen[q].run < runs[seen[q].owner]
        \/ seen[q].owner \notin CanSignal[q]
    BY <2>1, <2>2 DEF ProcessExists, Lives
  <2> QED BY <2>1, <2>2, <2>3 DEF Learnt, LockAge
<1>8. ASSUME NEW p \in Procs, BreakLock(p), q = p
      PROVE  FALSE
  BY <1>2, <1>8 DEF BreakLock
\* Whoever takes one of the other steps has read nothing.
<1>9. ASSUME NEW p \in Procs, q = p,
             \/ \E d \in Dests : AcquireLock(p, d)
             \/ OpenLock(p) \/ WritePayload(p) \/ ReleaseLock(p)
             \/ OpenFails(p) \/ PayloadError(p) \/ WaitTimesOut(p) \/ WaitSleeps(p)
             \/ GiveUp(p) \/ EndProcess(p)
      PROVE  FALSE
  <2>1. lockPc[q] \notin {"age", "signal", "break"} /\ seen' = seen
    BY <1>9 DEF AcquireLock, OpenLock, WritePayload, ReleaseLock, OpenFails, PayloadError,
         WaitTimesOut, WaitSleeps, GiveUp, EndProcess
  <2> QED BY <2>1 DEF LockTypeOK
<1>10. ASSUME NEW p \in Procs, q # p,
              \/ \E d \in Dests : AcquireLock(p, d)
              \/ OpenLock(p) \/ WritePayload(p) \/ BreakLock(p) \/ ReleaseLock(p)
              \/ ReadPayload(p) \/ JudgeAge(p) \/ SignalOwner(p)
              \/ OpenFails(p) \/ PayloadError(p) \/ WaitTimesOut(p) \/ WaitSleeps(p)
              \/ GiveUp(p) \/ EndProcess(p)
       PROVE  seen'[q] = seen[q] /\ lockPc'[q] = lockPc[q]
  BY <1>2, <1>10 DEF AcquireLock, OpenLock, WritePayload, BreakLock, ReleaseLock, ReadPayload,
       JudgeAge, SignalOwner, OpenFails, PayloadError, WaitTimesOut, WaitSleeps, GiveUp,
       EndProcess
<1>11. ASSUME NEW p \in Procs, Crash(p)
       PROVE  seen'[q] = seen[q] /\ lockPc'[q] = lockPc[q]
  BY <1>11 DEF Crash, lockVars
<1>12. CASE Tick \/ UNCHANGED lvars
  BY <1>4, <1>12 DEF Tick, lvars, lockVars
<1> QED BY <1>4, <1>5, <1>6, <1>7, <1>8, <1>9, <1>10, <1>11, <1>12, LockCases

LEMMA LockInvariant == LockSpec => [](LockTypeOK /\ Owns /\ SeenEnded)
<1>1. LockInit => Owns /\ SeenEnded
  BY DEF LockInit, Owns, OwnsIts, SeenEnded
<1>2. LockTypeOK /\ Owns /\ [LockNext]_lvars => Owns'
  BY OwnsStep
<1>3. LockTypeOK /\ SeenEnded /\ [LockNext]_lvars => SeenEnded'
  BY SeenEndedStep
<1>4. LockSpec => []LockTypeOK
  BY LockTypeCorrect
<1> QED BY <1>1, <1>2, <1>3, <1>4, PTL DEF LockSpec, lvars

\* For any number of slots, processes and users, whoever is killed and whatever the
\* clock shows: as long as no waiter's unlink has met the lock of a process at work, two
\* live processes never hold the lock of one destination together (executor.py
\* acquire_lock, release_lock).
THEOREM ExclusiveUntilRobbedHolds == LockSpec => []ExclusiveUntilRobbed
<1>1. ASSUME LockTypeOK, Owns, ~robbed, NEW p \in Procs, NEW q \in Procs, NEW d \in Dests,
             Holds(p, d), Holds(q, d)
      PROVE  p = q
  <2>1. lockFile[d] = LockOf(p, TRUE) /\ lockFile[d] = LockOf(q, TRUE)
    BY <1>1 DEF Owns, OwnsIts, Holds, At
  <2>2. LockOf(p, TRUE).owner = p /\ LockOf(q, TRUE).owner = q
    BY <1>1, LockOfFacts
  <2> QED BY <2>1, <2>2
<1>2. LockTypeOK /\ Owns => ExclusiveUntilRobbed
  BY <1>1 DEF ExclusiveUntilRobbed, MutualExclusion
<1> QED BY <1>2, LockInvariant, PTL

\* In every setting too, the only other way in which a live process loses its lock file
\* is the unlink of a waiter that has read an expired lock whose process it does not
\* find: this one's, when the waiter may not signal it, or else an earlier one's
\* (executor.py can_break_lock, process_exists).
THEOREM LiveLockKeptHolds == LockSpec => LiveLockKept
<1> USE WorkspaceConstants, LockConstants
<1> DEFINE Kept == \A d \in Dests :
         LET l == lockFile[d] IN
         l # None /\ Lives(l) /\ lockFile'[d] # l
           => \/ lockFile'[d] = LockOf(l.owner, TRUE)
              \/ lockPc[l.owner] = "held" /\ lockPc'[l.owner] = "idle"
              \/ \E p \in Procs : /\ lockPc[p] = "break" /\ lockPc'[p] = "open"
                                  /\ want[p] = d /\ Misled(p)
                                  /\ seen[p] = l => l.owner \notin CanSignal[p]
              \/ robbed
<1>1. ASSUME LockTypeOK, Owns, SeenEnded, [LockNext]_lvars
      PROVE  [Kept]_lvars
  <2> USE <1>1 DEF LockTypeOK, LockSteps, lockVars, At, Goto, Alive, Forget, Leave
  <2> SUFFICES ASSUME NEW d \in Dests, lockFile[d] # None, Lives(lockFile[d]),
                      lockFile'[d] # lockFile[d], ~robbed
               PROVE  \/ lockFile'[d] = LockOf(lockFile[d].owner, TRUE)
                      \/ /\ lockPc[lockFile[d].owner] = "held"
                         /\ lockPc'[lockFile[d].owner] = "idle"
                      \/ \E p \in Procs :
                           /\ lockPc[p] = "break" /\ lockPc'[p] = "open"
                           /\ want[p] = d /\ Misled(p)
                           /\ seen[p] = lockFile[d] => lockFile[d].owner \notin CanSignal[p]
    OBVIOUS
  <2>1. ASSUME NEW p \in Procs, OpenLock(p)
        PROVE  FALSE
    BY <2>1 DEF OpenLock
  <2>2. ASSUME NEW p \in Procs, WritePayload(p)
        PROVE  lockFile'[d] = LockOf(lockFile[d].owner, TRUE)
    <3>1. lockFile[d] = LockOf(p, FALSE) /\ lockFile'[d] = LockOf(p, TRUE)
      BY <2>2 DEF WritePayload
    <3>2. lockFile[d].owner = p
      BY <3>1, LockOfFacts
    <3> QED BY <3>1, <3>2
  <2>3. ASSUME NEW p \in Procs, BreakLock(p)
        PROVE  /\ lockPc[p] = "break" /\ lockPc'[p] = "open"
               /\ want[p] = d /\ Misled(p)
               /\ seen[p] = lockFile[d] => lockFile[d].owner \notin CanSignal[p]
    <3>1. lockPc[p] = "break" /\ want[p] = d /\ lockPc'[p] = "open" /\ seen[p] # None
      BY <2>3 DEF BreakLock
    <3>2. seen[p].owner \in Procs /\ seen[p].run \in Nat /\ runs[seen[p].owner] \in Nat
      BY <3>1 DEF LockRecords
    <3>3. /\ LockAge(seen[p]) > Timeout
          /\ \/ seen[p].owner \in dead \/ seen[p].run < runs[seen[p].owner]
             \/ seen[p].owner \notin CanSignal[p]
      BY <3>1 DEF SeenEnded, Learnt
    <3>4. ~Lives(seen[p]) \/ seen[p].owner \notin CanSignal[p]
      BY <3>2, <3>3 DEF Lives
    <3> QED BY <3>1, <3>3, <3>4 DEF Misled, ProcessExists
  <2>4. ASSUME NEW p \in Procs, ReleaseLock(p)
        PROVE  lockPc[lockFile[d].owner] = "held" /\ lockPc'[lockFile[d].owner] = "idle"
    <3>1. d = want[p] /\ lockFile[d] = LockOf(p, TRUE)
      BY <2>4 DEF ReleaseLock, Owns, OwnsIts
    <3>2. lockFile[d].owner = p
      BY <3>1, LockOfFacts
    <3> QED BY <2>4, <3>2 DEF ReleaseLock
  <2>5. ASSUME NEW p \in Procs,
               \/ \E e \in Dests : AcquireLock(p, e)
               \/ ReadPayload(p) \/ JudgeAge(p) \/ SignalOwner(p)
               \/ OpenFails(p) \/ PayloadError(p) \/ WaitTimesOut(p) \/ WaitSleeps(p)
               \/ GiveUp(p) \/ EndProcess(p) \/ Crash(p)
        PROVE  FALSE
    BY <2>5 DEF AcquireLock, OpenFails, ReadPayload, JudgeAge, SignalOwner, WaitTimesOut,
                WaitSleeps, PayloadError, GiveUp, EndProcess, Crash
  <2>6. CASE Tick \/ UNCHANGED lvars
    BY <2>6 DEF Tick, lvars
  <2> QED BY <1>1, <2>1, <2>2, <2>3, <2>4, <2>5, <2>6, LockCases
<1> QED BY <1>1, LockInvariant, PTL DEF LockSpec, LiveLockKept, lvars

-----------------------------------------------------------------------------
\* Two settings in which no live process is ever robbed.  Either every slot is one
\* user's and runs one process, and nobody is killed or there are two of them; or no
\* lock ever looks older than the timeout.
LocksAreSafe ==
    \/ /\ \A p \in Procs : CanSignal[p] = Procs
       /\ MaxRuns = 0
       /\ Mortal = {} \/ \A p, q, r \in Procs : p = q \/ p = r \/ q = r
    \/ MaxTime + ZoneOffset <= Timeout

\* In these settings the waiter that unlinks is the only one left, or there is none.
\* With a third process, or a second one in a slot, the code robs (executor.py
\* acquire_lock, can_break_lock).
THEOREM NeverRobbed ==
    ASSUME LocksAreSafe PROVE LockSpec => []LiveLockUnbroken
<1> USE WorkspaceConstants, LockConstants
<1>1. LockInit => ~robbed
  BY DEF LockInit
<1>2. ASSUME LockTypeOK, SeenEnded, ~robbed, [LockNext]_lvars
      PROVE  ~robbed'
  <2> USE <1>2 DEF LockTypeOK, LockSteps, lockVars, At, Goto, Alive, Forget, Leave
  <2>1. ASSUME NEW p \in Procs, BreakLock(p)
        PROVE  ~AtWork(want[p])
    <3>1. lockPc[p] = "break" /\ Alive(p) /\ seen[p] \in LockRecords /\ seen[p] # None
      BY <2>1 DEF BreakLock
    <3>2. LockAge(seen[p]) > Timeout
      BY <3>1 DEF SeenEnded, Learnt
    <3>3. LockAge(seen[p]) <= MaxTime + ZoneOffset
      BY <3>1 DEF LockAge, LockRecords
    <3>4. /\ \A q \in Procs : CanSignal[q] = Procs
          /\ MaxRuns = 0
          /\ Mortal = {} \/ \A q, r, u \in Procs : q = r \/ q = u \/ r = u
      BY <3>1, <3>2, <3>3 DEF LocksAreSafe, LockAge, LockRecords
    <3>5. seen[p].owner \in Procs /\ seen[p].run \in Nat /\ runs[seen[p].owner] = 0
      BY <3>1, <3>4 DEF LockRecords
    <3>6. seen[p].owner \in dead
      BY <3>1, <3>4, <3>5 DEF SeenEnded, Learnt
    <3>7. \A q \in Procs : q = p \/ q = seen[p].owner
      BY <3>1, <3>4, <3>5, <3>6
    <3> QED BY <3>1, <3>6, <3>7 DEF AtWork
  <2>2. ASSUME NEW p \in Procs, BreakLock(p)
        PROVE  ~robbed'
    BY <2>1, <2>2 DEF BreakLock
  <2> QED BY <2>2, LockCases
       DEF AcquireLock, OpenLock, OpenFails, WritePayload, PayloadError, ReadPayload,
           JudgeAge, SignalOwner, WaitTimesOut, WaitSleeps, ReleaseLock, GiveUp,
           EndProcess, Crash, Tick, lvars
<1> QED BY <1>1, <1>2, LockInvariant, PTL DEF LockSpec, LiveLockUnbroken, lvars

-----------------------------------------------------------------------------
\* What makes AbandonedLockTaken inductive: a lock seen as abandoned stays the lock of
\* an ended owner, older than the timeout; and whoever leaves can_break_lock without
\* breaking has looked at another file, which cannot become the old one.
AbandonedStaysSo ==
    \A p \in Procs : abandoned[p] # None =>
      LET l == abandoned[p] IN
      /\ l.owner \in dead \/ l.run < runs[l.owner]
      /\ l.complete
      /\ now - l.created > Timeout
      /\ lockPc[p] = "check" => lockFile[want[p]] # l
      /\ lockPc[p] \in {"age", "signal"} => lockFile[want[p]] # l \/ seen[p] = l

LEMMA AbandonedStaysSoStep ==
    ASSUME ZoneOffset >= 0, LockTypeOK, AbandonedStaysSo, [LockNext]_lvars
    PROVE  AbandonedStaysSo'
<1> USE WorkspaceConstants, LockConstants
        DEF LockTypeOK, LockSteps, lockVars, At, Goto, Alive, Forget, Leave
<1>1. \A l \in LockRecords : l.owner \in Procs /\ l.run \in Nat /\ l.created \in Nat
  BY DEF LockRecords
<1>2. now <= now' /\ dead \subseteq dead' /\ \A p \in Procs : runs[p] <= runs'[p]
  BY LockGrows
<1>3. now \in Int /\ now' \in Int /\ \A p \in Procs : runs[p] \in Int /\ runs'[p] \in Int
  BY LockGrows
\* An abandoned lock does not come back.
<1>4. \A p \in Procs, d \in Dests :
        abandoned[p] # None /\ lockFile'[d] # lockFile[d] => lockFile'[d] # abandoned[p]
  <2> SUFFICES ASSUME NEW q \in Procs, NEW d \in Dests,
                      abandoned[q] # None, lockFile'[d] # lockFile[d]
               PROVE  lockFile'[d] # abandoned[q]
    OBVIOUS
  <2>1. abandoned[q].owner \in dead \/ abandoned[q].run < runs[abandoned[q].owner]
    BY DEF AbandonedStaysSo
  <2>2. ASSUME NEW p \in Procs, OpenLock(p) \/ WritePayload(p)
        PROVE  lockFile'[d] # abandoned[q]
    <3>1. lockFile'[d] = LockOf(p, FALSE) \/ lockFile'[d] = LockOf(p, TRUE)
      BY <2>2 DEF OpenLock, WritePayload
    <3>2. p \notin dead /\ runs[p] \in Int
      BY <1>3, <2>2 DEF OpenLock, WritePayload
    <3>3. \A b \in BOOLEAN : LockOf(p, b).owner = p /\ LockOf(p, b).run = runs[p]
      BY LockOfFacts
    <3> HIDE DEF LockTypeOK
    <3>4. ASSUME NEW b \in BOOLEAN, abandoned[q] = LockOf(p, b)
          PROVE  FALSE
      BY <2>1, <3>2, <3>3, <3>4
    <3> QED BY <3>1, <3>4
  <2>3. ASSUME NEW p \in Procs, BreakLock(p) \/ ReleaseLock(p)
        PROVE  lockFile'[d] # abandoned[q]
    BY <2>3 DEF BreakLock, ReleaseLock
  <2> QED BY <2>2, <2>3, LockCases
       DEF AcquireLock, OpenFails, PayloadError, ReadPayload, JudgeAge, SignalOwner,
           WaitTimesOut, WaitSleeps, GiveUp, EndProcess, Crash, Tick, lvars
<1> SUFFICES ASSUME NEW q \in Procs, abandoned'[q] # None
             PROVE  LET l == abandoned'[q] IN
                    /\ l.owner \in dead' \/ l.run < runs'[l.owner]
                    /\ l.complete
                    /\ now' - l.created > Timeout
                    /\ lockPc'[q] = "check" => lockFile'[want'[q]] # l
                    /\ lockPc'[q] \in {"age", "signal"} =>
                         lockFile'[want'[q]] # l \/ seen'[q] = l
  BY DEF AbandonedStaysSo
\* A step that leaves abandoned[q] alone and follows the last two clauses.
<1>5. ASSUME abandoned'[q] = abandoned[q],
             lockPc'[q] = "check" => lockFile'[want'[q]] # abandoned[q],
             lockPc'[q] \in {"age", "signal"} =>
               lockFile'[want'[q]] # abandoned[q] \/ seen'[q] = abandoned[q]
      PROVE  LET l == abandoned'[q] IN
             /\ l.owner \in dead' \/ l.run < runs'[l.owner]
             /\ l.complete
             /\ now' - l.created > Timeout
             /\ lockPc'[q] = "check" => lockFile'[want'[q]] # l
             /\ lockPc'[q] \in {"age", "signal"} =>
                  lockFile'[want'[q]] # l \/ seen'[q] = l
  <2>1. abandoned[q] \in LockRecords
    BY <1>5
  <2>2. abandoned[q].owner \in dead' \/ abandoned[q].run < runs'[abandoned[q].owner]
    BY <1>1, <1>2, <1>3, <1>5, <2>1 DEF AbandonedStaysSo
  <2>3. abandoned[q].complete /\ now' - abandoned[q].created > Timeout
    BY <1>1, <1>2, <1>3, <1>5, <2>1 DEF AbandonedStaysSo
  <2> QED BY <1>5, <2>2, <2>3
<1>6. ASSUME abandoned'[q] = abandoned[q], want'[q] = want[q], seen'[q] = seen[q],
             lockPc'[q] = lockPc[q] \/ lockPc'[q] \notin {"check", "age", "signal"}
      PROVE  /\ lockPc'[q] = "check" => lockFile'[want'[q]] # abandoned[q]
             /\ lockPc'[q] \in {"age", "signal"} =>
                  lockFile'[want'[q]] # abandoned[q] \/ seen'[q] = abandoned[q]
  <2>1. lockPc[q] \in {"check", "age", "signal"} => want[q] \in Dests
    OBVIOUS
  <2> QED BY <1>4, <1>6, <2>1 DEF AbandonedStaysSo
<1>7. ASSUME NEW p \in Procs, NEW d \in Dests, AcquireLock(p, d)
      PROVE  LET l == abandoned'[q] IN
             /\ l.owner \in dead' \/ l.run < runs'[l.owner]
             /\ l.complete
             /\ now' - l.created > Timeout
             /\ lockPc'[q] = "check" => lockFile'[want'[q]] # l
             /\ lockPc'[q] \in {"age", "signal"} =>
                  lockFile'[want'[q]] # l \/ seen'[q] = l
  <2>1. CASE q # p
    BY <1>5, <1>6, <1>7, <2>1 DEF AcquireLock
  <2>2. CASE q = p
    <3>1. /\ abandoned'[q] = lockFile[d] /\ IsAbandoned(lockFile[d])
          /\ lockPc'[q] = "open" /\ now' = now /\ dead' = dead /\ runs' = runs
      BY <1>7, <2>2 DEF AcquireLock
    <3>2. lockFile[d] \in LockRecords /\ lockFile[d].run <= runs[lockFile[d].owner]
      BY <3>1 DEF IsAbandoned
    <3> QED BY <1>1, <1>3, <3>1, <3>2 DEF IsAbandoned, Lives
  <2> QED BY <2>1, <2>2
<1>8. ASSUME NEW p \in Procs,
             \/ OpenLock(p) \/ WritePayload(p) \/ OpenFails(p) \/ PayloadError(p)
             \/ WaitTimesOut(p) \/ WaitSleeps(p) \/ EndProcess(p) \/ Crash(p)
      PROVE  /\ abandoned'[q] = abandoned[q] /\ want'[q] = want[q] /\ seen'[q] = seen[q]
             /\ lockPc'[q] = lockPc[q] \/ lockPc'[q] \notin {"check", "age", "signal"}
  <2>1. CASE OpenLock(p) \/ WritePayload(p)
    BY <2>1 DEF OpenLock, WritePayload
  <2>4. CASE OpenFails(p) \/ PayloadError(p)
    BY <2>4 DEF OpenFails, PayloadError
  <2>2. CASE WaitTimesOut(p) \/ WaitSleeps(p)
    BY <2>2 DEF WaitTimesOut, WaitSleeps
  <2>3. CASE EndProcess(p) \/ Crash(p)
    BY <2>3 DEF EndProcess, Crash
  <2> QED BY <1>8, <2>1, <2>2, <2>3, <2>4
<1>9. ASSUME NEW p \in Procs, BreakLock(p) \/ ReleaseLock(p) \/ GiveUp(p)
      PROVE  /\ abandoned'[q] = abandoned[q]
             /\ lockPc'[q] \in {"check", "age", "signal"} =>
                  want'[q] = want[q] /\ seen'[q] = seen[q] /\ lockPc'[q] = lockPc[q]
  BY <1>9 DEF BreakLock, ReleaseLock, GiveUp
<1>10. ASSUME NEW p \in Procs, ReadPayload(p)
       PROVE  /\ abandoned'[q] = abandoned[q]
              /\ lockPc'[q] = "check" => lockFile'[want'[q]] # abandoned[q]
              /\ lockPc'[q] \in {"age", "signal"} =>
                   lockFile'[want'[q]] # abandoned[q] \/ seen'[q] = abandoned[q]
  <2>1. CASE q # p
    BY <1>6, <1>10, <2>1 DEF ReadPayload
  <2>2. CASE q = p
    BY <1>10, <2>2 DEF ReadPayload, AbandonedStaysSo
  <2> QED BY <2>1, <2>2
<1>11. ASSUME NEW p \in Procs, JudgeAge(p) \/ SignalOwner(p)
       PROVE  /\ abandoned'[q] = abandoned[q]
              /\ lockPc'[q] = "check" => lockFile'[want'[q]] # abandoned[q]
              /\ lockPc'[q] \in {"age", "signal"} =>
                   lockFile'[want'[q]] # abandoned[q] \/ seen'[q] = abandoned[q]
  <2>1. CASE q # p
    BY <1>6, <1>11, <2>1 DEF JudgeAge, SignalOwner
  <2>2. CASE q = p
    <3>1. /\ abandoned'[q] = abandoned[q] /\ want'[q] = want[q] /\ lockFile' = lockFile
          /\ lockFile[want[q]] # abandoned[q] \/ seen[q] = abandoned[q]
      BY <1>11, <2>2 DEF JudgeAge, SignalOwner, AbandonedStaysSo
    <3>2. abandoned[q] \in LockRecords
      BY <3>1
    <3>3. lockPc'[q] = "check" => seen[q] # abandoned[q]
      <4>1. /\ abandoned[q].owner \in dead \/ abandoned[q].run < runs[abandoned[q].owner]
            /\ now - abandoned[q].created > Timeout
        BY <3>1 DEF AbandonedStaysSo
      <4>2. LockAge(abandoned[q]) > Timeout
        BY <1>1, <1>3, <3>2, <4>1 DEF LockAge
      <4>3. ~Lives(abandoned[q])
        BY <1>1, <1>3, <3>2, <4>1 DEF Lives
      <4> QED BY <1>11, <2>2, <4>2, <4>3 DEF JudgeAge, SignalOwner, ProcessExists
    <3>4. lockPc'[q] \in {"age", "signal"} => seen'[q] = seen[q]
      BY <1>11, <2>2 DEF JudgeAge, SignalOwner
    <3> QED BY <3>1, <3>3, <3>4
  <2> QED BY <2>1, <2>2
<1>12. CASE Tick \/ UNCHANGED lvars
  BY <1>5, <1>6, <1>12 DEF Tick, lvars
<1>13. ASSUME NEW p \in Procs, BreakLock(p) \/ ReleaseLock(p) \/ GiveUp(p)
       PROVE  /\ lockPc'[q] = "check" => lockFile'[want'[q]] # abandoned[q]
              /\ lockPc'[q] \in {"age", "signal"} =>
                   lockFile'[want'[q]] # abandoned[q] \/ seen'[q] = abandoned[q]
  BY <1>6, <1>9, <1>13
<1> QED BY <1>5, <1>6, <1>7, <1>8, <1>9, <1>10, <1>11, <1>12, <1>13, LockCases

\* With the local clock at or ahead of UTC, a process that arrives at an expired
\* lock of an owner that has exited or been killed never times out on it: time.mktime's
\* misreading of the UTC string (executor.py can_break_lock) can only make the lock
\* look older.
THEOREM AbandonedLockTakenHolds ==
    ASSUME ZoneOffset >= 0 PROVE LockSpec => AbandonedLockTaken
<1> DEFINE Taken == \A p \in Procs :
         lockPc[p] = "check" /\ lockPc'[p] = "raised"
           => \/ abandoned[p] = None
              \/ lockFile[want[p]] # abandoned[p]
<1>1. LockInit => AbandonedStaysSo
  BY DEF LockInit, AbandonedStaysSo
<1>2. LockTypeOK /\ AbandonedStaysSo /\ [LockNext]_lvars => AbandonedStaysSo'
  BY AbandonedStaysSoStep
<1>3. LockSpec => []LockTypeOK
  BY LockTypeCorrect
<1>4. AbandonedStaysSo => [Taken]_lvars
  BY DEF AbandonedStaysSo
<1> QED BY <1>1, <1>2, <1>3, <1>4, PTL DEF LockSpec, AbandonedLockTaken, lvars
=============================================================================
