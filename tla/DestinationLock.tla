--------------------------- MODULE DestinationLock ---------------------------
(***************************************************************************)
(* The per-destination lock of the promotion executor: executor.py         *)
(* acquire_lock, can_break_lock, process_exists and release_lock.          *)
(*                                                                         *)
(* A lock is a file created with O_CREAT | O_EXCL whose payload names the  *)
(* owner's pid and a creation time.  A process that finds the file either  *)
(* breaks it (older than the timeout, owner not found), times out, or      *)
(* sleeps and tries again.  Every file operation, look at the clock and    *)
(* system call that others can come between is one step.                   *)
(***************************************************************************)
EXTENDS Integers, Workspace

CONSTANTS
    Dests,       \* the destinations, one lock file each
    Timeout,     \* policy promotion.lock_timeout_seconds
    ZoneOffset,  \* seconds the machine's local time zone is east of UTC
    CanSignal,   \* CanSignal[p]: the slots whose processes p may send signal 0 to
    MaxRuns,     \* bound on the processes a slot runs after its first one
    MaxTime      \* bound on the clock

\* A lock file: the process that created it (a pid is a slot and the run of it,
\* and never used twice), the time its payload names, and whether the payload
\* has been written.
LockRecords == [owner : Procs, run : 0..MaxRuns, created : 0..MaxTime, complete : BOOLEAN]

ASSUME LockConstants ==
    /\ Timeout \in Nat
    /\ ZoneOffset \in Int
    /\ CanSignal \in [Procs -> SUBSET Procs]
    /\ MaxRuns \in Nat
    /\ MaxTime \in Nat
    /\ None \notin Dests \cup LockRecords

VARIABLES
    now,        \* time.time(), in seconds
    lockFile,   \* lockFile[d]: the lock file of d, or None
    lockPc,     \* lockPc[p]: where p is in acquire_lock
    want,       \* want[p]: the destination p locks or holds, or None
    started,    \* started[p]: when p entered acquire_lock, or 0
    seen,       \* seen[p]: the payload p looks at in can_break_lock, or None
    runs,       \* runs[p]: which process of slot p is the present one
    abandoned,  \* auxiliary: the expired lock of an ended owner p arrived at
    robbed      \* auxiliary: a waiter has unlinked the lock of a live process at work

lockVars == <<now, lockFile, lockPc, want, started, seen, runs, abandoned, robbed>>

LockSteps == {"idle", "open", "payload", "probe", "age", "signal", "check", "break",
              "held", "raised"}

\* The process that wrote l has not ended and has not been killed.
Lives(l) == l.owner \notin dead /\ runs[l.owner] = l.run

LockTypeOK ==
    /\ dead \subseteq Mortal
    /\ now \in 0..MaxTime
    /\ lockFile \in [Dests -> LockRecords \cup {None}]
    /\ lockPc \in [Procs -> LockSteps]
    /\ want \in [Procs -> Dests \cup {None}]
    /\ started \in [Procs -> 0..MaxTime]
    /\ seen \in [Procs -> LockRecords \cup {None}]
    /\ runs \in [Procs -> 0..MaxRuns]
    /\ abandoned \in [Procs -> LockRecords \cup {None}]
    /\ robbed \in BOOLEAN
    /\ \A p \in Procs : /\ lockPc[p] # "idle" => want[p] \in Dests
                        /\ lockPc[p] \in {"age", "signal", "break"} <=> seen[p] # None
    /\ \A d \in Dests : lockFile[d] # None => lockFile[d].run <= runs[lockFile[d].owner]

LockInit ==
    /\ dead = {}
    /\ now = 0
    /\ lockFile = [d \in Dests |-> None]
    /\ lockPc = [p \in Procs |-> "idle"]
    /\ want = [p \in Procs |-> None]
    /\ started = [p \in Procs |-> 0]
    /\ seen = [p \in Procs |-> None]
    /\ runs = [p \in Procs |-> 0]
    /\ abandoned = [p \in Procs |-> None]
    /\ robbed = FALSE

-----------------------------------------------------------------------------
\* The definitions named ...Mutant are what a plausible slip would make of the
\* definition that follows them; no specification uses them.

\* os.kill's error taken to mean that the process exists.
ProcessExistsMutant(p, l) == TRUE

\* os.kill(pid, 0): any OSError, also EPERM for another user's live process,
\* counts as "no such process".
ProcessExists(p, l) == Lives(l) /\ l.owner \in CanSignal[p]

\* time.mktime reads the UTC time string as local time, so the age it yields
\* is off by the machine's offset from UTC.
LockAge(l) == now - l.created + ZoneOffset

\* What can_break_lock is meant to recognise.
IsAbandoned(l) ==
    /\ l # None
    /\ l.complete
    /\ now - l.created > Timeout
    /\ ~Lives(l)

-----------------------------------------------------------------------------
At(p, step) == Alive(p) /\ lockPc[p] = step
Goto(p, step) == lockPc' = [lockPc EXCEPT ![p] = step]

\* can_break_lock returns; acquire_lock returns or raises; promote_one ends.
Forget(p) == seen' = [seen EXCEPT ![p] = None]
Leave(p) ==
    /\ Goto(p, "idle")
    /\ want' = [want EXCEPT ![p] = None]
    /\ started' = [started EXCEPT ![p] = 0]
    /\ abandoned' = [abandoned EXCEPT ![p] = None]

\* The destination is not carried into the wait.
AcquireLockMutant(p, d) ==
    /\ At(p, "idle")
    /\ now + Timeout <= MaxTime
    /\ Goto(p, "open")
    /\ started' = [started EXCEPT ![p] = now]
    /\ UNCHANGED <<now, lockFile, want, seen, runs, abandoned, robbed, dead>>

\* promote_one computes the payload, created_at included, and the deadline
\* before the first attempt.
AcquireLock(p, d) ==
    /\ At(p, "idle")
    /\ now + Timeout <= MaxTime
    /\ Goto(p, "open")
    /\ want' = [want EXCEPT ![p] = d]
    /\ started' = [started EXCEPT ![p] = now]
    /\ abandoned' = [abandoned EXCEPT ![p] =
                       IF IsAbandoned(lockFile[d]) THEN lockFile[d] ELSE None]
    /\ UNCHANGED <<now, lockFile, seen, runs, robbed, dead>>

\* p's lock file, before (FALSE) and after (TRUE) the payload is written.
LockOf(p, complete) ==
    [owner |-> p, run |-> runs[p], created |-> started[p], complete |-> complete]

\* Without O_EXCL an existing lock file is overwritten.
OpenLockMutant(p) ==
    LET d == want[p] IN
    /\ At(p, "open")
    /\ lockFile' = [lockFile EXCEPT ![d] = LockOf(p, FALSE)]
    /\ Goto(p, "payload")
    /\ UNCHANGED <<now, want, started, seen, runs, abandoned, robbed, dead>>

\* os.open(O_CREAT | O_EXCL | O_WRONLY) succeeds: the file exists, still empty.
OpenLock(p) ==
    LET d == want[p] IN
    /\ At(p, "open")
    /\ lockFile[d] = None
    /\ lockFile' = [lockFile EXCEPT ![d] = LockOf(p, FALSE)]
    /\ Goto(p, "payload")
    /\ UNCHANGED <<now, want, started, seen, runs, abandoned, robbed, dead>>

OpenFails(p) ==
    /\ At(p, "open")
    /\ lockFile[want[p]] # None
    /\ Goto(p, "probe")
    /\ UNCHANGED <<now, lockFile, want, started, seen, runs, abandoned, robbed, dead>>

\* json.dump and close.  When another process has unlinked the file meanwhile
\* the payload goes to the unlinked inode and p returns none the wiser.
WritePayload(p) ==
    LET d == want[p] IN
    /\ At(p, "payload")
    /\ IF lockFile[d] = LockOf(p, FALSE)
       THEN lockFile' = [lockFile EXCEPT ![d] = LockOf(p, TRUE)]
       ELSE UNCHANGED lockFile
    /\ Goto(p, "held")
    /\ UNCHANGED <<now, want, started, seen, runs, abandoned, robbed, dead>>

\* The write fails: the OSError leaves acquire_lock, the empty file stays.
PayloadError(p) ==
    /\ IOErrors
    /\ At(p, "payload")
    /\ Goto(p, "raised")
    /\ UNCHANGED <<now, lockFile, want, started, seen, runs, abandoned, robbed, dead>>

\* can_break_lock reads the payload.  A file that is gone, or that cannot be
\* parsed yet, is never broken.
ReadPayload(p) ==
    LET l == lockFile[want[p]]
        parsed == l # None /\ l.complete IN
    /\ At(p, "probe")
    /\ seen' = [seen EXCEPT ![p] = IF parsed THEN l ELSE None]
    /\ Goto(p, IF parsed THEN "age" ELSE "check")
    /\ UNCHANGED <<now, lockFile, want, started, runs, abandoned, robbed, dead>>

\* Then it looks at the clock ...
JudgeAge(p) ==
    LET expired == LockAge(seen[p]) > Timeout IN
    /\ At(p, "age")
    /\ Goto(p, IF expired THEN "signal" ELSE "check")
    /\ IF expired THEN UNCHANGED seen ELSE Forget(p)
    /\ UNCHANGED <<now, lockFile, want, started, runs, abandoned, robbed, dead>>

\* The owner's process is not looked up.
SignalOwnerMutant(p) ==
    /\ At(p, "signal")
    /\ Goto(p, "break")
    /\ UNCHANGED <<now, lockFile, want, started, seen, runs, abandoned, robbed, dead>>

\* ... and for the process that wrote what it has read.
SignalOwner(p) ==
    LET found == ProcessExists(p, seen[p]) IN
    /\ At(p, "signal")
    /\ Goto(p, IF found THEN "check" ELSE "break")
    /\ IF found THEN Forget(p) ELSE UNCHANGED seen
    /\ UNCHANGED <<now, lockFile, want, started, runs, abandoned, robbed, dead>>

\* A live process is between O_EXCL and release_lock of d.
AtWork(d) == \E q \in Procs : Alive(q) /\ lockPc[q] \in {"payload", "held"} /\ want[q] = d

\* lock_path.unlink(): whatever file is there by now.  When there is none,
\* FileNotFoundError leaves acquire_lock.
BreakLock(p) ==
    LET d == want[p] IN
    /\ At(p, "break")
    /\ lockFile' = [lockFile EXCEPT ![d] = None]
    /\ Goto(p, IF lockFile[d] = None THEN "raised" ELSE "open")
    /\ robbed' = (robbed \/ AtWork(d))
    /\ Forget(p)
    /\ UNCHANGED <<now, want, started, runs, abandoned, dead>>

\* The deadline is computed anew in every iteration.
DeadlinePassedMutant(p) == FALSE

DeadlinePassed(p) == now >= started[p] + Timeout

\* Past the deadline the waiter raises PromotionError ...
WaitTimesOut(p) ==
    /\ At(p, "check")
    /\ DeadlinePassed(p)
    /\ Goto(p, "raised")
    /\ UNCHANGED <<now, lockFile, want, started, seen, runs, abandoned, robbed, dead>>

\* ... before it, it sleeps a tenth of a second and tries again.
WaitSleeps(p) ==
    /\ At(p, "check")
    /\ ~DeadlinePassed(p)
    /\ Goto(p, "open")
    /\ UNCHANGED <<now, lockFile, want, started, seen, runs, abandoned, robbed, dead>>

\* The finally clause of promote_one: unlink, whoever owns the file by now.
ReleaseLock(p) ==
    /\ At(p, "held")
    /\ lockFile' = [lockFile EXCEPT ![want[p]] = None]
    /\ Leave(p)
    /\ UNCHANGED <<now, seen, runs, robbed, dead>>

\* The exception reaches run_promotions; p holds nothing.
GiveUp(p) ==
    /\ At(p, "raised")
    /\ Leave(p)
    /\ UNCHANGED <<now, lockFile, seen, runs, robbed, dead>>

\* The command is over and its process exits; the next one of the slot has a pid
\* of its own.  (Promotions of one `promote run` have one process.)
EndProcess(p) ==
    /\ At(p, "idle")
    /\ runs[p] < MaxRuns
    /\ runs' = [runs EXCEPT ![p] = @ + 1]
    /\ UNCHANGED <<now, lockFile, lockPc, want, started, seen, abandoned, robbed, dead>>

\* p is killed between two steps; its lock file stays.
Crash(p) ==
    /\ p \in Mortal \ dead
    /\ dead' = dead \cup {p}
    /\ UNCHANGED lockVars

Tick ==
    /\ now < MaxTime
    /\ now' = now + 1
    /\ UNCHANGED <<lockFile, lockPc, want, started, seen, runs, abandoned, robbed, dead>>

-----------------------------------------------------------------------------
\* The steps of acquire_lock that p takes by itself.
AcquireStep(p) ==
    \/ OpenLock(p)   \/ OpenFails(p)    \/ WritePayload(p)
    \/ ReadPayload(p) \/ JudgeAge(p)   \/ SignalOwner(p) \/ BreakLock(p)
    \/ WaitTimesOut(p) \/ WaitSleeps(p)

LockNext ==
    \/ \E p \in Procs :
         \/ \E d \in Dests : AcquireLock(p, d)
         \/ AcquireStep(p)
         \/ PayloadError(p)
         \/ ReleaseLock(p)
         \/ GiveUp(p)
         \/ EndProcess(p)
         \/ Crash(p)
    \/ Tick

LockSpec == LockInit /\ [][LockNext]_<<lockVars, dead>>

-----------------------------------------------------------------------------
Holds(p, d) == At(p, "held") /\ want[p] = d

\* At most one live process is between acquire_lock and release_lock of a
\* destination: promote_one's read, snapshot and replace of that file are never
\* interleaved with another promotion's.
MutualExclusion ==
    \A p, q \in Procs, d \in Dests : Holds(p, d) /\ Holds(q, d) => p = q

\* Exclusion is lost in one way only: a waiter's unlink that meets the lock of a
\* process at work.  Kills, errors, time-outs, exits and releases never lead to it.
\* (executor.py acquire_lock, release_lock.)
ExclusiveUntilRobbed == robbed \/ MutualExclusion

\* p has read an expired lock whose process it does not find: it has ended since,
\* or is another user's.
Misled(p) ==
    /\ seen[p] # None
    /\ LockAge(seen[p]) > Timeout
    /\ ~ProcessExists(p, seen[p])

\* While its process lives, a lock file is taken away only by its owner's own
\* release_lock or, at a waiter's unlink, because the waiter has read the expired
\* lock of another process there that is gone, or because it may not signal the
\* owner; what a robbed process or its robber does later aside.
\* (executor.py can_break_lock.)
LiveLockKept ==
    [][\A d \in Dests :
         LET l == lockFile[d] IN
         l # None /\ Lives(l) /\ lockFile'[d] # l
           => \/ lockFile'[d] = LockOf(l.owner, TRUE)
              \/ lockPc[l.owner] = "held" /\ lockPc'[l.owner] = "idle"
              \/ \E p \in Procs : /\ lockPc[p] = "break" /\ lockPc'[p] = "open"
                                  /\ want[p] = d /\ Misled(p)
                                  /\ seen[p] = l => l.owner \notin CanSignal[p]
              \/ robbed]_<<lockVars, dead>>

\* The lock of a live process is not broken.  The code does break it, but for a few
\* settings (DestinationLockProofs): payload, clock, signal and unlink are separate
\* steps, and the file may be another one by then.  (executor.py acquire_lock.)
LiveLockUnbroken == ~robbed

\* A process that finds a lock whose owner has been killed and which expired before
\* it came never times out on that same lock: it breaks it or finds it replaced.
AbandonedLockTaken ==
    [][\A p \in Procs :
         lockPc[p] = "check" /\ lockPc'[p] = "raised"
           => \/ abandoned[p] = None
              \/ lockFile[want[p]] # abandoned[p]]_<<lockVars, dead>>
=============================================================================
