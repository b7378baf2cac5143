# A TLA+ model of ANTMA

ANTMA keeps a team's long-term memory in Markdown files of a project.  What
enters them is first a *candidate*, a JSON file below `.antma/queue/`; policy
gates and reviewers decide about it; a *promotion* appends it to its
destination between marker lines and can be rolled back.  There is no server:
every operation is a short-lived process (`antma ...`, or a Python program that
uses `AntmaProject`) which works on the same files as all others.  The only
means of coordination are the lock files below `.antma/locks/`, which only
promotions take.

This directory holds a TLA+ model of that program: what the processes do to the
shared files, in the order they do it; configurations that check the model
with TLC on small instances; and proofs, checked by TLAPS, of what holds for
any number of processes, candidates and destinations.  Paths like
`executor.py:228` are below `src/antma/` of the repository.

## The system and its parts

| part | code | state | operations |
|---|---|---|---|
| destination lock | `executor.py` | one lock file per destination: owner's pid, creation time | acquire, break, time out, release |
| candidate queue | `candidates.py`, `approvals.py`, `review.py` | one JSON file per candidate in one of ten directories; `ledger/audit.jsonl` | create, review, approve, reject, hold, edit, delete, and the moves of promote and rollback |
| policy gates | `gates.py`, `conflict.py`, `policy.py` | none of its own: reads the policy, the candidate, its source file, the clock, the destination | evaluate |
| promotion executor | `executor.py`, `fs.py` | destinations, `ledger/promotions.jsonl`, `snapshots/` | `run_promotions`, `promote_one`, `fail_candidate` |
| rollback | `rollback.py` | the same | `rollback_promotion` |
| ledgers | `ledger.py` | two append-only JSONL files | append, read |
| memory index | `indexer.py`, `adapters/sqlite_fts.py` | an SQLite database with two tables | rebuild, search, validate |
| resolver | `resolver.py` | none | rank search results |
| scaffold | `scaffold.py` | the directories and files of a new project | init, with `--force` and `--overwrite` |
| sanitizer, evidence packets, promotion notes, status | `sanitize.py`, `evidence.py`, `schema.py`, `promotion.py`, `status.py` | none | scan, format, count |
| interfaces | `cli.py`, `project.py`, `adapters/` | none | parse, forward, print |

How they interact.  `review run` evaluates the gates over a candidate's file and
moves the file to the directory of the verdict.  A promotion loads a candidate,
takes the lock of its destination, evaluates the gates again if it had passed
them, reads the destination, writes a snapshot, replaces the destination, appends
to both ledgers, moves the candidate and releases the lock.  A rollback finds the
promotion's record, compares the destination with it, rewrites the destination,
and moves the candidate; it takes no lock.  A rebuild of the index reads the
Markdown files, destinations among them, and nothing tells the index when they
change.  `init` makes the directories, ledgers and defaults all others work on.
A user edits sources and destinations with any editor at any time.

What is hard.

* *Interleavings.*  Every candidate operation is load, decide, write the new
  file, unlink the old one; nothing keeps two processes apart.
* *Locks.*  Files created with `O_EXCL`, broken by age and pid; between the look at
  the one and at the other, and before the unlink, the file may become another's.
* *Kills.*  A process may be killed, or a write may fail, between any two file
  operations: half-moved candidates, blocks without record, locks without owner,
  half-built indexes and projects, ledger lines cut off.
* *Commits.*  A rebuild's `DROP` and `CREATE` are visible at once, its rows at the
  end; a search is several statements, each of which sees what is committed.
* *Stale checks.*  The gates' verdict, an approval, the content of a
  destination and a lock's owner are all used after they were looked at.
* *Order.*  The first gate that objects decides; promotions and rollbacks meet
  in any order.
* *Clocks.*  Deadlines, lock ages (of a UTC time read as local time), the age
  of a source.

What makes each part correct.

* Lock: one holder, and live processes keep their lock, as far as the code can (below);
  an abandoned one is taken over; whoever waits gives up in time.
* Queue: a candidate has one file, is never lost, moves only along its
  lifecycle; what ends in `approved/` or `promoted/` is the version that was
  decided about; the audit ledger replays to the queue.
* Gates: what is promoted unasked breaks no rule when it is written; what is
  refused stays out.
* Promotion and rollback: nothing that stands in a destination is lost; records,
  snapshots and blocks agree; a removed block stays out; hand-written lines
  survive.
* Index: it is unusable or whole, and no command answers from a part of it.
* Project files: an init that ends leaves a complete project and what the user
  wrote; an event that was recorded stays, in its place, and can be read.

## Modules

| module | what it is |
|---|---|
| `Workspace` | the slots in which processes run, and which have been killed |
| `DestinationLock` | `acquire_lock`, `can_break_lock`, `process_exists`, `release_lock` |
| `CandidateLifecycle` | abstract: the lifecycle the queue promises while one command runs at a time |
| `CandidateQueue` | the queue's commands as sequences of file operations |
| `Destinations` | abstract: how the texts and the promotion ledger change, as their readers see it |
| `PromotionEngine` | promotion and rollback, composed of the lock and the queue |
| `PolicyGates` | the gates, decisions and edits, in a changing world |
| `IndexCache` | abstract: what the search index promises while one rebuild runs at a time |
| `MemoryIndex` | rebuild, search and doctor, statement by statement |
| `ProjectState` | init, file by file, and the JSONL ledgers |
| `DestinationLockProofs`, `CandidateQueueProofs`, `QueueSerialProofs`, `PromotionEngineProofs`, `RollbackProofs`, `PolicyGatesProofs`, `MemoryIndexProofs`, `ProjectStateProofs` | theorems and proofs |
| `MCDestinationLock`, `MCCandidateQueue`, `MCPromotionEngine`, `MCPolicyGates` | constant values for TLC |

`PromotionEngine` extends `DestinationLock` and `CandidateQueue` and uses their
actions as parts of its own, so that what is proved of either holds of the whole
(`EngineImplementsLock`, `EngineImplementsQueue`).

### DestinationLock

A member of `Procs` is a slot in which processes run one after the other.  `runs[p]`
counts them (`EndProcess`: the command is over and its process exits), and a slot
and a count are a pid.  State: `lockFile[d]` (the file: who wrote it, the creation time, whether
its payload has been written), and per slot where it is in `acquire_lock` (`lockPc`), which
destination it wants, when it began to wait, and the payload it looks at (`seen`); and
the clock `now`.  One action per
step of the loop in `acquire_lock`: `OpenLock` or `OpenFails` (the `O_EXCL` open),
`WritePayload` or `PayloadError`; of `can_break_lock` `ReadPayload` (the file), `JudgeAge` (the
clock) and `SignalOwner` (`os.kill`); `BreakLock` (the unlink of whatever file is there,
which raises when there is none), and
`WaitTimesOut` or `WaitSleeps`.  `GiveUp` is the exception that leaves it.
`CanSignal` says whose processes `os.kill(pid, 0)` may signal: where it may not,
the code takes EPERM for "no such process".  `ZoneOffset` is local time minus UTC
in ticks: `can_break_lock` reads the UTC creation time with `time.mktime`.
`abandoned` and `robbed` are auxiliary.

`robbed` says that a waiter has unlinked the lock of a process at work.  The code cannot
exclude that: what the waiter has read may belong to an owner that releases and
exits before it is asked for, or another waiter may have broken the same lock and
taken its place.  So the promises of the lock come in three parts.
`ExclusiveUntilRobbed`: exclusion is lost in this way and no other.
`LiveLockKept`: what must have come before (`Misled`: the waiter holds the expired payload of
a process it does not find, which is not the present owner unless it may not signal
that one).  `LiveLockUnbroken`: it does not happen; `engine_robbed` refutes it in the system, and
`NeverRobbed` proves it of two narrow settings.

### CandidateQueue

`files[c][s]` is the version of candidate `c` in the directory of status `s`,
`None`, or `Torn` for a file that was opened but not filled.  `job[p]` is the command process `p` works
on, with what it has loaded and the step it has reached.  A command starts by finding the
file (`Start...`), loads it (`Load`), decides (`Evaluate`, `Reload`, `Decide`, `Edit`,
`Validate`, ...), and then writes as `write_candidate_data` does: `OpenTarget`,
`FillTarget`, `UnlinkOld`, and at the end `AppendAudit`.  `find_candidate_file`
and the listings go through the directories in the order of
`QUEUE_DIR_BY_STATUS`.  A candidate's content is reduced to the version of its
material fields (`Texts`); the gates are free to return any verdict.

### CandidateLifecycle

One variable, `stage[c]`, and the set of recorded promotions.
`ImplementsLifecycle` maps the files to it: a candidate is where its first
readable file is.

### PromotionEngine

A destination is the sequence of what has been put into it: blocks (promotion ids),
the newline `remove_marker_block` leaves, and lines written by hand.
A content hash is the content itself.  `stage[p]` is where `p` is in
`promote_one` (`lock`, `read`, `snapshot`, `replace`, `record`, `move`,
`release`) or `rollback_promotion` (`undo`, `lookup`).  `draft[p]` is the
promotion it works on.  The steps in `record` and `move` are those of the queue.
`EndCommand` is the exit of a process between commands.  `AppendOnly`, `BlocksUntilRobbed` and
`HeldUntilRobbed` hold until a waiter unlinks the lock of a promotion at
work; `AlwaysAppendOnly`, without that condition, is refuted.

### Destinations

The texts, the promotions recorded and the promotions rolled back.  A block is put
in once, at the end (`PutBlock`); recorded only while it stands (`RecordBlock`); and
taken out once, only if recorded and still the last thing in its text (`TakeOut`: the
comparison with the ledger's hash, seen from outside).  `ImplementsDestinations` maps
`dest`, the ids in `records`, and `undone` to it: `ReplaceDestination`,
`RecordPromotion`, `RemoveFromDestination` and `EditByHand` are its steps, every
other action of the engine none.  A kill between `PutBlock` and
`RecordBlock` leaves a block that can never be taken out.

### PolicyGates

Here a command is one step and a candidate keeps what the rules look at: kind
of source, destination, scope, risk, sensitivity, length, text.  `Evaluate` is
`GateEngine.evaluate`, each rule in its place; the limits and lists come from a
policy record.  `DetectConflicts` is `detect_conflicts`: two meaningful words of
the text in one line of a destination that does not contain the text already,
where a destination also holds the words of the markers.  Between the commands
source files change, vanish and come back, days pass, and lines are written into destinations
by hand.  `review run` takes any policy file, promotions always the default.

### MemoryIndex and IndexCache

A file is its version, a row of the table the version it was read from.
`memories` and `meta` are the two tables as committed; `writer` and `pending` are
the transaction that a rebuild's first `INSERT` opens and the end of its `with`
block commits (`CommitIndex`) or rolls back (`IndexFails`, `Kill`).  Python's
`sqlite3` runs `DROP` and `CREATE` outside a transaction, so each of the four
(`DropMemories` ... `CreateMeta`) shows at once.  A rebuild lists all files
(`ListPath`) before it reads the first (`InsertFile`).  A search checks the
metadata table, its content and the other table in three statements, and then
asks (`Select`, and `SelectFallback` with the words of the query alone, which
the code tries after any `OperationalError`).

`IndexCache` has the files and one `view`: nothing, or what a query runs over.
`ImplementsCache` maps to `view` the rows that validation accepts.  The abstract
`Publish` is the only way to a view, and demands every file once, in a version it had since the
rebuild began to read.  `AnswersTruthful` says the same of what the commands
report: a search that met a rebuild may find nothing, never a part.

### ProjectState

`content[f]` of a scaffold or default file is `absent`, `torn` (opened by init,
not yet filled), `default` or `edited`; `made` the directories, `antma` whether
`.antma/` is there.  An init has a phase (the scaffold, directories, ledgers and
defaults of `create_workspace` and `create_antma_state`) and what it has left to
do in it (`todo`); `exists()` and the write that follows are separate steps
(`CheckFile`, `OpenFile`, `FillFile`; `CheckLedger`, `CreateLedger`).
`EnterState` is the test of `scaffold.py:141` that decides whether anything
below `.antma/` is supplemented.  A ledger is a text of records, parts of records and line
breaks; `AppendCut` stops within a record or in front of its line break.
`separated` are the events whose free text holds U+2028, U+2029 or U+0085: the writer leaves them
as they are, and the reader (`Readable`) breaks a line there, so that such a record is no
whole line.  `ReadJsonl` takes the records of a readable text, the last one also without its line break.
`recorded` and `cut` are auxiliary.

## Runs

Unless said otherwise TLC explores every reachable state; a run takes from a few
seconds to three minutes and a half.

| run | question | bounds |
|---|---|---|
| `lock` | Is exclusion lost only by an unlink of a live lock, and that only by a waiter that was misled? Is an abandoned lock taken in time? | 3 slots of 2 processes each, the third of another user and mortal; 1 destination, timeout 1, clock to 3, write errors |
| `queue_serial` | Do undisturbed commands keep one file per candidate, an audit ledger that replays to the queue, and the lifecycle? | 1 process, 2 candidates, 1 version, all nine commands |
| `queue_concurrent` | Can a version that was not decided about end in `approved/` or `promoted/`, or a promotion be there without its record? | 2 processes at once, both mortal, write errors, 1 candidate that has passed the gates, 2 versions, the verdicts `auto_passed` and `manual_review` |
| `queue_lost` | *violated:* an edit and a review of one candidate at once | 2 processes |
| `engine_promoters` | Is anything taken from a destination, or a recorded block lost, before a waiter has unlinked the lock of a promotion at work, and does every promotion end? | 2 slots of 2 processes, one mortal, 2 candidates, 3 promotions, timeout 1, clock to 1, 2 east of UTC |
| `engine_robbed` | *violated:* a waiter does, and a block is lost | the same, nobody killed, clock to 2, UTC |
| `engine_crash` | Do kills and write errors anywhere lose a candidate? Do recorded blocks, hand-written lines, removed blocks and snapshots stay as they are, and do the destinations change by the steps of `Destinations` alone? | one command at a time (promote, rollback, delete), 2 candidates, 2 copies, 2 promotions, 1 hand edit |
| `engine_rollback_race` | *violated:* a promotion during a rollback | 2 processes |
| `gates` | Does what is promoted unasked break no rule when it is written, and do refused candidates stay out? | 1 candidate, any two rules at once, 2 policies, 3 texts, 2 destinations, 2 blocks |
| `gates_secret` | *violated:* a secret that has no source file | the same, the default policy |
| `index` | Is the index unusable or whole, and every answer truthful, when kills, errors, edits and another command come between any two statements? Does every command end? | 2 processes, one of them mortal, one rebuild at a time, 2 files, 2 versions |
| `state` | Does an init complete what stopped ones have left and keep what the user wrote, and are no events lost? | 2 processes, one of them mortal, one init at a time; one template, directory and ledger; 2 events |

Why the bounds are enough to be of use.  Every race in this code but that for a lock is between two
processes, each of which touches one
candidate and one destination, so two processes and one or two candidates show each
pair of steps in each order.  The lock takes three: a waiter, the owner whose payload it has read, and
the owner of the file it unlinks, or two waiters and an owner; `lock` has them at once, two
slots of two processes have them one after the other, which is how `engine_robbed` comes
about.  In `engine_promoters` every lock counts as expired at once, which is where waiters rob
soonest; in `lock` it takes its time.  Two promotions are needed to take something away from
each other; two blocks to conflict with each other.  A rebuild and a search beside
it show every statement of one between every two of the other; two files, one read
before and one after an edit.  Init treats the members of each of its tables alike, so one
of each, and the two defaults, show every phase begun, stopped and completed.  One tick of timeout, and a
clock that runs past the deadline of whoever starts last, show a wait that ends
in time, one that does not, and one that meets an expired lock.  Limits in the
policy are scaled down so that values below, at and above each of them occur.
`engine_crash` kills moves of three commands only, which share `write_candidate_data` with all others;
`NoCandidateLostHolds` and `LastCopyKeptHolds` are about all nine, with any number of copies.
`Commands` and `Verdicts` are the commands the users run and the verdicts the gates
come to.  `MaxCopies` bounds the files of a candidate in the queue at one time; `MaxProms`,
`MaxEdits`, `MaxTime`, `MaxRuns`, `MaxAge` and `MaxBlocks` bound ids, edits, the clock, the
processes of a slot and the destinations; `MaxVersions` and `MaxEvents` the versions users write and the events.

`CHECK_DEADLOCK FALSE` stands where the program may rightly stop: candidates
are deleted, processes killed, ids or the bounded clock used up.  Symmetry is
used in runs without liveness properties only, of members of a set that the configuration treats alike.

### What the violated runs show

* `queue_lost` (`candidates.py:250`).  `write_candidate_data` unlinks the path it
  loaded, also when another process has meanwhile written the candidate there.
  An edit that sends a candidate back to `candidates/` and a review that started
  from that file can leave none.
* `engine_rollback_race` (`rollback.py:52`).  A rollback compares and writes
  without the lock: a promotion in between is overwritten, although the
  destination then no longer matches the record.
* `engine_robbed` (`executor.py:239`).  A waiter reads the expired payload of a
  promotion; that one releases the lock and its process exits; the next promotion takes the lock; `os.kill`
  does not find the first process, and the waiter unlinks the lock of the second.  Both read
  one destination, and the later replace drops the block of the earlier.  Nobody is
  killed.  East of UTC every lock counts as expired at once.  Two waiters at one expired lock of a
  dead process end in the same way.
* `gates_secret` (`gates.py:138`).  Sources without a hash are sent to manual
  review before the sensitivity is looked at, so that a secret of such a source
  can be approved and promoted, where `on_secret` says rejected.  In the same way an
  earlier rule can hide a critical risk or a text that is too long for manual
  review.

More weaknesses were met while modelling and have no run; each is noted with its
hazard in `PROJECT.json`, and the assumption that leaves it out is named.

* West of UTC an expired lock is not recognised in time (`executor.py:251`;
  `ZoneOffset`).  A process of another user counts as dead (`executor.py:264`;
  `CanSignal`; `lock` includes it, and `LiveLockKept` names it as one way to lose a lock).
* Two promotions that load one candidate before either has the lock append it
  twice (`executor.py:49`).  A promoted candidate can be reviewed by id and then
  deleted while its block stands (`candidates.py:279`).
* Two rebuilds at once: the second drops the tables the first is about to fill,
  both insert into the new ones, and every file is found twice; or one commits
  while the other has the tables half made (`indexer.py:229`; `OneRebuild`).  With
  `OneRebuild = FALSE` TLC finds `AnswersTruthful` violated after eleven steps.
* An event appended while an init runs is truncated away when the init has looked
  for the ledger before (`scaffold.py:154`; `InitAlone`).
* `init` without `--force` adds nothing below `.antma/` once that directory exists,
  also when a stopped init or `index --db .antma/index.db` has made it
  (`scaffold.py:141`): `InitCompletes` speaks of forced and first inits only.
* A reason, a reviewer's name or an error text that holds U+2028, U+2029 or U+0085
  makes `read_jsonl` raise on the whole ledger, although every append came to its end
  (`ledger.py:39`; `separated`, which `LedgerFaithful` excepts).
* A file that a stopped init leaves cut short exists from then on; only
  `--overwrite` repairs it.  A ledger line that was cut makes `read_jsonl` raise until
  someone repairs it (`ledger.py:42`).

## Fairness

Liveness is checked of two things: a promotion
that waits for a lock ends, and a command on the index ends.  Both assume weak fairness of a live process's own
steps (the operating system schedules it, and each loop in the code ends or sleeps
for a fixed time), and the first of the clock.  Nothing is assumed of users, of the holder of a lock, or of which of two
outcomes of a step occurs.  A killed holder keeps its lock for ever when its payload
has not been written: the waiter's deadline alone ends its wait then.

## Proofs

For any constants that satisfy the named assumptions:

| theorem | says | assumes |
|---|---|---|
| `LockTypeCorrect` | types of the lock | |
| `ExclusiveUntilRobbedHolds` | two are inside only after a waiter has unlinked the lock of one at work | |
| `LiveLockKeptHolds` | only a misled waiter takes a live process's lock away | |
| `NeverRobbed` | no waiter does | `LocksAreSafe` |
| `AbandonedLockTakenHolds` | nobody times out on an expired lock of a dead process | `ZoneOffset >= 0` |
| `QueueTypeCorrect` | types of the queue | |
| `PromotedIsLedgeredHolds` | promoted candidates have their record | |
| `PromotedTextClearedHolds`, `ApprovedTextWasApprovedHolds` | what is in `promoted/` or `approved/` is a version decided about | |
| `NoCandidateLostHolds`, `LastCopyKeptHolds` | a candidate nobody deleted keeps a file; no move takes the last readable copy | `Serial` |
| `OneFileAtRestHolds`, `AuditAgreesHolds` | between commands a candidate has one file, in the directory its last audit event names | `Serial`, no kills or write errors |
| `ImplementsLifecycleHolds` | every command is one step of `CandidateLifecycle`, the rest of its steps none | the same, from an empty queue |
| `EngineImplementsLock`, `EngineImplementsQueue` | every step of the engine is a step, or no step, of each of its parts | |
| `EngineKeepsQueueSafe`, `EngineExcludes` | the parts' properties hold in the whole | |
| `AppendOnlyHolds` | no promotion takes anything from a destination before a waiter has unlinked the lock of one at work | `OnlyPromotions` |
| `PromotionsKeepBlocks` | nor is a recorded block lost before | `OnlyPromotions` |
| `EngineTypeCorrect` | types of the engine | |
| `BlocksSnapshottedHolds` | every block and record has its snapshot, no block stands twice | |
| `RolledBackWasUndoneHolds` | what is in `rolled-back/` was taken out | |
| `RecordedBlockStaysHolds`, `RolledBackStaysOutHolds` | recorded blocks stay until their rollback and never return after it | `Serial` |
| `HandLinesKeptHolds`, `RollbackCheckedHolds` | lines written by hand stay; what a rollback rewrites is what the ledger records | `Serial` |
| `HeldUntilRobbedHolds` | nor has a candidate in `promoted/` lost its block before | `OnlyPromotions` |
| `PromotedHasBlockHolds` | a candidate in `promoted/` has a recorded block in its destination, unless a rollback has taken it out | `Serial`, or `SafePromotions` |
| `ImplementsDestinationsHolds` | every step of the engine is one step of `Destinations` or none | `Serial`, or `SafePromotions` |
| `GateTypeCorrect` | types of the gates | |
| `UnreviewedAllowedHolds` | what is promoted unasked breaks no rule | |
| `FileSecretsRefusedHolds`, `DeniedDestinationKeptHolds`, `NoUnreviewedConflictHolds` | secrets, denied destinations and conflicts | |
| `IndexTypeCorrect` | types of the index | |
| `ImplementsCacheHolds`, `AnswersTruthfulHolds` | the index implements the cache; answers are truthful | `OneRebuild` |
| `StateTypeCorrect` | types of the project's files | |
| `InitCompletesHolds`, `UserContentKeptHolds` | an init that ends has completed the project; the user's files are kept | `InitAlone` |
| `LedgerFaithfulHolds` | recorded events stay in their ledger, in order; `read_jsonl` returns them while no append was cut and no event holds a separator | `InitAlone` |

The assumptions are those without which the properties fail, or nearly so.  `LocksAreSafe`: either
one user's processes, each of which outlasts the competition (`MaxRuns = 0`), and of
which none is killed or at most two compete; or the clock does not reach the age at which
a lock expires.  With a third process, or a second in the same slot, live locks are broken.
`OnlyPromotions`: no rollback and no hand edits, as both change what stands in a
destination.  `SafePromotions`: both.
`ZoneOffset >= 0`: not west of UTC.  `Serial`: one command at a
time, each of which may still be killed or fail anywhere, since a promotion during a
rollback breaks both properties (`engine_rollback_race`).  `OneRebuild` and
`InitAlone`: one rebuild at a time, nobody else at work during an init.  The theorems of
`CandidateQueueProofs` and of the gates need no such assumption: they hold under every
interleaving, and the queue's under every kill and write error.  Those of
`QueueSerialProofs` need `Serial`, since two commands on one candidate may lose it
(`queue_lost`); a kill or a write error between two of a
command's steps leaves two files, or an audit event missing.

The arguments.

* *Exclusion.*  Inductive with `Owns`: until a lock is robbed, whoever is past
  `O_EXCL` and alive owns the file that is there.  `SeenEnded` says of a waiter that is about to
  unlink that the payload it has read had expired and that its process, which never comes
  back, was not found: for `LiveLockKept`.  `NeverRobbed` adds that with these settings the file that is
  unlinked is the one that was read.
* *Queue.*  Each property speaks of one directory.  The strengthening adds what
  processes that are about to write there hold in memory: a job that will write into
  `promoted/` has been validated and recorded, a job that will write into
  `approved/` carries a version approved, and the auxiliary sets only grow.
* *One command at a time.*  `KeptInv` follows a move through its file operations: until
  the target is written in full the old file is readable, and it goes only afterwards.
  `UndisturbedInv` says of a candidate at rest that its only file and its audit event
  agree (`Settled`) and of the running command what it has found and may still write
  (`Shape`).  For the refinement, a candidate with two files is where
  `find_candidate_file` finds it first, so that a move becomes visible when its target
  is opened or when its old file goes, whichever directory is walked first; the steps
  in between are stutters.
* *Composition.*  Each action of the engine is split into the action of the lock
  and the action of the queue it contains; the queue's safety and the lock's
  exclusion follow through the two implementation theorems.
* *Append-only.*  Inductive with `DraftsFresh`: between its read and its replace a
  promotion's draft is the destination as it is plus its own block.  It is
  preserved because nobody else replaces that destination: the lock, until it is robbed.
* *Blocks of promoted candidates.*  `Backed` adds to `DraftsFresh` that every record has its
  block, in place before the record is written; destinations only grow.  `LedgerMatches`
  ties the queue to the engine under every interleaving: a draft is about the candidate
  the queue has loaded, so that every ledgered candidate has a record of its own.
* *Rollback.*  `SnapshotInv` speaks also of the texts that processes carry and may still
  write, stale or not, and of the ids they have reserved; so it holds under every
  race.  For one command at a time `SerialInv` adds that what the only process at work knows of
  its destination is still so (`UpToDate`), in particular that a rollback's text is
  that destination without the block.
* *Hand-written lines.*  `HandInv` says that as many positions hold such a line as lines
  were written.  `HandLinesKept` counts positions up to a bound, so the invariant
  also says that texts stay below it: an entry uses up an id drawn or a line written,
  and a promotion at work has drawn an id whose block is not there yet.
* *Destinations.*  `FreshInv` holds under every interleaving: an id belongs to one draft and
  at most one snapshot, whose text ends in its block, and only records are
  undone.  With it `ReplaceDestination` puts in a block that was nowhere, and a rollback
  takes out the last entry; that the text it holds is the present one (`Acquainted`)
  comes from `SerialInv` or from `DraftsFresh` and `Backed`.
* *Index.*  `CacheInv` says at each point of a rebuild what is committed and what
  is pending: after the drops validation refuses whatever is there until the
  commit, and every pending row is of a version in the window.  A reader's
  invariant says what each check it has passed still means, unless it met a rebuild.
* *Init.*  `Progress` says what the one init at work has settled, phase by phase;
  a file it is writing is still to do, was absent or is to be overwritten.
* *Ledgers.*  `Kept` says that the records of a text increase, that each event recorded is
  among them, and, while no append was cut, that the text is the recorded events, each
  with its line break, and nothing else.  Only an init that finds no ledger empties one (`Licensed`).
* *Gates.*  `PassedEvery` says what follows from a passed evaluation,
  `AskedAbout` what can be put to a human.  From these each property is inductive;
  for denied destinations the strengthening (`NoneForDenied`) says that nothing
  that awaits a decision or promotion names one.  A block's surroundings above it
  never change (`AboveAppended`), so that no conflict arises after the fact.

Only model-checked: liveness (`PromotionEnds`, `CommandsEnd`), which is
out of the prover's reach.  Every other property that a passing run checks is stated by one of these
theorems.

## Abstractions, and what is left out

* No pid is used twice: a waiter that finds another process under the pid it has
  read only waits longer.
* `path.exists()` followed by `unlink()` is one step; so are a snapshot and a
  ledger append.  `os.replace` is one step by its nature.
* Hashes are contents; candidate and promotion ids are fresh.
* `--dry-run` writes nothing and `--fail-fast` only ends a loop: both are left
  out.  `run_promotions` and `run_review` over several candidates are one command
  per candidate.
* Hand edits of destinations happen between commands in `engine_crash`: the code has
  no means against an editor at the same moment.
* In `PolicyGates` candidates are as the program creates them: rules about
  hand-damaged JSON, destinations outside the root and other modes than append
  never apply.  Paths are allowed or denied; matching them is not modelled.
* In `PolicyGates` the year in a block's first line and the words of its source and reason lines are left out,
  and rollback and deletion, which only take lines away, are not among its actions.
* In `MemoryIndex` a query finds every row: which rows match, their order (`resolver.py`)
  and their snippets are functions of the rows.  `MemoryIndex.initialize` and `clear`, which
  nothing in the repository calls, are left out.  A missing database file is one without tables.
* In `ProjectState` the members of a phase may be made in any order (the code's is
  one of them); an append is one write at the end of the file; `.antma/` itself is not removed.
* Not modelled, for being pure text work without state: sanitizer, evidence
  packets, promotion notes, status, the command line's parsing and printing.

## Plan

Done: lock, queue, engine and gates; then the index, init and the ledgers; and the
proofs listed above, the last of them the engine's refinement of
`Destinations`, the hand-written lines and the ledgers.  What is left, in the order of its use:

1. Proofs: a specification of what a lock promises its users (who may be inside, when it
   passes on) that `DestinationLock` implements; which of the properties of
   `ProjectState` survive an append beside an init, in place of `InitAlone`; which of the queue's
   serial properties survive two commands on different candidates, in place of `Serial`.
2. `Resolver`: the ranking as a function, with its reference definition
   (`resolver.py:48`).  `docs/api-reference.md:131` promises that source-of-truth records
   outrank others; the weight of a matched word (20) equals the distance between
   the two highest kinds.
3. Runs for the weaknesses that have none, above all two rebuilds at once.
4. The gates' promise of the abstract verdicts of `CandidateQueue`.
