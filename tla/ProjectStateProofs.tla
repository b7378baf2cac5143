------------------------- MODULE ProjectStateProofs -------------------------
(***************************************************************************)
(* Proofs about the project's files for any processes, templates,          *)
(* directories and ledgers: the type invariant, always; and, when nobody   *)
(* else works during an init, with stops anywhere, that an init that ends  *)
(* leaves a complete project, that none touches what the user wrote, and   *)
(* that the ledgers keep the events recorded in them.                      *)
(***************************************************************************)
EXTENDS ProjectState, TLAPS

-----------------------------------------------------------------------------
(* Types.                                                                  *)

WellFormed(j) ==
    /\ j.todo \subseteq Work[j.phase]
    /\ j.at # "check" => j.item \in j.todo

\* A step of an init leaves its own job well-formed and the others alone.
JobStep(p) ==
    \E j \in Jobs \cup {None} :
        /\ job' = [job EXCEPT ![p] = j]
        /\ j # None => WellFormed(j)

LEMMA JobStepTypes ==
    ASSUME StateTypeOK, NEW p \in Procs, JobStep(p)
    PROVE  /\ job' \in [Procs -> Jobs \cup {None}]
           /\ \A q \in Procs : job'[q] # None => WellFormed(job'[q])
  BY DEF StateTypeOK, JobStep, WellFormed

LEMMA WorkFacts ==
    /\ \A phase \in DOMAIN Work : Work[phase] \subseteq Items
    /\ DOMAIN Work = {"scaffold", "directories", "ledgers", "defaults"}
    /\ Work["scaffold"] = Templates /\ Work["directories"] = Directories
    /\ Work["ledgers"] = Ledgers /\ Work["defaults"] = Defaults
  BY DEF Work, Items, Files

LEMMA RunningJob ==
    ASSUME StateTypeOK, NEW p \in Procs, job[p] # None
    PROVE  job[p] \in Jobs /\ WellFormed(job[p])
  BY DEF StateTypeOK, WellFormed

LEMMA TakeSteps ==
    ASSUME StateTypeOK, NEW p \in Procs, job[p] # None,
           NEW item \in job[p].todo, Take(p, item)
    PROVE  JobStep(p)
<1> DEFINE j == [job[p] EXCEPT !.at = "open", !.item = item]
<1>1. job[p] \in Jobs /\ WellFormed(job[p])
  BY RunningJob
<1>2. item \in Items
  BY <1>1 DEF Jobs
<1>3. j \in Jobs /\ WellFormed(j)
  BY <1>1, <1>2 DEF Jobs, WellFormed
<1>4. job' = [job EXCEPT ![p] = j]
  BY DEF Take
<1> QED BY <1>3, <1>4 DEF JobStep

LEMMA DoneSteps ==
    ASSUME StateTypeOK, NEW p \in Procs, job[p] # None, NEW item, Done(p, item)
    PROVE  JobStep(p)
<1> DEFINE j == [job[p] EXCEPT !.at = "check", !.todo = @ \ {item}]
<1>1. job[p] \in Jobs /\ WellFormed(job[p])
  BY RunningJob
<1>2. j \in Jobs /\ WellFormed(j)
  BY <1>1 DEF Jobs, WellFormed
<1>3. job' = [job EXCEPT ![p] = j]
  BY DEF Done
<1> QED BY <1>2, <1>3 DEF JobStep

LEMMA EnterSteps ==
    ASSUME StateTypeOK, NEW p \in Procs, job[p] # None, job[p].at = "check",
           NEW phase \in DOMAIN Work, NEW missing \in BOOLEAN, Enter(p, phase, missing)
    PROVE  JobStep(p)
<1> DEFINE j == [job[p] EXCEPT !.phase = phase, !.todo = Work[phase], !.missing = missing]
<1>1. job[p] \in Jobs /\ WellFormed(job[p])
  BY RunningJob
<1>2. j \in Jobs /\ WellFormed(j)
  BY <1>1, WorkFacts DEF Jobs, WellFormed
<1>3. job' = [job EXCEPT ![p] = j]
  BY DEF Enter
<1> QED BY <1>2, <1>3 DEF JobStep

LEMMA StopSteps ==
    ASSUME NEW p \in Procs, job' = [job EXCEPT ![p] = None]
    PROVE  JobStep(p)
  BY DEF JobStep

LEMMA StartSteps ==
    ASSUME StateTypeOK, NEW p \in Procs, StartInit(p)
    PROVE  JobStep(p)
<1>1. PICK force \in BOOLEAN, over \in SUBSET Targets :
        job' = [job EXCEPT ![p] =
                  [phase |-> "scaffold", at |-> "check", item |-> None, todo |-> Templates,
                   force |-> force, over |-> over, missing |-> FALSE, fresh |-> ~antma]]
  BY DEF StartInit
<1> DEFINE j == [phase |-> "scaffold", at |-> "check", item |-> None, todo |-> Templates,
                 force |-> force, over |-> over, missing |-> FALSE, fresh |-> ~antma]
<1>2. Templates \subseteq Items /\ antma \in BOOLEAN
  BY DEF Items, Files, StateTypeOK
<1>3. j \in Jobs /\ WellFormed(j)
  BY <1>2, WorkFacts DEF Jobs, WellFormed
<1> QED BY <1>1, <1>3 DEF JobStep

\* Every step of an init changes its own job only.
LEMMA InitSteps ==
    ASSUME StateTypeOK, NEW p \in Procs, StartInit(p) \/ InitStep(p) \/ KillInit(p)
    PROVE  JobStep(p)
<1>1. ASSUME NEW f \in Files, CheckFile(p, f) PROVE JobStep(p)
  BY <1>1, TakeSteps, DoneSteps DEF CheckFile, Running
<1>2. CASE FillFile(p) \/ CreateLedger(p)
  BY <1>2, DoneSteps DEF FillFile, CreateLedger, Running
<1>3. ASSUME OpenFile(p) PROVE JobStep(p)
  <2> DEFINE j == [job[p] EXCEPT !.at = "fill"]
  <2>1. job[p] \in Jobs /\ WellFormed(job[p]) /\ job[p].at = "open"
    BY <1>3, RunningJob DEF OpenFile, Running
  <2>2. j \in Jobs /\ WellFormed(j)
    BY <2>1 DEF Jobs, WellFormed
  <2> QED BY <1>3, <2>2 DEF OpenFile, JobStep
<1>4. CASE EnterState(p) \/ EnterLedgers(p) \/ EnterDefaults(p)
  BY <1>4, EnterSteps, WorkFacts DEF EnterState, EnterLedgers, EnterDefaults, Running
<1>5. ASSUME NEW d \in Directories, MakeDirectory(p, d) PROVE JobStep(p)
  BY <1>5, DoneSteps DEF MakeDirectory, Running
<1>6. ASSUME NEW l \in Ledgers, CheckLedger(p, l) PROVE JobStep(p)
  BY <1>6, TakeSteps, DoneSteps DEF CheckLedger, Running
<1>7. CASE EndInit(p) \/ InitFails(p) \/ KillInit(p)
  BY <1>7, StopSteps DEF EndInit, InitFails, KillInit
<1> QED BY <1>1, <1>2, <1>3, <1>4, <1>5, <1>6, <1>7, StartSteps DEF InitStep

LEMMA TextIsText ==
    ASSUME StateTypeOK, NEW l \in Ledgers
    PROVE  Text(l) \in Texts
  BY DEF Text, StateTypeOK, Texts

\* The files after a step.
FilesTypeOK ==
    /\ dead \subseteq Mortal
    /\ content \in [Files -> Contents]
    /\ antma \in BOOLEAN /\ made \subseteq Directories
    /\ made # {} => antma
    /\ ledger \in [Ledgers -> Texts \cup {None}]
    /\ events \in 0..MaxEvents /\ separated \subseteq 1..events
    /\ recorded \in [Ledgers -> Seq(Nat)]
    /\ cut \subseteq Ledgers

LEMMA InitFilesTypes ==
    ASSUME StateTypeOK, NEW p \in Procs, StartInit(p) \/ InitStep(p) \/ KillInit(p)
    PROVE  FilesTypeOK'
<1> USE DEF StateTypeOK, FilesTypeOK
<1>1. CASE OpenFile(p)
  BY <1>1 DEF OpenFile, Contents, ledgerVars
<1>2. CASE FillFile(p)
  BY <1>2 DEF FillFile, Contents, ledgerVars
<1>3. ASSUME NEW d \in Directories, MakeDirectory(p, d) PROVE FilesTypeOK'
  BY <1>3 DEF MakeDirectory, ledgerVars
<1>4. CASE CreateLedger(p)
  <2>1. <<>> \in Texts
    BY DEF Texts
  <2>2. [ledger EXCEPT ![job[p].item] = <<>>] \in [Ledgers -> Texts \cup {None}]
    BY <2>1
  <2> QED BY <1>4, <2>2 DEF CreateLedger
<1>5. CASE KillInit(p)
  BY <1>5 DEF KillInit, fileVars, ledgerVars
<1>6. ASSUME NEW f \in Files, CheckFile(p, f) PROVE FilesTypeOK'
  BY <1>6 DEF CheckFile, fileVars, ledgerVars
<1>7. ASSUME NEW l \in Ledgers, CheckLedger(p, l) PROVE FilesTypeOK'
  BY <1>7 DEF CheckLedger, fileVars, ledgerVars
<1>8. CASE StartInit(p) \/ EnterState(p) \/ EnterLedgers(p) \/ EnterDefaults(p) \/ EndInit(p)
           \/ InitFails(p)
  BY <1>8 DEF StartInit, EnterState, EnterLedgers, EnterDefaults, EndInit, InitFails, fileVars,
              ledgerVars
<1> QED BY <1>1, <1>2, <1>3, <1>4, <1>5, <1>6, <1>7, <1>8 DEF InitStep

LEMMA AppendTypes ==
    ASSUME StateTypeOK, NEW p \in Procs, NEW l \in Ledgers, AppendEvent(p, l) \/ AppendCut(p, l)
    PROVE  FilesTypeOK' /\ job' = job
<1> USE DEF StateTypeOK, FilesTypeOK
<1>1. events \in Nat /\ events + 1 \in Nat /\ Text(l) \in Texts
  BY TextIsText, StateConstants
<1>2. NewEvent => events' \in 0..MaxEvents /\ separated' \subseteq 1..events'
  BY <1>1, StateConstants DEF NewEvent
<1>3. CASE AppendEvent(p, l)
  <2>1. Text(l) \o <<events + 1, Break>> \in Texts
    BY <1>1 DEF Texts
  <2>2. Append(recorded[l], events + 1) \in Seq(Nat)
    BY <1>1
  <2> QED BY <1>2, <1>3, <2>1, <2>2 DEF AppendEvent, fileVars
<1>4. CASE AppendCut(p, l)
  <2>1. PICK piece \in {events + 1, Torn} : ledger' = [ledger EXCEPT ![l] = Append(Text(l), piece)]
    BY <1>4 DEF AppendCut
  <2>2. Append(Text(l), piece) \in Texts
    BY <1>1 DEF Texts
  <2> QED BY <1>2, <1>4, <2>1, <2>2 DEF AppendCut, fileVars
<1> QED BY <1>3, <1>4

LEMMA UserTypes ==
    ASSUME StateTypeOK,
           \/ \E f \in Files : EditFile(f)
           \/ \E d \in Directories : RemoveDirectory(d)
           \/ IndexCreatesAntma
    PROVE  FilesTypeOK' /\ job' = job
<1> USE DEF StateTypeOK, FilesTypeOK
<1>1. ASSUME NEW f \in Files, EditFile(f) PROVE FilesTypeOK' /\ job' = job
  BY <1>1 DEF EditFile, Contents, ledgerVars
<1>2. ASSUME NEW d \in Directories, RemoveDirectory(d) PROVE FilesTypeOK' /\ job' = job
  BY <1>2 DEF RemoveDirectory, ledgerVars
<1>3. ASSUME IndexCreatesAntma PROVE FilesTypeOK' /\ job' = job
  BY <1>3 DEF IndexCreatesAntma, ledgerVars
<1> QED BY <1>1, <1>2, <1>3

LEMMA StateTypeStep ==
    ASSUME StateTypeOK, [StateNext]_stateVars
    PROVE  StateTypeOK'
<1>1. ASSUME NEW p \in Procs, StartInit(p) \/ InitStep(p) \/ KillInit(p) PROVE StateTypeOK'
  BY <1>1, InitSteps, JobStepTypes, InitFilesTypes DEF StateTypeOK, FilesTypeOK, WellFormed
<1>2. ASSUME FilesTypeOK', job' = job PROVE StateTypeOK'
  BY <1>2 DEF StateTypeOK, FilesTypeOK
<1>3. CASE UNCHANGED stateVars
  BY <1>3 DEF stateVars, StateTypeOK
<1> QED BY <1>1, <1>2, <1>3, AppendTypes, UserTypes DEF StateNext

LEMMA StateTypeInit ==
    StateInit => StateTypeOK
<1> SUFFICES ASSUME StateInit PROVE StateTypeOK
  OBVIOUS
<1>1. 0 \in 0..MaxEvents
  BY StateConstants
<1>2. recorded \in [Ledgers -> Seq(Nat)]
  <2>1. <<>> \in Seq(Nat)
    OBVIOUS
  <2> QED BY <2>1 DEF StateInit
<1>3. /\ content \in [Files -> Contents]
      /\ job \in [Procs -> Jobs \cup {None}]
      /\ ledger \in [Ledgers -> Texts \cup {None}]
  BY DEF StateInit, Contents
<1>4. \A p \in Procs : job[p] = None
  BY DEF StateInit
<1> QED BY <1>1, <1>2, <1>3, <1>4 DEF StateInit, StateTypeOK

\* Type correctness of the project's files and of the inits (scaffold.py, ledger.py),
\* in every interleaving.
THEOREM StateTypeCorrect == StateSpec => []StateTypeOK
  BY StateTypeInit, StateTypeStep, PTL DEF StateSpec

-----------------------------------------------------------------------------
(* An init alone: what it has settled so far.                              *)

\* One init at a time.
OneInit == \A p, q \in Procs : job[p] # None /\ job[q] # None => p = q

\* The files that init j is done with: those of its phase that it has no more to do,
\* and the scaffold in the later phases.
Settled(j, f) ==
    IF f \in Templates THEN j.phase # "scaffold" \/ f \notin j.todo
    ELSE j.phase = "defaults" /\ f \notin j.todo

FilesSettled(j) ==
    \A f \in Files : Settled(j, f) =>
        /\ TargetOf(f) \in j.over => content[f] = "default"
        /\ f \in Templates \/ j.missing => content[f] # "absent"

StateSupplied(j) ==
    /\ j.phase = "scaffold" /\ j.fresh => ~antma
    /\ j.phase # "scaffold" /\ (j.force \/ j.fresh) => j.missing
    /\ j.phase \in {"directories", "ledgers"} => j.missing
    /\ j.phase \in {"directories", "ledgers", "defaults"} /\ j.missing =>
         \A d \in Directories : d \in made \/ (j.phase = "directories" /\ d \in j.todo)
    /\ j.phase \in {"ledgers", "defaults"} /\ j.missing =>
         \A l \in Ledgers : ledger[l] # None \/ (j.phase = "ledgers" /\ l \in j.todo)

\* A file is opened for writing when it is absent or was to be overwritten, a ledger
\* only when there is none.
Licensed(j) ==
    /\ j.phase \in {"scaffold", "defaults"} /\ j.at # "check" =>
         TargetOf(j.item) \in j.over \/ content[j.item] # "edited"
    /\ j.phase = "ledgers" /\ j.at # "check" => ledger[j.item] = None

Progress == \A p \in Procs :
    job[p] # None => FilesSettled(job[p]) /\ StateSupplied(job[p]) /\ Licensed(job[p])

InitInv == StateTypeOK /\ OneInit /\ Progress
Sound(p) == FilesSettled(job[p]) /\ StateSupplied(job[p]) /\ Licensed(job[p])

\* What the helpers leave of the job.
LEMMA TakenJob ==
    ASSUME StateTypeOK, NEW p \in Procs, job[p] # None, NEW item, Take(p, item)
    PROVE  /\ job'[p].at = "open" /\ job'[p].item = item
           /\ job'[p].phase = job[p].phase /\ job'[p].todo = job[p].todo
           /\ job'[p].force = job[p].force /\ job'[p].over = job[p].over
           /\ job'[p].missing = job[p].missing /\ job'[p].fresh = job[p].fresh
<1>1. job[p] \in Jobs
  BY RunningJob
<1>2. job'[p] = [job[p] EXCEPT !.at = "open", !.item = item]
  BY DEF Take, StateTypeOK
<1> QED BY <1>1, <1>2 DEF Jobs

LEMMA DoneJob ==
    ASSUME StateTypeOK, NEW p \in Procs, job[p] # None, NEW item, Done(p, item)
    PROVE  /\ job'[p].at = "check" /\ job'[p].item = job[p].item
           /\ job'[p].phase = job[p].phase /\ job'[p].todo = job[p].todo \ {item}
           /\ job'[p].force = job[p].force /\ job'[p].over = job[p].over
           /\ job'[p].missing = job[p].missing /\ job'[p].fresh = job[p].fresh
<1>1. job[p] \in Jobs
  BY RunningJob
<1>2. job'[p] = [job[p] EXCEPT !.at = "check", !.todo = @ \ {item}]
  BY DEF Done, StateTypeOK
<1> QED BY <1>1, <1>2 DEF Jobs

LEMMA EnteredJob ==
    ASSUME StateTypeOK, NEW p \in Procs, job[p] # None, NEW phase, NEW missing,
           Enter(p, phase, missing)
    PROVE  /\ job'[p].at = job[p].at /\ job'[p].item = job[p].item
           /\ job'[p].phase = phase /\ job'[p].todo = Work[phase]
           /\ job'[p].force = job[p].force /\ job'[p].over = job[p].over
           /\ job'[p].missing = missing /\ job'[p].fresh = job[p].fresh
<1>1. job[p] \in Jobs
  BY RunningJob
<1>2. job'[p] = [job[p] EXCEPT !.phase = phase, !.todo = Work[phase], !.missing = missing]
  BY DEF Enter, StateTypeOK
<1> QED BY <1>1, <1>2 DEF Jobs

LEMMA FilesApart ==
    /\ Files = Templates \cup Defaults
    /\ \A f \in Defaults : f \notin Templates
  BY StateConstants DEF Files

LEMMA CheckFileSound ==
    ASSUME InitInv, NEW p \in Procs, NEW f \in Files, CheckFile(p, f)
    PROVE  Sound(p)'
<1> USE DEF InitInv
<1>1. /\ job[p] # None /\ job[p].at = "check" /\ f \in job[p].todo /\ Sound(p)
      /\ job[p].phase \in {"scaffold", "defaults"}
      /\ content' = content /\ antma' = antma /\ made' = made /\ ledger' = ledger
  BY DEF CheckFile, Running, Progress, Sound, fileVars, ledgerVars
<1>2. f \in Work[job[p].phase]
  BY <1>1, RunningJob DEF WellFormed
<1>3. CASE MustWrite(job[p], f)
  <2>1. Take(p, f)
    BY <1>3 DEF CheckFile
  <2>2. TargetOf(f) \in job[p].over \/ content[f] # "edited"
    BY <1>3 DEF MustWrite
  <2> QED BY <1>1, <2>1, <2>2, TakenJob DEF Sound, FilesSettled, Settled, StateSupplied, Licensed
<1>4. CASE ~MustWrite(job[p], f)
  <2>1. Done(p, f)
    BY <1>4 DEF CheckFile
  <2>2. /\ TargetOf(f) \notin job[p].over
        /\ f \in Templates \/ job[p].missing => content[f] # "absent"
    BY <1>4 DEF MustWrite
  <2>3. FilesSettled(job[p])'
    <3> SUFFICES ASSUME NEW g \in Files, Settled(job[p], g)'
                 PROVE  /\ TargetOf(g) \in job'[p].over => content'[g] = "default"
                        /\ g \in Templates \/ job'[p].missing => content'[g] # "absent"
      BY DEF FilesSettled, TargetOf
    <3>1. CASE g = f
      BY <3>1, <1>1, <2>1, <2>2, DoneJob
    <3>2. CASE g # f
      <4>1. Settled(job[p], g)
        BY <3>2, <1>1, <2>1, DoneJob DEF Settled
      <4> QED BY <4>1, <1>1, <2>1, DoneJob DEF Sound, FilesSettled
    <3> QED BY <3>1, <3>2
  <2> QED BY <1>1, <2>1, <2>3, DoneJob DEF Sound, StateSupplied, Licensed
<1> QED BY <1>3, <1>4

\* A file that is being written is still to do: nothing settled changes.
LEMMA WriteFileSound ==
    ASSUME InitInv, NEW p \in Procs, OpenFile(p) \/ FillFile(p)
    PROVE  Sound(p)'
<1> USE DEF InitInv
<1> DEFINE f == job[p].item
<1>1. /\ job[p] # None /\ job[p].at \in {"open", "fill"} /\ Sound(p)
      /\ job[p].phase \in {"scaffold", "defaults"}
      /\ made' = made /\ ledger' = ledger
  BY DEF OpenFile, FillFile, Running, Progress, Sound, ledgerVars
<1>2. f \in job[p].todo /\ f \in Work[job[p].phase] /\ f \in Files
  BY <1>1, RunningJob, WorkFacts, FilesApart DEF WellFormed
<1>3. ASSUME NEW g \in Files, Settled(job[p], g) PROVE g # f
  BY <1>1, <1>2, <1>3, WorkFacts, FilesApart DEF Settled
<1>4. \A g \in Files \ {f} : content'[g] = content[g]
  BY DEF OpenFile, FillFile, StateTypeOK
<1>5. CASE OpenFile(p)
  <2>1. job'[p] = [job[p] EXCEPT !.at = "fill"]
    BY <1>5 DEF OpenFile, StateTypeOK
  <2>2. /\ job'[p].at = "fill" /\ job'[p].item = f
        /\ job'[p].phase = job[p].phase /\ job'[p].todo = job[p].todo
        /\ job'[p].force = job[p].force /\ job'[p].over = job[p].over
        /\ job'[p].missing = job[p].missing /\ job'[p].fresh = job[p].fresh
    BY <1>1, <2>1, RunningJob DEF Jobs
  <2>3. content'[f] = "torn"
    BY <1>2, <1>5 DEF OpenFile, StateTypeOK
  <2>4. job[p].phase = "scaffold" => antma' = antma
    BY <1>2, <1>5, WorkFacts, FilesApart DEF OpenFile, StateTypeOK
  <2>5. FilesSettled(job[p])'
    <3> SUFFICES ASSUME NEW g \in Files, Settled(job[p], g)'
                 PROVE  /\ TargetOf(g) \in job'[p].over => content'[g] = "default"
                        /\ g \in Templates \/ job'[p].missing => content'[g] # "absent"
      BY DEF FilesSettled, TargetOf
    <3>1. Settled(job[p], g)
      BY <2>2 DEF Settled
    <3> QED BY <3>1, <1>1, <1>3, <1>4, <2>2 DEF Sound, FilesSettled
  <2> QED BY <1>1, <2>2, <2>3, <2>4, <2>5 DEF Sound, StateSupplied, Licensed
<1>6. CASE FillFile(p)
  <2>1. Done(p, f) /\ antma' = antma
    BY <1>6 DEF FillFile
  <2>2. content'[f] = "default"
    BY <1>2, <1>6 DEF FillFile, StateTypeOK
  <2>3. FilesSettled(job[p])'
    <3> SUFFICES ASSUME NEW g \in Files, Settled(job[p], g)'
                 PROVE  /\ TargetOf(g) \in job'[p].over => content'[g] = "default"
                        /\ g \in Templates \/ job'[p].missing => content'[g] # "absent"
      BY DEF FilesSettled, TargetOf
    <3>1. CASE g = f
      BY <3>1, <2>2
    <3>2. CASE g # f
      <4>1. Settled(job[p], g)
        BY <3>2, <1>1, <2>1, DoneJob DEF Settled
      <4> QED BY <4>1, <3>2, <1>1, <1>4, <2>1, DoneJob DEF Sound, FilesSettled
    <3> QED BY <3>1, <3>2
  <2> QED BY <1>1, <2>1, <2>3, DoneJob DEF Sound, StateSupplied, Licensed
<1> QED BY <1>5, <1>6

LEMMA EnterSound ==
    ASSUME InitInv, NEW p \in Procs, EnterState(p) \/ EnterLedgers(p) \/ EnterDefaults(p)
    PROVE  Sound(p)'
<1> USE DEF InitInv
<1>1. /\ job[p] # None /\ job[p].at = "check" /\ job[p].todo = {} /\ Sound(p)
      /\ content' = content /\ antma' = antma /\ made' = made /\ ledger' = ledger
  BY DEF EnterState, EnterLedgers, EnterDefaults, Running, Progress, Sound, fileVars, ledgerVars
<1>2. \A f \in Templates : Settled(job[p], f)
  BY <1>1 DEF Settled
<1>3. ASSUME job'[p].todo = Work[job'[p].phase], job'[p].phase # "scaffold", job'[p].over = job[p].over
      PROVE  FilesSettled(job[p])'
  <2> SUFFICES ASSUME NEW g \in Files, Settled(job[p], g)'
               PROVE  /\ TargetOf(g) \in job'[p].over => content'[g] = "default"
                      /\ g \in Templates \/ job'[p].missing => content'[g] # "absent"
    BY DEF FilesSettled, TargetOf
  <2>1. g \in Templates
    BY <1>3, WorkFacts, FilesApart DEF Settled
  <2> QED BY <1>1, <1>2, <1>3, <2>1 DEF Sound, FilesSettled
<1>4. ASSUME NEW phase \in DOMAIN Work \ {"scaffold"}, NEW missing, Enter(p, phase, missing)
      PROVE  /\ job'[p].at = "check" /\ job'[p].phase = phase /\ job'[p].todo = Work[phase]
             /\ job'[p].force = job[p].force /\ job'[p].missing = missing
             /\ job'[p].fresh = job[p].fresh
             /\ FilesSettled(job[p])' /\ Licensed(job[p])'
  <2>1. /\ job'[p].at = "check" /\ job'[p].phase = phase /\ job'[p].todo = Work[phase]
        /\ job'[p].force = job[p].force /\ job'[p].missing = missing
        /\ job'[p].fresh = job[p].fresh /\ job'[p].over = job[p].over
    BY <1>1, <1>4, EnteredJob
  <2> QED BY <1>3, <2>1 DEF Licensed
<1>5. CASE EnterState(p)
  <2>1. job[p].phase = "scaffold"
    BY <1>5 DEF EnterState, Running
  <2>2. CASE job[p].force \/ ~antma
    <3>1. Enter(p, "directories", TRUE)
      BY <1>5, <2>2 DEF EnterState
    <3>2. /\ job'[p].phase = "directories" /\ job'[p].todo = Work["directories"]
          /\ job'[p].missing = TRUE /\ FilesSettled(job[p])' /\ Licensed(job[p])'
      BY <1>4, <3>1, WorkFacts
    <3>3. StateSupplied(job[p])'
      BY <3>2, WorkFacts DEF StateSupplied
    <3> QED BY <3>2, <3>3 DEF Sound
  <2>3. CASE ~(job[p].force \/ ~antma)
    <3>1. Enter(p, "defaults", FALSE)
      BY <1>5, <2>3 DEF EnterState
    <3>2. ~job[p].force /\ ~job[p].fresh
      BY <1>1, <2>1, <2>3 DEF Sound, StateSupplied
    <3> QED BY <1>4, <3>1, <3>2, WorkFacts DEF Sound, StateSupplied
  <2> QED BY <2>2, <2>3
<1>6. CASE EnterLedgers(p)
  <2>1. job[p].phase = "directories" /\ Enter(p, "ledgers", TRUE)
    BY <1>6 DEF EnterLedgers, Running
  <2> QED BY <1>1, <1>4, <2>1, WorkFacts DEF Sound, StateSupplied
<1>7. CASE EnterDefaults(p)
  <2>1. job[p].phase = "ledgers" /\ Enter(p, "defaults", TRUE)
    BY <1>7 DEF EnterDefaults, Running
  <2> QED BY <1>1, <1>4, <2>1, WorkFacts DEF Sound, StateSupplied
<1> QED BY <1>5, <1>6, <1>7

\* The steps below .antma/ leave the files alone.
LEMMA SupplySound ==
    ASSUME InitInv, NEW p \in Procs,
           \/ \E d \in Directories : MakeDirectory(p, d)
           \/ \E l \in Ledgers : CheckLedger(p, l)
           \/ CreateLedger(p)
    PROVE  Sound(p)'
<1> USE DEF InitInv
<1>1. /\ job[p] # None /\ Sound(p) /\ content' = content
      /\ job[p].phase \in {"directories", "ledgers"}
  BY DEF MakeDirectory, CheckLedger, CreateLedger, Running, Progress, Sound, fileVars
<1>2. ASSUME job'[p].phase = job[p].phase, job'[p].over = job[p].over,
             job'[p].missing = job[p].missing
      PROVE  FilesSettled(job[p])'
  BY <1>1, <1>2 DEF Sound, FilesSettled, Settled, TargetOf
<1>3. ASSUME NEW d \in Directories, MakeDirectory(p, d) PROVE Sound(p)'
  <2>1. Done(p, d) /\ made' = made \cup {d} /\ ledger' = ledger /\ job[p].phase = "directories"
    BY <1>3 DEF MakeDirectory, Running, ledgerVars
  <2> QED BY <1>1, <1>2, <2>1, DoneJob DEF Sound, StateSupplied, Licensed
<1>4. ASSUME NEW l \in Ledgers, CheckLedger(p, l) PROVE Sound(p)'
  <2>1. /\ made' = made /\ ledger' = ledger /\ antma' = antma /\ job[p].phase = "ledgers"
        /\ IF ledger[l] = None THEN Take(p, l) ELSE Done(p, l)
    BY <1>4 DEF CheckLedger, Running, fileVars, ledgerVars
  <2> QED BY <1>1, <1>2, <2>1, TakenJob, DoneJob DEF Sound, StateSupplied, Licensed
<1>5. ASSUME CreateLedger(p) PROVE Sound(p)'
  <2>1. /\ Done(p, job[p].item) /\ made' = made /\ job[p].phase = "ledgers"
        /\ ledger' = [ledger EXCEPT ![job[p].item] = <<>>]
    BY <1>5 DEF CreateLedger, Running
  <2>2. <<>> # None
    <3>1. <<>> \in Texts
      BY DEF Texts
    <3> QED BY <3>1, NoneIsNoState
  <2>3. \A l \in Ledgers : ledger'[l] # None \/ (ledger[l] = None /\ l # job[p].item)
    BY <2>1, <2>2 DEF StateTypeOK
  <2> QED BY <1>1, <1>2, <2>1, <2>3, DoneJob DEF Sound, StateSupplied, Licensed
<1> QED BY <1>3, <1>4, <1>5

LEMMA StartSound ==
    ASSUME InitInv, NEW p \in Procs, StartInit(p)
    PROVE  Sound(p)'
<1>1. PICK force \in BOOLEAN, over \in SUBSET Targets :
        job' = [job EXCEPT ![p] =
                  [phase |-> "scaffold", at |-> "check", item |-> None, todo |-> Templates,
                   force |-> force, over |-> over, missing |-> FALSE, fresh |-> ~antma]]
  BY DEF StartInit
<1>2. job'[p].phase = "scaffold" /\ job'[p].at = "check" /\ job'[p].todo = Templates
      /\ job'[p].fresh = ~antma /\ antma' = antma
  BY <1>1 DEF InitInv, StateTypeOK, StartInit, fileVars
<1> QED BY <1>2 DEF Sound, FilesSettled, Settled, StateSupplied, Licensed

\* With one init at a time the others are idle before and after its steps.
LEMMA OnlyOneRuns ==
    ASSUME InitInv, NEW p \in Procs, JobStep(p), job[p] # None \/ NobodyInitialises,
           job'[p] # None => Sound(p)'
    PROVE  OneInit' /\ Progress'
<1>1. \A q \in Procs \ {p} : job'[q] = None
  BY DEF InitInv, OneInit, NobodyInitialises, JobStep, StateTypeOK
<1> QED BY <1>1 DEF OneInit, Progress, Sound

LEMMA InitInvStep ==
    ASSUME InitAlone, InitInv, [StateNext]_stateVars
    PROVE  InitInv'
<1>1. StateTypeOK'
  BY StateTypeStep DEF InitInv
<1>2. ASSUME NEW p \in Procs, StartInit(p) \/ InitStep(p) \/ KillInit(p)
      PROVE  OneInit' /\ Progress'
  <2>1. JobStep(p)
    BY <1>2, InitSteps DEF InitInv
  <2>2. job[p] # None \/ NobodyInitialises
    BY <1>2 DEF StartInit, Free, InitStep, KillInit, CheckFile, OpenFile, FillFile, EnterState,
                MakeDirectory, EnterLedgers, CheckLedger, CreateLedger, EnterDefaults, EndInit,
                AtEnd, InitFails, Running
  <2>3. CASE EndInit(p) \/ InitFails(p) \/ KillInit(p)
    <3>1. job'[p] = None
      BY <2>3 DEF EndInit, InitFails, KillInit, InitInv, StateTypeOK
    <3> QED BY <2>1, <2>2, <3>1, OnlyOneRuns
  <2>4. CASE ~(EndInit(p) \/ InitFails(p) \/ KillInit(p))
    <3>1. Sound(p)'
      BY <1>2, <2>4, StartSound, CheckFileSound, WriteFileSound, EnterSound, SupplySound DEF InitStep
    <3> QED BY <2>1, <2>2, <3>1, OnlyOneRuns
  <2> QED BY <2>3, <2>4
<1>3. ASSUME NobodyInitialises, job' = job PROVE OneInit' /\ Progress'
  BY <1>3 DEF NobodyInitialises, OneInit, Progress
<1>4. ASSUME NEW p \in Procs, NEW l \in Ledgers, AppendEvent(p, l) \/ AppendCut(p, l)
      PROVE  OneInit' /\ Progress'
  BY <1>3, <1>4 DEF AppendEvent, AppendCut, Free
<1>5. ASSUME \/ \E f \in Files : EditFile(f)
             \/ \E d \in Directories : RemoveDirectory(d)
             \/ IndexCreatesAntma
      PROVE  OneInit' /\ Progress'
  BY <1>3, <1>5 DEF EditFile, RemoveDirectory, IndexCreatesAntma
<1>6. ASSUME UNCHANGED stateVars PROVE OneInit' /\ Progress'
  BY <1>6 DEF stateVars, InitInv, OneInit, Progress, FilesSettled, Settled, TargetOf, StateSupplied,
              Licensed
<1> QED BY <1>1, <1>2, <1>4, <1>5, <1>6 DEF InitInv, StateNext

LEMMA InitInvInit ==
    StateInit => InitInv
  BY StateTypeInit DEF StateInit, InitInv, OneInit, Progress

-----------------------------------------------------------------------------
LEMMA CompletesStep ==
    ASSUME InitInv, NEW p \in Procs, AtEnd(p)
    PROVE  /\ \A f \in Templates : content[f] # "absent"
           /\ \A f \in Files : TargetOf(f) \in job[p].over => content[f] = "default"
           /\ job[p].force \/ job[p].fresh =>
                /\ made = Directories
                /\ \A l \in Ledgers : ledger[l] # None
                /\ \A f \in Defaults : content[f] # "absent"
<1>1. /\ job[p] # None /\ job[p].phase = "defaults" /\ job[p].todo = {}
      /\ FilesSettled(job[p]) /\ StateSupplied(job[p]) /\ made \subseteq Directories
  BY DEF AtEnd, Running, InitInv, Progress, StateTypeOK
<1>2. \A f \in Files : Settled(job[p], f)
  BY <1>1 DEF Settled
<1> QED BY <1>1, <1>2, FilesApart DEF FilesSettled, StateSupplied

\* When nobody else works during an init, one that ends has completed the project, with
\* --force also one whose state a stopped init had left half-made (scaffold.py).
THEOREM InitCompletesHolds ==
    ASSUME InitAlone
    PROVE  StateSpec => InitCompletes
<1>1. ASSUME InitInv PROVE
        \A p \in Procs : AtEnd(p) /\ job'[p] = None /\ p \notin dead' =>
          /\ \A f \in Templates : content[f] # "absent"
          /\ \A f \in Files : TargetOf(f) \in job[p].over => content[f] = "default"
          /\ job[p].force \/ job[p].fresh =>
               /\ made = Directories
               /\ \A l \in Ledgers : ledger[l] # None
               /\ \A f \in Defaults : content[f] # "absent"
  BY <1>1, CompletesStep
<1> QED BY InitInvInit, InitInvStep, <1>1, PTL DEF StateSpec, InitCompletes

LEMMA KeepsStep ==
    ASSUME InitInv, [StateNext]_stateVars, NEW f \in Files,
           content[f] = "edited", content'[f] \in {"torn", "default"}
    PROVE  \E p \in Procs : job[p] # None /\ TargetOf(f) \in job[p].over
<1>1. content'[f] # content[f]
  OBVIOUS
<1>2. ASSUME NEW g \in Files, EditFile(g) PROVE FALSE
  BY <1>2 DEF EditFile, InitInv, StateTypeOK
<1>3. PICK p \in Procs : OpenFile(p) \/ FillFile(p)
  BY <1>1, <1>2 DEF StateNext, InitStep, StartInit, KillInit, CheckFile, EnterState, MakeDirectory,
                    EnterLedgers, CheckLedger, CreateLedger, EnterDefaults, EndInit, InitFails,
                    AppendEvent, AppendCut, RemoveDirectory, IndexCreatesAntma, fileVars, ledgerVars,
                    stateVars
<1>4. f = job[p].item
  BY <1>1, <1>3 DEF OpenFile, FillFile, InitInv, StateTypeOK
<1>5. job[p] # None /\ Licensed(job[p]) /\ job[p].phase \in {"scaffold", "defaults"}
      /\ job[p].at # "check"
  BY <1>3 DEF OpenFile, FillFile, Running, InitInv, Progress
<1> QED BY <1>4, <1>5 DEF Licensed

\* When nobody else works during an init, no init writes over what the user has edited
\* unless it was asked to overwrite that target (scaffold.py).
THEOREM UserContentKeptHolds ==
    ASSUME InitAlone
    PROVE  StateSpec => UserContentKept
<1>1. ASSUME InitInv, [StateNext]_stateVars PROVE
        \A f \in Files : content[f] = "edited" /\ content'[f] \in {"torn", "default"} =>
          \E p \in Procs : job[p] # None /\ TargetOf(f) \in job[p].over
  BY <1>1, KeepsStep
<1> QED BY InitInvInit, InitInvStep, <1>1, PTL DEF StateSpec, UserContentKept

-----------------------------------------------------------------------------
(* The ledgers.                                                            *)

\* The text of a ledger holds the events in the order they were appended, those whose
\* append returned among them, and while no append was cut short nothing else.
Kept(l) ==
    LET text == Text(l)
        done == recorded[l] IN
    /\ \A m, n \in DOMAIN text : text[m] \in Nat =>
         text[m] <= events /\ (text[n] \in Nat /\ m < n => text[m] < text[n])
    /\ \A i, j \in DOMAIN done : done[i] <= events /\ (i < j => done[i] < done[j])
    /\ \A i \in DOMAIN done : \E m \in DOMAIN text : text[m] = done[i]
    /\ l \notin cut =>
         /\ Len(text) = 2 * Len(done)
         /\ \A i \in DOMAIN done : text[2 * i - 1] = done[i] /\ text[2 * i] = Break

LedgersKept == \A l \in Ledgers : Kept(l)

\* A text with more put behind it.
LEMMA AppendedText ==
    ASSUME NEW text \in Texts, NEW more \in Texts, Len(more) \in {1, 2}
    PROVE  /\ text \o more \in Texts /\ Len(text) \in Nat
           /\ DOMAIN text = 1..Len(text)
           /\ DOMAIN (text \o more) = 1..(Len(text) + Len(more))
           /\ Len(text \o more) = Len(text) + Len(more)
           /\ \A i \in DOMAIN text : (text \o more)[i] = text[i]
           /\ (text \o more)[Len(text) + 1] = more[1]
           /\ Len(more) = 2 => (text \o more)[Len(text) + 2] = more[2]
  BY DEF Texts

\* An append that returns: the event and its line break.
LEMMA AppendKeeps ==
    ASSUME StateTypeOK, NEW p \in Procs, NEW l \in Ledgers, AppendEvent(p, l), Kept(l)
    PROVE  Kept(l)'
<1> DEFINE text == Text(l)
           done == recorded[l]
           e == events + 1
           more == <<e, Break>>
           k == Len(text)
           n == Len(done)
<1>1. /\ events' = e /\ cut' = cut
      /\ Text(l)' = text \o more /\ recorded'[l] = Append(done, e)
  <2>1. ledger'[l] = text \o more
    BY DEF AppendEvent, StateTypeOK
  <2>2. text \o more \in Texts
    BY TextIsText DEF Texts, StateTypeOK
  <2>3. text \o more # None
    BY <2>2, NoneIsNoState
  <2> QED BY <2>1, <2>3 DEF AppendEvent, NewEvent, StateTypeOK, Text
<1>2. events \in Nat /\ e \in Nat /\ e > events
  BY StateConstants DEF StateTypeOK
<1>3. text \in Texts /\ more \in Texts /\ Len(more) = 2 /\ more[1] = e /\ more[2] = Break
  BY <1>2, TextIsText DEF Texts
<1>4. /\ k \in Nat /\ DOMAIN text = 1..k
      /\ DOMAIN (text \o more) = 1..(k + 2) /\ Len(text \o more) = k + 2
      /\ \A i \in DOMAIN text : (text \o more)[i] = text[i]
      /\ (text \o more)[k + 1] = e /\ (text \o more)[k + 2] = Break
  BY <1>3, AppendedText
<1>5. /\ n \in Nat /\ DOMAIN done = 1..n /\ \A i \in DOMAIN done : done[i] \in Nat
      /\ DOMAIN Append(done, e) = 1..(n + 1) /\ Len(Append(done, e)) = n + 1
      /\ \A i \in DOMAIN done : Append(done, e)[i] = done[i]
      /\ Append(done, e)[n + 1] = e
  BY <1>2 DEF StateTypeOK
<1>6. Break \notin Nat
  BY StateConstants
<1> DEFINE T == text \o more
           D == Append(done, e)
<1>7. /\ \A m, j \in DOMAIN text : text[m] \in Nat =>
           text[m] <= events /\ (text[j] \in Nat /\ m < j => text[m] < text[j])
      /\ \A i, j \in DOMAIN done : done[i] <= events /\ (i < j => done[i] < done[j])
      /\ \A i \in DOMAIN done : \E m \in DOMAIN text : text[m] = done[i]
      /\ l \notin cut =>
           /\ k = 2 * n
           /\ \A i \in DOMAIN done : text[2 * i - 1] = done[i] /\ text[2 * i] = Break
  BY DEF Kept
<1> HIDE DEF T, D, text, done, e, k, n
<1>8. \A m, j \in DOMAIN T : T[m] \in Nat => T[m] <= e /\ (T[j] \in Nat /\ m < j => T[m] < T[j])
  <2> SUFFICES ASSUME NEW m \in 1..(k + 2), NEW j \in 1..(k + 2), T[m] \in Nat
               PROVE  T[m] <= e /\ (T[j] \in Nat /\ m < j => T[m] < T[j])
    BY <1>4 DEF T
  <2>1. m \in DOMAIN text \/ m = k + 1
    BY <1>4, <1>6 DEF T
  <2>2. ASSUME T[j] \in Nat PROVE j \in DOMAIN text \/ j = k + 1
    BY <2>2, <1>4, <1>6 DEF T
  <2>3. T[m] <= e
    BY <2>1, <1>2, <1>4, <1>7 DEF T
  <2>4. ASSUME T[j] \in Nat, m < j PROVE T[m] < T[j]
    <3>1. m \in DOMAIN text
      BY <2>1, <2>2, <2>4, <1>4
    <3>2. CASE j \in DOMAIN text
      BY <2>4, <3>1, <3>2, <1>4, <1>7 DEF T
    <3>3. CASE j = k + 1
      BY <3>1, <3>3, <1>2, <1>4, <1>7 DEF T
    <3> QED BY <2>2, <2>4, <3>2, <3>3
  <2> QED BY <2>3, <2>4
<1>9. \A i, j \in DOMAIN D : D[i] <= e /\ (i < j => D[i] < D[j])
  <2> SUFFICES ASSUME NEW i \in 1..(n + 1), NEW j \in 1..(n + 1)
               PROVE  D[i] <= e /\ (i < j => D[i] < D[j])
    BY <1>5 DEF D
  <2>1. (i \in DOMAIN done \/ i = n + 1) /\ (j \in DOMAIN done \/ j = n + 1)
    BY <1>5
  <2> QED BY <2>1, <1>2, <1>5, <1>7 DEF D
<1>10. \A i \in DOMAIN D : \E m \in DOMAIN T : T[m] = D[i]
  <2> SUFFICES ASSUME NEW i \in 1..(n + 1) PROVE \E m \in DOMAIN T : T[m] = D[i]
    BY <1>5 DEF D
  <2>1. CASE i \in DOMAIN done
    <3>1. PICK m \in DOMAIN text : text[m] = done[i]
      BY <1>7, <2>1
    <3>2. m \in DOMAIN T
      BY <1>4 DEF T
    <3> QED BY <2>1, <3>1, <3>2, <1>4, <1>5 DEF T, D
  <2>2. CASE i = n + 1
    <3>1. k + 1 \in DOMAIN T
      BY <1>4 DEF T
    <3> QED BY <2>2, <3>1, <1>4, <1>5 DEF T, D
  <2> QED BY <2>1, <2>2, <1>5
<1>11. ASSUME l \notin cut
       PROVE  /\ Len(T) = 2 * Len(D)
              /\ \A i \in DOMAIN D : T[2 * i - 1] = D[i] /\ T[2 * i] = Break
  <2>1. k = 2 * n
    BY <1>7, <1>11
  <2>2. Len(T) = 2 * Len(D)
    BY <2>1, <1>4, <1>5 DEF T, D
  <2>3. ASSUME NEW i \in DOMAIN done PROVE T[2 * i - 1] = D[i] /\ T[2 * i] = Break
    <3>1. 2 * i - 1 \in DOMAIN text /\ 2 * i \in DOMAIN text
      BY <2>1, <1>4, <1>5
    <3> QED BY <3>1, <1>4, <1>5, <1>7, <1>11 DEF T, D
  <2>4. T[2 * (n + 1) - 1] = D[n + 1] /\ T[2 * (n + 1)] = Break
    <3>1. 2 * (n + 1) - 1 = k + 1 /\ 2 * (n + 1) = k + 2
      BY <2>1, <1>5
    <3> QED BY <3>1, <1>4, <1>5 DEF T, D
  <2>5. \A i \in DOMAIN D : i \in DOMAIN done \/ i = n + 1
    BY <1>5 DEF D
  <2> HIDE DEF T, D
  <2>6. ASSUME NEW i \in DOMAIN D PROVE T[2 * i - 1] = D[i] /\ T[2 * i] = Break
    <3>1. CASE i \in DOMAIN done
      BY <2>3, <3>1
    <3>2. CASE i = n + 1
      BY <2>4, <3>2
    <3> QED BY <2>5, <3>1, <3>2
  <2> QED BY <2>2, <2>6
<1>12. /\ Text(l)' = T /\ recorded'[l] = D /\ events' = e /\ cut' = cut
  BY <1>1 DEF T, D, text, done
<1> HIDE DEF T, D
<1> QED BY <1>8, <1>9, <1>10, <1>11, <1>12 DEF Kept

\* An append cut short: a piece of the event, or the event without its line break.
LEMMA CutKeeps ==
    ASSUME StateTypeOK, NEW p \in Procs, NEW l \in Ledgers, AppendCut(p, l), Kept(l)
    PROVE  Kept(l)'
<1> DEFINE text == Text(l)
           done == recorded[l]
           k == Len(text)
<1>1. PICK piece \in {events + 1, Torn} : ledger' = [ledger EXCEPT ![l] = Append(text, piece)]
  BY DEF AppendCut
<1> DEFINE T == Append(text, piece)
<1>2. events \in Nat /\ events' = events + 1 /\ l \in cut' /\ recorded' = recorded
  BY StateConstants DEF AppendCut, NewEvent, StateTypeOK
<1>3. text \in Texts /\ T \in Texts
  BY <1>2, TextIsText DEF Texts
<1>4. Text(l)' = T
  BY <1>1, <1>3, NoneIsNoState DEF Text, StateTypeOK
<1>5. /\ k \in Nat /\ DOMAIN text = 1..k /\ DOMAIN T = 1..(k + 1)
      /\ \A i \in DOMAIN text : T[i] = text[i]
      /\ T[k + 1] = piece
  BY <1>3 DEF Texts
<1>6. piece \in Nat => piece = events + 1
  BY StateConstants
<1>7. \A i \in DOMAIN done : done[i] \in Nat
  BY DEF StateTypeOK
<1>8. /\ \A m, j \in DOMAIN text : text[m] \in Nat =>
           text[m] <= events /\ (text[j] \in Nat /\ m < j => text[m] < text[j])
      /\ \A i, j \in DOMAIN done : done[i] <= events /\ (i < j => done[i] < done[j])
      /\ \A i \in DOMAIN done : \E m \in DOMAIN text : text[m] = done[i]
  BY DEF Kept
<1> HIDE DEF T, text, done, k
<1>9. \A m, j \in DOMAIN T : T[m] \in Nat =>
        T[m] <= events' /\ (T[j] \in Nat /\ m < j => T[m] < T[j])
  <2> SUFFICES ASSUME NEW m \in 1..(k + 1), NEW j \in 1..(k + 1), T[m] \in Nat
               PROVE  T[m] <= events' /\ (T[j] \in Nat /\ m < j => T[m] < T[j])
    BY <1>5
  <2>1. (m \in DOMAIN text \/ m = k + 1) /\ (j \in DOMAIN text \/ j = k + 1)
    BY <1>5
  <2>2. T[m] <= events'
    BY <2>1, <1>2, <1>5, <1>6, <1>8
  <2>3. ASSUME T[j] \in Nat, m < j PROVE T[m] < T[j]
    BY <2>1, <2>3, <1>2, <1>5, <1>6, <1>8
  <2> QED BY <2>2, <2>3
<1>10. \A i, j \in DOMAIN done : done[i] <= events' /\ (i < j => done[i] < done[j])
  BY <1>2, <1>7, <1>8
<1>11. \A i \in DOMAIN done : \E m \in DOMAIN T : T[m] = done[i]
  <2> SUFFICES ASSUME NEW i \in DOMAIN done PROVE \E m \in DOMAIN T : T[m] = done[i]
    OBVIOUS
  <2>1. PICK m \in DOMAIN text : text[m] = done[i]
    BY <1>8
  <2>2. m \in DOMAIN T
    BY <1>5
  <2> QED BY <2>1, <2>2, <1>5
<1> QED BY <1>2, <1>4, <1>9, <1>10, <1>11 DEF Kept, done

\* A step that leaves the text of l and its events alone.
LEMMA SameText ==
    ASSUME StateTypeOK, StateTypeOK', NEW l \in Ledgers, Kept(l), Text(l)' = Text(l),
           recorded'[l] = recorded[l], events <= events', l \notin cut' => l \notin cut
    PROVE  Kept(l)'
<1>1. events \in Nat /\ events' \in Nat
  BY StateConstants DEF StateTypeOK
<1>2. \A i \in DOMAIN recorded[l] : recorded[l][i] \in Nat
  BY DEF StateTypeOK
<1> QED BY <1>1, <1>2 DEF Kept

LEMMA KeptStep ==
    ASSUME InitInv, LedgersKept, [StateNext]_stateVars
    PROVE  LedgersKept'
<1> SUFFICES ASSUME NEW l \in Ledgers PROVE Kept(l)'
  BY DEF LedgersKept
<1>1. StateTypeOK /\ StateTypeOK' /\ events \in Nat /\ Kept(l)
  BY StateTypeStep, StateConstants DEF InitInv, StateTypeOK, LedgersKept
<1>2. ASSUME UNCHANGED ledgerVars PROVE Kept(l)'
  BY <1>1, <1>2 DEF ledgerVars, Kept, Text
<1>3. ASSUME NEW p \in Procs, CreateLedger(p) PROVE Kept(l)'
  <2>1. /\ job[p].phase = "ledgers" /\ job[p].at = "open" /\ Licensed(job[p])
        /\ ledger' = [ledger EXCEPT ![job[p].item] = <<>>]
        /\ UNCHANGED <<events, recorded, cut>>
    BY <1>3 DEF CreateLedger, Running, InitInv, Progress
  <2>2. ledger[job[p].item] = None
    BY <2>1 DEF Licensed
  <2>3. Text(l)' = Text(l)
    BY <1>1, <2>1, <2>2 DEF Text, StateTypeOK
  <2> QED BY <1>1, <2>1, <2>3, SameText
<1>4. ASSUME NEW p \in Procs, NEW k \in Ledgers, AppendEvent(p, k) \/ AppendCut(p, k)
      PROVE  Kept(l)'
  <2>1. CASE k = l
    BY <1>1, <1>4, <2>1, AppendKeeps, CutKeeps
  <2>2. CASE k # l
    <3>1. /\ events' = events + 1 /\ recorded'[l] = recorded[l] /\ ledger'[l] = ledger[l]
          /\ l \in cut' <=> l \in cut
      BY <1>1, <1>4, <2>2 DEF AppendEvent, AppendCut, NewEvent, StateTypeOK
    <3> QED BY <1>1, <3>1, SameText DEF Text
  <2> QED BY <2>1, <2>2
<1>5. ASSUME NEW p \in Procs,
             StartInit(p) \/ (InitStep(p) /\ ~CreateLedger(p)) \/ KillInit(p)
      PROVE  UNCHANGED ledgerVars
  BY <1>5 DEF InitStep, StartInit, KillInit, CheckFile, OpenFile, FillFile, EnterState,
              MakeDirectory, EnterLedgers, CheckLedger, EnterDefaults, EndInit, InitFails
<1>6. ASSUME \/ \E f \in Files : EditFile(f)
             \/ \E d \in Directories : RemoveDirectory(d)
             \/ IndexCreatesAntma
      PROVE  UNCHANGED ledgerVars
  BY <1>6 DEF EditFile, RemoveDirectory, IndexCreatesAntma
<1>7. CASE UNCHANGED stateVars
  BY <1>2, <1>7 DEF stateVars, ledgerVars
<1> QED BY <1>2, <1>3, <1>4, <1>5, <1>6, <1>7 DEF StateNext, InitStep

\* Every second piece of a text of whole records is a line break.
LEMMA Halves ==
    ASSUME NEW n \in Nat
    PROVE  /\ (2 * n + 1) \div 2 = n
           /\ \A i \in 1..(2 * n) : \E j \in 1..n :
                IF i % 2 = 1 THEN i = 2 * j - 1 ELSE i = 2 * j
<1>1. (2 * n + 1) \div 2 = n
  OBVIOUS
<1>2. ASSUME NEW i \in 1..(2 * n)
      PROVE  \E j \in 1..n : IF i % 2 = 1 THEN i = 2 * j - 1 ELSE i = 2 * j
  <2>1. i \div 2 \in Nat /\ i % 2 \in {0, 1} /\ i % 2 = i - 2 * (i \div 2)
    OBVIOUS
  <2> DEFINE half == i \div 2
  <2>2. CASE i % 2 = 1
    <3>1. i = 2 * (half + 1) - 1 /\ half + 1 \in 1..n
      BY <2>1, <2>2
    <3> QED BY <2>2, <3>1
  <2>3. CASE i % 2 = 0
    <3>1. i = 2 * half /\ half \in 1..n
      BY <2>1, <2>3
    <3> QED BY <2>3, <3>1
  <2> QED BY <2>1, <2>2, <2>3
<1> QED BY <1>1, <1>2

LEMMA KeptIsFaithful ==
    ASSUME StateTypeOK, NEW l \in Ledgers, Kept(l)
    PROVE  /\ \A i, j \in DOMAIN recorded[l], m, n \in DOMAIN Text(l) :
                Text(l)[m] = recorded[l][i] /\ Text(l)[n] = recorded[l][j] => (i < j <=> m < n)
           /\ l \notin cut /\ (\A i \in DOMAIN recorded[l] : recorded[l][i] \notin separated) =>
                Readable(Text(l)) /\ ReadJsonl(Text(l)) = recorded[l]
<1> DEFINE text == Text(l)
           done == recorded[l]
           k == Len(text)
           n == Len(done)
<1>1. /\ k \in Nat /\ DOMAIN text = 1..k
      /\ n \in Nat /\ DOMAIN done = 1..n /\ \A i \in DOMAIN done : done[i] \in Nat
      /\ done = [i \in 1..n |-> done[i]]
  BY TextIsText DEF Texts, StateTypeOK
<1>2. /\ \A m, j \in DOMAIN text : text[m] \in Nat =>
           (text[j] \in Nat /\ m < j => text[m] < text[j])
      /\ \A i, j \in DOMAIN done : i < j => done[i] < done[j]
      /\ l \notin cut =>
           /\ k = 2 * n
           /\ \A i \in DOMAIN done : text[2 * i - 1] = done[i] /\ text[2 * i] = Break
  BY DEF Kept
<1> HIDE DEF text, done, k, n
<1>3. ASSUME NEW i \in DOMAIN done, NEW j \in DOMAIN done, NEW a \in DOMAIN text,
             NEW b \in DOMAIN text, text[a] = done[i], text[b] = done[j]
      PROVE  i < j <=> a < b
  <2>1. i \in Nat /\ j \in Nat /\ a \in Nat /\ b \in Nat /\ done[i] \in Nat /\ done[j] \in Nat
    BY <1>1
  <2>2. CASE i < j
    BY <1>2, <1>3, <2>1, <2>2
  <2>3. CASE j < i
    BY <1>2, <1>3, <2>1, <2>3
  <2>4. CASE i = j
    BY <1>2, <1>3, <2>1, <2>4
  <2> QED BY <2>1, <2>2, <2>3, <2>4
<1>4. ASSUME l \notin cut, \A i \in DOMAIN done : done[i] \notin separated
      PROVE  Readable(text) /\ ReadJsonl(text) = done
  <2>1. k = 2 * n /\ \A i \in DOMAIN done : text[2 * i - 1] = done[i] /\ text[2 * i] = Break
    BY <1>2, <1>4
  <2>2. Readable(text)
    <3> SUFFICES ASSUME NEW i \in 1..k
                 PROVE  IF i % 2 = 1 THEN text[i] \in Nat \ separated ELSE text[i] = Break
      BY DEF Readable, k
    <3>1. PICK j \in 1..n : IF i % 2 = 1 THEN i = 2 * j - 1 ELSE i = 2 * j
      BY <1>1, <2>1, Halves
    <3> QED BY <1>1, <1>4, <2>1, <3>1
  <2>3. (k + 1) \div 2 = n
    BY <1>1, <2>1, Halves
  <2>4. ReadJsonl(text) = [i \in 1..n |-> text[2 * i - 1]]
    BY <2>3 DEF ReadJsonl, k
  <2> QED BY <1>1, <2>1, <2>2, <2>4
<1> QED BY <1>3, <1>4 DEF text, done

\* When nobody else works during an init, no event whose append returned is lost from a
\* ledger, doubled or moved before an earlier one, whatever appends were cut short and
\* inits stopped or repeated; and a ledger without a cut append reads back as exactly
\* those events, unless one of them holds a line separator of splitlines() (ledger.py
\* append_jsonl, read_jsonl; scaffold.py create_antma_state).
THEOREM LedgerFaithfulHolds ==
    ASSUME InitAlone
    PROVE  StateSpec => []LedgerFaithful
<1>1. StateInit => LedgersKept
  <2> SUFFICES ASSUME StateInit, NEW l \in Ledgers PROVE Kept(l)
    BY DEF LedgersKept
  <2>1. Text(l) = <<>> /\ recorded[l] = <<>>
    BY DEF StateInit, Text
  <2> QED BY <2>1 DEF Kept
<1>2. InitInv /\ LedgersKept /\ [StateNext]_stateVars => LedgersKept'
  BY KeptStep
<1>3. InitInv /\ LedgersKept => LedgerFaithful
  <2> SUFFICES ASSUME InitInv, NEW l \in Ledgers, Kept(l)
               PROVE  /\ \A i \in DOMAIN recorded[l] :
                           \E m \in DOMAIN Text(l) : Text(l)[m] = recorded[l][i]
                      /\ \A i, j \in DOMAIN recorded[l], m, n \in DOMAIN Text(l) :
                           Text(l)[m] = recorded[l][i] /\ Text(l)[n] = recorded[l][j]
                           => (i < j <=> m < n)
                      /\ l \notin cut /\ (\A i \in DOMAIN recorded[l] :
                                             recorded[l][i] \notin separated) =>
                           Readable(Text(l)) /\ ReadJsonl(Text(l)) = recorded[l]
    BY DEF LedgerFaithful, LedgersKept
  <2>1. \A i \in DOMAIN recorded[l] : \E m \in DOMAIN Text(l) : Text(l)[m] = recorded[l][i]
    BY DEF Kept
  <2> QED BY <2>1, KeptIsFaithful DEF InitInv
<1> QED BY InitInvInit, InitInvStep, <1>1, <1>2, <1>3, PTL DEF StateSpec
=============================================================================
