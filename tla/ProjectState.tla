---------------------------- MODULE ProjectState ----------------------------
(***************************************************************************)
(* The files a project starts with and keeps: `antma init` creates the     *)
(* scaffold and the state below .antma/ (scaffold.py), repeatedly, with    *)
(* --force and --overwrite, and every command appends its events to the    *)
(* JSONL ledgers (ledger.py).                                              *)
(*                                                                         *)
(* init is a sequence of file operations and may stop between any two.  An *)
(* append is one write at the end of the file that may be cut short; the   *)
(* next append goes on behind whatever is there, on the same line when the *)
(* line break is missing.  The code makes the files in the order of its    *)
(* tables; the model in any order.                                         *)
(***************************************************************************)
EXTENDS Naturals, Sequences, Workspace

CONSTANTS
    Templates,    \* the files of the scaffold
    Directories,  \* the directories of .antma/ that hold neither a ledger nor a default
    Ledgers,      \* the ledger files
    InitAlone,    \* TRUE when nobody else works while an init runs
    Torn, Break,  \* a part of a ledger record; a line break
    MaxEvents     \* bound: the events appended

\* .antma/config.toml and .antma/policies/default.toml
Defaults == {"config", "policy"}
Files == Templates \cup Defaults
Items == Files \cup Directories \cup Ledgers

Targets == {"scaffold", "config", "policy"}

ASSUME StateConstants ==
    /\ InitAlone \in BOOLEAN
    /\ MaxEvents \in Nat
    /\ Torn \notin Nat /\ Break \notin Nat /\ Torn # Break
    /\ Templates \cap Defaults = {} /\ Ledgers \cap Files = {} /\ None \notin Items

VARIABLES
    content,   \* content[f]: what is in the file f
    antma,     \* whether .antma/ exists
    made,      \* the directories that exist
    ledger,    \* ledger[l]: its text, or None
    events,    \* how many events have been written or begun
    separated, \* the events with a character at which str.splitlines() breaks a line
    job,       \* job[p]: the init p is running, or None
    recorded,  \* auxiliary: recorded[l]: the events whose append returned
    cut        \* auxiliary: the ledgers in which an append was cut short

stateVars == <<dead, content, antma, made, ledger, events, separated, job, recorded, cut>>
fileVars == <<content, antma, made>>
ledgerVars == <<ledger, events, separated, recorded, cut>>

Contents == {"absent", "torn", "default", "edited"}

\* A ledger is a text of records, parts of records and line breaks.
Texts == Seq(Nat \cup {Torn, Break})

\* What an init does, phase by phase.
Work == [scaffold |-> Templates, directories |-> Directories, ledgers |-> Ledgers,
         defaults |-> Defaults]
Jobs == [phase : DOMAIN Work, at : {"check", "open", "fill"}, item : Items \cup {None},
         todo : SUBSET Items, force : BOOLEAN, over : SUBSET Targets,
         missing : BOOLEAN, fresh : BOOLEAN]

ASSUME NoneIsNoState == None \notin Texts /\ None \notin Jobs

StateTypeOK ==
    /\ dead \subseteq Mortal
    /\ content \in [Files -> Contents]
    /\ antma \in BOOLEAN /\ made \subseteq Directories
    /\ made # {} => antma
    /\ ledger \in [Ledgers -> Texts \cup {None}]
    /\ events \in 0..MaxEvents /\ separated \subseteq 1..events
    /\ job \in [Procs -> Jobs \cup {None}]
    /\ recorded \in [Ledgers -> Seq(Nat)]
    /\ cut \subseteq Ledgers
    /\ \A p \in Procs : job[p] # None =>
         /\ job[p].todo \subseteq Work[job[p].phase]
         /\ job[p].at # "check" => job[p].item \in job[p].todo

StateInit ==
    /\ dead = {}
    /\ content = [f \in Files |-> "absent"]
    /\ antma = FALSE /\ made = {}
    /\ ledger = [l \in Ledgers |-> None]
    /\ events = 0 /\ separated = {}
    /\ job = [p \in Procs |-> None]
    /\ recorded = [l \in Ledgers |-> <<>>]
    /\ cut = {}

-----------------------------------------------------------------------------
(* antma init: create_workspace, create_antma_state.                       *)

Running(p, phase, point) ==
    Alive(p) /\ job[p] # None /\ job[p].phase = phase /\ job[p].at = point

NobodyInitialises == \A q \in Procs : job[q] = None

Free(p) ==
    /\ Alive(p)
    /\ job[p] = None
    /\ InitAlone => NobodyInitialises

StartInit(p) ==
    /\ Free(p)
    /\ \E force \in BOOLEAN, over \in SUBSET Targets :
         job' = [job EXCEPT ![p] =
                   [phase |-> "scaffold", at |-> "check", item |-> None, todo |-> Templates,
                    force |-> force, over |-> over, missing |-> FALSE, fresh |-> ~antma]]
    /\ UNCHANGED <<dead, fileVars, ledgerVars>>

TargetOf(f) == IF f \in Templates THEN "scaffold" ELSE f

\* Mutant: --force rewrites what it finds.
MustWriteMutant(j, f) ==
    TargetOf(f) \in j.over \/ j.force \/ (content[f] = "absent" /\ (f \in Templates \/ j.missing))

\* What is absent is written, below .antma/ only when the missing is supplemented,
\* and what the user asked to be overwritten.
MustWrite(j, f) ==
    TargetOf(f) \in j.over \/ (content[f] = "absent" /\ (f \in Templates \/ j.missing))

Take(p, item) == job' = [job EXCEPT ![p].at = "open", ![p].item = item]
Done(p, item) == job' = [job EXCEPT ![p].at = "check", ![p].todo = @ \ {item}]

CheckFile(p, f) ==
    /\ Running(p, "scaffold", "check") \/ Running(p, "defaults", "check")
    /\ f \in job[p].todo
    /\ IF MustWrite(job[p], f) THEN Take(p, f) ELSE Done(p, f)
    /\ UNCHANGED <<dead, fileVars, ledgerVars>>

\* write_text truncates the file (or creates it), with .antma/policies/ above it.
OpenFile(p) ==
    /\ Running(p, "scaffold", "open") \/ Running(p, "defaults", "open")
    /\ content' = [content EXCEPT ![job[p].item] = "torn"]
    /\ antma' = (antma \/ job[p].item \in Defaults)
    /\ job' = [job EXCEPT ![p].at = "fill"]
    /\ UNCHANGED <<dead, made, ledgerVars>>

FillFile(p) ==
    /\ Running(p, "scaffold", "fill") \/ Running(p, "defaults", "fill")
    /\ content' = [content EXCEPT ![job[p].item] = "default"]
    /\ Done(p, job[p].item)
    /\ UNCHANGED <<dead, antma, made, ledgerVars>>

Enter(p, phase, missing) ==
    job' = [job EXCEPT ![p].phase = phase, ![p].todo = Work[phase], ![p].missing = missing]

\* Mutant: a second init only completes what is below .antma/ when forced to.
EnterStateMutant(p) ==
    /\ Running(p, "scaffold", "check") /\ job[p].todo = {}
    /\ IF job[p].force THEN Enter(p, "directories", TRUE)
       ELSE Enter(p, "defaults", ~antma)
    /\ UNCHANGED <<dead, fileVars, ledgerVars>>

\* write_missing = force or not antma_root.exists()
EnterState(p) ==
    /\ Running(p, "scaffold", "check") /\ job[p].todo = {}
    /\ IF job[p].force \/ ~antma THEN Enter(p, "directories", TRUE)
       ELSE Enter(p, "defaults", FALSE)
    /\ UNCHANGED <<dead, fileVars, ledgerVars>>

\* Mutant: the directory appears without the ones above it.
MakeDirectoryMutant(p, d) ==
    /\ Running(p, "directories", "check")
    /\ d \in job[p].todo
    /\ made' = made \cup {d}
    /\ Done(p, d)
    /\ UNCHANGED <<dead, content, antma, ledgerVars>>

MakeDirectory(p, d) ==
    /\ Running(p, "directories", "check")
    /\ d \in job[p].todo
    /\ made' = made \cup {d} /\ antma' = TRUE
    /\ Done(p, d)
    /\ UNCHANGED <<dead, content, ledgerVars>>

EnterLedgers(p) ==
    /\ Running(p, "directories", "check") /\ job[p].todo = {}
    /\ Enter(p, "ledgers", TRUE)
    /\ UNCHANGED <<dead, fileVars, ledgerVars>>

\* Mutant: the ledger is created anew.
CheckLedgerMutant(p, l) ==
    /\ Running(p, "ledgers", "check")
    /\ l \in job[p].todo
    /\ Take(p, l)
    /\ UNCHANGED <<dead, fileVars, ledgerVars>>

CheckLedger(p, l) ==
    /\ Running(p, "ledgers", "check")
    /\ l \in job[p].todo
    /\ IF ledger[l] = None THEN Take(p, l) ELSE Done(p, l)
    /\ UNCHANGED <<dead, fileVars, ledgerVars>>

\* target.write_text(""), whatever is there by now.
CreateLedger(p) ==
    /\ Running(p, "ledgers", "open")
    /\ ledger' = [ledger EXCEPT ![job[p].item] = <<>>]
    /\ antma' = TRUE
    /\ Done(p, job[p].item)
    /\ UNCHANGED <<dead, content, made, events, separated, recorded, cut>>

EnterDefaults(p) ==
    /\ Running(p, "ledgers", "check") /\ job[p].todo = {}
    /\ Enter(p, "defaults", TRUE)
    /\ UNCHANGED <<dead, fileVars, ledgerVars>>

AtEnd(p) == Running(p, "defaults", "check") /\ job[p].todo = {}

EndInit(p) ==
    /\ AtEnd(p)
    /\ job' = [job EXCEPT ![p] = None]
    /\ UNCHANGED <<dead, fileVars, ledgerVars>>

\* An operation on a file or directory raises OSError.
InitFails(p) ==
    /\ IOErrors /\ Alive(p) /\ job[p] # None /\ ~AtEnd(p)
    /\ job' = [job EXCEPT ![p] = None]
    /\ UNCHANGED <<dead, fileVars, ledgerVars>>

KillInit(p) ==
    /\ p \in Mortal /\ Alive(p) /\ job[p] # None
    /\ dead' = dead \cup {p}
    /\ job' = [job EXCEPT ![p] = None]
    /\ UNCHANGED <<fileVars, ledgerVars>>

-----------------------------------------------------------------------------
(* The ledgers: append_jsonl and read_jsonl.                               *)

Text(l) == IF ledger[l] = None THEN <<>> ELSE ledger[l]

\* The next event.  Its reason, reviewer or error message may hold U+2028, U+2029 or
\* U+0085, which json.dumps(ensure_ascii=False) writes as they are.
NewEvent ==
    /\ events < MaxEvents
    /\ events' = events + 1
    /\ separated' \in {separated, separated \cup {events + 1}}

\* A command appends an event; ensure_antma_state has found .antma/ before.
AppendEvent(p, l) ==
    /\ Free(p) /\ antma
    /\ NewEvent
    /\ ledger' = [ledger EXCEPT ![l] = Text(l) \o <<events + 1, Break>>]
    /\ recorded' = [recorded EXCEPT ![l] = Append(@, events + 1)]
    /\ UNCHANGED <<dead, fileVars, job, cut>>

\* The write stops within the record or in front of its line break: the process
\* is killed or the disk is full.
AppendCut(p, l) ==
    /\ Free(p) /\ antma
    /\ NewEvent
    /\ \/ p \in Mortal /\ dead' = dead \cup {p}
       \/ IOErrors /\ UNCHANGED dead
    /\ \E piece \in {events + 1, Torn} :
         ledger' = [ledger EXCEPT ![l] = Append(Text(l), piece)]
    /\ cut' = cut \cup {l}
    /\ UNCHANGED <<fileVars, job, recorded>>

\* read_jsonl: one whole record on each line that splitlines() finds, or json.loads
\* raises.  A separated record lies on two of its lines.
Readable(text) ==
    \A i \in 1..Len(text) : IF i % 2 = 1 THEN text[i] \in Nat \ separated ELSE text[i] = Break

ReadJsonl(text) == [i \in 1..((Len(text) + 1) \div 2) |-> text[2 * i - 1]]

-----------------------------------------------------------------------------
(* The user, and other commands.                                           *)

EditFile(f) ==
    /\ InitAlone => NobodyInitialises
    /\ f \in Defaults => antma
    /\ \E now \in {"edited", "absent"} : content' = [content EXCEPT ![f] = now]
    /\ UNCHANGED <<dead, antma, made, ledgerVars, job>>

RemoveDirectory(d) ==
    /\ InitAlone => NobodyInitialises
    /\ made' = made \ {d}
    /\ UNCHANGED <<dead, content, antma, ledgerVars, job>>

\* antma index --db .antma/index.db creates the directory of its database.
IndexCreatesAntma ==
    /\ InitAlone => NobodyInitialises
    /\ antma' = TRUE
    /\ UNCHANGED <<dead, content, made, ledgerVars, job>>

-----------------------------------------------------------------------------
InitStep(p) ==
    \/ \E f \in Files : CheckFile(p, f)
    \/ OpenFile(p) \/ FillFile(p)
    \/ EnterState(p)
    \/ \E d \in Directories : MakeDirectory(p, d)
    \/ EnterLedgers(p)
    \/ \E l \in Ledgers : CheckLedger(p, l)
    \/ CreateLedger(p)
    \/ EnterDefaults(p) \/ EndInit(p) \/ InitFails(p)

StateNext ==
    \/ \E p \in Procs : StartInit(p) \/ InitStep(p) \/ KillInit(p)
    \/ \E p \in Procs, l \in Ledgers : AppendEvent(p, l) \/ AppendCut(p, l)
    \/ \E f \in Files : EditFile(f)
    \/ \E d \in Directories : RemoveDirectory(d)
    \/ IndexCreatesAntma

StateSpec == StateInit /\ [][StateNext]_stateVars

-----------------------------------------------------------------------------
\* An init that ends, with --force or in a place without .antma/, leaves a complete
\* project, whatever inits before it were stopped half-way and whatever was removed
\* since; and what it was asked to overwrite has its default content.
InitCompletes ==
    [][\A p \in Procs : AtEnd(p) /\ job'[p] = None /\ p \notin dead' =>
         /\ \A f \in Templates : content[f] # "absent"
         /\ \A f \in Files : TargetOf(f) \in job[p].over => content[f] = "default"
         /\ job[p].force \/ job[p].fresh =>
              /\ made = Directories
              /\ \A l \in Ledgers : ledger[l] # None
              /\ \A f \in Defaults : content[f] # "absent"]_stateVars

\* No init, forced or repeated after a stop, touches a file the user has edited
\* unless told to overwrite that target.
UserContentKept ==
    [][\A f \in Files : content[f] = "edited" /\ content'[f] \in {"torn", "default"} =>
         \E p \in Procs : job[p] # None /\ TargetOf(f) \in job[p].over]_stateVars

\* The events whose append returned are in the ledger, each once and in their order,
\* through every init and every append that was cut short; and as long as none was,
\* and no event holds a separator, read_jsonl returns exactly them.
LedgerFaithful ==
    \A l \in Ledgers :
        LET text == Text(l)
            done == recorded[l] IN
        /\ \A i \in DOMAIN done : \E m \in DOMAIN text : text[m] = done[i]
        /\ \A i, j \in DOMAIN done, m, n \in DOMAIN text :
             text[m] = done[i] /\ text[n] = done[j] => (i < j <=> m < n)
        /\ l \notin cut /\ (\A i \in DOMAIN done : done[i] \notin separated) =>
             Readable(text) /\ ReadJsonl(text) = done
=============================================================================
