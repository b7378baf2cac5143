---------------------------- MODULE MemoryIndex ----------------------------
(***************************************************************************)
(* The SQLite search index of a workspace (indexer.py) and the commands    *)
(* that use it: `antma index` rebuilds it, `antma search` and `antma       *)
(* doctor` validate it and read it.                                        *)
(*                                                                         *)
(* A rebuild drops and creates the two tables in autocommit mode, each     *)
(* statement visible at once; its first INSERT opens a transaction that    *)
(* ends with the command, after the metadata.  The statements of a search  *)
(* or of doctor are not in a transaction: each sees what is committed when *)
(* it runs.  A killed process leaves what it had committed.                *)
(*                                                                         *)
(* Of a file only its version is kept (0: there is none), and a row of the *)
(* table is the version it was read from.                                  *)
(***************************************************************************)
EXTENDS Naturals, Sequences, Workspace

CONSTANTS
    Paths,       \* the Markdown files below the indexed root
    OneRebuild,  \* TRUE when a rebuild starts only after the one before ended
    MaxVersions  \* bound: the versions users write

ASSUME IndexConstants == OneRebuild \in BOOLEAN /\ MaxVersions \in Nat

Versions == 0..MaxVersions

VARIABLES
    file,       \* file[path]: the version of the file, 0 when there is none
    versions,   \* how many versions have been written
    memories,   \* the table memories: its rows by path, or None
    meta,       \* the table antma_meta
    writer,     \* the process with an open write transaction, or None
    pending,    \* the rows that transaction has inserted
    job,        \* job[p]: the command p is running, or None
    answer,     \* answer[p]: how the last command of p ended
    window      \* auxiliary: the versions of a file since a rebuild listed it

indexVars == <<dead, file, versions, memories, meta, writer, pending, job, answer, window>>
databaseVars == <<memories, meta, writer, pending>>

MetaStates == {"absent", "empty", "written", "unsupported"}
Readers == {"search", "doctor"}

RebuildPoints == {"drop_memories", "drop_meta", "create_memories", "create_meta", "scan", "commit"}
ReadPoints == {"meta_table", "metadata", "memories_table", "select", "fallback"}

\* A rebuild has files it has yet to look for (todo) and files found (found);
\* met is auxiliary: a rebuild has run beside this command.
Jobs == [cmd : Readers \cup {"index"}, at : RebuildPoints \cup ReadPoints,
         todo : SUBSET Paths, found : SUBSET Paths, met : BOOLEAN]

Tables == [Paths -> Seq(Versions)]
NoRows == [path \in Paths |-> <<>>]

\* The rows an index of another version holds.
OlderRows == [path \in Paths |-> <<0>>]

Answers == [kind : {"none", "refused", "indexed", "healthy", "rows"}, rows : Tables]
Answer(kind) == [kind |-> kind, rows |-> NoRows]

ASSUME NoneIsNoValue == None \notin Jobs /\ None \notin Tables

WellFormed(j) == IF j.cmd = "index" THEN j.at \in RebuildPoints ELSE j.at \in ReadPoints

\* Besides the types: only a rebuild that reads files or is about to commit has
\* a transaction, and nothing is pending outside one.
IndexTypeOK ==
    /\ dead \subseteq Mortal
    /\ file \in [Paths -> Versions] /\ versions \in Versions
    /\ memories \in Tables \cup {None} /\ meta \in MetaStates
    /\ job \in [Procs -> Jobs \cup {None}]
    /\ answer \in [Procs -> Answers]
    /\ window \in [Paths -> SUBSET Versions]
    /\ \A p \in Procs : job[p] # None => WellFormed(job[p])
    /\ \/ writer = None /\ pending = NoRows
       \/ /\ writer \in Procs /\ pending \in Tables
          /\ job[writer] # None /\ job[writer].at \in {"scan", "commit"}

\* No index yet, or one another version of the program has left.
IndexInit ==
    /\ dead = {}
    /\ file \in [Paths -> Versions \cap {0, 1}] /\ versions = IF MaxVersions = 0 THEN 0 ELSE 1
    /\ \/ memories = None /\ meta = "absent"
       \/ memories = OlderRows /\ meta \in {"absent", "unsupported"}
    /\ writer = None /\ pending = NoRows
    /\ job = [p \in Procs |-> None]
    /\ answer = [p \in Procs |-> Answer("none")]
    /\ window = [path \in Paths |-> {file[path]}]

-----------------------------------------------------------------------------
Running(p, point) == Alive(p) /\ job[p] # None /\ job[p].at = point
Continue(p, point) == job' = [job EXCEPT ![p].at = point]
End(p, result) ==
    /\ job' = [job EXCEPT ![p] = None]
    /\ answer' = [answer EXCEPT ![p] = result]

Rebuilding(p) == job[p] # None /\ job[p].cmd = "index"

\* A statement that writes waits for the transaction of another and gives up.
MayWrite(p) == writer \in {None, p}

NewJob(cmd, point, met) ==
    [cmd |-> cmd, at |-> point, todo |-> Paths, found |-> {}, met |-> met]

MayStart(p) ==
    /\ Alive(p)
    /\ job[p] = None
    /\ answer' = [answer EXCEPT ![p] = Answer("none")]
    /\ UNCHANGED <<dead, file, versions, window, databaseVars>>

StartIndex(p) ==
    /\ MayStart(p)
    /\ OneRebuild => \A q \in Procs : ~Rebuilding(q)
    /\ job' = [q \in Procs |->
                 IF q = p THEN NewJob("index", "drop_memories", FALSE)
                 ELSE IF job[q] = None THEN None
                 ELSE [job[q] EXCEPT !.met = TRUE]]

StartRead(p) ==
    /\ MayStart(p)
    /\ \E cmd \in Readers :
         job' = [job EXCEPT ![p] = NewJob(cmd, "meta_table", \E q \in Procs : Rebuilding(q))]

-----------------------------------------------------------------------------
(* antma index: _rebuild_schema, then the files, then the metadata.        *)

SchemaStep(p, point, next) ==
    /\ Running(p, point)
    /\ MayWrite(p)
    /\ Continue(p, next)
    /\ UNCHANGED <<dead, file, versions, writer, pending, answer>>

\* DROP TABLE IF EXISTS memories
DropMemories(p) ==
    /\ SchemaStep(p, "drop_memories", "drop_meta")
    /\ memories' = None
    /\ UNCHANGED <<meta, window>>

\* Mutant: the metadata of the index before is kept.
DropMetaMutant(p) ==
    /\ SchemaStep(p, "drop_meta", "create_memories")
    /\ UNCHANGED <<memories, meta, window>>

\* DROP TABLE IF EXISTS antma_meta
DropMeta(p) ==
    /\ SchemaStep(p, "drop_meta", "create_memories")
    /\ meta' = "absent"
    /\ UNCHANGED <<memories, window>>

\* CREATE VIRTUAL TABLE IF NOT EXISTS memories
CreateMemories(p) ==
    /\ SchemaStep(p, "create_memories", "create_meta")
    /\ memories' = IF memories = None THEN NoRows ELSE memories
    /\ UNCHANGED <<meta, window>>

\* CREATE TABLE IF NOT EXISTS antma_meta
CreateMeta(p) ==
    /\ SchemaStep(p, "create_meta", "scan")
    /\ meta' = IF meta = "absent" THEN "empty" ELSE meta
    /\ window' = [path \in Paths |-> {file[path]}]
    /\ UNCHANGED memories

\* sorted(root.rglob("*.md")): the listing is complete before the first read.
ListPath(p, path) ==
    /\ Running(p, "scan")
    /\ path \in job[p].todo
    /\ job' = [job EXCEPT ![p].todo = @ \ {path},
                          ![p].found = IF file[path] = 0 THEN @ ELSE @ \cup {path}]
    /\ UNCHANGED <<dead, file, versions, databaseVars, answer, window>>

\* Mutant: every INSERT is committed at once.
InsertFileMutant(p, path) ==
    /\ Running(p, "scan")
    /\ job[p].todo = {} /\ path \in job[p].found
    /\ file[path] # 0
    /\ memories # None /\ MayWrite(p)
    /\ memories' = [memories EXCEPT ![path] = Append(@, file[path])]
    /\ job' = [job EXCEPT ![p].found = @ \ {path}]
    /\ UNCHANGED <<dead, file, versions, writer, pending, meta, answer, window>>

\* path.read_text and the INSERT of what it returned.
InsertFile(p, path) ==
    /\ Running(p, "scan")
    /\ job[p].todo = {} /\ path \in job[p].found
    /\ file[path] # 0
    /\ memories # None /\ MayWrite(p)
    /\ writer' = p
    /\ pending' = [pending EXCEPT ![path] = Append(@, file[path])]
    /\ job' = [job EXCEPT ![p].found = @ \ {path}]
    /\ UNCHANGED <<dead, file, versions, memories, meta, answer, window>>

WriteMetadata(p) ==
    /\ Running(p, "scan")
    /\ job[p].todo = {} /\ job[p].found = {}
    /\ meta # "absent" /\ MayWrite(p)
    /\ writer' = p
    /\ Continue(p, "commit")
    /\ UNCHANGED <<dead, file, versions, memories, meta, pending, answer, window>>

Committed == IF memories = None THEN None
             ELSE [path \in Paths |-> memories[path] \o pending[path]]

\* The end of `with self.connect_write()`.
CommitIndex(p) ==
    /\ Running(p, "commit")
    /\ memories' = Committed
    /\ meta' = "written"
    /\ writer' = None /\ pending' = NoRows
    /\ End(p, Answer("indexed"))
    /\ UNCHANGED <<dead, file, versions, window>>

\* The transaction of a command that ends early is rolled back.
RollBackOf(p) ==
    /\ writer' = IF writer = p THEN None ELSE writer
    /\ pending' = IF writer = p THEN NoRows ELSE pending
    /\ UNCHANGED <<memories, meta>>

\* The exceptions of a rebuild: a listed file has gone, another rebuild has the
\* database locked or has dropped a table, or the disk is full.
IndexRaises(p) ==
    \/ IOErrors
    \/ ~MayWrite(p)
    \/ /\ job[p].at = "scan" /\ job[p].todo = {}
       /\ \/ \E path \in job[p].found : file[path] = 0
          \/ job[p].found # {} /\ memories = None
          \/ job[p].found = {} /\ meta = "absent"

\* Mutant: the connection commits what it has on an exception as well.
IndexFailsMutant(p) ==
    /\ Alive(p) /\ Rebuilding(p)
    /\ IndexRaises(p)
    /\ memories' = Committed
    /\ UNCHANGED <<meta, writer, pending>>
    /\ End(p, Answer("refused"))
    /\ UNCHANGED <<dead, file, versions, window>>

IndexFails(p) ==
    /\ Alive(p) /\ Rebuilding(p)
    /\ IndexRaises(p)
    /\ RollBackOf(p)
    /\ End(p, Answer("refused"))
    /\ UNCHANGED <<dead, file, versions, window>>

-----------------------------------------------------------------------------
(* antma search and antma doctor: validate_connection, then the query.     *)

readOnly == <<dead, file, versions, databaseVars, window>>

Proceed(p, next) == Continue(p, next) /\ UNCHANGED answer
Refuse(p) == End(p, Answer("refused"))

\* table_exists(conn, META_TABLE)
CheckMetaTable(p) ==
    /\ Running(p, "meta_table")
    /\ IF meta = "absent" THEN Refuse(p) ELSE Proceed(p, "metadata")
    /\ UNCHANGED readOnly

\* read_metadata and the versions in it.
ReadMetadata(p) ==
    /\ Running(p, "metadata")
    /\ IF meta = "written" THEN Proceed(p, "memories_table") ELSE Refuse(p)
    /\ UNCHANGED readOnly

\* table_exists(conn, "memories")
CheckMemoriesTable(p) ==
    /\ Running(p, "memories_table")
    /\ CASE memories = None -> Refuse(p)
         [] memories # None /\ job[p].cmd = "doctor" -> End(p, Answer("healthy"))
         [] memories # None /\ job[p].cmd = "search" -> Proceed(p, "select")
    /\ UNCHANGED readOnly

Found == [kind |-> "rows", rows |-> memories]

\* The query as it was typed: a missing table and text that is no FTS query are
\* the same OperationalError, after which its words are looked for.
Select(p) ==
    /\ Running(p, "select")
    /\ \/ memories # None /\ End(p, Found)
       \/ Proceed(p, "fallback")
       \/ memories = None /\ Refuse(p)
    /\ UNCHANGED readOnly

\* Mutant: it waits for the table to come back.
SelectFallbackMutant(p) ==
    /\ Running(p, "fallback")
    /\ IF memories # None THEN End(p, Found) ELSE Proceed(p, "select")
    /\ UNCHANGED readOnly

SelectFallback(p) ==
    /\ Running(p, "fallback")
    /\ IF memories # None THEN End(p, Found) ELSE Refuse(p)
    /\ UNCHANGED readOnly

\* A database that is locked or cannot be read.
ReadFails(p) ==
    /\ IOErrors
    /\ Alive(p) /\ job[p] # None /\ ~Rebuilding(p)
    /\ Refuse(p)
    /\ UNCHANGED readOnly

-----------------------------------------------------------------------------
(* The world outside.                                                      *)

WriteFile(path) ==
    /\ versions < MaxVersions
    /\ versions' = versions + 1
    /\ file' = [file EXCEPT ![path] = versions + 1]
    /\ window' = [window EXCEPT ![path] = @ \cup {versions + 1}]
    /\ UNCHANGED <<dead, databaseVars, job, answer>>

RemoveFile(path) ==
    /\ file[path] # 0
    /\ file' = [file EXCEPT ![path] = 0]
    /\ window' = [window EXCEPT ![path] = @ \cup {0}]
    /\ UNCHANGED <<dead, versions, databaseVars, job, answer>>

Kill(p) ==
    /\ p \in Mortal /\ Alive(p) /\ job[p] # None
    /\ dead' = dead \cup {p}
    /\ job' = [job EXCEPT ![p] = None]
    /\ RollBackOf(p)
    /\ UNCHANGED <<file, versions, answer, window>>

-----------------------------------------------------------------------------
RebuildStep(p) ==
    \/ DropMemories(p) \/ DropMeta(p) \/ CreateMemories(p) \/ CreateMeta(p)
    \/ \E path \in Paths : ListPath(p, path) \/ InsertFile(p, path)
    \/ WriteMetadata(p) \/ CommitIndex(p) \/ IndexFails(p)

ReadStep(p) ==
    \/ CheckMetaTable(p) \/ ReadMetadata(p) \/ CheckMemoriesTable(p)
    \/ Select(p) \/ SelectFallback(p) \/ ReadFails(p)

IndexNext ==
    \/ \E p \in Procs : StartIndex(p) \/ StartRead(p) \/ RebuildStep(p) \/ ReadStep(p) \/ Kill(p)
    \/ \E path \in Paths : WriteFile(path) \/ RemoveFile(path)

IndexSpec == IndexInit /\ [][IndexNext]_indexVars

\* A live process runs its command; nothing is assumed of users.
FairIndexSpec ==
    IndexSpec /\ \A p \in Procs : WF_indexVars(RebuildStep(p)) /\ WF_indexVars(ReadStep(p))

-----------------------------------------------------------------------------
\* What validation accepts and a query then runs over.
View == IF meta = "written" /\ memories # None THEN memories ELSE None

\* The file-by-file, statement-by-statement rebuild implements the cache: no kill,
\* no error and no edit in the middle leaves an index that validation accepts and
\* that misses a file, has one twice or shows it as it was before the rebuild
\* began to read.
Cache == INSTANCE IndexCache WITH view <- View
ImplementsCache == Cache!Spec

\* How a command of p ends tells the truth.  A search that met no rebuild ran over
\* the whole view; one that did ran over the whole view or over nothing, never
\* over a part.  Doctor says healthy only of a usable index unless a rebuild
\* withdrew it meanwhile; an index command reports its count only when the index
\* can be searched.
Truthful(p, a) ==
    CASE a.kind = "rows" -> a.rows = View \/ (job[p].met /\ a.rows = NoRows)
      [] a.kind = "healthy" -> View # None \/ job[p].met
      [] a.kind = "indexed" -> View' # None
      [] OTHER -> TRUE

AnswersTruthful ==
    [][\A p \in Procs : answer'[p] # answer[p] /\ job[p] # None => Truthful(p, answer'[p])]_indexVars

\* Every command of a live process ends: a search that falls back does so once,
\* and a rebuild reads each file of its listing once.
CommandsEnd == \A p \in Procs : job[p] # None ~> job[p] = None
=============================================================================
