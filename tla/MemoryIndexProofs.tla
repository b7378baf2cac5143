------------------------- MODULE MemoryIndexProofs -------------------------
(***************************************************************************)
(* Proofs about the search index for any processes and Markdown files:     *)
(*   - its type invariant, always;                                         *)
(*   - when one rebuild runs at a time, with kills, errors and edits       *)
(*     anywhere: the index implements the cache it is meant to be, and     *)
(*     every answer of a command is truthful.                              *)
(***************************************************************************)
EXTENDS MemoryIndex, TLAPS

-----------------------------------------------------------------------------
(* Types.                                                                  *)

LEMMA TableFacts ==
    /\ NoRows \in Tables /\ OlderRows \in Tables
    /\ \A kind \in {"none", "refused", "indexed", "healthy", "rows"} : Answer(kind) \in Answers
<1>1. 0 \in Versions
  BY IndexConstants DEF Versions
<1>2. NoRows \in Tables
  BY DEF NoRows, Tables
<1>3. OlderRows \in Tables
  BY <1>1 DEF OlderRows, Tables
<1> QED BY <1>2, <1>3 DEF Answer, Answers

LEMMA ConcatenatedTables ==
    ASSUME NEW t \in Tables, NEW u \in Tables
    PROVE  [path \in Paths |-> t[path] \o u[path]] \in Tables
<1>1. ASSUME NEW path \in Paths PROVE t[path] \o u[path] \in Seq(Versions)
  BY DEF Tables
<1> QED BY <1>1 DEF Tables

\* A command that goes on from one point to another keeps the rest of its job.
LEMMA ContinueKeepsTypes ==
    ASSUME IndexTypeOK, NEW p \in Procs, NEW point, NEW next,
           Running(p, point), Continue(p, next),
           IF job[p].cmd = "index" THEN next \in RebuildPoints ELSE next \in ReadPoints
    PROVE  /\ job' \in [Procs -> Jobs \cup {None}]
           /\ job'[p] # None /\ job'[p].at = next /\ job'[p].cmd = job[p].cmd
           /\ job'[p].todo = job[p].todo /\ job'[p].found = job[p].found
           /\ job'[p].met = job[p].met
           /\ \A q \in Procs : job'[q] # None => WellFormed(job'[q])
           /\ \A q \in Procs \ {p} : job'[q] = job[q]
<1>1. job[p] \in Jobs
  BY DEF IndexTypeOK, Running
<1>2. /\ [job[p] EXCEPT !.at = next] \in Jobs
      /\ [job[p] EXCEPT !.at = next].at = next
      /\ [job[p] EXCEPT !.at = next].cmd = job[p].cmd
      /\ [job[p] EXCEPT !.at = next].todo = job[p].todo
      /\ [job[p] EXCEPT !.at = next].found = job[p].found
      /\ [job[p] EXCEPT !.at = next].met = job[p].met
  BY <1>1 DEF Jobs
<1>3. job' = [job EXCEPT ![p] = [job[p] EXCEPT !.at = next]]
  BY DEF Continue
<1> QED BY <1>2, <1>3, NoneIsNoValue DEF IndexTypeOK, WellFormed

LEMMA EndKeepsTypes ==
    ASSUME IndexTypeOK, NEW p \in Procs, NEW result \in Answers, End(p, result)
    PROVE  /\ job' \in [Procs -> Jobs \cup {None}]
           /\ answer' \in [Procs -> Answers]
           /\ job'[p] = None
           /\ \A q \in Procs : job'[q] # None => WellFormed(job'[q])
           /\ \A q \in Procs \ {p} : job'[q] = job[q]
  BY DEF End, IndexTypeOK

LEMMA RollBackKeepsTypes ==
    ASSUME IndexTypeOK, NEW p \in Procs, RollBackOf(p),
           \A q \in Procs \ {p} : job'[q] = job[q]
    PROVE  /\ memories' = memories /\ meta' = meta
           /\ \/ writer' = None /\ pending' = NoRows
              \/ /\ writer' \in Procs /\ pending' \in Tables
                 /\ job'[writer'] # None /\ job'[writer'].at \in {"scan", "commit"}
  BY WorkspaceConstants DEF RollBackOf, IndexTypeOK

\* Nobody but p has a transaction: what p does with its job matters to no other.
LEMMA OtherWriterKept ==
    ASSUME IndexTypeOK, NEW p \in Procs, UNCHANGED <<writer, pending>>,
           \A q \in Procs \ {p} : job'[q] = job[q],
           writer # p
    PROVE  \/ writer' = None /\ pending' = NoRows
           \/ /\ writer' \in Procs /\ pending' \in Tables
              /\ job'[writer'] # None /\ job'[writer'].at \in {"scan", "commit"}
  BY DEF IndexTypeOK

LEMMA ReaderDoesNotWrite ==
    ASSUME IndexTypeOK, NEW p \in Procs,
           job[p] = None \/ job[p].at \notin {"scan", "commit"}
    PROVE  writer # p
  BY WorkspaceConstants DEF IndexTypeOK

LEMMA StartKeepsTypes ==
    ASSUME IndexTypeOK, NEW p \in Procs, StartIndex(p) \/ StartRead(p)
    PROVE  IndexTypeOK'
<1> DEFINE Kept == /\ UNCHANGED <<dead, file, versions, memories, meta, writer, pending, window>>
                   /\ answer' \in [Procs -> Answers]
<1>1. Kept
  BY TableFacts DEF StartIndex, StartRead, MayStart, databaseVars, IndexTypeOK
<1>2. ASSUME NEW cmd \in Readers \cup {"index"}, NEW point \in RebuildPoints \cup ReadPoints,
             NEW met \in BOOLEAN
      PROVE  NewJob(cmd, point, met) \in Jobs
  BY DEF NewJob, Jobs
<1>3. ASSUME StartIndex(p)
      PROVE  /\ job' \in [Procs -> Jobs \cup {None}]
             /\ \A q \in Procs : job'[q] # None => WellFormed(job'[q])
             /\ \A q \in Procs \ {p} :
                  job[q] # None => job'[q] # None /\ job'[q].at = job[q].at
  <2>1. NewJob("index", "drop_memories", FALSE) \in Jobs
    BY <1>2 DEF RebuildPoints
  <2>2. WellFormed(NewJob("index", "drop_memories", FALSE))
    BY DEF NewJob, WellFormed, RebuildPoints
  <2>3. ASSUME NEW q \in Procs, job[q] # None
        PROVE  /\ [job[q] EXCEPT !.met = TRUE] \in Jobs
               /\ WellFormed([job[q] EXCEPT !.met = TRUE])
               /\ [job[q] EXCEPT !.met = TRUE].at = job[q].at
    BY <2>3 DEF IndexTypeOK, Jobs, WellFormed
  <2> QED BY <1>3, <2>1, <2>2, <2>3, NoneIsNoValue DEF StartIndex
<1>4. ASSUME StartRead(p)
      PROVE  /\ job' \in [Procs -> Jobs \cup {None}]
             /\ \A q \in Procs : job'[q] # None => WellFormed(job'[q])
             /\ \A q \in Procs \ {p} : job'[q] = job[q]
  <2>1. PICK cmd \in Readers :
          job' = [job EXCEPT ![p] = NewJob(cmd, "meta_table", \E q \in Procs : Rebuilding(q))]
    BY <1>4 DEF StartRead
  <2>2. NewJob(cmd, "meta_table", \E q \in Procs : Rebuilding(q)) \in Jobs
    BY <1>2 DEF ReadPoints
  <2>3. WellFormed(NewJob(cmd, "meta_table", \E q \in Procs : Rebuilding(q)))
    BY DEF NewJob, WellFormed, ReadPoints, Readers
  <2> QED BY <2>1, <2>2, <2>3 DEF IndexTypeOK
<1>5. job[p] = None
  BY DEF StartIndex, StartRead, MayStart
<1>6. writer # p
  BY <1>5, ReaderDoesNotWrite
<1> QED BY <1>1, <1>3, <1>4, <1>6 DEF IndexTypeOK

LEMMA SchemaKeepsTypes ==
    ASSUME IndexTypeOK, NEW p \in Procs,
           DropMemories(p) \/ DropMeta(p) \/ CreateMemories(p) \/ CreateMeta(p)
    PROVE  IndexTypeOK'
<1> DEFINE Order == {<<"drop_memories", "drop_meta">>, <<"drop_meta", "create_memories">>,
                     <<"create_memories", "create_meta">>, <<"create_meta", "scan">>}
<1>1. PICK step \in Order : SchemaStep(p, step[1], step[2])
  BY DEF DropMemories, DropMeta, CreateMemories, CreateMeta
<1>2. Running(p, step[1]) /\ Continue(p, step[2]) /\ UNCHANGED <<dead, file, versions, writer, pending, answer>>
  BY <1>1 DEF SchemaStep
<1>3. /\ job[p] # None
      /\ job[p].at \in {"drop_memories", "drop_meta", "create_memories", "create_meta"}
      /\ step[2] \in RebuildPoints
  BY <1>2 DEF Running, RebuildPoints
<1>4. job[p].cmd = "index"
  BY <1>3 DEF IndexTypeOK, WellFormed, ReadPoints
<1>5. /\ job' \in [Procs -> Jobs \cup {None}]
      /\ \A q \in Procs : job'[q] # None => WellFormed(job'[q])
      /\ \A q \in Procs \ {p} : job'[q] = job[q]
  BY <1>2, <1>3, <1>4, ContinueKeepsTypes
<1>6. writer # p
  BY <1>3, ReaderDoesNotWrite
<1>7. \/ writer' = None /\ pending' = NoRows
      \/ /\ writer' \in Procs /\ pending' \in Tables
         /\ job'[writer'] # None /\ job'[writer'].at \in {"scan", "commit"}
  BY <1>2, <1>5, <1>6, OtherWriterKept
<1>8. memories' \in Tables \cup {None} /\ meta' \in MetaStates
  BY TableFacts DEF IndexTypeOK, DropMemories, DropMeta, CreateMemories, CreateMeta, MetaStates
<1>9. window' \in [Paths -> SUBSET Versions]
  BY DEF IndexTypeOK, DropMemories, DropMeta, CreateMemories, CreateMeta
<1> QED BY <1>2, <1>5, <1>7, <1>8, <1>9 DEF IndexTypeOK

LEMMA ScanKeepsTypes ==
    ASSUME IndexTypeOK, NEW p \in Procs, NEW path \in Paths,
           ListPath(p, path) \/ InsertFile(p, path)
    PROVE  IndexTypeOK' /\ job'[p] # None
<1>1. job[p] \in Jobs /\ job[p] # None /\ job[p].at = "scan"
  BY DEF ListPath, InsertFile, Running, IndexTypeOK
<1>2. /\ job' \in [Procs -> Jobs \cup {None}]
      /\ job'[p] # None /\ job'[p].at = "scan"
      /\ \A q \in Procs : job'[q] # None => WellFormed(job'[q])
      /\ \A q \in Procs \ {p} : job'[q] = job[q]
  <2>1. PICK todo \in SUBSET Paths, found \in SUBSET Paths :
          job' = [job EXCEPT ![p] = [job[p] EXCEPT !.todo = todo, !.found = found]]
    <3>1. CASE ListPath(p, path)
      <4> DEFINE found == IF file[path] = 0 THEN job[p].found ELSE job[p].found \cup {path}
      <4>1. job' = [job EXCEPT ![p] = [job[p] EXCEPT !.todo = job[p].todo \ {path}, !.found = found]]
        BY <1>1, <3>1 DEF ListPath, Jobs
      <4>2. job[p].todo \ {path} \in SUBSET Paths /\ found \in SUBSET Paths
        BY <1>1 DEF Jobs
      <4> QED BY <4>1, <4>2
    <3>2. CASE InsertFile(p, path)
      <4>1. job' = [job EXCEPT ![p] = [job[p] EXCEPT !.todo = job[p].todo,
                                                     !.found = job[p].found \ {path}]]
        BY <1>1, <3>2 DEF InsertFile, Jobs
      <4>2. job[p].todo \in SUBSET Paths /\ job[p].found \ {path} \in SUBSET Paths
        BY <1>1 DEF Jobs
      <4> QED BY <4>1, <4>2
    <3> QED BY <3>1, <3>2
  <2>2. /\ [job[p] EXCEPT !.todo = todo, !.found = found] \in Jobs
        /\ [job[p] EXCEPT !.todo = todo, !.found = found].at = "scan"
        /\ [job[p] EXCEPT !.todo = todo, !.found = found].cmd = job[p].cmd
    BY <1>1 DEF Jobs
  <2> QED BY <1>1, <2>1, <2>2, NoneIsNoValue DEF IndexTypeOK, WellFormed
<1>3. UNCHANGED <<dead, file, versions, memories, meta, answer, window>>
  BY DEF ListPath, InsertFile, databaseVars
<1>4. \/ writer' = None /\ pending' = NoRows
      \/ /\ writer' \in Procs /\ pending' \in Tables
         /\ job'[writer'] # None /\ job'[writer'].at \in {"scan", "commit"}
  <2>1. CASE ListPath(p, path)
    BY <1>2, <2>1 DEF ListPath, databaseVars, IndexTypeOK
  <2>2. CASE InsertFile(p, path)
    <3>1. pending \in Tables
      BY TableFacts DEF IndexTypeOK
    <3>2. Append(pending[path], file[path]) \in Seq(Versions)
      BY <3>1 DEF IndexTypeOK, Tables
    <3>3. pending' \in Tables
      BY <2>2, <3>1, <3>2 DEF InsertFile, Tables
    <3> QED BY <1>2, <2>2, <3>3 DEF InsertFile
  <2> QED BY <2>1, <2>2
<1> QED BY <1>2, <1>3, <1>4 DEF IndexTypeOK

LEMMA CommitKeepsTypes ==
    ASSUME IndexTypeOK, NEW p \in Procs, WriteMetadata(p) \/ CommitIndex(p) \/ IndexFails(p)
    PROVE  IndexTypeOK'
<1>1. CASE WriteMetadata(p)
  <2>1. Running(p, "scan") /\ Continue(p, "commit")
        /\ UNCHANGED <<dead, file, versions, memories, meta, pending, answer, window>> /\ writer' = p
    BY <1>1 DEF WriteMetadata
  <2>2. job[p] # None /\ job[p].cmd = "index"
    BY <2>1 DEF Running, IndexTypeOK, WellFormed, ReadPoints
  <2>3. /\ job' \in [Procs -> Jobs \cup {None}]
        /\ job'[p] # None /\ job'[p].at = "commit"
        /\ \A q \in Procs : job'[q] # None => WellFormed(job'[q])
    BY <2>1, <2>2, ContinueKeepsTypes DEF RebuildPoints
  <2>4. pending \in Tables
    BY TableFacts DEF IndexTypeOK
  <2> QED BY <2>1, <2>3, <2>4 DEF IndexTypeOK
<1>2. CASE CommitIndex(p)
  <2>1. /\ End(p, Answer("indexed")) /\ memories' = Committed /\ meta' = "written"
        /\ writer' = None /\ pending' = NoRows /\ UNCHANGED <<dead, file, versions, window>>
    BY <1>2 DEF CommitIndex
  <2>2. pending \in Tables
    BY TableFacts DEF IndexTypeOK
  <2>3. Committed \in Tables \cup {None}
    BY <2>2, ConcatenatedTables DEF Committed, IndexTypeOK
  <2>4. /\ job' \in [Procs -> Jobs \cup {None}]
        /\ answer' \in [Procs -> Answers]
        /\ \A q \in Procs : job'[q] # None => WellFormed(job'[q])
    BY <2>1, EndKeepsTypes, TableFacts
  <2> QED BY <2>1, <2>3, <2>4 DEF IndexTypeOK, MetaStates
<1>3. CASE IndexFails(p)
  <2>1. End(p, Answer("refused")) /\ RollBackOf(p) /\ UNCHANGED <<dead, file, versions, window>>
    BY <1>3 DEF IndexFails
  <2>2. /\ job' \in [Procs -> Jobs \cup {None}]
        /\ answer' \in [Procs -> Answers]
        /\ \A q \in Procs : job'[q] # None => WellFormed(job'[q])
        /\ \A q \in Procs \ {p} : job'[q] = job[q]
    BY <2>1, EndKeepsTypes, TableFacts
  <2> QED BY <2>1, <2>2, RollBackKeepsTypes DEF IndexTypeOK
<1> QED BY <1>1, <1>2, <1>3

\* What every step of a search or of doctor does: it goes on or ends, and changes
\* nothing else.
LEMMA ReaderStep ==
    ASSUME IndexTypeOK, NEW p \in Procs, ReadStep(p)
    PROVE  /\ job[p] # None /\ job[p].cmd \in Readers
           /\ UNCHANGED <<dead, file, versions, memories, meta, writer, pending, window>>
           /\ \/ \E next \in ReadPoints : Continue(p, next) /\ UNCHANGED answer
              \/ \E result \in Answers : End(p, result)
<1>1. job[p] # None /\ (job[p].at \in ReadPoints \/ ~Rebuilding(p))
  BY DEF ReadStep, CheckMetaTable, ReadMetadata, CheckMemoriesTable, Select, SelectFallback,
         ReadFails, Running, ReadPoints
<1>2. job[p].cmd \in Readers
  BY <1>1 DEF IndexTypeOK, Jobs, WellFormed, Rebuilding, ReadPoints, RebuildPoints
<1>3. UNCHANGED readOnly
  BY DEF ReadStep, CheckMetaTable, ReadMetadata, CheckMemoriesTable, Select, SelectFallback, ReadFails
<1>4. Answer("refused") \in Answers /\ Answer("healthy") \in Answers
  BY TableFacts
<1>5. memories # None => Found \in Answers
  BY DEF Found, Answers, IndexTypeOK
<1>6. \/ \E next \in ReadPoints : Proceed(p, next)
      \/ \E result \in Answers : End(p, result)
  <2>1. CASE CheckMetaTable(p)
    BY <1>4, <2>1 DEF CheckMetaTable, Refuse, ReadPoints
  <2>2. CASE ReadMetadata(p)
    BY <1>4, <2>2 DEF ReadMetadata, Refuse, ReadPoints
  <2>3. CASE CheckMemoriesTable(p)
    BY <1>2, <1>4, <2>3 DEF CheckMemoriesTable, Refuse, ReadPoints, Readers
  <2>4. CASE Select(p)
    BY <1>4, <1>5, <2>4 DEF Select, Refuse, ReadPoints
  <2>5. CASE SelectFallback(p)
    BY <1>4, <1>5, <2>5 DEF SelectFallback, Refuse
  <2>6. CASE ReadFails(p)
    BY <1>4, <2>6 DEF ReadFails, Refuse
  <2> QED BY <2>1, <2>2, <2>3, <2>4, <2>5, <2>6 DEF ReadStep
<1> QED BY <1>1, <1>2, <1>3, <1>6 DEF readOnly, databaseVars, Proceed

LEMMA ReaderKeepsTypes ==
    ASSUME IndexTypeOK, NEW p \in Procs, ReadStep(p)
    PROVE  IndexTypeOK'
<1>1. /\ job[p] # None /\ job[p].cmd \in Readers
      /\ UNCHANGED <<dead, file, versions, memories, meta, writer, pending, window>>
      /\ \/ \E next \in ReadPoints : Continue(p, next) /\ UNCHANGED answer
         \/ \E result \in Answers : End(p, result)
  BY ReaderStep
<1>2. writer # p
  BY <1>1, ReaderDoesNotWrite DEF IndexTypeOK, WellFormed, Readers, ReadPoints
<1>3. ASSUME NEW next \in ReadPoints, Continue(p, next), UNCHANGED answer
      PROVE  /\ job' \in [Procs -> Jobs \cup {None}]
             /\ \A q \in Procs : job'[q] # None => WellFormed(job'[q])
             /\ \A q \in Procs \ {p} : job'[q] = job[q]
  <2>1. job[p] \in Jobs
    BY <1>1 DEF IndexTypeOK
  <2>2. [job[p] EXCEPT !.at = next] \in Jobs /\ WellFormed([job[p] EXCEPT !.at = next])
    BY <1>1, <1>3, <2>1 DEF Jobs, WellFormed, Readers
  <2> QED BY <1>3, <2>2 DEF Continue, IndexTypeOK
<1>4. ASSUME NEW result \in Answers, End(p, result)
      PROVE  /\ job' \in [Procs -> Jobs \cup {None}]
             /\ answer' \in [Procs -> Answers]
             /\ \A q \in Procs : job'[q] # None => WellFormed(job'[q])
             /\ \A q \in Procs \ {p} : job'[q] = job[q]
  BY <1>4, EndKeepsTypes
<1>5. /\ job' \in [Procs -> Jobs \cup {None}]
      /\ answer' \in [Procs -> Answers]
      /\ \A q \in Procs : job'[q] # None => WellFormed(job'[q])
      /\ \A q \in Procs \ {p} : job'[q] = job[q]
  BY <1>1, <1>3, <1>4 DEF IndexTypeOK
<1>6. \/ writer' = None /\ pending' = NoRows
      \/ /\ writer' \in Procs /\ pending' \in Tables
         /\ job'[writer'] # None /\ job'[writer'].at \in {"scan", "commit"}
  BY <1>1, <1>2, <1>5, OtherWriterKept
<1> QED BY <1>1, <1>5, <1>6 DEF IndexTypeOK

LEMMA WorldKeepsTypes ==
    ASSUME IndexTypeOK
    PROVE  /\ \A path \in Paths : WriteFile(path) \/ RemoveFile(path) => IndexTypeOK'
           /\ \A p \in Procs : Kill(p) => IndexTypeOK'
<1>1. 0 \in Versions /\ (versions < MaxVersions => versions + 1 \in Versions)
  BY IndexConstants DEF Versions, IndexTypeOK
<1>2. ASSUME NEW path \in Paths, WriteFile(path) \/ RemoveFile(path)
      PROVE  IndexTypeOK'
  <2>1. /\ UNCHANGED <<dead, memories, meta, writer, pending, job, answer>>
        /\ file' \in [Paths -> Versions] /\ versions' \in Versions
    BY <1>1, <1>2 DEF WriteFile, RemoveFile, databaseVars, IndexTypeOK
  <2>2. window' \in [Paths -> SUBSET Versions]
    BY <1>1, <1>2 DEF WriteFile, RemoveFile, IndexTypeOK
  <2> QED BY <2>1, <2>2 DEF IndexTypeOK
<1>3. ASSUME NEW p \in Procs, Kill(p) PROVE IndexTypeOK'
  <2>1. /\ dead' \subseteq Mortal /\ RollBackOf(p)
        /\ UNCHANGED <<file, versions, answer, window>>
        /\ job' \in [Procs -> Jobs \cup {None}]
        /\ \A q \in Procs : job'[q] # None => WellFormed(job'[q])
        /\ \A q \in Procs \ {p} : job'[q] = job[q]
    BY <1>3 DEF Kill, IndexTypeOK
  <2> QED BY <2>1, RollBackKeepsTypes DEF IndexTypeOK
<1> QED BY <1>2, <1>3

LEMMA IndexInitTypes == IndexInit => IndexTypeOK
<1> SUFFICES ASSUME IndexInit PROVE IndexTypeOK
  OBVIOUS
<1>1. file \in [Paths -> Versions] /\ versions \in Versions
  BY IndexConstants DEF IndexInit, Versions
<1>2. memories \in Tables \cup {None} /\ meta \in MetaStates
  BY TableFacts DEF IndexInit, MetaStates
<1>3. job \in [Procs -> Jobs \cup {None}] /\ answer \in [Procs -> Answers]
  BY TableFacts DEF IndexInit
<1>4. window \in [Paths -> SUBSET Versions]
  BY <1>1 DEF IndexInit
<1> QED BY <1>1, <1>2, <1>3, <1>4 DEF IndexInit, IndexTypeOK

LEMMA IndexTypeStep ==
    ASSUME IndexTypeOK, [IndexNext]_indexVars PROVE IndexTypeOK'
<1>1. CASE UNCHANGED indexVars
  BY <1>1 DEF indexVars, IndexTypeOK, WellFormed
<1> QED BY <1>1, StartKeepsTypes, SchemaKeepsTypes, ScanKeepsTypes, CommitKeepsTypes,
           ReaderKeepsTypes, WorldKeepsTypes DEF IndexNext, RebuildStep

\* Tables, jobs and answers keep their types, and only a running rebuild holds a
\* transaction, with any number of rebuilds at once (indexer.py MemoryIndex).
THEOREM IndexTypeCorrect == IndexSpec => []IndexTypeOK
<1> QED BY IndexInitTypes, IndexTypeStep, PTL DEF IndexSpec

-----------------------------------------------------------------------------
(* One rebuild at a time.                                                  *)

\* The window holds what each file is now.
WindowHolds == \A path \in Paths : file[path] \in window[path]

\* What is pending of a file: nothing before it is inserted, afterwards one of the
\* versions it had since the listing; a file not listed was absent then.
PendingWhole(todo) ==
    \A path \in Paths :
        IF path \in todo THEN pending[path] = <<>>
        ELSE \E version \in window[path] : pending[path] = Cache!RowsOf(version)

\* What a rebuild has made of the database when it comes to each of its steps.
RebuildInv(p) ==
    /\ job[p].at \notin {"scan", "commit"} => job[p].todo = Paths
    /\ job[p].at \in {"drop_meta", "create_memories"} => memories = None
    /\ job[p].at \in {"create_memories", "create_meta"} => meta = "absent"
    /\ job[p].at \in {"create_meta", "scan", "commit"} => memories = NoRows
    /\ job[p].at \in {"scan", "commit"} =>
         meta = "empty" /\ PendingWhole(job[p].todo \cup job[p].found)
    /\ job[p].at = "commit" => job[p].todo = {} /\ job[p].found = {}

Reading(p) == job[p] # None /\ job[p].cmd # "index"

\* What a reader has seen still holds unless a rebuild came; and no rebuild ever
\* shows a reader past the metadata a table that is neither whole nor empty.
ReaderInv(p) ==
    /\ ~job[p].met => \A q \in Procs : ~Rebuilding(q)
    /\ job[p].at \in {"memories_table", "select", "fallback"} =>
         /\ memories = None \/ memories = NoRows \/ meta = "written"
         /\ ~job[p].met => meta = "written"
    /\ job[p].at \in {"select", "fallback"} /\ ~job[p].met => memories # None

AloneRebuilding == \A p, q \in Procs : Rebuilding(p) /\ Rebuilding(q) => p = q

CacheInv ==
    /\ IndexTypeOK
    /\ WindowHolds
    /\ AloneRebuilding
    /\ \A p \in Procs : Rebuilding(p) => RebuildInv(p)
    /\ \A p \in Procs : Reading(p) => ReaderInv(p)

LEMMA AtRebuildPoint ==
    ASSUME IndexTypeOK, NEW p \in Procs, job[p] # None, job[p].at \in RebuildPoints
    PROVE  Rebuilding(p)
  BY DEF IndexTypeOK, WellFormed, ReadPoints, RebuildPoints, Rebuilding

LEMMA OneWriter ==
    ASSUME CacheInv, NEW p \in Procs, Rebuilding(p)
    PROVE  /\ (writer = None /\ pending = NoRows) \/ writer = p
           /\ writer = p => job[p].at \in {"scan", "commit"}
<1>1. writer \in Procs => Rebuilding(writer)
  <2> SUFFICES ASSUME writer \in Procs PROVE Rebuilding(writer)
    OBVIOUS
  <2>1. job[writer] # None /\ job[writer].at \in RebuildPoints
    BY WorkspaceConstants DEF CacheInv, IndexTypeOK, RebuildPoints
  <2> QED BY <2>1, AtRebuildPoint DEF CacheInv
<1> QED BY <1>1, WorkspaceConstants DEF CacheInv, IndexTypeOK, AloneRebuilding

\* A step of the one rebuild p: the readers have met it, so that they only rely on
\* the table being whole, empty or gone.
LEMMA RebuildKeepsReaders ==
    ASSUME CacheInv, NEW p \in Procs, Rebuilding(p),
           \A q \in Procs \ {p} : job'[q] = job[q],
           job'[p] = None \/ job'[p].cmd = "index",
           \/ UNCHANGED <<memories, meta>>
           \/ memories' = None \/ memories' = NoRows \/ meta' = "written"
    PROVE  /\ AloneRebuilding'
           /\ \A q \in Procs : Reading(q)' => ReaderInv(q)'
<1>1. \A q \in Procs \ {p} : job'[q] = job[q] /\ ~Rebuilding(q)
  BY DEF CacheInv, AloneRebuilding
<1>2. AloneRebuilding'
  BY <1>1 DEF AloneRebuilding, Rebuilding
<1>3. ASSUME NEW q \in Procs, Reading(q)'
      PROVE  ReaderInv(q)'
  <2>1. q # p /\ Reading(q) /\ job'[q] = job[q]
    BY <1>1, <1>3 DEF Reading
  <2>2. job[q] \in Jobs /\ ReaderInv(q)
    BY <2>1 DEF CacheInv, IndexTypeOK, Reading
  <2>3. job[q].met
    BY <2>2 DEF ReaderInv, Jobs
  <2> QED BY <2>1, <2>2, <2>3 DEF ReaderInv
<1> QED BY <1>2, <1>3

LEMMA SchemaKeepsCache ==
    ASSUME CacheInv, NEW p \in Procs,
           DropMemories(p) \/ DropMeta(p) \/ CreateMemories(p) \/ CreateMeta(p)
    PROVE  CacheInv'
<1> DEFINE Order == {<<"drop_memories", "drop_meta">>, <<"drop_meta", "create_memories">>,
                     <<"create_memories", "create_meta">>, <<"create_meta", "scan">>}
<1>1. PICK step \in Order : SchemaStep(p, step[1], step[2])
  BY DEF DropMemories, DropMeta, CreateMemories, CreateMeta
<1>2. /\ Running(p, step[1]) /\ Continue(p, step[2]) /\ UNCHANGED <<file, pending>>
      /\ job[p] # None /\ job[p].at = step[1] /\ step[1] \in RebuildPoints /\ step[2] \in RebuildPoints
  BY <1>1 DEF SchemaStep, Running, RebuildPoints
<1>3. Rebuilding(p)
  BY <1>2, AtRebuildPoint DEF CacheInv
<1>4. /\ job'[p] # None /\ job'[p].at = step[2] /\ job'[p].cmd = "index"
      /\ job'[p].todo = job[p].todo /\ job'[p].found = job[p].found
      /\ \A q \in Procs \ {p} : job'[q] = job[q]
  BY <1>2, <1>3, ContinueKeepsTypes DEF CacheInv, Rebuilding
<1>5. writer = None /\ pending = NoRows
  BY <1>2, <1>3, OneWriter
<1>13. ASSUME NEW point, NEW next, SchemaStep(p, point, next)
       PROVE  job[p].at = point /\ job'[p].at = next
  BY <1>2, <1>13 DEF SchemaStep, Running, Continue, Jobs, CacheInv, IndexTypeOK
<1>6. RebuildInv(p) /\ job[p].todo = Paths
  BY <1>2, <1>3 DEF CacheInv, RebuildInv
<1>7. ASSUME memories' = None \/ memories' = NoRows, RebuildInv(p)', WindowHolds'
      PROVE  CacheInv'
  <2>1. AloneRebuilding' /\ \A q \in Procs : Reading(q)' => ReaderInv(q)'
    BY <1>3, <1>4, <1>7, RebuildKeepsReaders
  <2>2. \A q \in Procs : Rebuilding(q)' => q = p
    BY <1>3, <1>4 DEF CacheInv, AloneRebuilding, Rebuilding
  <2>3. IndexTypeOK'
    BY SchemaKeepsTypes DEF CacheInv
  <2> QED BY <1>7, <2>1, <2>2, <2>3 DEF CacheInv
<1>8. ASSUME UNCHANGED window PROVE WindowHolds'
  BY <1>2, <1>8 DEF CacheInv, WindowHolds
<1>9. CASE DropMemories(p)
  <2>1. memories' = None /\ UNCHANGED window /\ job'[p].at = "drop_meta"
    BY <1>13, <1>9 DEF DropMemories
  <2>2. RebuildInv(p)'
    BY <1>4, <1>6, <2>1 DEF RebuildInv
  <2> QED BY <1>7, <1>8, <2>1, <2>2
<1>10. CASE DropMeta(p)
  <2>1. memories' = None /\ meta' = "absent" /\ UNCHANGED window /\ job'[p].at = "create_memories"
    BY <1>13, <1>6, <1>10 DEF DropMeta, RebuildInv
  <2>2. RebuildInv(p)'
    BY <1>4, <1>6, <2>1 DEF RebuildInv
  <2> QED BY <1>7, <1>8, <2>1, <2>2
<1>11. CASE CreateMemories(p)
  <2>1. memories' = NoRows /\ meta' = "absent" /\ UNCHANGED window /\ job'[p].at = "create_meta"
    BY <1>13, <1>6, <1>11 DEF CreateMemories, RebuildInv
  <2>2. RebuildInv(p)'
    BY <1>4, <1>6, <2>1 DEF RebuildInv
  <2> QED BY <1>7, <1>8, <2>1, <2>2
<1>12. CASE CreateMeta(p)
  <2>1. /\ memories' = NoRows /\ meta' = "empty" /\ job'[p].at = "scan"
        /\ window' = [path \in Paths |-> {file[path]}]
    BY <1>13, <1>6, <1>12 DEF CreateMeta, RebuildInv
  <2>2. WindowHolds'
    BY <1>2, <2>1 DEF WindowHolds
  <2>3. PendingWhole(job[p].todo \cup job[p].found)'
    BY <1>2, <1>4, <1>5, <1>6 DEF PendingWhole, NoRows
  <2>4. RebuildInv(p)'
    BY <1>4, <1>6, <2>1, <2>3 DEF RebuildInv
  <2> QED BY <1>7, <2>1, <2>2, <2>4
<1> QED BY <1>9, <1>10, <1>11, <1>12

LEMMA ScanKeepsCache ==
    ASSUME CacheInv, NEW p \in Procs, NEW path \in Paths,
           ListPath(p, path) \/ InsertFile(p, path)
    PROVE  CacheInv'
<1>1. /\ job[p] # None /\ job[p].at = "scan" /\ job[p] \in Jobs
      /\ UNCHANGED <<file, memories, meta, window>>
  BY DEF ListPath, InsertFile, Running, CacheInv, IndexTypeOK, databaseVars
<1>2. Rebuilding(p) /\ RebuildInv(p)
  BY <1>1, AtRebuildPoint DEF CacheInv, RebuildPoints
<1>3. /\ job'[p].at = "scan" /\ job'[p].cmd = "index" /\ job'[p] # None
      /\ \A q \in Procs \ {p} : job'[q] = job[q]
  <2>1. /\ job'[p].at = "scan" /\ job'[p].cmd = job[p].cmd
        /\ \A q \in Procs \ {p} : job'[q] = job[q]
    BY <1>1 DEF ListPath, InsertFile, Jobs, CacheInv, IndexTypeOK
  <2>2. job'[p] # None
    BY ScanKeepsTypes DEF CacheInv
  <2> QED BY <1>2, <2>1, <2>2 DEF Rebuilding
<1>4. AloneRebuilding' /\ \A q \in Procs : Reading(q)' => ReaderInv(q)'
  BY <1>1, <1>2, <1>3, RebuildKeepsReaders
<1>5. \A q \in Procs : Rebuilding(q)' => q = p
  BY <1>2, <1>3 DEF CacheInv, AloneRebuilding, Rebuilding
<1>6. PendingWhole(job[p].todo \cup job[p].found)'
  <2>1. CASE ListPath(p, path)
    <3>1. /\ UNCHANGED pending
          /\ job'[p].todo = job[p].todo \ {path}
          /\ job'[p].found = IF file[path] = 0 THEN job[p].found ELSE job[p].found \cup {path}
          /\ pending[path] = <<>>
      BY <1>1, <1>2, <2>1 DEF ListPath, databaseVars, Jobs, CacheInv, IndexTypeOK, RebuildInv,
                              PendingWhole
    <3>2. file[path] = 0 => pending[path] = Cache!RowsOf(0) /\ 0 \in window[path]
      BY <3>1 DEF Cache!RowsOf, CacheInv, WindowHolds
    <3> QED BY <1>1, <1>2, <3>1, <3>2 DEF RebuildInv, PendingWhole
  <2>2. CASE InsertFile(p, path)
    <3>1. /\ job'[p].todo = {} /\ job'[p].found = job[p].found \ {path}
          /\ job[p].todo = {} /\ path \in job[p].found /\ file[path] # 0
          /\ pending' = [pending EXCEPT ![path] = Append(pending[path], file[path])]
          /\ pending[path] = <<>>
      BY <1>1, <1>2, <2>2 DEF InsertFile, Jobs, CacheInv, IndexTypeOK, RebuildInv, PendingWhole
    <3>2. pending \in Tables
      BY TableFacts DEF CacheInv, IndexTypeOK
    <3>3. pending'[path] = <<file[path]>> /\ \A other \in Paths \ {path} : pending'[other] = pending[other]
      BY <3>1, <3>2 DEF Tables
    <3>4. pending'[path] = Cache!RowsOf(file[path]) /\ file[path] \in window[path]
      BY <3>1, <3>3 DEF Cache!RowsOf, CacheInv, WindowHolds
    <3> QED BY <1>1, <1>2, <3>1, <3>3, <3>4 DEF RebuildInv, PendingWhole
  <2> QED BY <2>1, <2>2
<1>7. RebuildInv(p)'
  BY <1>1, <1>2, <1>3, <1>6 DEF RebuildInv
<1>8. WindowHolds' /\ IndexTypeOK'
  BY <1>1, ScanKeepsTypes DEF CacheInv, WindowHolds
<1> QED BY <1>4, <1>5, <1>7, <1>8 DEF CacheInv

LEMMA CommitKeepsCache ==
    ASSUME CacheInv, NEW p \in Procs, WriteMetadata(p) \/ CommitIndex(p) \/ IndexFails(p)
    PROVE  CacheInv'
<1>1. IndexTypeOK'
  BY CommitKeepsTypes DEF CacheInv
<1>2. Rebuilding(p) /\ RebuildInv(p)
  BY AtRebuildPoint DEF WriteMetadata, CommitIndex, IndexFails, Running, CacheInv, RebuildPoints
<1>3. WindowHolds'
  BY DEF WriteMetadata, CommitIndex, IndexFails, CacheInv, WindowHolds
<1>4. CASE WriteMetadata(p)
  <2>1. /\ Running(p, "scan") /\ Continue(p, "commit") /\ job[p].at = "scan"
        /\ job[p].todo = {} /\ job[p].found = {}
        /\ UNCHANGED <<memories, meta, pending, window>>
    BY <1>4 DEF WriteMetadata, Running
  <2>2. /\ job'[p] # None /\ job'[p].at = "commit" /\ job'[p].cmd = "index"
        /\ job'[p].todo = {} /\ job'[p].found = {}
        /\ \A q \in Procs \ {p} : job'[q] = job[q]
    BY <1>2, <2>1, ContinueKeepsTypes DEF CacheInv, Rebuilding, RebuildPoints
  <2>3. AloneRebuilding' /\ \A q \in Procs : Reading(q)' => ReaderInv(q)'
    BY <1>2, <2>1, <2>2, RebuildKeepsReaders
  <2>4. PendingWhole(job[p].todo \cup job[p].found)'
    BY <1>2, <2>1, <2>2 DEF RebuildInv, PendingWhole
  <2>5. RebuildInv(p)'
    BY <1>2, <2>1, <2>2, <2>4 DEF RebuildInv
  <2>6. \A q \in Procs : Rebuilding(q)' => q = p
    BY <1>2, <2>2 DEF CacheInv, AloneRebuilding, Rebuilding
  <2> QED BY <1>1, <1>3, <2>3, <2>5, <2>6 DEF CacheInv
<1>5. CASE CommitIndex(p) \/ IndexFails(p)
  <2>1. /\ job'[p] = None /\ \A q \in Procs \ {p} : job'[q] = job[q]
        /\ UNCHANGED <<memories, meta>> \/ meta' = "written"
    BY <1>5 DEF CommitIndex, IndexFails, End, RollBackOf, CacheInv, IndexTypeOK
  <2>2. AloneRebuilding' /\ \A q \in Procs : Reading(q)' => ReaderInv(q)'
    BY <1>2, <2>1, RebuildKeepsReaders
  <2>3. \A q \in Procs : ~Rebuilding(q)'
    BY <1>2, <2>1 DEF CacheInv, AloneRebuilding, Rebuilding
  <2> QED BY <1>1, <1>3, <2>2, <2>3 DEF CacheInv
<1> QED BY <1>4, <1>5

LEMMA ReaderKeepsCache ==
    ASSUME CacheInv, NEW p \in Procs, ReadStep(p)
    PROVE  CacheInv'
<1>1. /\ job[p] # None /\ job[p].cmd \in Readers
      /\ UNCHANGED <<dead, file, versions, memories, meta, writer, pending, window>>
      /\ \/ \E next \in ReadPoints : Continue(p, next) /\ UNCHANGED answer
         \/ \E result \in Answers : End(p, result)
  BY ReaderStep DEF CacheInv
<1>2. IndexTypeOK' /\ WindowHolds'
  BY <1>1, ReaderKeepsTypes DEF CacheInv, WindowHolds
<1>3. Reading(p) /\ ReaderInv(p) /\ job[p] \in Jobs
  BY <1>1 DEF CacheInv, IndexTypeOK, Reading, Readers
<1>4. /\ \A q \in Procs \ {p} : job'[q] = job[q]
      /\ job'[p] # None => job'[p].cmd = job[p].cmd /\ job'[p].met = job[p].met
  BY <1>1, <1>3 DEF Continue, End, Jobs, CacheInv, IndexTypeOK
<1>5. \A q \in Procs : Rebuilding(q)' <=> Rebuilding(q) /\ q # p
  BY <1>3, <1>4 DEF Rebuilding, Reading
<1>6. AloneRebuilding'
  BY <1>5 DEF CacheInv, AloneRebuilding
<1>7. ASSUME NEW q \in Procs, Rebuilding(q)'
      PROVE  RebuildInv(q)'
  <2>1. q # p /\ Rebuilding(q) /\ RebuildInv(q) /\ job'[q] = job[q]
    BY <1>4, <1>5, <1>7 DEF CacheInv
  <2>2. \A todo \in SUBSET Paths : PendingWhole(todo)' <=> PendingWhole(todo)
    BY <1>1 DEF PendingWhole
  <2>3. job[q].todo \cup job[q].found \in SUBSET Paths
    BY <2>1 DEF CacheInv, IndexTypeOK, Rebuilding, Jobs
  <2> QED BY <1>1, <2>1, <2>2, <2>3 DEF RebuildInv
<1>8. ASSUME NEW q \in Procs \ {p}, Reading(q)'
      PROVE  ReaderInv(q)'
  <2>1. Reading(q) /\ ReaderInv(q) /\ job'[q] = job[q]
    BY <1>4, <1>8 DEF CacheInv, Reading
  <2> QED BY <1>1, <1>5, <2>1 DEF ReaderInv
<1>9. ASSUME Reading(p)'
      PROVE  ReaderInv(p)'
  <2>1. job'[p] # None
    BY <1>9 DEF Reading
  <2>2. \A next : Continue(p, next) => job'[p].at = next
    BY <1>3 DEF Continue, Jobs, CacheInv, IndexTypeOK
  <2>3. \A result : ~End(p, result)
    BY <2>1 DEF End, CacheInv, IndexTypeOK
  <2>4. \/ job'[p].at = "metadata"
        \/ job'[p].at = "memories_table" /\ meta = "written"
        \/ job'[p].at = "select" /\ job[p].at = "memories_table" /\ memories # None
        \/ job'[p].at = "fallback" /\ job[p].at = "select"
    <3>1. CASE CheckMetaTable(p)
      BY <2>2, <2>3, <3>1 DEF CheckMetaTable, Refuse, Proceed
    <3>2. CASE ReadMetadata(p)
      BY <2>2, <2>3, <3>2 DEF ReadMetadata, Refuse, Proceed
    <3>3. CASE CheckMemoriesTable(p)
      <4>1. memories # None => job[p].cmd = "search" /\ Proceed(p, "select")
        BY <1>1, <2>3, <3>3 DEF CheckMemoriesTable, Readers
      <4>2. memories # None
        BY <2>3, <3>3 DEF CheckMemoriesTable, Refuse
      <4> QED BY <2>2, <3>3, <4>1, <4>2 DEF CheckMemoriesTable, Proceed, Running
    <3>4. CASE Select(p)
      BY <2>2, <2>3, <3>4 DEF Select, Refuse, Proceed, Running
    <3>5. CASE SelectFallback(p) \/ ReadFails(p)
      BY <2>3, <3>5 DEF SelectFallback, ReadFails, Refuse
    <3> QED BY <3>1, <3>2, <3>3, <3>4, <3>5 DEF ReadStep
  <2> QED BY <1>1, <1>3, <1>4, <1>5, <2>1, <2>4 DEF ReaderInv
<1> QED BY <1>2, <1>6, <1>7, <1>8, <1>9 DEF CacheInv

LEMMA StartKeepsCache ==
    ASSUME CacheInv, OneRebuild, NEW p \in Procs, StartIndex(p) \/ StartRead(p)
    PROVE  CacheInv'
<1>1. /\ job[p] = None
      /\ UNCHANGED <<file, memories, meta, writer, pending, window>>
  BY DEF StartIndex, StartRead, MayStart, databaseVars
<1>2. IndexTypeOK' /\ WindowHolds'
  BY <1>1, StartKeepsTypes DEF CacheInv, WindowHolds
<1>3. CASE StartIndex(p)
  <2>1. /\ \A q \in Procs : ~Rebuilding(q)
        /\ job'[p] = NewJob("index", "drop_memories", FALSE)
        /\ \A q \in Procs \ {p} : job'[q] = IF job[q] = None THEN None ELSE [job[q] EXCEPT !.met = TRUE]
    BY <1>3 DEF StartIndex
  <2>2. ASSUME NEW q \in Procs \ {p}
        PROVE  /\ job'[q] # None => /\ job[q] # None /\ job'[q].met = TRUE
                                    /\ job'[q].at = job[q].at /\ job'[q].cmd = job[q].cmd
               /\ ~Rebuilding(q)'
    <3>1. CASE job[q] = None
      BY <2>1, <3>1 DEF Rebuilding
    <3>2. CASE job[q] # None
      <4>1. job[q] \in Jobs /\ job'[q] = [job[q] EXCEPT !.met = TRUE]
        BY <2>1, <3>2 DEF CacheInv, IndexTypeOK
      <4>2. job'[q].met = TRUE /\ job'[q].at = job[q].at /\ job'[q].cmd = job[q].cmd
        BY <4>1 DEF Jobs
      <4> QED BY <2>1, <3>2, <4>2 DEF Rebuilding
    <3> QED BY <3>1, <3>2
  <2>3. AloneRebuilding'
    BY <2>2 DEF AloneRebuilding
  <2>4. ASSUME NEW q \in Procs, Rebuilding(q)'
        PROVE  RebuildInv(q)'
    <3>1. q = p
      BY <2>2, <2>4
    <3>2. job'[p].at = "drop_memories" /\ job'[p].todo = Paths
      BY <2>1 DEF NewJob
    <3> QED BY <3>1, <3>2 DEF RebuildInv
  <2>5. ASSUME NEW q \in Procs, Reading(q)'
        PROVE  ReaderInv(q)'
    <3>1. q # p
      BY <2>1, <2>5 DEF Reading, NewJob
    <3>2. Reading(q) /\ ReaderInv(q)
      BY <2>2, <2>5, <3>1 DEF Reading, CacheInv
    <3> QED BY <1>1, <2>2, <2>5, <3>1, <3>2 DEF ReaderInv, Reading
  <2> QED BY <1>2, <2>3, <2>4, <2>5 DEF CacheInv
<1>4. CASE StartRead(p)
  <2>1. PICK cmd \in Readers :
          job' = [job EXCEPT ![p] = NewJob(cmd, "meta_table", \E q \in Procs : Rebuilding(q))]
    BY <1>4 DEF StartRead
  <2>2. /\ job'[p].cmd \in Readers /\ job'[p].at = "meta_table"
        /\ job'[p].met = (\E q \in Procs : Rebuilding(q))
        /\ \A q \in Procs \ {p} : job'[q] = job[q]
    <3>1. ASSUME NEW met
          PROVE  /\ NewJob(cmd, "meta_table", met).cmd = cmd
                 /\ NewJob(cmd, "meta_table", met).at = "meta_table"
                 /\ NewJob(cmd, "meta_table", met).met = met
      BY DEF NewJob
    <3>2. /\ job'[p] = NewJob(cmd, "meta_table", \E q \in Procs : Rebuilding(q))
          /\ \A q \in Procs \ {p} : job'[q] = job[q]
      BY <2>1 DEF CacheInv, IndexTypeOK
    <3> QED BY <3>1, <3>2
  <2>3. \A q \in Procs : Rebuilding(q)' <=> Rebuilding(q)
    BY <1>1, <2>2 DEF Rebuilding, Readers
  <2>4. AloneRebuilding'
    BY <2>3 DEF CacheInv, AloneRebuilding
  <2>5. ASSUME NEW q \in Procs, Rebuilding(q)'
        PROVE  RebuildInv(q)'
    <3>1. q # p /\ Rebuilding(q) /\ RebuildInv(q) /\ job'[q] = job[q]
      BY <1>1, <2>2, <2>3, <2>5 DEF CacheInv, Rebuilding
    <3> QED BY <1>1, <3>1 DEF RebuildInv, PendingWhole
  <2>6. ASSUME NEW q \in Procs, Reading(q)'
        PROVE  ReaderInv(q)'
    <3>1. CASE q = p
      BY <2>2, <2>3, <3>1 DEF ReaderInv
    <3>2. CASE q # p
      BY <1>1, <2>2, <2>3, <2>6, <3>2 DEF ReaderInv, Reading, CacheInv
    <3> QED BY <3>1, <3>2
  <2> QED BY <1>2, <2>4, <2>5, <2>6 DEF CacheInv
<1> QED BY <1>3, <1>4

LEMMA KillKeepsCache ==
    ASSUME CacheInv, NEW p \in Procs, Kill(p)
    PROVE  CacheInv'
<1>1. /\ UNCHANGED <<file, memories, meta, window>> /\ RollBackOf(p)
      /\ job'[p] = None /\ \A q \in Procs \ {p} : job'[q] = job[q]
  BY DEF Kill, RollBackOf, CacheInv, IndexTypeOK
<1>2. IndexTypeOK' /\ WindowHolds'
  BY <1>1, WorldKeepsTypes DEF CacheInv, WindowHolds
<1>3. \A q \in Procs : Rebuilding(q)' <=> Rebuilding(q) /\ q # p
  BY <1>1 DEF Rebuilding
<1>4. ASSUME NEW q \in Procs, Rebuilding(q)'
      PROVE  RebuildInv(q)'
  <2>1. q # p /\ Rebuilding(q) /\ RebuildInv(q) /\ job'[q] = job[q]
    BY <1>1, <1>3, <1>4 DEF CacheInv
  <2>2. UNCHANGED pending
    BY <1>1, <2>1, OneWriter, WorkspaceConstants DEF RollBackOf
  <2> QED BY <1>1, <2>1, <2>2 DEF RebuildInv, PendingWhole
<1>5. ASSUME NEW q \in Procs, Reading(q)'
      PROVE  ReaderInv(q)'
  <2>1. q # p /\ ReaderInv(q) /\ job'[q] = job[q]
    BY <1>1, <1>5 DEF CacheInv, Reading
  <2> QED BY <1>1, <1>3, <2>1 DEF ReaderInv
<1>6. AloneRebuilding'
  BY <1>3 DEF CacheInv, AloneRebuilding
<1> QED BY <1>2, <1>4, <1>5, <1>6 DEF CacheInv

LEMMA EditKeepsCache ==
    ASSUME CacheInv, NEW path \in Paths, WriteFile(path) \/ RemoveFile(path)
    PROVE  CacheInv'
<1>1. UNCHANGED <<memories, meta, writer, pending, job>>
  BY DEF WriteFile, RemoveFile, databaseVars
<1>2. PICK version \in Versions :
        /\ file' = [file EXCEPT ![path] = version]
        /\ window' = [window EXCEPT ![path] = window[path] \cup {version}]
  BY IndexConstants DEF WriteFile, RemoveFile, Versions, CacheInv, IndexTypeOK
<1>3. \A other \in Paths : window[other] \subseteq window'[other]
  BY <1>2 DEF CacheInv, IndexTypeOK
<1>4. WindowHolds' /\ IndexTypeOK'
  BY <1>2, WorldKeepsTypes DEF CacheInv, WindowHolds, IndexTypeOK
<1>5. \A q \in Procs : (Rebuilding(q)' <=> Rebuilding(q)) /\ (Reading(q)' <=> Reading(q))
  BY <1>1 DEF Rebuilding, Reading
<1>6. ASSUME NEW q \in Procs, Rebuilding(q)
      PROVE  RebuildInv(q)'
  BY <1>1, <1>3, <1>6 DEF CacheInv, RebuildInv, PendingWhole
<1>7. ASSUME NEW q \in Procs, Reading(q)
      PROVE  ReaderInv(q)'
  BY <1>1, <1>5, <1>7 DEF CacheInv, ReaderInv
<1>8. AloneRebuilding'
  BY <1>5 DEF CacheInv, AloneRebuilding
<1> QED BY <1>4, <1>5, <1>6, <1>7, <1>8 DEF CacheInv

LEMMA CacheInvStep ==
    ASSUME CacheInv, OneRebuild, [IndexNext]_indexVars PROVE CacheInv'
<1>1. CASE UNCHANGED indexVars
  <2>1. IndexTypeOK'
    BY <1>1, IndexTypeStep DEF CacheInv
  <2> QED BY <1>1, <2>1 DEF indexVars, CacheInv, WindowHolds, AloneRebuilding, Rebuilding, RebuildInv,
                            PendingWhole, Reading, ReaderInv
<1> QED BY <1>1, StartKeepsCache, SchemaKeepsCache, ScanKeepsCache, CommitKeepsCache,
           ReaderKeepsCache, KillKeepsCache, EditKeepsCache DEF IndexNext, RebuildStep

LEMMA CacheInvariant ==
    ASSUME OneRebuild PROVE IndexSpec => []CacheInv
<1>1. IndexInit => CacheInv
  <2> SUFFICES ASSUME IndexInit PROVE CacheInv
    OBVIOUS
  <2>1. WindowHolds
    BY DEF IndexInit, WindowHolds
  <2> QED BY <2>1, IndexInitTypes
          DEF IndexInit, CacheInv, AloneRebuilding, Rebuilding, Reading
<1>2. CacheInv /\ [IndexNext]_indexVars => CacheInv'
  BY CacheInvStep
<1> QED BY <1>1, <1>2, PTL DEF IndexSpec

-----------------------------------------------------------------------------
(* The index is the cache it is meant to be.                               *)

LEMMA ViewWhileRebuilding ==
    ASSUME CacheInv, NEW p \in Procs, Rebuilding(p), job[p].at # "drop_memories"
    PROVE  View = None
<1>1. RebuildInv(p) /\ job[p].at \in RebuildPoints
  BY DEF CacheInv, IndexTypeOK, WellFormed, Rebuilding
<1> QED BY <1>1 DEF RebuildInv, RebuildPoints, View

\* What a rebuild commits is one row for each file it found.
LEMMA CommitPublishes ==
    ASSUME CacheInv, NEW p \in Procs, CommitIndex(p)
    PROVE  /\ View = None
           /\ View' \in [Paths -> Seq(Nat)] /\ View' # None
           /\ \A path \in Paths : \E version \in window[path] : View'[path] = Cache!RowsOf(version)
<1>1. /\ job[p] # None /\ job[p].at = "commit"
      /\ memories' = Committed /\ meta' = "written"
  BY DEF CommitIndex, Running
<1>2. Rebuilding(p) /\ RebuildInv(p)
  BY <1>1, AtRebuildPoint DEF CacheInv, RebuildPoints
<1>3. memories = NoRows /\ PendingWhole({})
  BY <1>1, <1>2 DEF RebuildInv
<1>4. pending \in Tables
  BY TableFacts DEF CacheInv, IndexTypeOK
<1>5. NoRows # None
  BY TableFacts, NoneIsNoValue
<1>6. Committed = [path \in Paths |-> NoRows[path] \o pending[path]]
  BY <1>3, <1>5 DEF Committed
<1>7. ASSUME NEW path \in Paths PROVE NoRows[path] \o pending[path] = pending[path]
  <2>1. pending[path] \in Seq(Versions) /\ NoRows[path] = <<>>
    BY <1>4 DEF Tables, NoRows
  <2> QED BY <2>1
<1>8. Committed = pending
  BY <1>4, <1>6, <1>7 DEF Tables
<1>9. View' = pending
  BY <1>1, <1>4, <1>8, NoneIsNoValue DEF View
<1>10. View = None
  BY <1>1, <1>2, ViewWhileRebuilding
<1>11. pending \in [Paths -> Seq(Nat)]
  <2>1. ASSUME NEW path \in Paths PROVE pending[path] \in Seq(Nat)
    <3>1. PICK version \in window[path] : pending[path] = Cache!RowsOf(version)
      BY <1>3 DEF PendingWhole
    <3>2. version \in Nat
      BY <3>1 DEF CacheInv, IndexTypeOK, Versions
    <3>3. <<>> \in Seq(Nat) /\ <<version>> \in Seq(Nat)
      BY <3>2
    <3> QED BY <3>1, <3>3 DEF Cache!RowsOf
  <2> QED BY <1>4, <2>1 DEF Tables
<1> QED BY <1>3, <1>4, <1>9, <1>10, <1>11, NoneIsNoValue DEF PendingWhole

LEMMA CacheStep ==
    ASSUME CacheInv, [IndexNext]_indexVars
    PROVE  [Cache!Next]_(Cache!vars)
<1> USE DEF Cache!vars
<1>1. ASSUME UNCHANGED <<file, window, memories, meta>>
      PROVE  UNCHANGED Cache!vars
  BY <1>1 DEF View
<1>2. CASE UNCHANGED indexVars
  BY <1>1, <1>2 DEF indexVars
<1>3. ASSUME NEW p \in Procs, StartIndex(p) \/ StartRead(p) \/ Kill(p)
      PROVE  UNCHANGED Cache!vars
  BY <1>1, <1>3 DEF StartIndex, StartRead, MayStart, Kill, RollBackOf, databaseVars
<1>4. ASSUME NEW p \in Procs, ReadStep(p)
      PROVE  UNCHANGED Cache!vars
  BY <1>1, <1>4, ReaderStep DEF CacheInv
<1>5. ASSUME NEW p \in Procs, NEW path \in Paths, ListPath(p, path) \/ InsertFile(p, path)
      PROVE  UNCHANGED Cache!vars
  BY <1>1, <1>5 DEF ListPath, InsertFile, databaseVars
<1>6. ASSUME NEW p \in Procs, WriteMetadata(p) \/ IndexFails(p)
      PROVE  UNCHANGED Cache!vars
  BY <1>1, <1>6 DEF WriteMetadata, IndexFails, RollBackOf
<1>7. ASSUME NEW p \in Procs, DropMemories(p)
      PROVE  Cache!Withdraw
  BY <1>7 DEF DropMemories, SchemaStep, View, Cache!Withdraw
<1>8. ASSUME NEW p \in Procs, DropMeta(p) \/ CreateMemories(p) \/ CreateMeta(p)
      PROVE  View = None /\ View' = None /\ UNCHANGED file
  <2>1. /\ job[p] # None
        /\ job[p].at \in RebuildPoints \ {"drop_memories"}
        /\ UNCHANGED file
    BY <1>8 DEF DropMeta, CreateMemories, CreateMeta, SchemaStep, Running, RebuildPoints
  <2>2. Rebuilding(p) /\ RebuildInv(p)
    BY <2>1, AtRebuildPoint DEF CacheInv
  <2>3. View = None
    BY <2>1, <2>2, ViewWhileRebuilding
  <2>4. meta' # "written"
    BY <1>8, <2>2 DEF DropMeta, CreateMemories, CreateMeta, SchemaStep, Running, RebuildInv
  <2> QED BY <2>1, <2>3, <2>4 DEF View
<1>9. ASSUME NEW p \in Procs, DropMeta(p) \/ CreateMemories(p)
      PROVE  UNCHANGED Cache!vars
  BY <1>8, <1>9 DEF DropMeta, CreateMemories
<1>10. ASSUME NEW p \in Procs, CreateMeta(p)
       PROVE  Cache!BeginReading
  BY <1>8, <1>10 DEF CreateMeta, Cache!BeginReading
<1>11. ASSUME NEW p \in Procs, CommitIndex(p)
       PROVE  Cache!Publish
  BY <1>11, CommitPublishes DEF CommitIndex, Cache!Publish
<1>12. ASSUME NEW path \in Paths, WriteFile(path) \/ RemoveFile(path)
       PROVE  Cache!Edit(path)
  <2>1. PICK version \in Versions :
          /\ file' = [file EXCEPT ![path] = version]
          /\ window' = [window EXCEPT ![path] = window[path] \cup {version}]
          /\ UNCHANGED <<memories, meta>>
    BY <1>12, IndexConstants DEF WriteFile, RemoveFile, Versions, CacheInv, IndexTypeOK, databaseVars
  <2>2. file'[path] = version /\ version \in Nat
    BY <2>1 DEF CacheInv, IndexTypeOK, Versions
  <2>3. View' = View
    BY <2>1 DEF View
  <2> QED BY <2>1, <2>2, <2>3 DEF Cache!Edit
<1> QED BY <1>2, <1>3, <1>4, <1>5, <1>6, <1>7, <1>9, <1>10, <1>11, <1>12
        DEF IndexNext, RebuildStep, Cache!Next

\* Whatever is killed, fails or is edited in between, the statements of one rebuild
\* at a time (indexer.py index_markdown_tree) implement a cache that is unusable or
\* shows each file once, as it was while the last complete rebuild read.
THEOREM ImplementsCacheHolds ==
    ASSUME OneRebuild PROVE IndexSpec => ImplementsCache
<1>1. IndexInit => Cache!Init
  <2> SUFFICES ASSUME IndexInit PROVE Cache!Init
    OBVIOUS
  <2>1. file \in [Paths -> Nat]
    BY IndexInitTypes DEF IndexTypeOK, Versions
  <2> QED BY <2>1 DEF IndexInit, Cache!Init, View
<1>2. CacheInv /\ [IndexNext]_indexVars => [Cache!Next]_(Cache!vars)
  BY CacheStep
<1> QED BY <1>1, <1>2, CacheInvariant, PTL DEF IndexSpec, ImplementsCache, Cache!Spec

LEMMA AnswerStep ==
    ASSUME CacheInv, [IndexNext]_indexVars,
           NEW p \in Procs, answer'[p] # answer[p], job[p] # None
    PROVE  Truthful(p, answer'[p])
<1>1. ASSUME NEW q \in Procs, NEW kind, kind \in {"none", "refused"},
             answer' = [answer EXCEPT ![q] = Answer(kind)]
      PROVE  Truthful(p, answer'[p])
  BY <1>1 DEF CacheInv, IndexTypeOK, Truthful, Answer
<1>2. ASSUME NEW q \in Procs, StartIndex(q) \/ StartRead(q)
      PROVE  Truthful(p, answer'[p])
  BY <1>1, <1>2 DEF StartIndex, StartRead, MayStart
<1>3. ASSUME NEW q \in Procs, IndexFails(q) \/ ReadFails(q) \/ ReadMetadata(q) \/ CheckMetaTable(q)
      PROVE  Truthful(p, answer'[p])
  BY <1>1, <1>3 DEF IndexFails, ReadFails, ReadMetadata, CheckMetaTable, Refuse, End, Proceed
<1>4. ASSUME NEW q \in Procs, CommitIndex(q)
      PROVE  Truthful(p, answer'[p])
  <2>1. p = q /\ answer'[p] = Answer("indexed") /\ View' # None
    BY <1>4, CommitPublishes DEF CommitIndex, End, CacheInv, IndexTypeOK
  <2> QED BY <2>1 DEF Truthful, Answer
<1>5. ASSUME NEW q \in Procs, CheckMemoriesTable(q)
      PROVE  Truthful(p, answer'[p])
  <2>1. CASE End(q, Answer("healthy")) /\ memories # None
    <3>1. p = q /\ answer'[p].kind = "healthy"
      BY <2>1 DEF End, Answer, CacheInv, IndexTypeOK
    <3>2. job[p] # None /\ job[p].at = "memories_table"
      BY <1>5, <3>1 DEF CheckMemoriesTable, Running
    <3>3. Reading(p) => ReaderInv(p)
      BY DEF CacheInv
    <3>4. Reading(p)
      BY <3>2 DEF CacheInv, IndexTypeOK, WellFormed, RebuildPoints, Reading
    <3>5. ~job[p].met => View # None
      BY <2>1, <3>2, <3>3, <3>4 DEF ReaderInv, View
    <3> QED BY <3>1, <3>5 DEF Truthful
  <2>2. CASE Refuse(q) \/ Proceed(q, "select")
    BY <1>1, <2>2 DEF Refuse, End, Proceed
  <2>3. job[q].cmd \in Readers
    BY <1>5, ReaderStep DEF ReadStep, CacheInv
  <2> QED BY <1>5, <2>1, <2>2, <2>3 DEF CheckMemoriesTable, Readers
<1>6. ASSUME NEW q \in Procs, Select(q) \/ SelectFallback(q)
      PROVE  Truthful(p, answer'[p])
  <2>1. CASE End(q, Found) /\ memories # None
    <3>1. p = q /\ answer'[p].kind = "rows" /\ answer'[p].rows = memories
      BY <2>1 DEF End, Found, CacheInv, IndexTypeOK
    <3>2. job[p] # None /\ job[p].at \in {"select", "fallback"}
      BY <1>6, <3>1 DEF Select, SelectFallback, Running
    <3>3. Reading(p) => ReaderInv(p)
      BY DEF CacheInv
    <3>4. Reading(p)
      BY <3>2 DEF CacheInv, IndexTypeOK, WellFormed, RebuildPoints, Reading
    <3>5. memories = View \/ (job[p].met /\ memories = NoRows)
      <4>1. job[p].met \in BOOLEAN
        BY <3>2 DEF CacheInv, IndexTypeOK, Jobs
      <4> QED BY <2>1, <3>2, <3>3, <3>4, <4>1 DEF ReaderInv, View
    <3> QED BY <3>1, <3>5 DEF Truthful
  <2>2. CASE Refuse(q) \/ Proceed(q, "fallback")
    BY <1>1, <2>2 DEF Refuse, End, Proceed
  <2> QED BY <1>6, <2>1, <2>2 DEF Select, SelectFallback
<1>7. CASE UNCHANGED answer
  BY <1>7
<1> QED BY <1>2, <1>3, <1>4, <1>5, <1>6, <1>7
        DEF IndexNext, RebuildStep, ReadStep, indexVars, Kill, WriteFile, RemoveFile, DropMemories, DropMeta,
            CreateMemories, CreateMeta, SchemaStep, ListPath, InsertFile, WriteMetadata

\* A search runs over the whole index, or over nothing when a rebuild ran beside it,
\* and neither doctor nor index reports an index that cannot be searched
\* (indexer.py search, validate_connection).
THEOREM AnswersTruthfulHolds ==
    ASSUME OneRebuild PROVE IndexSpec => AnswersTruthful
<1>1. CacheInv /\ [IndexNext]_indexVars =>
        [\A p \in Procs : answer'[p] # answer[p] /\ job[p] # None => Truthful(p, answer'[p])]_indexVars
  BY AnswerStep
<1> QED BY <1>1, CacheInvariant, PTL DEF IndexSpec, AnswersTruthful
=============================================================================
