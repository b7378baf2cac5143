----------------------------- MODULE IndexCache -----------------------------
(***************************************************************************)
(* What the search index promises while one rebuild runs at a time: it is  *)
(* a disposable cache of the Markdown files.  It is either unusable or     *)
(* shows every file once, as the file was at some moment of the last       *)
(* rebuild that ran to its end.  MemoryIndex implements it.                *)
(***************************************************************************)
EXTENDS Naturals, Sequences

CONSTANTS
    Paths,     \* the Markdown files of the workspace
    None       \* no usable index

VARIABLES
    file,      \* file[path]: the version of the file, 0 when there is none
    view,      \* view[path]: what a search finds of it, or None
    window     \* window[path]: its versions since the last rebuild began to read

vars == <<file, view, window>>

\* The rows of a file of a given version.
RowsOf(version) == IF version = 0 THEN <<>> ELSE <<version>>

Init ==
    /\ file \in [Paths -> Nat]
    /\ view = None
    /\ window = [path \in Paths |-> {file[path]}]

\* A user writes or removes a file; the index is not told.
Edit(path) ==
    /\ file'[path] \in Nat
    /\ file' = [file EXCEPT ![path] = file'[path]]
    /\ window' = [window EXCEPT ![path] = @ \cup {file'[path]}]
    /\ UNCHANGED view

Withdraw == view' = None /\ UNCHANGED <<file, window>>

BeginReading ==
    /\ view = None
    /\ window' = [path \in Paths |-> {file[path]}]
    /\ UNCHANGED <<file, view>>

Publish ==
    /\ view = None
    /\ view' \in [Paths -> Seq(Nat)]
    /\ \A path \in Paths : \E version \in window[path] : view'[path] = RowsOf(version)
    /\ UNCHANGED <<file, window>>

Next == (\E path \in Paths : Edit(path)) \/ Withdraw \/ BeginReading \/ Publish

Spec == Init /\ [][Next]_vars
=============================================================================
