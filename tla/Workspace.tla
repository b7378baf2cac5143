------------------------------ MODULE Workspace ------------------------------
(***************************************************************************)
(* What every component of an ANTMA workspace shares: the operating system *)
(* processes that run `antma` commands on one project root, which of them  *)
(* have been killed, and the absent value.                                 *)
(*                                                                         *)
(* Commands are one-shot CLI processes that communicate only through files *)
(* below .antma/ and the destination files.  A member of Procs is a slot   *)
(* for such processes: it runs commands one after the other, and once one  *)
(* is killed it stays dead (a restart is another member of Procs).  Where  *)
(* the pid matters, in DestinationLock, a slot counts its processes.       *)
(***************************************************************************)
CONSTANTS
    Procs,     \* processes that may run commands on the workspace
    Mortal,    \* the processes that may be killed in the middle of a command
    IOErrors,  \* TRUE when a write may raise OSError (disk full, permission)
    None       \* no file, no record, no process

ASSUME WorkspaceConstants ==
    /\ Mortal \subseteq Procs
    /\ IOErrors \in BOOLEAN
    /\ None \notin Procs

VARIABLE
    dead       \* the processes that have been killed

Alive(p) == p \notin dead
=============================================================================
