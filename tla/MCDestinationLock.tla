-------------------------- MODULE MCDestinationLock --------------------------
(***************************************************************************)
(* Constant values for model checking DestinationLock.                     *)
(***************************************************************************)
EXTENDS DestinationLock, TLC

\* One user runs every process ...
EverySignal == [p \in Procs |-> Procs]

\* ... or the mortal ones belong to another user (kill raises EPERM).
TwoUsers == [p \in Procs |-> IF p \in Mortal THEN Mortal ELSE Procs \ Mortal]

\* Slots that differ in name alone.
Alike == Permutations(Procs \ Mortal)

=============================================================================
