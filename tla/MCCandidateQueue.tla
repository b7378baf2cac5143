-------------------------- MODULE MCCandidateQueue --------------------------
(***************************************************************************)
(* Constant values for model checking CandidateQueue.                      *)
(***************************************************************************)
EXTENDS CandidateQueue, TLC

\* Processes, candidates and versions are interchangeable.
Symmetry == Permutations(Procs) \cup Permutations(Cands) \cup Permutations(Texts)
=============================================================================
