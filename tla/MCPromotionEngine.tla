------------------------- MODULE MCPromotionEngine -------------------------
(***************************************************************************)
(* Constant values for model checking PromotionEngine.                     *)
(***************************************************************************)
EXTENDS PromotionEngine

\* One user runs every process.
EverySignal == [p \in Procs |-> Procs]

\* All versions name the same destination.
OneDestination == [t \in Texts |-> CHOOSE d \in Dests : TRUE]

\* Candidates are interchangeable.
CandSymmetry == Permutations(Cands)
=============================================================================
