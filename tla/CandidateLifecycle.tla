------------------------- MODULE CandidateLifecycle -------------------------
(***************************************************************************)
(* What the candidate queue promises when one command runs at a time: each *)
(* candidate is in one stage, and a command moves it along the edges of    *)
(* the lifecycle below in one step.  CandidateQueue implements it.         *)
(***************************************************************************)
CONSTANT Cands

VARIABLES
    stage,     \* stage[c]: a queue status, "absent" or "deleted"
    recorded   \* the candidates with a promotion record

Gates == {"auto_passed", "manual_review", "rejected", "blocked"}
AwaitingDecision == {"manual_review", "held"}
Queued == Gates \cup AwaitingDecision
          \cup {"candidate", "approved", "promoted", "rolled_back", "failed"}

Move(c, to) == stage' = [stage EXCEPT ![c] = to] /\ UNCHANGED recorded

Create(c) == stage[c] = "absent" /\ Move(c, "candidate")

\* A review by id re-evaluates a candidate whatever its status.
Review(c) == stage[c] \in Queued /\ \E to \in Gates : Move(c, to)

\* Only a candidate awaiting a manual decision gets one; a material edit sends
\* it back to the start.
Decide(c) ==
    /\ stage[c] \in AwaitingDecision
    /\ \E to \in {"approved", "rejected", "held", "candidate"} : Move(c, to)

\* Only a gate-passed or approved candidate is recorded and promoted.
RecordPromotion(c) ==
    /\ stage[c] \in {"auto_passed", "approved"}
    /\ recorded' = recorded \cup {c}
    /\ UNCHANGED stage

Promote(c) ==
    /\ stage[c] \in {"auto_passed", "approved"}
    /\ \/ c \in recorded /\ Move(c, "promoted")
       \/ Move(c, "failed")

\* Only a recorded promotion is rolled back.
RollBack(c) == stage[c] \in Queued /\ c \in recorded /\ Move(c, "rolled_back")

\* A deleted candidate never returns.
Delete(c) ==
    /\ stage[c] \in Queued \ {"promoted", "rolled_back"}
    /\ Move(c, "deleted")

Init == stage = [c \in Cands |-> "absent"] /\ recorded = {}

Next == \E c \in Cands :
    Create(c) \/ Review(c) \/ Decide(c) \/ RecordPromotion(c) \/ Promote(c)
    \/ RollBack(c) \/ Delete(c)

Spec == Init /\ [][Next]_<<stage, recorded>>
=============================================================================
