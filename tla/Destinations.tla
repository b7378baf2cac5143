---------------------------- MODULE Destinations ----------------------------
(***************************************************************************)
(* What promotion and rollback promise the reader of the destinations: a   *)
(* text changes by one line or block at a time, at its end.  Each block is *)
(* put in once, recorded only once it stands there, and taken out at most  *)
(* once, while it is the last thing in its text.  PromotionEngine          *)
(* implements it.                                                          *)
(***************************************************************************)
EXTENDS Sequences

CONSTANTS Dests, Promotions, Newline, ByHand

VARIABLES
    text,      \* text[d]: the blocks and lines of destination d
    recorded,  \* the promotions in the ledger
    removed    \* the promotions rolled back

Stands(d, id) == \E i \in DOMAIN text[d] : text[d][i] = id

Add(d, entry) == text' = [text EXCEPT ![d] = Append(@, entry)]

\* An id is used for one block, ever.
PutBlock(d, id) ==
    /\ id \notin recorded \cup removed
    /\ \A e \in Dests : ~Stands(e, id)
    /\ Add(d, id)
    /\ UNCHANGED <<recorded, removed>>

RecordBlock(d, id) ==
    /\ Stands(d, id)
    /\ recorded' = recorded \cup {id}
    /\ UNCHANGED <<text, removed>>

\* Only a recorded block is taken out, once, and nothing else with it; it is
\* the last entry of its text.
TakeOut(d, id) ==
    LET last == Len(text[d]) IN
    /\ id \in recorded \ removed
    /\ text[d] # <<>> /\ text[d][last] = id
    /\ text' = [text EXCEPT ![d][last] = Newline]
    /\ removed' = removed \cup {id}
    /\ UNCHANGED recorded

AddLine(d) == Add(d, ByHand) /\ UNCHANGED <<recorded, removed>>

Init ==
    /\ text = [d \in Dests |-> <<>>]
    /\ recorded = {}
    /\ removed = {}

Next == \E d \in Dests :
    \/ AddLine(d)
    \/ \E id \in Promotions : PutBlock(d, id) \/ RecordBlock(d, id) \/ TakeOut(d, id)

Spec == Init /\ [][Next]_<<text, recorded, removed>>
=============================================================================
