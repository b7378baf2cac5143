--------------------------- MODULE RollbackProofs ---------------------------
(***************************************************************************)
(* Proofs about promotions, rollbacks, deletions and hand edits together,  *)
(* under every interleaving, kill and write error: the engine's types, the *)
(* snapshots of the blocks in the destinations, and what is in             *)
(* rolled-back/.  With one command at a time, killed or failing anywhere:  *)
(* recorded blocks and hand-written lines stay, removed blocks stay out.   *)
(* With one command at a time, or promotions alone that keep their locks:  *)
(* the engine implements Destinations.                                     *)
(***************************************************************************)
EXTENDS PromotionEngineProofs, FiniteSetTheorems

\* BlocksSnapshotted of one text, which stands in d or is to be written there.
Sound(d, text, taken) ==
    \A i \in DOMAIN text : text[i] \in Promotions =>
      /\ \E s \in taken : s.id = text[i] /\ s.dest = d
      /\ \A j \in DOMAIN text : text[j] = text[i] => j = i

Below(text, n) == \A i \in DOMAIN text : text[i] < n

\* p has drawn an id and not put it into a text yet.
Reserves(p) == stage[p] \in {"lock", "read"}

\* p has a text in memory that it may write.
Carries(p) == stage[p] \in {"snapshot", "replace", "undo"}

CarriedOK(p) == Carries(p) =>
    /\ Below(draft[p].after, nextId)
    /\ Sound(draft[p].dest, draft[p].after, snapshots \cup {draft[p]})

\* The id that p has reserved is in no text and nobody else's.
ReservedOK(p) == Reserves(p) =>
    /\ draft[p].id < nextId
    /\ \A d \in Dests : ~HasBlock(dest[d], draft[p].id)
    /\ \A q \in Procs \ {p} :
         /\ Carries(q) => ~HasBlock(draft[q].after, draft[p].id)
         /\ Reserves(q) => draft[q].id # draft[p].id

KeptOK(p) ==
    /\ stage[p] \in {"replace", "record"} => draft[p] \in snapshots
    /\ stage[p] \in {"undo", "lookup"} => draft[p] \in records

\* What makes BlocksSnapshotted inductive.
SnapshotInv ==
    /\ EngineTypeOK
    /\ \A d \in Dests : Sound(d, dest[d], snapshots) /\ Below(dest[d], nextId)
    /\ \A p \in Procs : CarriedOK(p) /\ ReservedOK(p) /\ KeptOK(p)

LEMMA SoundGrows ==
    ASSUME NEW d, NEW text, NEW taken, NEW more, Sound(d, text, taken), taken \subseteq more
    PROVE  Sound(d, text, more)
  BY DEF Sound

LEMMA BelowGrows ==
    ASSUME NEW text \in Contents, NEW n \in Nat, NEW m \in Nat, n <= m, Below(text, n)
    PROVE  Below(text, m)
<1>1. \A i \in DOMAIN text : text[i] \in Int
  BY DEF Contents, Promotions, Newline, ByHand
<1> QED BY <1>1 DEF Below

LEMMA Lines0 ==
    ASSUME NEW text \in Contents
    PROVE  /\ DOMAIN text = 1..Len(text) /\ Len(text) \in Nat
           /\ \A i \in DOMAIN text : text[i] \in Promotions \cup {Newline, ByHand}
  BY DEF Contents

\* Adding an entry that no promotion put there before.
LEMMA AppendSound ==
    ASSUME NEW d, NEW text \in Contents, NEW taken, NEW n \in Promotions \cup {ByHand},
           NEW bound \in Nat \ {0}, Sound(d, text, taken), Below(text, bound), n < bound,
           n \in Promotions => ~HasBlock(text, n) /\ \E s \in taken : s.id = n /\ s.dest = d
    PROVE  /\ Append(text, n) \in Contents
           /\ Sound(d, Append(text, n), taken) /\ Below(Append(text, n), bound)
           /\ \A m : HasBlock(Append(text, n), m) => m = n \/ HasBlock(text, m)
<1> DEFINE new == Append(text, n)
<1>1. new \in Contents
  BY DEF Contents
<1>2. /\ DOMAIN text = 1..Len(text) /\ Len(text) \in Nat
      /\ DOMAIN new = 1..(Len(text) + 1)
      /\ new[Len(text) + 1] = n
      /\ \A i \in DOMAIN text : new[i] = text[i]
  BY DEF Contents
<1>3. \A i \in DOMAIN new : i \in DOMAIN text \/ i = Len(text) + 1
  BY <1>2
<1> HIDE DEF new
<1>4. Below(new, bound)
  BY <1>2, <1>3 DEF Below
<1>5. \A m : HasBlock(new, m) => m = n \/ HasBlock(text, m)
  BY <1>2, <1>3 DEF HasBlock
<1>6. Sound(d, new, taken)
  <2> SUFFICES ASSUME NEW i \in DOMAIN new, new[i] \in Promotions
               PROVE  /\ \E s \in taken : s.id = new[i] /\ s.dest = d
                      /\ \A j \in DOMAIN new : new[j] = new[i] => j = i
    BY DEF Sound
  <2>1. CASE i \in DOMAIN text
    <3>1. new[i] = text[i] /\ text[i] \in Promotions
      BY <1>2, <2>1
    <3>2. new[i] = n => FALSE
      BY <2>1, <3>1 DEF HasBlock
    <3> QED BY <1>2, <1>3, <2>1, <3>1, <3>2 DEF Sound
  <2>2. CASE i = Len(text) + 1
    <3>1. new[i] = n
      BY <1>2, <2>2
    <3>2. \A j \in DOMAIN text : new[j] # new[i]
      BY <1>2, <3>1 DEF HasBlock
    <3> QED BY <1>3, <2>2, <3>1, <3>2
  <2> QED BY <1>3, <2>1, <2>2
<1> QED BY <1>1, <1>4, <1>5, <1>6 DEF new

LEMMA RemoveSound ==
    ASSUME NEW d, NEW text \in Contents, NEW taken, NEW n \in Promotions,
           NEW bound \in Nat \ {0}, Sound(d, text, taken), Below(text, bound)
    PROVE  /\ RemoveBlock(text, n) \in Contents
           /\ Sound(d, RemoveBlock(text, n), taken) /\ Below(RemoveBlock(text, n), bound)
           /\ \A m \in Promotions : HasBlock(RemoveBlock(text, n), m) => HasBlock(text, m)
<1> DEFINE new == RemoveBlock(text, n)
<1>1. /\ DOMAIN text = 1..Len(text) /\ Len(text) \in Nat
      /\ \A i \in DOMAIN text : text[i] \in Promotions \cup {Newline, ByHand}
  BY Lines0
<1>2. /\ DOMAIN new = DOMAIN text
      /\ \A i \in DOMAIN text : new[i] = IF text[i] = n THEN Newline ELSE text[i]
  BY DEF RemoveBlock
<1>3. new \in [1..Len(text) -> Promotions \cup {Newline, ByHand}]
  BY <1>1 DEF RemoveBlock
<1>4. new \in Contents
  BY <1>1, <1>3 DEF Contents
<1>5. Newline \notin Promotions /\ Newline < bound
  BY DEF Newline, Promotions
<1> HIDE DEF new
<1>6. Below(new, bound)
  BY <1>2, <1>5 DEF Below
<1>7. Sound(d, new, taken)
  BY <1>2, <1>5 DEF Sound
<1>8. \A m \in Promotions : HasBlock(new, m) => HasBlock(text, m)
  BY <1>2, <1>5 DEF HasBlock
<1> QED BY <1>4, <1>6, <1>7, <1>8 DEF new

LEMMA ConstantFacts ==
    /\ MaxProms \in Nat /\ MaxEdits \in Nat
    /\ {"idle", "lock", "read", "snapshot", "replace", "record", "move", "release",
        "undo", "lookup"} = Stages
    /\ None \notin PromotionRecords
  BY EngineConstants, NoneIsNoPromotion DEF Stages

LEMMA RecordFields ==
    ASSUME NEW r \in PromotionRecords
    PROVE  /\ r.id \in Promotions /\ r.id \in Nat /\ r.cand \in Cands /\ r.dest \in Dests
           /\ r.before \in Contents /\ r.after \in Contents
  BY DEF PromotionRecords, Promotions

\* The text p carries is one of its destination.
LEMMA DraftFields ==
    ASSUME EngineTypeOK, NEW p \in Procs, Carries(p) \/ Reserves(p)
    PROVE  /\ draft[p] \in PromotionRecords
           /\ draft[p].id \in Promotions /\ draft[p].dest \in Dests /\ draft[p].after \in Contents
<1>1. draft[p] \in PromotionRecords
  BY DEF EngineTypeOK, Carries, Reserves
<1> QED BY <1>1, RecordFields

\* What stays the same for p when q alone changes its stage and its draft.
Unmoved(p) == stage'[p] = stage[p] /\ draft'[p] = draft[p]

\* A step of q that leaves the destinations alone.
LEMMA OneStep ==
    ASSUME SnapshotInv, NEW q \in Procs, EngineTypeOK', dest' = dest,
           snapshots \subseteq snapshots', records \subseteq records', nextId <= nextId',
           \A p \in Procs \ {q} : Unmoved(p),
           CarriedOK(q)', ReservedOK(q)', KeptOK(q)',
           Carries(q)' =>
             \A p \in Procs \ {q} : Reserves(p) => ~HasBlock(draft'[q].after, draft[p].id),
           Reserves(q)' =>
             \A p \in Procs \ {q} : Reserves(p) => draft'[q].id # draft[p].id
    PROVE  SnapshotInv'
<1>1. nextId \in Nat \ {0} /\ nextId' \in Nat \ {0}
  BY DEF SnapshotInv, EngineTypeOK
<1>2. ASSUME NEW d \in Dests PROVE (Sound(d, dest[d], snapshots) /\ Below(dest[d], nextId))'
  <2>1. dest[d] \in Contents /\ Sound(d, dest[d], snapshots) /\ Below(dest[d], nextId)
    BY DEF SnapshotInv, EngineTypeOK
  <2>2. Sound(d, dest[d], snapshots') /\ Below(dest[d], nextId')
    BY <1>1, <2>1, SoundGrows, BelowGrows
  <2> QED BY <2>2
<1>3. ASSUME NEW p \in Procs \ {q} PROVE CarriedOK(p)'
  <2> SUFFICES ASSUME Carries(p)
               PROVE  /\ Below(draft[p].after, nextId')
                      /\ Sound(draft[p].dest, draft[p].after, snapshots' \cup {draft[p]})
    BY DEF CarriedOK, Carries, Unmoved
  <2>1. /\ Below(draft[p].after, nextId)
        /\ Sound(draft[p].dest, draft[p].after, snapshots \cup {draft[p]})
    BY DEF SnapshotInv, CarriedOK
  <2>2. draft[p].after \in Contents
    BY DraftFields DEF SnapshotInv
  <2>3. snapshots \cup {draft[p]} \subseteq snapshots' \cup {draft[p]}
    OBVIOUS
  <2> QED BY <1>1, <2>1, <2>2, <2>3, BelowGrows, SoundGrows
<1>4. ASSUME NEW p \in Procs \ {q} PROVE ReservedOK(p)'
  <2> SUFFICES ASSUME Reserves(p)
               PROVE  /\ draft[p].id < nextId'
                      /\ \A d \in Dests : ~HasBlock(dest[d], draft[p].id)
                      /\ \A o \in Procs \ {p} :
                           /\ Carries(o)' => ~HasBlock(draft'[o].after, draft[p].id)
                           /\ Reserves(o)' => draft'[o].id # draft[p].id
    BY DEF ReservedOK, Reserves, Unmoved
  <2>1. ReservedOK(p) /\ draft[p].id \in Nat
    BY DraftFields DEF SnapshotInv, Promotions
  <2>2. ASSUME NEW o \in Procs \ {p}
        PROVE  /\ Carries(o)' => ~HasBlock(draft'[o].after, draft[p].id)
               /\ Reserves(o)' => draft'[o].id # draft[p].id
    <3>1. CASE o = q
      BY <3>1
    <3>2. CASE o # q
      <4>1. stage'[o] = stage[o] /\ draft'[o] = draft[o]
        BY <3>2 DEF Unmoved
      <4> QED BY <2>1, <4>1 DEF ReservedOK, Carries, Reserves
    <3> QED BY <3>1, <3>2
  <2> QED BY <1>1, <2>1, <2>2 DEF ReservedOK
<1>5. ASSUME NEW p \in Procs \ {q} PROVE KeptOK(p)'
  BY DEF SnapshotInv, KeptOK, Unmoved
<1>6. \A p \in Procs : (CarriedOK(p) /\ ReservedOK(p) /\ KeptOK(p))'
  BY <1>3, <1>4, <1>5
<1> QED BY <1>2, <1>6 DEF SnapshotInv

\* A step of q that ends its work on a text without writing it.
LEMMA LetGo ==
    ASSUME SnapshotInv, NEW q \in Procs, EngineTypeOK', dest' = dest,
           snapshots' = snapshots, records \subseteq records', nextId' = nextId,
           \A p \in Procs \ {q} : Unmoved(p),
           stage'[q] \in {"idle", "move", "release"}
    PROVE  SnapshotInv'
<1>1. ~Carries(q)' /\ ~Reserves(q)' /\ KeptOK(q)'
  BY DEF Carries, Reserves, KeptOK
<1>2. nextId <= nextId'
  BY DEF SnapshotInv, EngineTypeOK
<1> QED BY <1>1, <1>2, OneStep DEF CarriedOK, ReservedOK

\* A step that writes a sound text without reserved ids into destination e; q,
\* whose step it may be, has done with its text.
LEMMA WriteSound ==
    ASSUME SnapshotInv, NEW e \in Dests, NEW text, EngineTypeOK',
           Sound(e, text, snapshots), Below(text, nextId),
           \A p \in Procs : Reserves(p) => ~HasBlock(text, draft[p].id),
           dest' = [dest EXCEPT ![e] = text],
           UNCHANGED <<snapshots, records, nextId, draft>>,
           \A p \in Procs : \/ stage'[p] = stage[p]
                            \/ stage[p] = "replace" /\ stage'[p] = "record"
                            \/ stage[p] = "undo" /\ stage'[p] = "lookup"
    PROVE  SnapshotInv'
<1>1. \A d \in Dests : dest'[d] = IF d = e THEN text ELSE dest[d]
  BY DEF SnapshotInv, EngineTypeOK
<1>2. \A d \in Dests : (Sound(d, dest[d], snapshots) /\ Below(dest[d], nextId))'
  BY <1>1 DEF SnapshotInv
<1>3. \A p \in Procs : (Carries(p)' => Carries(p)) /\ (Reserves(p)' => Reserves(p))
  BY DEF Carries, Reserves
<1>4. ASSUME NEW p \in Procs PROVE CarriedOK(p)'
  BY <1>3 DEF SnapshotInv, CarriedOK
<1>5. ASSUME NEW p \in Procs PROVE ReservedOK(p)'
  <2> SUFFICES ASSUME Reserves(p)
               PROVE  /\ draft[p].id < nextId
                      /\ \A d \in Dests : ~HasBlock(dest'[d], draft[p].id)
                      /\ \A o \in Procs \ {p} :
                           /\ Carries(o)' => ~HasBlock(draft[o].after, draft[p].id)
                           /\ Reserves(o)' => draft[o].id # draft[p].id
    BY <1>3 DEF ReservedOK
  <2>1. ReservedOK(p)
    BY DEF SnapshotInv
  <2>2. \A d \in Dests : ~HasBlock(dest'[d], draft[p].id)
    BY <1>1, <2>1 DEF ReservedOK
  <2> QED BY <1>3, <2>1, <2>2 DEF ReservedOK
<1>6. ASSUME NEW p \in Procs PROVE KeptOK(p)'
  BY DEF SnapshotInv, KeptOK
<1> QED BY <1>2, <1>4, <1>5, <1>6 DEF SnapshotInv

-----------------------------------------------------------------------------
\* The part of the type invariant about stages and drafts.
StagesOK ==
    /\ stage \in [Procs -> Stages]
    /\ draft \in [Procs -> PromotionRecords \cup {None}]
    /\ \A p \in Procs : stage[p] \notin {"idle", "move", "release"} => draft[p] # None

LEMMA StageStep ==
    ASSUME EngineTypeOK, NEW q \in Procs, NEW to \in Stages, EnterStage(q, to),
           NEW r \in PromotionRecords \cup {None}, draft' = [draft EXCEPT ![q] = r],
           to \notin {"idle", "move", "release"} => r # None
    PROVE  /\ StagesOK' /\ stage'[q] = to /\ draft'[q] = r
           /\ \A p \in Procs \ {q} : Unmoved(p)
  BY DEF EngineTypeOK, StagesOK, EnterStage, Unmoved

LEMMA StageOnlyStep ==
    ASSUME EngineTypeOK, NEW q \in Procs, NEW to \in Stages, EnterStage(q, to), draft' = draft,
           stage[q] \notin {"idle", "move", "release"} \/ to \in {"idle", "move", "release"}
    PROVE  /\ StagesOK' /\ stage'[q] = to /\ draft'[q] = draft[q]
           /\ \A p \in Procs \ {q} : Unmoved(p)
  BY DEF EngineTypeOK, StagesOK, EnterStage, Unmoved

LEMMA SameEngine ==
    ASSUME SnapshotInv, UNCHANGED engineVars
    PROVE  SnapshotInv'
<1>1. EngineTypeOK'
  BY DEF SnapshotInv, EngineTypeOK, engineVars
<1>2. ASSUME NEW p \in Procs PROVE (CarriedOK(p) /\ ReservedOK(p) /\ KeptOK(p))'
  BY DEF SnapshotInv, CarriedOK, ReservedOK, KeptOK, Carries, Reserves, engineVars
<1> QED BY <1>1, <1>2 DEF SnapshotInv, engineVars

LEMMA BeginDraws ==
    ASSUME SnapshotInv, QueueTypeOK, NEW q \in Procs, BeginPromotion(q)
    PROVE  SnapshotInv'
<1> DEFINE d == DestOf[Loaded(q)]
           r == [id |-> nextId, cand |-> job[q].cand, dest |-> d, before |-> <<>>, after |-> <<>>]
<1>1. d \in Dests /\ job[q].cand \in Cands
  BY EngineConstants, JobFields DEF BeginPromotion, PromoteLoad, Load, Running
<1>2. /\ dest' = dest /\ edits' = edits /\ nextId' = nextId + 1 /\ nextId <= MaxProms
      /\ draft' = [draft EXCEPT ![q] = r] /\ EnterStage(q, "lock")
      /\ UNCHANGED <<snapshots, records, undone>>
  BY DEF BeginPromotion
<1>3. nextId \in Promotions /\ nextId \in Nat /\ nextId' \in 1..(MaxProms + 1)
  BY <1>2, ConstantFacts DEF SnapshotInv, EngineTypeOK, Promotions
<1>4. <<>> \in Contents
  BY DEF Contents
<1>5. r \in PromotionRecords /\ r # None /\ r.id = nextId
  BY <1>1, <1>3, <1>4, ConstantFacts DEF PromotionRecords
<1> HIDE DEF r
<1>6. "lock" \in Stages
  BY ConstantFacts
<1>7. /\ StagesOK' /\ stage'[q] = "lock" /\ draft'[q] = r
      /\ \A p \in Procs \ {q} : Unmoved(p)
  BY <1>2, <1>5, <1>6, StageStep DEF SnapshotInv
<1>8. EngineTypeOK'
  BY <1>2, <1>3, <1>7 DEF SnapshotInv, EngineTypeOK, StagesOK
<1>9. ASSUME NEW text, Below(text, nextId) PROVE ~HasBlock(text, nextId)
  BY <1>3, <1>9 DEF Below, HasBlock
<1>10. \A p \in Procs : Carries(p) => ~HasBlock(draft[p].after, nextId)
  BY <1>9 DEF SnapshotInv, CarriedOK
<1>11. \A p \in Procs : Reserves(p) => draft[p].id # nextId
  BY <1>3 DEF SnapshotInv, ReservedOK
<1>12. \A p \in Procs \ {q} : (Carries(p)' => Carries(p)) /\ (Reserves(p)' => Reserves(p))
  BY <1>7 DEF Carries, Reserves, Unmoved
<1>13. ReservedOK(q)'
  <2>1. \A e \in Dests : ~HasBlock(dest'[e], nextId)
    BY <1>2, <1>9 DEF SnapshotInv
  <2>2. \A p \in Procs \ {q} :
          /\ Carries(p)' => ~HasBlock(draft'[p].after, nextId)
          /\ Reserves(p)' => draft'[p].id # nextId
    BY <1>7, <1>10, <1>11, <1>12 DEF Unmoved
  <2> QED BY <1>2, <1>3, <1>5, <1>7, <2>1, <2>2 DEF ReservedOK
<1>14. ~Carries(q)' /\ KeptOK(q)'
  BY <1>7 DEF Carries, KeptOK
<1>15. nextId <= nextId'
  BY <1>2, <1>3
<1> QED BY <1>2, <1>5, <1>7, <1>8, <1>11, <1>13, <1>14, <1>15, OneStep DEF CarriedOK

LEMMA ValidateKeepsId ==
    ASSUME SnapshotInv, NEW q \in Procs, ValidatePhase(q)
    PROVE  SnapshotInv'
<1>1. /\ stage[q] = "lock" /\ EnterStage(q, "read")
      /\ UNCHANGED <<dest, snapshots, records, nextId, edits, draft, undone>>
  BY DEF ValidatePhase, Staged
<1>2. "read" \in Stages
  BY ConstantFacts
<1>3. /\ StagesOK' /\ stage'[q] = "read" /\ draft'[q] = draft[q]
      /\ \A p \in Procs \ {q} : Unmoved(p)
  BY <1>1, <1>2, StageOnlyStep DEF SnapshotInv
<1>4. EngineTypeOK'
  BY <1>1, <1>3 DEF SnapshotInv, EngineTypeOK, StagesOK
<1>5. Reserves(q) /\ ReservedOK(q)
  BY <1>1 DEF SnapshotInv, Reserves
<1>6. \A p \in Procs \ {q} : (Carries(p)' => Carries(p)) /\ (Reserves(p)' => Reserves(p))
  BY <1>3 DEF Carries, Reserves, Unmoved
<1>7. ReservedOK(q)'
  BY <1>1, <1>3, <1>5, <1>6 DEF ReservedOK, Unmoved
<1>8. ~Carries(q)' /\ KeptOK(q)'
  BY <1>3 DEF Carries, KeptOK
<1>9. \A p \in Procs \ {q} : Reserves(p) => draft'[q].id # draft[p].id
  BY <1>3, <1>5 DEF ReservedOK
<1>10. nextId <= nextId'
  BY <1>1 DEF SnapshotInv, EngineTypeOK
<1> QED BY <1>1, <1>3, <1>4, <1>7, <1>8, <1>9, <1>10, OneStep DEF CarriedOK

LEMMA ReadCarries ==
    ASSUME SnapshotInv, NEW q \in Procs, ReadDestination(q)
    PROVE  SnapshotInv'
<1> DEFINE n == draft[q].id
           d == draft[q].dest
           text == dest[d]
           r == [draft[q] EXCEPT !.before = text, !.after = Append(text, n)]
<1>1. /\ stage[q] = "read" /\ draft' = [draft EXCEPT ![q] = r] /\ EnterStage(q, "snapshot")
      /\ UNCHANGED <<dest, snapshots, records, nextId, edits, undone>>
  BY DEF ReadDestination, Staged
<1>2. Reserves(q) /\ ReservedOK(q)
  BY <1>1 DEF SnapshotInv, Reserves
<1>3. draft[q] \in PromotionRecords /\ n \in Promotions /\ d \in Dests
  BY <1>2, DraftFields DEF SnapshotInv
<1>4. text \in Contents /\ Sound(d, text, snapshots) /\ Below(text, nextId)
  BY <1>3 DEF SnapshotInv, EngineTypeOK
<1>5. n < nextId /\ ~HasBlock(text, n) /\ nextId \in Nat \ {0}
  BY <1>2, <1>3 DEF ReservedOK, SnapshotInv, EngineTypeOK
<1>6. Append(text, n) \in Contents
  BY <1>3, <1>4 DEF Contents
<1>7. /\ r \in PromotionRecords /\ r # None
      /\ r.id = n /\ r.dest = d /\ r.after = Append(text, n)
  BY <1>3, <1>4, <1>6, ConstantFacts DEF PromotionRecords
<1> HIDE DEF r
<1>8. Sound(d, text, snapshots \cup {r})
  BY <1>4, SoundGrows
<1>9. /\ Sound(d, Append(text, n), snapshots \cup {r}) /\ Below(Append(text, n), nextId)
      /\ \A m : HasBlock(Append(text, n), m) => m = n \/ HasBlock(text, m)
  <2>1. \E s \in snapshots \cup {r} : s.id = n /\ s.dest = d
    BY <1>7
  <2>2. n \in Promotions \cup {ByHand}
    BY <1>3
  <2> HIDE DEF n, d, text
  <2> QED BY <1>4, <1>5, <1>8, <2>1, <2>2, AppendSound
<1>10. "snapshot" \in Stages
  BY ConstantFacts
<1>11. /\ StagesOK' /\ stage'[q] = "snapshot" /\ draft'[q] = r
       /\ \A p \in Procs \ {q} : Unmoved(p)
  BY <1>1, <1>7, <1>10, StageStep DEF SnapshotInv
<1>12. EngineTypeOK'
  BY <1>1, <1>11 DEF SnapshotInv, EngineTypeOK, StagesOK
<1>13. CarriedOK(q)'
  BY <1>1, <1>7, <1>9, <1>11 DEF CarriedOK
<1>14. ~Reserves(q)' /\ KeptOK(q)'
  BY <1>11 DEF Reserves, KeptOK
<1>15. \A p \in Procs \ {q} : Reserves(p) => ~HasBlock(draft'[q].after, draft[p].id)
  <2> SUFFICES ASSUME NEW p \in Procs \ {q}, Reserves(p)
               PROVE  ~HasBlock(r.after, draft[p].id)
    BY <1>11
  <2>1. ReservedOK(p)
    BY DEF SnapshotInv
  <2>2. draft[p].id # n /\ ~HasBlock(text, draft[p].id)
    BY <1>2, <1>3, <2>1 DEF ReservedOK
  <2> QED BY <1>7, <1>9, <2>2
<1>16. nextId <= nextId'
  BY <1>1, <1>5
<1> QED BY <1>1, <1>11, <1>12, <1>13, <1>14, <1>15, <1>16, OneStep DEF ReservedOK

LEMMA SnapshotKept ==
    ASSUME SnapshotInv, NEW q \in Procs, TakeSnapshot(q)
    PROVE  SnapshotInv'
<1>1. /\ stage[q] = "snapshot" /\ EnterStage(q, "replace")
      /\ snapshots' = snapshots \cup {draft[q]}
      /\ UNCHANGED <<dest, records, nextId, edits, draft, undone>>
  BY DEF TakeSnapshot, Staged
<1>2. Carries(q) /\ CarriedOK(q) /\ draft[q] \in PromotionRecords
  BY <1>1, DraftFields DEF SnapshotInv, Carries
<1>3. "replace" \in Stages
  BY ConstantFacts
<1>4. /\ StagesOK' /\ stage'[q] = "replace" /\ draft'[q] = draft[q]
      /\ \A p \in Procs \ {q} : Unmoved(p)
  BY <1>1, <1>3, StageOnlyStep DEF SnapshotInv
<1>5. EngineTypeOK'
  BY <1>1, <1>2, <1>4 DEF SnapshotInv, EngineTypeOK, StagesOK
<1>6. CarriedOK(q)' /\ KeptOK(q)' /\ ~Reserves(q)'
  BY <1>1, <1>2, <1>4 DEF CarriedOK, KeptOK, Reserves
<1>7. \A p \in Procs \ {q} : Reserves(p) => ~HasBlock(draft'[q].after, draft[p].id)
  BY <1>2, <1>4 DEF SnapshotInv, ReservedOK
<1>8. nextId <= nextId' /\ snapshots \subseteq snapshots'
  BY <1>1 DEF SnapshotInv, EngineTypeOK
<1> QED BY <1>1, <1>4, <1>5, <1>6, <1>7, <1>8, OneStep DEF ReservedOK

LEMMA ReplaceWritesSound ==
    ASSUME SnapshotInv, NEW q \in Procs, ReplaceDestination(q)
    PROVE  SnapshotInv'
<1> DEFINE text == draft[q].after
           e == draft[q].dest
<1>1. /\ stage[q] = "replace" /\ dest' = [dest EXCEPT ![e] = text] /\ EnterStage(q, "record")
      /\ UNCHANGED <<snapshots, records, nextId, edits, draft, undone>>
  BY DEF ReplaceDestination, Staged
<1>2. Carries(q) /\ CarriedOK(q) /\ KeptOK(q) /\ e \in Dests /\ text \in Contents
  BY <1>1, DraftFields DEF SnapshotInv, Carries
<1>3. "record" \in Stages
  BY ConstantFacts
<1>4. /\ StagesOK' /\ stage'[q] = "record"
      /\ \A p \in Procs \ {q} : Unmoved(p)
  BY <1>1, <1>3, StageOnlyStep DEF SnapshotInv
<1>5. EngineTypeOK'
  BY <1>1, <1>2, <1>4 DEF SnapshotInv, EngineTypeOK, StagesOK
<1>6. snapshots \cup {draft[q]} = snapshots
  BY <1>1, <1>2 DEF KeptOK
<1>7. Sound(e, text, snapshots) /\ Below(text, nextId)
  BY <1>2, <1>6 DEF CarriedOK
<1>8. \A p \in Procs : Reserves(p) => ~HasBlock(text, draft[p].id)
  BY <1>1, <1>2 DEF SnapshotInv, ReservedOK, Reserves
<1>9. \A p \in Procs : stage'[p] = stage[p] \/ (stage[p] = "replace" /\ stage'[p] = "record")
  BY <1>1, <1>4 DEF Unmoved
<1> QED BY <1>1, <1>2, <1>5, <1>7, <1>8, <1>9, WriteSound

LEMMA RecordHasSnapshot ==
    ASSUME SnapshotInv, NEW q \in Procs, RecordPromotion(q)
    PROVE  SnapshotInv'
<1>1. /\ stage[q] = "record" /\ EnterStage(q, "move") /\ records' = records \cup {draft[q]}
      /\ UNCHANGED <<dest, snapshots, nextId, edits, draft, undone>>
  BY DEF RecordPromotion, Staged
<1>2. draft[q] \in snapshots
  BY <1>1 DEF SnapshotInv, KeptOK
<1>3. "move" \in Stages
  BY ConstantFacts
<1>4. /\ StagesOK' /\ stage'[q] = "move"
      /\ \A p \in Procs \ {q} : Unmoved(p)
  BY <1>1, <1>3, StageOnlyStep DEF SnapshotInv
<1>5. EngineTypeOK'
  BY <1>1, <1>2, <1>4 DEF SnapshotInv, EngineTypeOK, StagesOK
<1> QED BY <1>1, <1>4, <1>5, LetGo

LEMMA BeginRollbackCarries ==
    ASSUME SnapshotInv, NEW q \in Procs, NEW r \in records, BeginRollback(q, r)
    PROVE  SnapshotInv'
<1>1. /\ draft' = [draft EXCEPT ![q] = r] /\ EnterStage(q, "undo") /\ dest[r.dest] = r.after
      /\ UNCHANGED <<dest, snapshots, records, nextId, edits, undone>>
  BY DEF BeginRollback
<1>2. r \in snapshots /\ r \in PromotionRecords
  BY DEF SnapshotInv, EngineTypeOK
<1>3. r # None /\ r.dest \in Dests /\ r.after \in Contents
  BY <1>2, ConstantFacts, RecordFields
<1>4. "undo" \in Stages
  BY ConstantFacts
<1>5. /\ StagesOK' /\ stage'[q] = "undo" /\ draft'[q] = r
      /\ \A p \in Procs \ {q} : Unmoved(p)
  BY <1>1, <1>2, <1>3, <1>4, StageStep DEF SnapshotInv
<1>6. EngineTypeOK'
  BY <1>1, <1>5 DEF SnapshotInv, EngineTypeOK, StagesOK
<1>7. Below(r.after, nextId) /\ Sound(r.dest, r.after, snapshots)
  BY <1>1, <1>3 DEF SnapshotInv
<1>8. snapshots \cup {r} = snapshots
  BY <1>2
<1>9. CarriedOK(q)'
  BY <1>1, <1>5, <1>7, <1>8 DEF CarriedOK
<1>10. ~Reserves(q)' /\ KeptOK(q)'
  BY <1>1, <1>5 DEF Reserves, KeptOK
<1>11. \A p \in Procs \ {q} : Reserves(p) => ~HasBlock(draft'[q].after, draft[p].id)
  BY <1>1, <1>3, <1>5 DEF SnapshotInv, ReservedOK
<1>12. nextId <= nextId'
  BY <1>1 DEF SnapshotInv, EngineTypeOK
<1> QED BY <1>1, <1>5, <1>6, <1>9, <1>10, <1>11, <1>12, OneStep DEF ReservedOK

LEMMA RemoveWritesSound ==
    ASSUME SnapshotInv, NEW q \in Procs, RemoveFromDestination(q)
    PROVE  SnapshotInv'
<1> DEFINE r == draft[q]
           text == RemoveBlock(r.after, r.id)
<1>1. /\ stage[q] = "undo" /\ dest' = [dest EXCEPT ![r.dest] = text] /\ EnterStage(q, "lookup")
      /\ undone' = undone \cup {r.id}
      /\ UNCHANGED <<snapshots, records, nextId, edits, draft>>
  BY DEF RemoveFromDestination, Staged
<1>2. /\ Carries(q) /\ CarriedOK(q) /\ KeptOK(q)
      /\ r.dest \in Dests /\ r.after \in Contents /\ r.id \in Promotions
  BY <1>1, DraftFields DEF SnapshotInv, Carries
<1>3. snapshots \cup {draft[q]} = snapshots
  BY <1>1, <1>2 DEF KeptOK, SnapshotInv, EngineTypeOK
<1>4. /\ text \in Contents /\ Sound(r.dest, text, snapshots) /\ Below(text, nextId)
      /\ \A m \in Promotions : HasBlock(text, m) => HasBlock(r.after, m)
  <2>1. nextId \in Nat \ {0}
    BY DEF SnapshotInv, EngineTypeOK
  <2>2. Sound(r.dest, r.after, snapshots) /\ Below(r.after, nextId)
    BY <1>2, <1>3 DEF CarriedOK
  <2> QED BY <1>2, <2>1, <2>2, RemoveSound
<1>5. "lookup" \in Stages
  BY ConstantFacts
<1>6. /\ StagesOK' /\ stage'[q] = "lookup"
      /\ \A p \in Procs \ {q} : Unmoved(p)
  BY <1>1, <1>5, StageOnlyStep DEF SnapshotInv
<1>7. EngineTypeOK'
  BY <1>1, <1>2, <1>4, <1>6 DEF SnapshotInv, EngineTypeOK, StagesOK
<1>8. \A p \in Procs : Reserves(p) => ~HasBlock(text, draft[p].id)
  <2> SUFFICES ASSUME NEW p \in Procs, Reserves(p) PROVE ~HasBlock(text, draft[p].id)
    OBVIOUS
  <2>1. p # q /\ ReservedOK(p) /\ draft[p].id \in Promotions
    BY <1>1, DraftFields DEF SnapshotInv, Reserves
  <2>2. ~HasBlock(r.after, draft[p].id)
    BY <1>2, <2>1 DEF ReservedOK
  <2> QED BY <1>4, <2>1, <2>2
<1>9. \A p \in Procs : stage'[p] = stage[p] \/ (stage[p] = "undo" /\ stage'[p] = "lookup")
  BY <1>1, <1>6 DEF Unmoved
<1> QED BY <1>1, <1>2, <1>4, <1>7, <1>8, <1>9, WriteSound

LEMMA EditKeepsSound ==
    ASSUME SnapshotInv, NEW d \in Dests, EditByHand(d)
    PROVE  SnapshotInv'
<1> DEFINE text == Append(dest[d], ByHand)
<1>1. /\ dest' = [dest EXCEPT ![d] = text] /\ edits' = edits + 1 /\ edits < MaxEdits
      /\ UNCHANGED <<snapshots, records, nextId, stage, draft, undone>>
  BY DEF EditByHand
<1>2. /\ dest[d] \in Contents /\ Sound(d, dest[d], snapshots) /\ Below(dest[d], nextId)
      /\ nextId \in Nat \ {0} /\ ByHand \notin Promotions /\ ByHand < nextId
  BY DEF SnapshotInv, EngineTypeOK, ByHand, Promotions
<1>3. /\ text \in Contents /\ Sound(d, text, snapshots) /\ Below(text, nextId)
      /\ \A m : HasBlock(text, m) => m = ByHand \/ HasBlock(dest[d], m)
  BY <1>2, AppendSound
<1>4. EngineTypeOK'
  <2>1. edits' \in 0..MaxEdits
    BY <1>1, ConstantFacts DEF SnapshotInv, EngineTypeOK
  <2>2. dest' \in [Dests -> Contents]
    BY <1>1, <1>3 DEF SnapshotInv, EngineTypeOK
  <2> QED BY <1>1, <2>1, <2>2 DEF SnapshotInv, EngineTypeOK
<1>5. \A p \in Procs : Reserves(p) => ~HasBlock(text, draft[p].id)
  BY <1>2, <1>3, DraftFields DEF SnapshotInv, ReservedOK
<1> QED BY <1>1, <1>3, <1>4, <1>5, WriteSound

\* Steps after which q holds no text.
LEMMA LettingGo ==
    ASSUME SnapshotInv, NEW q \in Procs,
           \/ LockRaises(q) \/ FailPromotion(q) \/ FinishPromotion(q) \/ CrashPromoter(q)
           \/ RemoveFails(q) \/ FindRolledBack(q) \/ RollbackLosesCandidate(q)
           \/ QueueWork(q)
    PROVE  SnapshotInv'
<1>1. UNCHANGED <<dest, snapshots, records, nextId, edits, undone>>
  BY DEF LockRaises, FailPromotion, FinishPromotion, CrashPromoter, RemoveFails, FindRolledBack,
         RollbackLosesCandidate, QueueWork
<1>2. \E to \in {"idle", "move", "release"} :
        EnterStage(q, to) /\ (draft' = [draft EXCEPT ![q] = None] \/ draft' = draft)
  <2>1. CASE ~QueueWork(q)
    BY <2>1 DEF LockRaises, FailPromotion, FinishPromotion, CrashPromoter, RemoveFails,
           FindRolledBack, RollbackLosesCandidate, Drop
  <2>2. CASE QueueWork(q)
    BY <2>2 DEF QueueWork, Drop
  <2> QED BY <2>1, <2>2
<1>3. PICK to \in {"idle", "move", "release"} :
        EnterStage(q, to) /\ (draft' = [draft EXCEPT ![q] = None] \/ draft' = draft)
  BY <1>2
<1>4. to \in Stages
  BY ConstantFacts
<1>5. /\ StagesOK' /\ stage'[q] = to
      /\ \A p \in Procs \ {q} : Unmoved(p)
  BY <1>3, <1>4, StageStep, StageOnlyStep DEF SnapshotInv
<1>6. EngineTypeOK'
  BY <1>1, <1>5 DEF SnapshotInv, EngineTypeOK, StagesOK
<1> QED BY <1>1, <1>5, <1>6, LetGo

LEMMA SnapshotInvStep ==
    ASSUME SnapshotInv, QueueTypeOK, [EngineNext]_allVars
    PROVE  SnapshotInv'
<1>1. ASSUME NEW q \in Procs, PromotionStep(q) PROVE SnapshotInv'
  BY <1>1, BeginDraws, SameEngine, ValidateKeepsId, ReadCarries, SnapshotKept,
     ReplaceWritesSound, RecordHasSnapshot, LettingGo
     DEF PromotionStep, LockWork
<1>2. ASSUME NEW q \in Procs, RollbackStep(q) PROVE SnapshotInv'
  BY <1>2, BeginRollbackCarries, RemoveWritesSound, LettingGo DEF RollbackStep
<1>3. ASSUME NEW q \in Procs, StartOther(q) PROVE SnapshotInv'
  BY <1>3, SameEngine DEF StartOther
<1>4. ASSUME NEW q \in Procs, QueueWork(q) \/ CrashPromoter(q) PROVE SnapshotInv'
  BY <1>4, LettingGo
<1>5. CASE \E d \in Dests : EditByHand(d)
  BY <1>5, EditKeepsSound
<1>6. CASE ClockTick \/ (\E q \in Procs : EndCommand(q)) \/ UNCHANGED allVars
  BY <1>6, SameEngine DEF ClockTick, EndCommand, allVars
<1> QED BY <1>1, <1>2, <1>3, <1>4, <1>5, <1>6 DEF EngineNext

LEMMA SnapshotInvariant == EngineSpec => []SnapshotInv
<1>1. EngineInit => SnapshotInv
  <2> SUFFICES ASSUME EngineInit PROVE SnapshotInv
    OBVIOUS
  <2>1. <<>> \in Contents /\ 1 \in 1..(MaxProms + 1) /\ 0 \in 0..MaxEdits
    BY ConstantFacts DEF Contents
  <2>2. EngineTypeOK
    BY <2>1, ConstantFacts DEF EngineInit, EngineTypeOK
  <2>3. ASSUME NEW d \in Dests PROVE Sound(d, dest[d], snapshots) /\ Below(dest[d], nextId)
    BY DEF EngineInit, Sound, Below
  <2>4. ASSUME NEW p \in Procs PROVE CarriedOK(p) /\ ReservedOK(p) /\ KeptOK(p)
    BY DEF EngineInit, CarriedOK, ReservedOK, KeptOK, Carries, Reserves
  <2> QED BY <2>2, <2>3, <2>4 DEF SnapshotInv
<1>2. SnapshotInv /\ QueueTypeOK /\ [EngineNext]_allVars => SnapshotInv'
  BY SnapshotInvStep
<1>3. EngineSpec => []QueueTypeOK
  BY EngineImplementsQueue, QueueTypeCorrect, PTL
<1> QED BY <1>1, <1>2, <1>3, PTL DEF EngineSpec

\* Types of the engine, and every recorded promotion has its snapshot.
THEOREM EngineTypeCorrect == EngineSpec => []EngineTypeOK
<1>1. SnapshotInv => EngineTypeOK
  BY DEF SnapshotInv
<1> QED BY <1>1, SnapshotInvariant, PTL

\* Whoever promotes, rolls back, edits or dies meanwhile: each block in a
\* destination has the snapshot that create_snapshot took for it before the
\* replace, and stands there once.
THEOREM BlocksSnapshottedHolds == EngineSpec => []BlocksSnapshotted
<1>1. SnapshotInv => BlocksSnapshotted
  BY DEF SnapshotInv, Sound, BlocksSnapshotted
<1> QED BY <1>1, SnapshotInvariant, PTL

-----------------------------------------------------------------------------
(* What is in rolled-back/ *)

\* A command of the queue that is already running.
CommandStep(p) ==
    DecideWhatToWrite(p) \/ DeleteStep(p) \/ PromoteStep(p) \/ WriteStep(p) \/ KillCommand(p)

\* The command goes on with its candidate and comes to write into rolled-back/
\* only when it is a rollback.
GoesOn(p) == job'[p] # None =>
    /\ job[p] # None
    /\ job'[p].cand = job[p].cand /\ job'[p].cmd = job[p].cmd
    /\ \/ job'[p].new = job[p].new
       \/ job'[p].new # "rolled_back"
       \/ job[p].cmd = "rollback"

LEMMA CommandGoesOn ==
    ASSUME QueueTypeOK, NEW p \in Procs, CommandStep(p)
    PROVE  GoesOn(p) /\ \A q \in Procs \ {p} : job'[q] = job[q]
<1> USE DEF GoesOn, Finish, Continue
<1>1. job[p] # None => job[p] \in Jobs
  BY JobFields
<1>2. ASSUME NEW v \in Verdicts, Evaluate(p, v)
      PROVE  GoesOn(p) /\ \A q \in Procs \ {p} : job'[q] = job[q]
  <2>1. v # "rolled_back"
    BY QueueConstants DEF GateStatuses
  <2> QED BY <1>1, <1>2, <2>1 DEF Evaluate, Load, Running, QueueTypeOK, Jobs
<1>3. CASE Decide(p)
  <2>1. job[p].cmd \in Decisions /\ DecisionStatus[job[p].cmd] # "rolled_back"
    BY <1>3, DecisionStatusFacts DEF Decide, Load
  <2> QED BY <1>1, <1>3, <2>1 DEF Decide, Load, Running, QueueTypeOK, Jobs
<1>4. ASSUME NEW t \in Texts \cup {None}, Edit(p, t)
      PROVE  GoesOn(p) /\ \A q \in Procs \ {p} : job'[q] = job[q]
  BY <1>1, <1>4 DEF Edit, Load, Running, QueueTypeOK, Jobs
<1>5. CASE Reload(p) \/ MoveToRolledBack(p) \/ LoadFails(p)
  <2>1. CASE Reload(p)
    BY <1>1, <2>1 DEF Reload, Running, QueueTypeOK, Jobs
  <2>2. CASE MoveToRolledBack(p)
    BY <1>1, <2>2 DEF MoveToRolledBack, Load, Running, QueueTypeOK, Jobs
  <2>3. CASE LoadFails(p)
    BY <2>3 DEF LoadFails, QueueTypeOK
  <2> QED BY <1>5, <2>1, <2>2, <2>3
<1>6. CASE DeleteStep(p)
  BY <1>1, <1>6 DEF DeleteStep, CheckDeletable, Unlink, Load, Running, QueueTypeOK, Jobs
<1>7. CASE PromoteStep(p)
  <2>1. CASE PromoteLoad(p)
    BY <1>1, <2>1 DEF PromoteLoad, Load, Running, QueueTypeOK, Jobs
  <2>2. CASE Validate(p) \/ Record(p)
    BY <1>1, <2>2 DEF Validate, Record, Running, QueueTypeOK, Jobs
  <2>3. CASE AuditPromotion(p)
    BY <1>1, <2>3 DEF AuditPromotion, Running, QueueTypeOK, Jobs
  <2>4. CASE FailCandidate(p)
    BY <1>1, <2>4 DEF FailCandidate, QueueTypeOK, Jobs
  <2> QED BY <1>7, <2>1, <2>2, <2>3, <2>4 DEF PromoteStep
<1>8. CASE WriteStep(p)
  BY <1>1, <1>8 DEF WriteStep, OpenTarget, FillTarget, WriteFails, UnlinkOld, AppendAudit,
                    AfterMove, Running, QueueTypeOK, Jobs
<1>9. CASE KillCommand(p)
  BY <1>9 DEF KillCommand, QueueTypeOK
<1> QED BY <1>2, <1>3, <1>4, <1>5, <1>6, <1>7, <1>8, <1>9 DEF CommandStep, DecideWhatToWrite

LEMMA CommandWrites ==
    ASSUME QueueTypeOK, NEW p \in Procs, CommandStep(p), NEW c \in Cands,
           files'[c]["rolled_back"] # None
    PROVE  \/ files[c]["rolled_back"] # None
           \/ job[p] # None /\ job[p].cand = c /\ job[p].new = "rolled_back"
<1> USE DEF Status
<1>1. CASE OpenTarget(p)
  <2>1. job[p] # None /\ job[p].cand \in Cands /\ job[p].new \in Status
    BY <1>1, JobFields DEF OpenTarget, Running
  <2> QED BY <1>1, <2>1, SetFileReads, QueueConstants DEF OpenTarget, QueueTypeOK
<1>2. CASE FillTarget(p)
  <2>1. job[p] # None /\ job[p].cand \in Cands /\ job[p].new \in Status
    BY <1>2, JobFields DEF FillTarget, Running
  <2>2. CASE files' = files
    BY <2>2
  <2>3. ASSUME NEW v, SetFile(job[p].cand, job[p].new, v)
        PROVE  \/ files[c]["rolled_back"] # None
               \/ job[p] # None /\ job[p].cand = c /\ job[p].new = "rolled_back"
    BY <2>1, <2>3, SetFileReads
  <2> QED BY <1>2, <2>2, <2>3 DEF FillTarget
<1>3. CASE UnlinkOld(p) \/ Unlink(p)
  <2>1. job[p] # None /\ job[p].cand \in Cands /\ job[p].old \in Status
    BY <1>3, JobFields DEF UnlinkOld, Unlink, Running
  <2>2. CASE files' = files
    BY <2>2
  <2>3. CASE SetFile(job[p].cand, job[p].old, None)
    BY <2>1, <2>3, SetFileReads
  <2> QED BY <1>3, <2>2, <2>3 DEF UnlinkOld, Unlink
<1>4. CASE UNCHANGED files
  BY <1>4
<1> QED BY <1>1, <1>2, <1>3, <1>4
        DEF CommandStep, DecideWhatToWrite, Evaluate, Reload, Decide, Edit, MoveToRolledBack,
            LoadFails, DeleteStep, CheckDeletable, PromoteStep, PromoteLoad, Validate, Record,
            AuditPromotion, FailCandidate, WriteStep, WriteFails, AppendAudit, KillCommand

\* RolledBackWasUndone of one candidate.
WasUndone(c) == \E r \in records : r.cand = c /\ r.id \in undone

\* p writes, or may come to write, into rolled-back/.
RollsBack(p) == job[p] # None /\ (job[p].cmd = "rollback" \/ job[p].new = "rolled_back")

\* What makes RolledBackWasUndone inductive.
UndoneInv ==
    /\ RolledBackWasUndone
    /\ \A p \in Procs : RollsBack(p) => WasUndone(job[p].cand)
    /\ \A p \in Procs : stage[p] = "lookup" => draft[p].id \in undone

\* Records and rollbacks done are never withdrawn, and only the rewriting of a
\* destination brings a process to the lookup.
UndoneGrows ==
    /\ records \subseteq records' /\ undone \subseteq undone'
    /\ \A p \in Procs :
         stage'[p] = "lookup" => \/ stage[p] = "lookup" /\ draft'[p] = draft[p]
                                 \/ draft'[p].id \in undone'

LEMMA CommandKeepsUndone ==
    ASSUME UndoneInv, UndoneGrows, QueueTypeOK, NEW p \in Procs, CommandStep(p)
    PROVE  UndoneInv'
<1>1. \A c \in Cands : WasUndone(c) => WasUndone(c)'
  BY DEF UndoneGrows, WasUndone
<1>2. GoesOn(p) /\ \A q \in Procs \ {p} : job'[q] = job[q]
  BY CommandGoesOn
<1>3. ASSUME NEW q \in Procs, RollsBack(q)' PROVE WasUndone(job[q].cand)'
  <2>1. RollsBack(q) /\ job'[q].cand = job[q].cand
    BY <1>2, <1>3 DEF RollsBack, GoesOn
  <2>2. job[q].cand \in Cands
    BY <2>1, JobFields DEF RollsBack
  <2>3. WasUndone(job[q].cand)
    BY <2>1 DEF UndoneInv
  <2> QED BY <2>1, <2>2, <2>3 DEF WasUndone, UndoneGrows
<1>4. ASSUME NEW c \in Cands, files'[c]["rolled_back"] # None PROVE WasUndone(c)'
  <2>1. WasUndone(c)
    BY <1>4, CommandWrites DEF UndoneInv, RolledBackWasUndone, RollsBack, WasUndone
  <2> QED BY <1>1, <2>1
<1>5. \A q \in Procs : stage'[q] = "lookup" => draft'[q].id \in undone'
  BY DEF UndoneInv, UndoneGrows
<1>6. RolledBackWasUndone'
  BY <1>4 DEF RolledBackWasUndone, WasUndone
<1> QED BY <1>3, <1>5, <1>6 DEF UndoneInv

LEMMA QuietKeepsUndone ==
    ASSUME UndoneInv, UndoneGrows, UNCHANGED <<files, job>>
    PROVE  UndoneInv'
  BY DEF UndoneInv, UndoneGrows, RolledBackWasUndone, RollsBack, WasUndone

\* A command starts on a file that is there.
LEMMA StartKeepsUndone ==
    ASSUME UndoneInv, UndoneGrows, QueueTypeOK, NEW p \in Procs, NEW c \in Cands, NEW s \in Status,
           NEW cmd, Start(p, cmd, c, s), cmd = "rollback" => WasUndone(c)
    PROVE  UndoneInv'
<1> DEFINE j == [cmd |-> cmd, at |-> "load", cand |-> c, old |-> s, new |-> s, text |-> None]
<1>1. job' = [job EXCEPT ![p] = j] /\ files' = files /\ files[c][s] # None
  BY DEF Start
<1>2. j.cmd = cmd /\ j.new = s /\ j.cand = c
  OBVIOUS
<1> HIDE DEF j
<1>3. \A q \in Procs : job'[q] = IF q = p THEN j ELSE job[q]
  BY <1>1 DEF QueueTypeOK
<1>4. ASSUME NEW q \in Procs, RollsBack(q)' PROVE WasUndone(job[q].cand)'
  <2>1. CASE q = p
    <3>1. job'[q] = j
      BY <1>3, <2>1
    <3>2. cmd = "rollback" \/ s = "rolled_back"
      BY <1>2, <1>4, <3>1 DEF RollsBack
    <3>3. WasUndone(c)
      BY <1>1, <3>2 DEF UndoneInv, RolledBackWasUndone, WasUndone
    <3> QED BY <1>2, <3>1, <3>3 DEF UndoneGrows, WasUndone
  <2>2. CASE q # p
    <3>1. RollsBack(q) /\ job'[q] = job[q]
      BY <1>3, <1>4, <2>2 DEF RollsBack
    <3> QED BY <3>1 DEF UndoneInv, UndoneGrows, WasUndone
  <2> QED BY <2>1, <2>2
<1>5. RolledBackWasUndone'
  BY <1>1 DEF UndoneInv, UndoneGrows, RolledBackWasUndone
<1> QED BY <1>4, <1>5 DEF UndoneInv, UndoneGrows

LEMMA CreateKeepsUndone ==
    ASSUME UndoneInv, UndoneGrows, QueueTypeOK, NEW p \in Procs, NEW c \in Cands, NEW t \in Texts,
           CreateCandidate(p, c, t)
    PROVE  UndoneInv'
<1>1. /\ \A q \in Procs \ {p} : job'[q] = job[q]
      /\ job'[p].cmd = "create" /\ job'[p].new = "candidate"
  BY DEF CreateCandidate, QueueTypeOK
<1>2. \A d \in Cands : files'[d]["rolled_back"] = files[d]["rolled_back"]
  BY SetFileReads DEF CreateCandidate, Status
<1>3. ASSUME NEW q \in Procs, RollsBack(q)' PROVE WasUndone(job[q].cand)'
  BY <1>1, <1>3 DEF RollsBack, UndoneInv, UndoneGrows, WasUndone
<1>4. RolledBackWasUndone'
  BY <1>2 DEF UndoneInv, UndoneGrows, RolledBackWasUndone
<1> QED BY <1>3, <1>4 DEF UndoneInv, UndoneGrows

LEMMA UndoneInvStep ==
    ASSUME UndoneInv, SnapshotInv, QueueTypeOK, [EngineNext]_allVars
    PROVE  UndoneInv'
<1> USE DEF EnterStage, Drop, Staged
<1>0. stage \in [Procs -> Stages] /\ DOMAIN draft = Procs
  BY DEF SnapshotInv, EngineTypeOK
<1>1. ASSUME NEW p \in Procs,
             \/ BeginPromotion(p) \/ LockRaises(p) \/ FailPromotion(p) \/ ValidatePhase(p)
             \/ RecordPromotion(p) \/ QueueWork(p) \/ CrashPromoter(p)
      PROVE  UndoneInv'
  <2>1. CommandStep(p)
    BY <1>1 DEF BeginPromotion, LockRaises, FailPromotion, ValidatePhase, RecordPromotion,
                QueueWork, CrashPromoter, CommandStep, PromoteStep
  <2>2. /\ records \subseteq records' /\ undone' = undone
        /\ \E to \in Stages \ {"lookup"} : stage' = [stage EXCEPT ![p] = to]
    <3>1. CASE QueueWork(p)
      <4>1. UNCHANGED <<records, undone>> /\ stage[p] \in {"idle", "move"}
        BY <3>1 DEF QueueWork
      <4>2. \E to \in {"idle", "move", "release"} : stage' = [stage EXCEPT ![p] = to]
        BY <3>1, <4>1 DEF QueueWork
      <4> QED BY <4>1, <4>2 DEF Stages
    <3>2. CASE ~QueueWork(p)
      BY <1>1, <3>2 DEF BeginPromotion, LockRaises, FailPromotion, ValidatePhase, RecordPromotion,
                        CrashPromoter, Stages
    <3> QED BY <3>1, <3>2
  <2>3. \A q \in Procs \ {p} : draft'[q] = draft[q]
    <3>1. CASE QueueWork(p)
      BY <1>0, <3>1 DEF QueueWork
    <3>2. CASE ~QueueWork(p)
      BY <1>0, <1>1, <3>2 DEF BeginPromotion, LockRaises, FailPromotion, ValidatePhase,
                              RecordPromotion, CrashPromoter
    <3> QED BY <3>1, <3>2
  <2>4. UndoneGrows
    BY <1>0, <2>2, <2>3 DEF UndoneGrows
  <2> QED BY <2>1, <2>4, CommandKeepsUndone
<1>2. ASSUME NEW p \in Procs,
             \/ ReadDestination(p) \/ TakeSnapshot(p) \/ ReplaceDestination(p)
             \/ FinishPromotion(p) \/ (\E r \in records : BeginRollback(p, r))
             \/ RemoveFails(p) \/ RollbackLosesCandidate(p)
      PROVE  UndoneInv'
  <2>1. UNCHANGED <<files, job, records, undone>>
    BY <1>2 DEF ReadDestination, TakeSnapshot, ReplaceDestination, FinishPromotion, BeginRollback,
                RemoveFails, RollbackLosesCandidate, queueVars
  <2>2. \E to \in Stages \ {"lookup"} : stage' = [stage EXCEPT ![p] = to]
    BY <1>2 DEF ReadDestination, TakeSnapshot, ReplaceDestination, FinishPromotion, BeginRollback,
                RemoveFails, RollbackLosesCandidate, Stages
  <2>3. \A q \in Procs \ {p} : draft'[q] = draft[q]
    BY <1>0, <1>2 DEF ReadDestination, TakeSnapshot, ReplaceDestination, FinishPromotion,
                      BeginRollback, RemoveFails, RollbackLosesCandidate
  <2> QED BY <1>0, <2>1, <2>2, <2>3, QuietKeepsUndone DEF UndoneGrows
<1>3. ASSUME NEW p \in Procs, RemoveFromDestination(p) PROVE UndoneInv'
  <2>1. /\ undone' = undone \cup {draft[p].id} /\ stage' = [stage EXCEPT ![p] = "lookup"]
        /\ UNCHANGED <<files, job, records, draft>>
    BY <1>3 DEF RemoveFromDestination, queueVars
  <2> QED BY <1>0, <2>1, QuietKeepsUndone DEF UndoneGrows
<1>4. ASSUME NEW p \in Procs, FindRolledBack(p) PROVE UndoneInv'
  <2>1. /\ stage[p] = "lookup" /\ stage' = [stage EXCEPT ![p] = "idle"]
        /\ draft' = [draft EXCEPT ![p] = None] /\ UNCHANGED <<records, undone>>
    BY <1>4 DEF FindRolledBack
  <2>2. PICK s \in Status : StartRollback(p, draft[p].cand, s)
    BY <1>4 DEF FindRolledBack
  <2>3. draft[p] \in records /\ draft[p].id \in undone
    BY <2>1 DEF SnapshotInv, KeptOK, UndoneInv
  <2>4. WasUndone(draft[p].cand)
    BY <2>3 DEF WasUndone
  <2>5. draft[p].cand \in Cands
    BY <2>3, RecordFields DEF SnapshotInv, EngineTypeOK
  <2>6. Start(p, "rollback", draft[p].cand, s)
    BY <2>2 DEF StartRollback
  <2>7. UndoneGrows
    BY <1>0, <2>1 DEF UndoneGrows
  <2> QED BY <2>4, <2>5, <2>6, <2>7, StartKeepsUndone
<1>5. ASSUME NEW p \in Procs, StartOther(p) PROVE UndoneInv'
  <2>1. UndoneGrows
    BY <1>5 DEF StartOther, engineVars, UndoneGrows
  <2>2. ASSUME NEW c \in Cands, NEW s \in Status, NEW cmd, cmd # "rollback", Start(p, cmd, c, s)
        PROVE  UndoneInv'
    BY <2>1, <2>2, StartKeepsUndone
  <2>3. ASSUME NEW c \in Cands, NEW t \in Texts, CreateCandidate(p, c, t) PROVE UndoneInv'
    BY <2>1, <2>3, CreateKeepsUndone
  <2> QED BY <1>5, <2>2, <2>3 DEF StartOther, StartReview, StartById, StartPromote, Decisions
<1>6. ASSUME NEW p \in Procs, LockWork(p) PROVE UndoneInv'
  BY <1>6, QuietKeepsUndone DEF LockWork, engineVars, queueVars, UndoneGrows
<1>7. CASE \E d \in Dests : EditByHand(d)
  BY <1>7, QuietKeepsUndone DEF EditByHand, queueVars, UndoneGrows
<1>8. CASE ClockTick \/ (\E q \in Procs : EndCommand(q)) \/ UNCHANGED allVars
  BY <1>8, QuietKeepsUndone DEF ClockTick, EndCommand, allVars, engineVars, queueVars, UndoneGrows
<1> QED BY <1>1, <1>2, <1>3, <1>4, <1>5, <1>6, <1>7, <1>8
        DEF EngineNext, PromotionStep, RollbackStep

\* A candidate ends in rolled-back/ only after a rollback has rewritten the
\* destination of one of its recorded promotions (rollback_promotion writes the
\* text before it calls move_candidate_to_rolled_back), whatever else runs.
THEOREM RolledBackWasUndoneHolds == EngineSpec => []RolledBackWasUndone
<1>1. EngineInit => UndoneInv
  <2> SUFFICES ASSUME EngineInit PROVE UndoneInv
    OBVIOUS
  <2>1. \A c \in Cands : files[c]["rolled_back"] = None
    BY DEF EngineInit, QueueInit, Status
  <2>2. \A p \in Procs : job[p] = None /\ stage[p] = "idle"
    BY DEF EngineInit, QueueInit
  <2> QED BY <2>1, <2>2 DEF UndoneInv, RolledBackWasUndone, RollsBack
<1>2. UndoneInv /\ SnapshotInv /\ QueueTypeOK /\ [EngineNext]_allVars => UndoneInv'
  BY UndoneInvStep
<1>3. EngineSpec => []QueueTypeOK
  BY EngineImplementsQueue, QueueTypeCorrect, PTL
<1>4. UndoneInv => RolledBackWasUndone
  BY DEF UndoneInv
<1> QED BY <1>1, <1>2, <1>3, <1>4, SnapshotInvariant, PTL DEF EngineSpec

-----------------------------------------------------------------------------
(* One command at a time *)

Busy(p) == stage[p] # "idle" \/ job[p] # None

\* What the only process at work knows of the destinations is still so.
UpToDate(p) ==
    /\ stage[p] \in {"lock", "read", "snapshot", "replace", "record"} => draft[p].id \notin undone
    /\ stage[p] \in {"lock", "read", "snapshot"} => \A s \in snapshots : s.id # draft[p].id
    /\ stage[p] \in {"snapshot", "replace"} =>
         draft[p].after = Append(dest[draft[p].dest], draft[p].id)
    /\ stage[p] = "record" => HasBlock(dest[draft[p].dest], draft[p].id)
    /\ stage[p] = "undo" => dest[draft[p].dest] = draft[p].after

\* Ids are drawn once: the snapshots with one id are of one destination.
IdsDrawn ==
    /\ \A s, t \in snapshots : s.id = t.id => s.dest = t.dest
    /\ \A s \in snapshots : s.id < nextId
    /\ \A n \in undone : n < nextId

\* What makes RecordedBlockStays and RolledBackStaysOut inductive.
SerialInv ==
    /\ \A p, q \in Procs : Busy(p) /\ Busy(q) => p = q
    /\ \A p \in Procs : UpToDate(p)
    /\ IdsDrawn
    /\ RecordedBlockStays
    /\ RolledBackStaysOut

\* q works, or starts while nobody does.
Alone(q) == \A p \in Procs \ {q} : ~Busy(p)

LEMMA WorksAlone ==
    ASSUME SerialInv, NEW q \in Procs, Busy(q) \/ Quiet
    PROVE  Alone(q)
  BY DEF SerialInv, Alone, Quiet, Busy

\* A step of the process that works alone.
LEMMA AloneStep ==
    ASSUME NEW q \in Procs, Alone(q),
           \A p \in Procs \ {q} : stage'[p] = stage[p] /\ job'[p] = job[p],
           UpToDate(q)', IdsDrawn', RecordedBlockStays', RolledBackStaysOut'
    PROVE  SerialInv'
<1>1. ASSUME NEW p \in Procs \ {q} PROVE ~Busy(p)' /\ stage'[p] = "idle"
  BY DEF Alone, Busy
<1>2. ASSUME NEW p \in Procs PROVE UpToDate(p)'
  BY <1>1 DEF UpToDate
<1> QED BY <1>1, <1>2 DEF SerialInv

\* ... that leaves destinations, snapshots and records alone.
LEMMA AloneQuietStep ==
    ASSUME SerialInv, SnapshotInv, NEW q \in Procs, Alone(q),
           UNCHANGED <<dest, snapshots, records, undone>>, nextId' \in Nat, nextId <= nextId',
           \A p \in Procs \ {q} : stage'[p] = stage[p] /\ job'[p] = job[p],
           UpToDate(q)'
    PROVE  SerialInv'
<1>1. \A s \in snapshots : s.id \in Nat
  BY RecordFields DEF SnapshotInv, EngineTypeOK
<1>2. \A n \in undone : n \in Nat
  BY DEF SnapshotInv, EngineTypeOK, Promotions
<1>3. nextId \in Nat
  BY DEF SnapshotInv, EngineTypeOK
<1>4. IdsDrawn'
  BY <1>1, <1>2, <1>3 DEF SerialInv, IdsDrawn
<1>5. RecordedBlockStays' /\ RolledBackStaysOut'
  BY DEF SerialInv, RecordedBlockStays, RolledBackStaysOut
<1> QED BY <1>4, <1>5, AloneStep

\* The commands of the queue that p runs or starts change p's job alone.
LEMMA StartChangesJob ==
    ASSUME QueueTypeOK, NEW p \in Procs,
           \/ \E c \in Cands, t \in Texts : CreateCandidate(p, c, t)
           \/ \E c, s, cmd : Start(p, cmd, c, s)
    PROVE  \A q \in Procs \ {p} : job'[q] = job[q]
  BY DEF CreateCandidate, Start, QueueTypeOK

\* In every step of the engine with one command at a time, whoever steps is alone.
LEMMA EngineStepAlone ==
    ASSUME Serial, SerialInv, QueueTypeOK, NEW q \in Procs,
           StartOther(q) \/ PromotionStep(q) \/ QueueWork(q) \/ RollbackStep(q)
    PROVE  \/ LockWork(q)
           \/ Alone(q) /\ \A p \in Procs \ {q} : job'[p] = job[p]
<1>1. CASE StartOther(q)
  <2>1. Quiet
    BY <1>1 DEF StartOther
  <2>2. \A p \in Procs \ {q} : job'[p] = job[p]
    BY <1>1, StartChangesJob DEF StartOther, StartReview, StartById, StartPromote
  <2> QED BY <2>1, <2>2, WorksAlone
<1>2. CASE QueueWork(q)
  <2>1. CommandStep(q)
    BY <1>2 DEF QueueWork, CommandStep, PromoteStep
  <2>2. job[q] # None
    BY <1>2 DEF QueueWork, AuditPromotion, WriteStep, OpenTarget, FillTarget, WriteFails, UnlinkOld,
                AppendAudit, DecideWhatToWrite, Evaluate, Reload, Decide, Edit, MoveToRolledBack,
                LoadFails, DeleteStep, CheckDeletable, Unlink, Load, Running
  <2> QED BY <2>1, <2>2, WorksAlone, CommandGoesOn DEF Busy
<1>3. CASE PromotionStep(q) /\ ~LockWork(q)
  <2>1. CASE BeginPromotion(q) \/ LockRaises(q) \/ FailPromotion(q) \/ ValidatePhase(q)
             \/ RecordPromotion(q)
    <3>1. CommandStep(q)
      BY <2>1 DEF BeginPromotion, LockRaises, FailPromotion, ValidatePhase, RecordPromotion,
                  CommandStep, PromoteStep
    <3>2. Busy(q)
      BY <2>1 DEF BeginPromotion, PromoteLoad, Load, Running, LockRaises, FailPromotion,
                  FailCandidate, ValidatePhase, RecordPromotion, Staged, Busy
    <3> QED BY <3>1, <3>2, WorksAlone, CommandGoesOn
  <2>2. CASE ReadDestination(q) \/ TakeSnapshot(q) \/ ReplaceDestination(q) \/ FinishPromotion(q)
    BY <2>2, WorksAlone DEF ReadDestination, TakeSnapshot, ReplaceDestination, FinishPromotion,
                            Staged, Busy, queueVars
  <2> QED BY <1>3, <2>1, <2>2 DEF PromotionStep
<1>4. CASE RollbackStep(q)
  <2>1. CASE \E r \in records : BeginRollback(q, r)
    BY <2>1, WorksAlone DEF BeginRollback, queueVars
  <2>2. CASE RemoveFromDestination(q) \/ RemoveFails(q) \/ RollbackLosesCandidate(q)
    BY <2>2, WorksAlone DEF RemoveFromDestination, RemoveFails, RollbackLosesCandidate, Staged,
                            Busy, queueVars
  <2>3. CASE FindRolledBack(q)
    BY <2>3, WorksAlone, StartChangesJob DEF FindRolledBack, StartRollback, Staged, Busy
  <2> QED BY <1>4, <2>1, <2>2, <2>3 DEF RollbackStep
<1> QED BY <1>1, <1>2, <1>3, <1>4

\* Steps that write no destination, snapshot or record.
LEMMA AloneElsewhere ==
    ASSUME SerialInv, SnapshotInv, QueueTypeOK, NEW q \in Procs, Alone(q),
           \A p \in Procs \ {q} : job'[p] = job[p],
           \/ StartOther(q) \/ QueueWork(q) \/ LockRaises(q) \/ FailPromotion(q)
           \/ FinishPromotion(q) \/ RemoveFails(q) \/ FindRolledBack(q)
           \/ RollbackLosesCandidate(q)
    PROVE  SerialInv'
<1>1. UNCHANGED <<dest, snapshots, records, nextId, undone>>
  BY DEF StartOther, QueueWork, LockRaises, FailPromotion, FinishPromotion, RemoveFails,
         FindRolledBack, RollbackLosesCandidate, engineVars
<1>2. nextId' \in Nat /\ nextId <= nextId'
  BY <1>1 DEF SnapshotInv, EngineTypeOK
<1>3. CASE StartOther(q)
  BY <1>1, <1>2, <1>3, AloneQuietStep DEF StartOther, engineVars, SerialInv, UpToDate
<1>4. CASE ~StartOther(q)
  <2>1. \E to \in {"idle", "move", "release"} : stage' = [stage EXCEPT ![q] = to]
    <3>1. CASE QueueWork(q)
      BY <3>1 DEF QueueWork, EnterStage
    <3>2. CASE ~QueueWork(q)
      BY <1>4, <3>2 DEF LockRaises, FailPromotion, FinishPromotion, RemoveFails, FindRolledBack,
                        RollbackLosesCandidate, EnterStage
    <3> QED BY <3>1, <3>2
  <2>2. UpToDate(q)' /\ \A p \in Procs \ {q} : stage'[p] = stage[p]
    BY <2>1 DEF UpToDate, SnapshotInv, EngineTypeOK
  <2> QED BY <1>1, <1>2, <2>2, AloneQuietStep
<1> QED BY <1>3, <1>4

LEMMA AloneBegins ==
    ASSUME SerialInv, SnapshotInv, QueueTypeOK, NEW q \in Procs, Alone(q), BeginPromotion(q),
           \A p \in Procs \ {q} : job'[p] = job[p]
    PROVE  SerialInv'
<1>1. /\ draft'[q].id = nextId /\ stage'[q] = "lock" /\ nextId' = nextId + 1
      /\ \A p \in Procs \ {q} : stage'[p] = stage[p]
      /\ UNCHANGED <<dest, snapshots, records, undone>>
  BY DEF BeginPromotion, EnterStage, SnapshotInv, EngineTypeOK
<1>2. nextId \in Nat /\ nextId' \in Nat /\ nextId <= nextId'
  BY <1>1 DEF SnapshotInv, EngineTypeOK
<1>3. nextId \notin undone /\ \A s \in snapshots : s.id # nextId
  BY <1>2 DEF SerialInv, IdsDrawn
<1>4. UpToDate(q)'
  BY <1>1, <1>3 DEF UpToDate
<1> QED BY <1>1, <1>2, <1>4, AloneQuietStep

\* The promotion reads what it is going to extend.
LEMMA AloneReads ==
    ASSUME SerialInv, SnapshotInv, NEW q \in Procs, Alone(q),
           ValidatePhase(q) \/ ReadDestination(q),
           \A p \in Procs \ {q} : job'[p] = job[p]
    PROVE  SerialInv'
<1> DEFINE r == [draft[q] EXCEPT !.before = dest[draft[q].dest],
                                 !.after = Append(dest[draft[q].dest], draft[q].id)]
<1>1. /\ stage[q] \in {"lock", "read"} /\ \A p \in Procs \ {q} : stage'[p] = stage[p]
      /\ UNCHANGED <<dest, snapshots, records, nextId, undone>>
  BY DEF ValidatePhase, ReadDestination, Staged, EnterStage, SnapshotInv, EngineTypeOK
<1>2. UpToDate(q) /\ draft[q] \in PromotionRecords
  BY <1>1, DraftFields DEF SerialInv, SnapshotInv, Reserves
<1>3. UpToDate(q)'
  <2>1. CASE ValidatePhase(q)
    BY <1>1, <1>2, <2>1 DEF ValidatePhase, EnterStage, UpToDate, SnapshotInv, EngineTypeOK
  <2>2. CASE ReadDestination(q)
    <3>1. draft'[q] = r /\ stage'[q] = "snapshot"
      BY <2>2 DEF ReadDestination, EnterStage, SnapshotInv, EngineTypeOK
    <3>2. /\ r.id = draft[q].id /\ r.dest = draft[q].dest
          /\ r.after = Append(dest[draft[q].dest], draft[q].id)
      BY <1>2 DEF PromotionRecords
    <3> QED BY <1>1, <1>2, <3>1, <3>2 DEF UpToDate
  <2> QED BY <2>1, <2>2
<1>4. nextId' \in Nat /\ nextId <= nextId'
  BY <1>1 DEF SnapshotInv, EngineTypeOK
<1> QED BY <1>1, <1>3, <1>4, AloneQuietStep

LEMMA AloneSnapshots ==
    ASSUME SerialInv, SnapshotInv, NEW q \in Procs, Alone(q), TakeSnapshot(q),
           \A p \in Procs \ {q} : job'[p] = job[p]
    PROVE  SerialInv'
<1>1. /\ stage[q] = "snapshot" /\ stage'[q] = "replace"
      /\ \A p \in Procs \ {q} : stage'[p] = stage[p]
      /\ snapshots' = snapshots \cup {draft[q]}
      /\ UNCHANGED <<dest, records, nextId, draft, undone>>
  BY DEF TakeSnapshot, Staged, EnterStage, SnapshotInv, EngineTypeOK
<1>2. /\ UpToDate(q) /\ CarriedOK(q) /\ Carries(q) /\ draft[q] \in PromotionRecords
      /\ draft[q].dest \in Dests
  BY <1>1, DraftFields DEF SerialInv, SnapshotInv, Carries
<1>3. draft[q].id < nextId
  <2> DEFINE text == dest[draft[q].dest]
  <2>1. text \in Contents /\ draft[q].after = Append(text, draft[q].id)
    BY <1>1, <1>2 DEF UpToDate, SnapshotInv, EngineTypeOK
  <2>2. Len(text) + 1 \in DOMAIN draft[q].after /\ draft[q].after[Len(text) + 1] = draft[q].id
    BY <2>1 DEF Contents
  <2> QED BY <1>2, <2>2 DEF CarriedOK, Below
<1>4. IdsDrawn'
  BY <1>1, <1>2, <1>3 DEF SerialInv, IdsDrawn, UpToDate
<1>5. UpToDate(q)'
  BY <1>1, <1>2 DEF UpToDate
<1>6. RecordedBlockStays' /\ RolledBackStaysOut'
  BY <1>1 DEF SerialInv, RecordedBlockStays, RolledBackStaysOut
<1> QED BY <1>1, <1>4, <1>5, <1>6, AloneStep

LEMMA AppendBlocks ==
    ASSUME NEW text \in Contents, NEW n \in Promotions
    PROVE  \A m : HasBlock(Append(text, n), m) <=> m = n \/ HasBlock(text, m)
<1> DEFINE new == Append(text, n)
<1>1. /\ DOMAIN text = 1..Len(text) /\ Len(text) \in Nat
      /\ DOMAIN new = 1..(Len(text) + 1)
      /\ new[Len(text) + 1] = n
      /\ \A i \in DOMAIN text : new[i] = text[i]
  BY DEF Contents
<1>2. \A i \in DOMAIN new : i \in DOMAIN text \/ i = Len(text) + 1
  BY <1>1
<1>3. Len(text) + 1 \in DOMAIN new /\ \A i \in DOMAIN text : i \in DOMAIN new
  BY <1>1
<1> HIDE DEF new
<1>4. \A m : HasBlock(new, m) <=> m = n \/ HasBlock(text, m)
  BY <1>1, <1>2, <1>3 DEF HasBlock
<1> QED BY <1>4 DEF new

LEMMA AloneReplaces ==
    ASSUME SerialInv, SnapshotInv, NEW q \in Procs, Alone(q), ReplaceDestination(q),
           \A p \in Procs \ {q} : job'[p] = job[p]
    PROVE  SerialInv'
<1> DEFINE e == draft[q].dest
           n == draft[q].id
<1>1. /\ stage[q] = "replace" /\ stage'[q] = "record"
      /\ \A p \in Procs \ {q} : stage'[p] = stage[p]
      /\ dest' = [dest EXCEPT ![e] = draft[q].after]
      /\ UNCHANGED <<snapshots, records, nextId, draft, undone>>
  BY DEF ReplaceDestination, Staged, EnterStage, SnapshotInv, EngineTypeOK
<1>2. UpToDate(q) /\ e \in Dests /\ n \in Promotions
  BY <1>1, DraftFields DEF SerialInv, SnapshotInv, Carries
<1>3. draft[q].after = Append(dest[e], n) /\ n \notin undone
  BY <1>1, <1>2 DEF UpToDate
<1>4. dest[e] \in Contents
  BY <1>2 DEF SnapshotInv, EngineTypeOK
<1>5. \A d \in Dests : dest'[d] = IF d = e THEN Append(dest[e], n) ELSE dest[d]
  BY <1>1, <1>3 DEF SnapshotInv, EngineTypeOK
<1>6. \A m : HasBlock(Append(dest[e], n), m) <=> m = n \/ HasBlock(dest[e], m)
  BY <1>2, <1>4, AppendBlocks
<1>7. \A r \in records : r.dest \in Dests
  BY RecordFields DEF SnapshotInv, EngineTypeOK
<1>8. RecordedBlockStays'
  BY <1>1, <1>5, <1>6, <1>7 DEF SerialInv, RecordedBlockStays
<1>9. RolledBackStaysOut'
  BY <1>1, <1>3, <1>5, <1>6 DEF SerialInv, RolledBackStaysOut
<1>10. UpToDate(q)'
  BY <1>1, <1>2, <1>3, <1>5, <1>6 DEF UpToDate
<1>11. IdsDrawn'
  BY <1>1 DEF SerialInv, IdsDrawn
<1> QED BY <1>1, <1>8, <1>9, <1>10, <1>11, AloneStep

LEMMA AloneRecords ==
    ASSUME SerialInv, SnapshotInv, NEW q \in Procs, Alone(q), RecordPromotion(q),
           \A p \in Procs \ {q} : job'[p] = job[p]
    PROVE  SerialInv'
<1>1. /\ stage[q] = "record" /\ stage'[q] = "move"
      /\ \A p \in Procs \ {q} : stage'[p] = stage[p]
      /\ records' = records \cup {draft[q]}
      /\ UNCHANGED <<dest, snapshots, nextId, draft, undone>>
  BY DEF RecordPromotion, Staged, EnterStage, SnapshotInv, EngineTypeOK
<1>2. HasBlock(dest[draft[q].dest], draft[q].id)
  BY <1>1 DEF SerialInv, UpToDate
<1>3. RecordedBlockStays'
  BY <1>1, <1>2 DEF SerialInv, RecordedBlockStays
<1>4. UpToDate(q)' /\ IdsDrawn' /\ RolledBackStaysOut'
  BY <1>1 DEF SerialInv, UpToDate, IdsDrawn, RolledBackStaysOut
<1> QED BY <1>1, <1>3, <1>4, AloneStep

LEMMA AloneBeginsRollback ==
    ASSUME SerialInv, SnapshotInv, NEW q \in Procs, Alone(q), NEW r \in records,
           BeginRollback(q, r), \A p \in Procs \ {q} : job'[p] = job[p]
    PROVE  SerialInv'
<1>1. /\ draft'[q] = r /\ stage'[q] = "undo" /\ dest[r.dest] = r.after
      /\ \A p \in Procs \ {q} : stage'[p] = stage[p]
      /\ UNCHANGED <<dest, snapshots, records, nextId, undone>>
  BY DEF BeginRollback, EnterStage, SnapshotInv, EngineTypeOK
<1>2. UpToDate(q)'
  BY <1>1 DEF UpToDate
<1>3. nextId' \in Nat /\ nextId <= nextId'
  BY <1>1 DEF SnapshotInv, EngineTypeOK
<1> QED BY <1>1, <1>2, <1>3, AloneQuietStep

\* The rollback takes out its own block, which stands nowhere else.
LEMMA AloneRemoves ==
    ASSUME SerialInv, SnapshotInv, NEW q \in Procs, Alone(q), RemoveFromDestination(q),
           \A p \in Procs \ {q} : job'[p] = job[p]
    PROVE  SerialInv'
<1> DEFINE r == draft[q]
           e == draft[q].dest
           n == draft[q].id
           text == RemoveBlock(r.after, n)
<1>1. /\ stage[q] = "undo" /\ stage'[q] = "lookup"
      /\ \A p \in Procs \ {q} : stage'[p] = stage[p]
      /\ dest' = [dest EXCEPT ![e] = text] /\ undone' = undone \cup {n}
      /\ UNCHANGED <<snapshots, records, nextId, draft>>
  BY DEF RemoveFromDestination, Staged, EnterStage, SnapshotInv, EngineTypeOK
<1>2. UpToDate(q) /\ KeptOK(q) /\ e \in Dests /\ n \in Promotions
  BY <1>1, DraftFields DEF SerialInv, SnapshotInv, Carries
<1>3. r.after = dest[e] /\ r \in records /\ r \in snapshots
  BY <1>1, <1>2 DEF UpToDate, KeptOK, SnapshotInv, EngineTypeOK
<1>4. n # Newline /\ \A m \in Promotions : m # Newline
  BY <1>2 DEF Promotions, Newline
<1>5. \A d \in Dests : dest'[d] = IF d = e THEN text ELSE dest[d]
  BY <1>1 DEF SnapshotInv, EngineTypeOK
<1>6. /\ DOMAIN text = DOMAIN dest[e]
      /\ \A i \in DOMAIN text : text[i] = IF dest[e][i] = n THEN Newline ELSE dest[e][i]
  BY <1>3 DEF RemoveBlock
<1> HIDE DEF text
<1>7. ~HasBlock(text, n)
  BY <1>4, <1>6 DEF HasBlock
<1>8. \A m \in Promotions \ {n} : HasBlock(text, m) <=> HasBlock(dest[e], m)
  BY <1>4, <1>6 DEF HasBlock
<1>9. \A s \in records : s \in snapshots /\ s.dest \in Dests /\ s.id \in Promotions
  BY RecordFields DEF SnapshotInv, EngineTypeOK
<1>10. RecordedBlockStays'
  BY <1>1, <1>5, <1>8, <1>9 DEF SerialInv, RecordedBlockStays
<1>11. ASSUME NEW d \in Dests, d # e PROVE ~HasBlock(dest[d], n)
  <2>1. Sound(d, dest[d], snapshots)
    BY DEF SnapshotInv
  <2>2. \A s \in snapshots : s.id = n => s.dest = e
    BY <1>3 DEF SerialInv, IdsDrawn
  <2> QED BY <1>2, <1>11, <2>1, <2>2 DEF HasBlock, Sound
<1>12. RolledBackStaysOut'
  <2>1. \A m \in undone : m \in Promotions
    BY DEF SnapshotInv, EngineTypeOK
  <2> QED BY <1>1, <1>5, <1>7, <1>8, <1>11, <2>1 DEF SerialInv, RolledBackStaysOut
<1>13. IdsDrawn'
  BY <1>1, <1>3 DEF SerialInv, IdsDrawn
<1>14. UpToDate(q)'
  BY <1>1 DEF UpToDate
<1> QED BY <1>1, <1>10, <1>12, <1>13, <1>14, AloneStep

LEMMA QuietEdit ==
    ASSUME Serial, SerialInv, SnapshotInv, NEW d \in Dests, EditByHand(d)
    PROVE  SerialInv'
<1> DEFINE text == Append(dest[d], ByHand)
<1>1. /\ \A p \in Procs : stage[p] = "idle"
      /\ dest' = [dest EXCEPT ![d] = text]
      /\ UNCHANGED <<job, snapshots, records, nextId, stage, draft, undone>>
  BY DEF EditByHand, Quiet, queueVars
<1>2. dest[d] \in Contents /\ ByHand \notin Promotions
  BY DEF SnapshotInv, EngineTypeOK, ByHand, Promotions
<1>3. /\ DOMAIN dest[d] = 1..Len(dest[d]) /\ Len(dest[d]) \in Nat
      /\ DOMAIN text = 1..(Len(dest[d]) + 1)
      /\ text[Len(dest[d]) + 1] = ByHand
      /\ \A i \in DOMAIN dest[d] : text[i] = dest[d][i]
  BY <1>2 DEF Contents
<1>4. \A i \in DOMAIN text : i \in DOMAIN dest[d] \/ i = Len(dest[d]) + 1
  BY <1>3
<1>5. \A i \in DOMAIN dest[d] : i \in DOMAIN text
  BY <1>3
<1> HIDE DEF text
<1>6. \A m \in Promotions : HasBlock(text, m) <=> HasBlock(dest[d], m)
  BY <1>2, <1>3, <1>4, <1>5 DEF HasBlock
<1>7. \A e \in Dests : dest'[e] = IF e = d THEN text ELSE dest[e]
  BY <1>1 DEF SnapshotInv, EngineTypeOK
<1>8. \A s \in records : s.dest \in Dests /\ s.id \in Promotions
  BY RecordFields DEF SnapshotInv, EngineTypeOK
<1>9. RecordedBlockStays'
  BY <1>1, <1>6, <1>7, <1>8 DEF SerialInv, RecordedBlockStays
<1>10. \A n \in undone : n \in Promotions
  BY DEF SnapshotInv, EngineTypeOK
<1>11. RolledBackStaysOut'
  BY <1>1, <1>6, <1>7, <1>10 DEF SerialInv, RolledBackStaysOut
<1>12. \A p, q \in Procs : Busy(p)' /\ Busy(q)' => p = q
  BY <1>1 DEF SerialInv, Busy
<1>13. \A p \in Procs : UpToDate(p)'
  BY <1>1 DEF UpToDate
<1>14. IdsDrawn'
  BY <1>1 DEF SerialInv, IdsDrawn
<1> QED BY <1>9, <1>11, <1>12, <1>13, <1>14 DEF SerialInv

\* A killed process is not at work any more.
LEMMA KillIsQuiet ==
    ASSUME SerialInv, SnapshotInv, QueueTypeOK, NEW q \in Procs, CrashPromoter(q)
    PROVE  SerialInv'
<1>1. /\ stage' = [stage EXCEPT ![q] = "idle"] /\ draft' = [draft EXCEPT ![q] = None]
      /\ job' = [job EXCEPT ![q] = None]
      /\ UNCHANGED <<dest, snapshots, records, nextId, undone>>
  BY DEF CrashPromoter, EnterStage, Drop, KillCommand, Finish
<1>2. /\ stage'[q] = "idle" /\ job'[q] = None
      /\ \A p \in Procs \ {q} : /\ stage'[p] = stage[p] /\ draft'[p] = draft[p]
                                /\ job'[p] = job[p]
  BY <1>1 DEF SnapshotInv, EngineTypeOK, QueueTypeOK
<1>3. ASSUME NEW p \in Procs PROVE UpToDate(p)'
  <2>1. CASE p = q
    BY <1>2, <2>1 DEF UpToDate
  <2>2. CASE p # q
    BY <1>1, <1>2, <2>2 DEF SerialInv, UpToDate
  <2> QED BY <2>1, <2>2
<1>4. \A p, o \in Procs : Busy(p)' /\ Busy(o)' => p = o
  BY <1>2 DEF SerialInv, Busy
<1>5. IdsDrawn' /\ RecordedBlockStays' /\ RolledBackStaysOut'
  BY <1>1 DEF SerialInv, IdsDrawn, RecordedBlockStays, RolledBackStaysOut
<1> QED BY <1>3, <1>4, <1>5 DEF SerialInv

LEMMA NobodySteps ==
    ASSUME SerialInv, UNCHANGED <<queueVars, engineVars>>
    PROVE  SerialInv'
<1>1. /\ \A p, q \in Procs : Busy(p)' /\ Busy(q)' => p = q
      /\ \A p \in Procs : UpToDate(p)'
  BY DEF SerialInv, Busy, UpToDate, queueVars, engineVars
<1>2. IdsDrawn' /\ RecordedBlockStays' /\ RolledBackStaysOut'
  BY DEF SerialInv, IdsDrawn, RecordedBlockStays, RolledBackStaysOut, queueVars, engineVars
<1> QED BY <1>1, <1>2 DEF SerialInv

LEMMA SerialInvStep ==
    ASSUME Serial, SerialInv, SnapshotInv, QueueTypeOK, [EngineNext]_allVars
    PROVE  SerialInv'
<1>1. ASSUME NEW q \in Procs,
             StartOther(q) \/ PromotionStep(q) \/ QueueWork(q) \/ RollbackStep(q)
      PROVE  SerialInv'
  <2>1. CASE LockWork(q)
    BY <2>1, NobodySteps DEF LockWork
  <2>2. CASE Alone(q) /\ \A p \in Procs \ {q} : job'[p] = job[p]
    <3>1. CASE PromotionStep(q)
      BY <2>1, <2>2, <3>1, AloneElsewhere, AloneBegins, AloneReads, AloneSnapshots, AloneReplaces,
         AloneRecords DEF PromotionStep
    <3>2. CASE RollbackStep(q)
      BY <2>2, <3>2, AloneElsewhere, AloneBeginsRollback, AloneRemoves DEF RollbackStep
    <3> QED BY <1>1, <2>2, <3>1, <3>2, AloneElsewhere
  <2> QED BY <1>1, <2>1, <2>2, EngineStepAlone
<1>2. CASE \E q \in Procs : CrashPromoter(q)
  BY <1>2, KillIsQuiet
<1>3. CASE \E d \in Dests : EditByHand(d)
  BY <1>3, QuietEdit
<1>4. CASE ClockTick \/ (\E q \in Procs : EndCommand(q)) \/ UNCHANGED allVars
  BY <1>4, NobodySteps DEF ClockTick, EndCommand, allVars
<1> QED BY <1>1, <1>2, <1>3, <1>4 DEF EngineNext

LEMMA SerialInvariant ==
    ASSUME Serial PROVE EngineSpec => []SerialInv
<1>1. EngineInit => SerialInv
  <2> SUFFICES ASSUME EngineInit PROVE SerialInv
    OBVIOUS
  <2>1. \A p \in Procs : job[p] = None /\ stage[p] = "idle"
    BY DEF EngineInit, QueueInit
  <2>2. snapshots = {} /\ records = {} /\ undone = {}
    BY DEF EngineInit
  <2> QED BY <2>1, <2>2 DEF SerialInv, Busy, UpToDate, IdsDrawn, RecordedBlockStays,
                            RolledBackStaysOut
<1>2. SerialInv /\ SnapshotInv /\ QueueTypeOK /\ [EngineNext]_allVars => SerialInv'
  BY SerialInvStep
<1>3. EngineSpec => []QueueTypeOK
  BY EngineImplementsQueue, QueueTypeCorrect, PTL
<1> QED BY <1>1, <1>2, <1>3, SnapshotInvariant, PTL DEF EngineSpec

\* With one command at a time, killed or failing wherever it may: what the
\* promotion ledger records stands in its destination until that promotion is
\* rolled back (promote_one, rollback_promotion).
THEOREM RecordedBlockStaysHolds ==
    ASSUME Serial PROVE EngineSpec => []RecordedBlockStays
<1>1. SerialInv => RecordedBlockStays
  BY DEF SerialInv
<1> QED BY <1>1, SerialInvariant, PTL

\* ... and no promotion, retry or later rollback brings a removed block back.
THEOREM RolledBackStaysOutHolds ==
    ASSUME Serial PROVE EngineSpec => []RolledBackStaysOut
<1>1. SerialInv => RolledBackStaysOut
  BY DEF SerialInv
<1> QED BY <1>1, SerialInvariant, PTL

-----------------------------------------------------------------------------
(* Lines written by hand *)

\* Where the lines written by hand stand.
HandLines == {at \in Dests \X (1..(MaxProms + MaxEdits)) :
                /\ at[2] \in DOMAIN dest[at[1]]
                /\ dest[at[1]][at[2]] = ByHand}

\* p has drawn an id whose block is not in its destination yet.
Owes(p) == stage[p] \in {"lock", "read", "snapshot", "replace"}

\* What makes HandLinesKept inductive: an entry of a destination takes up an id
\* drawn or a line written, so that the positions counted are all there are.
HandInv ==
    /\ IsFiniteSet(HandLines) /\ Cardinality(HandLines) = edits
    /\ \A d \in Dests : Len(dest[d]) < nextId + edits
    /\ \A p \in Procs : Owes(p) => \A d \in Dests : Len(dest[d]) + 1 < nextId + edits

LEMMA LengthIsNat ==
    ASSUME EngineTypeOK, NEW d \in Dests
    PROVE  dest[d] \in Contents /\ Len(dest[d]) \in Nat /\ DOMAIN dest[d] = 1..Len(dest[d])
  BY Lines0 DEF EngineTypeOK

LEMMA SameInterval ==
    ASSUME NEW m \in Nat, NEW n \in Nat, 1..m = 1..n PROVE m = n
<1>1. \A i \in Nat : 1 <= i /\ i <= m <=> 1 <= i /\ i <= n
  OBVIOUS
<1> QED BY <1>1

\* A step of q that writes no destination, after which q owes no block that it
\* did not owe before.
LEMMA HandsOff ==
    ASSUME HandInv, EngineTypeOK, EngineTypeOK', UNCHANGED <<dest, edits>>, nextId <= nextId',
           \A p \in Procs : Owes(p)' => Owes(p)
    PROVE  HandInv'
<1>1. HandLines' = HandLines
  BY DEF HandLines
<1>2. nextId \in Int /\ nextId' \in Int /\ edits \in Int
  BY ConstantFacts DEF EngineTypeOK
<1>3. \A d \in Dests : Len(dest'[d]) < nextId' + edits'
  BY <1>2, LengthIsNat DEF HandInv
<1>4. \A p \in Procs : Owes(p)' => \A d \in Dests : Len(dest'[d]) + 1 < nextId' + edits'
  BY <1>2, LengthIsNat DEF HandInv
<1> QED BY <1>1, <1>3, <1>4 DEF HandInv

LEMMA HandsOffBegin ==
    ASSUME HandInv, EngineTypeOK, EngineTypeOK', NEW q \in Procs, BeginPromotion(q)
    PROVE  HandInv'
<1>1. /\ UNCHANGED <<dest, edits>> /\ nextId' = nextId + 1
      /\ \A p \in Procs \ {q} : stage'[p] = stage[p]
  BY DEF BeginPromotion, EnterStage, EngineTypeOK
<1>2. nextId \in Int /\ edits \in Int
  BY ConstantFacts DEF EngineTypeOK
<1>3. HandLines' = HandLines
  BY <1>1 DEF HandLines
<1>4. \A d \in Dests : Len(dest'[d]) + 1 < nextId' + edits'
  BY <1>1, <1>2, LengthIsNat DEF HandInv
<1>5. \A d \in Dests : Len(dest'[d]) < nextId' + edits'
  BY <1>1, <1>2, <1>4, LengthIsNat
<1> QED BY <1>1, <1>3, <1>4, <1>5 DEF HandInv

\* A text put in place of dest[e] with the same lines by hand.
LEMMA SameHands ==
    ASSUME EngineTypeOK, NEW e \in Dests, NEW text, dest' = [dest EXCEPT ![e] = text],
           \A i : (i \in DOMAIN text /\ text[i] = ByHand)
                  <=> (i \in DOMAIN dest[e] /\ dest[e][i] = ByHand)
    PROVE  HandLines' = HandLines
<1>1. \A d \in Dests : dest'[d] = IF d = e THEN text ELSE dest[d]
  BY DEF EngineTypeOK
<1>2. ASSUME NEW d \in Dests, NEW i
      PROVE  (i \in DOMAIN dest'[d] /\ dest'[d][i] = ByHand)
             <=> (i \in DOMAIN dest[d] /\ dest[d][i] = ByHand)
  BY <1>1
<1> QED BY <1>2 DEF HandLines

\* The block goes to the end of the text as it is.
LEMMA ReplaceKeepsHands ==
    ASSUME HandInv, SerialInv, SnapshotInv, EngineTypeOK', NEW q \in Procs, Alone(q),
           ReplaceDestination(q)
    PROVE  HandInv'
<1> DEFINE e == draft[q].dest
           text == Append(dest[e], draft[q].id)
<1>1. /\ stage[q] = "replace" /\ stage'[q] = "record"
      /\ \A p \in Procs \ {q} : stage'[p] = stage[p]
      /\ dest' = [dest EXCEPT ![e] = draft[q].after]
      /\ UNCHANGED <<nextId, edits>>
  BY DEF ReplaceDestination, Staged, EnterStage, SnapshotInv, EngineTypeOK
<1>2. e \in Dests /\ draft[q].id \in Promotions /\ EngineTypeOK
  BY <1>1, DraftFields DEF SnapshotInv, Carries
<1>3. draft[q].after = text
  BY <1>1 DEF SerialInv, UpToDate
<1>4. dest[e] \in Contents /\ Len(dest[e]) \in Nat /\ DOMAIN dest[e] = 1..Len(dest[e])
  BY <1>2, LengthIsNat
<1>5. /\ DOMAIN text = 1..(Len(dest[e]) + 1) /\ Len(text) = Len(dest[e]) + 1
      /\ text[Len(dest[e]) + 1] = draft[q].id
      /\ \A i \in DOMAIN dest[e] : text[i] = dest[e][i]
  BY <1>2, <1>4 DEF Contents
<1>6. draft[q].id # ByHand
  BY <1>2 DEF ByHand, Promotions
<1>7. \A i : i \in DOMAIN text <=> i \in DOMAIN dest[e] \/ i = Len(dest[e]) + 1
  BY <1>4, <1>5
<1>8. Owes(q)
  BY <1>1 DEF Owes
<1>9. nextId \in Int /\ edits \in Int
  BY <1>2, ConstantFacts DEF EngineTypeOK
<1> HIDE DEF text, e
<1>10. HandLines' = HandLines
  BY <1>1, <1>2, <1>3, <1>4, <1>5, <1>6, <1>7, SameHands
<1>11. \A d \in Dests : dest'[d] = IF d = e THEN text ELSE dest[d]
  BY <1>1, <1>2, <1>3 DEF EngineTypeOK
<1>12. \A d \in Dests : Len(dest'[d]) < nextId' + edits'
  BY <1>1, <1>2, <1>4, <1>5, <1>8, <1>9, <1>11, LengthIsNat DEF HandInv
<1>13. \A p \in Procs : ~Owes(p)'
  BY <1>1 DEF Owes, Alone, Busy
<1> QED BY <1>1, <1>10, <1>12, <1>13 DEF HandInv

\* The rollback puts a newline for its block, in the text as it is.
LEMMA RemoveKeepsHands ==
    ASSUME HandInv, SerialInv, SnapshotInv, EngineTypeOK', NEW q \in Procs, Alone(q),
           RemoveFromDestination(q)
    PROVE  HandInv'
<1> DEFINE e == draft[q].dest
           n == draft[q].id
           text == RemoveBlock(draft[q].after, n)
<1>1. /\ stage[q] = "undo" /\ stage'[q] = "lookup"
      /\ \A p \in Procs \ {q} : stage'[p] = stage[p]
      /\ dest' = [dest EXCEPT ![e] = text]
      /\ UNCHANGED <<nextId, edits>>
  BY DEF RemoveFromDestination, Staged, EnterStage, SnapshotInv, EngineTypeOK
<1>2. e \in Dests /\ n \in Promotions /\ EngineTypeOK
  BY <1>1, DraftFields DEF SnapshotInv, Carries
<1>3. draft[q].after = dest[e]
  BY <1>1 DEF SerialInv, UpToDate
<1>4. /\ DOMAIN text = DOMAIN dest[e]
      /\ \A i \in DOMAIN text : text[i] = IF dest[e][i] = n THEN Newline ELSE dest[e][i]
  BY <1>3 DEF RemoveBlock
<1>5. n # ByHand /\ Newline # ByHand
  BY <1>2 DEF ByHand, Newline, Promotions
<1>6. text \in Contents /\ Len(text) = Len(dest[e])
  <2>1. text = dest'[e]
    BY <1>1, <1>2 DEF EngineTypeOK
  <2>2. text \in Contents
    BY <1>2, <2>1 DEF EngineTypeOK
  <2> HIDE DEF text
  <2>3. DOMAIN text = 1..Len(text) /\ Len(text) \in Nat
    BY <2>2, Lines0
  <2>4. Len(dest[e]) \in Nat /\ DOMAIN dest[e] = 1..Len(dest[e])
    BY <1>2, LengthIsNat
  <2>5. 1..Len(text) = 1..Len(dest[e])
    BY <1>4, <2>3, <2>4
  <2> QED BY <2>2, <2>3, <2>4, <2>5, SameInterval
<1> HIDE DEF text, e, n
<1>7. HandLines' = HandLines
  BY <1>1, <1>2, <1>4, <1>5, SameHands
<1>8. \A d \in Dests : Len(dest'[d]) = Len(dest[d])
  BY <1>1, <1>2, <1>6 DEF EngineTypeOK
<1>9. \A d \in Dests : Len(dest'[d]) < nextId' + edits'
  BY <1>1, <1>8 DEF HandInv
<1>10. \A p \in Procs : ~Owes(p)'
  BY <1>1 DEF Owes, Alone, Busy
<1> QED BY <1>1, <1>7, <1>9, <1>10 DEF HandInv

LEMMA EditAddsHand ==
    ASSUME Serial, HandInv, EngineTypeOK, EngineTypeOK', NEW d \in Dests, EditByHand(d)
    PROVE  HandInv'
<1> DEFINE n == Len(dest[d]) + 1
           text == Append(dest[d], ByHand)
<1>1. /\ \A p \in Procs : stage'[p] = "idle"
      /\ dest' = [dest EXCEPT ![d] = text] /\ edits' = edits + 1 /\ edits < MaxEdits
      /\ nextId' = nextId
  BY DEF EditByHand, Quiet
<1>2. dest[d] \in Contents /\ Len(dest[d]) \in Nat /\ DOMAIN dest[d] = 1..Len(dest[d])
  BY LengthIsNat
<1>3. /\ DOMAIN text = 1..n /\ Len(text) = n /\ text[n] = ByHand
      /\ \A i \in DOMAIN dest[d] : text[i] = dest[d][i]
  BY <1>2 DEF Contents
<1>4. nextId \in Int /\ edits \in Int /\ nextId <= MaxProms + 1 /\ MaxProms \in Nat /\ MaxEdits \in Nat
  BY ConstantFacts DEF EngineTypeOK
<1>5. n \in 1..(MaxProms + MaxEdits)
  BY <1>1, <1>2, <1>4 DEF HandInv
<1>6. \A i : i \in DOMAIN text <=> i \in DOMAIN dest[d] \/ i = n
  BY <1>2, <1>3
<1>7. n \notin DOMAIN dest[d]
  BY <1>2
<1>8. \A e \in Dests : dest'[e] = IF e = d THEN text ELSE dest[e]
  BY <1>1 DEF EngineTypeOK
<1> HIDE DEF n, text
<1>9. HandLines' = HandLines \cup {<<d, n>>}
  <2>1. ASSUME NEW at \in Dests \X (1..(MaxProms + MaxEdits))
        PROVE  at \in HandLines' <=> at \in HandLines \/ at = <<d, n>>
    <3>1. PICK e \in Dests, i \in 1..(MaxProms + MaxEdits) : at = <<e, i>>
      OBVIOUS
    <3>2. (i \in DOMAIN dest'[e] /\ dest'[e][i] = ByHand)
          <=> (i \in DOMAIN dest[e] /\ dest[e][i] = ByHand) \/ (e = d /\ i = n)
      <4>1. CASE e = d
        <5>1. dest'[e] = text
          BY <1>8, <4>1
        <5>2. i \in DOMAIN dest[d] => text[i] = dest[d][i]
          BY <1>3
        <5> QED BY <1>3, <1>6, <1>7, <4>1, <5>1, <5>2
      <4>2. CASE e # d
        BY <1>8, <4>2
      <4> QED BY <4>1, <4>2
    <3> QED BY <3>1, <3>2 DEF HandLines
  <2>2. <<d, n>> \in Dests \X (1..(MaxProms + MaxEdits))
    BY <1>5
  <2>3. HandLines \subseteq Dests \X (1..(MaxProms + MaxEdits))
    BY DEF HandLines
  <2>4. HandLines' \subseteq Dests \X (1..(MaxProms + MaxEdits))
    BY DEF HandLines
  <2> QED BY <2>1, <2>2, <2>3, <2>4
<1>10. <<d, n>> \notin HandLines
  BY <1>7 DEF HandLines
<1>11. IsFiniteSet(HandLines') /\ Cardinality(HandLines') = edits + 1
  BY <1>9, <1>10, FS_AddElement DEF HandInv
<1>12. \A e \in Dests : Len(dest'[e]) < nextId' + edits'
  <2>1. ASSUME NEW e \in Dests PROVE Len(dest'[e]) <= Len(dest[e]) + 1 /\ Len(dest'[e]) \in Nat
    BY <1>2, <1>3, <1>8, LengthIsNat DEF n
  <2> QED BY <1>1, <1>4, <2>1, LengthIsNat DEF HandInv
<1>13. \A p \in Procs : ~Owes(p)'
  BY <1>1 DEF Owes
<1> QED BY <1>1, <1>11, <1>12, <1>13 DEF HandInv

LEMMA HandInvStep ==
    ASSUME Serial, HandInv, SerialInv, SnapshotInv, SnapshotInv', QueueTypeOK,
           [EngineNext]_allVars
    PROVE  HandInv'
<1> USE DEF EnterStage, Staged
<1>1. EngineTypeOK /\ EngineTypeOK' /\ nextId \in Int /\ edits \in Int
  BY ConstantFacts DEF SnapshotInv, EngineTypeOK
<1>2. ASSUME UNCHANGED engineVars PROVE HandInv'
  BY <1>1, <1>2, HandsOff DEF engineVars, Owes
<1>3. ASSUME NEW q \in Procs,
             \/ LockRaises(q) \/ ValidatePhase(q) \/ ReadDestination(q) \/ TakeSnapshot(q)
             \/ RecordPromotion(q) \/ FinishPromotion(q) \/ FailPromotion(q) \/ QueueWork(q)
             \/ CrashPromoter(q) \/ (\E r \in records : BeginRollback(q, r)) \/ RemoveFails(q)
             \/ FindRolledBack(q) \/ RollbackLosesCandidate(q)
      PROVE  HandInv'
  <2>1. UNCHANGED <<dest, edits, nextId>>
    BY <1>3 DEF LockRaises, ValidatePhase, ReadDestination, TakeSnapshot, RecordPromotion,
                FinishPromotion, FailPromotion, QueueWork, CrashPromoter, BeginRollback,
                RemoveFails, FindRolledBack, RollbackLosesCandidate
  <2>2. \E to : /\ stage' = [stage EXCEPT ![q] = to]
                /\ to \in {"lock", "read", "snapshot", "replace"} => Owes(q)
    <3>1. CASE QueueWork(q)
      <4>1. \E to \in {"idle", "move", "release"} : stage' = [stage EXCEPT ![q] = to]
        BY <3>1 DEF QueueWork
      <4> QED BY <4>1
    <3>2. CASE ~QueueWork(q)
      BY <1>3, <3>2 DEF LockRaises, ValidatePhase, ReadDestination, TakeSnapshot, RecordPromotion,
                        FinishPromotion, FailPromotion, CrashPromoter, BeginRollback,
                        RemoveFails, FindRolledBack, RollbackLosesCandidate, Owes
    <3> QED BY <3>1, <3>2
  <2>3. \A p \in Procs : Owes(p)' => Owes(p)
    BY <1>1, <2>2 DEF Owes, EngineTypeOK
  <2> QED BY <1>1, <2>1, <2>3, HandsOff
<1>4. ASSUME NEW q \in Procs, ReplaceDestination(q) \/ RemoveFromDestination(q) PROVE HandInv'
  <2>1. Alone(q)
    BY <1>4, WorksAlone DEF ReplaceDestination, RemoveFromDestination, Busy
  <2> QED BY <1>1, <1>4, <2>1, ReplaceKeepsHands, RemoveKeepsHands
<1>5. ASSUME NEW q \in Procs, BeginPromotion(q) PROVE HandInv'
  BY <1>1, <1>5, HandsOffBegin
<1>6. ASSUME NEW q \in Procs, StartOther(q) \/ LockWork(q) PROVE HandInv'
  BY <1>2, <1>6 DEF StartOther, LockWork
<1>7. ASSUME NEW d \in Dests, EditByHand(d) PROVE HandInv'
  BY <1>1, <1>7, EditAddsHand
<1>8. CASE ClockTick \/ (\E q \in Procs : EndCommand(q)) \/ UNCHANGED allVars
  BY <1>2, <1>8 DEF ClockTick, EndCommand, allVars
<1> QED BY <1>3, <1>4, <1>5, <1>6, <1>7, <1>8 DEF EngineNext, PromotionStep, RollbackStep

\* With one command at a time, killed or failing wherever it may: every line a
\* user has added to a destination between commands is still there, once
\* (promote_one appends to the text it has read, rollback_promotion takes out its
\* own block and nothing else).
THEOREM HandLinesKeptHolds ==
    ASSUME Serial PROVE EngineSpec => []HandLinesKept
<1>1. EngineInit => HandInv
  <2> SUFFICES ASSUME EngineInit PROVE HandInv
    OBVIOUS
  <2>1. /\ \A d \in Dests : dest[d] = <<>>
        /\ nextId = 1 /\ edits = 0 /\ \A p \in Procs : stage[p] = "idle"
    BY DEF EngineInit
  <2>2. HandLines = {}
    BY <2>1 DEF HandLines
  <2> QED BY <2>1, <2>2, FS_EmptySet DEF HandInv, Owes
<1>2. /\ HandInv /\ SerialInv /\ SnapshotInv /\ SnapshotInv' /\ QueueTypeOK
      /\ [EngineNext]_allVars
      => HandInv'
  BY HandInvStep
<1>3. EngineSpec => []QueueTypeOK
  BY EngineImplementsQueue, QueueTypeCorrect, PTL
<1>4. HandInv => HandLinesKept
  BY DEF HandInv, HandLines, HandLinesKept
<1> QED BY <1>1, <1>2, <1>3, <1>4, SnapshotInvariant, SerialInvariant, PTL DEF EngineSpec

\* With one command at a time, killed or failing wherever it may: the destination
\* a rollback rewrites is still what the promotion ledger records, so that the
\* check of its hash holds until the write (rollback_promotion).
THEOREM RollbackCheckedHolds ==
    ASSUME Serial PROVE EngineSpec => RollbackChecked
<1> DEFINE Checked == \A p \in Procs : stage[p] = "undo" /\ stage'[p] = "lookup" =>
                        dest[draft[p].dest] = draft[p].after
<1>1. SerialInv => [Checked]_allVars
  BY DEF SerialInv, UpToDate
<1> QED BY <1>1, SerialInvariant, PTL DEF RollbackChecked

-----------------------------------------------------------------------------
\* The queue's ledgered candidates are those of the engine's records, whatever
\* else runs or dies: until its record is written, the draft of a promotion is
\* about the candidate its command has loaded.
InHand(p) == stage[p] \in Promoting /\ job[p] # None => draft[p].cand = job[p].cand

LedgerMatches ==
    /\ \A c \in ledgered : \E r \in records : r.cand = c
    /\ \A p \in Procs : InHand(p)

LEMMA LedgerLeftAlone ==
    ASSUME NEW q \in Procs,
           \/ PromoteLoad(q) \/ FailCandidate(q) \/ Validate(q) \/ AuditPromotion(q)
           \/ WriteStep(q) \/ DecideWhatToWrite(q) \/ DeleteStep(q) \/ KillCommand(q)
    PROVE  ledgered' = ledgered
  BY DEF PromoteLoad, FailCandidate, Validate, AuditPromotion, WriteStep, OpenTarget, FillTarget,
         WriteFails, UnlinkOld, AppendAudit, DecideWhatToWrite, Evaluate, Reload, Decide, Edit,
         MoveToRolledBack, LoadFails, DeleteStep, CheckDeletable, Unlink, KillCommand

LEMMA StartLeavesLedger ==
    ASSUME QueueTypeOK, NEW q \in Procs, StartOther(q) \/ \E c, s : StartRollback(q, c, s)
    PROVE  ledgered' = ledgered /\ \A p \in Procs \ {q} : job'[p] = job[p]
  BY DEF StartOther, CreateCandidate, StartReview, StartPromote, StartById, StartRollback, Start,
         QueueTypeOK

\* A step of q that writes no record.
LEMMA OneMatches ==
    ASSUME LedgerMatches, NEW q \in Procs, InHand(q)', records' = records, ledgered' = ledgered,
           \A p \in Procs \ {q} : Unmoved(p) /\ job'[p] = job[p]
    PROVE  LedgerMatches'
  BY DEF LedgerMatches, InHand, Unmoved

\* The promotion takes up the candidate its command has loaded, and keeps to it.
LEMMA PromotionKeepsCandidate ==
    ASSUME LedgerMatches, EngineTypeOK, QueueTypeOK, NEW q \in Procs,
           \/ BeginPromotion(q) \/ ValidatePhase(q) \/ ReadDestination(q)
           \/ TakeSnapshot(q) \/ ReplaceDestination(q)
    PROVE  LedgerMatches'
<1>1. records' = records /\ ledgered' = ledgered
  BY LedgerLeftAlone DEF BeginPromotion, ValidatePhase, ReadDestination, TakeSnapshot,
                         ReplaceDestination, queueVars
<1>2. \A p \in Procs \ {q} : Unmoved(p)
  BY DEF BeginPromotion, ValidatePhase, ReadDestination, TakeSnapshot, ReplaceDestination,
         EnterStage, EngineTypeOK, Unmoved
<1>3. /\ \A p \in Procs \ {q} : job'[p] = job[p]
      /\ job'[q] # None => job[q] # None /\ job'[q].cand = job[q].cand
  <2>1. CASE PromoteLoad(q) \/ Validate(q)
    BY <2>1, CommandGoesOn DEF CommandStep, PromoteStep, GoesOn
  <2>2. CASE UNCHANGED job
    BY <2>2
  <2> QED BY <2>1, <2>2 DEF BeginPromotion, ValidatePhase, ReadDestination, TakeSnapshot,
                          ReplaceDestination, queueVars
<1>4. job'[q] # None => draft'[q].cand = job'[q].cand
  <2>1. CASE BeginPromotion(q)
    BY <1>3, <2>1 DEF BeginPromotion, EngineTypeOK
  <2>2. CASE ~BeginPromotion(q)
    <3>1. stage[q] \in Promoting /\ draft[q] \in PromotionRecords
      BY <2>2 DEF ValidatePhase, ReadDestination, TakeSnapshot, ReplaceDestination, Staged,
                  Promoting, EngineTypeOK
    <3>2. draft'[q].cand = draft[q].cand
      <4>1. CASE draft' = draft
        BY <4>1
      <4>2. CASE ReadDestination(q)
        <5>1. draft'[q] = [draft[q] EXCEPT !.before = dest[draft[q].dest],
                                           !.after = Append(dest[draft[q].dest], draft[q].id)]
          BY <4>2 DEF ReadDestination, EngineTypeOK
        <5> QED BY <3>1, <5>1 DEF PromotionRecords
      <4> QED BY <2>2, <4>1, <4>2 DEF ValidatePhase, TakeSnapshot, ReplaceDestination
    <3> QED BY <1>3, <3>1, <3>2 DEF LedgerMatches, InHand
  <2> QED BY <2>1, <2>2
<1> QED BY <1>1, <1>2, <1>3, <1>4, OneMatches DEF InHand

\* The two ledgers are appended to in one step.
LEMMA RecordMatches ==
    ASSUME LedgerMatches, EngineTypeOK, QueueTypeOK, NEW q \in Procs, RecordPromotion(q)
    PROVE  LedgerMatches'
<1>1. /\ stage[q] = "record" /\ stage'[q] = "move" /\ draft' = draft
      /\ Record(q) /\ records' = records \cup {draft[q]}
  BY DEF RecordPromotion, Staged, EnterStage, EngineTypeOK
<1>2. ledgered' = ledgered \cup {job[q].cand} /\ job[q] # None
  BY <1>1 DEF Record, Running
<1>3. draft[q].cand = job[q].cand
  BY <1>1, <1>2 DEF LedgerMatches, InHand, Promoting
<1>4. \A p \in Procs \ {q} : stage'[p] = stage[p] /\ job'[p] = job[p]
  <2>1. \A p \in Procs \ {q} : job'[p] = job[p]
    BY <1>1, CommandGoesOn DEF CommandStep, PromoteStep
  <2> QED BY <2>1 DEF RecordPromotion, EnterStage, EngineTypeOK
<1> QED BY <1>1, <1>2, <1>3, <1>4 DEF LedgerMatches, InHand, Promoting

LEMMA LedgerMatchesStep ==
    ASSUME LedgerMatches, EngineTypeOK, QueueTypeOK, [EngineNext]_allVars
    PROVE  LedgerMatches'
<1> USE DEF EnterStage, Drop, Staged
<1>1. ASSUME NEW q \in Procs, stage'[q] \notin Promoting, records' = records,
             ledgered' = ledgered, \A p \in Procs \ {q} : Unmoved(p) /\ job'[p] = job[p]
      PROVE  LedgerMatches'
  BY <1>1, OneMatches DEF InHand
<1>2. ASSUME UNCHANGED <<job, ledgered, stage, draft, records>> PROVE LedgerMatches'
  BY <1>2 DEF LedgerMatches, InHand
<1>3. ASSUME NEW q \in Procs,
             LockRaises(q) \/ FailPromotion(q) \/ QueueWork(q) \/ CrashPromoter(q)
      PROVE  LedgerMatches'
  <2>1. /\ stage'[q] \notin Promoting /\ records' = records
        /\ \A p \in Procs \ {q} : Unmoved(p)
    BY <1>3 DEF LockRaises, FailPromotion, QueueWork, CrashPromoter, EngineTypeOK, Promoting, Unmoved
  <2>2. \/ FailCandidate(q) \/ AuditPromotion(q) \/ WriteStep(q)
        \/ DecideWhatToWrite(q) \/ DeleteStep(q) \/ KillCommand(q)
    BY <1>3 DEF LockRaises, FailPromotion, QueueWork, CrashPromoter
  <2>3. \A p \in Procs \ {q} : job'[p] = job[p]
    BY <2>2, CommandGoesOn DEF CommandStep, PromoteStep
  <2> QED BY <2>1, <2>2, <2>3, <1>1, LedgerLeftAlone
<1>4. ASSUME NEW q \in Procs, FinishPromotion(q) PROVE LedgerMatches'
  <2>1. /\ stage'[q] \notin Promoting /\ UNCHANGED <<records, job, ledgered>>
        /\ \A p \in Procs \ {q} : Unmoved(p)
    BY <1>4 DEF FinishPromotion, queueVars, EngineTypeOK, Promoting, Unmoved
  <2> QED BY <2>1, <1>1
<1>5. ASSUME NEW q \in Procs, RollbackStep(q) PROVE LedgerMatches'
  <2>1. /\ stage'[q] \notin Promoting /\ records' = records
        /\ \A p \in Procs \ {q} : Unmoved(p)
    BY <1>5 DEF RollbackStep, BeginRollback, RemoveFromDestination, RemoveFails, FindRolledBack,
                RollbackLosesCandidate, EngineTypeOK, Promoting, Unmoved
  <2>2. ledgered' = ledgered /\ \A p \in Procs \ {q} : job'[p] = job[p]
    BY <1>5, StartLeavesLedger DEF RollbackStep, BeginRollback, RemoveFromDestination, RemoveFails,
                                   FindRolledBack, RollbackLosesCandidate, queueVars
  <2> QED BY <2>1, <2>2, <1>1
<1>6. ASSUME NEW q \in Procs, StartOther(q) PROVE LedgerMatches'
  <2>1. stage[q] = "idle" /\ UNCHANGED <<records, stage, draft>>
    BY <1>6 DEF StartOther, engineVars
  <2> QED BY <1>6, <2>1, <1>1, StartLeavesLedger DEF Unmoved, Promoting
<1>7. ASSUME NEW q \in Procs, LockWork(q) PROVE LedgerMatches'
  BY <1>7, <1>2 DEF LockWork, queueVars, engineVars
<1>8. CASE \/ (\E d \in Dests : EditByHand(d)) \/ ClockTick
          \/ (\E q \in Procs : EndCommand(q)) \/ UNCHANGED allVars
  BY <1>8, <1>2 DEF EditByHand, ClockTick, EndCommand, queueVars, engineVars, allVars
<1> QED BY <1>3, <1>4, <1>5, <1>6, <1>7, <1>8, PromotionKeepsCandidate, RecordMatches
        DEF EngineNext, PromotionStep

LEMMA LedgerMatchesInvariant == EngineSpec => []LedgerMatches
<1>1. EngineInit => LedgerMatches
  BY DEF EngineInit, QueueInit, LedgerMatches, InHand
<1>2. LedgerMatches /\ EngineTypeOK /\ QueueTypeOK /\ [EngineNext]_allVars => LedgerMatches'
  BY LedgerMatchesStep
<1>3. EngineSpec => []QueueTypeOK
  BY EngineImplementsQueue, QueueTypeCorrect, PTL
<1> QED BY <1>1, <1>2, <1>3, EngineTypeCorrect, PTL DEF EngineSpec

\* Promotions alone, in a setting in which no waiter unlinks the lock of one at work.
SafePromotions == OnlyPromotions /\ LocksAreSafe

LEMMA NobodyRobbed ==
    ASSUME SafePromotions PROVE EngineSpec => []~robbed
<1>1. LocksAreSafe
  BY DEF SafePromotions
<1>2. LockSpec => []LiveLockUnbroken
  BY <1>1, NeverRobbed
<1>3. LiveLockUnbroken => ~robbed
  BY DEF LiveLockUnbroken
<1> QED BY <1>2, <1>3, EngineImplementsLock, PTL

LEMMA HeldByRecord ==
    PromotedIsLedgered /\ LedgerMatches /\ RecordedBlockStays => PromotedHasBlock
BY DEF PromotedIsLedgered, LedgerMatches, RecordedBlockStays, PromotedHasBlock

\* With promotions alone, however many at a time, a candidate in promoted/ has its
\* block until a waiter unlinks the lock of a promotion at work (promote_one).
THEOREM HeldUntilRobbedHolds ==
    ASSUME OnlyPromotions PROVE EngineSpec => []HeldUntilRobbed
<1>1. PromotedIsLedgered /\ LedgerMatches /\ BlocksUntilRobbed => HeldUntilRobbed
  BY HeldByRecord DEF BlocksUntilRobbed, HeldUntilRobbed
<1> QED BY <1>1, PromotionsKeepBlocks, LedgerMatchesInvariant, EngineKeepsQueueSafe, PTL

\* A candidate in promoted/ has the block of a recorded promotion of it in a
\* destination, unless a rollback has taken that out: with one command at a time,
\* killed or failing wherever it may, and with concurrent promotions in the setting
\* of SafePromotions (promote_one, rollback_promotion).
THEOREM PromotedHasBlockHolds ==
    ASSUME Serial \/ SafePromotions PROVE EngineSpec => []PromotedHasBlock
<1>1. EngineSpec => []RecordedBlockStays
  <2>1. CASE Serial
    BY <2>1, RecordedBlockStaysHolds
  <2>2. CASE SafePromotions
    <3>1. ~robbed /\ BlocksUntilRobbed => RecordedBlockStays
      BY DEF BlocksUntilRobbed
    <3>2. OnlyPromotions
      BY <2>2 DEF SafePromotions
    <3>3. EngineSpec => []BlocksUntilRobbed
      BY <3>2, PromotionsKeepBlocks
    <3> QED BY <2>2, <3>1, <3>3, NobodyRobbed, PTL
  <2> QED BY <2>1, <2>2
<1> QED BY <1>1, HeldByRecord, LedgerMatchesInvariant, EngineKeepsQueueSafe, PTL

-----------------------------------------------------------------------------
(* The engine implements Destinations *)

\* The id p has drawn is nobody else's, and new to the ledger and, until its
\* snapshot is taken, to the snapshots.
FreshDraft(p) == stage[p] \in Promoting =>
    /\ draft[p].id < nextId
    /\ \A r \in records : r.id # draft[p].id
    /\ stage[p] \in {"lock", "read", "snapshot"} => \A s \in snapshots : s.id # draft[p].id
    /\ stage[p] \in {"snapshot", "replace", "record"} =>
         draft[p].after = Append(draft[p].before, draft[p].id)
    /\ \A q \in Procs \ {p} : stage[q] \in Promoting => draft[q].id # draft[p].id

\* Whoever runs or dies meanwhile: one snapshot for an id, of a text that ends in
\* its block, and only recorded promotions are rolled back.
FreshInv ==
    /\ \A s, t \in snapshots : s.id = t.id => s = t
    /\ \A s \in snapshots : s.id < nextId /\ s.after = Append(s.before, s.id)
    /\ \A n \in undone : \E r \in records : r.id = n
    /\ \A p \in Procs : FreshDraft(p)

\* A step of q after which it is at work on no promotion, or on the same.
LEMMA SameFresh ==
    ASSUME FreshInv, NEW q \in Procs, UNCHANGED <<snapshots, records, nextId>>,
           \A n \in undone' : \E r \in records : r.id = n,
           \A p \in Procs \ {q} : Unmoved(p),
           stage'[q] \in Promoting =>
             /\ stage[q] \in Promoting /\ draft'[q].id = draft[q].id
             /\ stage'[q] \in {"lock", "read", "snapshot"}
                  => stage[q] \in {"lock", "read", "snapshot"}
             /\ stage'[q] \in {"snapshot", "replace", "record"} =>
                  draft'[q].after = Append(draft'[q].before, draft'[q].id)
    PROVE  FreshInv'
<1>1. \A p \in Procs : stage'[p] \in Promoting =>
         /\ stage[p] \in Promoting /\ draft'[p].id = draft[p].id
         /\ stage'[p] \in {"lock", "read", "snapshot"}
              => stage[p] \in {"lock", "read", "snapshot"}
         /\ stage'[p] \in {"snapshot", "replace", "record"} =>
              draft'[p].after = Append(draft'[p].before, draft'[p].id)
  BY DEF Unmoved, FreshInv, FreshDraft
<1>2. ASSUME NEW p \in Procs PROVE FreshDraft(p)'
  BY <1>1 DEF FreshInv, FreshDraft
<1> QED BY <1>2 DEF FreshInv

LEMMA BeginIsFresh ==
    ASSUME FreshInv, EngineTypeOK, NEW q \in Procs, BeginPromotion(q)
    PROVE  FreshInv'
<1>1. /\ draft'[q].id = nextId /\ stage'[q] = "lock" /\ nextId' = nextId + 1
      /\ \A p \in Procs \ {q} : Unmoved(p)
      /\ UNCHANGED <<snapshots, records, undone>>
  BY DEF BeginPromotion, EnterStage, EngineTypeOK, Unmoved
<1>2. nextId \in Nat /\ \A s \in snapshots : s.id \in Nat
  BY RecordFields DEF EngineTypeOK
<1>3. \A s \in snapshots : s.id < nextId' /\ s.id # nextId
  BY <1>1, <1>2 DEF FreshInv
<1>4. \A r \in records : r.id # nextId
  BY <1>3 DEF EngineTypeOK
<1>5. \A p \in Procs : stage[p] \in Promoting => draft[p].id \in Nat /\ draft[p].id < nextId
  <2>1. \A p \in Procs : stage[p] \in Promoting => draft[p] \in PromotionRecords
    BY DEF EngineTypeOK, Promoting
  <2> QED BY <2>1, RecordFields DEF FreshInv, FreshDraft
<1>6. FreshDraft(q)'
  BY <1>1, <1>2, <1>3, <1>4, <1>5 DEF FreshDraft, Unmoved
<1>7. ASSUME NEW p \in Procs \ {q} PROVE FreshDraft(p)'
  <2> SUFFICES ASSUME stage[p] \in Promoting PROVE FreshDraft(p)'
    BY <1>1 DEF FreshDraft, Unmoved
  <2>1. FreshDraft(p) /\ draft[p].id \in Nat /\ draft[p].id < nextId
    BY <1>5 DEF FreshInv
  <2>2. draft'[p] = draft[p] /\ stage'[p] = stage[p]
    BY <1>1 DEF Unmoved
  <2>3. \A o \in Procs \ {p} : stage'[o] \in Promoting => draft'[o].id # draft[p].id
    BY <1>1, <1>2, <2>1 DEF FreshDraft, Unmoved
  <2> QED BY <1>1, <1>2, <2>1, <2>2, <2>3 DEF FreshDraft
<1> QED BY <1>1, <1>3, <1>6, <1>7 DEF FreshInv

LEMMA SnapshotIsFresh ==
    ASSUME FreshInv, EngineTypeOK, NEW q \in Procs, TakeSnapshot(q)
    PROVE  FreshInv'
<1>1. /\ stage[q] = "snapshot" /\ stage'[q] = "replace"
      /\ \A p \in Procs \ {q} : stage'[p] = stage[p]
      /\ snapshots' = snapshots \cup {draft[q]}
      /\ UNCHANGED <<records, nextId, draft, undone>>
  BY DEF TakeSnapshot, Staged, EnterStage, EngineTypeOK
<1>2. FreshDraft(q) /\ stage[q] \in Promoting
  BY <1>1 DEF FreshInv, Promoting
<1>3. \A s, t \in snapshots' : s.id = t.id => s = t
  BY <1>1, <1>2 DEF FreshInv, FreshDraft
<1>4. \A s \in snapshots' : s.id < nextId /\ s.after = Append(s.before, s.id)
  BY <1>1, <1>2 DEF FreshInv, FreshDraft
<1>5. ASSUME NEW p \in Procs PROVE FreshDraft(p)'
  <2>1. FreshDraft(p)
    BY DEF FreshInv
  <2>2. CASE p = q
    BY <1>1, <1>2, <2>1, <2>2 DEF FreshDraft, Promoting
  <2>3. CASE p # q
    BY <1>1, <1>2, <2>1, <2>3 DEF FreshDraft, Promoting
  <2> QED BY <2>2, <2>3
<1> QED BY <1>1, <1>3, <1>4, <1>5 DEF FreshInv

LEMMA RecordIsFresh ==
    ASSUME FreshInv, EngineTypeOK, NEW q \in Procs, RecordPromotion(q)
    PROVE  FreshInv'
<1>1. /\ stage[q] = "record" /\ stage'[q] = "move"
      /\ \A p \in Procs \ {q} : stage'[p] = stage[p]
      /\ records' = records \cup {draft[q]}
      /\ UNCHANGED <<snapshots, nextId, draft, undone>>
  BY DEF RecordPromotion, Staged, EnterStage, EngineTypeOK
<1>2. ASSUME NEW p \in Procs PROVE FreshDraft(p)'
  BY <1>1 DEF FreshInv, FreshDraft, Promoting
<1>3. \A n \in undone : \E r \in records' : r.id = n
  BY <1>1 DEF FreshInv
<1> QED BY <1>1, <1>2, <1>3 DEF FreshInv

LEMMA FreshInvStep ==
    ASSUME FreshInv, SnapshotInv, [EngineNext]_allVars
    PROVE  FreshInv'
<1> USE DEF EnterStage, Staged
<1>1. EngineTypeOK
  BY DEF SnapshotInv
<1>2. ASSUME UNCHANGED <<snapshots, records, nextId, undone, stage, draft>> PROVE FreshInv'
  BY <1>2 DEF FreshInv, FreshDraft
<1>3. ASSUME NEW q \in Procs,
             \/ LockRaises(q) \/ FinishPromotion(q) \/ FailPromotion(q) \/ QueueWork(q)
             \/ CrashPromoter(q) \/ (\E r \in records : BeginRollback(q, r)) \/ RemoveFails(q)
             \/ FindRolledBack(q) \/ RollbackLosesCandidate(q)
      PROVE  FreshInv'
  <2>1. UNCHANGED <<snapshots, records, nextId, undone>>
    BY <1>3 DEF LockRaises, FinishPromotion, FailPromotion, QueueWork, CrashPromoter,
                BeginRollback, RemoveFails, FindRolledBack, RollbackLosesCandidate
  <2>2. stage'[q] \notin Promoting /\ \A p \in Procs \ {q} : Unmoved(p)
    BY <1>1, <1>3 DEF LockRaises, FinishPromotion, FailPromotion, QueueWork, CrashPromoter,
                BeginRollback, RemoveFails, FindRolledBack, RollbackLosesCandidate, Drop,
                EngineTypeOK, Promoting, Unmoved
  <2> QED BY <2>1, <2>2, SameFresh DEF FreshInv
<1>4. ASSUME NEW q \in Procs, ValidatePhase(q) \/ ReplaceDestination(q) PROVE FreshInv'
  <2>1. /\ UNCHANGED <<snapshots, records, nextId, undone, draft>>
        /\ \A p \in Procs \ {q} : Unmoved(p)
        /\ \/ stage[q] = "lock" /\ stage'[q] = "read"
           \/ stage[q] = "replace" /\ stage'[q] = "record"
    BY <1>1, <1>4 DEF ValidatePhase, ReplaceDestination, EngineTypeOK, Unmoved
  <2>2. stage[q] \in Promoting
    BY <2>1 DEF Promoting
  <2> QED BY <2>1, <2>2, SameFresh DEF FreshInv, FreshDraft
<1>5. ASSUME NEW q \in Procs, ReadDestination(q) PROVE FreshInv'
  <2> DEFINE text == dest[draft[q].dest]
             r == [draft[q] EXCEPT !.before = text, !.after = Append(text, draft[q].id)]
  <2>1. /\ UNCHANGED <<snapshots, records, nextId, undone>>
        /\ \A p \in Procs \ {q} : Unmoved(p)
        /\ stage[q] = "read" /\ stage'[q] = "snapshot" /\ draft'[q] = r
    BY <1>1, <1>5 DEF ReadDestination, EngineTypeOK, Unmoved
  <2>2. draft[q] \in PromotionRecords /\ stage[q] \in Promoting
    BY <1>1, <2>1 DEF EngineTypeOK, Promoting
  <2>3. r.id = draft[q].id /\ r.before = text /\ r.after = Append(text, draft[q].id)
    BY <2>2 DEF PromotionRecords
  <2> HIDE DEF text, r
  <2>4. /\ stage'[q] \in Promoting /\ draft'[q].id = draft[q].id
        /\ draft'[q].after = Append(draft'[q].before, draft'[q].id)
    BY <2>1, <2>3 DEF Promoting
  <2> QED BY <2>1, <2>2, <2>4, SameFresh DEF FreshInv
<1>6. ASSUME NEW q \in Procs, RemoveFromDestination(q) PROVE FreshInv'
  <2>1. /\ stage[q] = "undo" /\ stage'[q] = "lookup" /\ undone' = undone \cup {draft[q].id}
        /\ \A p \in Procs \ {q} : Unmoved(p)
        /\ UNCHANGED <<snapshots, records, nextId>>
    BY <1>1, <1>6 DEF RemoveFromDestination, EngineTypeOK, Unmoved
  <2>2. draft[q] \in records
    BY <2>1 DEF SnapshotInv, KeptOK
  <2> QED BY <2>1, <2>2, SameFresh DEF FreshInv, Promoting
<1>7. ASSUME NEW q \in Procs, StartOther(q) \/ LockWork(q) PROVE FreshInv'
  BY <1>2, <1>7 DEF StartOther, LockWork, engineVars
<1>8. CASE \/ (\E d \in Dests : EditByHand(d)) \/ ClockTick
          \/ (\E q \in Procs : EndCommand(q)) \/ UNCHANGED allVars
  BY <1>2, <1>8 DEF EditByHand, ClockTick, EndCommand, engineVars, allVars
<1> QED BY <1>1, <1>3, <1>4, <1>5, <1>6, <1>7, <1>8, BeginIsFresh, SnapshotIsFresh, RecordIsFresh
        DEF EngineNext, PromotionStep, RollbackStep

LEMMA FreshInvariant == EngineSpec => []FreshInv
<1>1. EngineInit => FreshInv
  BY DEF EngineInit, FreshInv, FreshDraft, Promoting
<1>2. FreshInv /\ SnapshotInv /\ [EngineNext]_allVars => FreshInv'
  BY FreshInvStep
<1> QED BY <1>1, <1>2, SnapshotInvariant, PTL DEF EngineSpec

\* What the two settings, one command at a time and promotions alone, know of a
\* process that is about to write: the text it holds is the present one with its
\* block put in, or its block stands in its destination.
Acquainted(p) ==
    /\ stage[p] = "replace" => draft[p].after = Append(dest[draft[p].dest], draft[p].id)
    /\ stage[p] = "record" => HasBlock(dest[draft[p].dest], draft[p].id)
    /\ stage[p] = "undo" => /\ dest[draft[p].dest] = draft[p].after
                            /\ \A n \in undone : ~HasBlock(draft[p].after, n)

RecordedIds == {r.id : r \in records}
DocumentVars == <<dest, RecordedIds, undone>>

\* The id of a draft that is about to be written is in no destination.
LEMMA ReplacePutsBlock ==
    ASSUME FreshInv, SnapshotInv, NEW q \in Procs, Acquainted(q), ReplaceDestination(q)
    PROVE  Documents!Next
<1> DEFINE e == draft[q].dest
           n == draft[q].id
<1>1. /\ stage[q] = "replace" /\ dest' = [dest EXCEPT ![e] = draft[q].after]
      /\ UNCHANGED <<records, undone>>
  BY DEF ReplaceDestination, Staged
<1>2. /\ e \in Dests /\ n \in Promotions /\ draft[q].after \in Contents
      /\ draft[q] \in snapshots /\ CarriedOK(q) /\ Carries(q) /\ FreshDraft(q)
  BY <1>1, DraftFields DEF SnapshotInv, Carries, KeptOK, FreshInv
<1>3. draft[q].after = Append(dest[e], n) /\ dest[e] \in Contents
  BY <1>1, <1>2 DEF Acquainted, SnapshotInv, EngineTypeOK
<1>4. n \notin RecordedIds /\ n \notin undone
  BY <1>1, <1>2 DEF FreshDraft, FreshInv, RecordedIds, Promoting
<1>5. ~HasBlock(dest[e], n)
  <2>1. SUFFICES ASSUME NEW i \in DOMAIN dest[e], dest[e][i] = n PROVE FALSE
    BY DEF HasBlock
  <2>2. /\ DOMAIN dest[e] = 1..Len(dest[e]) /\ Len(dest[e]) \in Nat
        /\ draft[q].after[i] = n /\ draft[q].after[Len(dest[e]) + 1] = n
        /\ i \in DOMAIN draft[q].after /\ Len(dest[e]) + 1 \in DOMAIN draft[q].after
    BY <1>3, <2>1 DEF Contents
  <2>3. i = Len(dest[e]) + 1
    BY <1>2, <2>2 DEF CarriedOK, Sound
  <2> QED BY <2>2, <2>3
<1>6. ASSUME NEW d \in Dests, d # e PROVE ~HasBlock(dest[d], n)
  <2>1. Sound(d, dest[d], snapshots)
    BY DEF SnapshotInv
  <2>2. \A s \in snapshots : s.id = n => s.dest = e
    BY <1>2 DEF FreshInv
  <2> QED BY <1>2, <1>6, <2>1, <2>2 DEF HasBlock, Sound
<1>7. \A d \in Dests : ~Documents!Stands(d, n)
  BY <1>5, <1>6 DEF Documents!Stands, HasBlock
<1>8. Documents!PutBlock(e, n)
  BY <1>1, <1>3, <1>4, <1>7 DEF Documents!PutBlock, Documents!Add, RecordedIds
<1> QED BY <1>2, <1>8 DEF Documents!Next

LEMMA RecordRecords ==
    ASSUME SnapshotInv, NEW q \in Procs, Acquainted(q), RecordPromotion(q)
    PROVE  Documents!Next
<1>1. /\ stage[q] = "record" /\ records' = records \cup {draft[q]}
      /\ UNCHANGED <<dest, undone>>
  BY DEF RecordPromotion, Staged
<1>2. draft[q].dest \in Dests /\ draft[q].id \in Promotions
  BY <1>1, RecordFields DEF SnapshotInv, EngineTypeOK
<1>3. Documents!Stands(draft[q].dest, draft[q].id)
  BY <1>1 DEF Acquainted, HasBlock, Documents!Stands
<1>4. RecordedIds' = RecordedIds \cup {draft[q].id}
  BY <1>1 DEF RecordedIds
<1> QED BY <1>1, <1>2, <1>3, <1>4 DEF Documents!RecordBlock, RecordedIds, Documents!Next

\* The block is the last thing in the text the rollback has compared, and stands
\* nowhere else in it.
LEMMA RemoveTakesOut ==
    ASSUME FreshInv, SnapshotInv, NEW q \in Procs, Acquainted(q), RemoveFromDestination(q)
    PROVE  Documents!Next
<1> DEFINE e == draft[q].dest
           n == draft[q].id
           text == dest[e]
           last == Len(text)
<1>1. /\ stage[q] = "undo" /\ dest' = [dest EXCEPT ![e] = RemoveBlock(draft[q].after, n)]
      /\ undone' = undone \cup {n} /\ records' = records
  BY DEF RemoveFromDestination, Staged
<1>2. /\ e \in Dests /\ n \in Promotions /\ draft[q] \in PromotionRecords
      /\ draft[q] \in records /\ draft[q] \in snapshots /\ CarriedOK(q) /\ Carries(q)
  BY <1>1, DraftFields DEF SnapshotInv, Carries, KeptOK, EngineTypeOK
<1>3. /\ text = draft[q].after /\ text = Append(draft[q].before, n)
      /\ \A m \in undone : ~HasBlock(text, m)
  BY <1>1, <1>2 DEF Acquainted, FreshInv
<1>4. /\ draft[q].before \in Contents /\ text \in Contents
      /\ last \in DOMAIN text /\ text[last] = n /\ text # <<>>
  BY <1>2, <1>3, RecordFields DEF Contents
<1>5. \A i \in DOMAIN text : text[i] = n => i = last
  BY <1>2, <1>3, <1>4 DEF CarriedOK, Sound
<1>6. n \in RecordedIds /\ n \notin undone
  BY <1>2, <1>3, <1>4 DEF RecordedIds, HasBlock
<1>7. RemoveBlock(text, n) = [text EXCEPT ![last] = Newline]
  BY <1>4, <1>5 DEF RemoveBlock, Contents
<1>8. dest' = [dest EXCEPT ![e][last] = Newline]
  BY <1>1, <1>3, <1>7
<1>9. Documents!TakeOut(e, n)
  BY <1>1, <1>4, <1>6, <1>8 DEF Documents!TakeOut, RecordedIds
<1> QED BY <1>2, <1>9 DEF Documents!Next

LEMMA EngineStepIsDocumentStep ==
    ASSUME FreshInv, SnapshotInv, \A p \in Procs : Acquainted(p), [EngineNext]_allVars
    PROVE  [Documents!Next]_DocumentVars
<1> USE DEF DocumentVars
<1>1. ASSUME UNCHANGED <<dest, records, undone>> PROVE UNCHANGED DocumentVars
  BY <1>1 DEF RecordedIds
<1>2. ASSUME NEW q \in Procs,
             \/ StartOther(q) \/ QueueWork(q) \/ CrashPromoter(q)
             \/ (PromotionStep(q) /\ ~ReplaceDestination(q) /\ ~RecordPromotion(q))
             \/ (RollbackStep(q) /\ ~RemoveFromDestination(q))
      PROVE  UNCHANGED DocumentVars
  BY <1>1, <1>2 DEF StartOther, QueueWork, CrashPromoter, PromotionStep, BeginPromotion, LockWork,
                    LockRaises, ValidatePhase, ReadDestination, TakeSnapshot, FinishPromotion,
                    FailPromotion, RollbackStep, BeginRollback, RemoveFails, FindRolledBack,
                    RollbackLosesCandidate, engineVars
<1>3. ASSUME NEW d \in Dests, EditByHand(d) PROVE Documents!Next
  BY <1>3 DEF EditByHand, Documents!Next, Documents!AddLine, Documents!Add
<1>4. CASE ClockTick \/ (\E q \in Procs : EndCommand(q)) \/ UNCHANGED allVars
  BY <1>1, <1>4 DEF ClockTick, EndCommand, engineVars, allVars
<1> QED BY <1>2, <1>3, <1>4, ReplacePutsBlock, RecordRecords, RemoveTakesOut
        DEF EngineNext, PromotionStep, RollbackStep

LEMMA AcquaintedAlways ==
    ASSUME Serial \/ SafePromotions
    PROVE  EngineSpec => [](\A p \in Procs : Acquainted(p))
<1>1. CASE Serial
  <2>1. SnapshotInv /\ SerialInv => \A p \in Procs : Acquainted(p)
    <3> SUFFICES ASSUME SnapshotInv, SerialInv, NEW p \in Procs PROVE Acquainted(p)
      OBVIOUS
    <3>1. UpToDate(p)
      BY DEF SerialInv
    <3>2. stage[p] = "undo" => draft[p].dest \in Dests
      BY DraftFields DEF SnapshotInv, Carries
    <3> QED BY <3>1, <3>2 DEF UpToDate, SerialInv, RolledBackStaysOut, Acquainted
  <2> QED BY <1>1, <2>1, SnapshotInvariant, SerialInvariant, PTL
<1>2. CASE SafePromotions
  <2>1. EngineSafe /\ BackedUntilRobbed /\ ~robbed => \A p \in Procs : Acquainted(p)
    BY DEF EngineSafe, SafelyPromoting, BackedUntilRobbed, PromotingTypeOK, DraftsFresh,
           DraftFresh, Backed, BackedDraft, Acquainted
  <2>2. OnlyPromotions
    BY <1>2 DEF SafePromotions
  <2>3. EngineSpec => [](EngineSafe /\ BackedUntilRobbed)
    BY <2>2, EngineSafeInvariant, BackedInvariant, PTL
  <2> QED BY <1>2, <2>1, <2>3, NobodyRobbed, PTL
<1> QED BY <1>1, <1>2

\* With one command at a time, killed or failing wherever it may, and with
\* concurrent promotions in the setting of SafePromotions: the destinations and their
\* ledger change by the steps of Destinations alone (executor.py promote_one,
\* rollback.py rollback_promotion).
THEOREM ImplementsDestinationsHolds ==
    ASSUME Serial \/ SafePromotions PROVE EngineSpec => ImplementsDestinations
<1> DEFINE AllAcquainted == \A p \in Procs : Acquainted(p)
<1>1. EngineInit => Documents!Init
  BY DEF EngineInit, Documents!Init
<1>2. FreshInv /\ SnapshotInv /\ AllAcquainted /\ [EngineNext]_allVars
      => [Documents!Next]_DocumentVars
  BY EngineStepIsDocumentStep
<1>3. EngineSpec => []AllAcquainted
  BY AcquaintedAlways
<1> QED BY <1>1, <1>2, <1>3, FreshInvariant, SnapshotInvariant, PTL
        DEF EngineSpec, ImplementsDestinations, Documents!Spec, DocumentVars, RecordedIds
=============================================================================
