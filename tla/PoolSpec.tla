------------------------------ MODULE PoolSpec ------------------------------
(***************************************************************************)
(* What an object pool of src/src/pool.hpp promises its users, without its *)
(* stack, tags or counters: an item is absent (never created), free or     *)
(* borrowed; a borrower gets a free item when there is one and a new item  *)
(* only when none is free and fewer than MaxSize are out (MaxSize = 0: no  *)
(* limit); an asynchronous borrower that gets nothing is remembered, and   *)
(* the next returned item goes to it instead of becoming free.            *)
(***************************************************************************)
EXTENDS Naturals, FiniteSets

CONSTANTS Items, MaxSize

VARIABLES status, waiting

Out == {i \in Items : status[i] = "out"}
FreeItems == {i \in Items : status[i] = "free"}

Init ==
    /\ \/ status = [i \in Items |-> "absent"]
       \/ \E E \in SUBSET Items :
            /\ Cardinality(E) = MaxSize
            /\ status = [i \in Items |-> IF i \in E THEN "free" ELSE "absent"]
    /\ waiting = FALSE

CanGrow == MaxSize = 0 \/ Cardinality(Out) < MaxSize

Take ==
    \E i \in Items :
        /\ \/ status[i] = "free"
           \/ status[i] = "absent" /\ FreeItems = {} /\ CanGrow
        /\ status' = [status EXCEPT ![i] = "out"]
        /\ UNCHANGED waiting

Wait ==
    /\ FreeItems = {} /\ ~CanGrow /\ ~waiting
    /\ waiting' = TRUE
    /\ UNCHANGED status

Return ==
    \E i \in Out :
        IF waiting THEN waiting' = FALSE /\ UNCHANGED status
                   ELSE status' = [status EXCEPT ![i] = "free"] /\ UNCHANGED waiting

Next == Take \/ Wait \/ Return

Spec == Init /\ [][Next]_<<status, waiting>>
=============================================================================
