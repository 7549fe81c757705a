------------------------------ MODULE LockService ------------------------------
(***************************************************************************)
(* What the VM promises its programs (spec sections 2 and 4.9): every      *)
(* resource has at most one holder at a time; a LOCK takes a free resource *)
(* for the caller's identity; an UNLOCK releases a resource the identity   *)
(* holds and is a no-op otherwise; the end of a session releases whatever  *)
(* its identity still holds.  Module LSVM is shown to implement it.        *)
(***************************************************************************)
CONSTANTS
    Sessions,   \* caller identities
    Resources,  \* resource numbers
    NoId        \* the holder of a free resource

VARIABLES
    owner,      \* owner[r]: the identity holding r, or NoId
    held,       \* held[s]: the resources identity s has locked and not unlocked
    ended       \* the identities whose session has ended

vars == <<owner, held, ended>>

Init ==
    /\ owner = [r \in Resources |-> NoId]
    /\ held = [s \in Sessions |-> {}]
    /\ ended = {}

(* LOCK: the resource is free, and the identity takes it.                  *)
Lock(s, r) ==
    /\ s \notin ended /\ owner[r] = NoId
    /\ owner' = [owner EXCEPT ![r] = s]
    /\ held' = [held EXCEPT ![s] = @ \cup {r}]
    /\ UNCHANGED ended

(* UNLOCK of a resource the identity holds.                                *)
Unlock(s, r) ==
    /\ s \notin ended /\ owner[r] = s
    /\ owner' = [owner EXCEPT ![r] = NoId]
    /\ held' = [held EXCEPT ![s] = @ \ {r}]
    /\ UNCHANGED ended

(* The session ends, once: its identity holds nothing any more.           *)
Release(s) ==
    /\ s \notin ended
    /\ owner' = [r \in Resources |-> IF owner[r] = s THEN NoId ELSE owner[r]]
    /\ held' = [held EXCEPT ![s] = {}]
    /\ ended' = ended \cup {s}

Next ==
    \E s \in Sessions : Release(s) \/ \E r \in Resources : Lock(s, r) \/ Unlock(s, r)

Spec == Init /\ [][Next]_vars
================================================================================
