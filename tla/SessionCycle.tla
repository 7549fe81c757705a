----------------------------- MODULE SessionCycle -----------------------------
(***************************************************************************)
(* What a pooled Session promises per acquire cycle (spec section 4.4):   *)
(*                                                                         *)
(*   IDLE --setup--> READING --on_data kContinue--> READING                *)
(*   READING --on_data kFinished--> DRAINING                               *)
(*   DRAINING --write complete, on_sent kContinue--> READING               *)
(*   READING or DRAINING --kClose or error--> CLOSING --finalize--> IDLE   *)
(*                                                                         *)
(* A response is delivered when a DRAINING session's last write completes; *)
(* a close, once requested, is never taken back, and finalize runs once   *)
(* per cycle.  Module HttpSession is shown to implement it.               *)
(***************************************************************************)
EXTENDS Naturals

CONSTANT MaxCycles      \* bound on the acquire cycles

VARIABLES
    state,      \* "IDLE", "READING", "DRAINING" or "CLOSING"
    cycle,      \* the acquire cycles begun
    responses,  \* responses delivered in full in this cycle
    finalized   \* finalize() calls

vars == <<state, cycle, responses, finalized>>

Init == state = "IDLE" /\ cycle = 0 /\ responses = 0 /\ finalized = 0

(* setup() and session_start(): the session reads its first request.      *)
Setup ==
    /\ state = "IDLE" /\ cycle < MaxCycles
    /\ state' = "READING" /\ cycle' = cycle + 1 /\ responses' = 0
    /\ UNCHANGED finalized

(* on_data returns kFinished: the response is queued.                     *)
Finished ==
    /\ state = "READING"
    /\ state' = "DRAINING"
    /\ UNCHANGED <<cycle, responses, finalized>>

(* The last write of the response completes; on_sent says kContinue (the  *)
(* next request is read) or kClose.                                        *)
Sent ==
    /\ state = "DRAINING"
    /\ state' \in {"READING", "CLOSING"}
    /\ responses' = responses + 1
    /\ UNCHANGED <<cycle, finalized>>

(* kClose from on_data, or a read or write error: async_close.            *)
Close ==
    /\ state \in {"READING", "DRAINING"}
    /\ state' = "CLOSING"
    /\ UNCHANGED <<cycle, responses, finalized>>

(* close_once runs finalize, and the session is back in its pool.        *)
Finalize ==
    /\ state = "CLOSING"
    /\ state' = "IDLE" /\ finalized' = finalized + 1
    /\ UNCHANGED <<cycle, responses>>

Next == Setup \/ Finished \/ Sent \/ Close \/ Finalize

Spec == Init /\ [][Next]_vars
================================================================================
