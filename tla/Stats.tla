-------------------------------- MODULE Stats --------------------------------
(***************************************************************************)
(* The session statistics of one Server with ENABLE_STATISTICS (src/src/   *)
(* stats.hpp, session_pool.hpp, session.hpp): every session counts what it *)
(* does in its SessionStatsDelta with fetch_add; a poller takes a sample   *)
(* with Server::get_stats(), whose SessionPool::get_stats() clears the     *)
(* pool's one SessionStats, then for every session exchanges its deltas    *)
(* with 0 and fetch_adds them into the SessionStats, and returns a         *)
(* reference to it; the LSStats sample keeps that reference and the        *)
(* poller reads the fields when it reports them.  Two threads poll: the    *)
(* Portal's service thread (print_stats, every second) and the gRPC        *)
(* threads of the ControlServer (GetStats).                                *)
(*                                                                         *)
(* The three counters (transactions, bytes received, bytes sent) are      *)
(* treated alike; the model keeps the transaction count.                  *)
(***************************************************************************)
EXTENDS Naturals, FiniteSets, Functions

CONSTANTS
    Sessions,   \* the sessions in the pool's all_items_
    Pollers,    \* the threads that call Server::get_stats()
    MaxTrans    \* bound on the transactions the sessions start

VARIABLES
    delta,      \* delta[s]: stats_transactions_cnt_delta_ of session s
    total,      \* session_stats_.stats_transactions_cnt_delta_ of the pool
    ppc,        \* ppc[p]: "idle", "collect", "add" or "report"
    todo,       \* todo[p]: the sessions p's loop over all_items() has left
    got,        \* got[p]: the value p's last exchange(0) returned
    started,    \* history: transactions started
    reported    \* history: the sum of the samples reported

vars == <<delta, total, ppc, todo, got, started, reported>>

TypeOK ==
    /\ delta \in [Sessions -> 0..MaxTrans]
    /\ total \in Nat
    /\ ppc \in [Pollers -> {"idle", "collect", "add", "report"}]
    /\ todo \in [Pollers -> SUBSET Sessions]
    /\ got \in [Pollers -> 0..MaxTrans]
    /\ started \in 0..MaxTrans
    /\ reported \in Nat

(* Every counter of SessionStatsDelta and SessionStats starts at 0.        *)
Init ==
    /\ delta = [s \in Sessions |-> 0]
    /\ total = 0
    /\ ppc = [p \in Pollers |-> "idle"]
    /\ todo = [p \in Pollers |-> {}]
    /\ got = [p \in Pollers |-> 0]
    /\ started = 0
    /\ reported = 0

(* Session::transaction_started(), from Http::on_data at a new request.   *)
TransactionStarted(s) ==
    /\ started < MaxTrans
    /\ delta' = [delta EXCEPT ![s] = @ + 1]
    /\ started' = started + 1
    /\ UNCHANGED <<total, ppc, todo, got, reported>>

(* SessionPool::get_stats() begins: session_stats_.clear() stores 0, and   *)
(* the loop over Base::all_items() starts.                                  *)
GetStats(p) ==
    /\ ppc[p] = "idle"
    /\ total' = 0
    /\ todo' = [todo EXCEPT ![p] = Sessions]
    /\ ppc' = [ppc EXCEPT ![p] = IF Sessions = {} THEN "report" ELSE "collect"]
    /\ UNCHANGED <<delta, got, started, reported>>

(* One iteration: delta.stats_transactions_cnt_delta_.exchange(0).         *)
Exchange(p, s) ==
    /\ ppc[p] = "collect" /\ s \in todo[p]
    /\ got' = [got EXCEPT ![p] = delta[s]]
    /\ delta' = [delta EXCEPT ![s] = 0]
    /\ todo' = [todo EXCEPT ![p] = @ \ {s}]
    /\ ppc' = [ppc EXCEPT ![p] = "add"]
    /\ UNCHANGED <<total, started, reported>>

(* The rest of the iteration: session_stats_...fetch_add(the delta); after *)
(* the last session get_stats returns its reference.                       *)
Accumulate(p) ==
    /\ ppc[p] = "add"
    /\ total' = total + got[p]
    /\ ppc' = [ppc EXCEPT ![p] = IF todo[p] = {} THEN "report" ELSE "collect"]
    /\ UNCHANGED <<delta, todo, got, started, reported>>

(* The poller reads the counter through the sample's reference:            *)
(* LSStats::generate_rec for print_rec, or the set_ calls of GetStats.     *)
Report(p) ==
    /\ ppc[p] = "report"
    /\ reported' = reported + total
    /\ ppc' = [ppc EXCEPT ![p] = "idle"]
    /\ UNCHANGED <<delta, total, todo, got, started>>

Next ==
    \/ \E s \in Sessions : TransactionStarted(s)
    \/ \E p \in Pollers :
         \/ GetStats(p) \/ Accumulate(p) \/ Report(p)
         \/ \E s \in Sessions : Exchange(p, s)

Spec == Init /\ [][Next]_vars

-----------------------------------------------------------------------------
(* Properties                                                              *)

(* The delta semantics of SessionStatsDelta: every transaction a session   *)
(* starts shows in exactly one sample.  Whenever no poller is inside       *)
(* get_stats or its report, the samples reported and the deltas not yet    *)
(* collected add up to the transactions started.                           *)
CountedOnce ==
    (\A p \in Pollers : ppc[p] = "idle") =>
        reported + SumFunction(delta) = started
=============================================================================
