----------------------------- MODULE ContextsInfo -----------------------------
(***************************************************************************)
(* The GetContextsInfo RPC (src/src/control_server.cpp) against the        *)
(* DeactivateContext and AddContext RPCs, which gRPC serves on other      *)
(* threads of its pool.  The reader walks ServerManager::get_servers_info()*)
(* -> Server::get_server_info() -> LSContextPool::get_contexts_info() ->  *)
(* LSContext::get_context_info() without smtx_ and without the context's  *)
(* mtx_, while LSContext::stop(), under both, replaces strand_pool_ by a  *)
(* fresh StrandPool and so destroys the one the reader may have loaded.   *)
(* Server::stop()'s stop(true) replaces the pools the same way.           *)
(*                                                                         *)
(* A strand pool is a generation number: gen[c] is the pool strand_pool_ *)
(* points to, and a pool is destroyed once a newer one replaces it.  The   *)
(* load of the unique_ptr races the store of stop(); the build's loads of *)
(* an aligned pointer yield the old or the new value, which is what the   *)
(* interleaving of the two steps enumerates.  ref_cnt_ is taken as 0, so  *)
(* every inactive context is reusable.                                     *)
(***************************************************************************)
EXTENDS Naturals, FiniteSets

CONSTANTS
    NCtx,       \* lscontexts_.size()
    MaxStops,   \* bound on the strand pools stop() makes per context
    MaxInfos    \* bound on the GetContextsInfo calls

Ctx == 0 .. NCtx - 1

VARIABLES
    active,     \* LSContext::active_
    gen,        \* the strand pool strand_pool_ points to
    infoPc,     \* the gRPC thread: "idle", "load" or "use"
    infoIdx,    \* the context get_contexts_info() is at
    loaded,     \* the pool whose address get_context_info() has loaded
    infos,      \* GetContextsInfo calls begun
    stale       \* a destroyed strand pool was called through

vars == <<active, gen, infoPc, infoIdx, loaded, infos, stale>>

TypeOK ==
    /\ active \in [Ctx -> BOOLEAN]
    /\ gen \in [Ctx -> 0 .. MaxStops]
    /\ infoPc \in {"idle", "load", "use"}
    /\ infoIdx \in 0 .. NCtx
    /\ loaded \in 0 .. MaxStops
    /\ infos \in 0 .. MaxInfos
    /\ stale \in BOOLEAN

(* The LSContextPool constructor: every context active, running its       *)
(* threads (their number is not read here), with its first strand pool.  *)
Init ==
    /\ active = [c \in Ctx |-> TRUE]
    /\ gen = [c \in Ctx |-> 0]
    /\ infoPc = "idle" /\ infoIdx = 0 /\ loaded = 0 /\ infos = 0
    /\ stale = FALSE

ActiveCount == Cardinality({c \in Ctx : active[c]})

(* LSContext::stop(force) past removable(): active_ cleared, the work     *)
(* guard dropped, the threads joined, and a fresh io_context and          *)
(* StrandPool assigned, which destroys the previous pool.                  *)
StopContext(c) ==
    /\ gen[c] < MaxStops
    /\ active' = [active EXCEPT ![c] = FALSE]
    /\ gen' = [gen EXCEPT ![c] = @ + 1]

(* DeactivateContext -> deactivate_context(c): under smtx_, refuse an      *)
(* inactive context or the last active one, then stop(false).             *)
Deactivate(c) ==
    /\ active[c] /\ ActiveCount >= 2
    /\ StopContext(c)
    /\ UNCHANGED <<infoPc, infoIdx, loaded, infos, stale>>

(* AddContext -> add_context(n): the first reusable context is reused     *)
(* (reuse(): active_ set, its threads started; strand_pool_ kept).        *)
Reuse(c) ==
    /\ ~active[c] /\ \A d \in 0 .. c - 1 : active[d]
    /\ active' = [active EXCEPT ![c] = TRUE]
    /\ UNCHANGED <<gen, infoPc, infoIdx, loaded, infos, stale>>

(* GetContextsInfo begins the walk over lscontexts_.                       *)
InfoBegin ==
    /\ infoPc = "idle" /\ infos < MaxInfos
    /\ infoPc' = "load" /\ infoIdx' = 0 /\ infos' = infos + 1
    /\ UNCHANGED <<active, gen, loaded, stale>>

(* get_context_info(): threads_.size() and *ref_cnt_ are read, and the    *)
(* strand_pool_ pointer is loaded for strand_pool_->get_size().            *)
InfoLoad ==
    /\ infoPc = "load"
    /\ loaded' = gen[infoIdx]
    /\ infoPc' = "use"
    /\ UNCHANGED <<active, gen, infoIdx, infos, stale>>

(* get_size() and get_in_flight_cnt() run on the loaded pool, active_ is   *)
(* read, and the walk moves to the next context or returns the reply.     *)
InfoUse ==
    /\ infoPc = "use"
    /\ stale' = (stale \/ loaded # gen[infoIdx])
    /\ infoIdx' = infoIdx + 1
    /\ infoPc' = IF infoIdx + 1 < NCtx THEN "load" ELSE "idle"
    /\ UNCHANGED <<active, gen, loaded, infos>>

Next ==
    \/ \E c \in Ctx : Deactivate(c) \/ Reuse(c)
    \/ InfoBegin \/ InfoLoad \/ InfoUse

Spec == Init /\ [][Next]_vars

-----------------------------------------------------------------------------
(* get_context_info() only calls into a strand pool that is still alive:  *)
(* no stop() on another gRPC thread destroys the pool between            *)
(* the load of strand_pool_ and the calls made through it.                 *)
NoStalePoolRead == ~stale
================================================================================
