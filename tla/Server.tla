------------------------------- MODULE Server -------------------------------
(***************************************************************************)
(* Server<P> of src/src/server.hpp with its workers LSContextPool           *)
(* (src/src/io_context_pool.{hpp,cpp}), the LSContexts it holds             *)
(* (src/src/lscontext.hpp) and its SessionPool, an instance of Pool.       *)
(*                                                                         *)
(* Actors:                                                                 *)
(*  - the acceptor chain: the async_accept completion handler of dispatch, *)
(*    which borrows a session, sets it up on the round-robin context and   *)
(*    re-dispatches;                                                        *)
(*  - the sessions: a borrowed session is attached to a context (ref) until *)
(*    its client or protocol closes it and finalize() derefs the context    *)
(*    and puts it back (HttpSession models what happens in between);       *)
(*  - the management RPC: add_context and deactivate_context;              *)
(*  - the signal handler: Server::stop().                                  *)
(*                                                                         *)
(* Every context runs num_threads_ threads; a session set up on a context *)
(* with more than one borrows a strand from the context's strand pool,     *)
(* which stop() replaces by a fresh one once the threads are joined.       *)
(*                                                                         *)
(* TriggerGuard is taken as atomic here (its module checks its inside).    *)
(* LSContext::stop() holds the pool's unique lock while it joins the       *)
(* context's threads, which return when its io_context has no work left:   *)
(* phase "draining" is that wait.                                          *)
(***************************************************************************)
EXTENDS Naturals, FiniteSets, FiniteSetsExt

CONSTANTS
    MaxContexts,       \* max_num_workers_: capacity reserved in lscontexts_
    NumWorkers,        \* num_workers_: contexts created by the constructor
    Sessions,          \* Session objects the session pool may create
    MaxSessions,       \* max_session_pool_size_
    EagerSessions,     \* eager_session_pool_
    MaxConns,          \* bound: connections the clients open in a behaviour
    ThreadCounts,      \* num_threads_per_worker and add_context thread counts
    POI_INVALID, Free

ASSUME 1 <= NumWorkers /\ NumWorkers <= MaxContexts
ASSUME MaxConns \in Nat
ASSUME ThreadCounts \subseteq Nat

Ctx == 0..MaxContexts-1

VARIABLES
    separate,    \* config: listen.separate_acceptor_thread (read once)
    nctx,        \* lscontexts_.size()
    active,      \* LSContext::active_
    hold,        \* *LSContext::hold_cnt_
    ref,         \* *LSContext::ref_cnt_
    phase,       \* "running" | "draining" (joining its threads) | "stopped"
    cursor,      \* index of next_context_
    lockOwner,   \* unique owner of LSContextPool::smtx_: "none" | "admin" | "stopper"
    accPc,       \* acceptor: "accepting" | "handler" | "unhold" | "redispatch" | "done"
    accCtx,      \* the context dispatch() chose (and holds) for the pending accept
    accErr,      \* the error_code the completion handler received
    acceptorOpen,\* acceptor_ is open
    accStopped,  \* acceptor_pool_ has been stopped (separate acceptor only)
    conns,       \* connections accepted so far
    triggered,   \* shutdown_guard_.triggered_
    stopPc,      \* Server::stop(): "running" | "closing" | "acceptorpool" | "lock"
                 \*   | "stopping" | "joining" | "stopped"
    stopIdx,     \* index of the context LSContextPool::stop() is at
    adminPc,     \* management RPC: "idle" | "draining"
    adminCtx,    \* the context deactivate_context is stopping
    nthreads,    \* LSContext::num_threads_
    threads,     \* threads of the context inside io_context::run()
    strand,      \* Session::strand_: "none", or from the context's current or
                 \*   a replaced ("stale") strand pool
    \* the session pool (Pool)
    pool_, all_items_, in_flight, total, callback_active_, holder, waiter_id,
    snapshot

ctxVars  == <<separate, nctx, active, hold, ref, phase, cursor, lockOwner>>
accVars  == <<accPc, accCtx, accErr, acceptorOpen, accStopped, conns, triggered>>
ctlVars  == <<stopPc, stopIdx, adminPc, adminCtx>>
poolVars == <<pool_, all_items_, in_flight, total, callback_active_, holder,
              waiter_id, snapshot>>
thrVars  == <<nthreads, threads, strand>>
vars == <<ctxVars, accVars, ctlVars, poolVars, thrVars>>

SP == INSTANCE Pool WITH Items <- Sessions, Ids <- Ctx, MaxSize <- MaxSessions,
                         Eager <- EagerSessions

Created == 0..nctx-1
AcceptorPending == {"accepting", "handler", "unhold", "redispatch"}
InGuard == {"handler", "unhold", "redispatch"}

(* The session s is attached to the context it was borrowed for.           *)
SessionCtx(s) == all_items_[s]

TypeOK ==
    /\ separate \in BOOLEAN
    /\ nctx \in 1..MaxContexts
    /\ active \in [Ctx -> BOOLEAN]
    /\ hold \in [Ctx -> Nat] /\ ref \in [Ctx -> Nat]
    /\ phase \in [Ctx -> {"running", "draining", "stopped"}]
    /\ cursor \in Created
    /\ lockOwner \in {"none", "admin", "stopper"}
    /\ accPc \in AcceptorPending \cup {"done"}
    /\ accCtx \in Ctx /\ accErr \in BOOLEAN
    /\ acceptorOpen \in BOOLEAN /\ accStopped \in BOOLEAN
    /\ conns \in 0..MaxConns /\ triggered \in BOOLEAN
    /\ stopPc \in {"running", "closing", "acceptorpool", "lock", "stopping",
                   "joining", "stopped"}
    /\ stopIdx \in 0..MaxContexts
    /\ adminPc \in {"idle", "draining"} /\ adminCtx \in Ctx
    /\ nthreads \in [Ctx -> Nat] /\ threads \in [Ctx -> Nat]
    /\ strand \in [Sessions -> {"none", "current", "stale"}]
    /\ SP!TypeOK

(* The context the acceptor_ is bound to when it has no thread of its own: *)
(* the first get_context_round_robin() of the workers pool, index 0.       *)
AcceptorCtx == 0

(* set_num_threads(): the count must lie in 1..64, else logic_error.       *)
ValidThreads(n) == 1 <= n /\ n <= 64

(* The LSContextPool constructor add_context()s NumWorkers contexts with   *)
(* the configured thread_multiplier (a bad one makes the constructor      *)
(* throw: there is no server); each runs run_threads().                    *)
InitThreads ==
    /\ \E m \in {n \in ThreadCounts : ValidThreads(n)} :
         /\ nthreads = [c \in Ctx |-> IF c < NumWorkers THEN m ELSE 0]
         /\ threads = nthreads
    /\ strand = [s \in Sessions |-> "none"]

(* Fault variant: the constructor's round-robin hold is not taken.         *)
InitNoAcceptorHold ==
    /\ separate \in BOOLEAN
    /\ nctx = NumWorkers
    /\ active = [c \in Ctx |-> c < NumWorkers]
    /\ phase = [c \in Ctx |-> IF c < NumWorkers THEN "running" ELSE "stopped"]
    /\ ref = [c \in Ctx |-> 0]
    /\ IF separate
         THEN /\ accCtx = 0
              /\ hold = [c \in Ctx |-> IF c = 0 THEN 1 ELSE 0]
         ELSE /\ accCtx = 1 % NumWorkers
              /\ hold = [c \in Ctx |-> IF c = accCtx THEN 1 ELSE 0]
    /\ cursor = (accCtx + 1) % NumWorkers
    /\ lockOwner = "none"
    /\ accPc = "accepting" /\ accErr = FALSE /\ acceptorOpen = TRUE
    /\ accStopped = FALSE /\ conns = 0 /\ triggered = FALSE
    /\ stopPc = "running" /\ stopIdx = 0 /\ adminPc = "idle" /\ adminCtx = 0
    /\ SP!Init
    /\ InitThreads

(* The LSContextPool constructor adds NumWorkers running contexts.  The    *)
(* Server constructor binds acceptor_ to a round-robin context, either the *)
(* acceptor pool's or the workers' context 0, whose hold it never releases.*)
(* create_server() then calls dispatch(): one more round-robin hold, and   *)
(* an accept is registered.                                                *)
Init ==
    /\ separate \in BOOLEAN
    /\ nctx = NumWorkers
    /\ active = [c \in Ctx |-> c < NumWorkers]
    /\ phase = [c \in Ctx |-> IF c < NumWorkers THEN "running" ELSE "stopped"]
    /\ ref = [c \in Ctx |-> 0]
    /\ IF separate
         THEN /\ accCtx = 0
              /\ hold = [c \in Ctx |-> IF c = 0 THEN 1 ELSE 0]
         ELSE /\ accCtx = 1 % NumWorkers
              /\ hold = [c \in Ctx |-> (IF c = AcceptorCtx THEN 1 ELSE 0)
                                       + (IF c = accCtx THEN 1 ELSE 0)]
    /\ cursor = (accCtx + 1) % NumWorkers
    /\ lockOwner = "none"
    /\ accPc = "accepting" /\ accErr = FALSE /\ acceptorOpen = TRUE
    /\ accStopped = FALSE /\ conns = 0 /\ triggered = FALSE
    /\ stopPc = "running" /\ stopIdx = 0 /\ adminPc = "idle" /\ adminCtx = 0
    /\ SP!Init
    /\ InitThreads

-----------------------------------------------------------------------------
(* Contexts                                                                *)

ActiveCtx == {c \in Created : active[c]}

(* LSContext::ref() and hold(): fetch_add(1) on the atomic count of c.      *)
Incr(cnt, c) == [cnt EXCEPT ![c] = @ + 1]

(* deref() and unhold(): assert the count is positive, fetch_sub(1).      *)
Decr(cnt, c) == [cnt EXCEPT ![c] = @ - 1]

(* reusable(): inactive, and no session attached any more.                 *)
Reusable(c) == ~active[c] /\ ref[c] = 0

(* run_threads(): num_threads_ threads enter io_context::run().            *)
RunThreads(c, n) ==
    /\ nthreads' = [nthreads EXCEPT ![c] = n]
    /\ threads' = [threads EXCEPT ![c] = n]

(* reuse(threads_cnt): under mtx_, a new work guard, active_ set,           *)
(* num_threads_ = threads_cnt (not checked) and run_threads().             *)
Reuse(c, n) ==
    /\ active' = [active EXCEPT ![c] = TRUE]
    /\ phase' = [phase EXCEPT ![c] = "running"]
    /\ RunThreads(c, n)

(* lscontexts_.emplace_back() makes an LSContext, active with a work guard;*)
(* set_num_threads(n) then throws on a bad count, leaving the context in   *)
(* the vector, active, without a thread and with num_threads_ never        *)
(* written (1 or any other value); otherwise run_threads().                *)
Emplace(c, n) ==
    /\ active' = [active EXCEPT ![c] = TRUE]
    /\ phase' = [phase EXCEPT ![c] = "running"]
    /\ IF ValidThreads(n)
         THEN RunThreads(c, n)
         ELSE /\ \E v \in {1, 2} : nthreads' = [nthreads EXCEPT ![c] = v]
              /\ UNCHANGED threads

(* Fault variant: borrow_strand() compares num_threads_ >= 1.             *)
BorrowStrandAtLeastOne(c) == IF nthreads[c] >= 1 THEN "none" ELSE "current"

(* borrow_strand(), under mtx_: nullptr when num_threads_ == 1, otherwise  *)
(* a strand of the current strand pool.                                    *)
BorrowStrand(c) == IF nthreads[c] = 1 THEN "none" ELSE "current"

(* The strands the sessions of c hold once stop() has replaced c's strand  *)
(* pool: those of the old pool are stale.                                  *)
StrandsAfterRebuild(c) ==
    [s \in Sessions |->
        IF strand[s] = "current" /\ s \in SP!OutItems /\ SessionCtx(s) = c
          THEN "stale" ELSE strand[s]]

(* Fault variant: the fresh strand pool is made before wait().             *)
StopUntilWaitRebuilding(c) ==
    /\ active' = [active EXCEPT ![c] = FALSE]
    /\ strand' = StrandsAfterRebuild(c)
    /\ UNCHANGED <<nthreads, threads>>

(* stop() up to wait(): active_ cleared, work guard dropped.               *)
StopUntilWait(c) ==
    /\ active' = [active EXCEPT ![c] = FALSE]
    /\ UNCHANGED thrVars

(* get_context_round_robin(): from next_context_, the first active context *)
(* in vector order, wrapping at the end.                                   *)
RoundRobin ==
    LET k == Min({j \in 0..nctx-1 : active[(cursor + j) % nctx]})
    IN  (cursor + k) % nctx

(* Fault variant: the threads return while sessions are still attached.   *)
HasWorkNoSessions(c) ==
    ~separate /\ c = AcceptorCtx /\ accPc \in AcceptorPending

(* Fault variant: the join also waits for the holds to be released.       *)
HasWorkCountingHolds(c) ==
    \/ ref[c] > 0 \/ hold[c] > 0
    \/ ~separate /\ c = AcceptorCtx /\ accPc \in AcceptorPending

(* What keeps the threads of c inside io_context::run(): the pending reads *)
(* and writes of the sessions attached to it, and, when the acceptor has   *)
(* no thread of its own, the pending accept and its completion handler.    *)
HasWork(c) ==
    \/ ref[c] > 0
    \/ ~separate /\ c = AcceptorCtx /\ accPc \in AcceptorPending

(* wait() joins the threads, which leave run() once the io_context has no *)
(* work (at once when there are none); then io_context_->stop(), and a     *)
(* fresh io_context and StrandPool replace the old ones.                   *)
JoinThreads(c) ==
    /\ threads[c] > 0 => ~HasWork(c)
    /\ threads' = [threads EXCEPT ![c] = 0]
    /\ strand' = StrandsAfterRebuild(c)
    /\ UNCHANGED nthreads

(* The thread that runs the accept completion handler exists.              *)
AcceptorRuns ==
    IF separate THEN ~accStopped ELSE threads[AcceptorCtx] > 0

(* Fault variant: next_context_ is not wrapped to begin() at the end.    *)
NextCursorNoWrap(c) == c + 1

(* get_context_round_robin() advances next_context_ past the chosen one,   *)
(* back to begin() at end().                                               *)
NextCursor(c) == (c + 1) % nctx

(* Fault variant: stop(false) does not look at hold_cnt_.                  *)
RemovableIgnoringHold(c) == TRUE

(* LSContext::removable(): 0 unless a hold is taken.                      *)
Removable(c) == hold[c] = 0

(* deactivate_context(): refuse when fewer than two contexts are active.   *)
EnoughActive == Cardinality(ActiveCtx) >= 2

-----------------------------------------------------------------------------
(* The acceptor chain                                                      *)

(* A client connects; the completion handler is queued.                    *)
AcceptConnection ==
    /\ accPc = "accepting" /\ acceptorOpen /\ AcceptorRuns
    /\ conns < MaxConns
    /\ conns' = conns + 1
    /\ accPc' = "handler" /\ accErr' = FALSE
    /\ UNCHANGED <<ctxVars, accCtx, acceptorOpen, accStopped, triggered,
                   ctlVars, poolVars, thrVars>>

(* The accept completes with an error: operation_aborted once acceptor_ is *)
(* closed, or any other accept error while it is open.                     *)
AcceptFails ==
    /\ accPc = "accepting" /\ AcceptorRuns
    /\ accPc' = "handler" /\ accErr' = TRUE
    /\ UNCHANGED <<ctxVars, accCtx, acceptorOpen, accStopped, conns, triggered,
                   ctlVars, poolVars, thrVars>>

(* The completion handler: SCOPED_GUARD_OR_RETURN returns when shutdown is *)
(* triggered (the hold on accCtx stays taken); without an error, borrow a  *)
(* session tagged with the context index, setup() (ref, borrow_strand) and *)
(* session_start() up to its unhold(); with an error or no session,       *)
(* unhold() at once.                                                       *)
Handler ==
    /\ accPc = "handler" /\ AcceptorRuns
    /\ \/ /\ triggered
          /\ accPc' = "done"
          /\ UNCHANGED <<ctxVars, poolVars, strand>>
       \/ /\ ~triggered /\ ~accErr
          /\ SP!Borrow(accCtx)
          /\ ref' = Incr(ref, accCtx)
          /\ strand' = [s \in Sessions |->
                          IF s \in (SP!OutItems)' \ SP!OutItems
                            THEN BorrowStrand(accCtx) ELSE strand[s]]
          /\ accPc' = "unhold"
          /\ UNCHANGED <<separate, nctx, active, hold, phase, cursor, lockOwner>>
       \/ /\ ~triggered /\ (accErr \/ SP!CannotBorrow)
          /\ hold' = Decr(hold, accCtx)
          /\ accPc' = "redispatch"
          /\ UNCHANGED <<separate, nctx, active, ref, phase, cursor, lockOwner, poolVars,
                         strand>>
    /\ UNCHANGED <<accCtx, accErr, acceptorOpen, accStopped, conns, triggered,
                   ctlVars, nthreads, threads>>

(* The end of session_start(): the receive is registered, unhold().        *)
SessionStartUnhold ==
    /\ accPc = "unhold" /\ AcceptorRuns
    /\ hold' = Decr(hold, accCtx)
    /\ accPc' = "redispatch"
    /\ UNCHANGED <<separate, nctx, active, ref, phase, cursor, lockOwner, accCtx, accErr,
                   acceptorOpen, accStopped, conns, triggered, ctlVars, poolVars, thrVars>>

(* this->dispatch() from inside the handler's guard scope: round-robin     *)
(* under the shared lock (hold the chosen context) and async_accept.       *)
Redispatch ==
    /\ accPc = "redispatch" /\ AcceptorRuns
    /\ lockOwner = "none"
    /\ ActiveCtx # {}
    /\ LET c == RoundRobin IN
         /\ hold' = Incr(hold, c)
         /\ cursor' = NextCursor(c)
         /\ accCtx' = c
    /\ accPc' = "accepting"
    /\ UNCHANGED <<separate, nctx, active, ref, phase, lockOwner, accErr, acceptorOpen,
                   accStopped, conns, triggered, ctlVars, poolVars, thrVars>>

-----------------------------------------------------------------------------
(* Sessions                                                                *)

(* Fault variant: finalize() does not deref() its context.                 *)
FinalizeNoDeref(s) ==
    /\ threads[SessionCtx(s)] > 0
    /\ strand' = [strand EXCEPT ![s] = "none"]
    /\ SP!PutBack(s)
    /\ UNCHANGED <<ctxVars, accVars, ctlVars, nthreads, threads>>

(* The connection of s ends (client close, error or kClose) and finalize() *)
(* runs on a thread of its context: put_strand(), deref() and the          *)
(* finalized_ callback put_back().                                         *)
Finalize(s) ==
    /\ threads[SessionCtx(s)] > 0
    /\ strand' = [strand EXCEPT ![s] = "none"]
    /\ ref' = Decr(ref, SessionCtx(s))
    /\ SP!PutBack(s)
    /\ UNCHANGED <<separate, nctx, active, hold, phase, cursor, lockOwner, accVars, ctlVars,
                   nthreads, threads>>

-----------------------------------------------------------------------------
(* Management RPC                                                          *)

(* add_context(): under the unique lock reuse the first reusable context   *)
(* (inactive, no sessions) with n threads, else append one; at capacity it *)
(* throws.                                                                 *)
AddContext(n) ==
    /\ adminPc = "idle" /\ lockOwner = "none"
    /\ LET R == {c \in Created : Reusable(c)} IN
         IF R # {}
           THEN /\ Reuse(Min(R), n)
                /\ UNCHANGED nctx
           ELSE /\ nctx < MaxContexts
                /\ nctx' = nctx + 1
                /\ Emplace(nctx, n)
    /\ UNCHANGED <<separate, hold, ref, cursor, lockOwner, accVars, ctlVars, poolVars,
                   strand>>

(* deactivate_context(c): under the unique lock, refuse a bad index, an    *)
(* inactive context or the last active one (logic_error), then stop(false):*)
(* EBUSY while held, otherwise clear active_, drop the work guard and join.*)
DeactivateContext(c) ==
    /\ adminPc = "idle" /\ lockOwner = "none"
    /\ c \in Created /\ active[c] /\ EnoughActive
    /\ Removable(c)
    /\ StopUntilWait(c)
    /\ phase' = [phase EXCEPT ![c] = "draining"]
    /\ lockOwner' = "admin"
    /\ adminPc' = "draining" /\ adminCtx' = c
    /\ UNCHANGED <<separate, nctx, hold, ref, cursor, accVars, stopPc, stopIdx, poolVars>>

(* The threads of the context have returned: a fresh io_context and strand *)
(* pool are made, stop() returns 0 and the unique lock is released.        *)
DeactivateDone ==
    /\ adminPc = "draining" /\ JoinThreads(adminCtx)
    /\ phase' = [phase EXCEPT ![adminCtx] = "stopped"]
    /\ lockOwner' = "none"
    /\ adminPc' = "idle"
    /\ UNCHANGED <<separate, nctx, active, hold, ref, cursor, accVars, stopPc, stopIdx,
                   adminCtx, poolVars>>

-----------------------------------------------------------------------------
(* Server::stop()                                                          *)

(* shutdown_guard_.trigger() returns once no guard scope is open.          *)
Trigger ==
    /\ stopPc = "running" /\ accPc \notin InGuard
    /\ triggered' = TRUE
    /\ stopPc' = "closing"
    /\ UNCHANGED <<ctxVars, accPc, accCtx, accErr, acceptorOpen, accStopped,
                   conns, stopIdx, adminPc, adminCtx, poolVars, thrVars>>

(* socket_ is reset and acceptor_.close() cancels the pending accept.      *)
CloseAcceptor ==
    /\ stopPc = "closing"
    /\ acceptorOpen' = FALSE
    /\ stopPc' = IF separate THEN "acceptorpool" ELSE "lock"
    /\ UNCHANGED <<ctxVars, accPc, accCtx, accErr, accStopped, conns, triggered,
                   stopIdx, adminPc, adminCtx, poolVars, thrVars>>

(* acceptor_pool_.stop() joins the acceptor thread once its handler ran.   *)
StopAcceptorPool ==
    /\ stopPc = "acceptorpool" /\ accPc = "done"
    /\ accStopped' = TRUE
    /\ stopPc' = "lock"
    /\ UNCHANGED <<ctxVars, accPc, accCtx, accErr, acceptorOpen, conns,
                   triggered, stopIdx, adminPc, adminCtx, poolVars, thrVars>>

(* workers_pool_.stop() takes the unique lock ...                          *)
LockWorkers ==
    /\ stopPc = "lock" /\ lockOwner = "none"
    /\ lockOwner' = "stopper"
    /\ stopPc' = "stopping" /\ stopIdx' = 0
    /\ UNCHANGED <<separate, nctx, active, hold, ref, phase, cursor, accVars, adminPc,
                   adminCtx, poolVars, thrVars>>

(* ... and calls stop(true) on every context in order: active_ is cleared  *)
(* and the work guard dropped whatever the holds, then its threads are     *)
(* joined (a context already stopped has none) ...                         *)
StopContext ==
    /\ stopPc = "stopping" /\ stopIdx < nctx
    /\ StopUntilWait(stopIdx)
    /\ phase' = [phase EXCEPT ![stopIdx] = IF @ = "stopped" THEN @ ELSE "draining"]
    /\ stopPc' = "joining"
    /\ UNCHANGED <<separate, nctx, hold, ref, cursor, lockOwner, accVars, stopIdx, adminPc,
                   adminCtx, poolVars>>

JoinContext ==
    /\ stopPc = "joining" /\ JoinThreads(stopIdx)
    /\ phase' = [phase EXCEPT ![stopIdx] = "stopped"]
    /\ stopIdx' = stopIdx + 1
    /\ stopPc' = "stopping"
    /\ UNCHANGED <<separate, nctx, active, hold, ref, cursor, lockOwner, accVars, adminPc,
                   adminCtx, poolVars>>

(* ... and releases the lock: Server::stop() returns.                      *)
WorkersStopped ==
    /\ stopPc = "stopping" /\ stopIdx = nctx
    /\ lockOwner' = "none"
    /\ stopPc' = "stopped"
    /\ UNCHANGED <<separate, nctx, active, hold, ref, phase, cursor, accVars, stopIdx,
                   adminPc, adminCtx, poolVars, thrVars>>

(* The process has stopped: nothing is left to run.                        *)
Terminated ==
    /\ stopPc = "stopped" /\ accPc = "done" /\ adminPc = "idle"
    /\ UNCHANGED vars

-----------------------------------------------------------------------------
Next ==
    \/ AcceptConnection \/ AcceptFails \/ Handler \/ SessionStartUnhold
    \/ Redispatch
    \/ \E s \in SP!OutItems : Finalize(s)
    \/ \E n \in ThreadCounts : AddContext(n)
    \/ \E c \in Ctx : DeactivateContext(c) \/ DeactivateDone
    \/ Trigger \/ CloseAcceptor \/ StopAcceptorPool \/ LockWorkers
    \/ StopContext \/ JoinContext \/ WorkersStopped
    \/ Terminated

(* The acceptor chain and the threads inside stop() and deactivate run as  *)
(* long as they are enabled.  Connections, client closes, RPCs and the     *)
(* stop signal come from outside and are not fair.                         *)
Fairness ==
    /\ WF_vars(AcceptFails /\ ~acceptorOpen)
    /\ WF_vars(Handler) /\ WF_vars(SessionStartUnhold) /\ WF_vars(Redispatch)
    /\ WF_vars(DeactivateDone)
    /\ WF_vars(CloseAcceptor) /\ WF_vars(StopAcceptorPool) /\ WF_vars(LockWorkers)
    /\ WF_vars(StopContext) /\ WF_vars(JoinContext) /\ WF_vars(WorkersStopped)

Spec == Init /\ [][Next]_vars /\ Fairness

-----------------------------------------------------------------------------
(* Properties                                                              *)

(* Deactivation racing a hold returns EBUSY: while the server runs, the    *)
(* context dispatch() chose for the pending accept, and on which the       *)
(* handler sets up and starts a session, stays active and running, whatever*)
(* deactivate_context() calls the management RPC makes meanwhile.          *)
RegistrationContextLive ==
    ~triggered /\ accPc \in {"accepting", "handler", "unhold"}
        => active[accCtx] /\ phase[accCtx] = "running"

(* ref_cnt_ of every context counts exactly the sessions borrowed for it   *)
(* (the POI the session pool tagged them with) and not yet finalized.      *)
RefCountsSessions ==
    \A c \in Ctx :
        ref[c] = Cardinality({s \in SP!OutItems : SessionCtx(s) = c})

(* No session is attached to a context whose threads have been joined and  *)
(* whose io_context was replaced: its completions would never run.         *)
SessionContextAlive ==
    \A s \in SP!OutItems : phase[SessionCtx(s)] # "stopped"

(* Spec section 5: a session's completions never run concurrently.  When *)
(* its context runs more than one thread, setup() must have taken a strand *)
(* from borrow_strand(), which looks at num_threads_ when the session is   *)
(* set up; reuse() may change num_threads_ later (add_context's thread     *)
(* count), so this also says no context changes its thread count under an  *)
(* attached session.                                                       *)
HandlersSerialised ==
    \A s \in SP!OutItems : threads[SessionCtx(s)] > 1 => strand[s] # "none"

(* finalize() put_strand()s a session's strand into the strand pool its   *)
(* context has then, and stop() replaces that pool by a fresh one: no      *)
(* attached session may still hold a strand of a pool stop() threw away    *)
(* (its put_strand would hand a strand of the destroyed io_context to the  *)
(* new pool).                                                              *)
StrandFromLivePool ==
    \A s \in SP!OutItems : strand[s] # "stale"

(* A session is only set up on a context that has a thread to run its    *)
(* completions: is_active() is what get_context_round_robin() trusts.      *)
SessionsServed ==
    \A s \in SP!OutItems : threads[SessionCtx(s)] > 0

(* Spec property 2: once the server has stopped, every context has         *)
(* ref_count = 0 and hold_count = 0.                                       *)
Quiescent == \A c \in Ctx : ref[c] = 0
StoppedReleased ==
    stopPc = "stopped" /\ Quiescent => \A c \in Ctx : hold[c] = 0

(* A stopped server stays stopped: no worker context becomes active again.*)
StoppedStaysStopped ==
    [][stopPc = "stopped" => ActiveCtx' = {}]_vars

(* deactivate_context(c) returns once no session is attached to c any     *)
(* more (the management RPC and the acceptor, blocked on smtx_, resume).   *)
DeactivateReturns ==
    \A c \in Ctx :
        <>[](ref[c] = 0) =>
            [](adminPc = "draining" /\ adminCtx = c => <>(adminPc = "idle"))

(* The management RPC eventually makes no more calls.                     *)
AdminStep == (\E n \in ThreadCounts : AddContext(n)) \/ \E c \in Ctx : DeactivateContext(c)
AdminQuiet == <>[][~AdminStep]_vars

(* Server::stop() returns once its clients have gone and the management   *)
(* RPC has stopped calling (smtx_ is no fairer than that to the stopper).  *)
StopReturnsWhenQuiescent ==
    (<>[]Quiescent /\ AdminQuiet) => [](stopPc # "running" => <>(stopPc = "stopped"))

(* Server::stop() returns once the management RPC has stopped calling:    *)
(* LSContext::stop(true) "stops the driver, joins threads", so a client    *)
(* that keeps its connection open does not hold it up.                     *)
StopReturns ==
    AdminQuiet => [](stopPc # "running" => <>(stopPc = "stopped"))

=============================================================================
