---------------------------- MODULE TriggerGuard ----------------------------
(***************************************************************************)
(* TriggerGuard of src/src/syncronization_utils.hpp, the one-shot barrier   *)
(* Server<P>::stop() uses so that shutdown never overlaps the registration  *)
(* of an async accept or the start of a session.                            *)
(*                                                                         *)
(* Threads of Scopes run SCOPED_GUARD_OR_RETURN (Server::dispatch and the   *)
(* accept completion handler): acquire_scoped_guard() under mtx_, the       *)
(* guarded body, and the ScopedGuard destructor.  The Stopper thread runs   *)
(* trigger(): it locks mtx_, waits on cv_ until ref_cnt_ = 0 and sets       *)
(* triggered_.  std::condition_variable::wait(lk, pred) is the loop         *)
(* "while (!pred()) wait(lk)": the predicate is tested with mtx_ held and   *)
(* wait(lk) then releases mtx_ and blocks.  release_scoped_guard() does not *)
(* take mtx_, so its notify_all() can fall between the two.                 *)
(***************************************************************************)
EXTENDS Naturals, FiniteSets

CONSTANTS
    Scopes,     \* threads that run a SCOPED_GUARD_OR_RETURN scope
    Stopper,    \* the thread that runs Server::stop() -> trigger()
    NoOwner     \* mtx_ is not held

ASSUME Stopper \notin Scopes /\ NoOwner \notin Scopes \cup {Stopper}

VARIABLES
    triggered,  \* TriggerGuard::triggered_
    ref_cnt,    \* TriggerGuard::ref_cnt_
    mtx,        \* owner of TriggerGuard::mtx_
    waiting,    \* the Stopper is blocked in cv_ (it is in the wait set)
    held,       \* held[s]: ScopedGuard::triggered_ was false, s owns a ref
    pc          \* program counter of every thread

vars == <<triggered, ref_cnt, mtx, waiting, held, pc>>

ScopeLabels   == {"idle", "acquired", "inscope", "leaving"}
StopperLabels == {"running", "testing", "blocking", "waiting", "relock", "done"}

TypeOK ==
    /\ triggered \in BOOLEAN
    /\ ref_cnt \in 0..Cardinality(Scopes)
    /\ mtx \in Scopes \cup {Stopper, NoOwner}
    /\ waiting \in BOOLEAN
    /\ held \in [Scopes -> BOOLEAN]
    /\ pc \in [Scopes \cup {Stopper} -> ScopeLabels \cup StopperLabels]

Init ==
    /\ triggered = FALSE
    /\ ref_cnt = 0
    /\ mtx = NoOwner
    /\ waiting = FALSE
    /\ held = [s \in Scopes |-> FALSE]
    /\ pc = [t \in Scopes \cup {Stopper} |->
                IF t = Stopper THEN "running" ELSE "idle"]

-----------------------------------------------------------------------------
(* Scope threads                                                           *)

(* acquire_scoped_guard(): with mtx_ held, take a ref unless triggered_,  *)
(* and build the ScopedGuard with the value of triggered_.                 *)
Acquire(s) ==
    /\ pc[s] = "idle"
    /\ mtx = NoOwner
    /\ ref_cnt' = IF triggered THEN ref_cnt ELSE ref_cnt + 1
    /\ held' = [held EXCEPT ![s] = ~triggered]
    /\ pc' = [pc EXCEPT ![s] = "acquired"]
    /\ UNCHANGED <<triggered, mtx, waiting>>

(* SCOPED_GUARD_OR_RETURN tests the guard after mtx_ is released:          *)
(* ScopedGuard::operator bool reads triggered_ again; when it is set the   *)
(* scope returns at once, otherwise the guarded body runs.                 *)
TestGuard(s) ==
    /\ pc[s] = "acquired"
    /\ pc' = [pc EXCEPT ![s] = IF triggered THEN "leaving" ELSE "inscope"]
    /\ UNCHANGED <<triggered, ref_cnt, mtx, waiting, held>>

(* Fault variant: the destructor releases whether or not it owns a ref.   *)
ReleaseIgnoringHeld(s) ==
    /\ pc[s] \in {"inscope", "leaving"}
    /\ ref_cnt' = ref_cnt - 1
    /\ waiting' = FALSE
    /\ pc' = [pc EXCEPT ![s] = "idle",
                        ![Stopper] = IF waiting THEN "relock" ELSE @]
    /\ held' = [held EXCEPT ![s] = FALSE]
    /\ UNCHANGED <<triggered, mtx>>

(* release_scoped_guard(): decrement ref_cnt_ and notify_all() cv_,       *)
(* without taking mtx_; a thread in the wait set wakes and must relock.    *)
ReleaseScopedGuard(s) ==
    /\ ref_cnt' = ref_cnt - 1
    /\ waiting' = FALSE
    /\ pc' = [pc EXCEPT ![s] = "idle",
                        ![Stopper] = IF waiting THEN "relock" ELSE @]

(* ~ScopedGuard(): release_scoped_guard() when the guard owns a ref.       *)
Release(s) ==
    /\ pc[s] \in {"inscope", "leaving"}
    /\ IF held[s]
         THEN ReleaseScopedGuard(s)
         ELSE /\ pc' = [pc EXCEPT ![s] = "idle"]
              /\ UNCHANGED <<ref_cnt, waiting>>
    /\ held' = [held EXCEPT ![s] = FALSE]
    /\ UNCHANGED <<triggered, mtx>>

-----------------------------------------------------------------------------
(* The Stopper: TriggerGuard::trigger()                                   *)

(* Server::stop() calls trigger() (once: the signal handler calls          *)
(* ServerManager::stop() once, so the InactiveTriggerGuardInvoked branch   *)
(* is never taken).  std::unique_lock lk{mtx_}.                           *)
StartTrigger ==
    /\ pc[Stopper] = "running"
    /\ mtx = NoOwner
    /\ mtx' = Stopper
    /\ pc' = [pc EXCEPT ![Stopper] = "testing"]
    /\ UNCHANGED <<triggered, ref_cnt, waiting, held>>

(* Fault variant: trigger() sets triggered_ without waiting on cv_.       *)
TestPredicateNoWait ==
    /\ pc[Stopper] = "testing"
    /\ triggered' = TRUE
    /\ mtx' = NoOwner
    /\ pc' = [pc EXCEPT ![Stopper] = "done"]
    /\ UNCHANGED <<ref_cnt, waiting, held>>

(* The predicate of cv_.wait with mtx_ held: when ref_cnt_ = 0 set         *)
(* triggered_ and return (the unique_lock is released), otherwise go on to *)
(* wait(lk).                                                               *)
TestPredicate ==
    /\ pc[Stopper] = "testing"
    /\ IF ref_cnt = 0
         THEN /\ triggered' = TRUE
              /\ mtx' = NoOwner
              /\ pc' = [pc EXCEPT ![Stopper] = "done"]
         ELSE /\ pc' = [pc EXCEPT ![Stopper] = "blocking"]
              /\ UNCHANGED <<triggered, mtx>>
    /\ UNCHANGED <<ref_cnt, waiting, held>>

(* wait(lk): atomically release mtx_ and join the wait set of cv_.        *)
Block ==
    /\ pc[Stopper] = "blocking"
    /\ mtx' = NoOwner
    /\ waiting' = TRUE
    /\ pc' = [pc EXCEPT ![Stopper] = "waiting"]
    /\ UNCHANGED <<triggered, ref_cnt, held>>

(* std::condition_variable may wake a waiter spuriously; nothing forces it.*)
SpuriousWakeup ==
    /\ pc[Stopper] = "waiting"
    /\ waiting' = FALSE
    /\ pc' = [pc EXCEPT ![Stopper] = "relock"]
    /\ UNCHANGED <<triggered, ref_cnt, mtx, held>>

(* A woken waiter reacquires mtx_ before it tests the predicate again.    *)
Relock ==
    /\ pc[Stopper] = "relock"
    /\ mtx = NoOwner
    /\ mtx' = Stopper
    /\ pc' = [pc EXCEPT ![Stopper] = "testing"]
    /\ UNCHANGED <<triggered, ref_cnt, waiting, held>>

-----------------------------------------------------------------------------
Next ==
    \/ \E s \in Scopes : Acquire(s) \/ TestGuard(s) \/ Release(s)
    \/ StartTrigger \/ TestPredicate \/ Block \/ SpuriousWakeup \/ Relock

(* A guarded scope always runs to its end, and a thread that is inside     *)
(* trigger() keeps running.  Acquire is not fair: a scope is opened only   *)
(* when the acceptor dispatches or a connection arrives, which nothing     *)
(* guarantees; StartTrigger waits for a signal; spurious wakeups are never *)
(* promised by std::condition_variable.                                   *)
Fairness ==
    /\ \A s \in Scopes : WF_vars(TestGuard(s)) /\ WF_vars(Release(s))
    /\ WF_vars(TestPredicate) /\ WF_vars(Block) /\ WF_vars(Relock)

Spec == Init /\ [][Next]_vars /\ Fairness

-----------------------------------------------------------------------------
(* Properties                                                              *)

(* Shutdown never overlaps a guarded scope: once trigger() has set        *)
(* triggered_, no thread is inside the body of a SCOPED_GUARD_OR_RETURN    *)
(* (no accept is being registered and no session is being started).       *)
GuardExclusion ==
    triggered => \A s \in Scopes : pc[s] # "inscope"

(* No guarded scope is open or about to be left.                          *)
Quiet == \A s \in Scopes : pc[s] = "idle"

(* A call of trigger() that has begun returns once the guarded scopes have *)
(* stopped opening (no more dispatches or connections): Server::stop()     *)
(* then goes on to close the acceptor and stop the workers.  Steady load   *)
(* may delay trigger() forever, which this property does not count.       *)
TriggerReturns ==
    <>[]Quiet => [](pc[Stopper] # "running" => <>(pc[Stopper] = "done"))

=============================================================================
