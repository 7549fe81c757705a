-------------------------------- MODULE LSVM --------------------------------
(***************************************************************************)
(* The shared LSVirtualMachine of src/src/lsvm.hpp under the LOCK and      *)
(* UNLOCK instructions of the programs of concurrent Http sessions.        *)
(*                                                                         *)
(* Every session's instructions run inside its receive handlers, on a      *)
(* thread of the reactor its connection is attached to: a handler takes a  *)
(* free thread, runs one instruction (Program::feed ->                     *)
(* LockOp/UnlockOp::run), and frees the thread when it returns.  A LOCK    *)
(* keeps its thread while it waits.  When the connection ends, finalize()  *)
(* -> Http::on_closed -> Program::reset -> cleanup(identity) releases what *)
(* the program still holds.  The identity is the address of the session's *)
(* Program, one per session.                                               *)
(***************************************************************************)
EXTENDS Naturals, Sequences, FiniteSets

CONSTANTS
    Sessions,   \* program identities (one Program per pooled Http session)
    Resources,  \* resource numbers the programs name
    Threads,    \* threads of the reactor the sessions are attached to
    Scripts,    \* the LOCK/UNLOCK sequences the programs may consist of
    NoId,       \* VMResource::holder_id of a resource never taken (0)
    NoThread

Op == [op : {"LOCK", "UNLOCK"}, res : Resources]

ASSUME Scripts \subseteq Seq(Op)

VARIABLES
    resources,  \* the keys of LSVirtualMachine::resources_
    taken,      \* VMResource::taken
    holder,     \* VMResource::holder_id
    readers,    \* threads inside a std::shared_lock of mtx_
    writer,     \* the thread holding mtx_ exclusively (cleanup), or NoThread
    script,     \* the instructions of each session's program
    ip,         \* index of the session's next instruction
    pc,         \* where the session's current handler is
    thread,     \* the thread running the session's current handler
    believes    \* history: resources the program has locked and not unlocked

vars == <<resources, taken, holder, readers, writer, script, ip, pc, thread,
          believes>>

Labels == {"idle", "index", "wait", "unlock", "cleanup", "closed"}

TypeOK ==
    /\ resources \subseteq Resources
    /\ taken \in [Resources -> BOOLEAN]
    /\ holder \in [Resources -> Sessions \cup {NoId}]
    /\ readers \subseteq Threads
    /\ writer \in Threads \cup {NoThread}
    /\ script \in [Sessions -> Scripts]
    /\ ip \in [Sessions -> Nat]
    /\ pc \in [Sessions -> Labels]
    /\ thread \in [Sessions -> Threads \cup {NoThread}]
    /\ believes \in [Sessions -> SUBSET Resources]

(* A VMResource as resources_[num] default-constructs it: not taken, held *)
(* by no one.                                                               *)
VMResourceInit ==
    /\ taken = [r \in Resources |-> FALSE]
    /\ holder = [r \in Resources |-> NoId]

(* LSVirtualMachine() = default: resources_ empty and mtx_ free.           *)
Init ==
    /\ resources = {}
    /\ VMResourceInit
    /\ readers = {}
    /\ writer = NoThread
    /\ script \in [Sessions -> Scripts]
    /\ ip = [s \in Sessions |-> 1]
    /\ pc = [s \in Sessions |-> "idle"]
    /\ thread = [s \in Sessions |-> NoThread]
    /\ believes = [s \in Sessions |-> {}]

Busy == {thread[s] : s \in Sessions} \ {NoThread}
Instr(s) == script[s][ip[s]]
Target(s) == Instr(s).res

-----------------------------------------------------------------------------
(* A receive handler of session s runs on a free thread t and feeds the    *)
(* program up to its next instruction, a LOCK or an UNLOCK: both start     *)
(* with the lookup of resources_[num] under a std::shared_lock of mtx_.    *)
Dispatch(s, t) ==
    /\ pc[s] = "idle" /\ ip[s] <= Len(script[s])
    /\ t \notin Busy
    /\ writer = NoThread
    /\ readers' = readers \cup {t}
    /\ thread' = [thread EXCEPT ![s] = t]
    /\ pc' = [pc EXCEPT ![s] = "index"]
    /\ UNCHANGED <<resources, taken, holder, writer, script, ip, believes>>

(* resources_[num] with the shared lock held: operator[] inserts a         *)
(* default VMResource when the number is new; then the lock is released.   *)
Index(s) ==
    /\ pc[s] = "index"
    /\ resources' = resources \cup {Target(s)}
    /\ readers' = readers \ {thread[s]}
    /\ pc' = [pc EXCEPT ![s] = IF Instr(s).op = "LOCK" THEN "wait" ELSE "unlock"]
    /\ UNCHANGED <<taken, holder, writer, script, ip, thread, believes>>

(* The handler returns: the thread is free and the session waits for more *)
(* of its request.                                                         *)
Return(s) ==
    /\ ip' = [ip EXCEPT ![s] = @ + 1]
    /\ pc' = [pc EXCEPT ![s] = "idle"]
    /\ thread' = [thread EXCEPT ![s] = NoThread]

(* Fault variant: the resource is taken whether or not it is free.        *)
AcquireIgnoringTaken(s) ==
    /\ pc[s] = "wait"
    /\ taken' = [taken EXCEPT ![Target(s)] = TRUE]
    /\ holder' = [holder EXCEPT ![Target(s)] = s]
    /\ believes' = [believes EXCEPT ![s] = @ \cup {Target(s)}]
    /\ Return(s)
    /\ UNCHANGED <<resources, readers, writer, script>>

(* lock(): res_cv.wait_for(res_lk, 100ms, !taken) returns true: take the  *)
(* resource for this identity and leave the loop.                          *)
Acquire(s) ==
    /\ pc[s] = "wait"
    /\ ~taken[Target(s)]
    /\ taken' = [taken EXCEPT ![Target(s)] = TRUE]
    /\ holder' = [holder EXCEPT ![Target(s)] = s]
    /\ believes' = [believes EXCEPT ![s] = @ \cup {Target(s)}]
    /\ Return(s)
    /\ UNCHANGED <<resources, readers, writer, script>>

(* wait_for times out after 100ms with the resource still taken; the loop *)
(* goes round again (cancellation_request is never set), on the same       *)
(* thread.                                                                 *)
WaitTimeout(s) ==
    /\ pc[s] = "wait"
    /\ taken[Target(s)]
    /\ UNCHANGED vars

(* unlock(): with res_mtx held, clear taken and notify one waiter; the     *)
(* identity argument is not compared with holder_id.                       *)
Unlock(s) ==
    /\ pc[s] = "unlock"
    /\ taken' = [taken EXCEPT ![Target(s)] = FALSE]
    /\ believes' = [believes EXCEPT ![s] = @ \ {Target(s)}]
    /\ Return(s)
    /\ UNCHANGED <<resources, holder, readers, writer, script>>

(* The connection ends (the client is done or goes away) while no handler *)
(* of the session runs: finalize() runs on a free thread and               *)
(* Http::on_closed -> Program::reset calls cleanup(identity), which first  *)
(* takes mtx_ exclusively.                                                 *)
Close(s, t) ==
    /\ pc[s] = "idle"
    /\ t \notin Busy
    /\ readers = {} /\ writer = NoThread
    /\ writer' = t
    /\ thread' = [thread EXCEPT ![s] = t]
    /\ pc' = [pc EXCEPT ![s] = "cleanup"]
    /\ UNCHANGED <<resources, taken, holder, readers, script, ip, believes>>

(* Fault variant: cleanup() clears taken without comparing holder_id.     *)
CleanupIgnoringHolder(s) ==
    /\ pc[s] = "cleanup"
    /\ taken' = [r \in Resources |-> IF r \in resources THEN FALSE ELSE taken[r]]
    /\ writer' = NoThread
    /\ thread' = [thread EXCEPT ![s] = NoThread]
    /\ pc' = [pc EXCEPT ![s] = "closed"]
    /\ believes' = [believes EXCEPT ![s] = {}]
    /\ UNCHANGED <<resources, holder, readers, script, ip>>

(* cleanup(): for every resource in resources_, under its res_mtx, clear  *)
(* taken when holder_id is this identity; then mtx_ is released and the    *)
(* program is reset.                                                       *)
Cleanup(s) ==
    /\ pc[s] = "cleanup"
    /\ taken' = [r \in Resources |->
                    IF r \in resources /\ holder[r] = s THEN FALSE ELSE taken[r]]
    /\ writer' = NoThread
    /\ thread' = [thread EXCEPT ![s] = NoThread]
    /\ pc' = [pc EXCEPT ![s] = "closed"]
    /\ believes' = [believes EXCEPT ![s] = {}]
    /\ UNCHANGED <<resources, holder, readers, script, ip>>

(* Every connection has ended.                                             *)
Terminated ==
    /\ \A s \in Sessions : pc[s] = "closed"
    /\ UNCHANGED vars

Next ==
    \/ \E s \in Sessions, t \in Threads : Dispatch(s, t) \/ Close(s, t)
    \/ \E s \in Sessions :
         Index(s) \/ Acquire(s) \/ WaitTimeout(s) \/ Unlock(s) \/ Cleanup(s)
    \/ Terminated

(* Threads that run a handler keep running it.  The clients are assumed   *)
(* to send their whole requests and then to close: a session whose next   *)
(* instruction is due is dispatched as soon as a thread is free, and a     *)
(* session whose program has run ends.                                     *)
Fairness ==
    \A s \in Sessions :
        /\ WF_vars(Index(s)) /\ WF_vars(Acquire(s)) /\ WF_vars(Unlock(s))
        /\ WF_vars(Cleanup(s))
        /\ WF_vars(\E t \in Threads : Dispatch(s, t))
        /\ WF_vars(ip[s] > Len(script[s]) /\ \E t \in Threads : Close(s, t))

Spec == Init /\ [][Next]_vars /\ Fairness

-----------------------------------------------------------------------------
(* Properties                                                              *)

(* Spec property 7: at every instant, at most one program identity has    *)
(* locked a resource and not yet unlocked it or been reset, whatever the   *)
(* interleaving of lock(), unlock() and cleanup() on the reactor threads.  *)
MutualExclusion ==
    \A r \in Resources, s1, s2 \in Sessions :
        r \in believes[s1] /\ r \in believes[s2] => s1 = s2

(* operator[] inserts into resources_ only while no other thread is inside *)
(* the map: an insertion under the shared lock beside another reader is a  *)
(* data race on the std::unordered_map.                                    *)
NoRacyInsert ==
    \A s \in Sessions :
        pc[s] = "index" /\ Target(s) \notin resources => readers = {thread[s]}

(* The VM implements LockService (spec 2, 4.7, 4.9): a resource's owner  *)
(* is its holder_id while it is taken, and what an identity holds is what *)
(* its program has locked and not unlocked.  Every step of lock(),         *)
(* unlock() and cleanup() is a step of the abstract lock or leaves both    *)
(* as they are: no LOCK takes a resource someone holds, no UNLOCK or       *)
(* cleanup() releases what another identity holds, and the VM's record of *)
(* the holders never drifts from what the programs did.                    *)
Owner == [r \in Resources |-> IF taken[r] THEN holder[r] ELSE NoId]
LS == INSTANCE LockService
        WITH owner <- Owner, held <- believes,
             ended <- {s \in Sessions : pc[s] = "closed"}
ImplementsLockService == LS!Spec

(* Every LOCK returns: a program waiting for a resource gets it, provided *)
(* the clients finish their requests.                                      *)
LockReturns ==
    \A s \in Sessions : [](pc[s] = "wait" => <>(pc[s] # "wait"))
=============================================================================
