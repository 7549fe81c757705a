-------------------------------- MODULE Pool --------------------------------
(***************************************************************************)
(* Pool<T, D, GArgs...> of src/src/pool.hpp, the base of SessionPool,      *)
(* BasicPool (instruction pools) and QueueBufferPool.                      *)
(*                                                                         *)
(* An item (a T pointer) is a model value of Items.  pool_ is the LIFO stack of   *)
(* free items, all_items_ maps every created item to its POI tag,          *)
(* in_flight and total are the PoolStats counters.  Every public operation *)
(* runs under mtx_ and is one action; recover() copies all_items_ under    *)
(* mtx_ and then calls finalize() on the copy without it, so it is a       *)
(* thread of its own (Recoverer).  A finalize()d item puts itself back,    *)
(* as a Session does through its finalized_ callback.                      *)
(*                                                                         *)
(* holder and waiter_id are history variables: who really has each item    *)
(* and which POI the pending asynchronous borrower asked for.              *)
(***************************************************************************)
EXTENDS Naturals, Sequences, FiniteSets, Functions, TLC

CONSTANTS
    Items,        \* the T* the pool can ever create (bounds creation)
    Ids,          \* POI tags borrowers pass to borrow()
    MaxSize,      \* max_size_ (0: unbounded)
    Eager,        \* the eager constructor argument
    POI_INVALID,  \* tag of a free item
    Free          \* holder of an item that nobody has

ASSUME MaxSize \in Nat /\ Eager \in BOOLEAN /\ ~(Eager /\ MaxSize = 0)
ASSUME MaxSize <= Cardinality(Items)

VARIABLES
    pool_,            \* std::stack<T*> of free items (top = last element)
    all_items_,       \* std::unordered_map<T*, POI>
    in_flight,        \* stats_.num_items_in_flight_
    total,            \* stats_.num_items_total_
    callback_active_, \* a borrower waits for the next returned item
    holder,           \* history: Ids \cup {Free} per created item
    waiter_id,        \* history: POI of the pending asynchronous borrower
    snapshot          \* Recoverer: items of its all_items() copy not yet finalized

vars == <<pool_, all_items_, in_flight, total, callback_active_, holder,
          waiter_id, snapshot>>

Created == DOMAIN all_items_
OutItems == {i \in Created : holder[i] # Free}

TypeOK ==
    /\ pool_ \in Seq(Items)
    /\ Created \subseteq Items
    /\ all_items_ \in [Created -> Ids \cup {POI_INVALID}]
    /\ in_flight \in Nat
    /\ total \in Nat
    /\ callback_active_ \in BOOLEAN
    /\ holder \in [Created -> Ids \cup {Free}]
    /\ waiter_id \in Ids \cup {POI_INVALID}
    /\ snapshot \in SUBSET Items

(* The constructor: eagerly add() MaxSize items, or start empty.  add()    *)
(* counts an item in num_items_total_, then subscribe() counts it again.   *)
Init ==
    \/ /\ Eager
       /\ \E s \in [1..MaxSize -> Items] :
            /\ Cardinality(Range(s)) = MaxSize
            /\ pool_ = s
            /\ all_items_ = [i \in Range(s) |-> POI_INVALID]
            /\ holder = [i \in Range(s) |-> Free]
       /\ in_flight = 0
       /\ total = 2 * MaxSize
       /\ callback_active_ = FALSE /\ waiter_id = POI_INVALID /\ snapshot = {}
    \/ /\ ~Eager
       /\ pool_ = <<>> /\ all_items_ = <<>> /\ holder = <<>>
       /\ in_flight = 0 /\ total = 0
       /\ callback_active_ = FALSE /\ waiter_id = POI_INVALID /\ snapshot = {}

-----------------------------------------------------------------------------
(* Helpers                                                                 *)

Top == pool_[Len(pool_)]
Pop == SubSeq(pool_, 1, Len(pool_) - 1)

(* Fault variant: the limit test is in_flight <= max_size_.               *)
CanCreateOffByOne == MaxSize = 0 \/ in_flight <= MaxSize

(* try_borrow(): the limit test on the path that creates a new item.      *)
CanCreate == MaxSize = 0 \/ in_flight < MaxSize

(* subscribe(p) of a newly created item: num_items_in_flight_ and         *)
(* num_items_total_ are incremented (the entry in all_items_ is then       *)
(* overwritten with the borrower's id by try_borrow).                      *)
Subscribe ==
    /\ in_flight' = in_flight + 1
    /\ total' = total + 1

(* Fault variant: a new item is created even while pool_ holds free ones. *)
TryBorrowAlwaysCreate(id) ==
    \/ /\ pool_ # <<>>
       /\ pool_' = Pop
       /\ in_flight' = in_flight + 1
       /\ all_items_' = [all_items_ EXCEPT ![Top] = id]
       /\ holder' = [holder EXCEPT ![Top] = id]
       /\ UNCHANGED total
    \/ /\ CanCreate
       /\ \E i \in Items \ Created :
            /\ all_items_' = all_items_ @@ (i :> id)
            /\ holder' = holder @@ (i :> id)
       /\ Subscribe
       /\ UNCHANGED pool_

(* try_borrow() succeeds: pop the top of pool_, or, with pool_ empty and   *)
(* room left, create() and subscribe() a new item; tag it with id.         *)
TryBorrow(id) ==
    \/ /\ pool_ # <<>>
       /\ pool_' = Pop
       /\ in_flight' = in_flight + 1
       /\ all_items_' = [all_items_ EXCEPT ![Top] = id]
       /\ holder' = [holder EXCEPT ![Top] = id]
       /\ UNCHANGED total
    \/ /\ pool_ = <<>>
       /\ CanCreate
       /\ \E i \in Items \ Created :
            /\ all_items_' = all_items_ @@ (i :> id)
            /\ holder' = holder @@ (i :> id)
       /\ Subscribe
       /\ UNCHANGED pool_

CannotBorrow == pool_ = <<>> /\ ~CanCreate

(* Fault variant: insert() pushes the item even when it was handed to the *)
(* waiting borrower (the return after callback_(p) is missing).           *)
InsertNoReturn(i) ==
    IF callback_active_
      THEN /\ callback_active_' = FALSE
           /\ holder' = [holder EXCEPT ![i] = waiter_id]
           /\ waiter_id' = POI_INVALID
           /\ pool_' = Append(pool_, i)
           /\ UNCHANGED <<all_items_, in_flight>>
      ELSE /\ pool_' = Append(pool_, i)
           /\ all_items_' = [all_items_ EXCEPT ![i] = POI_INVALID]
           /\ in_flight' = in_flight - 1
           /\ holder' = [holder EXCEPT ![i] = Free]
           /\ UNCHANGED <<callback_active_, waiter_id>>

(* Fault variant: in_flight is decremented before the waiter test.        *)
InsertCountingHandOff(i) ==
    IF callback_active_
      THEN /\ callback_active_' = FALSE
           /\ holder' = [holder EXCEPT ![i] = waiter_id]
           /\ waiter_id' = POI_INVALID
           /\ in_flight' = in_flight - 1
           /\ UNCHANGED <<pool_, all_items_>>
      ELSE /\ pool_' = Append(pool_, i)
           /\ all_items_' = [all_items_ EXCEPT ![i] = POI_INVALID]
           /\ in_flight' = in_flight - 1
           /\ holder' = [holder EXCEPT ![i] = Free]
           /\ UNCHANGED <<callback_active_, waiter_id>>

(* insert(): hand the item to the waiting borrower (it stays in flight and *)
(* keeps its tag), or push it, tag it POI_INVALID and count it back.       *)
Insert(i) ==
    IF callback_active_
      THEN /\ callback_active_' = FALSE
           /\ holder' = [holder EXCEPT ![i] = waiter_id]
           /\ waiter_id' = POI_INVALID
           /\ UNCHANGED <<pool_, all_items_, in_flight>>
      ELSE /\ pool_' = Append(pool_, i)
           /\ all_items_' = [all_items_ EXCEPT ![i] = POI_INVALID]
           /\ in_flight' = in_flight - 1
           /\ holder' = [holder EXCEPT ![i] = Free]
           /\ UNCHANGED <<callback_active_, waiter_id>>

-----------------------------------------------------------------------------
(* Operations                                                              *)

(* borrow(id): try_borrow under mtx_.  A nullptr result changes nothing.   *)
Borrow(id) ==
    /\ TryBorrow(id)
    /\ UNCHANGED <<callback_active_, waiter_id, snapshot>>

(* borrow(callback, id): on success callback(p) runs at once; otherwise    *)
(* the callback is installed (a second one throws std::logic_error, which  *)
(* changes nothing).  The id is not kept.                                  *)
BorrowAsync(id) ==
    \/ Borrow(id)
    \/ /\ CannotBorrow
       /\ ~callback_active_
       /\ callback_active_' = TRUE
       /\ waiter_id' = id
       /\ UNCHANGED <<pool_, all_items_, in_flight, total, holder, snapshot>>

(* Fault variant: a second put_back(p) of an item already returned.     *)
PutBackUnchecked(i) ==
    /\ Insert(i)
    /\ UNCHANGED <<total, snapshot>>

(* put_back(p) by the borrower that has p (assert num_items_in_flight_>0 *)
(* only checks the counter).                                               *)
PutBack(i) ==
    /\ holder[i] # Free
    /\ Insert(i)
    /\ UNCHANGED <<total, snapshot>>

(* recover(id), first half: all_items() copies all_items_ under mtx_.      *)
RecoverSnapshot(id) ==
    /\ snapshot = {}
    /\ snapshot' = {i \in Created : all_items_[i] = id}
    /\ snapshot' # {}
    /\ UNCHANGED <<pool_, all_items_, in_flight, total, callback_active_,
                   holder, waiter_id>>

(* recover(id), second half: for each item of the copy, in the map's order,*)
(* kv.first->finalize(), which put_back()s the item.                      *)
RecoverFinalize ==
    \E i \in snapshot :
        /\ Insert(i)
        /\ snapshot' = snapshot \ {i}
        /\ UNCHANGED total

-----------------------------------------------------------------------------
(* The server's use of a pool: borrow, asynchronous borrow and put_back.  *)
ClientNext ==
    \/ \E id \in Ids : Borrow(id) \/ BorrowAsync(id)
    \/ \E i \in Created : PutBack(i)

ClientSpec == Init /\ [][ClientNext]_vars

(* With recover() racing the borrowers.                                    *)
Next ==
    \/ ClientNext
    \/ \E id \in Ids : RecoverSnapshot(id)
    \/ RecoverFinalize

Spec == Init /\ [][Next]_vars

-----------------------------------------------------------------------------
(* Properties                                                              *)

(* Every created item is in exactly one place: once on the free stack, or  *)
(* with exactly one borrower.  Hand-off to a waiting borrower, LIFO reuse  *)
(* and put_back must never leave an item both free and borrowed, or twice *)
(* on the stack (two sessions sharing one Session object).                 *)
ItemsPartitioned ==
    /\ \A i \in Created : (holder[i] = Free) <=> (i \in Range(pool_))
    /\ \A k, m \in DOMAIN pool_ : pool_[k] = pool_[m] => k = m
    /\ Range(pool_) \subseteq Created

(* num_items_in_flight_ equals the number of created items that are not   *)
(* on the stack (borrows minus returns), whatever the order of borrow,     *)
(* hand-off to a waiter and put_back.                                      *)
InFlightAccounting ==
    in_flight = Cardinality(Created) - Len(pool_)

(* A bounded pool never has more than max_size_ items.                    *)
CapacityBound ==
    MaxSize > 0 => Cardinality(Created) <= MaxSize

(* The pool's documented invariant: num_items_total_, the count get_stats()*)
(* reports, never exceeds max_size_ in a bounded pool, however it was     *)
(* constructed.                                                            *)
TotalWithinMax ==
    MaxSize > 0 => total <= MaxSize

(* Every borrowed item carries the POI of the borrower that has it, so     *)
(* recover(id) finalizes exactly the items of id.                          *)
TagsMatchHolders ==
    \A i \in OutItems : all_items_[i] = holder[i]

(* The pool implements PoolSpec: free items are the stack, a borrower gets *)
(* a free item before a new one is created, and returns go to a waiter     *)
(* first.                                                                  *)
Abstract == INSTANCE PoolSpec WITH
    status <- [i \in Items |->
                 IF i \notin Created THEN "absent"
                 ELSE IF holder[i] = Free THEN "free" ELSE "out"],
    waiting <- callback_active_

Refinement == Abstract!Spec

=============================================================================
