# TLA+ models of LServer

LServer is a multi-reactor HTTP server written in C++. It uses Asio
`io_context`s with worker threads, an object pool of sessions, an
asynchronous receive/send/close state machine per connection, a small
scripting language ("programs") in request bodies, and a shared VM with
named locks. Contexts can be added and drained at run time through an RPC
interface.

This directory holds TLA+ models of its concurrency core, the TLC
configurations that check them, and `PROJECT.json`. `PROJECT.json` maps
every definition to the source lines it models. It also lists every run,
mutant, finding and hazard.

## 1. Inventory of the system

| Part | Source | State | Operations | Interacts with |
|---|---|---|---|---|
| TriggerGuard | `src/src/syncronization_utils.hpp` | `triggered_`, `ref_cnt_`, `mtx_`, `cv_` | `acquire_scoped_guard`, `~ScopedGuard`/`release_scoped_guard`, `trigger` | Server (dispatch, accept handler, stop) |
| ResetableOnceFlag | same | `invoked_`, `mtx_` | `reset`, `run_once` | Session (`close_once`) |
| Pool<T,D,...> | `src/src/pool.hpp` | `pool_` (LIFO stack), `all_items_` (item → POI tag), `callback_`/`callback_active_`, in-flight and total counters | constructor (eager/lazy), `borrow(id)`, `borrow(callback,id)`, `put_back`/`insert`, `recover(id)` | SessionPool, StrandPool, instruction pools, QueueBufferPool |
| SessionPool | `src/src/session_pool.hpp` | (Pool) | `create` installs a finalized callback that calls `put_back` | Server, Session |
| LSContext | `src/src/lscontext.hpp` | `io_context_`, `work_guard_`, threads, strand pool, `active_`, `ref_cnt_`, `hold_cnt_` | `run_threads`, `stop(force)`, `wait`, `reuse`, `ref/deref`, `hold/unhold`, `borrow_strand/put_strand` | LSContextPool, Session |
| LSContextPool | `src/src/io_context_pool.{hpp,cpp}` | `lscontexts_` (reserved vector), `next_context_`, `smtx_` | `get_context_round_robin` (shared lock), `add_context`, `deactivate_context`, `stop` (unique lock) | Server, RPC |
| Server<P> | `src/src/server.hpp` | `socket_`, `acceptor_`, `shutdown_guard_`, pools | constructor, `dispatch` (+ accept completion handler), `stop`, `add_context`, `deactivate_context` | everything above |
| Session<P> | `src/src/session.hpp` | socket, context, strand, input buffer, outgoing queue, expected/received/sent counts, `close_once_flag_`, `prepare_for_shutdown_` | `setup`, `session_start`, `receive`, `send`, `receive_event_cb`, `send_event_cb`, `close_once`, `async_close`, `finalize` | Http, LSContext, SessionPool |
| Http | `src/src/http.hpp` | request header, program, response buffers | `on_data`, `on_sent`, `respond`, `reset`, `on_closed` | Session, Program |
| Program | `src/src/program.hpp` | heap of instructions by exec point, `bytes_processed_cnt_`, result, cancellation | `try_parse`, `feed`, `reset` | Http, LSVirtualMachine |
| LSVirtualMachine | `src/src/lsvm.hpp` | `resources_` (number → mutex, cv, holder), `smtx_` | `lock`, `unlock`, `cleanup` | Program instructions |
| Outgoing queue and buffer pool | `src/src/dynamic_queue.hpp`, `queue_buffer_pool.hpp` | FIFO of buffers | push/front/pop/clear/empty | Session |
| DynamicString | `src/src/dynamic_string.hpp` | allocation, capacity, end | `clear`, `resize`, `printf` (retry loop), `fill` | Http (response header, data) |
| Session statistics | `src/src/stats.hpp`, `session_pool.hpp` | per-session atomic deltas, the pool's one `SessionStats` | `transaction_started`, `SessionPool::get_stats` | Portal and ControlServer threads |
| Management | `manager.*`, `portal.cpp`, `control_server.*`, `signal_manager.hpp`, `main.cpp` | server map | create/stop servers, RPC add/deactivate/stats | Server |
| Config, logging | `config.*`, `common.hpp`, `utils.hpp`, `timing.hpp` | — | parsing, formatting | — |

How the parts interact:
- The acceptor chain runs `dispatch`. It picks a context round-robin and takes
  a hold on it. It registers `async_accept`.
- On completion, the handler borrows a session tagged with the context index
  and calls `setup` (which takes a ref) and `session_start`.
  `session_start` registers the first read and then releases the hold.
  The handler then dispatches again.
- The session runs on its context's threads. When it closes, `finalize`
  derefs the context and the pool's callback puts the session back.
- `deactivate_context` and `Server::stop` take the pool's unique lock. They
  stop contexts, and stopping a context joins its threads.
- A `TriggerGuard` keeps `Server::stop` from overlapping the registration of
  an accept or the start of a session.

Hard behaviours:
- The acceptor, sessions, RPC and signal handler all run concurrently.
- A condition-variable wait races with a notify that is made without the mutex.
- A waiting borrower gets an item handed to it directly.
- `recover()` works from a snapshot of the item map.
- A deactivation can race the round-robin hold.
- Joining threads while holding a lock.
- A session can close while its writes are still queued.
- Unsigned arithmetic on byte counts.
- VM locks block reactor threads.

Correctness properties, from spec §8 and the code's comments:
- Trigger-guard exclusion, and `trigger()` eventually returns.
- Pool items are never shared, and the pool's counters are exact.
- `total <= max_size` when `max_size > 0`.
- Recover only touches the owner's items.
- `ref`/`hold` accounting on contexts, and zero holds and refs at shutdown.
- There is always one active context.
- Deactivation and stop return.
- Per session: `finalize` runs once per cycle, there is at most one read and
  one write in flight, and the response only comes after the body.
- VM lock mutual exclusion, and cleanup releases the identity's locks.

## 2. Modules

| Module | Models | Checked by |
|---|---|---|
| `TriggerGuard` | `TriggerGuard` with its condition-variable wait in four steps | `MCTriggerGuard` |
| `PoolSpec` | the contract of an object pool: items absent, free or out | refined by `Pool` |
| `Pool` | `Pool<T,D,GArgs...>` action for action | `MCPool` |
| `Server` | `Server<P>`, `LSContextPool`, the `LSContext`s, and the session pool as an `INSTANCE` of `Pool` | `MCServer` |
| `ProgramParse` | `Program::try_parse`, plus a reference `RefTryParse` of the wire format | `MCProgramParse` |
| `ProgramText` | the `Program` constructor on a parsed JSON text and `OpList::instantiate`, plus a reference `RefProgram` of spec §4.7 | `MCProgramText` |
| `Program` | `Program` as `Http` drives it: assign, `feed` with each `Op::run`, `get_data`, `reset` | `MCProgram`, `MCHttpResponse` |
| `DynamicString` | `DynamicString` as operators on capacity and size | used by `HttpResponse` |
| `HttpResponse` | `Program` composed with `Http::respond`: the header generated into its `DynamicString` by `printf`'s retry loop | `MCHttpResponse` |
| `Stats` | the session deltas and `SessionPool::get_stats` under concurrent pollers | `MCStats` |
| `LockService` | the contract of the VM's locks: a resource has one owner, UNLOCK frees only the caller's, a session's end frees what it holds | refined by `LSVM` |
| `LSVM` | `LSVirtualMachine` under the LOCK and UNLOCK of concurrent programs | `MCLSVM` |
| `Manager` | `ServerManager`, the `ControlServer` handlers, the Portal's service thread and the `SignalManager` exit path in `main` | `MCManager` |
| `HttpHeader` | `HttpRequestHeader` and `HttpResponseHeader` as operators | used by `HttpSession` |
| `SessionCycle` | the per-cycle state machine of a session (spec §4.4): IDLE, READING, DRAINING, CLOSING | refined by `HttpSession` |
| `HttpSession` | one pooled `Session<Http>` over the connections it serves | `MCHttpSession` |
| `ContextsInfo` | the `GetContextsInfo` RPC reading the contexts without a lock, against `DeactivateContext` and `AddContext` | `MCContextsInfo.cfg` |

Every `MC` module gives the constants their values and defines the small
input sets. `PROJECT.json` "map" names the source lines of every
definition that models code.

### TriggerGuard

- Scope threads:
  - `Acquire` models `acquire_scoped_guard`.
  - `TestGuard` models the test in `SCOPED_GUARD_OR_RETURN`.
  - `Release` models `~ScopedGuard`, which calls `ReleaseScopedGuard`. It
    decrements `ref_cnt_` and notifies without `mtx_`.
- The stopper models `trigger()`. `cv_.wait(lk, pred)` is four steps:
  `StartTrigger`, `TestPredicate`, `Block` and `Relock`.
- `SpuriousWakeup` is allowed but is not fair.

### Pool and PoolSpec

- `Init` is the constructor, including the eager path.
- `TryBorrow`, `Borrow` and `BorrowAsync` model the borrow overloads.
- `PutBack` (built on `Insert`) includes the hand-off to a waiting callback.
- `Subscribe` is the accounting of a newly created item.
- `recover(id)` is two steps: `RecoverSnapshot` copies `all_items_` under the
  lock, and `RecoverFinalize` works from that copy without it. Nothing in the
  repository calls `recover()`, so no configuration checks these actions
  (`MCPool.cfg` uses `ClientSpec`, the server's use of the pool).
- `holder` and `waiter_id` are history variables: they record who really has
  each item.
- `Pool` refines `PoolSpec` through `Abstract`. The refinement is checked as
  the property `Refinement`.

### Server

| Actor | Actions | Code |
|---|---|---|
| acceptor | `AcceptConnection`, `AcceptFails`, `Handler`, `SessionStartUnhold`, `Redispatch` | `Server::dispatch` and its completion lambda, `Session::setup`, `session_start` |
| sessions | `Finalize(s)` | `Session::finalize`: deref, then the finalized callback calls `put_back` |
| RPC | `AddContext`, `DeactivateContext(c)`, `DeactivateDone` | `LSContextPool::add_context`, `deactivate_context`, `LSContext::stop(false)` |
| signal | `Trigger`, `CloseAcceptor`, `StopAcceptorPool`, `LockWorkers`, `StopContext`, `JoinContext`, `WorkersStopped` | `Server::stop`, `LSContextPool::stop`, `LSContext::stop(true)` |

- `phase[c]` is `"running"`, `"draining"` or `"stopped"`. `"draining"`
  covers the time `LSContext::stop` spends in `wait()`: its threads return
  only when the `io_context` has no work left (`HasWork`).
- `Incr`, `Decr`, `Reusable` and `Reuse` are the `ref`/`deref`,
  `hold`/`unhold` and `reuse` of `LSContext`.
- The trigger guard is atomic here. Its internals are checked in
  `TriggerGuard`.
- A session from `session_start` to `finalize` is one step here.
  `HttpSession` details that step.
- Threads and strands:
  - `nthreads`/`threads` are `num_threads_` and the threads running
    `io_context::run()`. `ValidThreads` is the check of `set_num_threads`,
    and `InitThreads` the constructor's contexts.
  - `AddContext(n)` takes its thread count from `ThreadCounts`. A bad count
    throws after `emplace_back`: the context stays, active and threadless.
  - `strand[s]` is `"none"` (`borrow_strand` returned `nullptr` for a
    one-thread context), `"current"`, or `"stale"` once `stop()` has
    replaced the strand pool under an attached session
    (`StrandsAfterRebuild`).

### ProgramParse and Program

- `ProgramParse` models the body format `"<N>\n<text>"`:
  - `TryParse` follows the code's length checks, `std::stoul` included.
  - `RefTryParse` is what the wire format says.
  - `MCProgramParse` compares the two on every buffer of up to four bytes.
- `Program` keeps the heap as a set and `TopOf` as its least exec point.
  - `feed()` is split into `Feed` (entry), `FeedRun`, `FeedSpin` and
    `FeedReturn`, one action per pass of its loop.
  - `GetData` streams the download in `kSendBufferSz` chunks while
    `HasMoreData`.
  - `Reset` is `Program::reset`.
  - `RunOp` is `Op::run`: a DOWNLOAD sets the result code and the download
    size. LOCK and UNLOCK act on the VM, which `LSVM` models. SLEEP and LOOP
    only spend time.
- `ProgramText` models the constructor `Program(std::string_view)` on the
  JSON value `nlohmann::json::parse` makes of a text:
  - the conversions that throw (`LineConverts`, `InstrConverts`, `stoul`);
  - `inst.begin()` (`FirstName`), the least opcode in byte order;
  - `OpList::instantiate` as a recursion over the type list (`InstantiateFrom`),
    ending in the null `OpPtr`.
  - `RefProgram` is what spec §4.7 says a text must be.
  - `MCProgramText` compares the two on seven texts.

### DynamicString and HttpResponse

- `DynamicString` keeps a buffer's capacity and size. A `printf` argument
  list is the number of characters `snprintf` reports for it.
  - `Truncated` is the test after `snprintf`.
  - `GrowTo` is the new size: doubled while the capacity is at most 512,
    otherwise exactly what is needed.
- `HttpResponse` EXTENDS `Program`, `DynamicString` and `HttpHeader`:
  - `OnDataReturn` is the end of `Http::on_data`. When `feed()` reports the
    body finished, `Respond` clears the 64-byte header buffer and queues the
    seven header pieces of `generate_header` (`HeaderText`).
  - Each pass of `printf`'s loop is `PrintfRetry` (resize) or
    `PrintfAppend` (write the piece).
  - `OnSentData` streams the download only after the header went out.
    `HttpReset` is `Http::reset`.

### Stats

- `TransactionStarted(s)` is the `fetch_add` of a session's delta.
- `GetStats(p)` clears the pool's one `SessionStats`. `Exchange(p, s)` and
  `Accumulate(p)` are the two halves of one iteration over the sessions.
  `Report(p)` is the poller reading the counters through the reference it
  got back.
- `reported` and `started` are history variables.

### LSVM

- Sessions run their LOCK/UNLOCK scripts on a bounded set of reactor threads.
- `Dispatch` and `Index` model `resources_[num]` under the shared lock.
- `Acquire` and `WaitTimeout` model the `wait_for` loop of `lock()`. A
  waiting LOCK keeps its thread.
- `Unlock` models `unlock()`.
- `Close` and `Cleanup` model `Program::reset` → `cleanup(identity)` under
  the exclusive lock.
- `believes` is a history variable: the resources each program has locked and
  not released.
- `LS == INSTANCE LockService` maps the abstract owner of a resource to
  `holder` when `taken` is set, `held` to `believes`, and `ended` to the
  closed sessions. `ImplementsLockService` states that every LSVM step is a
  `LockService` step or a stutter. A `cleanup()` that frees a resource of
  another identity, or an UNLOCK by a non-holder, is not.

### Manager

- `servers` is `ServerManager::servers_`, a `std::map<int, AbstractServer*>`:
  a function from the handles in it to a server or `Null` (nullptr).
  `Subscript` is `operator[]`, which inserts nullptr for a missing key.
- `CreateServer` is `create_server`; `StartPortal` is the Portal's
  constructor and `start()` in `main`.
- `ContextRpc(sh)` is `AddContext`/`DeactivateContext`: `get_server`
  validates `sh < servers_.size()` (`ValidateServerHandle`) and returns
  `servers_[sh]`. The `int` handle is converted to `size_t` for that
  comparison, so a negative handle is refused like one past the end.
- `Poll` is `GetStats`, `GetContextsInfo` and a pass of the Portal loop: each
  calls every server of the map (`Deref`).
- `Signal` is the `SignalManager` handler: stop every server, then stop the
  Portal. `PortalExit` and `MainExit` are the threads returning.
- A server's own life is module `Server`'s; here it is running or stopped.

### HttpHeader and HttpSession

- `HttpHeader` turns what http_parser reports into what the session uses.
  - `KeepAlive` folds `SetFieldValue` over the header lines. It uses
    case-folded names, and `strncasecmp` prefix semantics for the values.
  - `ContentLength` models `get_content_length`.
  - `UrlPrefix` models `url_prefix`.
  - `Prepare` and `ConnectionLine` model the response header.
- `HttpSession` models one pooled session.
  - The client writes requests byte by byte (`ClientBegin`, `ClientWrite`)
    and may close at any time (`ClientClose`).
  - The completion handlers are atomic actions: `ReadData`, `ReadFails`,
    `WriteDone`, `WriteFails` and `CloseOnce`.
  - Outstanding reads, writes and posted `close_once`s are sequences stamped
    with the connection cycle. After `finalize` closes the socket, those that
    are still pending complete with `operation_aborted`.
  - `OnData` models `Http::on_data` with its helpers, `TryHandleHeader`,
    `SelectProgram`, `ParseOutcome` and `Feed`.
  - `OnSent` models `Http::on_sent`.
  - `Setup` and `Finalize` are the borrow and the return to the pool.
  - `halted` records how the process stops serving: an exception that
    terminates it, a spinning `feed()`, or undefined behaviour.
  - `announced` records the `Connection` lines the client has received.
- `SC == INSTANCE SessionCycle` maps the session to its §4.4 state
  (`CycleState`): IDLE when pooled, CLOSING once a `close_once` is posted or
  deferred, DRAINING while buffers are queued, READING otherwise. The
  responses of the cycle are the client's `answered`.
  `ImplementsSessionCycle` states that every step is a `SessionCycle` step:
  a response is only delivered by draining a finished one, a requested close
  is never followed by more reading or responding, and `finalize` runs from
  CLOSING only.

### ContextsInfo

- `GetContextsInfo` walks every context through `get_contexts_info()` and
  `get_context_info()` without `smtx_` or the context's `mtx_`. `InfoLoad`
  loads `strand_pool_`; `InfoUse` calls `get_size()` and
  `get_in_flight_cnt()` through it and moves to the next context.
- `Deactivate` is `deactivate_context` with its checks and `stop(false)`;
  `StopContext` assigns a fresh strand pool, which destroys the old one.
  A strand pool is a generation number.
- `Reuse` is the reuse path of `add_context`. Hold and ref counts are
  module `Server`'s and are taken as 0 here.

## 3. Runs

| Run | Config | Expect | What it shows |
|---|---|---|---|
| trigger_guard_safety | MCTriggerGuard.cfg | pass | no guarded body runs after `triggered_` is set (`GuardExclusion`) |
| trigger_guard_lost_wakeup | MCTriggerGuardLiveness.cfg | violation | `trigger()` can block forever: the last `notify_all()` falls between the predicate test and `wait()` |
| pool_client | MCPool.cfg | pass | items are never shared (`ItemsPartitioned`), `in_flight` is exact, `total` stays within the limit, and `Pool` refines `PoolSpec` |
| server | MCServer.cfg | pass | a deactivation never hits a context being registered, `ref` counts attached sessions, no session outlives its context's threads, a session on a multi-thread context has a strand (`HandlersSerialised`), no attached session holds a strand of a replaced pool (`StrandFromLivePool`), and deactivate and stop return once clients and RPCs go quiet |
| server_stop_hang | MCServerStopHang.cfg | violation | even once the management RPC has stopped calling, `Server::stop()` does not return while a client keeps its connection open: the trace attaches a session (`ref = 1`), and `stop()` stays in `JoinContext` on its context for ever |
| program_parse | MCProgramParse.cfg | violation | `try_parse` compares the declared length with the whole buffer, and so parses past the received bytes |
| program | MCHttpResponse.cfg | pass | exactly the last DOWNLOAD is streamed across reassignments, the header and its NUL always fit the header buffer (`HeaderFitsBuffer`), and every `printf` of the header returns (`PrintfReturns`) |
| program_feed_hang | MCProgramFeedHang.cfg | violation | `feed()` spins forever when the top instruction is not yet due |
| lsvm | MCLSVM.cfg | pass | mutual exclusion for well-formed scripts of two sessions on two threads, and `LSVM` refines `LockService` (a reset program holds nothing, and a cleanup frees only its identity's locks) |
| lsvm_stray_unlock | MCLSVMStrayUnlock.cfg | violation | an UNLOCK by a non-holder releases another program's lock |
| http_session | MCHttpSession.cfg | pass | reads and writes never overlap, a pooled session is clean and was finalized once per borrow, `respond()` runs once per request, the `Connection` line is honoured, every connection ends, and `HttpSession` refines `SessionCycle` |
| http_session_early_response | MCHttpSessionEarlyResponse.cfg | violation | `bytes_received_` counts the header bytes, so a request is answered before its body arrives |

Every property of a passing run has a mutant in `PROJECT.json`. A mutant is
a plausible bug, written as an operator placed before the definition it
replaces, and TLC finds the property violated under it. The "findings" of
`PROJECT.json` explain each violation run.

Further counterexample configurations are kept beside the runs. They are
not in the manifest, and each ends in the violation stated here:

| Config | Property | What the trace shows |
|---|---|---|
| MCPoolEagerTotal.cfg | `TotalWithinMax` | the eager constructor counts every item twice, so `total = 2 * max_size` in the initial state |
| MCPoolHandOffTag.cfg | `TagsMatchHolders` | an item handed to a waiting callback keeps the POI of the borrower who returned it |
| MCServerHoldLeak.cfg | `StoppedReleased` | the hold taken for a pending accept is never released at stop (spec property 2) |
| MCServerRevive.cfg | `StoppedStaysStopped` | an `add_context` RPC after stop reactivates a stopped context |
| MCLSVMRace.cfg | `NoRacyInsert` | `operator[]` inserts into `resources_` under a shared lock next to another reader (a data race) |
| MCLSVMOneThread.cfg | `LockReturns` | with one reactor thread, a LOCK waiting for a resource keeps the only thread, and the holder can never run its UNLOCK |
| MCLSVMThreeSessions.cfg | `LockReturns` | three sessions on two threads: two LOCKs of the same resource wait on both threads, and the holder's UNLOCK never gets a thread. So a LOCK returns only while there are fewer waiters than threads, which is why `LockReturns` is not a property of the lsvm run |
| MCHttpSessionReceive.cfg | `ReadWithinRequest` | a read waits for more bytes than the current request has left |
| MCServerNoThreads.cfg | `SessionsServed` | `add_context(0)` throws after `emplace_back`; the context stays active with no thread, and the acceptor sets sessions up on it that nothing will ever serve |
| MCStatsTwoPollers.cfg | `CountedOnce` | the Portal and a ControlServer thread poll at once: one's `clear()` erases the other's partial sum, or both report the same deltas |
| MCContextsInfo.cfg | `NoStalePoolRead` | `GetContextsInfo` loads a context's `strand_pool_`, a `DeactivateContext` on another gRPC thread stops the context and replaces the pool, and `get_size()` runs on the destroyed pool |
| MCProgramText.cfg | `ConstructorMatchesFormat` | a text with the opcode `FOO` is accepted with a null `OpPtr` in the heap (spec §4.7 calls it malformed); a line whose instruction object has two opcodes is accepted and keeps only the first |

`MCStats.cfg` is a passing configuration beside them: with one poller,
`CountedOnce` holds, so the double count needs the second poller.
`MCManager.cfg` is another: with the handles -1, 0 and 1, no request crashes,
the handles stay dense (`HandlesDense`), and a signal ends the process
(`ExitsOnSignal`).

### Bounds

- **TriggerGuard**: three scopes. Two are enough for the lost wakeup. The
  third interleaves acquisition with the test of `triggered_`.
- **Pool**:
  - three items, a limit of two, and two POIs;
  - the third item is what could break the limit;
  - two borrowers empty the pool, so an asynchronous borrower waits and a
    put_back hands off.
- **Server**:
  - two initial contexts out of a capacity of three, so `add_context` both
    reuses and appends;
  - two sessions, so the pool runs dry;
  - three connections;
  - both acceptor configurations.
- **ProgramParse**: every buffer of up to four bytes over `{0,1,2,\n,j,x}`.
- **Program** (`MCProgram`, the feed-hang run): up to three body bytes and
  a send buffer of two.
  - The texts: a sinkhole, a DOWNLOAD of three due at once, instructions
    due later in the body, and two instructions that share an exec point.
  - A download of three bytes needs two `get_data` chunks.
- **HttpResponse** (the program run): up to three body bytes, the code's
  `kSendBufferSz` of 65536 and its 64-byte header buffer.
  - A DOWNLOAD of 100000 takes two chunks. Its header is 67 bytes, so the
    buffer is resized in the middle of the header.
  - A DOWNLOAD of 100 makes a header that fits.
  - Both `Connection` values are chosen.
- **Server threads**: `ThreadCounts = {1, 2}`, so contexts run one thread
  (no strand) or two (strands). `MCServerNoThreads.cfg` adds the bad count 0.
- **Stats**: two sessions, three transactions, and one poller (two in the
  counterexample). That is enough for a transaction to land between two
  pollers' steps.
- **ProgramText**:
  - two well-formed texts;
  - one text per way a text can be malformed: an unknown opcode, two
    opcodes, a key that is not a number, a number operand, a number line.
- **LSVM**: two sessions, two resources and two threads.
  - Well-formed scripts unlock what they lock, in one lock order.
  - One script leaves its lock to `cleanup()`.
  - The stray-unlock run adds a script that unlocks before it locks.
- **Manager**: one server, and the handles -1, 0 and 1. Handle 0 is
  valid, 1 is one past the end, and -1 is a negative value (refused, as
  the `size_t` conversion makes it huge).
- **ContextsInfo**: two contexts (one must stay active, so a deactivation
  needs two), two strand pools per context and two `GetContextsInfo` calls.
- **HttpSession**:
  - two connections of up to two requests each;
  - three header bytes, and transfers of up to seven bytes;
  - one request of every kind: keep-alive and close, with and without a
    body, a script, and an unknown url.
  - These bounds let a read carry one request's tail and the next request's
    header. They also let a second keep-alive request follow, and the client
    close in the middle of a response.

### Fairness

Weak fairness is assumed only for code that runs on its own once it is
enabled:
- guarded scopes finishing, and the steps inside `trigger()`;
- the accept completion handler, and the steps of `stop()`;
- the passes of `feed()`, and the passes of `printf`'s retry loop, which
  run inside the same handler;
- an LSVM handler that holds a thread;
- the Portal's service thread leaving its loop once `shutdown_requested_` is
  set, and `main` returning once `portal.wait()` does;
- every ready asio completion of a session.

These are never fair, because they come from outside:
- client connects,
- RPC calls,
- the stop signal,
- spurious wakeups.

Some liveness properties assume a client that finishes what it began and
eventually closes. They state that assumption as a premise or as a fairness
condition on the client's actions:
- `TriggerReturns` assumes that no more scopes open.
- `DeactivateReturns` assumes that the context's sessions end.
- `StopReturnsWhenQuiescent` assumes that clients and RPCs stop.
- `StopReturns` (the server_stop_hang run) assumes only that RPCs stop. Its
  violation therefore comes from a client, not from RPCs starving `stop()`.
- `SessionReturns` assumes clients that close.
- `LockReturns` assumes clients that close and is still violated whenever the
  LOCK waiters of a context can occupy all of its threads. It is checked only
  by the counterexample configurations.

## 4. Plan

What is left, in order:

1. **Sessions inside the server.** `HttpSession` now refines the §4.4
   state machine (`SessionCycle`). What is left is to show that it also
   implements the one-step session of `Server` (borrow, then `Finalize`),
   so that the two models compose.
2. **Runs for the counterexample configurations.** Every run slot is in use, so
   several counterexamples are checked off the run list: the stats double
   count, the threadless context, the unknown opcode, the LOCK deadlocks
   and the stale strand pool read.
3. **Management RPCs on live servers.** Compose `Manager` with `Server` so
   that `ContextRpc` is the RPC actor of `Server`.
4. **The strand pool as a `Pool` instance.** Today `Server` records only
   which pool a strand came from.
5. **`Connection` matching.** The value is compared with `strncasecmp` over
   the value's length, so `Connection: c` counts as close. `HttpHeader`
   follows the code here.

## 5. What is not modelled and why

- YAML configuration and command-line parsing: pure input handling.
- The gRPC plumbing of the portal and control server: the message
  conversion and server setup. `Manager` models what the handlers do to the
  server map; `Server` models add/deactivate as its RPC actor. The `.proto`
  file is not in the repository, so the type of `server_id` is taken to be a
  signed or unsigned 32-bit integer converted to `int`; both reach -1, which
  `validate_server_handle` refuses.
- Cancellation of a waiting LOCK: `Program::stop` has no caller, so no
  action models a request for it.
- Logging, timing and the formatting of statistics records: they are only
  read for reporting. `ServerStats`, the accept counter, and `PoolStats`
  are not modelled either: each is a plain counter with one writer.
- `%d` with the `size_t` Content-Length: it prints a different number from
  2^31 on. TLC's integers are too small to reach that.
- An empty instruction object `{}`: `inst.begin()` is then the end
  iterator, and dereferencing it is undefined behaviour with no outcome to
  enumerate.
- The data race of `get_stats` iterating `all_items()` without the pool
  mutex while the acceptor inserts: undefined behaviour as well.
- http_parser: a library outside the repository. `HttpHeader` states what it
  is assumed to report.
- The outgoing queue's buffer pool (`QueueBufferPool`): `Http` borrows its
  two buffers once, in its constructor, and sessions are pooled. The queue
  itself is a sequence of header and data items in `HttpSession`, with the
  `DynamicQueue` methods as operators.
- SLEEP and LOOP only spend time, so they are inert instructions.
- Timeouts: the code has none except the 100 ms `wait_for` of `lock()`,
  which is `WaitTimeout`.
