------------------------------- MODULE Manager -------------------------------
(***************************************************************************)
(* The process around the servers (src/src/main.cpp, manager.{hpp,cpp},   *)
(* control_server.cpp, portal.cpp, service.hpp, signal_manager.hpp): main  *)
(* creates the servers through the ServerManager, constructs the Portal    *)
(* (whose ControlServer starts serving gRPC at once), starts the Portal's  *)
(* polling thread and the SignalManager, and joins.  A SIGINT or SIGTERM   *)
(* runs the exit callback on the signal thread: stop every server, then    *)
(* ask the Portal to stop.                                                 *)
(*                                                                         *)
(* A server is a model value whose own life is module Server's; here it    *)
(* is running or stopped.  servers_ is a std::map<int, AbstractServer*>:   *)
(* a function from the handles in it to a server or Null (nullptr).  Every *)
(* RPC handler and every ServerManager call is one step.                  *)
(***************************************************************************)
EXTENDS Integers, FiniteSets, TLC

CONSTANTS
    Srvs,       \* the servers main creates, in creation order of CHOOSE
    RpcIds,     \* the server_id values management requests carry
    Null        \* a nullptr AbstractServer*

VARIABLES
    servers,    \* ServerManager::servers_
    handle_id,  \* ServerManager::handle_id_
    stopped,    \* the servers whose stop() has been called
    mainPc,     \* "create", "serving" (in portal.wait()), "exited"
    grpc,       \* the ControlServer: "on" (serving RPCs) or "shut"
    portalPc,   \* the Portal's service thread: "off", "loop", "done"
    shutdown,   \* Service::shutdown_requested_ of the Portal
    signalled,  \* a SIGINT/SIGTERM has run the exit callback
    crashed     \* a nullptr server was dereferenced

vars == <<servers, handle_id, stopped, mainPc, grpc, portalPc, shutdown,
          signalled, crashed>>

TypeOK ==
    /\ DOMAIN servers \subseteq Int
    /\ \A h \in DOMAIN servers : servers[h] \in Srvs \cup {Null}
    /\ handle_id \in Nat
    /\ stopped \subseteq Srvs
    /\ mainPc \in {"create", "serving", "exited"}
    /\ grpc \in {"off", "on", "shut"}
    /\ portalPc \in {"off", "loop", "done"}
    /\ shutdown \in BOOLEAN /\ signalled \in BOOLEAN /\ crashed \in BOOLEAN

Init ==
    /\ servers = [h \in {} |-> Null]
    /\ handle_id = 0
    /\ stopped = {}
    /\ mainPc = "create"
    /\ grpc = "off"
    /\ portalPc = "off"
    /\ shutdown = FALSE
    /\ signalled = FALSE
    /\ crashed = FALSE

Created == {servers[h] : h \in DOMAIN servers} \ {Null}

(* std::map::operator[]: the mapped value, inserting nullptr for a new key.*)
Subscript(m, k) == IF k \in DOMAIN m THEN m ELSE m @@ (k :> Null)

(* validate_server_handle(sh): sh < servers_.size().  The int sh is       *)
(* converted to size_t for the comparison, so a negative handle becomes   *)
(* 2^64 + sh and is refused like one past the end.                        *)
ValidateServerHandle(sh) == 0 <= sh /\ sh < Cardinality(DOMAIN servers)

(* The server ServerManager::stop(), get_stats() and get_servers_info()   *)
(* call through: a nullptr entry of servers_ crashes the process.          *)
Deref(S) == crashed' = (crashed \/ Null \in S)

-----------------------------------------------------------------------------
(* create_server<Http>(config): new Server (dispatch() starts accepting)  *)
(* and servers_.insert({handle_id_++, srv}).                               *)
CreateServer(s) ==
    /\ mainPc = "create" /\ s \notin Created
    /\ servers' = servers @@ (handle_id :> s)
    /\ handle_id' = handle_id + 1
    /\ UNCHANGED <<stopped, mainPc, grpc, portalPc, shutdown, signalled, crashed>>

(* Portal's constructor starts the ControlServer (gRPC serves from now    *)
(* on), portal.start() its service thread; the SignalManager is armed and  *)
(* main blocks in portal.wait().                                           *)
StartPortal ==
    /\ mainPc = "create" /\ Created # {}
    /\ mainPc' = "serving" /\ grpc' = "on" /\ portalPc' = "loop"
    /\ UNCHANGED <<servers, handle_id, stopped, shutdown, signalled, crashed>>

(* ControlServer::AddContext / DeactivateContext:                         *)
(* manager_.get_server(request->server_id()) throws logic_error (gRPC      *)
(* returns an error status) when the handle fails validation, otherwise    *)
(* returns servers_[sh] and the handler calls add_context or               *)
(* deactivate_context on it.                                               *)
ContextRpc(sh) ==
    /\ grpc = "on" /\ ~crashed
    /\ ValidateServerHandle(sh)
    /\ servers' = Subscript(servers, sh)
    /\ Deref({Subscript(servers, sh)[sh]})
    /\ UNCHANGED <<handle_id, stopped, mainPc, grpc, portalPc, shutdown, signalled>>

(* ControlServer::GetStats, GetContextsInfo, and a pass of the Portal's    *)
(* service loop (print_stats): walk servers_ and call every server.       *)
Poll ==
    /\ \/ grpc = "on"
       \/ portalPc = "loop" /\ ~shutdown
    /\ ~crashed
    /\ Deref({servers[h] : h \in DOMAIN servers})
    /\ UNCHANGED <<servers, handle_id, stopped, mainPc, grpc, portalPc, shutdown, signalled>>

(* The Portal's service loop tests shutdown_requested_ and returns.       *)
PortalExit ==
    /\ portalPc = "loop" /\ shutdown
    /\ portalPc' = "done"
    /\ UNCHANGED <<servers, handle_id, stopped, mainPc, grpc, shutdown, signalled, crashed>>

(* SignalManager::handler on SIGINT/SIGTERM: server_manager.stop() calls   *)
(* stop() on every entry of servers_, then portal.stop().                  *)
Signal ==
    /\ mainPc = "serving" /\ ~signalled /\ ~crashed
    /\ signalled' = TRUE
    /\ stopped' = stopped \cup Created
    /\ Deref({servers[h] : h \in DOMAIN servers})
    /\ shutdown' = TRUE
    /\ UNCHANGED <<servers, handle_id, mainPc, grpc, portalPc>>

(* portal.wait() returns; sigman.wait() stops and joins the signal thread; *)
(* main returns: ~SignalManager, then ~Portal -> ~ControlServer -> stop()  *)
(* (grpc Shutdown), then ~ServerManager deletes the servers.               *)
MainExit ==
    /\ mainPc = "serving" /\ portalPc = "done"
    /\ mainPc' = "exited" /\ grpc' = "shut"
    /\ UNCHANGED <<servers, handle_id, stopped, portalPc, shutdown, signalled, crashed>>

Next ==
    \/ \E s \in Srvs : CreateServer(s)
    \/ StartPortal
    \/ \E sh \in RpcIds : ContextRpc(sh)
    \/ Poll \/ PortalExit \/ Signal \/ MainExit

(* The signal is external; the threads that run once it has been handled  *)
(* keep running.                                                           *)
Spec == Init /\ [][Next]_vars /\ WF_vars(PortalExit) /\ WF_vars(MainExit)

-----------------------------------------------------------------------------
(* Properties                                                              *)

(* Spec section 7: an invalid server handle is a logic fault surfaced to  *)
(* the caller.  No management request, whatever server_id it names, makes *)
(* the process dereference a server that was never created.               *)
InvalidHandleRefused == ~crashed

(* Spec section 4.9: the Manager keys its servers by dense handles; every  *)
(* entry of servers_ is a server create_server made.                       *)
HandlesDense == DOMAIN servers = 0 .. handle_id - 1

(* A SIGINT or SIGTERM ends the process: the Portal thread and main return.*)
ExitsOnSignal == signalled ~> (mainPc = "exited" \/ crashed)
=============================================================================
