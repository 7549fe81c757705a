--------------------------- MODULE MCTriggerGuard ---------------------------
(* Three guarded-scope threads (dispatches and accept handlers of the     *)
(* acceptor, which overlap) against one Server::stop().                   *)
EXTENDS TriggerGuard

CONSTANTS s1, s2, s3

MCScopes == {s1, s2, s3}
=============================================================================
