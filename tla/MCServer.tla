------------------------------ MODULE MCServer ------------------------------
(* Two worker contexts out of a capacity of three, two sessions in a pool  *)
(* of two and three connections: both contexts get sessions, a context can *)
(* be deactivated while one is attached and reused or appended afterwards, *)
(* and the pool runs dry.                                                  *)
EXTENDS Server

CONSTANTS s1, s2

MCSessions == {s1, s2}
=============================================================================
