------------------------------ MODULE MCManager ------------------------------
EXTENDS Manager

CONSTANTS srv1

(* main.cpp creates one server, under handle 0.                            *)
MCSrvs == {srv1}

(* Requests naming the server, the next handle, and a negative handle (an  *)
(* int32 server_id, or an unsigned one of 2^31 or more read as an int).   *)
RequestIds == {-1, 0, 1}
=============================================================================
