--------------------------- MODULE MCProgramParse ---------------------------
(***************************************************************************)
(* Every buffer of at most MaxLen bytes that Http::on_data can pass to     *)
(* Program::try_parse, as the initial states of a spec that never moves.   *)
(***************************************************************************)
EXTENDS ProgramParse

CONSTANT MaxLen

VARIABLE data

Init == data \in BoundedSeq(Bytes, MaxLen)
Next == UNCHANGED data
Spec == Init /\ [][Next]_data

(* try_parse answers what the wire format says for every buffer: it waits *)
(* for the whole "<N>\n<text>" body, and when it succeeds it consumes      *)
(* exactly digits(N) + 1 + N bytes, all of them received.                  *)
TryParseMatchesWireFormat == TryParse(data) = {RefTryParse(data)}
=============================================================================
