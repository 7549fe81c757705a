---------------------------- MODULE MCHttpSession ----------------------------
(***************************************************************************)
(* A pooled Http session serving two connections of up to two requests.   *)
(* Headers are three bytes long, longer than some bodies, as real headers *)
(* are longer than the small bodies of sinkhole and short scripts.        *)
(***************************************************************************)
EXTENDS HttpSession

(* A program "1\nj" whose single instruction downloads 3 units at offset 0 *)
Download == [exec |-> 0, op |-> "DOWNLOAD", operand |-> 3]

Connection(value) ==
    [field |-> <<"C", "o", "n", "n", "e", "c", "t", "i", "o", "n">>, value |-> value]
KeepAliveLine == Connection(<<"K", "e", "e", "p", "-", "A", "l", "i", "v", "e">>)
CloseLine == Connection(<<"c", "l", "o", "s", "e">>)

(* GET /sinkhole/ with Connection: Keep-Alive, or Connection: close, and  *)
(* no Content-Length; a POST /sinkhole/ with a one-byte body; a POST      *)
(* /vscript/x whose program downloads; a GET of an unknown url.           *)
KeepAliveSinkhole == [url |-> SinkholeUrl, lines |-> <<KeepAliveLine>>, cl |-> -1,
                      prog |-> {}, body |-> <<>>]
ClosingSinkhole == [KeepAliveSinkhole EXCEPT !.lines = <<CloseLine>>]
SinkholeWithBody == [KeepAliveSinkhole EXCEPT !.cl = 1, !.body = <<"x">>]
Script == [url |-> VscriptUrl \o <<"x">>, lines |-> <<KeepAliveLine>>, cl |-> 3,
           prog |-> {Download}, body |-> <<"1", "\n", "j">>]
OtherUrl == [KeepAliveSinkhole EXCEPT !.url = <<"/", "x">>]

MCRequests == {KeepAliveSinkhole, ClosingSinkhole, SinkholeWithBody, Script,
               OtherUrl}
=============================================================================
