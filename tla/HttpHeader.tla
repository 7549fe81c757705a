----------------------------- MODULE HttpHeader -----------------------------
(***************************************************************************)
(* HttpRequestHeader and HttpResponseHeader of src/src/http_header.hpp as  *)
(* operators: what the http_parser callbacks make of a request header, and *)
(* what a response header says.                                            *)
(*                                                                         *)
(* Strings are tuples of one-character strings.  The http_parser library   *)
(* is not part of this repository: it is taken to call set_url with the   *)
(* request target, set_field and set_value once per header line, in order, *)
(* and to leave content_length at -1 when no Content-Length line is sent.  *)
(***************************************************************************)
EXTENDS Integers, Sequences, SequencesExt

(* The letters whose case the requests here may change.                   *)
Folding == ("C" :> "c") @@ ("K" :> "k") @@ ("A" :> "a") @@ ("L" :> "l")
           @@ ("O" :> "o") @@ ("S" :> "s") @@ ("E" :> "e") @@ ("P" :> "p")
           @@ ("I" :> "i") @@ ("V" :> "v") @@ ("N" :> "n") @@ ("T" :> "t")

(* internal::nocase_less compares std::tolower of both characters.         *)
ToLower(s) == [i \in DOMAIN s |-> IF s[i] \in DOMAIN Folding THEN Folding[s[i]]
                                                            ELSE s[i]]

(* header_names is a std::map ordered by nocase_compare: a field is found *)
(* when neither name is less than the other, i.e. they are equal up to    *)
(* case.                                                                   *)
NoCaseEqual(a, b) == ToLower(a) = ToLower(b)

(* strncasecmp(buf, lit, len) == 0 for the len bytes of a header value:   *)
(* the comparison stops at the NUL that ends lit, so it succeeds exactly   *)
(* when the value is, up to case, a prefix of lit.                         *)
StrNCaseEqual(buf, lit) == IsPrefix(ToLower(buf), ToLower(lit))

ConnectionName == <<"c", "o", "n", "n", "e", "c", "t", "i", "o", "n">>
CloseToken     == <<"c", "l", "o", "s", "e">>
KeepAliveToken == <<"k", "e", "e", "p", "-", "a", "l", "i", "v", "e">>

(* set_field then set_value for one header line: a Connection value that  *)
(* matches "close" clears keep_alive_, else one that matches "keep-alive"  *)
(* sets it; any other line leaves it.                                      *)
SetFieldValue(keep_alive, line) ==
    IF ~NoCaseEqual(line.field, ConnectionName) THEN keep_alive
    ELSE IF StrNCaseEqual(line.value, CloseToken) THEN FALSE
    ELSE IF StrNCaseEqual(line.value, KeepAliveToken) THEN TRUE
    ELSE keep_alive

(* get_keep_alive(): keep_alive_ starts false (whatever the HTTP version)  *)
(* and the lines are applied in order.                                     *)
KeepAlive(lines) == FoldLeft(SetFieldValue, FALSE, lines)

(* get_content_length(): max(parser_.content_length, 0).                   *)
ContentLength(cl) == IF cl < 0 THEN 0 ELSE cl

(* url_prefix(pref, url): std::mismatch walks pref and stops at the first  *)
(* differing byte; the url's terminating NUL differs from every byte of a  *)
(* prefix, so a url shorter than pref does not match.                      *)
UrlPrefix(pref, url) ==
    Len(url) >= Len(pref) /\ SubSeq(url, 1, Len(pref)) = pref

VscriptUrl  == <<"/", "v", "s", "c", "r", "i", "p", "t", "/">>
SinkholeUrl == <<"/", "s", "i", "n", "k", "h", "o", "l", "e", "/">>

(* Fault variant: the ternary of connection_line the wrong way round.      *)
ConnectionLineSwapped(keep_alive) == IF keep_alive THEN "Close" ELSE "Keep-Alive"

(* connection_line(): "Connection: Keep-Alive" or "Connection: Close".     *)
ConnectionLine(keep_alive) == IF keep_alive THEN "Keep-Alive" ELSE "Close"

(* HttpResponseHeader::prepare(code, length, keep_alive) -> generate_header*)
(* the status line, Content-Length and Connection lines, as a record.      *)
Prepare(code, length, keep_alive) ==
    [code |-> code, length |-> length, conn |-> ConnectionLine(keep_alive)]
=============================================================================
