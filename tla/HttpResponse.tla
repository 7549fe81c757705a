---------------------------- MODULE HttpResponse ----------------------------
(***************************************************************************)
(* Http's response path (src/src/http.hpp, src/src/http_header.hpp) over   *)
(* module Program: when the feed in Http::on_data reports the body         *)
(* finished, respond(code, keep_alive, download_size) has                  *)
(* HttpResponseHeader::prepare generate the header into its DynamicString  *)
(* (prepare_send_buffer(64) in the Http constructor, kept for the life of  *)
(* the session), one printf per piece; the header is then sent and         *)
(* Http::on_sent streams the download with get_data().                     *)
(*                                                                         *)
(* A piece of the header is represented by the number of characters        *)
(* snprintf makes of it.  content_length_ is a size_t printed with "%d";   *)
(* download sizes here stay below 2^31, where that conversion prints the   *)
(* value itself.                                                           *)
(***************************************************************************)
EXTENDS Program, DynamicString, HttpHeader

CONSTANT HeaderBufSz    \* the capacity Http asks for its header buffer

VARIABLES
    hbuf,       \* response_header_.buffer_: [capacity, size]
    todo,       \* nchars of the header pieces generate_header has yet to print
    hpc         \* "none", "printing" (inside generate_header), "sent"

hVars == <<hbuf, todo, hpc>>
allVars == <<vars, hVars>>

(* snprintf's count for "%d": a sign for a negative value, then digits.   *)
RECURSIVE DecimalLen(_)
DecimalLen(v) ==
    IF v < 0 THEN 1 + DecimalLen(-v)
    ELSE IF v < 10 THEN 1 ELSE 1 + DecimalLen(v \div 10)

(* The entry of status_code_reason_ a Program's result code can reach      *)
(* (set_result_code is only ever called with 200); a code not in the map   *)
(* gets "".                                                                 *)
StatusReason == 200 :> "OK"
ReasonOf(code) == IF code \in DOMAIN StatusReason THEN StatusReason[code] ELSE ""

(* generate_header(): status_line ("HTTP/1.1 %d %s"), line_break ("\r\n"), *)
(* content_length_line ("Content-Length: %d"), line_break,                 *)
(* connection_line ("Connection: %s"), line_break, line_break.             *)
HeaderText(code, length, keep_alive) ==
    << Len("HTTP/1.1 ") + DecimalLen(code) + Len(" ") + Len(ReasonOf(code)),
       Len("\r\n"),
       Len("Content-Length: ") + DecimalLen(length),
       Len("\r\n"),
       Len("Connection: ") + Len(ConnectionLine(keep_alive)),
       Len("\r\n"),
       Len("\r\n") >>

HInit ==
    /\ Init
    /\ hbuf = NewBuffer(HeaderBufSz)
    /\ todo = <<>>
    /\ hpc = "none"

(* Http::respond(get_response().code, keep_alive, download_size):         *)
(* prepare stores the arguments and generate_header clears the buffer and *)
(* starts on the pieces.                                                   *)
Respond(keep_alive) ==
    /\ hbuf' = Clear(hbuf)
    /\ todo' = HeaderText(result_code, download, keep_alive)
    /\ hpc' = "printing"

(* The end of Http::on_data: feed() has returned; if it reported the body  *)
(* finished, respond; keep_alive is whatever the request header said.      *)
OnDataReturn ==
    /\ FeedReturn
    /\ IF eofArg THEN \E keep_alive \in BOOLEAN : Respond(keep_alive)
                 ELSE UNCHANGED hVars

(* A pass of printf's retry loop that finds the piece cut: resize, retry.  *)
PrintfRetry ==
    /\ hpc = "printing"
    /\ Truncated(hbuf, Head(todo))
    /\ hbuf' = PrintfGrown(hbuf, Head(todo))
    /\ UNCHANGED <<todo, hpc>>
    /\ UNCHANGED vars

(* A pass that finds it whole: the piece is appended and printf returns;   *)
(* after the last one respond() sends the buffer and sets sent_.           *)
PrintfAppend ==
    /\ hpc = "printing"
    /\ ~Truncated(hbuf, Head(todo))
    /\ hbuf' = PrintfWritten(hbuf, Head(todo))
    /\ todo' = Tail(todo)
    /\ hpc' = IF Tail(todo) = <<>> THEN "sent" ELSE "printing"
    /\ UNCHANGED vars

(* Http::on_sent streams only after the header went out.                  *)
OnSentData == hpc = "sent" /\ GetData /\ UNCHANGED hVars

(* Http::reset (keep-alive, after the download) and Http::on_closed reset  *)
(* the program between handlers; response_header_.reset() clears sent_ and *)
(* leaves the buffer and its capacity as they are.                         *)
HttpReset ==
    /\ hpc # "printing"
    /\ Reset
    /\ hpc' = "none"
    /\ UNCHANGED <<hbuf, todo>>

HNext ==
    \/ \E t \in Texts : Assign(t) /\ UNCHANGED hVars
    \/ \E len \in 0..MaxBytes, eof \in BOOLEAN : Feed(len, eof) /\ UNCHANGED hVars
    \/ (FeedRun \/ FeedSpin) /\ UNCHANGED hVars
    \/ OnDataReturn
    \/ PrintfRetry \/ PrintfAppend
    \/ OnSentData
    \/ HttpReset

(* Everything from feed() to the end of respond() runs inside one handler *)
(* on a reactor thread that keeps running.                                 *)
HSpec ==
    /\ HInit /\ [][HNext]_allVars
    /\ WF_allVars(FeedRun /\ UNCHANGED hVars) /\ WF_allVars(OnDataReturn)
    /\ WF_allVars(PrintfRetry) /\ WF_allVars(PrintfAppend)

-----------------------------------------------------------------------------
(* Properties                                                              *)

(* snprintf writes the NUL after the text it reports: printf only keeps a  *)
(* piece whose characters and NUL fit, so buffer_end_ stays strictly       *)
(* inside the allocation through every resize of the header buffer.       *)
HeaderFitsBuffer == hbuf.size < hbuf.capacity

(* Every printf of generate_header returns: the retry loop grows the      *)
(* buffer until the piece and its NUL fit.                                 *)
PrintfReturns == hpc = "printing" ~> hpc = "sent"
=============================================================================
