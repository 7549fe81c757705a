----------------------------- MODULE HttpSession -----------------------------
(***************************************************************************)
(* One pooled Session<Http> (src/src/session.hpp, src/src/http.hpp) over  *)
(* the connections it serves, one after another, each with a client that  *)
(* writes its requests byte by byte and may close at any time.            *)
(*                                                                         *)
(* The session's completion handlers (receive_event_cb, send_event_cb,    *)
(* the posted close_once) run one at a time, on the session's strand or   *)
(* on the single thread of its reactor, so each is one atomic action.     *)
(* Outstanding asio operations are explicit: reads, writes and posted     *)
(* close_once closures, each stamped with the connection it was started   *)
(* on.  An operation still pending when finalize() closes the socket      *)
(* completes later with operation_aborted.                                 *)
(*                                                                         *)
(* The byte stream is abstract: a request is HeaderLen header bytes, the  *)
(* last one standing for the "\r\n\r\n" terminator ("e"), followed by its *)
(* body over the alphabet of module ProgramParse.  ubuf_ is the part      *)
(* buf_lo+1 .. buf_hi of the stream the client has written.  The          *)
(* instructions of a program are DOWNLOAD and SLEEP here; LOCK and UNLOCK *)
(* are the subject of module LSVM.                                         *)
(***************************************************************************)
EXTENDS ProgramParse, HttpHeader, FiniteSets

CONSTANTS
    Requests,       \* the requests a client may send
    HeaderLen,      \* bytes of a request header, "\r\n\r\n" included
    MaxTransfer,    \* max_transfer_sz_ (256 KiB): more than any request here
    SendBufSz,      \* Program::kSendBufferSz, in the unit of download sizes
    MaxRequests,    \* bound on the requests of one connection
    MaxCycles       \* bound on the connections the session serves

Instr == [exec : Nat, op : {"DOWNLOAD", "SLEEP"}, operand : Nat]

(* A request as the parser reports it to HttpRequestHeader (module        *)
(* HttpHeader): its url, its header lines, content_length (-1 when none   *)
(* is sent); and the program its body carries.                            *)
HeaderLine == [field : Seq(STRING), value : Seq(STRING)]
Request == [url : Seq(STRING), lines : Seq(HeaderLine), cl : Int,
            prog : SUBSET Instr, body : Seq(Bytes)]

(* http_parser run on bytes that do not start a request: no url, no      *)
(* header line, content_length -1.                                         *)
NoHeader == [url |-> <<>>, lines |-> <<>>, cl |-> -1, prog |-> {}, body |-> <<>>]

ASSUME /\ Requests \subseteq Request
       /\ \A r \in Requests : Len(r.body) = ContentLength(r.cl)
       /\ HeaderLen >= 1 /\ SendBufSz >= 1
       /\ \A r \in Requests : HeaderLen + ContentLength(r.cl) < MaxTransfer

VARIABLES
    sent,                   \* client: the requests it has begun
    written,                \* client: bytes of Stream it has written
    client_closed,          \* client: it has shut the connection down
    answered,               \* client: responses it has received in full
    pooled,                 \* the session is in the session pool
    cycle,                  \* connections served (setup() calls)
    socket_open,            \* socket_ is engaged
    reads,                  \* outstanding async_read: [cyc, min]
    writes,                 \* outstanding async_write: connection
    posted,                 \* posted close_once closures: connection
    outgoing_queue,         \* buffers queued: "hdr" (response_header_) or "data" (d_)
    prepare_for_shutdown,   \* Session::prepare_for_shutdown_
    close_once_invoked,     \* close_once_flag_ has run its function
    http,                   \* per-request state of Session and Http, below
    halted,                 \* "no", or how the process stopped serving
    finalized,              \* history: finalize() calls
    announced               \* client: Connection lines of the response headers
                            \*   written to it on this connection

vars == <<sent, written, client_closed, answered, pooled, cycle, socket_open,
          reads, writes, posted, outgoing_queue, prepare_for_shutdown,
          close_once_invoked, http, halted, finalized, announced>>

ResponseHeader == [code : {200}, length : Nat, conn : {"Keep-Alive", "Close"}]

(* ready/hdr: request_header_; lo, hi: ubuf_ as stream offsets; br:       *)
(* bytes_received_; exp_set/exp: expected_data_chunck_sz_[_set_];         *)
(* attached, instrs, bp, dl: program_ (vm_, instructions_,                *)
(* bytes_processed_cnt_, download_size_); resp, sent: response_header_   *)
(* (what its buffer says, module HttpHeader, and sent_).                  *)
HttpState == [ready : BOOLEAN, hdr : Requests \cup {NoHeader}, lo : Nat,
              hi : Nat, br : Nat, exp_set : BOOLEAN, exp : Nat,
              attached : BOOLEAN, instrs : SUBSET Instr, bp : Nat, dl : Nat,
              resp : ResponseHeader, sent : BOOLEAN]

Halts == {"no", "terminated", "spinning", "undefined"}

TypeOK ==
    /\ sent \in Seq(Requests) /\ written \in Nat /\ answered \in Nat
    /\ client_closed \in BOOLEAN /\ pooled \in BOOLEAN /\ socket_open \in BOOLEAN
    /\ cycle \in 0..MaxCycles /\ finalized \in Nat
    /\ reads \in Seq([cyc : 1..MaxCycles, min : 1..MaxTransfer])
    /\ writes \in Seq(1..MaxCycles) /\ posted \in Seq(1..MaxCycles)
    /\ outgoing_queue \in Seq({"hdr", "data"})
    /\ prepare_for_shutdown \in BOOLEAN /\ close_once_invoked \in BOOLEAN
    /\ http \in HttpState
    /\ http.lo <= http.hi /\ http.hi <= written
    /\ halted \in Halts
    /\ announced \in Seq({"Keep-Alive", "Close"})

-----------------------------------------------------------------------------
(* The byte stream of the current connection.                              *)

RequestBytes(r) == [i \in 1..HeaderLen |-> IF i = HeaderLen THEN "e" ELSE "h"]
                     \o r.body
StreamOf(rs) == FoldLeft(LAMBDA acc, r : acc \o RequestBytes(r), <<>>, rs)
Stream == StreamOf(sent)
RequestStart(j) == Len(StreamOf(SubSeq(sent, 1, j - 1)))
RequestEnd(j) == RequestStart(j) + HeaderLen + ContentLength(sent[j].cl)

(* Session::data() / data_size(): the unconsumed bytes of ubuf_.           *)
Ubuf(h) == SubSeq(Stream, h.lo + 1, h.hi)

Running == halted = "no"

-----------------------------------------------------------------------------
(* Session's buffer and counter helpers, on the http record.              *)

(* consume(length): erase length bytes from the front of ubuf_; the       *)
(* default length 0 clears it.                                             *)
Consume(h, n) == [h EXCEPT !.lo = IF n = 0 THEN h.hi ELSE h.lo + n]

(* set_expected_data_length(len).                                          *)
SetExpectedDataLength(h, n) == [h EXCEPT !.exp = n, !.exp_set = TRUE]

(* check_finished(): the expected length is set and bytes_received_ has   *)
(* reached it.                                                             *)
CheckFinished(h) == h.exp_set /\ h.br >= h.exp

(* reset_buffers(): the expected length unset, the counters zeroed and    *)
(* ubuf_ cleared.                                                          *)
ResetBuffers(h) == [Consume(h, 0) EXCEPT !.exp_set = FALSE, !.exp = 0, !.br = 0]

-----------------------------------------------------------------------------
(* Http::on_data, as the set of its possible results: the feedback to     *)
(* the session and the state it leaves.                                    *)

(* HttpRequestHeader::find_request_header_end_offset: memmem for the      *)
(* terminator; the offset counts it.                                       *)
HeaderEnd(buf) == SelectInSeq(buf, LAMBDA b : b = "e")

(* http_parser_execute on the header: the fields of the request that      *)
(* starts where ubuf_ does, or nothing usable.                             *)
ParsedAt(lo) ==
    IF \E j \in 1..Len(sent) : RequestStart(j) = lo
      THEN sent[CHOOSE j \in 1..Len(sent) : RequestStart(j) = lo]
      ELSE NoHeader

(* Http::try_handle_header: parse, set_expected_data_length(content        *)
(* length), consume(header_end_offset).                                    *)
TryHandleHeader(h) ==
    LET e == HeaderEnd(Ubuf(h))
        f == ParsedAt(h.lo)
    IN  IF e = 0 THEN h
        ELSE Consume(SetExpectedDataLength([h EXCEPT !.ready = TRUE, !.hdr = f],
                                           ContentLength(f.cl)), e)

Result2(fb, h) == [fb |-> fb, h |-> h]

(* The instructions run by one feed(): all of them, in exec order, so the *)
(* last DOWNLOAD sets download_size_.                                      *)
LastDownload(S, dl) ==
    LET ds == {i \in S : i.op = "DOWNLOAD"}
    IN  IF ds = {} THEN dl
        ELSE (CHOOSE i \in ds : \A j \in ds : j.exec <= i.exec).operand

(* set_vm, feed(data, data_size, check_finished()), consume(); respond    *)
(* when finished.  feed() never returns when an instruction lies beyond   *)
(* the bytes processed (see module Program).                               *)
Feed(h) ==
    LET bp  == h.bp + (h.hi - h.lo)
        fin == CheckFinished(h)
        dl  == LastDownload(h.instrs, h.dl)
        h2  == [Consume(h, 0) EXCEPT !.attached = TRUE, !.bp = bp, !.instrs = {},
                         !.dl = dl, !.sent = h.sent \/ fin,
                         !.resp = IF fin THEN Prepare(200, dl, KeepAlive(h.hdr.lines))
                                         ELSE h.resp]
    IN  CASE \E i \in h.instrs : i.exec > bp -> Result2("spinning", h)
          [] fin                             -> Result2("kFinished", h2)
          [] OTHER                           -> Result2("kContinue", h2)

(* program_ = <parsed or sinkhole program>: Program::operator=(Program&&). *)
Assigned(h, prog) == [h EXCEPT !.instrs = prog, !.bp = 0, !.dl = 0]

(* The outcome of Program::try_parse on the /vscript/ path; a consume     *)
(* beyond the buffer erases past the end of ubuf_ (undefined behaviour).  *)
ParseOutcome(h, res) ==
    CASE res.status = "NEED_MORE_DATA" -> Result2("kContinue", h)
      [] res.status = "FAILED"         -> Result2("kClose", h)
      [] res.consume > h.hi - h.lo     -> Result2("undefined", h)
      [] OTHER -> Feed(Consume(Assigned(h, h.hdr.prog), res.consume))

(* The program is chosen by the url once the header is parsed.            *)
SelectProgram(h) ==
    CASE UrlPrefix(VscriptUrl, h.hdr.url) /\ ContentLength(h.hdr.cl) < 2
             -> {Result2("kClose", h)}
      [] UrlPrefix(VscriptUrl, h.hdr.url)
             -> {ParseOutcome(h, res) : res \in TryParse(Ubuf(h))}
      [] UrlPrefix(SinkholeUrl, h.hdr.url) -> {Feed(Assigned(h, {}))}
      [] OTHER -> {Result2("kClose", h)}

OnData(h) ==
    LET h1 == IF h.ready THEN h ELSE TryHandleHeader(h)
    IN  CASE ~h1.ready    -> {Result2("kContinue", h1)}
          [] h1.attached  -> {Feed(h1)}
          [] OTHER        -> SelectProgram(h1)

-----------------------------------------------------------------------------
(* Session::async_receive: the minimum transfer is 1 before the header is *)
(* parsed, then expected_data_chunck_sz_ - bytes_received_ capped at       *)
(* max_transfer_sz_.  The subtraction is unsigned: a count already past   *)
(* the expected length wraps to a huge remainder, and the cap applies.    *)
(* A remainder of 0 throws BadReceptionState out of the completion        *)
(* handler and through io_context::run(), which ends the process.         *)
ReceiveThrows(h) == h.exp_set /\ h.exp = h.br
NextTransfer(h) ==
    IF ~h.exp_set THEN 1
    ELSE IF h.exp > h.br THEN h.exp - h.br
    ELSE MaxTransfer
AsyncReceive(rs, h, c) ==
    IF ReceiveThrows(h) THEN rs ELSE Append(rs, [cyc |-> c, min |-> NextTransfer(h)])

(* DynamicQueue (outgoing_queue_): a std::queue of buffer pointers, each  *)
(* method under the queue's mutex; a buffer is "hdr" (response_header_'s) *)
(* or "data" (d_).                                                         *)
QueueEmpty(q) == q = <<>>
QueueFront(q) == Head(q)
QueuePush(q, b) == Append(q, b)
QueuePop(q) == Tail(q)
QueueCleared == <<>>

(* Session::send: queue the buffer, and start a write if the queue was    *)
(* idle.                                                                   *)
SendQueue(q, b) == QueuePush(q, b)
SendWrites(q, ws) == IF QueueEmpty(q) THEN Append(ws, cycle) ELSE ws

(* Fault variant: response_header_.reset() is left out of the reset.      *)
HttpResetKeepingSent(h) ==
    [h EXCEPT !.ready = FALSE, !.hdr = NoHeader, !.attached = FALSE,
              !.instrs = {}, !.exp_set = FALSE, !.exp = 0, !.br = 0, !.lo = h.hi]

(* Http::reset: program_.reset() (the VM is detached, the heap emptied),   *)
(* request_header_.reset(), response_header_.reset(), reset_buffers()      *)
(* (ubuf_ cleared, counters and the expected length unset).               *)
HttpReset(h) ==
    [ResetBuffers(h) EXCEPT !.ready = FALSE, !.hdr = NoHeader, !.attached = FALSE,
                            !.instrs = {}, !.sent = FALSE]

(* Fault variant: a whole kSendBufferSz is taken off the download.        *)
OnSentSubtractFull(h) ==
    CASE h.dl > 0 -> Result2("kData", [h EXCEPT !.dl = h.dl - SendBufSz])
      [] KeepAlive(h.hdr.lines) -> Result2("kContinue", HttpReset(h))
      [] OTHER    -> Result2("kClose", h)

(* Http::on_sent once the queue has drained: send the next get_data()     *)
(* chunk of the download (kData); else reset for the next request on      *)
(* keep-alive (kContinue), or close.                                      *)
OnSent(h) ==
    CASE h.dl > 0 -> Result2("kData", [h EXCEPT !.dl = IF SendBufSz > h.dl
                                                          THEN 0
                                                          ELSE h.dl - SendBufSz])
      [] KeepAlive(h.hdr.lines) -> Result2("kContinue", HttpReset(h))
      [] OTHER    -> Result2("kClose", h)

-----------------------------------------------------------------------------
(* The acceptor borrows the session from the pool: setup() engages the    *)
(* socket and resets close_once_flag_; session_start() runs Http::start() *)
(* (reset) and receive().  outgoing_queue_ and prepare_for_shutdown_ are  *)
(* left as the last connection left them.                                  *)
SetupKeepingFlag ==
    /\ Running /\ pooled /\ cycle < MaxCycles
    /\ pooled' = FALSE /\ cycle' = cycle + 1 /\ socket_open' = TRUE
    /\ http' = HttpReset([http EXCEPT !.hi = 0])
    /\ reads' = AsyncReceive(reads, HttpReset([http EXCEPT !.hi = 0]), cycle + 1)
    /\ sent' = <<>> /\ written' = 0 /\ client_closed' = FALSE /\ answered' = 0
    /\ announced' = <<>>
    /\ UNCHANGED <<writes, posted, outgoing_queue, prepare_for_shutdown,
                   close_once_invoked, halted, finalized>>

Setup ==
    /\ Running /\ pooled /\ cycle < MaxCycles
    /\ pooled' = FALSE /\ cycle' = cycle + 1 /\ socket_open' = TRUE
    /\ close_once_invoked' = FALSE
    /\ http' = HttpReset([http EXCEPT !.hi = 0])
    /\ reads' = AsyncReceive(reads, HttpReset([http EXCEPT !.hi = 0]), cycle + 1)
    /\ sent' = <<>> /\ written' = 0 /\ client_closed' = FALSE /\ answered' = 0
    /\ announced' = <<>>
    /\ UNCHANGED <<writes, posted, outgoing_queue, prepare_for_shutdown,
                   halted, finalized>>

(* The client starts a request once the previous one is answered and was  *)
(* keep-alive, writes it one byte at a time, and may close at any time.   *)
ClientBegin(r) ==
    /\ Running /\ socket_open /\ ~client_closed
    /\ written = Len(Stream) /\ answered = Len(sent) /\ Len(sent) < MaxRequests
    /\ sent # <<>> => KeepAlive(Last(sent).lines)
    /\ sent' = Append(sent, r) /\ written' = written + 1
    /\ UNCHANGED <<client_closed, answered, pooled, cycle, socket_open, reads,
                   writes, posted, outgoing_queue, prepare_for_shutdown,
                   close_once_invoked, http, halted, finalized, announced>>

ClientWrite ==
    /\ Running /\ socket_open /\ ~client_closed
    /\ written < Len(Stream)
    /\ written' = written + 1
    /\ UNCHANGED <<sent, client_closed, answered, pooled, cycle, socket_open,
                   reads, writes, posted, outgoing_queue, prepare_for_shutdown,
                   close_once_invoked, http, halted, finalized, announced>>

ClientClose ==
    /\ Running /\ ~pooled /\ ~client_closed
    /\ client_closed' = TRUE
    /\ UNCHANGED <<sent, written, answered, pooled, cycle, socket_open, reads,
                   writes, posted, outgoing_queue, prepare_for_shutdown,
                   close_once_invoked, http, halted, finalized, announced>>

-----------------------------------------------------------------------------
(* receive_event_cb after on_data: kContinue -> async_receive, kClose ->  *)
(* async_close (post close_once), kFinished -> nothing (respond() has     *)
(* queued the response header).                                            *)

(* Fault variant: kFinished is handled like kContinue.                    *)
ReadsAfterOnDataOnFinished(fb, rs, h) ==
    IF fb \in {"kContinue", "kFinished"} THEN AsyncReceive(rs, h, cycle) ELSE rs

ReadsAfterOnData(fb, rs, h) ==
    IF fb = "kContinue" THEN AsyncReceive(rs, h, cycle) ELSE rs

(* Fault variant: no break after async_receive(), kContinue falls into   *)
(* the kClose case.                                                        *)
PostsAfterOnDataFallThrough(fb) ==
    IF fb \in {"kContinue", "kClose"} THEN Append(posted, cycle) ELSE posted

PostsAfterOnData(fb) == IF fb = "kClose" THEN Append(posted, cycle) ELSE posted

HaltAfterOnData(fb, h) ==
    CASE fb \in {"spinning", "undefined"}      -> fb
      [] fb = "kContinue" /\ ReceiveThrows(h)  -> "terminated"
      [] OTHER                                 -> halted

(* A read of the current connection completes with k bytes: at least its *)
(* minimum, at most what the client has written beyond ubuf_.             *)
ReadData(i, k) ==
    LET h == [http EXCEPT !.hi = @ + k, !.br = @ + k]
    IN  /\ Running /\ socket_open /\ reads[i].cyc = cycle
        /\ reads[i].min <= k /\ http.hi + k <= written
        /\ \E o \in OnData(h) :
             /\ http' = o.h
             /\ reads' = ReadsAfterOnData(o.fb, RemoveAt(reads, i), o.h)
             /\ posted' = PostsAfterOnData(o.fb)
             /\ outgoing_queue' = IF o.fb = "kFinished"
                                    THEN SendQueue(outgoing_queue, "hdr")
                                    ELSE outgoing_queue
             /\ writes' = IF o.fb = "kFinished"
                            THEN SendWrites(outgoing_queue, writes)
                            ELSE writes
             /\ halted' = HaltAfterOnData(o.fb, o.h)
        /\ UNCHANGED <<sent, written, client_closed, answered, pooled, cycle,
                       socket_open, prepare_for_shutdown, close_once_invoked,
                       finalized, announced>>

(* A read completes with an error: eof from a client that closed before   *)
(* the minimum arrived, or operation_aborted for a read whose socket was  *)
(* closed by finalize().  report_error, then async_close(error).           *)
ReadFails(i) ==
    /\ Running
    /\ \/ reads[i].cyc # cycle \/ ~socket_open
       \/ client_closed /\ written - http.hi < reads[i].min
    /\ reads' = RemoveAt(reads, i)
    /\ posted' = Append(posted, cycle)
    /\ UNCHANGED <<sent, written, client_closed, answered, pooled, cycle,
                   socket_open, writes, outgoing_queue, prepare_for_shutdown,
                   close_once_invoked, http, halted, finalized, announced>>

(* send_event_cb without error: pop the buffer; write the next one, or    *)
(* call on_sent and act on its feedback; then a deferred close is posted  *)
(* again if prepare_for_shutdown_ is set.  A peer that has closed may     *)
(* still accept the bytes.                                                 *)
WriteDone(i) ==
    LET q  == QueuePop(outgoing_queue)
        ws == RemoveAt(writes, i)
        o  == OnSent(http)
    IN  /\ Running /\ socket_open /\ writes[i] = cycle /\ outgoing_queue # <<>>
        /\ announced' = IF QueueFront(outgoing_queue) = "hdr"
                           THEN Append(announced, http.resp.conn) ELSE announced
        /\ IF ~QueueEmpty(q)
             THEN /\ outgoing_queue' = q /\ writes' = Append(ws, cycle)
                  /\ UNCHANGED <<http, reads, posted, answered, prepare_for_shutdown>>
             ELSE /\ http' = o.h
                  /\ outgoing_queue' = IF o.fb = "kData" THEN SendQueue(q, "data") ELSE q
                  /\ writes' = IF o.fb = "kData" THEN SendWrites(q, ws) ELSE ws
                  /\ reads' = IF o.fb = "kContinue"
                                THEN AsyncReceive(reads, o.h, cycle) ELSE reads
                  /\ posted' = posted \o (IF o.fb = "kClose" THEN <<cycle>> ELSE <<>>)
                                      \o (IF prepare_for_shutdown THEN <<cycle>> ELSE <<>>)
                  /\ prepare_for_shutdown' = FALSE
                  /\ answered' = IF o.fb = "kData" THEN answered ELSE answered + 1
        /\ UNCHANGED <<sent, written, client_closed, pooled, cycle, socket_open,
                       close_once_invoked, halted, finalized>>

(* send_event_cb with an error (the peer reset the connection, or the     *)
(* socket was closed under the write): clear the queue, async_close.      *)
WriteFails(i) ==
    /\ Running
    /\ writes[i] # cycle \/ ~socket_open \/ client_closed
    /\ writes' = RemoveAt(writes, i)
    /\ outgoing_queue' = QueueCleared
    /\ posted' = Append(posted, cycle)
    /\ UNCHANGED <<sent, written, client_closed, answered, pooled, cycle,
                   socket_open, reads, prepare_for_shutdown, close_once_invoked,
                   http, halted, finalized, announced>>

(* finalize(): socket_ = nullopt (pending operations complete with        *)
(* operation_aborted), on_closed -> program_.reset(), the strand and the  *)
(* context are given back (module Server), and finalized_ puts the        *)
(* session back into the pool.                                             *)
Finalize ==
    /\ close_once_invoked' = TRUE
    /\ socket_open' = FALSE
    /\ http' = [http EXCEPT !.attached = FALSE, !.instrs = {}]
    /\ pooled' = TRUE
    /\ finalized' = finalized + 1

(* A posted close_once runs: it defers while the queue holds buffers,     *)
(* otherwise close_once_flag_.run_once(finalize).                         *)
CloseOnce(i) ==
    /\ Running
    /\ posted' = RemoveAt(posted, i)
    /\ IF ~QueueEmpty(outgoing_queue)
         THEN /\ prepare_for_shutdown' = TRUE
              /\ UNCHANGED <<socket_open, close_once_invoked, http, pooled, finalized>>
       ELSE IF close_once_invoked
         THEN UNCHANGED <<prepare_for_shutdown, socket_open, close_once_invoked,
                          http, pooled, finalized>>
       ELSE /\ Finalize /\ UNCHANGED prepare_for_shutdown
    /\ UNCHANGED <<sent, written, client_closed, answered, cycle, reads, writes,
                   outgoing_queue, halted, announced>>

(* The process has stopped serving (terminated, a handler that never      *)
(* returns, or undefined behaviour), or the session has served its last   *)
(* connection.                                                             *)
Halt == ~Running /\ UNCHANGED vars
Done == Running /\ pooled /\ cycle = MaxCycles /\ UNCHANGED vars

Init ==
    /\ sent = <<>> /\ written = 0 /\ client_closed = FALSE /\ answered = 0
    /\ pooled = TRUE /\ cycle = 0 /\ socket_open = FALSE
    /\ reads = <<>> /\ writes = <<>> /\ posted = <<>> /\ outgoing_queue = <<>>
    /\ prepare_for_shutdown = FALSE /\ close_once_invoked = FALSE
    /\ http = [ready |-> FALSE, hdr |-> NoHeader, lo |-> 0, hi |-> 0, br |-> 0,
               exp_set |-> FALSE, exp |-> 0, attached |-> FALSE, instrs |-> {},
               bp |-> 0, dl |-> 0, resp |-> Prepare(200, 0, FALSE), sent |-> FALSE]
    /\ halted = "no" /\ finalized = 0 /\ announced = <<>>

Next ==
    \/ Setup
    \/ \E r \in Requests : ClientBegin(r)
    \/ ClientWrite \/ ClientClose
    \/ \E i \in DOMAIN reads :
          ReadFails(i) \/ \E k \in 1..MaxTransfer : ReadData(i, k)
    \/ \E i \in DOMAIN writes : WriteDone(i) \/ WriteFails(i)
    \/ \E i \in DOMAIN posted : CloseOnce(i)
    \/ Halt \/ Done

(* The reactor runs every completion that is ready; the client finishes   *)
(* writing what it has begun and closes its side at some point.           *)
Fairness ==
    /\ WF_vars(\E i \in DOMAIN reads, k \in 1..MaxTransfer : ReadData(i, k))
    /\ WF_vars(\E i \in DOMAIN reads : ReadFails(i))
    /\ WF_vars(\E i \in DOMAIN writes : WriteDone(i) \/ WriteFails(i))
    /\ WF_vars(\E i \in DOMAIN posted : CloseOnce(i))
    /\ WF_vars(ClientWrite) /\ WF_vars(ClientClose)

Spec == Init /\ [][Next]_vars /\ Fairness

-----------------------------------------------------------------------------
(* Properties                                                              *)

(* The send/receive interlock of the Session state machine: at most one   *)
(* read and one write in flight, and no read in flight while responses    *)
(* are queued, so a client that goes away in the middle of a response is *)
(* seen by the write and never by a read that would close the session     *)
(* under it.                                                               *)
SendReceiveInterlock ==
    /\ Len(reads) <= 1 /\ Len(writes) <= 1
    /\ reads # <<>> => outgoing_queue = <<>>

(* Spec properties 1 and 9: a session back in the pool has been finalized *)
(* once per borrow, and nothing of its connection is still pending: no    *)
(* read, write or posted close_once that would complete on the next       *)
(* borrower's connection.                                                  *)
CleanReturn ==
    pooled => /\ finalized = cycle
              /\ reads = <<>> /\ writes = <<>> /\ posted = <<>>

(* Http::respond asserts !response_header_.is_sent(): a response header  *)
(* is only queued for a request that has not been answered yet, also on  *)
(* the second request of a keep-alive connection.                          *)
HeaderQueued == Len(outgoing_queue') > Len(outgoing_queue)
                    /\ Last(outgoing_queue') = "hdr"
RespondOnce == [][HeaderQueued => ~http.sent]_vars

(* The Connection line of a response tells the client what the session   *)
(* does next, and the session does it: Http::respond writes               *)
(* get_keep_alive() into the header and Http::on_sent later decides on    *)
(* the same flag.  A response followed by another on the same connection  *)
(* said Keep-Alive; after a response that said Close no read of the       *)
(* connection is pending.                                                  *)
ConnectionLineHonoured ==
    /\ \A k \in 1..Len(announced) - 1 : announced[k] = "Keep-Alive"
    /\ announced # <<>> /\ Last(announced) = "Close"
         => \A i \in DOMAIN reads : reads[i].cyc # cycle

(* Every connection ends with the session back in the pool, once the      *)
(* client has closed, unless the process has stopped serving.             *)
SessionReturns == [](~pooled => <>(pooled \/ ~Running))

(* Spec property 5: a response is sent only once the request's body (its *)
(* declared Content-Length) has been received in full.                     *)
ResponseAfterBody ==
    http.sent => answered < Len(sent) /\ http.hi >= RequestEnd(answered + 1)

(* async_receive waits only for bytes the client still has to send for   *)
(* the request being read, and is never entered with the expected length *)
(* already received ("async_receive should not have been called if       *)
(* expected remaining data size is zero", BadReceptionState).             *)
ReadWithinRequest ==
    /\ halted # "terminated"
    /\ \A i \in DOMAIN reads :
          reads[i].cyc = cycle /\ http.ready /\ answered < Len(sent)
            => reads[i].min <= RequestEnd(answered + 1) - http.hi
(* The acquire-cycle state of spec section 4.4, read off the session: in   *)
(* the pool; closing once a close_once is posted or deferred; draining     *)
(* while buffers are queued; reading otherwise.                            *)
CycleState ==
    CASE pooled                                     -> "IDLE"
      [] posted # <<>> \/ prepare_for_shutdown      -> "CLOSING"
      [] ~QueueEmpty(outgoing_queue)                -> "DRAINING"
      [] OTHER                                      -> "READING"

SC == INSTANCE SessionCycle
        WITH state <- CycleState, responses <- answered

(* Spec section 4.4: the session follows its per-cycle state machine.     *)
(* Every step of the completion handlers, the client and the pool is a    *)
(* SessionCycle step or leaves the cycle state alone: a response is only   *)
(* delivered by the drain of a response the protocol finished, a close    *)
(* once posted is never followed by more reading or responding, and       *)
(* finalize runs once per cycle, from CLOSING.                             *)
ImplementsSessionCycle == SC!Spec
=============================================================================
