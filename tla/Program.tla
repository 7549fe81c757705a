------------------------------- MODULE Program -------------------------------
(***************************************************************************)
(* The execution side of Program (src/src/program.hpp) as Http drives it:  *)
(* a parsed program is a min-heap of instructions keyed by exec point;     *)
(* feed() adds the length of a chunk of the request body to                *)
(* bytes_processed_cnt_ and runs the instructions whose exec point has     *)
(* been reached; once the body is finished Http::on_sent streams the       *)
(* download in get_data() chunks of kSendBufferSz; reset() drops the heap  *)
(* and detaches the VM.                                                    *)
(*                                                                         *)
(* Only DOWNLOAD changes the program's own state; LOCK and UNLOCK act on   *)
(* the VM (module LSVM), SLEEP and LOOP only spend time.  Program::stop()  *)
(* has no caller, so cancellation_request_ stays false and is left out.    *)
(***************************************************************************)
EXTENDS Naturals, Sequences, FiniteSets, FiniteSetsExt

CONSTANTS
    Texts,      \* the instruction sets of the programs clients send
    MaxBytes,   \* bound on bytes_processed_cnt_ (the body length)
    SendBufSz   \* kSendBufferSz, in the unit of download sizes

Instr == [exec : Nat, op : {"DOWNLOAD", "LOCK", "UNLOCK", "SLEEP", "LOOP"},
          operand : Nat]

ASSUME Texts \subseteq SUBSET Instr /\ SendBufSz > 0

VARIABLES
    instructions,       \* Program::instructions_ (the heap, as a set)
    bytes_processed,    \* Program::bytes_processed_cnt_
    finished,           \* Program::finished_
    download,           \* Program::download_size_
    result_code,        \* Program::result_code_
    attached,           \* Program::vm_ # nullptr (operator bool)
    pc,                 \* "idle", or "feeding" inside feed()
    eofArg,             \* the eof argument of the feed() in progress
    ran,                \* history: instructions run since the last parse
    streamed            \* history: download bytes handed to get_data()

vars == <<instructions, bytes_processed, finished, download, result_code,
          attached, pc, eofArg, ran, streamed>>

TypeOK ==
    /\ instructions \in SUBSET Instr
    /\ bytes_processed \in 0..MaxBytes
    /\ finished \in BOOLEAN /\ attached \in BOOLEAN /\ eofArg \in BOOLEAN
    /\ download \in Nat /\ result_code \in {200}
    /\ pc \in {"idle", "feeding"}
    /\ ran \in Seq([instr : Instr, at : 0..MaxBytes])
    /\ streamed \in Nat

(* Http's program_ before the first request: a default Program.            *)
Init ==
    /\ instructions = {}
    /\ bytes_processed = 0
    /\ finished = FALSE
    /\ download = 0
    /\ result_code = 200
    /\ attached = FALSE
    /\ pc = "idle"
    /\ eofArg = FALSE
    /\ ran = <<>>
    /\ streamed = 0

(* Fault variant: the move assignment leaves download_size_ as it was.    *)
AssignKeepingDownload(text) ==
    /\ pc = "idle" /\ ~attached
    /\ instructions' = text
    /\ bytes_processed' = 0
    /\ finished' = FALSE
    /\ result_code' = 200
    /\ ran' = <<>>
    /\ streamed' = 0
    /\ UNCHANGED <<download, attached, pc, eofArg>>

(* Program::operator=(Program&&), as Http::on_data assigns the result of  *)
(* try_parse (a /vscript/ request) or of Program::sinkhole() (no          *)
(* instructions) to program_ when it is empty; the assignment clears every *)
(* field but the heap, which it takes over.                                *)
Assign(text) ==
    /\ pc = "idle" /\ ~attached
    /\ instructions' = text
    /\ bytes_processed' = 0
    /\ finished' = FALSE
    /\ download' = 0
    /\ result_code' = 200
    /\ ran' = <<>>
    /\ streamed' = 0
    /\ UNCHANGED <<attached, pc, eofArg>>

(* Http::on_data: program_.set_vm(&vm_) and then feed(data, len, eof),     *)
(* where len is the size of the buffered body and eof is check_finished(). *)
(* The session stops feeding once a feed has reported the body finished.  *)
Feed(len, eof) ==
    /\ pc = "idle" /\ ~finished
    /\ bytes_processed + len <= MaxBytes
    /\ attached' = TRUE
    /\ bytes_processed' = bytes_processed + len
    /\ eofArg' = eof
    /\ pc' = "feeding"
    /\ UNCHANGED <<instructions, finished, download, result_code, ran, streamed>>

(* instructions_.top() under OpCompare (left > right): a least exec point. *)
TopOf(S) == {i \in S : \A j \in S : i.exec <= j.exec}

(* The loop condition: !cancellation_request_ && instructions_.size() > 0. *)
HasNext == instructions # {}

(* Op::run: DownloadOp::run calls set_result_code(200) and               *)
(* set_downloaded_size(operand); LockOp and UnlockOp act on the VM (module *)
(* LSVM); SleepOp and LoopOp only spend time.                              *)
SetResultCode(code) == result_code' = code
SetDownloadedSize(sz) == download' = sz

RunOp(i) ==
    IF i.op = "DOWNLOAD"
      THEN SetResultCode(200) /\ SetDownloadedSize(i.operand)
      ELSE UNCHANGED <<result_code, download>>

(* One pass of the loop in feed() whose top instruction has been reached: *)
(* run it and pop it.                                                      *)
FeedRun ==
    /\ pc = "feeding" /\ HasNext
    /\ \E i \in TopOf(instructions) :
         /\ bytes_processed >= i.exec
         /\ instructions' = instructions \ {i}
         /\ ran' = Append(ran, [instr |-> i, at |-> bytes_processed])
         /\ RunOp(i)
    /\ UNCHANGED <<bytes_processed, finished, attached, pc, eofArg, streamed>>

(* One pass of the same loop whose top instruction lies beyond the bytes   *)
(* processed: the if fails and the loop goes round again with nothing      *)
(* changed.                                                                *)
FeedSpin ==
    /\ pc = "feeding" /\ HasNext
    /\ \E i \in TopOf(instructions) : bytes_processed < i.exec
    /\ UNCHANGED vars

(* The loop ends with the heap empty: return (finished_ = eof).           *)
FeedReturn ==
    /\ pc = "feeding" /\ ~HasNext
    /\ finished' = eofArg
    /\ pc' = "idle"
    /\ UNCHANGED <<instructions, bytes_processed, download, result_code,
                   attached, eofArg, ran, streamed>>

(* has_more_data(): asserts finished_, then download_size_ > 0.           *)
HasMoreData == finished /\ download > 0

(* Fault variant: a full kSendBufferSz is subtracted from the remainder.  *)
GetDataSubtractFull ==
    /\ pc = "idle" /\ finished /\ download > 0
    /\ download' = download - SendBufSz
    /\ streamed' = streamed + (IF SendBufSz > download THEN download ELSE SendBufSz)
    /\ UNCHANGED <<instructions, bytes_processed, finished, result_code,
                   attached, pc, eofArg, ran>>

(* Http::on_sent while has_more_data(): get_data() hands out               *)
(* min(kSendBufferSz, download_size_) bytes and subtracts them.            *)
GetData ==
    /\ pc = "idle" /\ HasMoreData
    /\ LET n == IF SendBufSz > download THEN download ELSE SendBufSz
       IN  /\ download' = download - n
           /\ streamed' = streamed + n
    /\ UNCHANGED <<instructions, bytes_processed, finished, result_code,
                   attached, pc, eofArg, ran>>

(* Program::reset() (Http::reset between requests, Http::on_closed): the  *)
(* VM cleans up this identity's resources, the heap is emptied and the VM *)
(* is detached; the other fields keep their values.                        *)
Reset ==
    /\ pc = "idle"
    /\ instructions' = {}
    /\ attached' = FALSE
    /\ UNCHANGED <<bytes_processed, finished, download, result_code, pc,
                   eofArg, ran, streamed>>

Next ==
    \/ \E t \in Texts : Assign(t)
    \/ \E len \in 0..MaxBytes, eof \in BOOLEAN : Feed(len, eof)
    \/ FeedRun \/ FeedSpin \/ FeedReturn
    \/ GetData
    \/ Reset

(* The loop and the streaming run on a reactor thread that keeps running. *)
Spec == Init /\ [][Next]_vars /\ WF_vars(FeedRun) /\ WF_vars(FeedReturn)

-----------------------------------------------------------------------------
(* Properties                                                              *)

(* The response streams what the program asked for, and no more: the      *)
(* bytes handed out by get_data() since the program was assigned plus the  *)
(* rest of download_size_ are the operand of its last DOWNLOAD, or nothing *)
(* when none ran (a sinkhole answers with Content-Length 0), even when the *)
(* previous request on the session was cut off in the middle of its       *)
(* download.                                                               *)
DownloadAccounted ==
    LET downloads == {k \in 1..Len(ran) : ran[k].instr.op = "DOWNLOAD"}
    IN  streamed + download =
          IF downloads = {} THEN 0 ELSE ran[Max(downloads)].instr.operand

(* Every call of feed() returns: the loop ends once the heap is empty.     *)
FeedReturns == [](pc = "feeding" => <>(pc = "idle"))
=============================================================================
