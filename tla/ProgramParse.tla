---------------------------- MODULE ProgramParse ----------------------------
(***************************************************************************)
(* Program::try_parse of src/src/program.hpp as an operator over the bytes *)
(* of a request body, beside the reference the wire protocol gives: the    *)
(* body of a /vscript/ request is "<N>\n" followed by N bytes of program   *)
(* text, and a parse that succeeds consumes digits(N) + 1 + N bytes.       *)
(*                                                                         *)
(* Bytes are abstracted to an alphabet: decimal digits, the header end     *)
(* marker "\n", "j" (a byte of a well-formed program text) and "x" (any    *)
(* other byte).  A program text is well-formed when it is not empty and    *)
(* all of its bytes are "j" (the JSON parse of Program(std::string_view)   *)
(* and LSVMOps::instantiate succeed).                                      *)
(***************************************************************************)
EXTENDS Naturals, Sequences, SequencesExt

Digits == {"0", "1", "2"}
DigitVal == [d \in Digits |-> IF d = "0" THEN 0 ELSE IF d = "1" THEN 1 ELSE 2]
Bytes == Digits \cup {"\n", "j", "x"}

(* ProgramParseStatus, with the consume_len out-parameter.                 *)
Result(status, consume) == [status |-> status, consume |-> consume]
NeedMore == Result("NEED_MORE_DATA", 0)
Failed   == Result("FAILED", 0)

(* std::stoul on the first line: leading digits are read and the rest of  *)
(* the line is ignored; a line that does not start with a digit throws.   *)
DigitRun(s) ==
    LET k == SelectInSeq(s, LAMBDA b : b \notin Digits)
    IN  SubSeq(s, 1, IF k = 0 THEN Len(s) ELSE k - 1)
StoulParses(s) == Len(DigitRun(s)) > 0
Stoul(s) == FoldLeft(LAMBDA acc, d : 10 * acc + DigitVal[d], 0, DigitRun(s))

WellFormedText(t) == Len(t) > 0 /\ \A i \in 1..Len(t) : t[i] = "j"

(* The JSON parse of std::string_view{prog_start, prog_len}: the text      *)
(* starts at position from and is n bytes long.  When the text runs past   *)
(* the received data the parse reads bytes beyond the end of ubuf_, whose  *)
(* contents the program does not determine: a text whose received part is  *)
(* already malformed fails, otherwise either outcome is possible.          *)
ParseText(data, from, n) ==
    LET last == from + n - 1
        seen == SubSeq(data, from, IF last <= Len(data) THEN last ELSE Len(data))
    IN  IF last <= Len(data)
          THEN IF WellFormedText(seen) THEN {Result("SUCCESS", last)} ELSE {Failed}
          ELSE IF \A i \in 1..Len(seen) : seen[i] = "j"
                 THEN {Result("SUCCESS", last), Failed}
                 ELSE {Failed}

(* Program::try_parse: find the first "\n" (pheader_end = nl - 1), stoul   *)
(* the line before it, retry later when prog_len > len, fail on a zero     *)
(* length, then parse the text and consume pheader_end + 1 + prog_len.     *)
TryParse(data) ==
    LET nl == SelectInSeq(data, LAMBDA b : b = "\n")
        pheader == SubSeq(data, 1, nl - 1)
    IN  IF nl = 0 THEN {NeedMore}
        ELSE IF ~StoulParses(pheader) THEN {Failed}
        ELSE IF Stoul(pheader) > Len(data) THEN {NeedMore}
        ELSE IF Stoul(pheader) = 0 THEN {Failed}
        ELSE ParseText(data, nl + 1, Stoul(pheader))

(* The reference: more data is needed until the whole text is present.     *)
RefTryParse(data) ==
    LET nl == SelectInSeq(data, LAMBDA b : b = "\n")
        pheader == SubSeq(data, 1, nl - 1)
        n == Stoul(pheader)
    IN  IF nl = 0 THEN NeedMore
        ELSE IF ~StoulParses(pheader) \/ n = 0 THEN Failed
        ELSE IF nl + n > Len(data) THEN NeedMore
        ELSE IF WellFormedText(SubSeq(data, nl + 1, nl + n))
               THEN Result("SUCCESS", nl + n)
               ELSE Failed
=============================================================================
