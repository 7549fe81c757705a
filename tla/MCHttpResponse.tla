---------------------------- MODULE MCHttpResponse ----------------------------
EXTENDS HttpResponse

(* A sinkhole; a DOWNLOAD due at once whose body takes two get_data()      *)
(* chunks of kSendBufferSz and whose Content-Length has six digits; a      *)
(* program whose instructions are due later in the body; two instructions *)
(* sharing an exec point, with a three-digit Content-Length.               *)
MCTexts ==
    { {},
      {[exec |-> 0, op |-> "DOWNLOAD", operand |-> 100000]},
      {[exec |-> 1, op |-> "SLEEP", operand |-> 0],
       [exec |-> 2, op |-> "DOWNLOAD", operand |-> 1]},
      {[exec |-> 0, op |-> "LOCK", operand |-> 7],
       [exec |-> 0, op |-> "DOWNLOAD", operand |-> 100]} }
=============================================================================
