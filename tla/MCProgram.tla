------------------------------ MODULE MCProgram ------------------------------
EXTENDS Program

(* A sinkhole, a DOWNLOAD due at once, a program whose instructions are   *)
(* due later in the body, and two instructions sharing an exec point.     *)
MCTexts ==
    { {},
      {[exec |-> 0, op |-> "DOWNLOAD", operand |-> 3]},
      {[exec |-> 1, op |-> "SLEEP", operand |-> 0],
       [exec |-> 2, op |-> "DOWNLOAD", operand |-> 1]},
      {[exec |-> 0, op |-> "LOCK", operand |-> 7],
       [exec |-> 0, op |-> "DOWNLOAD", operand |-> 2]} }
=============================================================================
