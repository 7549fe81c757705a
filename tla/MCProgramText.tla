---------------------------- MODULE MCProgramText ----------------------------
EXTENDS ProgramText

Str(bs) == [t |-> "str", s |-> bs]
Obj(f) == [t |-> "obj", o |-> f]
Line(exec, name, operand) == Obj(exec :> Obj(name :> Str(operand)))

(* Well-formed texts; an unknown opcode; an instruction object with two   *)
(* opcodes; a key stoul cannot read; a number for an operand; a number    *)
(* for a line.                                                             *)
MCJsons ==
    { << Line(<<"0">>, "DOWNLOAD", <<"1", "2">>) >>,
      << Line(<<"1">>, "LOCK", <<"2">>), Line(<<"2">>, "UNLOCK", <<"2">>) >>,
      << Line(<<"0">>, "FOO", <<"1">>) >>,
      << Obj(<<"0">> :> Obj(("LOCK" :> Str(<<"2">>)) @@ ("UNLOCK" :> Str(<<"2">>)))) >>,
      << Line(<<"x">>, "LOCK", <<"1">>) >>,
      << Obj(<<"0">> :> Obj("LOCK" :> [t |-> "num"])) >>,
      << [t |-> "num"] >> }
=============================================================================
