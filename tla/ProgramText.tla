----------------------------- MODULE ProgramText -----------------------------
(***************************************************************************)
(* Program::Program(std::string_view) of src/src/program.hpp and           *)
(* OpList::instantiate of src/src/vm_instructions_list.hpp as operators on *)
(* the JSON value nlohmann::json::parse makes of a program text, beside    *)
(* the reference spec section 4.7 gives: a text is an array of lines       *)
(* {"<exec_point>": {"<OPCODE>": "<operand>"}}, OPCODE one of the five     *)
(* supported ones, and anything else is malformed (try_parse FAILED).      *)
(*                                                                         *)
(* A JSON value is a record tagged "str" (its bytes, over the alphabet of  *)
(* module ProgramParse), "obj" (a function from keys to values) or "num".  *)
(* The keys of a line are byte strings; the keys of an instruction object *)
(* are opcode names.                                                       *)
(***************************************************************************)
EXTENDS ProgramParse, FiniteSets

CONSTANT Jsons      \* the JSON values of the program texts clients send

VARIABLE text       \* the text of the Program being constructed

(* LSVMOps = OpList<DownloadOp, LockOp, UnlockOp, SleepOp, LoopOp>: the    *)
(* name_ of each Op type, in type-list order.                              *)
OpNames == <<"DOWNLOAD", "LOCK", "UNLOCK", "SLEEP", "LOOP">>

(* The opcode names of the texts here in std::string order (bytewise);    *)
(* "FOO" stands for any name no Op type has.                               *)
NameOrder == <<"DOWNLOAD", "FOO", "LOCK", "LOOP", "SLEEP", "UNLOCK">>
Rank(n) == CHOOSE k \in 1..Len(NameOrder) : NameOrder[k] = n

(* What instantiate returns for a name no Op type has: OpList<>'s          *)
(* OpPtr{nullptr, ...}.                                                    *)
NullOp == [op |-> "null"]

(* OpList<H, T...>::instantiate(name, exec_point, operand): H's            *)
(* get_instance (a pooled op, set_args) when name == H::name_, else the    *)
(* base OpList<T...>; past the last type, the null OpPtr.                  *)
RECURSIVE InstantiateFrom(_, _, _, _)
InstantiateFrom(k, name, exec, operand) ==
    IF k > Len(OpNames) THEN NullOp
    ELSE IF name = OpNames[k]
           THEN [exec |-> exec, op |-> name, operand |-> operand]
           ELSE InstantiateFrom(k + 1, name, exec, operand)

Instantiate(name, exec, operand) == InstantiateFrom(1, name, exec, operand)

(* The outcome of constructing a Program: the BadProgram exception, or the *)
(* instructions_ heap it built.                                            *)
BadProgram == [ok |-> FALSE, heap |-> {}]
Built(heap) == [ok |-> TRUE, heap |-> heap]

(* The conversions of the constructor that throw (and so make it throw     *)
(* BadProgram): a line that is not an object for std::map<std::string,     *)
(* json>; a key stoul cannot read; an instruction that is not an object of *)
(* strings for std::map<std::string, std::string>.                          *)
LineConverts(line) == line.t = "obj"
InstrConverts(v) == v.t = "obj" /\ \A n \in DOMAIN v.o : v.o[n].t = "str"

(* inst.begin(): the least opcode name of an instruction object.           *)
FirstName(o) == CHOOSE n \in DOMAIN o : \A m \in DOMAIN o : Rank(n) <= Rank(m)

(* The (line, key) pairs the two loops of the constructor visit.           *)
Entries(json) ==
    UNION {{<<i, k>> : k \in DOMAIN json[i].o} : i \in 1..Len(json)}

(* Program::Program(json_str): every entry must convert and its first      *)
(* operand must stoul; the heap gets what instantiate returns for each.    *)
(* Only texts whose instruction objects are not empty are read here: on an *)
(* empty one inst.begin() is the end iterator.                             *)
ProgramOf(json) ==
    LET Val(e) == json[e[1]].o[e[2]]
        Op1(e) == Val(e).o[FirstName(Val(e).o)].s
    IN  IF \E i \in 1..Len(json) : ~LineConverts(json[i]) THEN BadProgram
        ELSE IF \E e \in Entries(json) :
                  \/ ~StoulParses(e[2])
                  \/ ~InstrConverts(Val(e))
                  \/ ~StoulParses(Op1(e))
               THEN BadProgram
        ELSE Built({Instantiate(FirstName(Val(e).o), Stoul(e[2]), Stoul(Op1(e))) :
                      e \in Entries(json)})

(* The reference: a line maps exec points to objects of exactly one       *)
(* supported opcode whose operand is a decimal string.                     *)
RefProgram(json) ==
    LET Val(e) == json[e[1]].o[e[2]]
        WellFormed(e) ==
            /\ StoulParses(e[2])
            /\ Val(e).t = "obj"
            /\ Cardinality(DOMAIN Val(e).o) = 1
            /\ \A n \in DOMAIN Val(e).o :
                 /\ \E k \in 1..Len(OpNames) : OpNames[k] = n
                 /\ Val(e).o[n].t = "str" /\ StoulParses(Val(e).o[n].s)
        Instr1(e) == LET n == CHOOSE m \in DOMAIN Val(e).o : TRUE
                     IN  [exec |-> Stoul(e[2]), op |-> n,
                          operand |-> Stoul(Val(e).o[n].s)]
    IN  IF /\ \A i \in 1..Len(json) : LineConverts(json[i])
           /\ \A e \in Entries(json) : WellFormed(e)
          THEN Built({Instr1(e) : e \in Entries(json)})
          ELSE BadProgram

Init == text \in Jsons
Next == UNCHANGED text
Spec == Init /\ [][Next]_text

(* Program(std::string_view) builds the heap the text describes: the      *)
(* instructions of a well-formed text, and BadProgram (try_parse FAILED,   *)
(* the session closed) for every other text, as spec section 4.7 has it.  *)
ConstructorMatchesFormat == ProgramOf(text) = RefProgram(text)
=============================================================================
