----------------------------- MODULE MCReadings -----------------------------
(***************************************************************************)
(* Listings for TLC: every opcode of the tables on a line of its own, every*)
(* form of operand in every place of some opcodes, and kernels of three    *)
(* and four instructions over two registers for the two analyses.          *)
(***************************************************************************)
EXTENDS Readings

W(form, sign, name, n, suffix) ==
  [form |-> form, sign |-> sign, bars |-> FALSE, reg |-> <<name, n>>, suffix |-> suffix,
   index |-> Nowhere, bank |-> 0, offset |-> 0, desc |-> Nowhere]
R(n) == W("register", "", "R", n, "")
RZ == W("register", "", "RZ", 0, "")
P(n) == W("register", "", "P", n, "")
PT == W("register", "", "PT", 0, "")
Int_(n) == [W("integer", "", "", 0, "") EXCEPT !.offset = n]
Memory(name, n, suffix, offset) == [W("memory", "", name, n, suffix) EXCEPT !.offset = offset]
Guard(sign, name, n) == W("guard", sign, name, n, "")

RegistersWritten ==
  {W("register", sign, name, n, suffix) :
     sign \in {"", "-", "~", "!"}, name \in {"R", "UR", "P", "UP"}, n \in {0, 1},
     suffix \in {"", "64", "reuse", "H1_H1"}} \cup
  {W("register", sign, name, 0, suffix) :
     sign \in {"", "-", "!"}, name \in {"RZ", "URZ", "PT", "UPT", "SRZ"}, suffix \in {"", "reuse"}} \cup
  {W("register", "", name, 0, "") : name \in SpecialNames} \cup
  {[W("register", sign, "R", 2, "") EXCEPT !.bars = TRUE] : sign \in {"", "-"}}
OthersWritten ==
  {[W("constant", sign, "", 0, "") EXCEPT !.bars = b, !.index = i, !.bank = 3, !.offset = 352] :
     sign \in {"", "-", "~"}, b \in BOOLEAN, i \in {Nowhere, <<"R", 4>>}} \cup
  {[Memory(base[1], base[2], suffix, offset) EXCEPT !.index = i, !.desc = d] :
     base \in {<<"R", 2>>, <<"UR", 4>>, <<"RZ", 0>>}, suffix \in {"", "64"}, offset \in {0, 16, -16},
     i \in {Nowhere, <<"UR", 6>>}, d \in {Nowhere, <<"UR", 8>>}} \cup
  {[Memory("", 0, "", offset) EXCEPT !.reg = Nowhere] : offset \in {0, 16}} \cup
  {Int_(n) : n \in {0, 5, -5}} \cup
  {W(form, "", "", 0, "") : form \in {"float", "infinity", "nan", "label"}}
MCOperands == RegistersWritten \cup
  {w \in OthersWritten : w.form = "constant" => ~(w.sign # "" /\ w.bars /\ w.index # Nowhere)}

Rest(operands) == [n \in DOMAIN operands |-> [what |-> "operand", operand |-> operands[n]]]
Mark(what) == <<[what |-> what, operand |-> R(9)]>>
L(guard, op, mods, operands) ==
  [address |-> 0, guard |-> guard, op |-> op, mods |-> mods, rest |-> Rest(operands) \o Mark(";")]

(* The opcode, its modifiers, and plain operands. *)
Shapes ==
  { <<"IADD3", <<>>, <<R(0), R(1), R(2), RZ>>>>, <<"IADD3", <<"X">>, <<R(0), R(1), R(2), RZ>>>>,
    <<"IADD3", <<>>, <<R(0), P(0), R(1), R(2), RZ>>>>, <<"IADD", <<>>, <<R(0), R(1), R(2)>>>>,
    <<"IMAD", <<>>, <<R(0), R(1), R(2), R(3)>>>>, <<"IMAD", <<"MOV", "U32">>, <<R(0), RZ, RZ, R(3)>>>>,
    <<"FADD", <<>>, <<R(0), R(1), R(2)>>>>, <<"FADD", <<"FTZ">>, <<R(0), R(1), R(2)>>>>,
    <<"FMUL", <<>>, <<R(0), R(1), R(2)>>>>, <<"FFMA", <<>>, <<R(0), R(1), R(2), R(3)>>>>,
    <<"MOV", <<>>, <<R(0), R(1)>>>>, <<"S2R", <<>>, <<R(0), W("register", "", "SR_TID.X", 0, "")>>>>,
    <<"SEL", <<>>, <<R(0), R(1), R(2), P(0)>>>>, <<"PRMT", <<>>, <<R(0), R(1), Int_(5), R(2)>>>>,
    <<"PRMT", <<>>, <<R(0), R(1), R(2), R(2)>>>>,
    <<"ISETP", <<"LT", "U32", "AND">>, <<P(0), PT, R(0), R(1), PT>>>>,
    <<"LDG", <<"E">>, <<R(0), Memory("R", 2, "64", 16)>>>>, <<"LDS", <<>>, <<R(0), Memory("R", 2, "", 16)>>>>,
    <<"LDS", <<"U8">>, <<R(0), Memory("R", 2, "", 16)>>>>, <<"LDS", <<"64">>, <<R(0), Memory("R", 2, "", 0)>>>>,
    <<"STG", <<"E">>, <<Memory("R", 2, "64", 16), R(0)>>>>, <<"STS", <<>>, <<Memory("R", 2, "", 16), R(0)>>>>,
    <<"BRA", <<>>, <<Int_(5)>>>>, <<"BRA", <<"U">>, <<P(0), Int_(5)>>>>, <<"EXIT", <<>>, <<>>>>,
    <<"BAR", <<"SYNC">>, <<Int_(0)>>>>, <<"BAR", <<"ARV">>, <<Int_(0)>>>>, <<"WARPSYNC", <<>>, <<Int_(5)>>>>,
    <<"I2F", <<"U32">>, <<R(0), R(1)>>>>, <<"F2I", <<"TRUNC", "NTZ">>, <<R(0), R(1)>>>>,
    <<"HMMA", <<"16816", "F32">>, <<R(0), R(1), R(2), R(3)>>>> }

Forms == {<<>>} \cup {<<Guard(s, name, 1)>> : s \in {"", "!"}, name \in {"P", "UP"}} \cup
         {<<Guard("!", "PT", 0)>>, <<Guard("!", "UPT", 0)>>}
(* The operands that may stand in the place of one of a shape: n = 1 is the destination. *)
Floats == {"float", "infinity", "nan"}
Fits(w, shape, n) ==
  LET here == shape[3][n]
      float == shape[1] \in {"FADD", "FMUL", "FFMA"}
  IN CASE here.form = "memory" -> w.form = "memory"
       [] here.form = "integer" /\ shape[1] # "PRMT" -> w.form \in {"integer", "label"}
       [] here.reg[1] \in {"P", "PT"} ->
            w.form = "register" /\ w.reg[1] \in {"P", "UP", "PT", "UPT"} /\ ~w.bars
              /\ w.sign \in {"", "!"} /\ w.suffix = ""
       [] here.reg[1] \in SpecialNames -> w.form = "register" /\ w.reg[1] \in SpecialNames \cup {"SRZ"}
       [] n = 1 -> w.form = "register" /\ w.reg[1] \in {"R", "UR", "RZ", "URZ"} /\ ~w.bars
                     /\ w.sign = "" /\ w.suffix = ""
       [] OTHER -> \/ w.form = "register" /\ w.reg[1] \in {"R", "UR", "RZ", "URZ"}
                       /\ w.sign # "!" /\ w.suffix # "64" /\ w.reg[2] # 1
                   \/ w.form \in {"constant", "integer"} /\ shape[1] \notin {"STG", "STS"}
                   \/ w.form \in Floats /\ float
Varied(shape) == UNION {{[shape[3] EXCEPT ![n] = w] : w \in {v \in MCOperands : Fits(v, shape, n)}} :
                          n \in DOMAIN shape[3]}

OneLine ==
  {L(guard, s[1], s[2], s[3]) : guard \in Forms, s \in Shapes} \cup
  UNION {{L(<<>>, s[1], s[2], operands) : operands \in Varied(s)} : s \in Shapes} \cup
  {L(<<>>, "VOTE", <<>>, <<R(0), w, R(3)>>) : w \in MCOperands} \cup
  {[L(<<>>, "MOV", <<>>, <<R(0), R(1)>>) EXCEPT !.rest = Rest(<<R(0), R(1)>>) \o after \o Rest(<<R(3)>>)] :
     after \in {Mark(e) : e \in Ends}} \cup
  {L(<<>>, op, <<>>, <<R(0), R(1), R(2)>>) :
     op \in (UNION {ClassOf[c] : c \in DOMAIN ClassOf} \cup {"LDGSTS", "VOTE"}) \ DOMAIN OperationOf}

(* Kernels: writes and reads of two registers, a branch, an exit, a guard that cannot be read. *)
Computing == {<<"MOV", <<R(0), R(1)>>>>, <<"MOV", <<R(1), R(0)>>>>, <<"IADD3", <<R(0), R(0), R(1), RZ>>>>,
              <<"FADD", <<RZ, R(1), R(1)>>>>, <<"MOV", <<R(1), RZ>>>>,
              <<"MOV", <<W("register", "", "UR", 0, ""), R(0)>>>>}
Kernel(steps) ==
  [n \in DOMAIN steps |-> [L(<<>>, steps[n][1], <<>>, steps[n][2]) EXCEPT !.address = 16 * n]]
Jumps == {<<"BRA", <<Int_(32)>>>>, <<"EXIT", <<>>>>, <<"RET", <<R(0)>>>>, <<"CALL", <<R(0)>>>>,
          <<"BRX", <<R(0)>>>>, <<"MOV", <<R(0), R(1)>>>>}
MCListings ==
  {<<l>> : l \in OneLine} \cup {Kernel(k) : k \in [1..4 -> Computing] \cup [1..3 -> Jumps]} \cup
  {<<L(<<Guard("!", "UPT", 0)>>, "BRA", <<>>, <<Int_(32)>>)>> \o Kernel(k) : k \in [1..2 -> Computing]}
=============================================================================
