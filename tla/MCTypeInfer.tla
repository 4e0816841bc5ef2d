----------------------------- MODULE MCTypeInfer -----------------------------
(***************************************************************************)
(* Instruction streams for TLC: every stream of at most MaxLen             *)
(* instructions of a menu that holds one instruction of each kind of row   *)
(* of seed_constraint, over three general registers and one predicate,     *)
(* and those of one more instruction over the more frequent kinds.         *)
(* The operands are written as the parser makes them: the first operand is *)
(* the destination, the others are sources.                                *)
(***************************************************************************)
EXTENDS TypeStage

CONSTANT MaxLen

Operand(kind, prefix, number, zero) ==
  [kind |-> kind, prefix |-> prefix, number |-> number, zero |-> zero]

R(n) == Operand("reg", "R", n, FALSE)
RZ   == Operand("reg", "R", 255, TRUE)
P(n) == Operand("reg", "P", n, FALSE)
UP(n) == Operand("reg", "UP", n, FALSE)
PT   == Operand("reg", "P", 7, TRUE)
NotP(n) == Operand("pred", "P", n, FALSE)
Mem  == Operand("mem", "R", 3, FALSE)
Imm  == Operand("imm", "none", 0, FALSE)

Inst(guard, op, dst, srcs) ==
  [op |-> op, modifiers |-> IF op = "F2I" THEN <<"S64", "F64">> ELSE <<>>, guard |-> guard,
   dsts |-> operands_to_regs(<<dst>>), srcs |-> operands_to_regs(srcs)]

MCRegId == {<<"R", 1>>, <<"R", 2>>, <<"R", 3>>, <<"P", 0>>}

Menu ==
  { Inst("none", "IADD3", R(1), <<R(2), R(3), RZ>>),
    Inst("none", "FADD", R(2), <<R(2), Imm>>),
    Inst("none", "MOV", R(3), <<R(1)>>),
    Inst("none", "SEL", R(1), <<R(2), R(3), NotP(0)>>),
    Inst("none", "ISETP", P(0), <<PT, R(1), R(3), PT>>),
    Inst("none", "FSETP", PT, <<UP(0), R(1), R(2), PT>>),
    Inst("none", "F2I", R(3), <<R(2)>>),
    Inst("none", "LDG", R(2), <<Mem>>),
    Inst("none", "STG", Mem, <<R(2)>>) }

Streams(menu) == UNION {[1..n -> menu] : n \in 1..MaxLen}

Frequent == {inst \in Menu : inst.op \in {"IADD3", "FADD", "MOV", "SEL", "FSETP", "LDG"}}

MCPrograms == Streams(Menu) \cup [1..(MaxLen + 1) -> Frequent]
=============================================================================
