------------------------------ MODULE MemRules ------------------------------
(***************************************************************************)
(* The rules of the memory instructions (rules/mem, rules/sync/red.rs) and *)
(* of the two instructions that make a 64-bit address (LDC.64, lowered to  *)
(* MOV, and IMAD.WIDE), with the register declarations of emit/mod.rs.     *)
(*                                                                         *)
(* One SASS register Rn has two PTX registers here: %rn, a word, and %rdn, *)
(* the pair Rn, Rn+1.  A rule reads or writes the one or the other.        *)
(*                                                                         *)
(* An instruction has its first operand as dst and the others as src.  The *)
(* bridge makes a MemAddr of an address and nothing else of it, so the     *)
(* rules' cases for addresses of loose operands are left out.              *)
(***************************************************************************)
EXTENDS Bridge, Words

LOCAL INSTANCE SequencesExt
LOCAL INSTANCE FiniteSetsExt

CONSTANT GprCounter   \* the register the first constant gets: 8

ASSUME GprCounterAssumption == GprCounter \in Nat

(* helpers.rs, as the integer rules use it. *)
Rules == INSTANCE IntRules WITH ScratchBase <- 0, ScratchPredBase <- 0, SmVersion <- 0
Arg(class, n) == Rules!Arg(class, n)
R0 == Rules!R0
NoArg == Arg("none", 0)

-----------------------------------------------------------------------------
(***************************************************************************)
(* Operands and instructions.  A Memory operand is [Rn], [Rn.64] or [URn], *)
(* with an offset; the constant is one c[0x0][..], a pointer parameter.    *)
(***************************************************************************)
MemoryOperand(prefix, n, is_64bit, offset) ==
  [kind |-> "mem", prefix |-> prefix, n |-> n, flag |-> "none", bits |-> Nothing,
   is_64bit |-> is_64bit, offset |-> offset]
ConstantOperand == [RegisterOperand("RZ", 0, "none") EXCEPT !.kind = "const"]

NoGuard == [negated |-> FALSE, n |-> -1]

(* resolve_cbank, and LDC as a MOV. *)
Lowered(inst) ==
  LET src == [k \in DOMAIN inst.src |->
                IF inst.src[k].kind = "const" THEN RegisterOperand("R", GprCounter, "none")
                ELSE inst.src[k]]
  IN  IF inst.op = "LDC"
      THEN [inst EXCEPT !.op = "MOV", !.src = src,
                        !.mods = IF HasMod(inst, {"64"}) THEN <<"ldc64">> ELSE << >>]
      ELSE [inst EXCEPT !.src = src]

(* base_op of an address; RZ, and a base that is none, is register 0. *)
MemAddr(op) ==
  [op |-> "MemAddr", n |-> IF is_zero(op) THEN 0 ELSE op.n, bits |-> Nothing,
   offset |-> op.offset, is_64bit |-> op.is_64bit, is_uniform |-> op.prefix = "UR"]

rule_op(op) ==
  IF op.kind = "mem" THEN MemAddr(op) ELSE promote(base_op(op, "Int"), FALSE, FALSE, FALSE)

to_rule_inst(inst) ==
  [op |-> inst.op, mods |-> inst.mods,
   dst |-> [k \in DOMAIN inst.dst |-> rule_op(inst.dst[k])],
   src |-> [k \in DOMAIN inst.src |-> rule_op(inst.src[k])]]

-----------------------------------------------------------------------------
(***************************************************************************)
(* scan_registers and emit_regdecls: how many registers of each file are   *)
(* declared, and where the scratch registers start.                        *)
(***************************************************************************)
Registers(inst, prefix) ==
  {op.n : op \in {o \in ToSet(inst.dst \o inst.src) :
                    o.kind = "reg" /\ ~is_zero(o) /\ o.prefix = prefix}}

is_64bit_mod(inst) == HasMod(inst, {"WIDE", "64", "U64", "S64"})

Counted(inst, prefix) ==
  {n + (IF is_64bit_mod(inst) THEN 2 ELSE 1) : n \in Registers(inst, prefix)}

scan_registers(program, prefix) ==
  Max({0} \cup UNION {Counted(inst, prefix) : inst \in ToSet(program)})

scratch_gpr_base(program) == scan_registers(program, "R")

(* Mutant: the 64-bit registers are declared for the counted ones only. *)
declared_b64_counted(program) ==
  [class \in {"%r", "%ur", "%rd"} |->
     CASE class = "%r"  -> scratch_gpr_base(program) + 12
       [] class = "%ur" -> scan_registers(program, "UR")
       [] class = "%rd" -> scratch_gpr_base(program)]

declared(program) ==
  [class \in {"%r", "%ur", "%rd"} |->
     CASE class = "%r"  -> scratch_gpr_base(program) + 12
       [] class = "%ur" -> scan_registers(program, "UR")
       [] class = "%rd" -> scratch_gpr_base(program) + 12 + 2]

gpr(sb, k) == Arg("%r", sb + k)
rd64(sb, k) == Arg("%rd", sb + k)

-----------------------------------------------------------------------------
(***************************************************************************)
(* PTX lines: an access `name.space.type d, [reg+offset], args;' or a line *)
(* of arithmetic.  name of an atomic line is its operation.                *)
(***************************************************************************)
Address(reg, offset) == [reg |-> reg, offset |-> offset]
At(class, m) == Address(Arg(class, m.n), m.offset)
NoAddress == Address(NoArg, 0)

Access(name, space, type, d, address, args) ==
  [guard |-> NoGuard, name |-> name, space |-> space, type |-> type, d |-> d,
   address |-> address, args |-> args]
Arithmetic(name, d, args) == Access(name, "none", "none", d, NoAddress, args)

(* The class of the register an address names. *)
Sized(m) == IF m.is_64bit THEN "%rd" ELSE "%r"
SizedOrUniform(m) == IF m.is_uniform THEN "%ur" ELSE Sized(m)

(* The first modifier of a set, or a default. *)
FirstOf(ri, names, default) ==
  LET at == {k \in DOMAIN ri.mods : ri.mods[k] \in names}
  IN  IF at = {} THEN default ELSE ri.mods[Min(at)]

(* The n-th general register of some operands. *)
NthGpr(ops, n) ==
  LET registers == SelectSeq(ops, LAMBDA o : o.op = "Gpr")
  IN  IF n \in DOMAIN registers THEN Arg("%r", registers[n].n) ELSE R0

(* fmt_op: what is no general register is register 0. *)
fmt_op(ops, n) ==
  IF n \in DOMAIN ops /\ ops[n].op = "Gpr" THEN Arg("%r", ops[n].n) ELSE R0

-----------------------------------------------------------------------------
Names == {"U8", "S8", "U16", "S16", "U32", "S32", "F32", "F64", "B32", "B64"}

map_ldg_type(ri) ==
  LET mod == FirstOf(ri, {"F32", "F16", "F64", "U64", "S64", "U16", "S16", "U8", "S8"}, "none")
  IN  CASE mod \in {"none", "F32", "F16"} -> "B32"
        [] mod \in {"F64", "U64", "S64"}  -> "B64"
        [] OTHER                          -> mod

lds_type(ri) == FirstOf(ri, Names, "B32")
sts_type(ri) == FirstOf(ri, Names \cup {"U64", "S64"}, "B32")

ldg(ri) ==
  <<Access("ld", "global", map_ldg_type(ri), Rules!as_gpr(ri.dst[1]), At("%rd", ri.src[1]), << >>)>>

stg(ri) ==
  <<Access("st", "global", "B32", NoArg, At(Sized(ri.dst[1]), ri.dst[1]), <<NthGpr(ri.src, 1)>>)>>

lds(ri) ==
  <<Access("ld", "shared", lds_type(ri), Rules!as_gpr(ri.dst[1]),
           At(SizedOrUniform(ri.src[1]), ri.src[1]), << >>)>>

sts(ri) ==
  <<Access("st", "shared", sts_type(ri), NoArg,
           At(SizedOrUniform(ri.dst[1]), ri.dst[1]), <<Rules!as_int(ri.src[1])>>)>>

(* as_int of a MemAddr is %r0. *)
ldl(ri) ==
  <<Access("ld", "local", sts_type(ri), Rules!as_int(ri.dst[1]),
           Address(Rules!as_int(ri.src[1]), 0), << >>)>>

stl(ri) ==
  <<Access("st", "local", sts_type(ri), NoArg,
           At(SizedOrUniform(ri.dst[1]), ri.dst[1]), <<Rules!as_int(ri.src[1])>>)>>

ld(ri) ==
  <<Access("ld", "generic", "U32", fmt_op(ri.dst, 1), At(Sized(ri.src[1]), ri.src[1]), << >>)>>

st(ri) ==
  <<Access("st", "generic", "U32", NoArg, At(Sized(ri.dst[1]), ri.dst[1]), <<NthGpr(ri.src, 1)>>)>>

ldgsts(ri, sb) ==
  <<Access("ld", "global", "U32", gpr(sb, 0), At("%rd", ri.src[1]), << >>),
    Access("st", "shared", "U32", NoArg, At("%r", ri.dst[1]), <<gpr(sb, 0)>>)>>

-----------------------------------------------------------------------------
(***************************************************************************)
(* Atomics.  ATOMG is `ATOMG.op PT, Rd, [Ra.64], Rv': PT is the first      *)
(* operand, so Rd is a source.                                             *)
(***************************************************************************)
GlobalOperations == {"ADD", "MIN", "MAX", "AND", "OR", "XOR", "EXCH", "DEC", "CAS"}

atomg(ri) ==
  LET op == FirstOf(ri, GlobalOperations, "ADD")
      operands == IF op = "CAS" THEN <<fmt_op(ri.src, 3), fmt_op(ri.src, 4)>>
                  ELSE <<fmt_op(ri.src, 3)>>
  IN  <<Access(op, "global", IF op = "CAS" THEN "B32" ELSE "U32", fmt_op(ri.src, 1),
               At("%rd", ri.src[2]), operands)>>

(* The base is the first general register of the sources, which a MemAddr is not. *)
SharedOperations == <<"ADD", "MIN", "MAX", "INC", "DEC", "AND", "OR", "XOR", "EXCH", "CAS">>

atoms(ri) ==
  LET present == SelectSeq(SharedOperations, LAMBDA name : HasMod(ri, {name}))
      op == IF present = << >> THEN "ADD" ELSE present[1]
      operands == IF op = "CAS" THEN <<NthGpr(ri.src, 2), NthGpr(ri.src, 3)>>
                  ELSE <<NthGpr(ri.src, 2)>>
  IN  <<Access(op, "shared", IF op = "CAS" THEN "B32" ELSE "U32", NthGpr(ri.dst, 1),
               Address(NthGpr(ri.src, 1), 0), operands)>>

red_op(ri) == FirstOf(ri, {"ADD", "MIN", "MAX", "INC", "DEC", "AND", "OR", "XOR"}, "ADD")
red_type(ri) ==
  LET mod == FirstOf(ri, {"S32", "F32", "FTZ", "64", "F64"}, "U32")
  IN  CASE mod = "FTZ" -> "F32" [] mod = "64" -> "U64" [] OTHER -> mod

(* Mutant: the upper word is not shifted. *)
build_64bit_addr_unshifted(base, sb) ==
  <<Arithmetic("cvt.u64.u32", rd64(sb, 0), <<Arg("%r", base)>>),
    Arithmetic("cvt.u64.u32", rd64(sb, 1), <<Arg("%r", base + 1)>>),
    Arithmetic("or.b64", rd64(sb, 0), <<rd64(sb, 0), rd64(sb, 1)>>)>>

build_64bit_addr(base, sb) ==
  <<Arithmetic("cvt.u64.u32", rd64(sb, 0), <<Arg("%r", base)>>),
    Arithmetic("cvt.u64.u32", rd64(sb, 1), <<Arg("%r", base + 1)>>),
    Arithmetic("shl.b64", rd64(sb, 1), <<rd64(sb, 1), Arg("literal", W)>>),
    Arithmetic("or.b64", rd64(sb, 0), <<rd64(sb, 0), rd64(sb, 1)>>)>>

red(ri, sb) ==
  LET m == ri.dst[1]
      line(address) == Access(red_op(ri), "global", red_type(ri), NoArg, address, <<fmt_op(ri.src, 1)>>)
  IN  IF m.is_64bit
      THEN Append(build_64bit_addr(m.n, sb), line(Address(rd64(sb, 0), m.offset)))
      ELSE <<line(At("%r", m))>>

-----------------------------------------------------------------------------
(***************************************************************************)
(* The makers of addresses.                                                *)
(***************************************************************************)
(* replace("%r", "%rd") on the text of an operand. *)
Paired(arg) == IF arg.class = "%r" THEN Arg("%rd", arg.n) ELSE arg

mov(ri) ==
  LET d == Rules!as_gpr(ri.dst[1])
      s == Rules!as_gpr(ri.src[1])
  IN  <<Arithmetic("mov.b32", d, <<s>>)>>
      \o (IF HasMod(ri, {"ldc64"}) THEN <<Arithmetic("mov.u64", Paired(d), <<Paired(s)>>)>> ELSE << >>)

v_wide(ri, sb) ==
  <<Arithmetic("mul.wide.u32", rd64(sb, 0), <<Rules!fmt_data(ri.src[1]), Rules!fmt_data(ri.src[2])>>),
    Arithmetic("add.u64", Paired(Rules!as_gpr(ri.dst[1])),
               <<rd64(sb, 0), Paired(Rules!fmt_data(ri.src[3]))>>)>>

-----------------------------------------------------------------------------
Rule(ri, sb) ==
  CASE ri.op = "LDG" -> ldg(ri) [] ri.op = "STG" -> stg(ri)
    [] ri.op = "LDS" -> lds(ri) [] ri.op = "STS" -> sts(ri)
    [] ri.op = "LDL" -> ldl(ri) [] ri.op = "STL" -> stl(ri)
    [] ri.op = "LD"  -> ld(ri)  [] ri.op = "ST"  -> st(ri)
    [] ri.op = "ATOMG"  -> atomg(ri)
    [] ri.op = "ATOMS"  -> atoms(ri)
    [] ri.op = "RED"    -> red(ri, sb)
    [] ri.op = "LDGSTS" -> ldgsts(ri, sb)
    [] ri.op = "MOV"    -> mov(ri)
    [] ri.op = "IMAD"   -> v_wide(ri, sb)

(* translate_one: the guard stands before the first line. *)
translate_one(inst, sb) == [Rule(to_rule_inst(inst), sb) EXCEPT ![1].guard = inst.guard]
=============================================================================
