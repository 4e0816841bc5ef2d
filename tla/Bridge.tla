------------------------------- MODULE Bridge -------------------------------
(***************************************************************************)
(* The bridge (bridge/translate.rs): an instruction with SassOperands and  *)
(* the classes type_infer found become a RuleInst with Ops, the form the   *)
(* rules translate to PTX.                                                 *)
(*                                                                         *)
(* Numbers are counted in quarters (4 is 1.0, 2 is 0.5): operands are      *)
(* halves, so that sums and products are exact.  A bit pattern is a record *)
(* of its form and the number it encodes: Pattern("f32", 4) is 0x3f800000, *)
(* Pattern("int", 4) is the integer 1; zero has one pattern in each form.  *)
(***************************************************************************)
EXTENDS Integers, Sequences

CONSTANT Numbers   \* the numbers that occur, in quarters

ASSUME NumbersAssumption == Numbers \subseteq Int /\ 0 \in Numbers

Nothing == [form |-> "int", of |-> 0]
Pattern(form, q) == IF q = 0 THEN Nothing ELSE [form |-> form, of |-> q]

(* An integer that is the pattern of no number the kernel names. *)
Garbage == [form |-> "garbage", of |-> 0]

Bits == [form: {"int", "f32", "f64"}, of: Int \ {0}] \cup {Nothing, Garbage}

(* `as i64' and `as u64' on an f64. *)
Truncated(q) == IF q >= 0 THEN 4 * (q \div 4) ELSE -(4 * ((-q) \div 4))
Saturated(q) == IF q >= 0 THEN Truncated(q) ELSE 0

(* (v as f32).to_bits() and (v as f64).to_bits() on an i64. *)
Encoded(form, v) == IF v.form = "int" THEN Pattern(form, v.of) ELSE Garbage

-----------------------------------------------------------------------------
(***************************************************************************)
(* SassOperand.  flag is the prefix of a register operand: `-' or `!'      *)
(* (negated), `~' (conditionally_negated), `|R|' (cabs).                   *)
(***************************************************************************)
Flag == {"none", "neg", "cINV", "cABS"}
Prefix == {"R", "UR", "P", "UP", "RZ", "PT"}

SassOperand ==
  [kind: {"reg", "imm", "fimm", "label"}, prefix: Prefix, n: Nat, flag: Flag,
   bits: Bits]

RegisterOperand(prefix, n, flag) ==
  [kind |-> "reg", prefix |-> prefix, n |-> n, flag |-> flag, bits |-> Nothing]
Immediate(v) ==
  [kind |-> "imm", prefix |-> "RZ", n |-> 0, flag |-> "none", bits |-> v]
(* FloatImmediate holds an f64. *)
FloatImmediate(q) ==
  [kind |-> "fimm", prefix |-> "RZ", n |-> 0, flag |-> "none",
   bits |-> Pattern("f64", q)]

is_zero(op) == op.prefix \in {"RZ", "PT"}

(* Op, the rules' operand. *)
Op == [op: {"Gpr", "GprF64", "GprI64", "NegGpr", "CinvGpr", "CabsGpr", "Pred",
            "NegPred", "Ur", "Up", "Zero", "Imm", "ImmF32", "ImmF64"},
       n: Nat, bits: Bits]

RegOp(name, n) == [op |-> name, n |-> n, bits |-> Nothing]
ImmOp(name, v) == [op |-> name, n |-> 0, bits |-> v]
ZeroOp == RegOp("Zero", 0)

(***************************************************************************)
(* The opcodes each predicate over opcodes accepts, of those modelled.     *)
(***************************************************************************)
f64_opcode == {"DADD", "DMUL", "DFMA", "DSETP", "DMMA", "DEPBAR"}  \* starts_with('D')
is_f32_opcode == {"FADD", "FMUL", "FFMA", "FMNMX", "FRND", "FSET", "FSETP",
                  "FSWZADD", "FABS", "FNEG", "FSEL", "MUFU", "F2I", "F2F",
                  "F2FP", "F2IP", "I2F", "I2FP"}
is_int_opcode == {"IADD3", "IMAD", "LEA", "IABS", "IMNMX", "ISETP", "POPC",
                  "FLO", "BREV", "BMSK", "PRMT", "SHF", "LOP3", "ULOP3", "SEL",
                  "I2I", "I2IP", "SGXT", "VABSDIFF", "VIADD", "VIADDMNMX",
                  "VIMNMX", "S2R", "CS2R", "LEPC", "R2P", "P2R", "MOV32I",
                  "UIADD3", "UIMAD", "ULEA", "UMOV", "USEL", "UISETP", "USHF",
                  "USGXT", "UBMSK", "UR2UP", "UP2UR", "UPLOP3", "UFLO", "UCLEA"}

HasMod(inst, mods) == \E n \in DOMAIN inst.mods : inst.mods[n] \in mods
ModAt(inst, n, mod) == n \in DOMAIN inst.mods /\ inst.mods[n] = mod

f64_dst(inst) ==
  \/ inst.op \in f64_opcode
  \/ inst.op \in {"F2F", "I2F", "I2FP"} /\ ModAt(inst, 1, "F64")
  \/ inst.op = "MUFU" /\ HasMod(inst, {"RCP64H", "RSQ64H"})

f64_src(inst) ==
  \/ inst.op \in f64_opcode
  \/ inst.op = "F2F" /\ ModAt(inst, 2, "F64")
  \/ inst.op = "F2I" /\ HasMod(inst, {"F64"})
  \/ inst.op = "MUFU" /\ HasMod(inst, {"RCP64H", "RSQ64H"})

is_i64_dst(inst) == inst.op \in {"F2I", "F2F"} /\ HasMod(inst, {"S64", "U64"})
is_i64_src(inst) == inst.op \in {"I2F", "I2FP"} /\ HasMod(inst, {"S64", "U64"})

-----------------------------------------------------------------------------
(***************************************************************************)
(* resolve_imm_type.  The first destination register that is not RZ or PT  *)
(* is looked up as a general register, whatever its prefix; types maps the *)
(* number of each general register to its classes, psi is the set of psi   *)
(* registers.                                                              *)
(***************************************************************************)
DstRegs(inst) ==
  {n \in DOMAIN inst.dst : inst.dst[n].kind = "reg" /\ ~is_zero(inst.dst[n])}

HasDst(inst) == DstRegs(inst) # {}
dst_reg(inst) ==
  inst.dst[CHOOSE n \in DstRegs(inst) : \A m \in DstRegs(inst) : n <= m].n

Context(inst) ==
  IF inst.op \in is_f32_opcode THEN "F32"
  ELSE IF inst.op \in is_int_opcode THEN "Int" ELSE "none"

Priority == <<"Int", "I64", "F32", "F64", "Pred">>
Preferred(classes) ==
  Priority[CHOOSE n \in 1..5 :
             Priority[n] \in classes /\ \A m \in 1..(n - 1) : Priority[m] \notin classes]

(* Mutant: the constraint set is asked before the psi rule. *)
resolve_imm_type_no_psi(inst, types, psi) ==
  LET classes == IF HasDst(inst) THEN types[dst_reg(inst)] ELSE {}
  IN  IF f64_dst(inst) \/ f64_src(inst) THEN "F64"
      ELSE IF classes # {} THEN Preferred(classes) ELSE Context(inst)

resolve_imm_type(inst, types, psi) ==
  LET classes == IF HasDst(inst) THEN types[dst_reg(inst)] ELSE {}
      isPsi   == HasDst(inst) /\ dst_reg(inst) \in psi
  IN  IF f64_dst(inst) \/ f64_src(inst) THEN "F64"
      ELSE IF isPsi /\ Context(inst) # "none" THEN Context(inst)
      ELSE IF classes # {} THEN Preferred(classes) ELSE Context(inst)

(***************************************************************************)
(* base_op.                                                                *)
(***************************************************************************)
PredicateOp(op) ==
  CASE op.flag = "neg"  -> RegOp("NegPred", op.n)
    [] op.flag = "cINV" -> RegOp("CinvGpr", op.n)
    [] op.flag = "cABS" -> RegOp("CabsGpr", op.n)
    [] OTHER            -> RegOp("Pred", op.n)

GeneralOp(op) ==
  CASE op.flag = "cINV" -> RegOp("CinvGpr", op.n)
    [] op.flag = "neg"  -> RegOp("NegGpr", op.n)
    [] op.flag = "cABS" -> RegOp("CabsGpr", op.n)
    [] OTHER            -> RegOp("Gpr", op.n)

RegisterOp(op) ==
  IF is_zero(op) THEN ZeroOp
  ELSE CASE op.prefix = "UP" -> RegOp("Up", op.n)
         [] op.prefix = "UR" -> RegOp("Ur", op.n)
         [] op.prefix = "P"  -> PredicateOp(op)
         [] OTHER            -> GeneralOp(op)

ImmediateOp(v, type) ==
  CASE type = "F32" -> ImmOp("ImmF32", Encoded("f32", v))
    [] type = "F64" -> ImmOp("ImmF64", Encoded("f64", v))
    [] OTHER        -> ImmOp("Imm", v)

FloatImmediateOp(q, type) ==
  CASE type = "F32" -> ImmOp("ImmF32", Pattern("f32", q))
    [] type = "F64" -> ImmOp("ImmF64", Pattern("int", Saturated(q)))
    [] OTHER        -> ImmOp("Imm", Pattern("int", Truncated(q)))

base_op(op, type) ==
  CASE op.kind = "reg"   -> RegisterOp(op)
    [] op.kind = "imm"   -> ImmediateOp(op.bits, type)
    [] op.kind = "fimm"  -> FloatImmediateOp(op.bits.of, type)
    [] op.kind = "label" -> ZeroOp

(***************************************************************************)
(* promote: a register of a typed instruction gets its typed name, and a   *)
(* flagged register loses its flag.                                        *)
(***************************************************************************)
promote(op, f64, i64, fp) ==
  CASE op.op \in {"Ur", "Up"} ->
         IF f64 THEN RegOp("GprF64", op.n) ELSE IF i64 THEN RegOp("GprI64", op.n)
         ELSE IF fp THEN RegOp("Gpr", op.n) ELSE op
    [] op.op \in {"Gpr", "NegGpr", "CinvGpr", "CabsGpr"} ->
         IF i64 THEN RegOp("GprI64", op.n) ELSE IF f64 THEN RegOp("GprF64", op.n)
         ELSE RegOp("Gpr", op.n)
    [] OTHER -> op

(***************************************************************************)
(* raw_flag_mods, with positions from 1: `neg_src0' is <<"neg", "src", 1>>.*)
(* A Predicate operand, which it skips, occurs only as a guard.            *)
(***************************************************************************)
(* Mutant: the position is not advanced past an immediate. *)
raw_flag_mods_registers_only(ops, side) ==
  {<<ops[n].flag, side, Len(SelectSeq(SubSeq(ops, 1, n), LAMBDA o : o.kind = "reg"))>> :
     n \in {m \in DOMAIN ops : ops[m].kind = "reg" /\ ops[m].flag # "none"}}

raw_flag_mods(ops, side) ==
  {<<ops[n].flag, side, n>> :
     n \in {m \in DOMAIN ops : ops[m].kind = "reg" /\ ops[m].flag # "none"}}

(* RuleInst; mods are the instruction's own, flags those added. *)
to_rule_inst_from(inst, types, psi) ==
  LET type == resolve_imm_type(inst, types, psi)
      fp   == inst.op \in is_f32_opcode
  IN  [op    |-> inst.op,
       mods  |-> inst.mods,
       flags |-> raw_flag_mods(inst.src, "src") \cup raw_flag_mods(inst.dst, "dst"),
       dst   |-> [n \in DOMAIN inst.dst |->
                    promote(base_op(inst.dst[n], type), f64_dst(inst),
                            is_i64_dst(inst), fp)],
       src   |-> [n \in DOMAIN inst.src |->
                    promote(base_op(inst.src[n], type), f64_src(inst),
                            is_i64_src(inst), fp)]]
=============================================================================
