-------------------------- MODULE FloatLiftProofs --------------------------
(***************************************************************************)
(* For every instruction, class and content: a supported floating-point    *)
(* instruction is lifted to lines that compute what it computes, and no    *)
(* line writes another register than its destination and the scratch       *)
(* registers.                                                              *)
(*                                                                         *)
(* First what the bridge keeps of an operand, then what a rule prints for  *)
(* it and what that argument holds, then each rule's line; the inductive   *)
(* invariant LiftInv carries that through the execution of one or two      *)
(* lines.                                                                  *)
(***************************************************************************)
EXTENDS FloatLift, WellFoundedInduction, TLAPS

InputOK ==
  /\ inst \in Instructions
  /\ types \in Assignments
  /\ psi \in PsiSets
  /\ contents \in Contents
  /\ truths \in Truths

LEMMA InstructionForm ==
  ASSUME InputOK
  PROVE  /\ SassForm(inst)
         /\ inst \in Instruction
         /\ inst.dst \in Seq(SassOperand) /\ inst.src \in Seq(SassOperand)
         /\ DOMAIN inst.dst = {1} /\ DOMAIN inst.src = 1..Arity(inst.op)
         /\ inst.dst[1] \in SassOperand
         /\ \A n \in DOMAIN inst.src : inst.src[n] \in SassOperand
         /\ inst.op \in Opcodes
  <1>1. inst \in Instruction /\ SassForm(inst)
    BY LiftAssumption, FormAssumption DEF InputOK
  <1>2. inst.dst \in Seq(SassOperand) /\ inst.src \in Seq(SassOperand)
    BY <1>1 DEF Instruction
  <1>3. Len(inst.dst) = 1 /\ Len(inst.src) = Arity(inst.op) /\ inst.op \in Opcodes
    BY <1>1 DEF SassForm
  <1>4. DOMAIN inst.dst = {1} /\ DOMAIN inst.src = 1..Arity(inst.op)
    BY <1>2, <1>3
  <1> QED BY <1>1, <1>2, <1>3, <1>4

-----------------------------------------------------------------------------
(***************************************************************************)
(* The bridge: what it makes of each kind of operand.                      *)
(***************************************************************************)
Bridged == to_rule_inst_from(inst, types, psi)
LiteralType == resolve_imm_type(inst, types, psi)

DoubleOps == {"DADD", "DMUL", "DFMA", "DSETP"}
SingleOps == {"FADD", "FMUL", "FFMA", "FMNMX", "FSET", "FSETP", "FABS", "FNEG", "FSEL"}

LEMMA OpcodeClasses ==
  ASSUME InputOK
  PROVE  /\ f64_src(inst) <=> inst.op \in DoubleOps
         /\ f64_dst(inst) <=> inst.op \in DoubleOps
         /\ inst.op \in f64_opcode <=> inst.op \in DoubleOps
         /\ ~is_i64_src(inst) /\ ~is_i64_dst(inst)
         /\ inst.op \in is_f32_opcode <=> inst.op \in SingleOps
         /\ inst.op \notin is_int_opcode
         /\ inst.op = "MOV" \/ inst.op \in DoubleOps \/ inst.op \in SingleOps
  <1>1. inst.op \in Opcodes
    BY InstructionForm
  <1>2. inst.op \notin {"F2F", "F2I", "I2F", "I2FP", "MUFU"}
    BY <1>1 DEF Opcodes, Unary, Binary, Ternary, SetsPredicate
  <1> QED
    BY <1>1, <1>2 DEF Opcodes, Unary, Binary, Ternary, SetsPredicate, f64_src, f64_dst, f64_opcode,
       is_i64_src, is_i64_dst, is_f32_opcode, is_int_opcode, DoubleOps, SingleOps

LEMMA BridgedFields ==
  /\ Bridged.op = inst.op /\ Bridged.mods = inst.mods
  /\ Bridged.flags = raw_flag_mods(inst.src, "src") \cup raw_flag_mods(inst.dst, "dst")
  /\ DOMAIN Bridged.src = DOMAIN inst.src /\ DOMAIN Bridged.dst = DOMAIN inst.dst
  /\ \A n \in DOMAIN inst.src :
       Bridged.src[n] = promote(base_op(inst.src[n], LiteralType), f64_src(inst),
                                is_i64_src(inst), inst.op \in is_f32_opcode)
  /\ \A n \in DOMAIN inst.dst :
       Bridged.dst[n] = promote(base_op(inst.dst[n], LiteralType), f64_dst(inst),
                                is_i64_dst(inst), inst.op \in is_f32_opcode)
  BY DEF Bridged, to_rule_inst_from, LiteralType

(* A flag reaches the rule with the index of its operand. *)
LEMMA FlagsOfSources ==
  ASSUME NEW n \in DOMAIN inst.src, NEW f
  PROVE  <<f, "src", n>> \in Bridged.flags <=>
           inst.src[n].kind = "reg" /\ inst.src[n].flag = f /\ f # "none"
  <1>1. <<f, "src", n>> \notin raw_flag_mods(inst.dst, "dst")
    BY DEF raw_flag_mods
  <1>2. <<f, "src", n>> \in raw_flag_mods(inst.src, "src") <=>
          inst.src[n].kind = "reg" /\ inst.src[n].flag = f /\ f # "none"
    BY DEF raw_flag_mods
  <1> QED BY <1>1, <1>2, BridgedFields

(* No flagged variant of a register reaches a rule. *)
LEMMA NoFlaggedVariant ==
  ASSUME InputOK, NEW n \in DOMAIN inst.src
  PROVE  Bridged.src[n].op \notin {"NegGpr", "CinvGpr", "CabsGpr"}
  <1> DEFINE o == inst.src[n]
             b == base_op(o, LiteralType)
  <1>1. Bridged.src[n] = promote(b, f64_src(inst), is_i64_src(inst), inst.op \in is_f32_opcode)
    BY BridgedFields
  <1>2. CASE b.op \in {"Gpr", "NegGpr", "CinvGpr", "CabsGpr"}
    BY <1>1, <1>2 DEF promote, RegOp
  <1>3. CASE b.op \in {"Ur", "Up"}
    BY <1>1, <1>3 DEF promote, RegOp
  <1>4. CASE b.op \notin {"Gpr", "NegGpr", "CinvGpr", "CabsGpr", "Ur", "Up"}
    BY <1>1, <1>4 DEF promote
  <1> QED BY <1>2, <1>3, <1>4

(* A general register of a typed instruction has its typed name. *)
LEMMA GeneralSource ==
  ASSUME InputOK, NEW n \in DOMAIN inst.src,
         inst.src[n].kind = "reg", inst.src[n].prefix = "R"
  PROVE  Bridged.src[n] = RegOp(IF inst.op \in DoubleOps THEN "GprF64" ELSE "Gpr", inst.src[n].n)
  <1> DEFINE o == inst.src[n]
             b == base_op(o, LiteralType)
  <1>1. b = GeneralOp(o)
    BY DEF base_op, RegisterOp, is_zero
  <1>2. b.op \in {"Gpr", "NegGpr", "CinvGpr", "CabsGpr"} /\ b.n = o.n
    BY <1>1 DEF GeneralOp, RegOp
  <1> HIDE DEF b
  <1>3. promote(b, f64_src(inst), is_i64_src(inst), inst.op \in is_f32_opcode)
          = RegOp(IF inst.op \in DoubleOps THEN "GprF64" ELSE "Gpr", o.n)
    BY <1>2, OpcodeClasses DEF promote
  <1> QED BY <1>3, BridgedFields DEF b

LEMMA ZeroSource ==
  ASSUME InputOK, NEW n \in DOMAIN inst.src,
         inst.src[n].kind = "reg", inst.src[n].prefix \in {"RZ", "PT"}
  PROVE  Bridged.src[n] = ZeroOp
  <1>1. base_op(inst.src[n], LiteralType) = ZeroOp
    BY DEF base_op, RegisterOp, is_zero
  <1>2. promote(ZeroOp, f64_src(inst), is_i64_src(inst), inst.op \in is_f32_opcode) = ZeroOp
    BY DEF promote, ZeroOp, RegOp
  <1> QED BY <1>1, <1>2, BridgedFields

LEMMA PredicateSource ==
  ASSUME InputOK, NEW n \in DOMAIN inst.src,
         inst.src[n].kind = "reg", inst.src[n].prefix = "P", inst.src[n].flag = "none"
  PROVE  Bridged.src[n] = RegOp("Pred", inst.src[n].n)
  <1>1. base_op(inst.src[n], LiteralType) = RegOp("Pred", inst.src[n].n)
    BY DEF base_op, RegisterOp, is_zero, PredicateOp
  <1>2. promote(RegOp("Pred", inst.src[n].n), f64_src(inst), is_i64_src(inst),
                inst.op \in is_f32_opcode) = RegOp("Pred", inst.src[n].n)
    BY DEF promote, RegOp
  <1> QED BY <1>1, <1>2, BridgedFields

LEMMA LiteralSource ==
  ASSUME InputOK, NEW n \in DOMAIN inst.src, inst.src[n].kind \in {"imm", "fimm"}
  PROVE  Bridged.src[n] = IF inst.src[n].kind = "imm" THEN ImmediateOp(inst.src[n].bits, LiteralType)
                          ELSE FloatImmediateOp(inst.src[n].bits.of, LiteralType)
  <1> DEFINE o == inst.src[n]
             b == base_op(o, LiteralType)
  <1>1. b = IF o.kind = "imm" THEN ImmediateOp(o.bits, LiteralType)
            ELSE FloatImmediateOp(o.bits.of, LiteralType)
    BY DEF base_op
  <1>2. b.op \in {"Imm", "ImmF32", "ImmF64"}
    BY <1>1 DEF ImmediateOp, FloatImmediateOp, ImmOp
  <1> HIDE DEF b
  <1>3. promote(b, f64_src(inst), is_i64_src(inst), inst.op \in is_f32_opcode) = b
    BY <1>2 DEF promote
  <1> QED BY <1>1, <1>3, BridgedFields DEF b

LEMMA Destinations ==
  ASSUME InputOK
  PROVE  /\ inst.dst[1].n \in RegNo
         /\ inst.op \in SetsPredicate => /\ Bridged.dst[1] = RegOp("Pred", inst.dst[1].n)
                                         /\ inst.dst[1].n \in PredNo
         /\ inst.op \notin SetsPredicate =>
              Bridged.dst[1] = RegOp(IF inst.op \in DoubleOps THEN "GprF64" ELSE "Gpr", inst.dst[1].n)
  <1> DEFINE d == inst.dst[1]
             b == base_op(d, LiteralType)
  <1>1. DestinationOperand(d, IF inst.op \in SetsPredicate THEN "P" ELSE "R") /\ 1 \in DOMAIN inst.dst
    BY InstructionForm DEF SassForm
  <1>2. Bridged.dst[1] = promote(b, f64_dst(inst), is_i64_dst(inst), inst.op \in is_f32_opcode)
    BY <1>1, BridgedFields
  <1>3. CASE inst.op \in SetsPredicate
    <2>1. b = RegOp("Pred", d.n) /\ d.n \in RegNo /\ d.n \in PredNo
      BY <1>1, <1>3 DEF base_op, RegisterOp, is_zero, PredicateOp, DestinationOperand
    <2> QED BY <2>1, <1>2, <1>3 DEF promote, RegOp
  <1>4. CASE inst.op \notin SetsPredicate
    <2>1. b = RegOp("Gpr", d.n) /\ d.n \in RegNo
      BY <1>1, <1>4 DEF base_op, RegisterOp, is_zero, GeneralOp, DestinationOperand
    <2>2. promote(RegOp("Gpr", d.n), f64_dst(inst), is_i64_dst(inst), inst.op \in is_f32_opcode)
            = RegOp(IF inst.op \in DoubleOps THEN "GprF64" ELSE "Gpr", d.n)
      BY OpcodeClasses DEF promote, RegOp
    <2> QED BY <2>1, <2>2, <1>2, <1>4
  <1> QED BY <1>3, <1>4

(* The class a literal is encoded for. *)
LEMMA ClassesOfDestination ==
  ASSUME InputOK
  PROVE  HasDst(inst) /\ dst_reg(inst) = inst.dst[1].n
  <1>1. DestinationOperand(inst.dst[1], IF inst.op \in SetsPredicate THEN "P" ELSE "R")
        /\ DOMAIN inst.dst = {1}
    BY InstructionForm DEF SassForm
  <1>2. DstRegs(inst) = {1}
    BY <1>1 DEF DstRegs, DestinationOperand, is_zero
  <1> QED BY <1>2 DEF HasDst, dst_reg

LEMMA FirstOfPriority ==
  ASSUME NEW classes \in SUBSET Class
  PROVE  /\ classes \cap {"Int", "I64"} # {} => Preferred(classes) \in {"Int", "I64"}
         /\ "F32" \in classes /\ classes \cap {"Int", "I64"} = {} => Preferred(classes) = "F32"
  <1> DEFINE First(n) == /\ Priority[n] \in classes
                         /\ \A m \in 1..(n - 1) : Priority[m] \notin classes
             k == CHOOSE n \in 1..5 : First(n)
  <1>0. /\ Priority[1] = "Int" /\ Priority[2] = "I64" /\ Priority[3] = "F32"
        /\ Preferred(classes) = Priority[k]
    BY DEF Priority, Preferred
  <1>1. CASE "Int" \in classes
    <2>1. First(1)
      BY <1>0, <1>1
    <2>2. k \in 1..5 /\ First(k)
      BY <2>1
    <2>3. k = 1
      <3>1. 1 \in 1..(k - 1) => Priority[1] \notin classes
        BY <2>2
      <3> QED BY <3>1, <2>2, <1>0, <1>1
    <2> QED BY <2>3, <1>0, <1>1
  <1>2. CASE "Int" \notin classes /\ "I64" \in classes
    <2>1. First(2)
      BY <1>0, <1>2
    <2>2. k \in 1..5 /\ First(k)
      BY <2>1
    <2>3. k = 2
      <3>1. 2 \in 1..(k - 1) => Priority[2] \notin classes
        BY <2>2
      <3>2. k # 1
        BY <2>2, <1>0, <1>2
      <3> QED BY <3>1, <3>2, <2>2, <1>0, <1>2
    <2> QED BY <2>3, <1>0, <1>2
  <1>3. CASE "Int" \notin classes /\ "I64" \notin classes /\ "F32" \in classes
    <2>1. First(3)
      <3>1. \A m \in 1..2 : m = 1 \/ m = 2
        OBVIOUS
      <3> QED BY <3>1, <1>0, <1>3
    <2>2. k \in 1..5 /\ First(k)
      BY <2>1
    <2>3. k = 3
      <3>1. 3 \in 1..(k - 1) => Priority[3] \notin classes
        BY <2>2
      <3>2. k # 1 /\ k # 2
        BY <2>2, <1>0, <1>3
      <3> QED BY <3>1, <3>2, <2>2, <1>0, <1>3
    <2> QED BY <2>3, <1>0, <1>3
  <1>4. CASE "Int" \notin classes /\ "I64" \notin classes /\ "F32" \notin classes
    BY <1>4
  <1> QED BY <1>1, <1>2, <1>3, <1>4

LEMMA LiteralTypes ==
  ASSUME InputOK
  PROVE  /\ inst.op \in DoubleOps => LiteralType = "F64"
         /\ inst.op \in SingleOps /\ FloatContext => LiteralType = "F32"
         /\ inst.op \in SingleOps /\ IntegerContext => LiteralType \in {"Int", "I64"}
         /\ inst.op = "MOV" /\ (IntegerClass \/ DstClasses = {}) => LiteralType \notin {"F32", "F64"}
  <1> DEFINE classes == types[inst.dst[1].n]
             t == Preferred(classes)
  <1>1. classes \in SUBSET Class
    <2>1. types \in [RegNo -> SUBSET Class]
      BY LiftAssumption DEF InputOK
    <2> QED BY <2>1, Destinations
  <1>2. /\ classes \cap {"Int", "I64"} # {} => t \in {"Int", "I64"}
        /\ "F32" \in classes /\ classes \cap {"Int", "I64"} = {} => t = "F32"
    BY <1>1, FirstOfPriority
  <1>3. /\ Context(inst) = IF inst.op \in SingleOps THEN "F32" ELSE "none"
        /\ f64_dst(inst) \/ f64_src(inst) <=> inst.op \in DoubleOps
    BY OpcodeClasses DEF Context
  <1>4. LiteralType = IF inst.op \in DoubleOps THEN "F64"
                      ELSE IF inst.dst[1].n \in psi /\ Context(inst) # "none" THEN Context(inst)
                      ELSE IF classes # {} THEN t ELSE Context(inst)
    BY <1>3, ClassesOfDestination DEF LiteralType, resolve_imm_type
  <1>5. inst.op = "MOV" => inst.op \notin SingleOps /\ inst.op \notin DoubleOps
    BY DEF SingleOps, DoubleOps
  <1>6. inst.op \in SingleOps => inst.op \notin DoubleOps
    BY DEF SingleOps, DoubleOps
  <1> HIDE DEF classes, t
  <1>7. DstClasses = classes
    BY DEF DstClasses, classes
  <1>8. inst.op \in SingleOps /\ FloatContext => LiteralType = "F32"
    BY <1>2, <1>3, <1>4, <1>6, <1>7 DEF FloatContext, IntegerClass
  <1>9. inst.op \in SingleOps /\ IntegerContext => LiteralType \in {"Int", "I64"}
    BY <1>2, <1>3, <1>4, <1>6, <1>7 DEF IntegerContext, IntegerClass
  <1>10. inst.op = "MOV" /\ (IntegerClass \/ DstClasses = {}) => LiteralType \notin {"F32", "F64"}
    BY <1>2, <1>3, <1>4, <1>5, <1>7 DEF IntegerClass
  <1> QED BY <1>4, <1>8, <1>9, <1>10

-----------------------------------------------------------------------------
(***************************************************************************)
(* Patterns and numbers.                                                   *)
(***************************************************************************)
LEMMA NumberOfPattern ==
  ASSUME NEW type \in {"f32", "f64"}, NEW x
  PROVE  Number(type, Pattern(type, x)) = x
  BY DEF Number, Pattern, Nothing

LEMMA NumberOfEncoding ==
  ASSUME NEW type \in {"f32", "f64"}, NEW x
  PROVE  Number(type, Encode(type, x)) = x
  <1>1. CASE x = NaN
    BY <1>1 DEF Number, Encode, Garbage, Nothing
  <1>2. CASE x # NaN
    BY <1>2, NumberOfPattern DEF Encode
  <1> QED BY <1>1, <1>2

(* The pattern of a literal is the one of its number and of its form. *)
LEMMA PatternOfBits ==
  ASSUME NEW b \in Bits, b.form # "garbage"
  PROVE  b = Pattern(b.form, b.of)
  <1>1. CASE b = Nothing
    BY <1>1 DEF Pattern, Nothing
  <1>2. CASE b \in [form: {"int", "f32", "f64"}, of: Int \ {0}]
    BY <1>2 DEF Pattern
  <1>3. b # Garbage
    BY DEF Garbage
  <1> QED BY <1>1, <1>2, <1>3 DEF Bits

-----------------------------------------------------------------------------
(***************************************************************************)
(* The registers a line reads hold, before the last line, what they held   *)
(* at first: only the scratch registers have been written.                 *)
(***************************************************************************)
Ready == \A c \in Cell \ ScratchCell : cells[c] = Initially(c)

LEMMA GeneralCell ==
  ASSUME InputOK, Ready, NEW n \in RegNo
  PROVE  /\ cells[<<"%r", n>>] = Pattern("f32", contents[<<"R", n>>])
         /\ cells[<<"%fd", n>>] = Pattern("f64", contents[<<"R", n>>])
  <1>1. \A c \in {"%r", "%fd"} : <<c, n>> \in Cell \ ScratchCell
    <2>1. n # ScratchBase /\ n # ScratchBase + 1
      BY LiftAssumption
    <2> QED BY <2>1 DEF Cell, ScratchCell
  <1>2. \A c \in {"%r", "%fd"} : cells[<<c, n>>] = Initially(<<c, n>>)
    BY <1>1 DEF Ready
  <1>3. /\ Initially(<<"%r", n>>) = Pattern("f32", contents[<<"R", n>>])
        /\ Initially(<<"%fd", n>>) = Pattern("f64", contents[<<"R", n>>])
    BY <1>1 DEF Initially
  <1> QED BY <1>2, <1>3

LEMMA PredicateCell ==
  ASSUME InputOK, Ready, NEW n \in PredNo
  PROVE  cells[<<"%p", n>>] = truths[n]
  <1>1. <<"%p", n>> \in Cell \ ScratchCell
    BY LiftAssumption DEF Cell, ScratchCell
  <1>2. Initially(<<"%p", n>>) = truths[n]
    <2>1. truths \in [PredNo -> BOOLEAN]
      BY LiftAssumption DEF InputOK
    <2>2. truths[n] \in BOOLEAN
      BY <2>1
    <2>3. Initially(<<"%p", n>>) = (<<"%p", n>> \notin ScratchCell /\ truths[n])
      BY DEF Initially
    <2> QED BY <1>1, <2>2, <2>3, Zenon
  <1> QED BY <1>1, <1>2 DEF Ready

LEMMA BitsOfArgument ==
  /\ \A v : BitsOf(Literal(v)) = v
  /\ \A c \in {"%r", "%fd", "%p"} : \A n : BitsOf(Arg(c, n)) = cells[<<c, n>>]
  BY DEF BitsOf, Literal, Arg

(* The literals of a supported instruction. *)
LEMMA LiteralKept ==
  ASSUME Supported, NEW n \in DOMAIN inst.src, inst.src[n].kind \in {"imm", "fimm"}
  PROVE  inst.src[n] \in Literals /\ LiteralsKept
  <1>1. inst.src[n] \in Literals
    BY DEF Literals, Operands
  <1> QED BY <1>1 DEF Supported

LEMMA NotUniform ==
  ASSUME Supported, NEW n \in DOMAIN inst.src
  PROVE  inst.src[n].prefix # "UR"
  BY DEF Supported, Operands

LEMMA SingleLiteral ==
  ASSUME InputOK, Supported, inst.op \in SingleOps,
         NEW n \in DOMAIN inst.src, inst.src[n].kind \in {"imm", "fimm"}
  PROVE  as_f32(Bridged.src[n]) = Literal(Pattern("f32", inst.src[n].bits.of))
  <1> DEFINE o == inst.src[n]
  <1>1. Bridged.src[n] = IF o.kind = "imm" THEN ImmediateOp(o.bits, LiteralType)
                          ELSE FloatImmediateOp(o.bits.of, LiteralType)
    BY LiteralSource
  <1>2. \/ FloatContext /\ (Whole(o) \/ o.kind = "fimm")
        \/ IntegerContext /\ (Small(o) \/ Single(o))
    <2>1. ~IsDouble /\ inst.op # "MOV"
      BY OpcodeClasses DEF IsDouble, SingleOps, DoubleOps
    <2>2. LiteralsKept /\ o \in Literals
      BY LiteralKept
    <2> QED BY <2>1, <2>2 DEF LiteralsKept
  <1>3. o.bits \in Bits
    BY InstructionForm DEF SassOperand
  <1>4. CASE FloatContext /\ Whole(o)
    <2>1. Bridged.src[n] = ImmOp("ImmF32", Encoded("f32", o.bits))
      BY <1>1, <1>4, LiteralTypes DEF ImmediateOp, Whole
    <2>2. Encoded("f32", o.bits) = Pattern("f32", o.bits.of)
      BY <1>4 DEF Encoded, Whole
    <2> QED BY <2>1, <2>2 DEF as_f32, ImmOp
  <1>5. CASE FloatContext /\ o.kind = "fimm"
    <2>1. Bridged.src[n] = ImmOp("ImmF32", Pattern("f32", o.bits.of))
      BY <1>1, <1>5, LiteralTypes DEF FloatImmediateOp
    <2> QED BY <2>1 DEF as_f32, ImmOp
  <1>6. CASE IntegerContext /\ (Small(o) \/ Single(o))
    <2>1. Bridged.src[n] = ImmOp("Imm", o.bits)
      BY <1>1, <1>6, LiteralTypes DEF ImmediateOp, Small, Single, Whole
    <2>2. imm_f32(o.bits) = Pattern("f32", o.bits.of)
      <3>1. CASE Small(o)
        <4>0. \A x \in -(4 * 128)..(4 * 255) : x >= -(4 * 128) /\ x <= 4 * 255
          OBVIOUS
        <4>1. o.bits.form = "int" /\ o.bits.of >= -(4 * 128) /\ o.bits.of <= 4 * 255
          BY <3>1, <4>0, Zenon DEF Small, Whole
        <4> QED BY <4>1 DEF imm_f32
      <3>2. CASE Single(o)
        <4>1. o.bits = Pattern("f32", o.bits.of)
          BY <3>2, <1>3, PatternOfBits DEF Single
        <4> QED BY <3>2, <4>1 DEF Single, imm_f32
      <3> QED BY <1>6, <3>1, <3>2
    <2>3. as_f32(ImmOp("Imm", o.bits)) = Literal(imm_f32(o.bits))
      BY DEF as_f32, ImmOp
    <2> QED BY <2>1, <2>2, <2>3
  <1> QED BY <1>2, <1>4, <1>5, <1>6

LEMMA DoubleLiteral ==
  ASSUME InputOK, Supported, inst.op \in DoubleOps,
         NEW n \in DOMAIN inst.src, inst.src[n].kind \in {"imm", "fimm"}
  PROVE  /\ as_f64(Bridged.src[n]) = Literal(Pattern("f64", inst.src[n].bits.of))
         /\ Bridged.src[n].op # "Imm"
  <1> DEFINE o == inst.src[n]
  <1>1. Bridged.src[n] = IF o.kind = "imm" THEN ImmediateOp(o.bits, "F64")
                          ELSE FloatImmediateOp(o.bits.of, "F64")
    BY LiteralSource, LiteralTypes
  <1>2. Whole(o)
    <2>1. IsDouble
      BY OpcodeClasses DEF IsDouble
    <2>2. LiteralsKept /\ o \in Literals
      BY LiteralKept
    <2> QED BY <2>1, <2>2, OpcodeClasses DEF LiteralsKept, DoubleOps
  <1>3. Bridged.src[n] = ImmOp("ImmF64", Encoded("f64", o.bits))
    BY <1>1, <1>2 DEF ImmediateOp, Whole
  <1>4. Encoded("f64", o.bits) = Pattern("f64", o.bits.of)
    BY <1>2 DEF Encoded, Whole
  <1> QED BY <1>3, <1>4 DEF as_f64, ImmOp

(***************************************************************************)
(* What a line of the rule reads for a source is the pattern of what SASS  *)
(* reads for it.                                                           *)
(***************************************************************************)
LEMMA SingleKept ==
  ASSUME InputOK, Supported, Ready, inst.op \in SingleOps,
         NEW n \in DOMAIN inst.src, n \notin Selecting(inst.op), inst.src[n].flag = "none"
  PROVE  BitsOf(as_f32(Bridged.src[n])) = Pattern("f32", SassValue(inst.src[n]))
  <1> DEFINE o == inst.src[n]
  <1>1. DataOperand(o) /\ o.prefix # "UR"
    BY InstructionForm, NotUniform DEF SassForm
  <1>2. CASE o.kind = "reg" /\ o.prefix = "R" /\ o.n \in RegNo
    <2>1. as_f32(Bridged.src[n]) = Arg("%r", o.n)
      <3>1. Bridged.src[n] = RegOp("Gpr", o.n)
        BY <1>2, GeneralSource DEF SingleOps, DoubleOps
      <3> QED BY <3>1 DEF as_f32, RegOp
    <2>2. SassValue(o) = contents[<<"R", o.n>>]
      BY <1>2 DEF SassValue, is_zero, Flagged
    <2> QED BY <2>1, <2>2, <1>2, GeneralCell, BitsOfArgument
  <1>3. CASE o.kind = "reg" /\ o.prefix = "RZ"
    <2>1. as_f32(Bridged.src[n]) = Literal(Nothing)
      BY <1>3, ZeroSource DEF as_f32, ZeroOp, RegOp
    <2>2. SassValue(o) = 0
      BY <1>3 DEF SassValue, is_zero
    <2> QED BY <2>1, <2>2, BitsOfArgument DEF Pattern
  <1>4. CASE o.kind \in {"imm", "fimm"}
    <2>1. SassValue(o) = o.bits.of
      BY <1>4 DEF SassValue
    <2> QED BY <2>1, <1>4, SingleLiteral, BitsOfArgument
  <1> QED BY <1>1, <1>2, <1>3, <1>4 DEF DataOperand, Immediate, FloatImmediate

LEMMA DoubleKept ==
  ASSUME InputOK, Supported, Ready, inst.op \in DoubleOps,
         NEW n \in DOMAIN inst.src, n \notin Selecting(inst.op), inst.src[n].flag = "none"
  PROVE  /\ BitsOf(as_f64(Bridged.src[n])) = Pattern("f64", SassValue(inst.src[n]))
         /\ Bridged.src[n].op \notin {"Imm", "NegGpr", "CabsGpr"}
  <1> DEFINE o == inst.src[n]
  <1>1. DataOperand(o) /\ o.prefix # "UR"
    BY InstructionForm, NotUniform DEF SassForm
  <1>2. CASE o.kind = "reg" /\ o.prefix = "R" /\ o.n \in RegNo
    <2>0. Bridged.src[n] = RegOp("GprF64", o.n)
      BY <1>2, GeneralSource
    <2>1. as_f64(Bridged.src[n]) = Arg("%fd", o.n)
      BY <2>0 DEF as_f64, RegOp
    <2>2. SassValue(o) = contents[<<"R", o.n>>]
      BY <1>2 DEF SassValue, is_zero, Flagged
    <2>3. BitsOf(Arg("%fd", o.n)) = Pattern("f64", contents[<<"R", o.n>>])
      BY <1>2, GeneralCell, BitsOfArgument
    <2>4. Bridged.src[n].op = "GprF64"
      BY <2>0 DEF RegOp
    <2> QED BY <2>1, <2>2, <2>3, <2>4
  <1>3. CASE o.kind = "reg" /\ o.prefix = "RZ"
    <2>1. as_f64(Bridged.src[n]) = Literal(Nothing) /\ Bridged.src[n].op = "Zero"
      BY <1>3, ZeroSource DEF as_f64, ZeroOp, RegOp
    <2>2. SassValue(o) = 0
      BY <1>3 DEF SassValue, is_zero
    <2> QED BY <2>1, <2>2, BitsOfArgument DEF Pattern
  <1>4. CASE o.kind \in {"imm", "fimm"}
    <2>1. SassValue(o) = o.bits.of
      BY <1>4 DEF SassValue
    <2> QED BY <2>1, <1>4, DoubleLiteral, NoFlaggedVariant, BitsOfArgument
  <1> QED BY <1>1, <1>2, <1>3, <1>4 DEF DataOperand, Immediate, FloatImmediate

(* A flag on the addend of FFMA: the register is read, the flag is not. *)
LEMMA FlaggedKept ==
  ASSUME InputOK, Supported, Ready, inst.op = "FFMA", inst.src[3].flag # "none", NEW v
  PROVE  /\ inst.src[3].flag \in {"neg", "cABS"}
         /\ 3 \in DOMAIN inst.src /\ inst.src[3].kind = "reg"
         /\ Bridged.src[3] = RegOp("Gpr", inst.src[3].n)
         /\ BitsOf(FlaggedRegister(Bridged, 3, v))
              = Pattern("f32", contents[<<"R", inst.src[3].n>>])
         /\ SassValue(inst.src[3]) = Flagged(inst.src[3].flag, contents[<<"R", inst.src[3].n>>])
  <1> DEFINE o == inst.src[3]
  <1>1. 3 \in DOMAIN inst.src /\ 3 \notin Selecting(inst.op)
    BY InstructionForm DEF Arity, Unary, Binary, Ternary, Selecting, SetsPredicate
  <1>2. o.prefix = "R" /\ o.flag \in {"neg", "cABS"}
    BY <1>1 DEF Supported, FlagsKept, FlagKept
  <1>3. DataOperand(o)
    BY <1>1, InstructionForm DEF SassForm
  <1>4. o.kind = "reg" /\ o.n \in RegNo
    BY <1>2, <1>3 DEF DataOperand, Immediate, FloatImmediate
  <1>5. Bridged.src[3] = RegOp("Gpr", o.n)
    BY <1>1, <1>2, <1>4, GeneralSource DEF DoubleOps
  <1>6. FlaggedRegister(Bridged, 3, v) = Arg("%r", o.n)
    BY <1>5 DEF FlaggedRegister, RegOp
  <1>7. SassValue(o) = Flagged(o.flag, contents[<<"R", o.n>>])
    BY <1>2, <1>4 DEF SassValue, is_zero
  <1> QED BY <1>1, <1>2, <1>4, <1>5, <1>6, <1>7, GeneralCell, BitsOfArgument

-----------------------------------------------------------------------------
(***************************************************************************)
(* What each kind of line computes of what it reads.                       *)
(***************************************************************************)
Read(type, arg) == Number(type, BitsOf(arg))

LEMMA UnaryLine ==
  ASSUME NEW type, NEW d, NEW a
  PROVE  /\ LineResult(Line("neg", type, d, <<a>>)) = Encode(type, Negated(Read(type, a)))
         /\ LineResult(Line("abs", type, d, <<a>>)) = Encode(type, Absolute(Read(type, a)))
         /\ LineResult(Line("mov", type, d, <<a>>)) = BitsOf(a)
  BY DEF LineResult, Line, Compute, Comparison, CmpModes, DoubleModes, Read

LEMMA BinaryLine ==
  ASSUME NEW type, NEW d, NEW a, NEW b
  PROVE  /\ LineResult(Line("add", type, d, <<a, b>>)) = Encode(type, Sum(Read(type, a), Read(type, b)))
         /\ LineResult(Line("mul", type, d, <<a, b>>)) = Encode(type, Product(Read(type, a), Read(type, b)))
         /\ LineResult(Line("min", type, d, <<a, b>>)) = Encode(type, Least(Read(type, a), Read(type, b)))
         /\ LineResult(Line("max", type, d, <<a, b>>)) = Encode(type, Greatest(Read(type, a), Read(type, b)))
  BY DEF LineResult, Line, Compute, Comparison, CmpModes, DoubleModes, Read

LEMMA CompareLine ==
  ASSUME NEW type, NEW d, NEW a, NEW b, NEW cmp \in Comparison
  PROVE  LineResult(Line(cmp, type, d, <<a, b>>)) = Holds(cmp, Read(type, a), Read(type, b))
  BY DEF LineResult, Line, Comparison, CmpModes, DoubleModes, Read

LEMMA TernaryLine ==
  ASSUME NEW type, NEW d, NEW a, NEW b, NEW c
  PROVE  /\ LineResult(Line("fma", type, d, <<a, b, c>>))
              = Encode(type, Sum(Product(Read(type, a), Read(type, b)), Read(type, c)))
         /\ LineResult(Line("selp", type, d, <<a, b, c>>))
              = IF BitsOf(c) THEN BitsOf(a) ELSE BitsOf(b)
  BY DEF LineResult, Line, Compute, Comparison, CmpModes, DoubleModes, Read

-----------------------------------------------------------------------------
(***************************************************************************)
(* The rules on a supported instruction: one line, which writes what SASS  *)
(* computes into the destination, or a line into the scratch register and  *)
(* such a line.                                                            *)
(***************************************************************************)
LEMMA Ports ==
  ASSUME InputOK
  PROVE  /\ inst.op \notin DoubleOps \cup SetsPredicate =>
              /\ as_f32(Bridged.dst[1]) = Arg("%r", inst.dst[1].n)
              /\ as_gpr(Bridged.dst[1]) = Arg("%r", inst.dst[1].n)
              /\ Bridged.dst[1].op = "Gpr"
              /\ Destination = <<"%r", inst.dst[1].n>>
         /\ inst.op \in DoubleOps \ SetsPredicate =>
              /\ as_f64(Bridged.dst[1]) = Arg("%fd", inst.dst[1].n)
              /\ Destination = <<"%fd", inst.dst[1].n>>
         /\ inst.op \in SetsPredicate =>
              /\ as_pred(Bridged.dst[1]) = Arg("%p", inst.dst[1].n)
              /\ Bridged.dst[1].op = "Pred"
              /\ Destination = <<"%p", inst.dst[1].n>>
         /\ Destination \in Cell \ ScratchCell
  <1> DEFINE d == inst.dst[1]
  <1>1. ASSUME inst.op \notin DoubleOps \cup SetsPredicate
        PROVE  /\ as_f32(Bridged.dst[1]) = Arg("%r", d.n)
               /\ as_gpr(Bridged.dst[1]) = Arg("%r", d.n)
               /\ Bridged.dst[1].op = "Gpr"
               /\ Destination = <<"%r", d.n>>
    <2>1. Bridged.dst[1] = RegOp("Gpr", d.n)
      BY <1>1, Destinations
    <2>2. Destination = <<"%r", d.n>>
      BY <1>1, OpcodeClasses DEF Destination, IsDouble, SetsPredicate
    <2> QED BY <2>1, <2>2 DEF RegOp, as_f32, as_gpr
  <1>2. ASSUME inst.op \in DoubleOps \ SetsPredicate
        PROVE  /\ as_f64(Bridged.dst[1]) = Arg("%fd", d.n)
               /\ Destination = <<"%fd", d.n>>
    <2>1. Bridged.dst[1] = RegOp("GprF64", d.n)
      BY <1>2, Destinations
    <2>2. Destination = <<"%fd", d.n>>
      BY <1>2, OpcodeClasses DEF Destination, IsDouble, SetsPredicate
    <2> QED BY <2>1, <2>2 DEF RegOp, as_f64
  <1>3. ASSUME inst.op \in SetsPredicate
        PROVE  /\ as_pred(Bridged.dst[1]) = Arg("%p", d.n)
               /\ Bridged.dst[1].op = "Pred"
               /\ Destination = <<"%p", d.n>>
    <2>1. Bridged.dst[1] = RegOp("Pred", d.n)
      BY <1>3, Destinations
    <2>2. Destination = <<"%p", d.n>>
      BY <1>3 DEF Destination, SetsPredicate
    <2> QED BY <2>1, <2>2 DEF RegOp, as_pred
  <1>4. Destination \in Cell \ ScratchCell
    <2>1. d.n # ScratchBase /\ d.n # ScratchBase + 1 /\ d.n \in RegNo
      BY Destinations, LiftAssumption
    <2>2. inst.op \in SetsPredicate => d.n \in PredNo /\ d.n # ScratchPredBase
      BY Destinations, LiftAssumption
    <2> QED BY <1>1, <1>2, <1>3, <2>1, <2>2 DEF Cell, ScratchCell
  <1> QED BY <1>1, <1>2, <1>3, <1>4

LEMMA WrittenLine ==
  \A name, type, c, n, args :
    LET line == Line(name, type, Arg(c, n), args)
    IN  Written(line) = <<c, n>> /\ line.d = Arg(c, n) /\ line.args = args
  BY DEF Written, Line, Arg

LastLine(line) == Written(line) = Destination /\ LineResult(line) = SassBits

(* The data sources of an instruction and what SASS reads there. *)
LEMMA FirstSources ==
  ASSUME InputOK
  PROVE  /\ \A n \in 1..Arity(inst.op) : n \in DOMAIN inst.src
         /\ inst.op # "MOV" /\ inst.op \in Unary => 1 \in DOMAIN inst.src /\ 1 \notin Selecting(inst.op)
         /\ inst.op \in Binary \cup Ternary =>
              /\ 1 \in DOMAIN inst.src /\ 1 \notin Selecting(inst.op)
              /\ 2 \in DOMAIN inst.src /\ 2 \notin Selecting(inst.op)
         /\ inst.op \in {"FFMA", "DFMA"} => 3 \in DOMAIN inst.src /\ 3 \notin Selecting(inst.op)
         /\ inst.op \in {"FMNMX", "FSET", "FSEL"} => 3 \in DOMAIN inst.src /\ 3 \in Selecting(inst.op)
         /\ inst.op \in SetsPredicate =>
              /\ 1 \in DOMAIN inst.src /\ 1 \in Selecting(inst.op)
              /\ 2 \in DOMAIN inst.src /\ 2 \notin Selecting(inst.op)
              /\ 3 \in DOMAIN inst.src /\ 3 \notin Selecting(inst.op)
              /\ 4 \in DOMAIN inst.src /\ 4 \in Selecting(inst.op)
  BY InstructionForm DEF Arity, Selecting, Unary, Binary, Ternary, SetsPredicate

LEMMA Unflagged ==
  ASSUME Supported, NEW n \in DOMAIN inst.src, n # 3 \/ inst.op \notin {"FFMA", "FMNMX"}
  PROVE  inst.src[n].flag = "none"
  BY DEF Supported, FlagsKept, FlagKept

LEMMA FaddLine ==
  ASSUME InputOK, Supported, Ready, inst.op = "FADD"
  PROVE  \E line : translate(Bridged) = <<line>> /\ LastLine(line)
  <1> DEFINE d == as_f32(Bridged.dst[1])
             a == as_f32(Bridged.src[1])
             b == as_f32(Bridged.src[2])
             line == Line("add", "f32", d, <<a, b>>)
  <1>1. 1 \in DOMAIN inst.src /\ 1 \notin Selecting(inst.op)
        /\ 2 \in DOMAIN inst.src /\ 2 \notin Selecting(inst.op)
    BY FirstSources DEF Binary
  <1>2. Read("f32", a) = SassValue(inst.src[1]) /\ Read("f32", b) = SassValue(inst.src[2])
    BY <1>1, SingleKept, Unflagged, NumberOfPattern DEF Read, SingleOps
  <1>3. translate(Bridged) = <<line>>
    BY BridgedFields, <1>1, NoFlaggedVariant DEF translate, fadd, Is
  <1>4. d = Arg("%r", inst.dst[1].n) /\ Destination = <<"%r", inst.dst[1].n>>
    BY Ports DEF DoubleOps, SetsPredicate
  <1>5. Written(line) = Destination
    BY <1>4, WrittenLine
  <1>6. LineResult(line) = Encode("f32", Sum(SassValue(inst.src[1]), SassValue(inst.src[2])))
    BY <1>2, BinaryLine
  <1>7. SassBits = Encode("f32", Sum(SassValue(inst.src[1]), SassValue(inst.src[2])))
    BY OpcodeClasses DEF SassBits, SassResult, IsDouble, DoubleOps
  <1> QED BY <1>3, <1>5, <1>6, <1>7 DEF LastLine

LEMMA FmulLine ==
  ASSUME InputOK, Supported, Ready, inst.op = "FMUL"
  PROVE  \E line : translate(Bridged) = <<line>> /\ LastLine(line)
  <1> DEFINE d == as_f32(Bridged.dst[1])
             a == as_f32(Bridged.src[1])
             b == as_f32(Bridged.src[2])
             line == Line("mul", "f32", d, <<a, b>>)
  <1>1. 1 \in DOMAIN inst.src /\ 1 \notin Selecting(inst.op)
        /\ 2 \in DOMAIN inst.src /\ 2 \notin Selecting(inst.op)
    BY FirstSources DEF Binary
  <1>2. Read("f32", a) = SassValue(inst.src[1]) /\ Read("f32", b) = SassValue(inst.src[2])
    BY <1>1, SingleKept, Unflagged, NumberOfPattern DEF Read, SingleOps
  <1>3. translate(Bridged) = <<line>>
    BY BridgedFields, <1>1, NoFlaggedVariant DEF translate, fmul, Is
  <1>4. d = Arg("%r", inst.dst[1].n) /\ Destination = <<"%r", inst.dst[1].n>>
    BY Ports DEF DoubleOps, SetsPredicate
  <1>5. Written(line) = Destination
    BY <1>4, WrittenLine
  <1>6. LineResult(line) = Encode("f32", Product(SassValue(inst.src[1]), SassValue(inst.src[2])))
    BY <1>2, BinaryLine
  <1>7. SassBits = Encode("f32", Product(SassValue(inst.src[1]), SassValue(inst.src[2])))
    BY OpcodeClasses DEF SassBits, SassResult, IsDouble, DoubleOps
  <1> QED BY <1>3, <1>5, <1>6, <1>7 DEF LastLine

LEMMA DaddLine ==
  ASSUME InputOK, Supported, Ready, inst.op = "DADD"
  PROVE  \E line : translate(Bridged) = <<line>> /\ LastLine(line)
  <1> DEFINE d == as_f64(Bridged.dst[1])
             a == as_f64(Bridged.src[1])
             b == as_f64(Bridged.src[2])
             line == Line("add", "f64", d, <<a, b>>)
  <1>1. 1 \in DOMAIN inst.src /\ 1 \notin Selecting(inst.op)
        /\ 2 \in DOMAIN inst.src /\ 2 \notin Selecting(inst.op)
    BY FirstSources DEF Binary
  <1>2. Read("f64", a) = SassValue(inst.src[1]) /\ Read("f64", b) = SassValue(inst.src[2])
    BY <1>1, DoubleKept, Unflagged, NumberOfPattern DEF Read, DoubleOps
  <1>3. translate(Bridged) = <<line>>
    BY BridgedFields, <1>1, NoFlaggedVariant DEF translate, dadd, Is
  <1>4. d = Arg("%fd", inst.dst[1].n) /\ Destination = <<"%fd", inst.dst[1].n>>
    BY Ports DEF DoubleOps, SetsPredicate
  <1>5. Written(line) = Destination
    BY <1>4, WrittenLine
  <1>6. LineResult(line) = Encode("f64", Sum(SassValue(inst.src[1]), SassValue(inst.src[2])))
    BY <1>2, BinaryLine
  <1>7. SassBits = Encode("f64", Sum(SassValue(inst.src[1]), SassValue(inst.src[2])))
    BY OpcodeClasses DEF SassBits, SassResult, IsDouble, DoubleOps
  <1> QED BY <1>3, <1>5, <1>6, <1>7 DEF LastLine

LEMMA DmulLine ==
  ASSUME InputOK, Supported, Ready, inst.op = "DMUL"
  PROVE  \E line : translate(Bridged) = <<line>> /\ LastLine(line)
  <1> DEFINE d == as_f64(Bridged.dst[1])
             a == as_f64(Bridged.src[1])
             b == as_f64(Bridged.src[2])
             line == Line("mul", "f64", d, <<a, b>>)
  <1>1. 1 \in DOMAIN inst.src /\ 1 \notin Selecting(inst.op)
        /\ 2 \in DOMAIN inst.src /\ 2 \notin Selecting(inst.op)
    BY FirstSources DEF Binary
  <1>2. Read("f64", a) = SassValue(inst.src[1]) /\ Read("f64", b) = SassValue(inst.src[2])
    BY <1>1, DoubleKept, Unflagged, NumberOfPattern DEF Read, DoubleOps
  <1>3. translate(Bridged) = <<line>>
    BY BridgedFields, <1>1, NoFlaggedVariant DEF translate, dmul, Is
  <1>4. d = Arg("%fd", inst.dst[1].n) /\ Destination = <<"%fd", inst.dst[1].n>>
    BY Ports DEF DoubleOps, SetsPredicate
  <1>5. Written(line) = Destination
    BY <1>4, WrittenLine
  <1>6. LineResult(line) = Encode("f64", Product(SassValue(inst.src[1]), SassValue(inst.src[2])))
    BY <1>2, BinaryLine
  <1>7. SassBits = Encode("f64", Product(SassValue(inst.src[1]), SassValue(inst.src[2])))
    BY OpcodeClasses DEF SassBits, SassResult, IsDouble, DoubleOps
  <1> QED BY <1>3, <1>5, <1>6, <1>7 DEF LastLine

LEMMA FabsLine ==
  ASSUME InputOK, Supported, Ready, inst.op = "FABS"
  PROVE  \E line : translate(Bridged) = <<line>> /\ LastLine(line)
  <1> DEFINE d == as_f32(Bridged.dst[1])
             a == as_f32(Bridged.src[1])
             line == Line("abs", "f32", d, <<a>>)
  <1>1. 1 \in DOMAIN inst.src /\ 1 \notin Selecting(inst.op)
    BY FirstSources DEF Unary
  <1>2. Read("f32", a) = SassValue(inst.src[1])
    BY <1>1, SingleKept, Unflagged, NumberOfPattern DEF Read, SingleOps
  <1>3. translate(Bridged) = <<line>>
    BY BridgedFields DEF translate, fabs
  <1>4. d = Arg("%r", inst.dst[1].n) /\ Destination = <<"%r", inst.dst[1].n>>
    BY Ports DEF DoubleOps, SetsPredicate
  <1>5. Written(line) = Destination
    BY <1>4, WrittenLine
  <1>6. LineResult(line) = Encode("f32", Absolute(SassValue(inst.src[1])))
    BY <1>2, UnaryLine
  <1>7. SassBits = Encode("f32", Absolute(SassValue(inst.src[1])))
    BY OpcodeClasses DEF SassBits, SassResult, IsDouble, DoubleOps
  <1> QED BY <1>3, <1>5, <1>6, <1>7 DEF LastLine

LEMMA FnegLine ==
  ASSUME InputOK, Supported, Ready, inst.op = "FNEG"
  PROVE  \E line : translate(Bridged) = <<line>> /\ LastLine(line)
  <1> DEFINE d == as_f32(Bridged.dst[1])
             a == as_f32(Bridged.src[1])
             line == Line("neg", "f32", d, <<a>>)
  <1>1. 1 \in DOMAIN inst.src /\ 1 \notin Selecting(inst.op)
    BY FirstSources DEF Unary
  <1>2. Read("f32", a) = SassValue(inst.src[1])
    BY <1>1, SingleKept, Unflagged, NumberOfPattern DEF Read, SingleOps
  <1>3. translate(Bridged) = <<line>>
    BY BridgedFields DEF translate, fneg
  <1>4. d = Arg("%r", inst.dst[1].n) /\ Destination = <<"%r", inst.dst[1].n>>
    BY Ports DEF DoubleOps, SetsPredicate
  <1>5. Written(line) = Destination
    BY <1>4, WrittenLine
  <1>6. LineResult(line) = Encode("f32", Negated(SassValue(inst.src[1])))
    BY <1>2, UnaryLine
  <1>7. SassBits = Encode("f32", Negated(SassValue(inst.src[1])))
    BY OpcodeClasses DEF SassBits, SassResult, IsDouble, DoubleOps
  <1> QED BY <1>3, <1>5, <1>6, <1>7 DEF LastLine

LEMMA DfmaLine ==
  ASSUME InputOK, Supported, Ready, inst.op = "DFMA"
  PROVE  \E line : translate(Bridged) = <<line>> /\ LastLine(line)
  <1> DEFINE d == as_f64(Bridged.dst[1])
             a == as_f64(Bridged.src[1])
             b == as_f64(Bridged.src[2])
             c == as_f64(Bridged.src[3])
             x(n) == SassValue(inst.src[n])
             line == Line("fma", "f64", d, <<a, b, c>>)
  <1>1. /\ 1 \in DOMAIN inst.src /\ 1 \notin Selecting(inst.op)
        /\ 2 \in DOMAIN inst.src /\ 2 \notin Selecting(inst.op)
        /\ 3 \in DOMAIN inst.src /\ 3 \notin Selecting(inst.op)
    BY FirstSources DEF Ternary
  <1>2. Read("f64", a) = x(1) /\ Read("f64", b) = x(2) /\ Read("f64", c) = x(3)
    BY <1>1, DoubleKept, Unflagged, NumberOfPattern DEF Read, DoubleOps
  <1>3. translate(Bridged) = <<line>>
    BY BridgedFields, <1>1, NoFlaggedVariant DEF translate, dfma, Is
  <1>4. d = Arg("%fd", inst.dst[1].n) /\ Destination = <<"%fd", inst.dst[1].n>>
    BY Ports DEF DoubleOps, SetsPredicate
  <1>5. Written(line) = Destination
    BY <1>4, WrittenLine
  <1>6. LineResult(line) = Encode("f64", Sum(Product(x(1), x(2)), x(3)))
    BY <1>2, TernaryLine
  <1>7. SassBits = Encode("f64", Sum(Product(x(1), x(2)), x(3)))
    BY OpcodeClasses DEF SassBits, SassResult, IsDouble, DoubleOps
  <1> QED BY <1>3, <1>5, <1>6, <1>7 DEF LastLine

LEMMA FfmaLine ==
  ASSUME InputOK, Supported, Ready, inst.op = "FFMA", inst.src[3].flag = "none"
  PROVE  \E line : translate(Bridged) = <<line>> /\ LastLine(line)
  <1> DEFINE d == as_f32(Bridged.dst[1])
             a == as_f32(Bridged.src[1])
             b == as_f32(Bridged.src[2])
             c == as_f32(Bridged.src[3])
             x(n) == SassValue(inst.src[n])
             line == Line("fma", "f32", d, <<a, b, c>>)
  <1>1. /\ 1 \in DOMAIN inst.src /\ 1 \notin Selecting(inst.op)
        /\ 2 \in DOMAIN inst.src /\ 2 \notin Selecting(inst.op)
        /\ 3 \in DOMAIN inst.src /\ 3 \notin Selecting(inst.op)
    BY FirstSources DEF Ternary
  <1>2. Read("f32", a) = x(1) /\ Read("f32", b) = x(2) /\ Read("f32", c) = x(3)
    BY <1>1, SingleKept, Unflagged, NumberOfPattern DEF Read, SingleOps
  <1>3. translate(Bridged) = <<line>>
    <2>1. \A n \in 1..3 : inst.src[n].flag = "none" /\ n \in DOMAIN inst.src
      BY <1>1, Unflagged, FirstSources DEF Arity, Unary, Binary, Ternary
    <2>2. NegatedSources(Bridged) = {}
      BY <2>1, FlagsOfSources, NoFlaggedVariant DEF NegatedSources, Is
    <2>3. ~Is(Bridged, 3, "CabsGpr") /\ <<"cABS", "src", 3>> \notin Bridged.flags
      BY <2>1, FlagsOfSources, NoFlaggedVariant DEF Is
    <2> QED BY <2>2, <2>3, BridgedFields DEF translate, ffma
  <1>4. d = Arg("%r", inst.dst[1].n) /\ Destination = <<"%r", inst.dst[1].n>>
    BY Ports DEF DoubleOps, SetsPredicate
  <1>5. Written(line) = Destination
    BY <1>4, WrittenLine
  <1>6. LineResult(line) = Encode("f32", Sum(Product(x(1), x(2)), x(3)))
    BY <1>2, TernaryLine
  <1>7. SassBits = Encode("f32", Sum(Product(x(1), x(2)), x(3)))
    BY OpcodeClasses DEF SassBits, SassResult, IsDouble, DoubleOps
  <1> QED BY <1>3, <1>5, <1>6, <1>7 DEF LastLine

LEMMA FmnmxLine ==
  ASSUME InputOK, Supported, Ready, inst.op = "FMNMX"
  PROVE  \E line : translate(Bridged) = <<line>> /\ LastLine(line)
  <1> DEFINE d == as_f32(Bridged.dst[1])
             a == as_f32(Bridged.src[1])
             b == as_f32(Bridged.src[2])
             x(n) == SassValue(inst.src[n])
             greatest == inst.src[3].flag = "neg"
             line == Line(IF greatest THEN "max" ELSE "min", "f32", d, <<a, b>>)
  <1>1. /\ 1 \in DOMAIN inst.src /\ 1 \notin Selecting(inst.op)
        /\ 2 \in DOMAIN inst.src /\ 2 \notin Selecting(inst.op)
        /\ 3 \in DOMAIN inst.src /\ 3 \in Selecting(inst.op)
    BY FirstSources DEF Ternary
  <1>2. Read("f32", a) = x(1) /\ Read("f32", b) = x(2)
    BY <1>1, SingleKept, Unflagged, NumberOfPattern DEF Read, SingleOps
  <1>3. inst.src[3].kind = "reg" /\ inst.src[3].prefix = "PT"
        /\ (inst.src[3].flag = "none" \/ inst.src[3].flag = "neg")
    <2>1. SelectorOperand(inst.src[3])
      BY <1>1, InstructionForm DEF SassForm
    <2>2. ChainKept /\ FlagsKept
      BY DEF Supported
    <2> QED BY <1>1, <2>1, <2>2 DEF ChainKept, FlagsKept, FlagKept, SelectorOperand
  <1>4. translate(Bridged) = <<line>>
    <2>1. ~Is(Bridged, 3, "NegPred")
      BY <1>1, <1>3, ZeroSource DEF Is, ZeroOp, RegOp
    <2>2. <<"neg", "src", 3>> \in Bridged.flags <=> greatest
      BY <1>1, <1>3, FlagsOfSources
    <2> QED BY <2>1, <2>2, BridgedFields DEF translate, fmnmx
  <1>5. d = Arg("%r", inst.dst[1].n) /\ Destination = <<"%r", inst.dst[1].n>>
    BY Ports DEF DoubleOps, SetsPredicate
  <1>6. Written(line) = Destination
    BY <1>5, WrittenLine
  <1>7. LineResult(line) = Encode("f32", IF greatest THEN Greatest(x(1), x(2)) ELSE Least(x(1), x(2)))
    BY <1>2, BinaryLine
  <1>8. SassBits = Encode("f32", IF greatest THEN Greatest(x(1), x(2)) ELSE Least(x(1), x(2)))
    BY OpcodeClasses, <1>3 DEF SassBits, SassResult, IsDouble, DoubleOps, SassTruth
  <1> QED BY <1>4, <1>6, <1>7, <1>8 DEF LastLine

LEMMA MovLine ==
  ASSUME InputOK, Supported, Ready, inst.op = "MOV"
  PROVE  \E line : translate(Bridged) = <<line>> /\ LastLine(line)
  <1> DEFINE d == as_gpr(Bridged.dst[1])
             a == as_gpr(Bridged.src[1])
             o == inst.src[1]
             line == Line("mov", "b32", d, <<a>>)
  <1>1. 1 \in DOMAIN inst.src /\ 1 \notin Selecting(inst.op) /\ o.flag = "none"
    BY FirstSources, Unflagged DEF Unary, Arity, Selecting, SetsPredicate
  <1>2. DataOperand(o) /\ o.prefix # "UR"
    BY <1>1, InstructionForm, NotUniform DEF SassForm
  <1>3. BitsOf(a) = SassBits
    <2>0. SassBits = IF o.kind = "imm" THEN o.bits ELSE Pattern("f32", SassValue(o))
      BY DEF SassBits
    <2>1. CASE o.kind = "reg" /\ o.prefix = "R" /\ o.n \in RegNo
      <3>1. Bridged.src[1] = RegOp("Gpr", o.n)
        BY <1>1, <2>1, GeneralSource DEF DoubleOps
      <3>2. a = Arg("%r", o.n)
        BY <3>1 DEF as_gpr, RegOp
      <3>3. SassValue(o) = contents[<<"R", o.n>>]
        BY <1>1, <2>1 DEF SassValue, is_zero, Flagged
      <3> QED BY <2>0, <2>1, <3>2, <3>3, GeneralCell, BitsOfArgument
    <2>2. CASE o.kind = "reg" /\ o.prefix = "RZ"
      <3>1. a = Literal(Nothing)
        BY <1>1, <2>2, ZeroSource DEF as_gpr, ZeroOp, RegOp
      <3>2. SassValue(o) = 0
        BY <2>2 DEF SassValue, is_zero
      <3> QED BY <2>0, <2>2, <3>1, <3>2, BitsOfArgument DEF Pattern
    <2>3. CASE o.kind \in {"imm", "fimm"}
      <3>1. o \in Literals /\ LiteralsKept
        BY <1>1, <2>3, LiteralKept
      <3>2. ~IsDouble
        BY OpcodeClasses DEF IsDouble, DoubleOps
      <3>3. o.kind = "imm" /\ (IntegerClass \/ DstClasses = {})
        BY <3>1, <3>2 DEF LiteralsKept
      <3>4. Bridged.src[1] = ImmOp("Imm", o.bits)
        BY <1>1, <3>3, LiteralSource, LiteralTypes DEF ImmediateOp
      <3>5. a = Literal(o.bits)
        BY <3>4 DEF as_gpr, ImmOp
      <3> QED BY <2>0, <3>3, <3>5, BitsOfArgument
    <2> QED BY <1>2, <2>1, <2>2, <2>3 DEF DataOperand, Immediate, FloatImmediate
  <1>4. translate(Bridged) = <<line>>
    BY BridgedFields, Ports, <1>1, NoFlaggedVariant DEF translate, mov, Is, DoubleOps, SetsPredicate
  <1>5. d = Arg("%r", inst.dst[1].n) /\ Destination = <<"%r", inst.dst[1].n>>
    BY Ports DEF DoubleOps, SetsPredicate
  <1>6. Written(line) = Destination
    BY <1>5, WrittenLine
  <1> QED BY <1>3, <1>4, <1>6, UnaryLine DEF LastLine

LEMMA FselLine ==
  ASSUME InputOK, Supported, Ready, inst.op = "FSEL"
  PROVE  \E line : translate(Bridged) = <<line>> /\ LastLine(line)
  <1> DEFINE d == as_gpr(Bridged.dst[1])
             a == as_f32(Bridged.src[1])
             b == as_f32(Bridged.src[2])
             p == Arg("%p", inst.src[3].n)
             x(n) == SassValue(inst.src[n])
             line == Line("selp", "f32", d, <<a, b, p>>)
  <1>1. /\ 1 \in DOMAIN inst.src /\ 1 \notin Selecting(inst.op)
        /\ 2 \in DOMAIN inst.src /\ 2 \notin Selecting(inst.op)
        /\ 3 \in DOMAIN inst.src /\ 3 \in Selecting(inst.op)
    BY FirstSources DEF Ternary
  <1>2. \A n \in 1..3 : inst.src[n].flag = "none"
    BY <1>1, Unflagged, FirstSources DEF Arity, Unary, Binary, Ternary
  <1>3. BitsOf(a) = Pattern("f32", x(1)) /\ BitsOf(b) = Pattern("f32", x(2))
    BY <1>1, <1>2, SingleKept DEF SingleOps
  <1>4. inst.src[3].kind = "reg" /\ inst.src[3].prefix = "P" /\ inst.src[3].n \in PredNo
    <2>1. SelectorOperand(inst.src[3])
      BY <1>1, InstructionForm DEF SassForm
    <2>2. ChainKept
      BY DEF Supported
    <2> QED BY <1>1, <2>1, <2>2 DEF ChainKept, SelectorOperand
  <1>5. BitsOf(p) = truths[inst.src[3].n]
    BY <1>4, PredicateCell, BitsOfArgument
  <1>6. translate(Bridged) = <<line>>
    <2>1. <<"neg", "src", 1>> \notin Bridged.flags /\ <<"neg", "src", 2>> \notin Bridged.flags
      BY <1>1, <1>2, FlagsOfSources
    <2>2. Bridged.src[3] = RegOp("Pred", inst.src[3].n)
      BY <1>1, <1>2, <1>4, PredicateSource
    <2>3. Is(Bridged, 3, "Pred") /\ Bridged.src[3].n = inst.src[3].n
      BY <2>2, <1>1, BridgedFields DEF Is, RegOp
    <2>4. fsel(Bridged) = << >> \o << >> \o <<line>>
      BY <2>1, <2>3 DEF fsel
    <2>5. << >> \o << >> \o <<line>> = <<line>>
      OBVIOUS
    <2> QED BY <2>4, <2>5, BridgedFields DEF translate
  <1>7. d = Arg("%r", inst.dst[1].n) /\ Destination = <<"%r", inst.dst[1].n>>
    BY Ports DEF DoubleOps, SetsPredicate
  <1>8. Written(line) = Destination
    BY <1>7, WrittenLine
  <1>9. LineResult(line) = IF truths[inst.src[3].n] THEN Pattern("f32", x(1)) ELSE Pattern("f32", x(2))
    BY <1>3, <1>5, TernaryLine
  <1>10. SassTruth(inst.src[3]) <=> truths[inst.src[3].n]
    <2>1. truths \in [PredNo -> BOOLEAN]
      BY LiftAssumption DEF InputOK
    <2>2. truths[inst.src[3].n] \in BOOLEAN /\ inst.src[3].flag = "none"
      BY <2>1, <1>2, <1>4
    <2>3. SassTruth(inst.src[3]) = (truths[inst.src[3].n] # (inst.src[3].flag = "neg"))
      BY <1>4 DEF SassTruth
    <2> QED BY <2>2, <2>3, Zenon
  <1>11. SassBits = Pattern("f32", IF SassTruth(inst.src[3]) THEN x(1) ELSE x(2))
    BY DEF SassBits
  <1> QED BY <1>6, <1>8, <1>9, <1>10, <1>11 DEF LastLine

(***************************************************************************)
(* Comparisons.                                                            *)
(***************************************************************************)
LEMMA LeastPosition ==
  ASSUME NEW T, T \subseteq Nat, T # {}
  PROVE  \E n \in T : \A m \in T : n <= m
  <1> DEFINE R == OpToRel(<, Nat)
  <1>1. PICK n \in T : \A m \in T : ~(<<m, n>> \in R)
    <2>1. IsWellFoundedOn(R, Nat)
      BY NatLessThanWellFounded
    <2> HIDE DEF R
    <2> QED BY <2>1, WFMin
  <1>2. R = {pair \in Nat \X Nat : pair[1] < pair[2]}
    BY Zenon DEF OpToRel
  <1> HIDE DEF R
  <1>3. ASSUME NEW m \in T PROVE n <= m
    <2>1. m \in Nat /\ n \in Nat /\ <<m, n>> \notin R
      BY <1>1, <1>3
    <2>2. <<m, n>> \in Nat \X Nat /\ <<m, n>>[1] = m /\ <<m, n>>[2] = n
      BY <2>1
    <2>3. ~(m < n)
      BY <1>2, <2>1, <2>2
    <2> QED BY <2>1, <2>3
  <1> QED BY <1>3

LEMMA FirstModIsAMod ==
  ASSUME InputOK, NEW i, i.mods = inst.mods, NEW mods, NEW default
  PROVE  \/ FirstMod(i, mods, default) = default /\ \A n \in DOMAIN inst.mods : inst.mods[n] \notin mods
         \/ \E n \in DOMAIN inst.mods : FirstMod(i, mods, default) = inst.mods[n] /\ inst.mods[n] \in mods
  <1> DEFINE found == {n \in DOMAIN i.mods : i.mods[n] \in mods}
  <1>1. CASE found = {}
    BY <1>1 DEF FirstMod
  <1>2. CASE found # {}
    <2>1. found \subseteq Nat
      <3>1. inst.mods \in Seq(STRING)
        BY InstructionForm DEF Instruction
      <3> QED BY <3>1
    <2> HIDE DEF found
    <2>2. \E n \in found : \A m \in found : n <= m
      BY <1>2, <2>1, LeastPosition
    <2>3. (CHOOSE n \in found : \A m \in found : n <= m) \in found
      BY <2>2
    <2>4. FirstMod(i, mods, default) = i.mods[CHOOSE n \in found : \A m \in found : n <= m]
      BY <1>2 DEF FirstMod, found
    <2> QED BY <2>3, <2>4 DEF found
  <1> QED BY <1>1, <1>2

(* The comparison a rule finds is the one the instruction names. *)
LEMMA NamedComparison ==
  ASSUME InputOK, NEW i, i.mods = inst.mods, NEW modes, modes \subseteq Comparison,
         HasMod(inst, modes), NEW default
  PROVE  LET cmp == FirstMod(i, modes, default)
         IN  /\ cmp \in modes
             /\ cmp = FirstMod(inst, Comparison, "none")
             /\ \A n \in DOMAIN inst.mods : inst.mods[n] \in Comparison => inst.mods[n] = cmp
  <1>1. PICK k \in DOMAIN inst.mods : FirstMod(i, modes, default) = inst.mods[k] /\ inst.mods[k] \in modes
    BY FirstModIsAMod DEF HasMod
  <1>2. PICK n \in DOMAIN inst.mods :
          FirstMod(inst, Comparison, "none") = inst.mods[n] /\ inst.mods[n] \in Comparison
    BY <1>1, FirstModIsAMod
  <1>3. \A l, m \in DOMAIN inst.mods :
          inst.mods[l] \in Comparison /\ inst.mods[m] \in Comparison => l = m
    BY InstructionForm DEF SassForm
  <1> QED BY <1>1, <1>2, <1>3

LEMMA NamedCombination ==
  ASSUME InputOK, NEW i, i.mods = inst.mods, Conjoins
  PROVE  FirstMod(i, {"AND", "OR", "XOR"}, "AND") = "AND"
  BY FirstModIsAMod DEF Conjoins, HasMod

(* A chain of PT leaves the comparison, which FALSE leaves false whatever the chain. *)
LEMMA PlainVerdict ==
  ASSUME InputOK, Conjoins, NEW x, NEW y, NEW chain
  PROVE  LET cmp == FirstMod(inst, Comparison, "none")
         IN  /\ cmp = "F" => SassVerdict(x, y, chain) = FALSE
             /\ IsPT(chain) /\ cmp = "T" => SassVerdict(x, y, chain) = TRUE
             /\ IsPT(chain) /\ cmp \notin {"F", "T"} /\ Holds(cmp, x, y) \in BOOLEAN
                  => SassVerdict(x, y, chain) = Holds(cmp, x, y)
  <1> DEFINE cmp == FirstMod(inst, Comparison, "none")
             holds == Holds(cmp, x, y)
             truth == SassTruth(chain)
  <1>1. FirstMod(inst, {"AND", "OR", "XOR"}, "AND") = "AND"
    BY NamedCombination
  <1>2. SassVerdict(x, y, chain) = Combined("AND", truth, cmp = "T" \/ (cmp # "F" /\ holds))
    BY <1>1 DEF SassVerdict
  <1>3. IsPT(chain) => truth = TRUE
    BY DEF IsPT, SassTruth
  <1> HIDE DEF cmp, truth, holds
  <1>4. SassVerdict(x, y, chain) = (truth /\ (cmp = "T" \/ (cmp # "F" /\ holds)))
    BY <1>2 DEF Combined
  <1>5. cmp = "F" => SassVerdict(x, y, chain) = FALSE
    BY <1>4, Zenon
  <1>6. IsPT(chain) /\ cmp = "T" => SassVerdict(x, y, chain) = TRUE
    BY <1>3, <1>4, Zenon
  <1>7. IsPT(chain) /\ cmp \notin {"F", "T"} /\ holds \in BOOLEAN => SassVerdict(x, y, chain) = holds
    BY <1>3, <1>4, Zenon
  <1> QED BY <1>5, <1>6, <1>7 DEF cmp, holds

LEMMA HoldsIsBoolean ==
  ASSUME NEW cmp \in Comparison \ {"F", "T"}, NEW x \in Int, NEW y \in Int
  PROVE  Holds(cmp, x, y) \in BOOLEAN
  BY DEF Holds, Comparison, CmpModes, DoubleModes

LEMMA ValueOfSource ==
  ASSUME InputOK, NEW n \in DOMAIN inst.src, n \notin Selecting(inst.op), inst.src[n].flag = "none"
  PROVE  SassValue(inst.src[n]) \in Int
  <1> DEFINE o == inst.src[n]
  <1>1. DataOperand(o) /\ o \in SassOperand
    BY InstructionForm DEF SassForm
  <1>2. CASE o.kind \in {"imm", "fimm"}
    <2>1. o.bits \in Bits
      BY <1>1 DEF SassOperand
    <2>2. o.bits.of \in Int
      BY <2>1 DEF Bits, Nothing, Garbage
    <2> QED BY <1>2, <2>2 DEF SassValue
  <1>3. CASE o.kind = "reg" /\ o.prefix = "RZ"
    BY <1>3 DEF SassValue, is_zero
  <1>4. CASE o.kind = "reg" /\ o.prefix \in {"R", "UR"} /\ o.n \in RegNo
    <2>1. contents \in [{"R", "UR"} \X RegNo -> Numbers \cup {NaN}]
      BY LiftAssumption DEF InputOK
    <2>2. contents[<<o.prefix, o.n>>] \in Numbers \cup {NaN}
      BY <1>4, <2>1
    <2>3. SassValue(o) = contents[<<o.prefix, o.n>>]
      BY <1>4 DEF SassValue, is_zero, Flagged
    <2>4. NaN \in Int
      BY SMT DEF NaN
    <2>5. \A v \in Numbers \cup {NaN} : v \in Int
      BY <2>4, NumbersAssumption, SMT
    <2> QED BY <2>2, <2>3, <2>5, Zenon
  <1> QED BY <1>1, <1>2, <1>3, <1>4 DEF DataOperand, Immediate, FloatImmediate

LEMMA FsetpLine ==
  ASSUME InputOK, Supported, Ready, inst.op = "FSETP"
  PROVE  \E line : translate(Bridged) = <<line>> /\ LastLine(line)
  <1> DEFINE pd == as_pred(Bridged.dst[1])
             a == as_f32(Bridged.src[2])
             b == as_f32(Bridged.src[3])
             s == inst.src
             x(n) == SassValue(inst.src[n])
             cmp == FirstMod(Bridged, CmpModes, "EQ")
  <1>1. /\ 1 \in DOMAIN inst.src /\ 4 \in DOMAIN inst.src
        /\ 2 \in DOMAIN inst.src /\ 2 \notin Selecting(inst.op)
        /\ 3 \in DOMAIN inst.src /\ 3 \notin Selecting(inst.op)
        /\ s[2].flag = "none" /\ s[3].flag = "none"
    BY FirstSources, Unflagged DEF SetsPredicate
  <1>2. Read("f32", a) = x(2) /\ Read("f32", b) = x(3) /\ x(2) \in Int /\ x(3) \in Int
    BY <1>1, SingleKept, NumberOfPattern, ValueOfSource DEF Read, SingleOps
  <1>3. /\ IsPT(s[1]) /\ Conjoins /\ HasMod(inst, CmpModes)
        /\ HasMod(inst, {"F"}) \/ (IsPT(s[4]) /\ (HasMod(inst, {"T"}) \/ inst.dst[1].n # 0))
    BY DEF Supported, ChainKept
  <1>4. /\ cmp \in CmpModes
        /\ cmp = FirstMod(inst, Comparison, "none")
        /\ \A n \in DOMAIN inst.mods : inst.mods[n] \in Comparison => inst.mods[n] = cmp
    BY <1>3, NamedComparison, BridgedFields DEF Comparison
  <1>5. (HasMod(inst, {"F"}) => cmp = "F") /\ (HasMod(inst, {"T"}) => cmp = "T")
    BY <1>4 DEF HasMod, Comparison, CmpModes
  <1>6. pd = Arg("%p", inst.dst[1].n) /\ Destination = <<"%p", inst.dst[1].n>>
    BY Ports DEF SetsPredicate
  <1>7. as_pred(Bridged.src[1]) = P0
    <2>1. inst.src[1].kind = "reg"
      BY <1>1, FirstSources, InstructionForm DEF SassForm, SelectorOperand, SetsPredicate
    <2> QED BY <1>1, <1>3, <2>1, ZeroSource DEF IsPT, as_pred, ZeroOp, RegOp
  <1>8. FirstMod(Bridged, {"AND", "OR", "XOR"}, "AND") = "AND"
    BY <1>3, NamedCombination, BridgedFields
  <1>9. SassBits = SassVerdict(x(2), x(3), s[4])
    BY DEF SassBits
  <1> HIDE DEF cmp
  <1>10. CASE cmp = "F"
    <2> DEFINE line == MovPred(pd, FALSE)
    <2>0. fsetp(Bridged) = <<line>>
      BY <1>10, Zenon DEF fsetp, cmp
    <2>1. translate(Bridged) = <<line>>
      BY <2>0, BridgedFields, Zenon DEF translate
    <2>2. Written(line) = Destination
      BY <1>6, WrittenLine DEF MovPred
    <2>3. LineResult(line) = FALSE
      <3>1. BitsOf(Literal(FALSE)) = FALSE
        BY BitsOfArgument, Zenon
      <3>2. LineResult(Line("mov", "pred", pd, <<Literal(FALSE)>>)) = BitsOf(Literal(FALSE))
        BY UnaryLine, Zenon
      <3> QED BY <3>1, <3>2, Zenon DEF MovPred
    <2>4. SassBits = FALSE
      BY <1>3, <1>4, <1>9, <1>10, PlainVerdict
    <2> QED BY <2>1, <2>2, <2>3, <2>4 DEF LastLine
  <1>11. CASE cmp = "T"
    <2> DEFINE line == MovPred(pd, TRUE)
    <2>0. fsetp(Bridged) = <<line>>
      BY <1>11, Zenon DEF fsetp, cmp
    <2>1. translate(Bridged) = <<line>>
      BY <2>0, BridgedFields, Zenon DEF translate
    <2>2. Written(line) = Destination
      BY <1>6, WrittenLine DEF MovPred
    <2>3. LineResult(line) = TRUE
      <3>1. BitsOf(Literal(TRUE)) = TRUE
        BY BitsOfArgument, Zenon
      <3>2. LineResult(Line("mov", "pred", pd, <<Literal(TRUE)>>)) = BitsOf(Literal(TRUE))
        BY UnaryLine, Zenon
      <3> QED BY <3>1, <3>2, Zenon DEF MovPred
    <2>4. SassBits = TRUE
      BY <1>3, <1>4, <1>5, <1>9, <1>11, PlainVerdict
    <2> QED BY <2>1, <2>2, <2>3, <2>4 DEF LastLine
  <1>12. CASE cmp \notin {"F", "T"}
    <2> DEFINE line == Line(cmp, "f32", pd, <<a, b>>)
    <2>1. translate(Bridged) = <<line>>
      <3>1. P0 # pd
        BY <1>3, <1>5, <1>6, <1>12 DEF P0, Arg
      <3>2. fsetp(Bridged) = <<line>>
        BY <1>7, <1>8, <1>12, <3>1, SMT DEF fsetp, cmp
      <3> QED BY <3>2, BridgedFields, Zenon DEF translate
    <2>2. Written(line) = Destination
      BY <1>6, WrittenLine
    <2>3. cmp \in Comparison \ {"F", "T"}
      BY <1>4, <1>12 DEF Comparison
    <2>4. LineResult(line) = Holds(cmp, x(2), x(3))
      BY <1>2, <2>3, CompareLine
    <2>5. SassBits = Holds(cmp, x(2), x(3))
      BY <1>2, <1>3, <1>4, <1>5, <1>9, <1>12, <2>3, HoldsIsBoolean, PlainVerdict
    <2> QED BY <2>1, <2>2, <2>4, <2>5 DEF LastLine
  <1> QED BY <1>10, <1>11, <1>12

LEMMA DsetpLine ==
  ASSUME InputOK, Supported, Ready, inst.op = "DSETP"
  PROVE  \E line : translate(Bridged) = <<line>> /\ LastLine(line)
  <1> DEFINE pd == as_pred(Bridged.dst[1])
             a == as_f64(Bridged.src[2])
             b == as_f64(Bridged.src[3])
             s == inst.src
             x(n) == SassValue(inst.src[n])
             cmp == FirstMod(Bridged, DoubleModes, "LT")
             line == Line(cmp, "f64", pd, <<a, b>>)
  <1>1. /\ 1 \in DOMAIN inst.src /\ 4 \in DOMAIN inst.src
        /\ 2 \in DOMAIN inst.src /\ 2 \notin Selecting(inst.op)
        /\ 3 \in DOMAIN inst.src /\ 3 \notin Selecting(inst.op)
        /\ s[2].flag = "none" /\ s[3].flag = "none"
    BY FirstSources, Unflagged DEF SetsPredicate
  <1>2. /\ Read("f64", a) = x(2) /\ Read("f64", b) = x(3) /\ x(2) \in Int /\ x(3) \in Int
        /\ Bridged.src[2].op # "Imm" /\ Bridged.src[3].op # "Imm"
    BY <1>1, DoubleKept, NumberOfPattern, ValueOfSource DEF Read, DoubleOps
  <1>3. IsPT(s[1]) /\ IsPT(s[4]) /\ Conjoins /\ HasMod(inst, DoubleModes)
    BY DEF Supported, ChainKept
  <1>4. cmp \in DoubleModes /\ cmp = FirstMod(inst, Comparison, "none")
    <2>1. DoubleModes \subseteq Comparison
      BY DEF Comparison
    <2>2. Bridged.mods = inst.mods
      BY BridgedFields
    <2> QED BY <1>3, <2>1, <2>2, NamedComparison, Zenon
  <1>5. /\ pd = Arg("%p", inst.dst[1].n) /\ Destination = <<"%p", inst.dst[1].n>>
        /\ Bridged.dst[1].op = "Pred"
    BY Ports DEF SetsPredicate
  <1>6. translate(Bridged) = <<line>>
    <2>1. dsetp(Bridged) = <<line>>
      BY <1>2, <1>5, SMT DEF dsetp
    <2> QED BY <2>1, BridgedFields, Zenon DEF translate
  <1>7. Written(line) = Destination
    BY <1>5, WrittenLine
  <1> HIDE DEF cmp
  <1>8. cmp \in Comparison \ {"F", "T"}
    BY <1>4 DEF Comparison, DoubleModes
  <1>9. LineResult(line) = Holds(cmp, x(2), x(3))
    BY <1>2, <1>8, CompareLine
  <1>10. SassBits = Holds(cmp, x(2), x(3))
    <2>1. SassBits = SassVerdict(x(2), x(3), s[4])
      BY DEF SassBits
    <2> QED BY <1>2, <1>3, <1>4, <1>8, <2>1, HoldsIsBoolean, PlainVerdict
  <1> QED BY <1>6, <1>7, <1>9, <1>10 DEF LastLine

-----------------------------------------------------------------------------
(***************************************************************************)
(* Two lines: FSET, which compares into the scratch predicate, and FFMA of *)
(* a flagged addend, whose flag is applied into the scratch register.      *)
(***************************************************************************)
FirstValue ==
  IF inst.op = "FSET"
  THEN Holds(FirstMod(inst, Comparison, "none"), SassValue(inst.src[1]), SassValue(inst.src[2]))
  ELSE Encode("f32", SassValue(inst.src[3]))

TwoLines(first, last) ==
  /\ translate(Bridged) = <<first, last>>
  /\ Written(first) \in ScratchCell
  /\ LineResult(first) = FirstValue
  /\ Written(last) = Destination

FsetOperands ==
  LET a == as_f32(Bridged.src[1])
      b == as_f32(Bridged.src[2])
  IN  /\ Read("f32", a) = SassValue(inst.src[1]) /\ SassValue(inst.src[1]) \in Int
      /\ Read("f32", b) = SassValue(inst.src[2]) /\ SassValue(inst.src[2]) \in Int
      /\ as_f32(Bridged.dst[1]) = Arg("%r", inst.dst[1].n)
      /\ Destination = <<"%r", inst.dst[1].n>>
      /\ IsPT(inst.src[3]) /\ Conjoins /\ HasMod(inst, CmpModes)
      /\ FirstMod(Bridged, CmpModes, "EQ") = FirstMod(inst, Comparison, "none")
      /\ FirstMod(inst, Comparison, "none") \in CmpModes
      /\ SassBits = IF SassVerdict(SassValue(inst.src[1]), SassValue(inst.src[2]), inst.src[3])
                    THEN Pattern("int", 4) ELSE Nothing

LEMMA FsetReads ==
  ASSUME InputOK, Supported, Ready, inst.op = "FSET"
  PROVE  FsetOperands
  <1>1. /\ 1 \in DOMAIN inst.src /\ 1 \notin Selecting(inst.op)
        /\ 2 \in DOMAIN inst.src /\ 2 \notin Selecting(inst.op)
        /\ inst.src[1].flag = "none" /\ inst.src[2].flag = "none"
    BY FirstSources, Unflagged DEF Ternary
  <1>2. /\ Read("f32", as_f32(Bridged.src[1])) = SassValue(inst.src[1]) /\ SassValue(inst.src[1]) \in Int
        /\ Read("f32", as_f32(Bridged.src[2])) = SassValue(inst.src[2]) /\ SassValue(inst.src[2]) \in Int
    BY <1>1, SingleKept, NumberOfPattern, ValueOfSource DEF Read, SingleOps
  <1>3. IsPT(inst.src[3]) /\ Conjoins /\ HasMod(inst, CmpModes)
    BY DEF Supported, ChainKept
  <1>4. /\ FirstMod(Bridged, CmpModes, "EQ") = FirstMod(inst, Comparison, "none")
        /\ FirstMod(Bridged, CmpModes, "EQ") \in CmpModes
    <2>1. CmpModes \subseteq Comparison
      BY DEF Comparison
    <2>2. Bridged.mods = inst.mods
      BY BridgedFields
    <2> QED BY <1>3, <2>1, <2>2, NamedComparison, Zenon
  <1>5. as_f32(Bridged.dst[1]) = Arg("%r", inst.dst[1].n) /\ Destination = <<"%r", inst.dst[1].n>>
    BY Ports DEF DoubleOps, SetsPredicate
  <1>6. SassBits = IF SassVerdict(SassValue(inst.src[1]), SassValue(inst.src[2]), inst.src[3])
                   THEN Pattern("int", 4) ELSE Nothing
    BY DEF SassBits
  <1> QED BY <1>2, <1>3, <1>4, <1>5, <1>6 DEF FsetOperands

LEMMA FsetConstant ==
  ASSUME InputOK, Supported, Ready, inst.op = "FSET", FirstMod(inst, Comparison, "none") \in {"F", "T"}
  PROVE  \E line : translate(Bridged) = <<line>> /\ LastLine(line)
  <1> DEFINE d == as_f32(Bridged.dst[1])
             cmp == FirstMod(Bridged, CmpModes, "EQ")
             v == IF cmp = "F" THEN Nothing ELSE Pattern("int", 4)
             line == Line("mov", "b32", d, <<Literal(v)>>)
  <1>1. FsetOperands
    BY FsetReads
  <1>2. cmp = FirstMod(inst, Comparison, "none") /\ cmp \in {"F", "T"}
    BY <1>1 DEF FsetOperands
  <1>3. SassBits = v
    <2>1. CASE cmp = "F"
      BY <1>1, <1>2, <2>1, PlainVerdict DEF FsetOperands
    <2>2. CASE cmp = "T"
      BY <1>1, <1>2, <2>2, PlainVerdict DEF FsetOperands
    <2> QED BY <1>2, <2>1, <2>2
  <1>4. translate(Bridged) = <<line>>
    <2>1. fset(Bridged) = <<line>>
      BY <1>2 DEF fset
    <2> QED BY <2>1, BridgedFields, Zenon DEF translate
  <1>5. Written(line) = Destination
    BY <1>1, WrittenLine DEF FsetOperands
  <1>6. LineResult(line) = v
    BY UnaryLine, BitsOfArgument
  <1> QED BY <1>3, <1>4, <1>5, <1>6 DEF LastLine

FsetCompare == Line(FirstMod(Bridged, CmpModes, "EQ"), "f32", ScratchPred,
                    <<as_f32(Bridged.src[1]), as_f32(Bridged.src[2])>>)
FsetSelect == Line("selp", "b32", as_f32(Bridged.dst[1]),
                   <<Literal(Pattern("int", 4)), Literal(Nothing), ScratchPred>>)

LEMMA FsetLines ==
  ASSUME InputOK, Supported, Ready, inst.op = "FSET", FirstMod(inst, Comparison, "none") \notin {"F", "T"}
  PROVE  TwoLines(FsetCompare, FsetSelect)
  <1> DEFINE cmp == FirstMod(Bridged, CmpModes, "EQ")
  <1>1. FsetOperands
    BY FsetReads
  <1>2. /\ cmp = FirstMod(inst, Comparison, "none") /\ cmp # "F" /\ cmp # "T"
        /\ cmp \in Comparison
    BY <1>1 DEF FsetOperands, Comparison
  <1>3. translate(Bridged) = <<FsetCompare, FsetSelect>>
    <2>1. fset(Bridged) = <<FsetCompare, FsetSelect>>
      BY <1>2 DEF fset, FsetCompare, FsetSelect
    <2> QED BY <2>1, BridgedFields, Zenon DEF translate
  <1>4. Written(FsetCompare) \in ScratchCell
    BY WrittenLine DEF FsetCompare, ScratchPred, ScratchCell
  <1>5. LineResult(FsetCompare) = FirstValue
    <2>1. LineResult(FsetCompare) = Holds(cmp, Read("f32", as_f32(Bridged.src[1])),
                                               Read("f32", as_f32(Bridged.src[2])))
      BY <1>2, CompareLine DEF FsetCompare
    <2> HIDE DEF cmp
    <2> QED BY <1>1, <1>2, <2>1 DEF FsetOperands, FirstValue
  <1>6. Written(FsetSelect) = Destination
    BY <1>1, WrittenLine DEF FsetSelect, FsetOperands
  <1> QED BY <1>3, <1>4, <1>5, <1>6 DEF TwoLines

LEMMA FsetSelects ==
  ASSUME InputOK, Supported, Ready, inst.op = "FSET", FirstMod(inst, Comparison, "none") \notin {"F", "T"},
         cells[Written(FsetCompare)] = FirstValue
  PROVE  LineResult(FsetSelect) = SassBits
  <1> DEFINE holds == Holds(FirstMod(inst, Comparison, "none"), SassValue(inst.src[1]),
                            SassValue(inst.src[2]))
  <1>1. FsetOperands
    BY FsetReads
  <1>2. SassVerdict(SassValue(inst.src[1]), SassValue(inst.src[2]), inst.src[3]) = holds
    <2>1. FirstMod(inst, Comparison, "none") \in Comparison \ {"F", "T"}
      BY <1>1 DEF FsetOperands, Comparison
    <2>2. holds \in BOOLEAN
      BY <1>1, <2>1, HoldsIsBoolean DEF FsetOperands
    <2> QED BY <1>1, <2>1, <2>2, PlainVerdict DEF FsetOperands
  <1>3. BitsOf(ScratchPred) = holds
    <2>1. Written(FsetCompare) = <<"%p", ScratchPredBase>>
      BY WrittenLine DEF FsetCompare, ScratchPred
    <2>2. BitsOf(ScratchPred) = cells[<<"%p", ScratchPredBase>>]
      BY BitsOfArgument DEF ScratchPred
    <2>3. FirstValue = holds
      BY DEF FirstValue
    <2> QED BY <2>1, <2>2, <2>3, Zenon
  <1> HIDE DEF holds
  <1>4. LineResult(FsetSelect) = IF BitsOf(ScratchPred) THEN BitsOf(Literal(Pattern("int", 4)))
                                 ELSE BitsOf(Literal(Nothing))
    BY TernaryLine DEF FsetSelect
  <1>5. LineResult(FsetSelect) = IF holds THEN Pattern("int", 4) ELSE Nothing
    BY <1>3, <1>4, BitsOfArgument
  <1> QED BY <1>1, <1>2, <1>5 DEF FsetOperands

FfmaFlag == Line(IF inst.src[3].flag = "neg" THEN "neg" ELSE "abs", "f32", Scratch(0),
                 <<Arg("%r", inst.src[3].n)>>)
FfmaSum == Line("fma", "f32", as_f32(Bridged.dst[1]),
                <<as_f32(Bridged.src[1]), as_f32(Bridged.src[2]), Scratch(0)>>)

LEMMA FfmaLines ==
  ASSUME InputOK, Supported, Ready, inst.op = "FFMA", inst.src[3].flag # "none"
  PROVE  TwoLines(FfmaFlag, FfmaSum)
  <1> DEFINE o == inst.src[3]
  <1>1. /\ o.flag \in {"neg", "cABS"} /\ 3 \in DOMAIN inst.src /\ o.kind = "reg"
        /\ Bridged.src[3] = RegOp("Gpr", o.n)
        /\ SassValue(o) = Flagged(o.flag, contents[<<"R", o.n>>])
    BY FlaggedKept
  <1>2. /\ \A n \in 1..2 : inst.src[n].flag = "none" /\ n \in DOMAIN inst.src
        /\ \A n \in 1..3 : n \in DOMAIN inst.src
    BY Unflagged, FirstSources DEF Arity, Unary, Binary, Ternary
  <1>3. \A v : FlaggedRegister(Bridged, 3, v) = Arg("%r", o.n)
    BY <1>1 DEF FlaggedRegister, RegOp
  <1>4. BitsOf(Arg("%r", o.n)) = Pattern("f32", contents[<<"R", o.n>>])
    BY <1>3, FlaggedKept
  <1>5. /\ 1 \notin NegatedSources(Bridged) /\ 2 \notin NegatedSources(Bridged)
        /\ 3 \in NegatedSources(Bridged) <=> o.flag = "neg"
    <2>1. \A n \in 1..3 : ~Is(Bridged, n, "NegGpr")
      BY <1>2, NoFlaggedVariant DEF Is
    <2>2. \A n \in 1..2 : <<"neg", "src", n>> \notin Bridged.flags
      BY <1>2, FlagsOfSources
    <2>3. <<"neg", "src", 3>> \in Bridged.flags <=> o.flag = "neg"
      BY <1>1, FlagsOfSources
    <2> QED BY <2>1, <2>2, <2>3 DEF NegatedSources
  <1>6. translate(Bridged) = <<FfmaFlag, FfmaSum>>
    <2>1. CASE o.flag = "neg"
      <3>1. NegatedSources(Bridged) = {3}
        BY <1>5, <2>1 DEF NegatedSources
      <3>2. (CHOOSE n \in NegatedSources(Bridged) : \A m \in NegatedSources(Bridged) : n <= m) = 3
        BY <3>1
      <3>3. ffma(Bridged) = <<FfmaFlag, FfmaSum>>
        BY <1>3, <2>1, <3>1, <3>2 DEF ffma, FfmaFlag, FfmaSum
      <3> QED BY <3>3, BridgedFields, Zenon DEF translate
    <2>2. CASE o.flag = "cABS"
      <3>1. NegatedSources(Bridged) = {}
        BY <1>5, <2>2 DEF NegatedSources
      <3>2. <<"cABS", "src", 3>> \in Bridged.flags
        BY <1>1, <2>2, FlagsOfSources
      <3>3. ffma(Bridged) = <<FfmaFlag, FfmaSum>>
        BY <1>3, <2>2, <3>1, <3>2 DEF ffma, FfmaFlag, FfmaSum
      <3> QED BY <3>3, BridgedFields, Zenon DEF translate
    <2> QED BY <1>1, <2>1, <2>2
  <1>7. Written(FfmaFlag) \in ScratchCell
    <2>1. Written(FfmaFlag) = <<"%r", ScratchBase + 0>>
      BY WrittenLine DEF FfmaFlag, Scratch
    <2>2. ScratchBase + 0 = ScratchBase
      BY LiftAssumption
    <2> QED BY <2>1, <2>2 DEF ScratchCell
  <1>8. LineResult(FfmaFlag) = FirstValue
    <2> DEFINE x == contents[<<"R", o.n>>]
    <2>1. Read("f32", Arg("%r", o.n)) = x
      BY <1>4, NumberOfPattern DEF Read
    <2>2. FirstValue = Encode("f32", Flagged(o.flag, x))
      BY <1>1 DEF FirstValue
    <2>3. Flagged("neg", x) = Negated(x) /\ Flagged("cABS", x) = Absolute(x)
      BY DEF Flagged
    <2> HIDE DEF x
    <2>4. CASE o.flag = "neg"
      BY <2>1, <2>2, <2>3, <2>4, UnaryLine DEF FfmaFlag
    <2>5. CASE o.flag = "cABS"
      BY <2>1, <2>2, <2>3, <2>5, UnaryLine DEF FfmaFlag
    <2> QED BY <1>1, <2>4, <2>5
  <1>9. Written(FfmaSum) = Destination
    <2>1. as_f32(Bridged.dst[1]) = Arg("%r", inst.dst[1].n) /\ Destination = <<"%r", inst.dst[1].n>>
      BY Ports DEF DoubleOps, SetsPredicate
    <2> QED BY <2>1, WrittenLine DEF FfmaSum
  <1> QED BY <1>6, <1>7, <1>8, <1>9 DEF TwoLines

LEMMA FfmaAdds ==
  ASSUME InputOK, Supported, Ready, inst.op = "FFMA", inst.src[3].flag # "none",
         cells[Written(FfmaFlag)] = FirstValue
  PROVE  LineResult(FfmaSum) = SassBits
  <1> DEFINE x(n) == SassValue(inst.src[n])
  <1>1. /\ 1 \in DOMAIN inst.src /\ 1 \notin Selecting(inst.op)
        /\ 2 \in DOMAIN inst.src /\ 2 \notin Selecting(inst.op)
        /\ inst.src[1].flag = "none" /\ inst.src[2].flag = "none"
    BY FirstSources, Unflagged DEF Ternary
  <1>2. Read("f32", as_f32(Bridged.src[1])) = x(1) /\ Read("f32", as_f32(Bridged.src[2])) = x(2)
    BY <1>1, SingleKept, NumberOfPattern DEF Read, SingleOps
  <1>3. Read("f32", Scratch(0)) = x(3)
    <2>1. Written(FfmaFlag) = <<"%r", ScratchBase + 0>>
      BY WrittenLine DEF FfmaFlag, Scratch
    <2>2. BitsOf(Scratch(0)) = cells[<<"%r", ScratchBase + 0>>]
      BY BitsOfArgument DEF Scratch
    <2>3. FirstValue = Encode("f32", x(3))
      BY DEF FirstValue
    <2>4. BitsOf(Scratch(0)) = Encode("f32", x(3))
      BY <2>1, <2>2, <2>3, Zenon
    <2> QED BY <2>4, NumberOfEncoding DEF Read
  <1>4. SassBits = Encode("f32", Sum(Product(x(1), x(2)), x(3)))
    BY OpcodeClasses DEF SassBits, SassResult, IsDouble, DoubleOps
  <1> QED BY <1>2, <1>3, <1>4, TernaryLine DEF FfmaSum

(* The lines of a supported instruction. *)
InOneLine == \E line : translate(Bridged) = <<line>> /\ LastLine(line)
InTwoLines ==
  \E first, last : /\ TwoLines(first, last)
                   /\ cells[Written(first)] = FirstValue => LineResult(last) = SassBits

LEMMA RuleOnSupported ==
  ASSUME InputOK, Supported, Ready
  PROVE  InOneLine \/ InTwoLines
  <1>1. inst.op \in Opcodes
    BY InstructionForm
  <1>2. CASE inst.op \in {"FADD", "FMUL", "DADD", "DMUL"}
    BY <1>2, FaddLine, FmulLine, DaddLine, DmulLine DEF InOneLine
  <1>3. CASE inst.op \in {"FABS", "FNEG", "MOV", "DFMA"}
    BY <1>3, FabsLine, FnegLine, MovLine, DfmaLine DEF InOneLine
  <1>4. CASE inst.op \in {"FMNMX", "FSEL", "FSETP", "DSETP"}
    BY <1>4, FmnmxLine, FselLine, FsetpLine, DsetpLine DEF InOneLine
  <1>5. CASE inst.op = "FFMA"
    BY <1>5, FfmaLine, FfmaLines, FfmaAdds DEF InOneLine, InTwoLines
  <1>6. CASE inst.op = "FSET"
    BY <1>6, FsetConstant, FsetLines, FsetSelects DEF InOneLine, InTwoLines
  <1> QED BY <1>1, <1>2, <1>3, <1>4, <1>5, <1>6 DEF Opcodes, Unary, Binary, Ternary, SetsPredicate

-----------------------------------------------------------------------------
(***************************************************************************)
(* Supported or not, no rule writes another register than the destination  *)
(* and the scratch registers.                                              *)
(***************************************************************************)
Own == {Destination} \cup ScratchCell
Owned(lines) == \E S : lines \in Seq(S) /\ \A line \in S : Written(line) \in Own

LEMMA OwnedSequence ==
  ASSUME NEW S, NEW lines \in Seq(S), \A line \in S : Written(line) \in Own
  PROVE  Owned(lines)
  <1> SUFFICES \E T : lines \in Seq(T) /\ \A line \in T : Written(line) \in Own
    BY DEF Owned
  <1> WITNESS S
  <1> QED OBVIOUS

LEMMA OwnedLines ==
  /\ Owned(<< >>)
  /\ \A l : Written(l) \in Own => Owned(<<l>>)
  /\ \A l, m : Written(l) \in Own /\ Written(m) \in Own => Owned(<<l, m>>)
  <1>1. Owned(<< >>)
    <2> DEFINE s == << >>
    <2>1. s \in Seq({})
      OBVIOUS
    <2> HIDE DEF s
    <2>2. Owned(s)
      BY <2>1, OwnedSequence
    <2> QED BY <2>2 DEF s
  <1>2. ASSUME NEW l, Written(l) \in Own
        PROVE  Owned(<<l>>)
    <2> DEFINE s == <<l>>
               S == {l}
    <2>1. s \in Seq(S) /\ \A line \in S : Written(line) \in Own
      BY <1>2
    <2> HIDE DEF s, S
    <2>2. Owned(s)
      BY <2>1, OwnedSequence
    <2> QED BY <2>2 DEF s
  <1>3. ASSUME NEW l, NEW m, Written(l) \in Own, Written(m) \in Own
        PROVE  Owned(<<l, m>>)
    <2> DEFINE s == <<l, m>>
               S == {l, m}
    <2>1. s \in Seq(S) /\ \A line \in S : Written(line) \in Own
      BY <1>3
    <2> HIDE DEF s, S
    <2>2. Owned(s)
      BY <2>1, OwnedSequence
    <2> QED BY <2>2 DEF s
  <1> QED BY <1>1, <1>2, <1>3

LEMMA OwnedConcatenation ==
  ASSUME NEW s, NEW t, Owned(s), Owned(t)
  PROVE  Owned(s \o t)
  <1>1. PICK S : s \in Seq(S) /\ \A line \in S : Written(line) \in Own
    BY DEF Owned
  <1>2. PICK T : t \in Seq(T) /\ \A line \in T : Written(line) \in Own
    BY DEF Owned
  <1>3. s \in Seq(S \cup T) /\ t \in Seq(S \cup T)
    BY <1>1, <1>2
  <1>4. s \o t \in Seq(S \cup T)
    BY <1>3
  <1> QED BY <1>1, <1>2, <1>4 DEF Owned

LEMMA ScratchIsOwn ==
  \A name, type, args :
    /\ Written(Line(name, type, Scratch(0), args)) \in Own
    /\ Written(Line(name, type, Scratch(1), args)) \in Own
    /\ Written(Line(name, type, ScratchPred, args)) \in Own
  <1>1. ScratchBase + 0 = ScratchBase
    BY LiftAssumption
  <1>2. /\ <<"%r", ScratchBase + 0>> \in Own
        /\ <<"%r", ScratchBase + 1>> \in Own
        /\ <<"%p", ScratchPredBase>> \in Own
    BY <1>1 DEF Own, ScratchCell
  <1> QED BY <1>2, WrittenLine DEF Scratch, ScratchPred

LEMMA PortIsOwn ==
  ASSUME InputOK
  PROVE  \A name, type, args :
           /\ inst.op \notin DoubleOps \cup SetsPredicate =>
                /\ Written(Line(name, type, as_f32(Bridged.dst[1]), args)) \in Own
                /\ Written(Line(name, type, as_gpr(Bridged.dst[1]), args)) \in Own
           /\ inst.op \in DoubleOps \ SetsPredicate =>
                Written(Line(name, type, as_f64(Bridged.dst[1]), args)) \in Own
           /\ inst.op \in SetsPredicate =>
                Written(Line(name, type, as_pred(Bridged.dst[1]), args)) \in Own
  BY Ports, WrittenLine DEF Own

(* The rules that may write more than the line of a supported instruction. *)
LEMMA FselOwned ==
  ASSUME InputOK, inst.op = "FSEL"
  PROVE  Owned(fsel(Bridged))
  <1> DEFINE negated(n) == <<"neg", "src", n>> \in Bridged.flags /\ ~Is(Bridged, n, "Zero")
             negation(n) == IF ~negated(n) THEN << >>
                            ELSE << Line("sub", "int", Scratch(n - 1),
                                         <<Literal(Nothing), as_f32(Bridged.src[n])>>) >>
             place(n) == IF negated(n) THEN Scratch(n - 1) ELSE as_f32(Bridged.src[n])
             p == IF Is(Bridged, 3, "Pred") \/ Is(Bridged, 3, "NegPred")
                  THEN Arg("%p", Bridged.src[3].n) ELSE P0
             line == Line("selp", "f32", as_gpr(Bridged.dst[1]), <<place(1), place(2), p>>)
  <1>1. Owned(negation(1)) /\ Owned(negation(2))
    <2>1. 1 - 1 = 0 /\ 2 - 1 = 1
      OBVIOUS
    <2> QED BY <2>1, OwnedLines, ScratchIsOwn, Zenon
  <1>2. Owned(<<line>>)
    BY PortIsOwn, OwnedLines DEF DoubleOps, SetsPredicate
  <1>3. fsel(Bridged) = negation(1) \o negation(2) \o <<line>>
    BY DEF fsel
  <1> HIDE DEF negation, line
  <1> QED BY <1>1, <1>2, <1>3, OwnedConcatenation

LEMMA FfmaOwned ==
  ASSUME InputOK, inst.op = "FFMA"
  PROVE  Owned(ffma(Bridged))
  <1> DEFINE d == as_f32(Bridged.dst[1])
             a == as_f32(Bridged.src[1])
             b == as_f32(Bridged.src[2])
             flagged(name, x) == << Line(name, "f32", Scratch(0), <<x>>),
                                    Line("fma", "f32", d, <<a, b, Scratch(0)>>) >>
  <1>1. \A args : Written(Line("fma", "f32", d, args)) \in Own
    BY PortIsOwn DEF DoubleOps, SetsPredicate
  <1>2. \A name, x : Owned(flagged(name, x))
    BY <1>1, ScratchIsOwn, OwnedLines, Zenon
  <1>3. Owned(<< Line("fma", "f32", d, <<a, b, as_f32(Bridged.src[3])>>) >>)
    BY <1>1, OwnedLines, Zenon
  <1>4. \/ \E name, x : ffma(Bridged) = flagged(name, x)
        \/ ffma(Bridged) = << Line("fma", "f32", d, <<a, b, as_f32(Bridged.src[3])>>) >>
    BY Zenon DEF ffma
  <1> QED BY <1>2, <1>3, <1>4, Zenon

LEMMA FsetOwned ==
  ASSUME InputOK, inst.op = "FSET"
  PROVE  Owned(fset(Bridged))
  <1> DEFINE d == as_f32(Bridged.dst[1])
             cmp == FirstMod(Bridged, CmpModes, "EQ")
             One == Literal(Pattern("int", 4))
             compare == Line(cmp, "f32", ScratchPred, <<as_f32(Bridged.src[1]), as_f32(Bridged.src[2])>>)
             select == Line("selp", "b32", d, <<One, Literal(Nothing), ScratchPred>>)
  <1>1. \A name, args : Written(Line(name, "b32", d, args)) \in Own
    BY PortIsOwn DEF DoubleOps, SetsPredicate
  <1>2. /\ \A v : Owned(<< Line("mov", "b32", d, <<v>>) >>)
        /\ Owned(<<compare, select>>)
    BY <1>1, ScratchIsOwn, OwnedLines, Zenon
  <1> HIDE DEF d
  <1>3. CASE cmp = "F"
    <2>1. fset(Bridged) = << Line("mov", "b32", d, <<Literal(Nothing)>>) >>
      BY <1>3 DEF fset, d
    <2> QED BY <1>2, <2>1, Zenon
  <1>4. CASE cmp = "T"
    <2>1. fset(Bridged) = << Line("mov", "b32", d, <<One>>) >>
      BY <1>4 DEF fset, d
    <2> QED BY <1>2, <2>1, Zenon
  <1>5. CASE cmp # "F" /\ cmp # "T"
    <2>1. fset(Bridged) = <<compare, select>>
      BY <1>5 DEF fset, d
    <2> QED BY <1>2, <2>1, Zenon
  <1> QED BY <1>3, <1>4, <1>5

LEMMA FsetpOwned ==
  ASSUME InputOK, inst.op = "FSETP"
  PROVE  Owned(fsetp(Bridged))
  <1> DEFINE pd == as_pred(Bridged.dst[1])
             chain == as_pred(Bridged.src[1])
             cmp == FirstMod(Bridged, CmpModes, "EQ")
             mode == FirstMod(Bridged, {"AND", "OR", "XOR"}, "AND")
             setp(x) == Line(cmp, "f32", x, <<as_f32(Bridged.src[2]), as_f32(Bridged.src[3])>>)
             combine == Line(mode, "pred", pd, <<chain, ScratchPred>>)
  <1>1. \A name, type, args : Written(Line(name, type, pd, args)) \in Own
    BY PortIsOwn DEF SetsPredicate
  <1>2. /\ Owned(<< MovPred(pd, FALSE) >>) /\ Owned(<< MovPred(pd, TRUE) >>)
        /\ Owned(<< setp(pd) >>) /\ Owned(<< setp(ScratchPred), combine >>)
    BY <1>1, ScratchIsOwn, OwnedLines, Zenon DEF MovPred
  <1> HIDE DEF pd
  <1>3. CASE cmp = "F"
    <2>1. fsetp(Bridged) = << MovPred(pd, FALSE) >>
      BY <1>3 DEF fsetp, pd
    <2> QED BY <1>2, <2>1, Zenon
  <1>4. CASE cmp = "T"
    <2>1. fsetp(Bridged) = << MovPred(pd, TRUE) >>
      BY <1>4 DEF fsetp, pd
    <2> QED BY <1>2, <2>1, Zenon
  <1>5. CASE cmp # "F" /\ cmp # "T"
    <2>1. fsetp(Bridged) = IF mode = "AND" /\ chain = P0 /\ chain # pd THEN << setp(pd) >>
                           ELSE << setp(ScratchPred), combine >>
      BY <1>5 DEF fsetp, pd
    <2> QED BY <1>2, <2>1, Zenon
  <1> QED BY <1>3, <1>4, <1>5

LEMMA RuleIsOwned ==
  ASSUME InputOK
  PROVE  Owned(translate(Bridged))
  <1>1. inst.op \in Opcodes
    BY InstructionForm
  <1>2. CASE inst.op \in {"FADD", "FMUL", "FABS", "FNEG", "FMNMX", "MOV"}
    <2>1. \A name, type, args : /\ Owned(<<Line(name, type, as_f32(Bridged.dst[1]), args)>>)
                                /\ Owned(<<Line(name, type, as_gpr(Bridged.dst[1]), args)>>)
      BY <1>2, PortIsOwn, OwnedLines DEF DoubleOps, SetsPredicate
    <2>2. \E name, type, args :
            \/ translate(Bridged) = <<Line(name, type, as_f32(Bridged.dst[1]), args)>>
            \/ translate(Bridged) = <<Line(name, type, as_gpr(Bridged.dst[1]), args)>>
      <3>1. ~Is(Bridged, 2, "CabsGpr") /\ ~Is(Bridged, 2, "NegGpr") /\ ~Is(Bridged, 2, "CinvGpr")
            /\ ~Is(Bridged, 1, "NegGpr")
        BY NoFlaggedVariant, BridgedFields DEF Is
      <3>2. inst.op = "MOV" => Bridged.dst[1].op = "Gpr"
        BY Ports DEF DoubleOps, SetsPredicate
      <3>3. CASE inst.op = "FADD"
        <4>1. translate(Bridged) = fadd(Bridged)
          BY <3>3, BridgedFields, Zenon DEF translate
        <4> QED BY <3>1, <4>1 DEF fadd
      <3>4. CASE inst.op = "FMUL"
        <4>1. translate(Bridged) = fmul(Bridged)
          BY <3>4, BridgedFields, Zenon DEF translate
        <4> QED BY <3>1, <4>1 DEF fmul
      <3>5. CASE inst.op = "FABS"
        <4>1. translate(Bridged) = fabs(Bridged)
          BY <3>5, BridgedFields, Zenon DEF translate
        <4> QED BY <4>1 DEF fabs
      <3>6. CASE inst.op = "FNEG"
        <4>1. translate(Bridged) = fneg(Bridged)
          BY <3>6, BridgedFields, Zenon DEF translate
        <4> QED BY <4>1 DEF fneg
      <3>7. CASE inst.op = "FMNMX"
        <4>1. translate(Bridged) = fmnmx(Bridged)
          BY <3>7, BridgedFields, Zenon DEF translate
        <4> QED BY <4>1, Zenon DEF fmnmx
      <3>8. CASE inst.op = "MOV"
        <4>1. translate(Bridged) = mov(Bridged)
          BY <3>8, BridgedFields, Zenon DEF translate
        <4> QED BY <3>1, <3>2, <3>8, <4>1 DEF mov
      <3> QED BY <1>2, <3>3, <3>4, <3>5, <3>6, <3>7, <3>8
    <2> QED BY <2>1, <2>2, Zenon
  <1>3. CASE inst.op \in {"DADD", "DMUL", "DFMA"}
    <2>1. \A name, type, args : Owned(<<Line(name, type, as_f64(Bridged.dst[1]), args)>>)
      BY <1>3, PortIsOwn, OwnedLines DEF DoubleOps, SetsPredicate
    <2>2. \E name, type, args :
            translate(Bridged) = <<Line(name, type, as_f64(Bridged.dst[1]), args)>>
      <3>1. /\ ~Is(Bridged, 2, "CabsGpr") /\ ~Is(Bridged, 2, "NegGpr")
            /\ ~Is(Bridged, 3, "CabsGpr") /\ ~Is(Bridged, 3, "NegGpr")
        BY NoFlaggedVariant, BridgedFields DEF Is
      <3>2. CASE inst.op = "DADD"
        <4>1. translate(Bridged) = dadd(Bridged)
          BY <3>2, BridgedFields, Zenon DEF translate
        <4> QED BY <3>1, <4>1 DEF dadd
      <3>3. CASE inst.op = "DMUL"
        <4>1. translate(Bridged) = dmul(Bridged)
          BY <3>3, BridgedFields, Zenon DEF translate
        <4> QED BY <4>1 DEF dmul
      <3>4. CASE inst.op = "DFMA"
        <4>1. translate(Bridged) = dfma(Bridged)
          BY <3>4, BridgedFields, Zenon DEF translate
        <4> QED BY <3>1, <4>1 DEF dfma
      <3> QED BY <1>3, <3>2, <3>3, <3>4
    <2> QED BY <2>1, <2>2, Zenon
  <1>4. CASE inst.op = "DSETP"
    <2>1. \A name, type, args : Owned(<<Line(name, type, as_pred(Bridged.dst[1]), args)>>)
      BY <1>4, PortIsOwn, OwnedLines DEF SetsPredicate
    <2>2. Bridged.dst[1].op = "Pred"
      BY <1>4, Ports DEF SetsPredicate
    <2>3. translate(Bridged) = dsetp(Bridged)
      BY <1>4, BridgedFields, Zenon DEF translate
    <2>4. \E name, args : dsetp(Bridged) = <<Line(name, "f64", as_pred(Bridged.dst[1]), args)>>
      BY <2>2, Zenon DEF dsetp
    <2> QED BY <2>1, <2>3, <2>4, Zenon
  <1>5. CASE inst.op = "FSEL"
    BY <1>5, BridgedFields, FselOwned, Zenon DEF translate
  <1>6. CASE inst.op = "FFMA"
    BY <1>6, BridgedFields, FfmaOwned, Zenon DEF translate
  <1>7. CASE inst.op = "FSET"
    BY <1>7, BridgedFields, FsetOwned, Zenon DEF translate
  <1>8. CASE inst.op = "FSETP"
    BY <1>8, BridgedFields, FsetpOwned, Zenon DEF translate
  <1> QED BY <1>1, <1>2, <1>3, <1>4, <1>5, <1>6, <1>7, <1>8
          DEF Opcodes, Unary, Binary, Ternary, SetsPredicate

-----------------------------------------------------------------------------
(***************************************************************************)
(* What is said of the instruction and its input does not change.          *)
(***************************************************************************)
LEMMA SameInput ==
  ASSUME input' = input
  PROVE  /\ InputOK' = InputOK
         /\ Bridged' = Bridged
         /\ Supported' = Supported
         /\ Destination' = Destination
         /\ SassBits' = SassBits
         /\ FirstValue' = FirstValue
         /\ \A c : Initially(c)' = Initially(c)
  <1>1. inst' = inst /\ types' = types /\ psi' = psi /\ contents' = contents /\ truths' = truths
    BY DEF input
  <1>2. InputOK' = InputOK
    BY <1>1 DEF InputOK
  <1>3. Bridged' = Bridged
    BY <1>1, Zenon DEF Bridged
  <1>4. Supported' = Supported
    <2>1. FlagsKept' = FlagsKept
      BY <1>1, Zenon DEF FlagsKept, FlagKept
    <2>2. ChainKept' = ChainKept
      BY <1>1, Zenon DEF ChainKept, Conjoins
    <2>3. Operands' = Operands /\ Literals' = Literals
      BY <1>1, Zenon DEF Operands, Literals
    <2>4. LiteralsKept' = LiteralsKept
      BY <1>1, <2>3, Zenon DEF LiteralsKept, IsDouble, IntegerClass, FloatContext, IntegerContext, DstClasses
    <2> QED BY <2>1, <2>2, <2>3, <2>4, Zenon DEF Supported
  <1>5. Destination' = Destination
    BY <1>1, Zenon DEF Destination, IsDouble
  <1>6. /\ \A o : SassValue(o)' = SassValue(o)
        /\ \A o : SassTruth(o)' = SassTruth(o)
    BY <1>1, Zenon DEF SassValue, SassTruth
  <1>7. \A x, y, o : SassVerdict(x, y, o)' = SassVerdict(x, y, o)
    BY <1>1, <1>6, Zenon DEF SassVerdict
  <1>8. SassResult' = SassResult
    BY <1>1, <1>6, Zenon DEF SassResult
  <1>9. SassBits' = SassBits
    BY <1>1, <1>6, <1>7, <1>8, Zenon DEF SassBits, IsDouble
  <1>10. FirstValue' = FirstValue
    BY <1>1, <1>6, Zenon DEF FirstValue
  <1>11. \A c : Initially(c)' = Initially(c)
    <2> SUFFICES ASSUME NEW c
                 PROVE  Initially(c)' = Initially(c)
      OBVIOUS
    <2> QED BY <1>1 DEF Initially
  <1> QED BY <1>2, <1>3, <1>4, <1>5, <1>9, <1>10, <1>11

-----------------------------------------------------------------------------
(***************************************************************************)
(* The inductive invariant.  Where the lift stands, what it has computed   *)
(* so far, and, of a supported instruction, what its lines have written:   *)
(* before the second of two lines, the scratch register holds FirstValue;  *)
(* after the last, the destination holds what SASS computes.               *)
(***************************************************************************)
StageInv ==
  /\ pc \in {"bridge", "rule", "execute", "done"}
  /\ pc # "bridge" => rule = Bridged
  /\ pc \in {"bridge", "rule"} => ptx = << >> /\ at = 1
  /\ pc \in {"execute", "done"} => ptx = translate(Bridged)
  /\ at \in Nat \ {0} /\ at <= Len(ptx) + 1
  /\ pc = "done" => at = Len(ptx) + 1

CellsInv ==
  /\ DOMAIN cells = Cell
  /\ cells = [c \in DOMAIN cells |-> cells[c]]
  /\ OthersUntouched
  /\ at = 1 => Ready

LinesInv ==
  Supported /\ pc \in {"execute", "done"} =>
    /\ Len(ptx) \in {1, 2}
    /\ at = Len(ptx) + 1 => Exact
    /\ at = 2 /\ Len(ptx) = 2 => Ready /\ cells[Written(ptx[1])] = FirstValue

LiftInv == InputOK /\ StageInv /\ CellsInv /\ LinesInv

LEMMA InitLiftInv == Init => LiftInv
  <1> SUFFICES ASSUME Init
               PROVE  LiftInv
    OBVIOUS
  <1>1. InputOK
    BY DEF Init, InputOK
  <1>2. StageInv
    BY DEF Init, StageInv
  <1>3. CellsInv
    <2>1. cells = [c \in Cell |-> Initially(c)]
      BY DEF Init
    <2> QED BY <2>1 DEF CellsInv, OthersUntouched, Ready
  <1>4. LinesInv
    BY DEF Init, LinesInv
  <1> QED BY <1>1, <1>2, <1>3, <1>4 DEF LiftInv

LEMMA BridgeKeeps == LiftInv /\ ToRuleInst => LiftInv'
  <1> SUFFICES ASSUME LiftInv, ToRuleInst
               PROVE  LiftInv'
    OBVIOUS
  <1>1. /\ input' = input /\ ptx' = ptx /\ cells' = cells /\ at' = at
        /\ pc = "bridge" /\ pc' = "rule" /\ rule' = Bridged
    BY DEF ToRuleInst, Bridged
  <1>2. InputOK'
    BY <1>1, SameInput DEF LiftInv
  <1>3. StageInv'
    BY <1>1, SameInput DEF LiftInv, StageInv
  <1>4. CellsInv'
    BY <1>1, SameInput DEF LiftInv, CellsInv, OthersUntouched, Ready
  <1>5. LinesInv'
    BY <1>1 DEF LinesInv
  <1> QED BY <1>2, <1>3, <1>4, <1>5 DEF LiftInv

LEMMA TranslateKeeps == LiftInv /\ Translate => LiftInv'
  <1> SUFFICES ASSUME LiftInv, Translate
               PROVE  LiftInv'
    OBVIOUS
  <1>1. /\ input' = input /\ rule' = rule /\ cells' = cells /\ at' = at
        /\ pc = "rule" /\ pc' = "execute" /\ ptx' = translate(Bridged) /\ at = 1
        /\ rule = Bridged
    BY DEF Translate, LiftInv, StageInv
  <1>2. InputOK'
    BY <1>1, SameInput DEF LiftInv
  <1>3. StageInv'
    <2>1. Owned(translate(Bridged))
      BY RuleIsOwned DEF LiftInv
    <2>2. Len(translate(Bridged)) \in Nat
      BY <2>1 DEF Owned
    <2>3. translate(Bridged)' = translate(Bridged)
      BY <1>1, SameInput
    <2> QED BY <1>1, <2>2, <2>3, SameInput DEF StageInv
  <1>4. CellsInv'
    BY <1>1, SameInput DEF LiftInv, CellsInv, OthersUntouched, Ready
  <1>5. LinesInv'
    <2> SUFFICES ASSUME Supported
                 PROVE  Len(ptx') \in {1, 2}
      <3>1. \A k \in {1, 2} : 1 # k + 1
        OBVIOUS
      <3>2. at' = 1 /\ at' # 2 /\ Supported' = Supported
        BY <1>1, SameInput
      <3> QED BY <3>1, <3>2, Zenon DEF LinesInv
    <2>1. InOneLine \/ InTwoLines
      BY <1>1, RuleOnSupported DEF LiftInv, CellsInv
    <2> QED BY <1>1, <2>1 DEF InOneLine, InTwoLines, TwoLines
  <1> QED BY <1>2, <1>3, <1>4, <1>5 DEF LiftInv

LEMMA ExecuteKeeps == LiftInv /\ Execute => LiftInv'
  <1> SUFFICES ASSUME LiftInv, Execute
               PROVE  LiftInv'
    OBVIOUS
  <1> DEFINE w == Written(ptx[at])
             v == LineResult(ptx[at])
  <1>1. /\ input' = input /\ rule' = rule /\ ptx' = ptx /\ pc' = pc /\ pc = "execute"
        /\ at <= Len(ptx) /\ at' = at + 1 /\ at \in Nat \ {0}
        /\ cells' = [cells EXCEPT ![w] = v]
        /\ ptx = translate(Bridged)
    BY DEF Execute, LiftInv, StageInv
  <1>2. w \in Own
    <2>1. PICK S : ptx \in Seq(S) /\ \A line \in S : Written(line) \in Own
      BY <1>1, RuleIsOwned DEF LiftInv, Owned
    <2>2. ptx[at] \in S
      BY <1>1, <2>1
    <2> QED BY <2>1, <2>2
  <1>3. /\ DOMAIN cells' = Cell
        /\ cells' = [c \in DOMAIN cells' |-> cells'[c]]
        /\ \A c \in Cell : cells'[c] = IF c = w THEN v ELSE cells[c]
    BY <1>1 DEF LiftInv, CellsInv
  <1> HIDE DEF w, v
  <1>4. InputOK'
    BY <1>1, SameInput DEF LiftInv
  <1>5. StageInv'
    <2>1. translate(Bridged)' = translate(Bridged)
      BY <1>1, SameInput
    <2>2. Len(ptx) \in Nat
      BY <1>1, RuleIsOwned DEF LiftInv, Owned
    <2> QED BY <1>1, <2>1, <2>2, SameInput DEF LiftInv, StageInv
  <1>6. CellsInv'
    <2>1. OthersUntouched'
      BY <1>1, <1>2, <1>3, SameInput DEF LiftInv, CellsInv, OthersUntouched, Own
    <2>2. at' # 1
      BY <1>1
    <2> QED BY <1>3, <2>1, <2>2 DEF CellsInv
  <1>7. LinesInv'
    <2> SUFFICES ASSUME Supported
                 PROVE  /\ Len(ptx) \in {1, 2}
                        /\ at + 1 = Len(ptx) + 1 => Exact'
                        /\ at + 1 = 2 /\ Len(ptx) = 2 => Ready' /\ cells'[Written(ptx[1])] = FirstValue
      <3>1. Supported' = Supported /\ FirstValue' = FirstValue /\ Written(ptx[1])' = Written(ptx[1])
        BY <1>1, SameInput
      <3> QED BY <1>1, <3>1 DEF LinesInv
    <2>1. Len(ptx) \in {1, 2} /\ at \in {1, 2} /\ Ready
      <3>1. Len(ptx) \in {1, 2}
        BY <1>1 DEF LiftInv, LinesInv
      <3>2. \A k \in {1, 2} : at <= k => at \in {1, 2}
        BY <1>1
      <3>3. at \in {1, 2}
        BY <1>1, <3>1, <3>2, Zenon
      <3>4. CASE at = 1
        BY <3>1, <3>3, <3>4 DEF LiftInv, CellsInv
      <3>5. CASE at = 2
        <4>1. \A k \in {1, 2} : 2 <= k => k = 2
          OBVIOUS
        <4>2. Len(ptx) = 2
          BY <1>1, <3>1, <3>5, <4>1, Zenon
        <4> QED BY <1>1, <3>1, <3>3, <3>5, <4>2 DEF LiftInv, LinesInv
      <3> QED BY <3>1, <3>3, <3>4, <3>5
    <2>2. InOneLine \/ InTwoLines
      BY <2>1, RuleOnSupported DEF LiftInv
    <2>3. Destination \in Cell \ ScratchCell /\ ScratchCell \subseteq Cell
      BY Ports DEF LiftInv, Cell
    <2>4. CASE InOneLine
      <3>1. PICK line : ptx = <<line>> /\ LastLine(line)
        BY <1>1, <2>4 DEF InOneLine
      <3>2. Len(ptx) = 1 /\ at = 1 /\ ptx[at] = line
        BY <1>1, <3>1
      <3>3. w = Destination /\ v = SassBits
        BY <3>1, <3>2 DEF w, v, LastLine
      <3>4. Exact'
        BY <1>1, <1>3, <2>3, <3>3, SameInput DEF Exact
      <3> QED BY <3>2, <3>4
    <2>5. CASE InTwoLines
      <3>1. PICK first, last : /\ ptx = <<first, last>>
                               /\ Written(first) \in ScratchCell /\ LineResult(first) = FirstValue
                               /\ Written(last) = Destination
                               /\ cells[Written(first)] = FirstValue => LineResult(last) = SassBits
        BY <1>1, <2>5 DEF InTwoLines, TwoLines
      <3>2. Len(ptx) = 2 /\ ptx[1] = first /\ ptx[2] = last
        BY <3>1
      <3>3. CASE at = 1
        <4>1. w = Written(first) /\ v = FirstValue
          BY <3>1, <3>2, <3>3 DEF w, v
        <4>2. Ready'
          BY <1>1, <1>3, <2>1, <3>1, <4>1, SameInput DEF Ready
        <4>3. cells'[Written(ptx[1])] = FirstValue
          BY <1>3, <2>3, <3>1, <3>2, <4>1
        <4> QED BY <3>2, <3>3, <4>2, <4>3
      <3>4. CASE at = 2
        <4>1. cells[Written(first)] = FirstValue
          BY <1>1, <3>2, <3>4 DEF LiftInv, LinesInv
        <4>2. w = Destination /\ v = SassBits
          BY <3>1, <3>2, <3>4, <4>1 DEF w, v
        <4>3. Exact'
          BY <1>1, <1>3, <2>3, <4>2, SameInput DEF Exact
        <4> QED BY <3>2, <3>4, <4>3
      <3> QED BY <2>1, <3>3, <3>4
    <2> QED BY <2>2, <2>4, <2>5
  <1> QED BY <1>4, <1>5, <1>6, <1>7 DEF LiftInv

LEMMA DoneKeeps == LiftInv /\ Done => LiftInv'
  <1> SUFFICES ASSUME LiftInv, Done
               PROVE  LiftInv'
    OBVIOUS
  <1>1. /\ input' = input /\ rule' = rule /\ ptx' = ptx /\ cells' = cells /\ at' = at
        /\ pc = "execute" /\ pc' = "done" /\ at > Len(ptx)
    BY DEF Done
  <1>2. InputOK'
    BY <1>1, SameInput DEF LiftInv
  <1>3. StageInv'
    <2>1. translate(Bridged)' = translate(Bridged)
      BY <1>1, SameInput
    <2>2. Len(ptx) \in Nat
      BY <1>1, RuleIsOwned DEF LiftInv, StageInv, Owned
    <2> QED BY <1>1, <2>1, <2>2, SameInput DEF LiftInv, StageInv
  <1>4. CellsInv'
    BY <1>1, SameInput DEF LiftInv, CellsInv, OthersUntouched, Ready
  <1>5. LinesInv'
    BY <1>1, SameInput DEF LiftInv, LinesInv, Exact, Ready
  <1> QED BY <1>2, <1>3, <1>4, <1>5 DEF LiftInv

LEMMA StutterKeeps == LiftInv /\ UNCHANGED vars => LiftInv'
  <1> SUFFICES ASSUME LiftInv, UNCHANGED vars
               PROVE  LiftInv'
    OBVIOUS
  <1>1. /\ input' = input /\ rule' = rule /\ ptx' = ptx /\ cells' = cells /\ at' = at /\ pc' = pc
    BY DEF vars, input
  <1>2. InputOK'
    BY <1>1, SameInput DEF LiftInv
  <1>3. StageInv'
    <2>1. translate(Bridged)' = translate(Bridged)
      BY <1>1, SameInput
    <2> QED BY <1>1, <2>1, SameInput DEF LiftInv, StageInv
  <1>4. CellsInv'
    BY <1>1, SameInput DEF LiftInv, CellsInv, OthersUntouched, Ready
  <1>5. LinesInv'
    BY <1>1, SameInput DEF LiftInv, LinesInv, Exact, Ready
  <1> QED BY <1>2, <1>3, <1>4, <1>5 DEF LiftInv

LEMMA InvariantHolds == Spec => []LiftInv
  <1>1. LiftInv /\ [Next]_vars => LiftInv'
    BY BridgeKeeps, TranslateKeeps, ExecuteKeeps, DoneKeeps, StutterKeeps DEF Next, Finished
  <1> QED BY InitLiftInv, <1>1, PTL DEF Spec

(***************************************************************************)
(* The lift computes what SASS does.  Whatever the registers, the classes, *)
(* the psi registers and the contents: no line of any instruction writes   *)
(* another register than its destination and the scratch registers, and a  *)
(* supported instruction (bridge/translate.rs keeps its operands, its rule *)
(* its flags) leaves in its destination exactly the number, the pattern or *)
(* the truth value of the semantic block of its rule file.                 *)
(***************************************************************************)
THEOREM LiftIsExact == Spec => []SupportedIsExact
  <1>1. LiftInv => SupportedIsExact
    BY DEF LiftInv, StageInv, CellsInv, LinesInv, SupportedIsExact
  <1> QED BY InvariantHolds, <1>1, PTL
=============================================================================
