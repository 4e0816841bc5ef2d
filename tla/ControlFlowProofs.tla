-------------------------- MODULE ControlFlowProofs --------------------------
(***************************************************************************)
(* For every set of kernels: the emitter's state is well typed, no label   *)
(* is defined twice, and the finished kernel defines every label it        *)
(* branches to; build_bssy_map gives a BSYNC the target of the BSSY that   *)
(* opens its bracket; and a thread of the emitted PTX passes the           *)
(* instructions that a thread of a structured kernel passes.               *)
(*                                                                         *)
(* The two label properties are not inductive.  What carries them is that  *)
(* every address a branch line can name is a branch target already: it is  *)
(* 0, or the address collect_branch_targets found in the same operands the *)
(* rule looks at after the bridge (BraIsCollected), or it came from the    *)
(* stacks; and that the labels written so far are exactly those of the     *)
(* targets visited so far.                                                 *)
(***************************************************************************)
EXTENDS ControlFlow, SequenceTheorems, FiniteSetTheorems, WellFoundedInduction, TLAPS

-----------------------------------------------------------------------------
(***************************************************************************)
(* The emitter.                                                            *)
(***************************************************************************)

(* The targets whose label has been written. *)
Visited == emitted_labels \cup (IF stage \in {"labels", "done"} THEN branch_targets \ left ELSE {})

CollectedInv ==
  /\ \A n \in DOMAIN kernel :
       (stage # "collect" \/ n < i) /\ IsBranch(kernel[n]) /\ HasTarget(kernel[n])
         => branch_addr(kernel[n]) \in branch_targets
  /\ stage \in {"emit", "labels", "done"} => 0 \in branch_targets

PairedInv ==
  /\ stacks \in [Barrier -> Seq(branch_targets)]
  /\ \A a \in DOMAIN bsync_rewrite : bsync_rewrite[a] \in branch_targets

(* lines are well typed, branch into targets, and label each of labelled once. *)
LinesAreGood(lines, labelled, targets) ==
  /\ lines \in Seq(OutLine)
  /\ \A n \in DOMAIN lines : lines[n].what = "bra" => lines[n].to \in targets
  /\ \A a \in labelled : \E n \in DOMAIN lines : lines[n].what = "label" /\ lines[n].to = a
  /\ \A n \in DOMAIN lines : lines[n].what = "label" => lines[n].to \in labelled
  /\ \A n, m \in DOMAIN lines :
       lines[n].what = "label" /\ lines[m].what = "label" /\ lines[n].to = lines[m].to => n = m

OutputInv ==
  /\ LinesAreGood(out, Visited, branch_targets)
  /\ stage = "done" => left = {}

IInv ==
  /\ TypeOK /\ kernel \in Kernels
  /\ CollectedInv /\ PairedInv /\ OutputInv

-----------------------------------------------------------------------------
(* The bridge makes an address of an integer operand, and of no other. *)
LEMMA BridgeKeepsAddresses ==
  ASSUME NEW op \in SassOperand, op.kind # "fimm",
         NEW type, NEW f64, NEW i64, NEW fp
  PROVE  LET r == promote(base_op(op, type), f64, i64, fp)
         IN  /\ IsAddress(r) <=> /\ op.kind = "imm" /\ op.bits.form = "int" /\ op.bits.of >= 0
                                 /\ type \notin {"F32", "F64"}
             /\ IsAddress(r) => r.bits = op.bits
<1>1. CASE op.kind = "imm"
  <2>1. base_op(op, type) = ImmediateOp(op.bits, type)
    BY <1>1 DEF base_op
  <2>2. promote(base_op(op, type), f64, i64, fp) = ImmediateOp(op.bits, type)
    BY <2>1 DEF promote, ImmediateOp, ImmOp
  <2> QED
    BY <1>1, <2>2 DEF IsAddress, ImmediateOp, ImmOp
<1>2. CASE op.kind = "label"
  <2>1. promote(base_op(op, type), f64, i64, fp) = ZeroOp
    BY <1>2 DEF base_op, promote, ZeroOp, RegOp
  <2> QED
    BY <1>2, <2>1 DEF IsAddress, ZeroOp, RegOp
<1>3. CASE op.kind = "reg"
  <2>1. base_op(op, type) = RegisterOp(op)
    BY <1>3 DEF base_op
  <2>2. RegisterOp(op).op # "Imm"
    BY DEF RegisterOp, PredicateOp, GeneralOp, ZeroOp, RegOp, SassOperand, Flag
  <2>3. promote(RegisterOp(op), f64, i64, fp).op # "Imm"
    BY <2>2 DEF promote, RegOp
  <2> QED
    BY <1>3, <2>1, <2>3 DEF IsAddress
<1> QED
  BY <1>1, <1>2, <1>3 DEF SassOperand

NoFloats(inst) == \A m \in DOMAIN Operands(inst) : Operands(inst)[m].kind # "fimm"

LEMMA OperandsAreASequence ==
  ASSUME NEW inst \in Instruction
  PROVE  /\ Operands(inst) \in Seq(SassOperand)
         /\ DOMAIN Operands(inst) = 1..(Len(inst.dst) + Len(inst.src))
         /\ \A n \in 1..(Len(inst.dst) + Len(inst.src)) : Operands(inst)[n] =
              IF n <= Len(inst.dst) THEN inst.dst[n] ELSE inst.src[n - Len(inst.dst)]
<1>1. inst.dst \in Seq(SassOperand) /\ inst.src \in Seq(SassOperand)
  BY DEF Instruction
<1>2. /\ Operands(inst) \in Seq(SassOperand)
      /\ Len(Operands(inst)) = Len(inst.dst) + Len(inst.src)
      /\ \A n \in 1..(Len(inst.dst) + Len(inst.src)) : Operands(inst)[n] =
              IF n <= Len(inst.dst) THEN inst.dst[n] ELSE inst.src[n - Len(inst.dst)]
  BY <1>1, ConcatProperties DEF Operands
<1>3. DOMAIN Operands(inst) = 1..Len(Operands(inst))
  BY <1>2
<1> QED
  BY <1>2, <1>3

LEMMA FunctionIsASequence ==
  ASSUME NEW S, NEW n \in Nat, NEW f \in [1..n -> S]
  PROVE  f \in Seq(S) /\ Len(f) = n
<1>1. f \in Seq(S)
  OBVIOUS
<1>2. Len(f) = n
  <2>1. DOMAIN f = 1..n /\ DOMAIN f = 1..Len(f) /\ Len(f) \in Nat
    BY <1>1
  <2> QED
    BY <2>1
<1> QED
  BY <1>1, <1>2

(* Elementwise images of two sequences, concatenated. *)
LEMMA ImagesConcatenate ==
  ASSUME NEW A, NEW B, NEW s \in Seq(A), NEW t \in Seq(A), NEW u \in Seq(B), NEW v \in Seq(B),
         Len(u) = Len(s), Len(v) = Len(t)
  PROVE  /\ DOMAIN (u \o v) = 1..(Len(s) + Len(t))
         /\ \A n \in 1..(Len(s) + Len(t)) :
              (u \o v)[n] = IF n <= Len(s) THEN u[n] ELSE v[n - Len(s)]
<1>1. /\ u \o v \in Seq(B) /\ Len(u \o v) = Len(u) + Len(v)
      /\ \A n \in 1..(Len(u) + Len(v)) :
           (u \o v)[n] = IF n <= Len(u) THEN u[n] ELSE v[n - Len(u)]
  BY ConcatProperties
<1>2. DOMAIN (u \o v) = 1..Len(u \o v)
  BY <1>1
<1> QED
  BY <1>1, <1>2

(* An operand of the RuleInst is its operand of the instruction, bridged. *)
LEMMA OperandsAreBridged ==
  ASSUME NEW inst \in Instruction, NEW ty
  PROVE  LET ri  == to_rule_inst_from(inst, ty, {})
             ops == ri.dst \o ri.src
         IN  /\ DOMAIN ops = DOMAIN Operands(inst)
             /\ \A n \in DOMAIN ops : \E f64, i64, fp :
                  ops[n] = promote(base_op(Operands(inst)[n], resolve_imm_type(inst, ty, {})),
                                   f64, i64, fp)
             /\ Len(ri.dst) = Len(inst.dst)
             /\ \A n \in 1..Len(ri.dst) : ri.dst[n] = ops[n]
<1> DEFINE ri   == to_rule_inst_from(inst, ty, {})
           type == resolve_imm_type(inst, ty, {})
           fp   == inst.op \in is_f32_opcode
           s    == inst.dst
           t    == inst.src
           u    == ri.dst
           v    == ri.src
           all  == Operands(inst)
           D(n) == promote(base_op(s[n], type), f64_dst(inst), is_i64_dst(inst), fp)
           S(n) == promote(base_op(t[n], type), f64_src(inst), is_i64_src(inst), fp)
           B    == {D(n) : n \in DOMAIN s} \cup {S(n) : n \in DOMAIN t}
<1>1. s \in Seq(SassOperand) /\ t \in Seq(SassOperand)
  BY DEF Instruction
<1>2. u = [n \in DOMAIN s |-> D(n)] /\ v = [n \in DOMAIN t |-> S(n)]
  BY DEF to_rule_inst_from
<1>3. /\ DOMAIN all = 1..(Len(s) + Len(t))
      /\ \A n \in 1..(Len(s) + Len(t)) : all[n] = IF n <= Len(s) THEN s[n] ELSE t[n - Len(s)]
  BY OperandsAreASequence
<1> HIDE DEF s, t, u, v, all, type, fp, ri
<1>4. DOMAIN s = 1..Len(s) /\ Len(s) \in Nat /\ DOMAIN t = 1..Len(t) /\ Len(t) \in Nat
  BY <1>1
<1>5. u \in Seq(B) /\ Len(u) = Len(s) /\ v \in Seq(B) /\ Len(v) = Len(t)
  <2>1. u \in [1..Len(s) -> B] /\ v \in [1..Len(t) -> B]
    BY <1>2, <1>4
  <2> HIDE DEF B
  <2> QED
    BY <2>1, <1>4, FunctionIsASequence
<1>6. /\ DOMAIN (u \o v) = 1..(Len(s) + Len(t))
      /\ \A n \in 1..(Len(s) + Len(t)) :
           (u \o v)[n] = IF n <= Len(s) THEN u[n] ELSE v[n - Len(s)]
  <2> HIDE DEF B
  <2> QED
    BY <1>1, <1>5, ImagesConcatenate
<1>7. ASSUME NEW n \in DOMAIN (u \o v)
      PROVE  \E f64, i64, fq : (u \o v)[n] = promote(base_op(all[n], type), f64, i64, fq)
  <2>1. CASE n <= Len(s)
    <3>1. n \in DOMAIN s /\ all[n] = s[n] /\ (u \o v)[n] = u[n]
      BY <2>1, <1>3, <1>4, <1>6
    <3>2. (u \o v)[n] = D(n)
      BY <3>1, <1>2
    <3> QED
      BY <3>1, <3>2
  <2>2. CASE ~(n <= Len(s))
    <3>1. /\ n - Len(s) \in DOMAIN t
          /\ all[n] = t[n - Len(s)] /\ (u \o v)[n] = v[n - Len(s)]
      BY <2>2, <1>3, <1>4, <1>6
    <3>2. (u \o v)[n] = S(n - Len(s))
      BY <3>1, <1>2
    <3> QED
      BY <3>1, <3>2
  <2> QED
    BY <2>1, <2>2
<1>8. \A n \in 1..Len(u) : u[n] = (u \o v)[n]
  BY <1>4, <1>5, <1>6
<1>9. /\ DOMAIN (u \o v) = DOMAIN all
      /\ \A n \in DOMAIN (u \o v) : \E f64, i64, fq :
           (u \o v)[n] = promote(base_op(all[n], type), f64, i64, fq)
      /\ Len(u) = Len(s)
      /\ \A n \in 1..Len(u) : u[n] = (u \o v)[n]
  BY <1>3, <1>5, <1>6, <1>7, <1>8
<1> QED
  BY <1>9 DEF s, u, v, all, type, ri

(* First takes the least element of a set of positions. *)
LEMMA FirstIsLeast ==
  ASSUME NEW T, T \subseteq Nat, T # {}
  PROVE  First(T) \in T /\ \A n \in T : First(T) <= n
<1> DEFINE R == OpToRel(<, Nat)
<1>1. PICK n \in T : \A m \in T : ~(<<m, n>> \in R)
  <2>1. IsWellFoundedOn(R, Nat)
    BY NatLessThanWellFounded
  <2> HIDE DEF R
  <2> QED
    BY <2>1, WFMin
<1>2. \A m \in T : n <= m
  <2>1. R = {ss \in Nat \X Nat : ss[1] < ss[2]}
    BY Zenon DEF OpToRel
  <2> HIDE DEF R
  <2>2. ASSUME NEW m \in T PROVE n <= m
    <3>1. m \in Nat /\ n \in Nat /\ <<m, n>> \notin R
      BY <1>1
    <3>2. <<m, n>> \in Nat \X Nat /\ <<m, n>>[1] = m /\ <<m, n>>[2] = n
      BY <3>1
    <3>3. ~(m < n)
      BY <2>1, <3>1, <3>2
    <3> QED
      BY <3>1, <3>3
  <2> QED
    BY <2>2
<1> QED
  BY <1>1, <1>2 DEF First

(* The addresses among the bridged operands are those of the instruction, *)
(* unless the bridge makes floating-point immediates of all integers.      *)
LEMMA AddressesAreKept ==
  ASSUME NEW inst \in Instruction, NoFloats(inst), NEW ty
  PROVE  LET ri  == to_rule_inst_from(inst, ty, {})
             ops == ri.dst \o ri.src
         IN  /\ DOMAIN ops = DOMAIN Operands(inst)
             /\ \A n \in DOMAIN ops :
                  /\ IsAddress(ops[n]) <=> /\ n \in Naming(Operands(inst))
                                          /\ resolve_imm_type(inst, ty, {}) \notin {"F32", "F64"}
                  /\ IsAddress(ops[n]) => ops[n].bits = Operands(inst)[n].bits
<1> DEFINE ri   == to_rule_inst_from(inst, ty, {})
           ops  == ri.dst \o ri.src
           type == resolve_imm_type(inst, ty, {})
<1>3. /\ DOMAIN ops = DOMAIN Operands(inst)
      /\ \A n \in DOMAIN ops : \E f64, i64, fp :
           ops[n] = promote(base_op(Operands(inst)[n], type), f64, i64, fp)
  BY OperandsAreBridged
<1>1. \A n \in DOMAIN Operands(inst) :
        Operands(inst)[n] \in SassOperand /\ Operands(inst)[n].kind # "fimm"
  <2> DEFINE all == Operands(inst)
  <2>1. all \in Seq(SassOperand)
    BY OperandsAreASequence
  <2>2. \A n \in DOMAIN all : all[n].kind # "fimm"
    BY DEF NoFloats
  <2> HIDE DEF all
  <2>3. \A n \in DOMAIN all : all[n] \in SassOperand
    BY <2>1
  <2> QED
    BY <2>2, <2>3 DEF all
<1>2. ASSUME NEW n \in DOMAIN ops
      PROVE  /\ IsAddress(ops[n]) <=> n \in Naming(Operands(inst)) /\ type \notin {"F32", "F64"}
             /\ IsAddress(ops[n]) => ops[n].bits = Operands(inst)[n].bits
  <2> DEFINE op == Operands(inst)[n]
  <2>1. PICK f64, i64, fp : ops[n] = promote(base_op(op, type), f64, i64, fp)
    BY <1>3
  <2>2. op \in SassOperand /\ op.kind # "fimm" /\ n \in DOMAIN Operands(inst)
    BY <1>1, <1>3
  <2>3. n \in Naming(Operands(inst)) <=>
          op.kind = "imm" /\ op.bits.form = "int" /\ op.bits.of >= 0
    BY <2>2 DEF Naming
  <2> HIDE DEF op, ops, type
  <2>4. /\ IsAddress(ops[n]) <=> /\ op.kind = "imm" /\ op.bits.form = "int" /\ op.bits.of >= 0
                                 /\ type \notin {"F32", "F64"}
        /\ IsAddress(ops[n]) => ops[n].bits = op.bits
    BY <2>1, <2>2, BridgeKeepsAddresses
  <2> QED
    BY <2>3, <2>4 DEF op
<1> QED
  BY <1>2, <1>3

LEMMA PositionsAreNatural ==
  ASSUME NEW inst \in Instruction
  PROVE  DOMAIN Operands(inst) \subseteq Nat
<1>1. Len(inst.dst) \in Nat /\ Len(inst.src) \in Nat
  <2>1. inst.dst \in Seq(SassOperand) /\ inst.src \in Seq(SassOperand)
    BY DEF Instruction
  <2> DEFINE s == inst.dst
             t == inst.src
  <2> HIDE DEF s, t
  <2>2. Len(s) \in Nat /\ Len(t) \in Nat
    BY <2>1 DEF s, t
  <2> QED
    BY <2>2 DEF s, t
<1>2. DOMAIN Operands(inst) = 1..(Len(inst.dst) + Len(inst.src))
  BY OperandsAreASequence
<1>3. \A m, n \in Nat : 1..(m + n) \subseteq Nat
  OBVIOUS
<1> QED
  BY <1>1, <1>2, <1>3, Zenon

(* The rule of a branch finds the address collect_branch_targets found. *)
LEMMA BraIsCollected ==
  ASSUME NEW inst \in Instruction, NoFloats(inst), NEW ty
  PROVE  LET ri == to_rule_inst_from(inst, ty, {})
         IN  bra(ri) = 0 \/ (HasTarget(inst) /\ bra(ri) = branch_addr(inst))
<1> DEFINE ri   == to_rule_inst_from(inst, ty, {})
           ops  == ri.dst \o ri.src
           imms == {n \in DOMAIN ops : IsAddress(ops[n])}
           type == resolve_imm_type(inst, ty, {})
<1>1. DOMAIN ops = DOMAIN Operands(inst)
  BY AddressesAreKept
<1>2. \A n \in DOMAIN ops :
        /\ IsAddress(ops[n]) <=> n \in Naming(Operands(inst)) /\ type \notin {"F32", "F64"}
        /\ IsAddress(ops[n]) => ops[n].bits = Operands(inst)[n].bits
  BY AddressesAreKept
<1>4. bra(ri) = IF imms = {} THEN 0 ELSE ops[First(imms)].bits.of \div 4
  BY DEF bra
<1> HIDE DEF ri, ops, type
<1>5. CASE imms = {}
  BY <1>4, <1>5 DEF ri
<1>6. CASE imms # {}
  <2>1. PICK n \in DOMAIN ops : IsAddress(ops[n])
    BY <1>6
  <2>2. type \notin {"F32", "F64"}
    BY <2>1, <1>2
  <2>3. imms = Naming(Operands(inst))
    BY <1>1, <1>2, <2>2 DEF Naming
  <2>4. HasTarget(inst)
    BY <1>6, <2>3 DEF HasTarget
  <2>5. imms \subseteq Nat
    BY <1>1, PositionsAreNatural
  <2> DEFINE first == First(imms)
  <2>6. first \in imms
    <3> HIDE DEF imms
    <3> QED
      BY <1>6, <2>5, FirstIsLeast
  <2>7. ops[first].bits = Operands(inst)[first].bits
    BY <1>2, <2>6
  <2>8. bra(ri) = ops[first].bits.of \div 4
    BY <1>4, <1>6
  <2>9. branch_addr(inst) = Operands(inst)[first].bits.of \div 4
    BY <2>3 DEF branch_addr
  <2> HIDE DEF first
  <2> QED
    BY <2>4, <2>7, <2>8, <2>9 DEF ri
<1> QED
  BY <1>5, <1>6

(* The rule of a call looks at the first operand only. *)
LEMMA CallIsCollected ==
  ASSUME NEW inst \in Instruction, NoFloats(inst), NEW ty
  PROVE  LET ri  == to_rule_inst_from(inst, ty, {})
             ops == ri.dst \o ri.src
         IN  1 \in DOMAIN ops /\ IsAddress(ops[1]) =>
               HasTarget(inst) /\ ops[1].bits.of \div 4 = branch_addr(inst)
<1> DEFINE ri   == to_rule_inst_from(inst, ty, {})
           ops  == ri.dst \o ri.src
           all  == Operands(inst)
           set  == Naming(all)
<1>1. /\ DOMAIN ops = DOMAIN all
      /\ \A n \in DOMAIN ops : IsAddress(ops[n]) => n \in set /\ ops[n].bits = all[n].bits
  BY AddressesAreKept
<1>2. set \subseteq DOMAIN all /\ DOMAIN all \subseteq Nat /\ 0 \notin DOMAIN all
  <2>1. DOMAIN all = 1..(Len(inst.dst) + Len(inst.src))
    BY OperandsAreASequence
  <2>2. \A x : 0 \notin 1..x
    OBVIOUS
  <2> QED
    BY <2>1, <2>2, PositionsAreNatural DEF Naming
<1> SUFFICES ASSUME 1 \in DOMAIN ops, IsAddress(ops[1])
             PROVE  HasTarget(inst) /\ ops[1].bits.of \div 4 = branch_addr(inst)
  OBVIOUS
<1> HIDE DEF ri, ops, all, set
<1>3. 1 \in set /\ ops[1].bits = all[1].bits
  BY <1>1
<1>4. First(set) = 1
  <2>1. First(set) \in set /\ First(set) <= 1
    BY <1>2, <1>3, FirstIsLeast
  <2> QED
    BY <1>2, <2>1
<1>5. HasTarget(inst) /\ branch_addr(inst) = all[1].bits.of \div 4
  BY <1>3, <1>4 DEF HasTarget, branch_addr, set, all
<1> QED
  BY <1>3, <1>5 DEF ops, ri

(* What translate_one writes, and where its branches go. *)
BranchesTo(inst, line) ==
  line.what = "bra" =>
    line.to = 0 \/ (IsBranch(inst) /\ HasTarget(inst) /\ line.to = branch_addr(inst))

LEMMA LinesAreTyped ==
  ASSUME NEW k \in Kernels, NEW n \in DOMAIN k, NEW ty, NEW of \in Nat
  PROVE  /\ translate_one(k[n], ty, of) \in OutLine
         /\ BranchesTo(k[n], translate_one(k[n], ty, of))
<1> DEFINE inst  == k[n]
           ri    == to_rule_inst_from(inst, ty, {})
           guard == pred_prefix(inst.guard)
           ops   == ri.dst \o ri.src
           line  == translate_one(inst, ty, of)
<1>1. inst \in Instruction
  BY EmitAssumption
<1>2. IsBranch(inst) => NoFloats(inst)
  BY EmitAssumption DEF NoFloats
<1>3. (HasTarget(inst) => branch_addr(inst) \in Address) /\ 0 \in Address
  BY EmitAssumption
<1>4. guard \in {"none", "P0", "P1", "never"}
  <2>1. inst.guard \in {"none", "never", "P0", "P1", "UP0", "UP1"}
    BY <1>1 DEF Instruction, Guard, Predicate
  <2> QED
    BY <2>1 DEF pred_prefix
<1>5. CASE inst.op \in {"BRA", "JMP"}
  <2>1. line = Line("bra", bra(ri), guard, of)
    BY <1>5 DEF translate_one
  <2>2. IsBranch(inst)
    BY <1>5 DEF IsBranch
  <2>3. bra(ri) = 0 \/ (HasTarget(inst) /\ bra(ri) = branch_addr(inst))
    BY <1>1, <1>2, <2>2, BraIsCollected
  <2>4. bra(ri) \in Address
    BY <1>3, <2>3
  <2> HIDE DEF inst, guard, ri, line
  <2>5. line \in OutLine /\ BranchesTo(inst, line)
    BY <1>4, <2>1, <2>2, <2>3, <2>4 DEF OutLine, Line, BranchesTo
  <2> QED
    BY <2>5 DEF line, inst
<1>6. CASE inst.op \in {"EXIT", "RET"}
  <2>1. line = Line("ret", 0, guard, of)
    BY <1>6 DEF translate_one
  <2> HIDE DEF inst, guard, ri, line
  <2>5. line \in OutLine /\ BranchesTo(inst, line)
    BY <1>3, <1>4, <2>1 DEF OutLine, Line, BranchesTo
  <2> QED
    BY <2>5 DEF line, inst
<1>7. CASE inst.op = "CALL"
  <2> DEFINE found == 1 \in DOMAIN ops /\ IsAddress(ops[1])
             gpr   == 1 \in DOMAIN ops /\ ops[1].op = "Gpr"
             to    == ops[1].bits.of \div 4
  <2>1. line = CASE found -> Line("bra", to, guard, of)
                 [] gpr   -> Line("line", 0, guard, of)
                 [] OTHER -> Comment(of)
    BY <1>7 DEF translate_one, call
  <2>2. IsBranch(inst)
    BY <1>7 DEF IsBranch
  <2>5. found => HasTarget(inst) /\ to = branch_addr(inst)
    BY <1>1, <1>2, <2>2, CallIsCollected
  <2>3. gpr => ~found
    BY DEF IsAddress
  <2> HIDE DEF inst, guard, ri, ops, line, found, gpr, to
  <2>4. line = IF found THEN Line("bra", to, guard, of)
               ELSE IF gpr THEN Line("line", 0, guard, of) ELSE Comment(of)
    BY <2>1, <2>3
  <2>6. line \in OutLine /\ BranchesTo(inst, line)
    BY <1>3, <1>4, <2>2, <2>4, <2>5 DEF inst, OutLine, Line, Comment, BranchesTo
  <2> QED
    BY <2>6 DEF line, inst
<1>8. CASE inst.op \in {"BRX", "JMX", "BRXU", "JMXU"}
  <2>1. line = Comment(of)
    BY <1>8 DEF translate_one
  <2> HIDE DEF inst, guard, ri, line
  <2>2. line \in OutLine /\ BranchesTo(inst, line)
    BY <1>3, <2>1 DEF OutLine, Line, Comment, BranchesTo
  <2> QED
    BY <2>2 DEF line, inst
<1>9. CASE inst.op \notin {"BRA", "JMP", "EXIT", "RET", "CALL", "BRX", "JMX",
                          "BRXU", "JMXU"}
  <2>1. line = Line("line", 0, guard, of)
    BY <1>9 DEF translate_one
  <2> HIDE DEF inst, guard, ri, line
  <2>5. line \in OutLine /\ BranchesTo(inst, line)
    BY <1>3, <1>4, <2>1 DEF OutLine, Line, BranchesTo
  <2> QED
    BY <2>5 DEF line, inst
<1> QED
  BY <1>5, <1>6, <1>7, <1>8, <1>9

-----------------------------------------------------------------------------
(* What appending to the output keeps. *)
LEMMA AppendKeeps ==
  ASSUME NEW S, NEW lines \in Seq(S), NEW line \in S
  PROVE  /\ Append(lines, line) \in Seq(S)
         /\ DOMAIN Append(lines, line) = DOMAIN lines \cup {Len(lines) + 1}
         /\ Len(lines) + 1 \notin DOMAIN lines
         /\ \A n \in DOMAIN lines : Append(lines, line)[n] = lines[n]
         /\ Append(lines, line)[Len(lines) + 1] = line
<1>1. /\ Append(lines, line) \in Seq(S) /\ Len(Append(lines, line)) = Len(lines) + 1
      /\ \A n \in 1..Len(lines) : Append(lines, line)[n] = lines[n]
      /\ Append(lines, line)[Len(lines) + 1] = line
  BY AppendProperties
<1>2. /\ DOMAIN lines = 1..Len(lines) /\ Len(lines) \in Nat
      /\ DOMAIN Append(lines, line) = 1..Len(Append(lines, line))
  BY <1>1
<1> QED
  BY <1>1, <1>2

LEMMA AppendALabel ==
  ASSUME NEW lines, NEW labelled, NEW targets, LinesAreGood(lines, labelled, targets),
         NEW a \in Address, a \notin labelled
  PROVE  LinesAreGood(Append(lines, Label(a)), labelled \cup {a}, targets)
<1> DEFINE line == Label(a)
           next == Append(lines, line)
           last == Len(lines) + 1
<1>1. line \in OutLine /\ line.what = "label" /\ line.to = a
  BY DEF Label, OutLine
<1>2. lines \in Seq(OutLine)
  BY DEF LinesAreGood
<1>3. /\ next \in Seq(OutLine)
      /\ DOMAIN next = DOMAIN lines \cup {last} /\ last \notin DOMAIN lines
      /\ \A n \in DOMAIN lines : next[n] = lines[n]
      /\ next[last] = line
  BY <1>1, <1>2, AppendKeeps
<1> HIDE DEF next, last, line
<1>4. LinesAreGood(next, labelled \cup {a}, targets)
  BY <1>1, <1>3 DEF LinesAreGood
<1> QED
  BY <1>4 DEF next, line

LEMMA AppendALine ==
  ASSUME NEW lines, NEW labelled, NEW targets, LinesAreGood(lines, labelled, targets),
         NEW line \in OutLine, line.what # "label", line.what = "bra" => line.to \in targets
  PROVE  LinesAreGood(Append(lines, line), labelled, targets)
<1> DEFINE next == Append(lines, line)
           last == Len(lines) + 1
<1>2. lines \in Seq(OutLine)
  BY DEF LinesAreGood
<1>3. /\ next \in Seq(OutLine)
      /\ DOMAIN next = DOMAIN lines \cup {last} /\ last \notin DOMAIN lines
      /\ \A n \in DOMAIN lines : next[n] = lines[n]
      /\ next[last] = line
  BY <1>2, AppendKeeps
<1> HIDE DEF next, last
<1>4. LinesAreGood(next, labelled, targets)
  BY <1>3 DEF LinesAreGood
<1> QED
  BY <1>4 DEF next

LEMMA MoreTargets ==
  ASSUME NEW lines, NEW labelled, NEW targets, LinesAreGood(lines, labelled, targets),
         NEW more, targets \subseteq more
  PROVE  LinesAreGood(lines, labelled, more)
BY DEF LinesAreGood

LEMMA SeqGrows ==
  ASSUME NEW f, NEW S, NEW T, S \subseteq T, f \in [Barrier -> Seq(S)]
  PROVE  f \in [Barrier -> Seq(T)]
<1>1. \A b \in Barrier : f[b] \in Seq(S)
  OBVIOUS
<1>2. \A s \in Seq(S) : s \in Seq(T)
  OBVIOUS
<1> QED
  BY <1>1, <1>2

(* A translated line is no label. *)
LEMMA LinesAreNoLabels ==
  ASSUME NEW inst, NEW ty, NEW of
  PROVE  translate_one(inst, ty, of).what # "label"
<1> DEFINE ri    == to_rule_inst_from(inst, ty, {})
           guard == pred_prefix(inst.guard)
           to    == bra(ri)
           called == call(ri, guard, of)
           line  == translate_one(inst, ty, of)
<1>1. line = CASE inst.op \in {"BRA", "JMP"}  -> Line("bra", to, guard, of)
               [] inst.op \in {"EXIT", "RET"} -> Line("ret", 0, guard, of)
               [] inst.op = "CALL"            -> called
               [] inst.op \in {"BRX", "JMX", "BRXU", "JMXU"} -> Comment(of)
               [] OTHER                       -> Line("line", 0, guard, of)
  BY DEF translate_one
<1>2. called.what # "label"
  <2> DEFINE ops   == ri.dst \o ri.src
             first == 1 \in DOMAIN ops /\ IsAddress(ops[1])
             gpr   == 1 \in DOMAIN ops /\ ops[1].op = "Gpr"
             far   == ops[1].bits.of \div 4
  <2>1. called = CASE first -> Line("bra", far, guard, of)
                   [] gpr   -> Line("line", 0, guard, of)
                   [] OTHER -> Comment(of)
    BY DEF call
  <2>2. gpr => ~first
    BY DEF IsAddress
  <2> HIDE DEF first, gpr, far, called, guard
  <2> QED
    BY <2>1, <2>2 DEF Line, Comment
<1> HIDE DEF ri, guard, to, called, line
<1>3. line.what # "label"
  BY <1>1, <1>2 DEF Line, Comment
<1> QED
  BY <1>3 DEF line

(* The line of the instruction the loop is at. *)
LEMMA LineOfIsGood ==
  ASSUME IInv, stage = "emit", i <= Len(kernel)
  PROVE  /\ LineOf(Here) \in OutLine /\ LineOf(Here).what # "label"
         /\ LineOf(Here).what = "bra" => LineOf(Here).to \in branch_targets
<1>1. /\ kernel \in Kernels /\ kernel \in Seq(Instruction) /\ i \in 1..Len(kernel)
      /\ branch_targets \subseteq Address
      /\ \A a \in DOMAIN bsync_rewrite : bsync_rewrite[a] \in branch_targets
      /\ 0 \in branch_targets
  BY DEF IInv, TypeOK, PairedInv, CollectedInv
<1>2. i \in DOMAIN kernel /\ i \in Nat
  BY <1>1
<1>3. Here \in Instruction
  BY <1>1, <1>2 DEF Here
<1>4. IsBranch(Here) /\ HasTarget(Here) => branch_addr(Here) \in branch_targets
  BY <1>2 DEF IInv, CollectedInv, Here
<1>5. CASE Here.op = "BSSY" \/ (Here.op = "BSYNC" /\ Here.address \notin DOMAIN bsync_rewrite)
  <2>1. LineOf(Here) = Comment(i)
    BY <1>5 DEF LineOf
  <2> QED
    BY <1>1, <1>2, <2>1 DEF Comment, Line, OutLine
<1>6. CASE Here.op = "BSYNC" /\ Here.address \in DOMAIN bsync_rewrite
  <2> DEFINE guard == pred_prefix(Here.guard)
             to    == bsync_rewrite[Here.address]
             line  == LineOf(Here)
  <2>1. line = Line("bra", to, guard, i)
    BY <1>6 DEF LineOf
  <2>2. guard \in {"none", "P0", "P1", "never"}
    <3>1. Here.guard \in {"none", "never", "P0", "P1", "UP0", "UP1"}
      BY <1>3 DEF Instruction, Guard, Predicate
    <3> QED
      BY <3>1 DEF pred_prefix
  <2>3. to \in branch_targets
    BY <1>1, <1>6
  <2> HIDE DEF guard, to, line
  <2>4. line \in OutLine /\ line.what # "label" /\ line.to \in branch_targets
    BY <1>1, <1>2, <2>1, <2>2, <2>3 DEF Line, OutLine
  <2> QED
    BY <2>4 DEF line
<1>7. CASE Here.op \notin {"BSSY", "BSYNC"}
  <2> DEFINE line == translate_one(Here, types, i)
  <2>1. LineOf(Here) = line
    BY <1>7 DEF LineOf
  <2>2. line \in OutLine /\ BranchesTo(Here, line) /\ line.what # "label"
    BY <1>1, <1>2, LinesAreTyped, LinesAreNoLabels DEF Here
  <2> HIDE DEF line
  <2>3. line.what = "bra" => line.to \in branch_targets
    BY <1>1, <1>4, <2>2 DEF BranchesTo
  <2> QED
    BY <2>1, <2>2, <2>3
<1> QED
  BY <1>5, <1>6, <1>7

-----------------------------------------------------------------------------
LEMMA Initially == Init => IInv
<1> SUFFICES ASSUME Init PROVE IInv
  OBVIOUS
<1>1. /\ kernel \in Kernels /\ types \in Assignments /\ stage = "collect" /\ i = 1
      /\ branch_targets = {} /\ stacks = [b \in Barrier |-> <<>>] /\ bsync_rewrite = << >>
      /\ emitted_labels = {} /\ left = {} /\ out = <<>>
  BY DEF Init
<1>2. kernel \in Seq(Instruction) /\ types \in [RegNo -> SUBSET Class]
  BY <1>1, EmitAssumption
<1>3. i \in 1..(Len(kernel) + 1)
  BY <1>1, <1>2
<1>4. DOMAIN bsync_rewrite = {} /\ DOMAIN out = {} /\ out \in Seq(OutLine)
  BY <1>1
<1>5. \A S : stacks \in [Barrier -> Seq(S)]
  BY <1>1
<1>6. TypeOK
  BY <1>1, <1>2, <1>3, <1>4, <1>5 DEF TypeOK
<1>7. CollectedInv
  <2>1. \A n \in DOMAIN kernel : ~(n < 1)
    BY <1>2
  <2> QED
    BY <1>1, <2>1 DEF CollectedInv
<1>8. PairedInv
  BY <1>4, <1>5 DEF PairedInv
<1>9. OutputInv
  BY <1>1, <1>4 DEF OutputInv, LinesAreGood, Visited
<1> QED
  BY <1>1, <1>6, <1>7, <1>8, <1>9 DEF IInv

(* branch_targets only grows, so what was collected stays collected. *)
LEMMA CollectKeeps == IInv /\ (CollectBranchTarget \/ Collected) => IInv'
<1> SUFFICES ASSUME IInv, CollectBranchTarget \/ Collected PROVE IInv'
  OBVIOUS
<1> USE DEF IInv
<1>0. kernel \in Kernels /\ kernel \in Seq(Instruction) /\ Len(kernel) \in Nat
      /\ DOMAIN kernel = 1..Len(kernel) /\ i \in 1..(Len(kernel) + 1)
  BY DEF TypeOK
<1>1. CASE CollectBranchTarget
  <2>1. /\ stage = "collect" /\ stage' = "collect" /\ i <= Len(kernel) /\ i' = i + 1
        /\ branch_targets' = branch_targets \cup
             (IF IsBranch(Here) /\ HasTarget(Here) THEN {branch_addr(Here)} ELSE {})
        /\ UNCHANGED <<kernel, types, stacks, bsync_rewrite, emitted_labels, left, out>>
    BY <1>1 DEF CollectBranchTarget
  <2>2. branch_targets' \subseteq Address /\ branch_targets \subseteq branch_targets'
    <3>1. HasTarget(Here) => branch_addr(Here) \in Address
      BY <1>0, <2>1, EmitAssumption DEF Here
    <3> QED
      BY <2>1, <3>1 DEF TypeOK
  <2>3. TypeOK'
    BY <1>0, <2>1, <2>2 DEF TypeOK
  <2>4. CollectedInv'
    <3>1. ASSUME NEW n \in DOMAIN kernel, n < i + 1, IsBranch(kernel[n]), HasTarget(kernel[n])
          PROVE  branch_addr(kernel[n]) \in branch_targets'
      <4>1. CASE n = i
        BY <2>1, <3>1, <4>1 DEF Here
      <4>2. CASE n # i
        BY <1>0, <2>1, <2>2, <3>1, <4>2 DEF CollectedInv
      <4> QED
        BY <4>1, <4>2
    <3> QED
      BY <2>1, <3>1 DEF CollectedInv
  <2>5. PairedInv'
    BY <2>1, <2>2, SeqGrows DEF PairedInv
  <2>6. OutputInv'
    BY <2>1, <2>2, MoreTargets DEF OutputInv, Visited
  <2> QED
    BY <1>0, <2>1, <2>3, <2>4, <2>5, <2>6
<1>2. CASE Collected
  <2>1. /\ stage = "collect" /\ stage' = "pair" /\ i > Len(kernel) /\ i' = 1
        /\ UNCHANGED <<kernel, types, branch_targets, stacks, bsync_rewrite, emitted_labels,
                       left, out>>
    BY <1>2 DEF Collected
  <2>2. TypeOK'
    BY <1>0, <2>1 DEF TypeOK
  <2>3. CollectedInv'
    BY <1>0, <2>1 DEF CollectedInv
  <2>4. PairedInv'
    BY <2>1 DEF PairedInv
  <2>5. OutputInv'
    BY <2>1 DEF OutputInv, Visited
  <2> QED
    BY <1>0, <2>1, <2>2, <2>3, <2>4, <2>5
<1> QED
  BY <1>1, <1>2

(* What is pushed is a target, so what is popped is one. *)
LEMMA OpenKeeps == IInv /\ Open => IInv'
<1> SUFFICES ASSUME IInv, Open PROVE IInv'
  OBVIOUS
<1> USE DEF IInv
<1> DEFINE b == Here.barrier
           a == branch_addr(Here)
<1>1. /\ stage = "pair" /\ stage' = "pair" /\ i <= Len(kernel) /\ i' = i + 1
      /\ IsOpening(Here)
      /\ stacks' = [stacks EXCEPT ![b] = Append(@, a)]
      /\ branch_targets' = branch_targets \cup {a}
      /\ UNCHANGED <<kernel, types, bsync_rewrite, emitted_labels, left, out>>
  BY DEF Open
<1>2. kernel \in Kernels /\ kernel \in Seq(Instruction) /\ i \in DOMAIN kernel
      /\ Len(kernel) \in Nat
  BY <1>1 DEF TypeOK
<1>3. a \in Address
  BY <1>1, <1>2, EmitAssumption DEF IsOpening, Here
<1>4. b \in Barrier
  <2>1. Here \in Instruction
    BY <1>2 DEF Here
  <2> QED
    BY <1>1, <2>1 DEF Instruction, IsOpening
<1> HIDE DEF a, b
<1>5. stacks' \in [Barrier -> Seq(branch_targets')]
  <2>1. stacks \in [Barrier -> Seq(branch_targets')]
    BY <1>1, SeqGrows DEF PairedInv
  <2>2. a \in branch_targets'
    BY <1>1
  <2>3. stacks[b] \in Seq(branch_targets')
    BY <1>4, <2>1
  <2>4. Append(stacks[b], a) \in Seq(branch_targets')
    BY <2>2, <2>3, AppendProperties
  <2>5. stacks' = [stacks EXCEPT ![b] = Append(stacks[b], a)]
    BY <1>1
  <2> QED
    BY <1>4, <2>1, <2>4, <2>5
<1>6. branch_targets' \subseteq Address /\ branch_targets \subseteq branch_targets'
  BY <1>1, <1>3 DEF TypeOK
<1>7. TypeOK'
  <2>1. stacks' \in [Barrier -> Seq(Address)]
    <3>1. \A f : f \in [Barrier -> Seq(branch_targets')] => f \in [Barrier -> Seq(Address)]
      BY <1>6, SeqGrows
    <3> QED
      BY <1>5, <3>1
  <2> QED
    BY <1>1, <1>2, <1>6, <2>1 DEF TypeOK
<1>8. CollectedInv'
  BY <1>1, <1>6 DEF CollectedInv
<1>9. PairedInv'
  BY <1>1, <1>5, <1>6 DEF PairedInv
<1>10. OutputInv'
  BY <1>1, <1>6, MoreTargets DEF OutputInv, Visited
<1> QED
  BY <1>1, <1>2, <1>7, <1>8, <1>9, <1>10

LEMMA CloseKeeps == IInv /\ Close => IInv'
<1> SUFFICES ASSUME IInv, Close PROVE IInv'
  OBVIOUS
<1> USE DEF IInv
<1> DEFINE b     == Here.barrier
           stack == stacks[b]
           low   == SubSeq(stack, 1, Len(stack) - 1)
           top   == stack[Len(stack)]
<1>1. /\ stage = "pair" /\ stage' = "pair" /\ i <= Len(kernel) /\ i' = i + 1
      /\ IsClosing(Here)
      /\ IF stack = <<>> THEN UNCHANGED <<stacks, bsync_rewrite>>
         ELSE /\ stacks' = [stacks EXCEPT ![b] = low]
              /\ bsync_rewrite' = Rewritten(Here.address, top)
      /\ UNCHANGED <<kernel, types, branch_targets, emitted_labels, left, out>>
  BY DEF Close
<1>2. kernel \in Kernels /\ kernel \in Seq(Instruction) /\ i \in DOMAIN kernel
      /\ Len(kernel) \in Nat /\ branch_targets \subseteq Address
  BY <1>1 DEF TypeOK
<1>3. b \in Barrier /\ Here.address \in Address
  <2>1. Here \in Instruction
    BY <1>2 DEF Here
  <2> QED
    BY <1>1, <2>1 DEF Instruction, IsClosing
<1>4. stacks \in [Barrier -> Seq(branch_targets)]
  BY DEF PairedInv
<1>5. stack \in Seq(branch_targets)
  BY <1>3, <1>4
<1>6. stack # <<>> => top \in branch_targets /\ low \in Seq(branch_targets)
  <2> HIDE DEF stack
  <2>1. stack # <<>> => Len(stack) \in Nat /\ Len(stack) > 0
    BY <1>5, EmptySeq
  <2> QED
    BY <1>5, <2>1
<1>7. /\ DOMAIN bsync_rewrite \subseteq Address
      /\ \A x \in DOMAIN bsync_rewrite : bsync_rewrite[x] \in branch_targets
  BY DEF TypeOK, PairedInv
<1> HIDE DEF b, stack, low, top
<1>8. stacks' \in [Barrier -> Seq(branch_targets)]
  BY <1>1, <1>3, <1>4, <1>6
<1>9. /\ DOMAIN bsync_rewrite' \subseteq Address
      /\ \A x \in DOMAIN bsync_rewrite' : bsync_rewrite'[x] \in branch_targets
  <2>1. CASE stack = <<>>
    BY <1>1, <1>7, <2>1
  <2>2. CASE stack # <<>>
    <3> DEFINE g == Rewritten(Here.address, top)
    <3>1. /\ DOMAIN g = DOMAIN bsync_rewrite \cup {Here.address}
          /\ \A x \in DOMAIN g : g[x] = IF x = Here.address THEN top ELSE bsync_rewrite[x]
      BY DEF Rewritten
    <3>2. bsync_rewrite' = g
      BY <1>1, <2>2
    <3> HIDE DEF g
    <3> QED
      BY <1>3, <1>6, <1>7, <2>2, <3>1, <3>2
  <2> QED
    BY <2>1, <2>2
<1>10. TypeOK'
  <2>1. stacks' \in [Barrier -> Seq(Address)]
    BY <1>2, <1>8, SeqGrows
  <2> QED
    BY <1>1, <1>2, <1>9, <2>1 DEF TypeOK
<1>11. CollectedInv'
  BY <1>1 DEF CollectedInv
<1>12. PairedInv'
  BY <1>1, <1>8, <1>9 DEF PairedInv
<1>13. OutputInv'
  BY <1>1 DEF OutputInv, Visited
<1> QED
  BY <1>1, <1>2, <1>10, <1>11, <1>12, <1>13

LEMMA PairKeeps == IInv /\ (PassBy \/ Paired) => IInv'
<1> SUFFICES ASSUME IInv, PassBy \/ Paired PROVE IInv'
  OBVIOUS
<1> USE DEF IInv
<1>0. kernel \in Kernels /\ kernel \in Seq(Instruction) /\ Len(kernel) \in Nat
      /\ i \in 1..(Len(kernel) + 1)
  BY DEF TypeOK
<1>1. CASE PassBy
  <2>1. /\ stage = "pair" /\ stage' = "pair" /\ i <= Len(kernel) /\ i' = i + 1
        /\ UNCHANGED <<kernel, types, branch_targets, stacks, bsync_rewrite, emitted_labels,
                       left, out>>
    BY <1>1 DEF PassBy
  <2>2. TypeOK'
    BY <1>0, <2>1 DEF TypeOK
  <2> QED
    BY <1>0, <2>1, <2>2 DEF CollectedInv, PairedInv, OutputInv, Visited
<1>2. CASE Paired
  <2>1. /\ stage = "pair" /\ stage' = "emit" /\ i' = 1
        /\ branch_targets' = branch_targets \cup {0}
        /\ UNCHANGED <<kernel, types, stacks, bsync_rewrite, emitted_labels, left, out>>
    BY <1>2 DEF Paired
  <2>2. branch_targets \subseteq branch_targets' /\ branch_targets' \subseteq Address
    BY <2>1, EmitAssumption DEF TypeOK
  <2>3. TypeOK'
    BY <1>0, <2>1, <2>2 DEF TypeOK
  <2>4. CollectedInv'
    BY <2>1 DEF CollectedInv
  <2>5. PairedInv'
    BY <2>1, <2>2, SeqGrows DEF PairedInv
  <2>6. OutputInv'
    BY <2>1, <2>2, MoreTargets DEF OutputInv, Visited
  <2> QED
    BY <1>0, <2>1, <2>3, <2>4, <2>5, <2>6
<1> QED
  BY <1>1, <1>2

(* A label is written only if it has not been, and before its line. *)
LEMMA EmitKeeps == IInv /\ EmitInstruction => IInv'
<1> SUFFICES ASSUME IInv, EmitInstruction PROVE IInv'
  OBVIOUS
<1> USE DEF IInv
<1> DEFINE a    == Here.address
           head == IF Labelled THEN Append(out, Label(a)) ELSE out
           more == IF Labelled THEN {a} ELSE {}
           line == LineOf(Here)
<1>1. /\ stage = "emit" /\ stage' = "emit" /\ i <= Len(kernel) /\ i' = i + 1
      /\ out' = Append(head, line)
      /\ emitted_labels' = emitted_labels \cup more
      /\ UNCHANGED <<kernel, types, branch_targets, stacks, bsync_rewrite, left>>
  BY DEF EmitInstruction
<1>2. kernel \in Kernels /\ kernel \in Seq(Instruction) /\ Len(kernel) \in Nat
      /\ i \in 1..(Len(kernel) + 1) /\ branch_targets \subseteq Address
      /\ emitted_labels \subseteq branch_targets
  BY DEF TypeOK
<1>3. line \in OutLine /\ line.what # "label" /\ (line.what = "bra" => line.to \in branch_targets)
  BY <1>1, LineOfIsGood
<1>4. LinesAreGood(out, emitted_labels, branch_targets)
  BY <1>1 DEF OutputInv, Visited
<1>5. Labelled => a \in Address /\ a \notin emitted_labels /\ a \in branch_targets
  BY <1>2 DEF Labelled
<1> HIDE DEF line, a
<1>6. LinesAreGood(head, emitted_labels \cup more, branch_targets)
  <2>1. CASE Labelled
    <3>1. LinesAreGood(Append(out, Label(a)), emitted_labels \cup {a}, branch_targets)
      BY <1>4, <1>5, <2>1, AppendALabel
    <3> QED
      BY <2>1, <3>1
  <2>2. CASE ~Labelled
    BY <1>4, <2>2
  <2> QED
    BY <2>1, <2>2
<1>7. more \subseteq branch_targets
  BY <1>5
<1> HIDE DEF head, more
<1>8. LinesAreGood(out', emitted_labels', branch_targets')
  BY <1>1, <1>3, <1>6, AppendALine
<1>9. TypeOK'
  <2>1. out' \in Seq(OutLine)
    BY <1>8 DEF LinesAreGood
  <2> QED
    BY <1>1, <1>2, <1>7, <2>1 DEF TypeOK
<1>10. CollectedInv' /\ PairedInv'
  BY <1>1 DEF CollectedInv, PairedInv
<1>11. OutputInv'
  BY <1>1, <1>8 DEF OutputInv, Visited
<1> QED
  BY <1>1, <1>2, <1>9, <1>10, <1>11

LEMMA SkipKeeps == IInv /\ (SkipInstruction \/ Emitted) => IInv'
<1> SUFFICES ASSUME IInv, SkipInstruction \/ Emitted PROVE IInv'
  OBVIOUS
<1> USE DEF IInv
<1>0. kernel \in Kernels /\ kernel \in Seq(Instruction) /\ Len(kernel) \in Nat
      /\ i \in 1..(Len(kernel) + 1)
  BY DEF TypeOK
<1>1. CASE SkipInstruction
  <2>1. /\ stage = "emit" /\ stage' = "emit" /\ i <= Len(kernel) /\ i' = i + 1
        /\ UNCHANGED <<kernel, types, branch_targets, stacks, bsync_rewrite, emitted_labels,
                       left, out>>
    BY <1>1 DEF SkipInstruction
  <2>2. TypeOK'
    BY <1>0, <2>1 DEF TypeOK
  <2> QED
    BY <1>0, <2>1, <2>2 DEF CollectedInv, PairedInv, OutputInv, Visited
<1>2. CASE Emitted
  <2>1. /\ stage = "emit" /\ stage' = "labels" /\ left' = branch_targets
        /\ UNCHANGED <<kernel, types, i, branch_targets, stacks, bsync_rewrite,
                       emitted_labels, out>>
    BY <1>2 DEF Emitted
  <2>2. TypeOK'
    BY <1>0, <2>1 DEF TypeOK
  <2>3. Visited' = Visited
    BY <2>1 DEF Visited
  <2> QED
    BY <1>0, <2>1, <2>2, <2>3 DEF CollectedInv, PairedInv, OutputInv
<1> QED
  BY <1>1, <1>2

(* A target visited last is labelled now, or was by its instruction. *)
LEMMA LabelsKeep == IInv /\ ((\E a \in left : EmitMissingLabel(a)) \/ Closed) => IInv'
<1> SUFFICES ASSUME IInv, (\E a \in left : EmitMissingLabel(a)) \/ Closed PROVE IInv'
  OBVIOUS
<1> USE DEF IInv
<1>0. kernel \in Kernels /\ left \subseteq branch_targets /\ branch_targets \subseteq Address
  BY DEF TypeOK
<1>1. ASSUME NEW a \in left, EmitMissingLabel(a) PROVE IInv'
  <2>1. /\ stage = "labels" /\ stage' = "labels"
        /\ out' = IF a \in emitted_labels THEN out ELSE Append(out, Label(a))
        /\ left' = left \ {a}
        /\ UNCHANGED <<kernel, types, i, branch_targets, stacks, bsync_rewrite, emitted_labels>>
    BY <1>1 DEF EmitMissingLabel
  <2>2. LinesAreGood(out, Visited, branch_targets)
    BY DEF OutputInv
  <2>3. LinesAreGood(out', Visited', branch_targets)
    <3>1. CASE a \in emitted_labels
      <4>1. Visited' = Visited
        BY <1>0, <1>1, <2>1, <3>1 DEF Visited
      <4> QED
        BY <2>1, <2>2, <3>1, <4>1
    <3>2. CASE a \notin emitted_labels
      <4>1. a \notin Visited /\ Visited' = Visited \cup {a}
        BY <1>0, <1>1, <2>1, <3>2 DEF Visited
      <4>2. LinesAreGood(Append(out, Label(a)), Visited \cup {a}, branch_targets)
        BY <1>0, <1>1, <2>2, <4>1, AppendALabel
      <4> QED
        BY <2>1, <3>2, <4>1, <4>2
    <3> QED
      BY <3>1, <3>2
  <2>4. TypeOK'
    <3>1. out' \in Seq(OutLine)
      BY <2>3 DEF LinesAreGood
    <3> QED
      BY <2>1, <3>1 DEF TypeOK
  <2>5. CollectedInv' /\ PairedInv'
    BY <2>1 DEF CollectedInv, PairedInv
  <2>6. OutputInv'
    BY <2>1, <2>3 DEF OutputInv
  <2> QED
    BY <1>0, <2>1, <2>4, <2>5, <2>6
<1>2. CASE Closed
  <2>1. /\ stage = "labels" /\ left = {} /\ stage' = "done"
        /\ UNCHANGED <<kernel, types, i, branch_targets, stacks, bsync_rewrite,
                       emitted_labels, left, out>>
    BY <1>2 DEF Closed
  <2>2. TypeOK'
    BY <2>1 DEF TypeOK
  <2>3. Visited' = Visited
    BY <2>1 DEF Visited
  <2> QED
    BY <1>0, <2>1, <2>2, <2>3 DEF CollectedInv, PairedInv, OutputInv
<1> QED
  BY <1>1, <1>2

LEMMA Stepwise == IInv /\ [EmitNext]_emitVars => IInv'
<1> SUFFICES ASSUME IInv, [EmitNext]_emitVars PROVE IInv'
  OBVIOUS
<1>1. CASE EmitNext
  BY <1>1, CollectKeeps, OpenKeeps, CloseKeeps, PairKeeps, EmitKeeps, SkipKeeps, LabelsKeep
  DEF EmitNext, EmitStep
<1>2. CASE UNCHANGED emitVars
  BY <1>2 DEF emitVars, IInv, TypeOK, CollectedInv, PairedInv, OutputInv, Visited
<1> QED
  BY <1>1, <1>2

-----------------------------------------------------------------------------
(* The emitter's state keeps its types: every target it collects, stacks,  *)
(* rewrites or labels is one of the kernel's addresses, or 0.              *)
THEOREM TypeCorrectness == Spec => []TypeOK
<1>1. IInv => TypeOK
  BY DEF IInv
<1> QED
  BY <1>1, Initially, Stepwise, PTL DEF Spec

(* No label is defined twice, whatever addresses repeat in the kernel. *)
THEOREM LabelsDefinedOnce == Spec => []LabelsAreUnique
<1>1. IInv => LabelsAreUnique
  BY DEF IInv, OutputInv, LinesAreGood, LabelsAreUnique
<1> QED
  BY <1>1, Initially, Stepwise, PTL DEF Spec

(* The finished kernel defines every label it branches to. *)
THEOREM BranchesHaveLabels == Spec => []BranchesAreDefined
<1>1. IInv => BranchesAreDefined
  <2> SUFFICES ASSUME IInv, stage = "done", NEW n \in DOMAIN out, out[n].what = "bra"
               PROVE  LabelsAt(out[n].to) # {}
    BY DEF BranchesAreDefined
  <2>1. left = {} /\ LinesAreGood(out, Visited, branch_targets)
    BY DEF IInv, OutputInv
  <2>2. out[n].to \in Visited
    BY <2>1 DEF LinesAreGood, Visited
  <2> QED
    BY <2>1, <2>2 DEF LinesAreGood, LabelsAt
<1> QED
  BY <1>1, Initially, Stepwise, PTL DEF Spec

(* The composed system's emitter is this one: running the two threads      *)
(* changes nothing of it.                                                  *)
THEOREM FlowImplementsEmission == FlowSpec => Spec
<1>1. [Next]_vars => [EmitNext]_emitVars
  <2> SUFFICES ASSUME [Next]_vars PROVE EmitNext \/ UNCHANGED emitVars
    OBVIOUS
  <2>1. CASE Emission
    BY <2>1 DEF Emission, EmitNext
  <2>2. CASE Launch
    BY <2>2 DEF Launch, EmitNext
  <2>3. CASE PassLabel \/ \E true \in SUBSET Predicate : PassInstruction(true)
    BY <2>3 DEF PassLabel, PassInstruction
  <2>4. CASE Stopped \/ UNCHANGED vars
    BY <2>4 DEF Stopped, vars, emitVars
  <2> QED
    BY <2>1, <2>2, <2>3, <2>4 DEF Next
<1> QED
  BY <1>1, PTL DEF FlowSpec, FlowInit, Spec


-----------------------------------------------------------------------------
(***************************************************************************)
(* Counting.  Depth is by how much the openings of a barrier exceed its    *)
(* closings between two places of a kernel.                                *)
(***************************************************************************)
Within(S, n, m) == S \cap n..m
OpeningsOf(k, b) == {p \in Int : IsOpening(k[p]) /\ k[p].barrier = b}
ClosingsOf(k, b) == {p \in Int : IsClosing(k[p]) /\ k[p].barrier = b}
Depth(k, b, n, m) ==
  Cardinality(Within(OpeningsOf(k, b), n, m)) - Cardinality(Within(ClosingsOf(k, b), n, m))

IsBracket(k, n, m) ==
  /\ IsOpening(k[n]) /\ IsClosing(k[m]) /\ k[m].barrier = k[n].barrier
  /\ Depth(k, k[n].barrier, n, m) = 0
  /\ \A p \in n..(m - 1) : Depth(k, k[n].barrier, n, p) > 0

LEMMA CountIsNatural ==
  ASSUME NEW S, NEW n \in Int, NEW m \in Int
  PROVE  IsFiniteSet(Within(S, n, m)) /\ Cardinality(Within(S, n, m)) \in Nat
<1>1. IsFiniteSet(n..m)
  BY FS_Interval
<1>2. Within(S, n, m) \in SUBSET (n..m)
  BY DEF Within
<1>3. IsFiniteSet(Within(S, n, m))
  BY <1>1, <1>2, FS_Subset
<1>4. QED
  BY <1>3, FS_CardinalityType

LEMMA CountGrows ==
  ASSUME NEW S, NEW n \in Int, NEW m \in Int, n <= m + 1
  PROVE  Cardinality(Within(S, n, m + 1)) =
           IF m + 1 \in S THEN Cardinality(Within(S, n, m)) + 1
           ELSE Cardinality(Within(S, n, m))
<1>1. n..(m + 1) = n..m \cup {m + 1} /\ m + 1 \notin n..m
  OBVIOUS
<1>2. Within(S, n, m + 1) = IF m + 1 \in S THEN Within(S, n, m) \cup {m + 1} ELSE Within(S, n, m)
  BY <1>1 DEF Within
<1>3. m + 1 \notin Within(S, n, m)
  BY <1>1 DEF Within
<1> DEFINE T == Within(S, n, m)
<1> HIDE DEF T
<1>4. IsFiniteSet(T)
  BY CountIsNatural DEF T
<1>5. Cardinality(T \cup {m + 1}) = IF m + 1 \in T THEN Cardinality(T) ELSE Cardinality(T) + 1
  BY <1>4, FS_AddElement
<1>6. QED
  BY <1>2, <1>3, <1>5 DEF T

LEMMA DepthIsInteger ==
  ASSUME NEW k, NEW b, NEW n \in Int, NEW m \in Int
  PROVE  Depth(k, b, n, m) \in Int
<1>1. /\ Cardinality(Within(OpeningsOf(k, b), n, m)) \in Nat
      /\ Cardinality(Within(ClosingsOf(k, b), n, m)) \in Nat
  BY CountIsNatural
<1>2. QED
  BY <1>1 DEF Depth

(* One more instruction. *)
LEMMA DepthStep ==
  ASSUME NEW k, NEW b, NEW n \in Int, NEW m \in Int, n <= m + 1
  PROVE  Depth(k, b, n, m + 1) =
           IF IsOpening(k[m + 1]) /\ k[m + 1].barrier = b THEN Depth(k, b, n, m) + 1
           ELSE IF IsClosing(k[m + 1]) /\ k[m + 1].barrier = b THEN Depth(k, b, n, m) - 1
           ELSE Depth(k, b, n, m)
<1> DEFINE O == OpeningsOf(k, b)
           C == ClosingsOf(k, b)
<1>1. /\ m + 1 \in O <=> IsOpening(k[m + 1]) /\ k[m + 1].barrier = b
      /\ m + 1 \in C <=> IsClosing(k[m + 1]) /\ k[m + 1].barrier = b
  BY DEF OpeningsOf, ClosingsOf
<1>2. ~(m + 1 \in O /\ m + 1 \in C)
  BY DEF OpeningsOf, ClosingsOf, IsOpening, IsClosing
<1>3. /\ Depth(k, b, n, m) = Cardinality(Within(O, n, m)) - Cardinality(Within(C, n, m))
      /\ Depth(k, b, n, m + 1) =
           Cardinality(Within(O, n, m + 1)) - Cardinality(Within(C, n, m + 1))
  BY DEF Depth
<1> HIDE DEF O, C
<1>4. /\ Cardinality(Within(O, n, m)) \in Nat
      /\ Cardinality(Within(O, n, m + 1)) =
           IF m + 1 \in O THEN Cardinality(Within(O, n, m)) + 1 ELSE Cardinality(Within(O, n, m))
  BY CountIsNatural, CountGrows
<1>5. /\ Cardinality(Within(C, n, m)) \in Nat
      /\ Cardinality(Within(C, n, m + 1)) =
           IF m + 1 \in C THEN Cardinality(Within(C, n, m)) + 1 ELSE Cardinality(Within(C, n, m))
  BY CountIsNatural, CountGrows
<1>6. QED
  BY <1>1, <1>2, <1>3, <1>4, <1>5

LEMMA DepthOfNothing ==
  ASSUME NEW k, NEW b, NEW n \in Int
  PROVE  Depth(k, b, n, n - 1) = 0
<1>1. \A S : Within(S, n, n - 1) = {}
  BY DEF Within
<1>2. QED
  BY <1>1, FS_EmptySet DEF Depth

LEMMA DepthOfOpening ==
  ASSUME NEW k, NEW n \in Int, IsOpening(k[n])
  PROVE  Depth(k, k[n].barrier, n, n) = 1
<1> DEFINE m == n - 1
<1>1. m \in Int /\ m + 1 = n /\ n <= m + 1
  OBVIOUS
<1>2. Depth(k, k[n].barrier, n, m) = 0
  BY DepthOfNothing
<1> HIDE DEF m
<1>3. Depth(k, k[n].barrier, n, m + 1) = Depth(k, k[n].barrier, n, m) + 1
  <2> DEFINE b == k[n].barrier
  <2>1. IsOpening(k[m + 1]) /\ k[m + 1].barrier = b
    BY <1>1
  <2> HIDE DEF b
  <2>2. Depth(k, b, n, m + 1) = Depth(k, b, n, m) + 1
    BY <1>1, <2>1, DepthStep
  <2>3. QED
    BY <2>2 DEF b
<1>4. QED
  BY <1>1, <1>2, <1>3

LEMMA BracketIs ==
  ASSUME NEW n \in Int, NEW m \in Int
  PROVE  Bracket(n, m) <=> IsBracket(kernel, n, m)
<1>1. ASSUME NEW b, NEW p \in Int
      PROVE  /\ Opened(b, n, p) = Cardinality(Within(OpeningsOf(kernel, b), n, p))
             /\ ClosedIn(b, n, p) = Cardinality(Within(ClosingsOf(kernel, b), n, p))
  <2>1. {q \in n..p : IsOpening(kernel[q]) /\ kernel[q].barrier = b}
          = Within(OpeningsOf(kernel, b), n, p)
    BY DEF OpeningsOf, Within
  <2>2. {q \in n..p : IsClosing(kernel[q]) /\ kernel[q].barrier = b}
          = Within(ClosingsOf(kernel, b), n, p)
    BY DEF ClosingsOf, Within
  <2>3. QED
    BY <2>1, <2>2 DEF Opened, ClosedIn
<1>2. \A b : \A p \in Int : /\ Cardinality(Within(OpeningsOf(kernel, b), n, p)) \in Nat
                            /\ Cardinality(Within(ClosingsOf(kernel, b), n, p)) \in Nat
  BY CountIsNatural
<1>3. \A b : \A p \in Int : /\ Opened(b, n, p) = ClosedIn(b, n, p) <=> Depth(kernel, b, n, p) = 0
                            /\ Opened(b, n, p) > ClosedIn(b, n, p) <=> Depth(kernel, b, n, p) > 0
  BY <1>1, <1>2 DEF Depth
<1>4. n..(m - 1) \subseteq Int
  OBVIOUS
<1>5. QED
  BY <1>3, <1>4 DEF Bracket, IsBracket

-----------------------------------------------------------------------------
(***************************************************************************)
(* The inductive invariant of the pairing.  The stack of a barrier holds   *)
(* the targets of the openings that are still open, the innermost on top,  *)
(* each at the depth it is at; and what is rewritten is what was closed.   *)
(***************************************************************************)
OpenBy(k, b, j) ==
  {n \in 1..j : /\ IsOpening(k[n]) /\ k[n].barrier = b
                /\ \A p \in n..j : Depth(k, b, n, p) > 0}

StackHolds(k, b, j, stack) ==
  /\ \A s \in 1..Len(stack) : \E n \in OpenBy(k, b, j) :
       /\ Depth(k, b, n, j) = Len(stack) - s + 1
       /\ stack[s] = branch_addr(k[n])
  /\ \A n \in OpenBy(k, b, j) : Depth(k, b, n, j) <= Len(stack)

StackInv == stage = "pair" => \A b \in Barrier : StackHolds(kernel, b, i - 1, stacks[b])

Seen ==
  IF stage = "collect" THEN {}
  ELSE {m \in DOMAIN kernel : IsClosing(kernel[m]) /\ (stage = "pair" => m < i)}

Starts(m) == {n \in 1..m : IsBracket(kernel, n, m)}

ClosedWell(m) ==
  IF kernel[m].address \in DOMAIN bsync_rewrite
  THEN \E n \in Starts(m) : bsync_rewrite[kernel[m].address] = branch_addr(kernel[n])
  ELSE Starts(m) = {}

RewriteInv ==
  /\ \A a \in DOMAIN bsync_rewrite : \E m \in Seen : kernel[m].address = a
  /\ UniqueAddresses => \A m \in Seen : ClosedWell(m)

StacksUntouched ==
  stage = "collect" => stacks = [b \in Barrier |-> <<>>] /\ DOMAIN bsync_rewrite = {}

PairInv == IInv /\ StacksUntouched /\ StackInv /\ RewriteInv

LEMMA Places1 ==
  ASSUME IInv
  PROVE  /\ kernel \in Seq(Instruction) /\ Len(kernel) \in Nat
         /\ DOMAIN kernel = 1..Len(kernel) /\ i \in 1..(Len(kernel) + 1)
         /\ stacks \in [Barrier -> Seq(Address)]
  BY DEF IInv, TypeOK

LEMMA OpenByStep ==
  ASSUME NEW k, NEW b, NEW j \in Nat
  PROVE  \A n : n \in OpenBy(k, b, j + 1) <=>
           \/ n \in OpenBy(k, b, j) /\ Depth(k, b, n, j + 1) > 0
           \/ n = j + 1 /\ IsOpening(k[j + 1]) /\ k[j + 1].barrier = b
<1>1. ASSUME NEW n, n \in 1..j
      PROVE  n \in OpenBy(k, b, j + 1) <=> n \in OpenBy(k, b, j) /\ Depth(k, b, n, j + 1) > 0
  <2>1. n..(j + 1) = n..j \cup {j + 1} /\ n \in 1..(j + 1)
    BY <1>1
  <2>2. QED
    BY <1>1, <2>1 DEF OpenBy
<1>2. j + 1 \in OpenBy(k, b, j + 1) <=> IsOpening(k[j + 1]) /\ k[j + 1].barrier = b
  <2>1. (j + 1)..(j + 1) = {j + 1} /\ j + 1 \in 1..(j + 1) /\ j + 1 \in Int
    OBVIOUS
  <2>2. IsOpening(k[j + 1]) => Depth(k, k[j + 1].barrier, j + 1, j + 1) = 1
    BY <2>1, DepthOfOpening
  <2>3. QED
    BY <2>1, <2>2 DEF OpenBy
<1>3. j + 1 \notin 1..j /\ 1..(j + 1) = 1..j \cup {j + 1}
  OBVIOUS
<1>4. \A n : /\ n \in OpenBy(k, b, j + 1) => n \in 1..(j + 1)
             /\ n \in OpenBy(k, b, j) => n \in 1..j
  BY DEF OpenBy
<1>5. QED
  BY <1>1, <1>2, <1>3, <1>4

LEMMA OpenIsDeep ==
  ASSUME NEW k, NEW b, NEW j \in Nat, NEW n \in OpenBy(k, b, j)
  PROVE  /\ n \in 1..j /\ n \in Int /\ n <= j + 1
         /\ Depth(k, b, n, j) \in Int /\ Depth(k, b, n, j) > 0
<1>1. n \in 1..j /\ \A p \in n..j : Depth(k, b, n, p) > 0
  BY DEF OpenBy
<1>2. n \in Int /\ j \in n..j /\ n <= j + 1
  BY <1>1
<1>3. QED
  BY <1>1, <1>2, DepthIsInteger

LEMMA PushHolds ==
  ASSUME NEW k, NEW b, NEW j \in Nat, NEW S, NEW stack \in Seq(S), NEW a \in S,
         StackHolds(k, b, j, stack),
         IsOpening(k[j + 1]), k[j + 1].barrier = b, a = branch_addr(k[j + 1])
  PROVE  StackHolds(k, b, j + 1, Append(stack, a))
<1> DEFINE more == Append(stack, a)
<1>1. /\ Len(stack) \in Nat /\ Len(more) = Len(stack) + 1 /\ more[Len(stack) + 1] = a
      /\ \A s \in 1..Len(stack) : more[s] = stack[s]
  BY AppendProperties
<1> HIDE DEF more
<1>2. ASSUME NEW n \in OpenBy(k, b, j)
      PROVE  /\ n \in OpenBy(k, b, j + 1) /\ Depth(k, b, n, j) \in Int
             /\ Depth(k, b, n, j + 1) = Depth(k, b, n, j) + 1
  <2>1. n \in Int /\ n <= j + 1 /\ Depth(k, b, n, j) \in Int /\ Depth(k, b, n, j) > 0
    BY OpenIsDeep
  <2>2. Depth(k, b, n, j + 1) = Depth(k, b, n, j) + 1
    BY <2>1, DepthStep
  <2>3. QED
    BY <2>1, <2>2, OpenByStep
<1>3. j + 1 \in OpenBy(k, b, j + 1) /\ Depth(k, b, j + 1, j + 1) = 1
  <2>1. j + 1 \in Int
    OBVIOUS
  <2>2. Depth(k, k[j + 1].barrier, j + 1, j + 1) = 1
    BY <2>1, DepthOfOpening
  <2>3. QED
    BY <2>2, OpenByStep
<1>4. ASSUME NEW s \in 1..Len(more)
      PROVE  \E n \in OpenBy(k, b, j + 1) :
               /\ Depth(k, b, n, j + 1) = Len(more) - s + 1
               /\ more[s] = branch_addr(k[n])
  <2>1. CASE s = Len(stack) + 1
    BY <1>1, <1>3, <2>1
  <2>2. CASE s # Len(stack) + 1
    <3>1. s \in 1..Len(stack)
      BY <1>1, <2>2
    <3>2. PICK n \in OpenBy(k, b, j) :
            Depth(k, b, n, j) = Len(stack) - s + 1 /\ stack[s] = branch_addr(k[n])
      BY <3>1 DEF StackHolds
    <3>3. QED
      BY <1>1, <1>2, <3>1, <3>2
  <2>3. QED
    BY <2>1, <2>2
<1>5. ASSUME NEW n \in OpenBy(k, b, j + 1) PROVE Depth(k, b, n, j + 1) <= Len(more)
  <2>1. CASE n \in OpenBy(k, b, j)
    BY <1>1, <1>2, <2>1 DEF StackHolds
  <2>2. CASE n = j + 1
    BY <1>1, <1>3, <2>2
  <2>3. QED
    BY <2>1, <2>2, OpenByStep
<1>6. QED
  BY <1>4, <1>5 DEF StackHolds, more

LEMMA PopHolds ==
  ASSUME NEW k, NEW b, NEW j \in Nat, NEW S, NEW stack \in Seq(S), stack # <<>>,
         StackHolds(k, b, j, stack),
         IsClosing(k[j + 1]), k[j + 1].barrier = b
  PROVE  StackHolds(k, b, j + 1, SubSeq(stack, 1, Len(stack) - 1))
<1> DEFINE less == SubSeq(stack, 1, Len(stack) - 1)
<1>1. /\ Len(stack) \in Nat /\ Len(stack) > 0 /\ Len(less) = Len(stack) - 1
      /\ \A s \in 1..Len(less) : less[s] = stack[s]
  <2>1. Len(stack) \in Nat /\ Len(stack) > 0
    BY EmptySeq
  <2> DEFINE m == Len(stack) - 1
  <2>2. m \in Nat /\ \A s \in 1..m : stack[s] \in S
    BY <2>1
  <2> HIDE DEF m
  <2>3. /\ Len(SubSeq(stack, 1, m)) = IF 1 <= m THEN m - 1 + 1 ELSE 0
        /\ \A s \in 1..(m - 1 + 1) : SubSeq(stack, 1, m)[s] = stack[1 + s - 1]
    BY <2>2, SubSeqProperties
  <2>4. Len(SubSeq(stack, 1, m)) = m /\ \A s \in 1..m : SubSeq(stack, 1, m)[s] = stack[s]
    BY <2>2, <2>3
  <2>5. QED
    BY <2>1, <2>4 DEF m
<1> HIDE DEF less
<1>2. ~IsOpening(k[j + 1])
  BY DEF IsOpening, IsClosing
<1>3. ASSUME NEW n \in OpenBy(k, b, j)
      PROVE  /\ Depth(k, b, n, j) \in Int
             /\ Depth(k, b, n, j + 1) = Depth(k, b, n, j) - 1
             /\ n \in OpenBy(k, b, j + 1) <=> Depth(k, b, n, j) > 1
  <2>1. n \in Int /\ n <= j + 1 /\ n # j + 1 /\ Depth(k, b, n, j) \in Int
    BY OpenIsDeep
  <2>2. Depth(k, b, n, j + 1) = Depth(k, b, n, j) - 1
    BY <1>2, <2>1, DepthStep
  <2>3. QED
    BY <2>1, <2>2, OpenByStep
<1>4. ASSUME NEW s \in 1..Len(less)
      PROVE  \E n \in OpenBy(k, b, j + 1) :
               /\ Depth(k, b, n, j + 1) = Len(less) - s + 1
               /\ less[s] = branch_addr(k[n])
  <2>1. s \in 1..Len(stack)
    BY <1>1
  <2>2. PICK n \in OpenBy(k, b, j) :
          Depth(k, b, n, j) = Len(stack) - s + 1 /\ stack[s] = branch_addr(k[n])
    BY <2>1 DEF StackHolds
  <2>3. QED
    BY <1>1, <1>3, <2>1, <2>2
<1>5. ASSUME NEW n \in OpenBy(k, b, j + 1) PROVE Depth(k, b, n, j + 1) <= Len(less)
  <2>1. n \in OpenBy(k, b, j)
    BY <1>2, OpenByStep
  <2>2. QED
    BY <1>1, <1>3, <2>1 DEF StackHolds
<1>6. QED
  BY <1>4, <1>5 DEF StackHolds, less

(* With nothing on the stack, nothing is open. *)
LEMMA EmptyHolds ==
  ASSUME NEW k, NEW b, NEW j \in Nat, StackHolds(k, b, j, <<>>)
  PROVE  OpenBy(k, b, j) = {}
<1> SUFFICES ASSUME NEW n \in OpenBy(k, b, j) PROVE FALSE
  OBVIOUS
<1>1. Depth(k, b, n, j) \in Int /\ Depth(k, b, n, j) > 0
  BY OpenIsDeep
<1>2. Depth(k, b, n, j) <= 0
  BY DEF StackHolds
<1>3. QED
  BY <1>1, <1>2

LEMMA PassHolds ==
  ASSUME NEW k, NEW b, NEW j \in Nat, NEW S, NEW stack \in Seq(S), StackHolds(k, b, j, stack),
         IsOpening(k[j + 1]) => k[j + 1].barrier # b,
         IsClosing(k[j + 1]) /\ k[j + 1].barrier = b => stack = <<>>
  PROVE  StackHolds(k, b, j + 1, stack)
<1>1. CASE stack = <<>>
  <2>1. OpenBy(k, b, j) = {}
    BY <1>1, EmptyHolds
  <2>2. OpenBy(k, b, j + 1) = {}
    BY <2>1, OpenByStep
  <2>3. QED
    BY <1>1, <2>2 DEF StackHolds
<1>2. CASE stack # <<>>
  <2>1. ASSUME NEW n \in OpenBy(k, b, j)
        PROVE  n \in OpenBy(k, b, j + 1) /\ Depth(k, b, n, j + 1) = Depth(k, b, n, j)
    <3>1. n \in Int /\ n <= j + 1 /\ Depth(k, b, n, j) \in Int /\ Depth(k, b, n, j) > 0
      BY OpenIsDeep
    <3>2. Depth(k, b, n, j + 1) = Depth(k, b, n, j)
      BY <1>2, <3>1, DepthStep
    <3>3. QED
      BY <3>1, <3>2, OpenByStep
  <2>2. \A n \in OpenBy(k, b, j + 1) : n \in OpenBy(k, b, j)
    BY OpenByStep
  <2>3. QED
    BY <2>1, <2>2 DEF StackHolds
<1>3. QED
  BY <1>1, <1>2

(* The brackets that the closing at j + 1 ends. *)
LEMMA BracketsEnd ==
  ASSUME NEW k, NEW j \in Nat, IsClosing(k[j + 1]), NEW n
  PROVE  n \in 1..(j + 1) /\ IsBracket(k, n, j + 1) <=>
           n \in OpenBy(k, k[j + 1].barrier, j) /\ Depth(k, k[j + 1].barrier, n, j) = 1
<1> DEFINE b == k[j + 1].barrier
<1>1. b = k[j + 1].barrier
  OBVIOUS
<1> HIDE DEF b
<1>2. ~IsOpening(k[j + 1])
  BY DEF IsOpening, IsClosing
<1>3. CASE n \in 1..j
  <2>1. n \in Int /\ j \in Int /\ n <= j + 1 /\ n..((j + 1) - 1) = n..j /\ n \in 1..(j + 1)
    BY <1>3
  <2>2. Depth(k, b, n, j + 1) = Depth(k, b, n, j) - 1 /\ Depth(k, b, n, j) \in Int
    BY <1>1, <1>2, <2>1, DepthStep, DepthIsInteger
  <2>3. Depth(k, b, n, j + 1) = 0 <=> Depth(k, b, n, j) = 1
    BY <2>2
  <2>4. IsBracket(k, n, j + 1) <=>
          /\ IsOpening(k[n]) /\ k[n].barrier = b /\ Depth(k, b, n, j + 1) = 0
          /\ \A p \in n..j : Depth(k, b, n, p) > 0
    BY <1>1, <2>1, Zenon DEF IsBracket
  <2>5. QED
    BY <1>1, <1>3, <2>1, <2>3, <2>4 DEF OpenBy
<1>4. CASE n \notin 1..j
  <2>1. n \in 1..(j + 1) => n = j + 1
    BY <1>4
  <2>2. QED
    BY <1>2, <1>4, <2>1 DEF OpenBy, IsBracket
<1>5. QED
  BY <1>3, <1>4

LEMMA CollectPairs == PairInv /\ (CollectBranchTarget \/ Collected) => PairInv'
<1> SUFFICES ASSUME PairInv, CollectBranchTarget \/ Collected PROVE PairInv'
  OBVIOUS
<1>1. IInv'
  BY CollectKeeps DEF PairInv
<1>2. /\ stage = "collect" /\ UNCHANGED <<kernel, stacks, bsync_rewrite>>
      /\ stacks = [b \in Barrier |-> <<>>] /\ DOMAIN bsync_rewrite = {}
  BY DEF CollectBranchTarget, Collected, PairInv, StacksUntouched
<1>3. StacksUntouched'
  BY <1>2 DEF StacksUntouched
<1>4. stage' = "pair" => i' = 1
  BY <1>2 DEF CollectBranchTarget, Collected
<1>5. StackInv'
  <2> SUFFICES ASSUME stage' = "pair", NEW b \in Barrier
               PROVE  StackHolds(kernel', b, i' - 1, stacks'[b])
    BY DEF StackInv
  <2>1. stacks'[b] = <<>> /\ i' - 1 = 0
    BY <1>2, <1>4
  <2>2. OpenBy(kernel', b, 0) = {}
    BY DEF OpenBy
  <2>3. QED
    BY <2>1, <2>2 DEF StackHolds
<1>6. Seen' = {}
  <2>1. DOMAIN kernel \subseteq Nat /\ \A m \in DOMAIN kernel : ~(m < 1)
    BY Places1 DEF PairInv
  <2>2. stage' \in {"collect", "pair"}
    BY DEF CollectBranchTarget, Collected
  <2>3. QED
    BY <1>2, <1>4, <2>1, <2>2 DEF Seen
<1>7. RewriteInv'
  BY <1>2, <1>6 DEF RewriteInv
<1>8. QED
  BY <1>1, <1>3, <1>5, <1>7 DEF PairInv

(* A step of the pairing, over one instruction: what it does to a barrier. *)
LEMMA InstructionPairs ==
  ASSUME PairInv, stage = "pair", i <= Len(kernel), i' = i + 1, kernel' = kernel,
         NEW b \in Barrier,
         \/ /\ IsOpening(Here) /\ Here.barrier = b
            /\ stacks'[b] = Append(stacks[b], branch_addr(Here))
         \/ /\ IsClosing(Here) /\ Here.barrier = b /\ stacks[b] # <<>>
            /\ stacks'[b] = SubSeq(stacks[b], 1, Len(stacks[b]) - 1)
         \/ /\ IsOpening(Here) => Here.barrier # b
            /\ IsClosing(Here) /\ Here.barrier = b => stacks[b] = <<>>
            /\ stacks'[b] = stacks[b]
  PROVE  StackHolds(kernel', b, i' - 1, stacks'[b])
<1> DEFINE j == i - 1
           stack == stacks[b]
<1>1. j \in Nat /\ j + 1 = i /\ i' - 1 = j + 1
  BY Places1 DEF PairInv
<1>2. stack \in Seq(Address) /\ kernel \in Seq(Instruction) /\ kernel \in Kernels
  BY Places1 DEF PairInv, IInv
<1>3. StackHolds(kernel, b, j, stack)
  BY DEF PairInv, StackInv
<1>4. Here = kernel[j + 1]
  BY <1>1 DEF Here
<1> HIDE DEF j, stack
<1>5. CASE /\ IsOpening(Here) /\ Here.barrier = b
           /\ stacks'[b] = Append(stacks[b], branch_addr(Here))
  <2>1. branch_addr(kernel[j + 1]) \in Address
    <3>1. j + 1 \in DOMAIN kernel
      BY <1>1, Places1 DEF PairInv
    <3>2. QED
      BY <1>2, <1>4, <1>5, <3>1, EmitAssumption DEF IsOpening
  <2> DEFINE a == branch_addr(kernel[j + 1])
  <2>2. a \in Address /\ a = branch_addr(kernel[j + 1])
    BY <2>1
  <2> HIDE DEF a
  <2>3. StackHolds(kernel, b, j + 1, Append(stack, a))
    BY <1>1, <1>2, <1>3, <1>4, <1>5, <2>2, PushHolds
  <2>4. QED
    BY <1>1, <1>4, <1>5, <2>2, <2>3 DEF stack
<1>6. CASE /\ IsClosing(Here) /\ Here.barrier = b /\ stacks[b] # <<>>
           /\ stacks'[b] = SubSeq(stacks[b], 1, Len(stacks[b]) - 1)
  <2>1. StackHolds(kernel, b, j + 1, SubSeq(stack, 1, Len(stack) - 1))
    BY <1>1, <1>2, <1>3, <1>4, <1>6, PopHolds DEF stack
  <2>2. QED
    BY <1>1, <1>6, <2>1 DEF stack
<1>7. CASE /\ IsOpening(Here) => Here.barrier # b
           /\ IsClosing(Here) /\ Here.barrier = b => stacks[b] = <<>>
           /\ stacks'[b] = stacks[b]
  <2>1. StackHolds(kernel, b, j + 1, stack)
    BY <1>1, <1>2, <1>3, <1>4, <1>7, PassHolds DEF stack
  <2>2. QED
    BY <1>1, <1>7, <2>1 DEF stack
<1>8. QED
  BY <1>5, <1>6, <1>7

LEMMA OpenPairs == PairInv /\ (Open \/ PassBy) => PairInv'
<1> SUFFICES ASSUME PairInv, Open \/ PassBy PROVE PairInv'
  OBVIOUS
<1>1. IInv'
  BY OpenKeeps, PairKeeps DEF PairInv
<1>2. /\ stage = "pair" /\ stage' = "pair" /\ i <= Len(kernel) /\ i' = i + 1
      /\ UNCHANGED <<kernel, bsync_rewrite>> /\ ~IsClosing(Here)
      /\ \/ /\ IsOpening(Here)
            /\ stacks' = [stacks EXCEPT ![Here.barrier] = Append(@, branch_addr(Here))]
         \/ ~IsOpening(Here) /\ stacks' = stacks
  BY DEF Open, PassBy, IsOpening, IsClosing
<1>3. StacksUntouched'
  BY <1>2 DEF StacksUntouched
<1>4. StackInv'
  <2>1. ASSUME NEW b \in Barrier PROVE StackHolds(kernel', b, i' - 1, stacks'[b])
    <3>1. stacks \in [Barrier -> Seq(Address)]
      BY Places1 DEF PairInv
    <3>2. \/ /\ IsOpening(Here) /\ Here.barrier = b
             /\ stacks'[b] = Append(stacks[b], branch_addr(Here))
          \/ (IsOpening(Here) => Here.barrier # b) /\ stacks'[b] = stacks[b]
      BY <1>2, <3>1
    <3>3. QED
      BY <1>2, <3>2, InstructionPairs
  <2>2. QED
    BY <2>1 DEF StackInv
<1>5. Seen' = Seen
  <2>1. i \in Nat /\ DOMAIN kernel \subseteq Nat
    BY Places1 DEF PairInv
  <2>2. \A m \in Nat : m < i + 1 <=> m < i \/ m = i
    BY <2>1
  <2>3. \A m \in DOMAIN kernel : IsClosing(kernel[m]) => m # i
    BY <1>2 DEF Here
  <2>4. QED
    BY <1>2, <2>1, <2>2, <2>3 DEF Seen
<1>6. RewriteInv'
  BY <1>2, <1>5 DEF RewriteInv, PairInv, ClosedWell, Starts, UniqueAddresses
<1>7. QED
  BY <1>1, <1>3, <1>4, <1>6 DEF PairInv

LEMMA ClosePairs == PairInv /\ Close => PairInv'
<1> SUFFICES ASSUME PairInv, Close PROVE PairInv'
  OBVIOUS
<1> DEFINE b == Here.barrier
           stack == stacks[b]
           j == i - 1
<1>1. IInv'
  BY CloseKeeps DEF PairInv
<1>2. /\ stage = "pair" /\ stage' = "pair" /\ i <= Len(kernel) /\ i' = i + 1
      /\ kernel' = kernel /\ IsClosing(Here) /\ ~IsOpening(Here)
      /\ stack = <<>> => stacks' = stacks /\ bsync_rewrite' = bsync_rewrite
      /\ stack # <<>> =>
           /\ stacks' = [stacks EXCEPT ![b] = SubSeq(@, 1, Len(@) - 1)]
           /\ bsync_rewrite' = Rewritten(Here.address, stack[Len(stack)])
  BY DEF Close, IsOpening, IsClosing
<1>3. StacksUntouched'
  BY <1>2 DEF StacksUntouched
<1>4. /\ i \in DOMAIN kernel /\ DOMAIN kernel \subseteq Nat /\ j \in Nat /\ j + 1 = i
      /\ Here = kernel[j + 1] /\ stacks \in [Barrier -> Seq(Address)]
      /\ b \in Barrier /\ stack \in Seq(Address)
  <2>1. i \in DOMAIN kernel /\ DOMAIN kernel \subseteq Nat /\ j \in Nat /\ j + 1 = i
    BY <1>2, Places1 DEF PairInv
  <2>2. stacks \in [Barrier -> Seq(Address)] /\ kernel \in Seq(Instruction)
    BY Places1 DEF PairInv
  <2>3. kernel[i] \in Instruction
    BY <2>1, <2>2
  <2>4. b \in Barrier
    BY <1>2, <2>3 DEF Instruction, IsClosing, Here
  <2>5. QED
    BY <2>1, <2>2, <2>4 DEF Here
<1> HIDE DEF j
<1>5. StackInv'
  <2>1. ASSUME NEW c \in Barrier PROVE StackHolds(kernel', c, i' - 1, stacks'[c])
    <3>1. CASE stack = <<>>
      <4>1. stacks'[c] = stacks[c] /\ (b = c => stacks[c] = <<>>)
        BY <1>2, <3>1
      <4>2. QED
        BY <1>2, <4>1, InstructionPairs
    <3>2. CASE stack # <<>>
      <4>1. stacks' = [stacks EXCEPT ![b] = SubSeq(@, 1, Len(@) - 1)]
        BY <1>2, <3>2
      <4>2. CASE b = c
        <5>1. stacks'[c] = SubSeq(stacks[c], 1, Len(stacks[c]) - 1) /\ stacks[c] # <<>>
          BY <1>4, <3>2, <4>1, <4>2
        <5>2. QED
          BY <1>2, <4>2, <5>1, InstructionPairs
      <4>3. CASE b # c
        <5>1. stacks'[c] = stacks[c]
          BY <1>4, <4>1, <4>3
        <5>2. QED
          BY <1>2, <4>3, <5>1, InstructionPairs
      <4>4. QED
        BY <4>2, <4>3
    <3>3. QED
      BY <3>1, <3>2
  <2>2. QED
    BY <2>1 DEF StackInv
<1>6. Seen' = Seen \cup {i} /\ i \notin Seen
  <2>1. i \in Nat /\ \A m \in Nat : m < i + 1 <=> m < i \/ m = i
    BY <1>4
  <2>2. QED
    BY <1>2, <1>4, <2>1 DEF Seen, Here
<1>7. \A n : n \in Starts(i) <=> n \in OpenBy(kernel, b, j) /\ Depth(kernel, b, n, j) = 1
  BY <1>2, <1>4, BracketsEnd DEF Starts
<1>8. StackHolds(kernel, b, j, stack)
  BY <1>2, <1>4 DEF PairInv, StackInv, j
<1>9. UniqueAddresses =>
        \A m \in Seen : m \in DOMAIN kernel /\ kernel[m].address # Here.address
  BY <1>4, <1>6 DEF UniqueAddresses, Seen, Here
<1>10. RewriteInv'
  <2>1. CASE stack = <<>>
    <3>1. Starts(i) = {}
      BY <1>4, <1>7, <1>8, <2>1, EmptyHolds
    <3>2. UniqueAddresses => Here.address \notin DOMAIN bsync_rewrite
      BY <1>9 DEF PairInv, RewriteInv
    <3>3. UniqueAddresses => ClosedWell(i)
      BY <3>1, <3>2 DEF ClosedWell, Here
    <3>4. QED
      BY <1>2, <1>6, <2>1, <3>3 DEF RewriteInv, PairInv, ClosedWell, Starts, UniqueAddresses
  <2>2. CASE stack # <<>>
    <3> DEFINE top == stack[Len(stack)]
               g == Rewritten(Here.address, top)
    <3>1. Len(stack) \in 1..Len(stack)
      <4>1. Len(stack) \in Nat /\ Len(stack) > 0
        BY <1>4, <2>2, EmptySeq
      <4>2. QED
        BY <4>1
    <3>2. PICK n \in OpenBy(kernel, b, j) :
            Depth(kernel, b, n, j) = Len(stack) - Len(stack) + 1 /\ top = branch_addr(kernel[n])
      BY <1>8, <3>1 DEF StackHolds
    <3>3. n \in Starts(i)
      BY <1>7, <3>1, <3>2
    <3>4. /\ DOMAIN g = DOMAIN bsync_rewrite \cup {Here.address}
          /\ \A x \in DOMAIN g : g[x] = IF x = Here.address THEN top ELSE bsync_rewrite[x]
      BY DEF Rewritten
    <3>5. bsync_rewrite' = g
      BY <1>2, <2>2
    <3>6. top = branch_addr(kernel[n])
      BY <3>2
    <3> HIDE DEF g, top
    <3>7. \A a \in DOMAIN g : \E m \in Seen \cup {i} : kernel[m].address = a
      BY <3>4 DEF PairInv, RewriteInv, Here
    <3>8. /\ kernel[i].address \in DOMAIN bsync_rewrite'
          /\ bsync_rewrite'[kernel[i].address] = branch_addr(kernel[n])
      BY <3>4, <3>5, <3>6 DEF Here
    <3>9. ASSUME UniqueAddresses, NEW m \in Seen PROVE ClosedWell(m)'
      <4>1. kernel[m].address # Here.address /\ ClosedWell(m)
        BY <1>9, <3>9 DEF PairInv, RewriteInv
      <4>2. /\ kernel[m].address \in DOMAIN bsync_rewrite' <=>
                 kernel[m].address \in DOMAIN bsync_rewrite
            /\ kernel[m].address \in DOMAIN bsync_rewrite =>
                 bsync_rewrite'[kernel[m].address] = bsync_rewrite[kernel[m].address]
        BY <3>4, <3>5, <4>1
      <4>3. Starts(m)' = Starts(m)
        BY <1>2 DEF Starts
      <4>4. QED
        BY <1>2, <4>1, <4>2, <4>3 DEF ClosedWell
    <3>10. ASSUME NEW e, e = i PROVE ClosedWell(e)'
      <4>1. n \in Starts(e)'
        BY <1>2, <3>3, <3>10 DEF Starts
      <4>2. /\ kernel'[e].address \in DOMAIN bsync_rewrite'
            /\ bsync_rewrite'[kernel'[e].address] = branch_addr(kernel'[n])
        BY <1>2, <3>8, <3>10
      <4>3. QED
        BY <4>1, <4>2 DEF ClosedWell
    <3>11. UniqueAddresses' => \A m \in Seen' : ClosedWell(m)'
      BY <1>2, <1>6, <3>9, <3>10 DEF UniqueAddresses
    <3>12. \A a \in DOMAIN bsync_rewrite' : \E m \in Seen' : kernel'[m].address = a
      BY <1>2, <1>6, <3>5, <3>7
    <3>13. QED
      BY <3>11, <3>12 DEF RewriteInv
  <2>3. QED
    BY <2>1, <2>2
<1>11. QED
  BY <1>1, <1>3, <1>5, <1>10 DEF PairInv

(* Nothing is paired after the pairing. *)
LEMMA LaterPairs ==
  /\ PairInv
  /\ \/ Paired \/ SkipInstruction \/ EmitInstruction \/ Emitted
     \/ (\E a \in left : EmitMissingLabel(a)) \/ Closed
  => PairInv'
<1> SUFFICES ASSUME PairInv,
                    \/ Paired \/ SkipInstruction \/ EmitInstruction \/ Emitted
                    \/ (\E a \in left : EmitMissingLabel(a)) \/ Closed
             PROVE  PairInv'
  OBVIOUS
<1>1. IInv'
  BY PairKeeps, SkipKeeps, EmitKeeps, LabelsKeep DEF PairInv
<1>2. /\ UNCHANGED <<kernel, stacks, bsync_rewrite>> /\ stage' \notin {"collect", "pair"}
      /\ stage # "collect" /\ (stage = "pair" => i > Len(kernel))
  BY DEF Paired, SkipInstruction, EmitInstruction, Emitted, EmitMissingLabel, Closed
<1>3. Seen' = Seen
  <2>1. Len(kernel) \in Nat /\ i \in Nat /\ DOMAIN kernel = 1..Len(kernel)
    BY Places1 DEF PairInv
  <2>2. stage = "pair" => \A m \in DOMAIN kernel : m < i
    BY <1>2, <2>1
  <2>3. QED
    BY <1>2, <2>2 DEF Seen
<1>4. StacksUntouched' /\ StackInv'
  BY <1>2 DEF StacksUntouched, StackInv
<1>5. RewriteInv'
  BY <1>2, <1>3 DEF RewriteInv, PairInv, ClosedWell, Starts, UniqueAddresses
<1>6. QED
  BY <1>1, <1>4, <1>5 DEF PairInv

LEMMA PairInitially == Init => PairInv
<1> SUFFICES ASSUME Init PROVE PairInv
  OBVIOUS
<1>1. IInv
  BY Initially
<1>2. stage = "collect" /\ stacks = [b \in Barrier |-> <<>>] /\ DOMAIN bsync_rewrite = {}
  <2>1. DOMAIN << >> = {}
    OBVIOUS
  <2>2. QED
    BY <2>1 DEF Init
<1>3. QED
  BY <1>1, <1>2 DEF PairInv, StacksUntouched, StackInv, RewriteInv, Seen

LEMMA PairStepwise == PairInv /\ [EmitNext]_emitVars => PairInv'
<1> SUFFICES ASSUME PairInv, [EmitNext]_emitVars PROVE PairInv'
  OBVIOUS
<1>1. CASE EmitNext
  BY <1>1, CollectPairs, OpenPairs, ClosePairs, LaterPairs DEF EmitNext, EmitStep
<1>2. CASE UNCHANGED emitVars
  <2>1. IInv'
    BY <1>2, Stepwise DEF PairInv
  <2>2. UNCHANGED <<kernel, stage, i, stacks, bsync_rewrite>>
    BY <1>2 DEF emitVars
  <2>3. StacksUntouched' /\ StackInv'
    BY <2>2 DEF PairInv, StacksUntouched, StackInv
  <2>4. RewriteInv'
    BY <2>2 DEF PairInv, RewriteInv, Seen, ClosedWell, Starts, UniqueAddresses
  <2>5. QED
    BY <2>1, <2>3, <2>4 DEF PairInv
<1>3. QED
  BY <1>1, <1>2

LEMMA PairedAsBrackets == PairInv => PairsAreBrackets
<1> SUFFICES ASSUME PairInv, stage \notin {"collect", "pair"}, UniqueAddresses,
                    NEW m \in DOMAIN kernel, IsClosing(kernel[m])
             PROVE  LET starts == {n \in 1..m : Bracket(n, m)}
                    IN  IF kernel[m].address \in DOMAIN bsync_rewrite
                        THEN \E n \in starts :
                               bsync_rewrite[kernel[m].address] = branch_addr(kernel[n])
                        ELSE starts = {}
  BY DEF PairsAreBrackets
<1>1. m \in Seen
  BY DEF Seen
<1>2. ClosedWell(m)
  BY <1>1 DEF PairInv, RewriteInv
<1>3. m \in Int
  BY Places1 DEF PairInv
<1>4. \A n \in 1..m : Bracket(n, m) <=> IsBracket(kernel, n, m)
  BY <1>3, BracketIs
<1>5. QED
  BY <1>2, <1>4 DEF ClosedWell, Starts

(* In a kernel whose addresses do not repeat, build_bssy_map gives a BSYNC *)
(* the target of the BSSY that opens the bracket it closes, and leaves it  *)
(* alone when it closes none.                                              *)
THEOREM BracketsArePaired == Spec => []PairsAreBrackets
<1>1. QED
  BY PairInitially, PairStepwise, PairedAsBrackets, PTL DEF Spec

-----------------------------------------------------------------------------
(***************************************************************************)
(* The inductive invariant of the text.  The lines that are no labels are  *)
(* those of the instructions emitted so far, in their order; the label of  *)
(* an emitted instruction stands just before its line; and an emitted      *)
(* instruction whose address is a target has its label.                    *)
(***************************************************************************)
LineWith(k, t, rewrite, n) ==
  CASE k[n].op = "BSSY"  -> Comment(n)
    [] k[n].op = "BSYNC" ->
         IF k[n].address \in DOMAIN rewrite
         THEN Line("bra", rewrite[k[n].address], pred_prefix(k[n].guard), n)
         ELSE Comment(n)
    [] OTHER -> translate_one(k[n], t, n)

TextLines(lines) == {p \in DOMAIN lines : lines[p].what # "label"}

Written ==
  {n \in DOMAIN kernel : /\ kernel[n].guard # "never" /\ stage \notin {"collect", "pair"}
                         /\ stage = "emit" => n < i}

TextIs(k, t, rewrite, lines, written) ==
  /\ \A p \in TextLines(lines) :
       lines[p].of \in written /\ lines[p] = LineWith(k, t, rewrite, lines[p].of)
  /\ \A n \in written : \E p \in TextLines(lines) : lines[p].of = n
  /\ \A p, q \in TextLines(lines) : p < q => lines[p].of < lines[q].of

LabelsPrecede(k, lines, labelled) ==
  \A p \in DOMAIN lines : lines[p].what = "label" /\ lines[p].to \in labelled =>
    p + 1 \in TextLines(lines) /\ k[lines[p + 1].of].address = lines[p].to

TargetsLabelled(k, written, targets, labelled) ==
  \A n \in written : k[n].address \in targets => k[n].address \in labelled

TextInv ==
  /\ PairInv
  /\ stage \in {"collect", "pair"} => out = <<>> /\ emitted_labels = {}
  /\ TextIs(kernel, types, bsync_rewrite, out, Written)
  /\ LabelsPrecede(kernel, out, emitted_labels)
  /\ TargetsLabelled(kernel, Written, branch_targets, emitted_labels)

(* What a line is of. *)
LEMMA LineIsOf ==
  ASSUME NEW k, NEW t, NEW rewrite, NEW n
  PROVE  /\ LineWith(k, t, rewrite, n).of = n
         /\ LineWith(k, t, rewrite, n).what # "label"
<1>1. ASSUME NEW guard, NEW ri PROVE call(ri, guard, n).of = n
  <2> DEFINE ops   == ri.dst \o ri.src
             first == 1 \in DOMAIN ops /\ IsAddress(ops[1])
             gpr   == 1 \in DOMAIN ops /\ ops[1].op = "Gpr"
             far   == ops[1].bits.of \div 4
             called == call(ri, guard, n)
  <2>1. called = CASE first -> Line("bra", far, guard, n)
                   [] gpr   -> Line("line", 0, guard, n)
                   [] OTHER -> Comment(n)
    BY DEF call
  <2>2. gpr => ~first
    BY DEF IsAddress
  <2> HIDE DEF first, gpr, far, called
  <2>3. called.of = n
    BY <2>1, <2>2 DEF Line, Comment
  <2>4. QED
    BY <2>3 DEF called
<1>2. translate_one(k[n], t, n).of = n
  <2> DEFINE inst   == k[n]
             ri     == to_rule_inst_from(inst, t, {})
             guard  == pred_prefix(inst.guard)
             to     == bra(ri)
             called == call(ri, guard, n)
             line   == translate_one(inst, t, n)
  <2>1. line = CASE inst.op \in {"BRA", "JMP"}  -> Line("bra", to, guard, n)
                 [] inst.op \in {"EXIT", "RET"} -> Line("ret", 0, guard, n)
                 [] inst.op = "CALL"            -> called
                 [] inst.op \in {"BRX", "JMX", "BRXU", "JMXU"} -> Comment(n)
                 [] OTHER                       -> Line("line", 0, guard, n)
    BY DEF translate_one
  <2>2. called.of = n
    BY <1>1
  <2> HIDE DEF inst, ri, guard, to, called, line
  <2>3. line.of = n
    BY <2>1, <2>2 DEF Line, Comment
  <2>4. QED
    BY <2>3 DEF line, inst
<1>3. translate_one(k[n], t, n).what # "label"
  BY LinesAreNoLabels
<1> DEFINE inst == k[n]
           body == translate_one(inst, t, n)
           to   == rewrite[inst.address]
           line == LineWith(k, t, rewrite, n)
<1>4. line = CASE inst.op = "BSSY"  -> Comment(n)
               [] inst.op = "BSYNC" ->
                    IF inst.address \in DOMAIN rewrite
                    THEN Line("bra", to, pred_prefix(inst.guard), n) ELSE Comment(n)
               [] OTHER -> body
  BY DEF LineWith
<1>5. body.of = n /\ body.what # "label"
  BY <1>2, <1>3
<1> HIDE DEF inst, body, to, line
<1>6. line.of = n /\ line.what # "label"
  BY <1>4, <1>5 DEF Line, Comment
<1>7. QED
  BY <1>6 DEF line

(* A label more, and a line more. *)
LEMMA TextLinesGrow ==
  ASSUME NEW S, NEW lines \in Seq(S), NEW line \in S
  PROVE  /\ TextLines(lines) \subseteq 1..Len(lines) /\ Len(lines) \in Nat
         /\ line.what = "label" => TextLines(Append(lines, line)) = TextLines(lines)
         /\ line.what # "label" =>
              TextLines(Append(lines, line)) = TextLines(lines) \cup {Len(lines) + 1}
         /\ \A p \in TextLines(lines) : Append(lines, line)[p] = lines[p]
         /\ Append(lines, line)[Len(lines) + 1] = line
<1> DEFINE next == Append(lines, line)
<1>1. /\ DOMAIN next = DOMAIN lines \cup {Len(lines) + 1} /\ Len(lines) + 1 \notin DOMAIN lines
      /\ \A n \in DOMAIN lines : next[n] = lines[n]
      /\ next[Len(lines) + 1] = line
      /\ DOMAIN lines = 1..Len(lines) /\ Len(lines) \in Nat
  BY AppendKeeps
<1> HIDE DEF next
<1>2. /\ line.what = "label" => TextLines(next) = TextLines(lines)
      /\ line.what # "label" => TextLines(next) = TextLines(lines) \cup {Len(lines) + 1}
  BY <1>1 DEF TextLines
<1>3. QED
  BY <1>1, <1>2 DEF next, TextLines

LEMMA LabelKeepsText ==
  ASSUME NEW S, NEW lines \in Seq(S), NEW line \in S, line.what = "label",
         NEW k, NEW t, NEW rewrite, NEW written, TextIs(k, t, rewrite, lines, written)
  PROVE  TextIs(k, t, rewrite, Append(lines, line), written)
<1> DEFINE next == Append(lines, line)
<1>1. /\ TextLines(next) = TextLines(lines)
      /\ \A p \in TextLines(lines) : next[p] = lines[p]
  BY TextLinesGrow
<1> HIDE DEF next
<1>2. TextIs(k, t, rewrite, next, written)
  BY <1>1 DEF TextIs
<1>3. QED
  BY <1>2 DEF next

LEMMA LineKeepsText ==
  ASSUME NEW S, NEW lines \in Seq(S), NEW n \in Int,
         NEW k, NEW t, NEW rewrite, LineWith(k, t, rewrite, n) \in S,
         NEW written, TextIs(k, t, rewrite, lines, written),
         \A m \in written : m \in Int /\ m < n
  PROVE  TextIs(k, t, rewrite, Append(lines, LineWith(k, t, rewrite, n)), written \cup {n})
<1> DEFINE line == LineWith(k, t, rewrite, n)
           next == Append(lines, line)
           last == Len(lines) + 1
<1>1. line.of = n /\ line.what # "label" /\ line = LineWith(k, t, rewrite, n) /\ line \in S
  BY LineIsOf
<1> HIDE DEF line
<1>2. /\ TextLines(next) = TextLines(lines) \cup {last}
      /\ \A p \in TextLines(lines) : next[p] = lines[p] /\ p \in Int /\ p < last
      /\ next[last] = line /\ last \in Int
  BY <1>1, TextLinesGrow
<1> HIDE DEF next, last
<1>3. \A p \in TextLines(next) : next[p].of \in written \cup {n}
                                 /\ next[p] = LineWith(k, t, rewrite, next[p].of)
  BY <1>1, <1>2 DEF TextIs
<1>4. \A m \in written \cup {n} : \E p \in TextLines(next) : next[p].of = m
  BY <1>1, <1>2 DEF TextIs
<1>5. ASSUME NEW p \in TextLines(next), NEW q \in TextLines(next), p < q
      PROVE  next[p].of < next[q].of
  <2>1. p \in TextLines(lines)
    BY <1>2, <1>5
  <2>2. next[p].of \in written /\ next[p].of = lines[p].of
    BY <1>2, <2>1 DEF TextIs
  <2>3. CASE q = last
    BY <1>1, <1>2, <2>2, <2>3
  <2>4. CASE q \in TextLines(lines)
    BY <1>2, <1>5, <2>1, <2>2, <2>4 DEF TextIs
  <2>5. QED
    BY <1>2, <2>3, <2>4
<1>6. TextIs(k, t, rewrite, next, written \cup {n})
  BY <1>3, <1>4, <1>5 DEF TextIs
<1>7. QED
  BY <1>6 DEF next, line

(* Labels stay before their lines. *)
LEMMA LinePrecedes ==
  ASSUME NEW S, NEW lines \in Seq(S), NEW line \in S, line.what # "label",
         NEW k, NEW labelled, LabelsPrecede(k, lines, labelled)
  PROVE  LabelsPrecede(k, Append(lines, line), labelled)
<1> DEFINE next == Append(lines, line)
           last == Len(lines) + 1
<1>1. /\ DOMAIN next = DOMAIN lines \cup {last} /\ next[last] = line
      /\ \A p \in DOMAIN lines : next[p] = lines[p]
  BY AppendKeeps
<1>2. TextLines(next) = TextLines(lines) \cup {last} /\ TextLines(lines) \subseteq DOMAIN lines
  BY TextLinesGrow DEF TextLines
<1> HIDE DEF next, last
<1>3. LabelsPrecede(k, next, labelled)
  BY <1>1, <1>2 DEF LabelsPrecede
<1>4. QED
  BY <1>3 DEF next

LEMMA LateLabelPrecedes ==
  ASSUME NEW S, NEW lines \in Seq(S), NEW line \in S, NEW k, NEW labelled,
         line.to \notin labelled, line.what = "label", LabelsPrecede(k, lines, labelled)
  PROVE  LabelsPrecede(k, Append(lines, line), labelled)
<1> DEFINE next == Append(lines, line)
           last == Len(lines) + 1
<1>1. /\ DOMAIN next = DOMAIN lines \cup {last} /\ next[last] = line
      /\ \A p \in DOMAIN lines : next[p] = lines[p]
  BY AppendKeeps
<1>2. TextLines(next) = TextLines(lines) /\ TextLines(lines) \subseteq DOMAIN lines
  BY TextLinesGrow DEF TextLines
<1> HIDE DEF next, last
<1>3. LabelsPrecede(k, next, labelled)
  BY <1>1, <1>2 DEF LabelsPrecede
<1>4. QED
  BY <1>3 DEF next

LEMMA LabelAndLinePrecede ==
  ASSUME NEW S, NEW lines \in Seq(S), NEW label \in S, NEW line \in S, NEW k, NEW labelled,
         \A p \in DOMAIN lines : lines[p].what = "label" => lines[p].to \in labelled,
         line.what # "label", k[line.of].address = label.to,
         LabelsPrecede(k, lines, labelled)
  PROVE  LabelsPrecede(k, Append(Append(lines, label), line), labelled \cup {label.to})
<1> DEFINE head == Append(lines, label)
           next == Append(head, line)
           last == Len(lines) + 1
           end  == Len(head) + 1
<1>1. /\ DOMAIN head = DOMAIN lines \cup {last} /\ head[last] = label
      /\ \A p \in DOMAIN lines : head[p] = lines[p]
      /\ head \in Seq(S) /\ Len(head) = last
  <2>1. Len(head) = last
    BY AppendProperties
  <2>2. QED
    BY <2>1, AppendKeeps
<1> HIDE DEF head, last
<1>2. /\ DOMAIN next = DOMAIN head \cup {end} /\ next[end] = line
      /\ \A p \in DOMAIN head : next[p] = head[p]
      /\ end \in TextLines(next)
  BY <1>1, AppendKeeps DEF TextLines
<1>3. end = last + 1
  BY <1>1
<1> HIDE DEF next, end
<1>4. \A p \in TextLines(lines) : p \in TextLines(next) /\ next[p] = lines[p]
  BY <1>1, <1>2 DEF TextLines
<1>5. LabelsPrecede(k, next, labelled \cup {label.to})
  BY <1>1, <1>2, <1>3, <1>4 DEF LabelsPrecede
<1>6. QED
  BY <1>5 DEF next, head

LEMMA EmptyText == PairInv /\ out = <<>> /\ emitted_labels = {} /\ Written = {} => TextInv
<1>1. DOMAIN << >> = {}
  OBVIOUS
<1>2. QED
  BY <1>1 DEF TextInv, TextIs, TextLines, LabelsPrecede, TargetsLabelled

LEMMA TextInitially == Init => TextInv
<1>1. Init => Written = {} /\ out = <<>> /\ emitted_labels = {}
  BY DEF Init, Written
<1>2. QED
  BY <1>1, PairInitially, EmptyText

LEMMA PairingWritesNothing ==
  TextInv /\ (CollectBranchTarget \/ Collected \/ Open \/ Close \/ PassBy \/ Paired) => TextInv'
<1> SUFFICES ASSUME TextInv,
                    CollectBranchTarget \/ Collected \/ Open \/ Close \/ PassBy \/ Paired
             PROVE  TextInv'
  OBVIOUS
<1>1. PairInv'
  BY CollectPairs, OpenPairs, ClosePairs, LaterPairs DEF TextInv
<1>2. /\ stage \in {"collect", "pair"} /\ UNCHANGED <<kernel, out, emitted_labels>>
      /\ \/ stage' \in {"collect", "pair"}
         \/ stage' = "emit" /\ i' = 1
  BY DEF CollectBranchTarget, Collected, Open, Close, PassBy, Paired
<1>3. out' = <<>> /\ emitted_labels' = {}
  BY <1>2 DEF TextInv
<1>4. Written' = {}
  <2>1. DOMAIN kernel = 1..Len(kernel)
    BY Places1 DEF TextInv, PairInv
  <2>2. \A n \in DOMAIN kernel : ~(n < 1)
    BY <2>1
  <2>3. QED
    BY <1>2, <2>2 DEF Written
<1>5. (PairInv /\ out = <<>> /\ emitted_labels = {} /\ Written = {} => TextInv)'
  BY EmptyText, PTL
<1>6. QED
  BY <1>1, <1>3, <1>4, <1>5

(* Nothing is written, and nothing of what was is taken back. *)
LEMMA SameTextStays ==
  TextInv /\ (SkipInstruction \/ Emitted \/ Closed \/ UNCHANGED emitVars) => TextInv'
<1> SUFFICES ASSUME TextInv, SkipInstruction \/ Emitted \/ Closed \/ UNCHANGED emitVars
             PROVE  TextInv'
  OBVIOUS
<1>1. PairInv'
  BY LaterPairs, PairStepwise DEF TextInv
<1>2. /\ UNCHANGED <<kernel, types, bsync_rewrite, out, branch_targets, emitted_labels>>
      /\ stage' \in {"collect", "pair"} => stage \in {"collect", "pair"}
  BY DEF SkipInstruction, Emitted, Closed, emitVars
<1>3. /\ i \in Nat /\ DOMAIN kernel \subseteq Nat /\ DOMAIN kernel = 1..Len(kernel)
      /\ Len(kernel) \in Nat
  BY Places1 DEF TextInv, PairInv
<1>4. Written' = Written
  <2>1. CASE SkipInstruction
    <3>1. /\ stage = "emit" /\ stage' = "emit" /\ i' = i + 1 /\ kernel[i].guard = "never"
      BY <2>1 DEF SkipInstruction, Here
    <3>2. \A n \in Nat : n < i + 1 <=> n < i \/ n = i
      BY <1>3
    <3>3. QED
      BY <1>2, <1>3, <3>1, <3>2 DEF Written
  <2>2. CASE Emitted
    <3>1. stage = "emit" /\ stage' = "labels" /\ i > Len(kernel)
      BY <2>2 DEF Emitted
    <3>2. \A n \in DOMAIN kernel : n < i
      BY <1>3, <3>1
    <3>3. QED
      BY <1>2, <3>1, <3>2 DEF Written
  <2>3. CASE Closed
    BY <2>3 DEF Closed, Written
  <2>4. CASE UNCHANGED emitVars
    BY <2>4 DEF emitVars, Written
  <2>5. QED
    BY <2>1, <2>2, <2>3, <2>4
<1> HIDE DEF Written
<1>5. QED
  BY <1>1, <1>2, <1>4 DEF TextInv

LEMMA LateLabelKeepsText == TextInv /\ (\E a \in left : EmitMissingLabel(a)) => TextInv'
<1> SUFFICES ASSUME TextInv, NEW a \in left, EmitMissingLabel(a) PROVE TextInv'
  OBVIOUS
<1>1. PairInv'
  BY LaterPairs DEF TextInv
<1>2. /\ UNCHANGED <<kernel, types, bsync_rewrite, branch_targets, emitted_labels, i>>
      /\ stage = "labels" /\ stage' = "labels"
      /\ out' = IF a \in emitted_labels THEN out ELSE Append(out, Label(a))
  BY DEF EmitMissingLabel
<1>3. Written' = Written
  BY <1>2 DEF Written
<1>4. out \in Seq(OutLine) /\ a \in Address
  BY DEF TextInv, PairInv, IInv, TypeOK
<1> DEFINE label == Label(a)
<1>5. label \in OutLine /\ label.what = "label" /\ label.to = a
  BY <1>4 DEF Label, OutLine
<1> HIDE DEF label, Written
<1>6. /\ TextIs(kernel, types, bsync_rewrite, out, Written)
      /\ LabelsPrecede(kernel, out, emitted_labels)
      /\ TargetsLabelled(kernel, Written, branch_targets, emitted_labels)
  BY DEF TextInv
<1>7. CASE a \in emitted_labels
  BY <1>1, <1>2, <1>3, <1>6, <1>7 DEF TextInv
<1>8. CASE a \notin emitted_labels
  <2>1. TextIs(kernel, types, bsync_rewrite, Append(out, label), Written)
    BY <1>4, <1>5, <1>6, LabelKeepsText
  <2>2. LabelsPrecede(kernel, Append(out, label), emitted_labels)
    BY <1>4, <1>5, <1>6, <1>8, LateLabelPrecedes
  <2>3. QED
    BY <1>1, <1>2, <1>3, <1>6, <1>8, <2>1, <2>2 DEF TextInv, label
<1>9. QED
  BY <1>7, <1>8

LEMMA EmissionKeepsText == TextInv /\ EmitInstruction => TextInv'
<1> SUFFICES ASSUME TextInv, EmitInstruction PROVE TextInv'
  OBVIOUS
<1> DEFINE a     == Here.address
           label == Label(a)
           head  == IF Labelled THEN Append(out, label) ELSE out
           line  == LineWith(kernel, types, bsync_rewrite, i)
           more  == IF Labelled THEN {a} ELSE {}
<1>1. PairInv' /\ IInv
  BY LaterPairs DEF TextInv, PairInv
<1>2. /\ UNCHANGED <<kernel, types, bsync_rewrite, branch_targets>>
      /\ stage = "emit" /\ stage' = "emit" /\ i <= Len(kernel) /\ i' = i + 1
      /\ kernel[i].guard # "never"
      /\ out' = Append(head, LineOf(Here)) /\ emitted_labels' = emitted_labels \cup more
  BY DEF EmitInstruction, Here
<1>3. LineOf(Here) = line
  BY DEF LineOf, LineWith, Here
<1>4. line \in OutLine /\ line.what # "label" /\ line.of = i
  BY <1>1, <1>2, <1>3, LineOfIsGood, LineIsOf
<1>5. /\ i \in Nat /\ i \in DOMAIN kernel /\ DOMAIN kernel \subseteq Nat
      /\ out \in Seq(OutLine) /\ branch_targets \subseteq Address
  BY <1>1, <1>2, Places1 DEF IInv, TypeOK
<1>6. Written' = Written \cup {i} /\ \A m \in Written : m \in Int /\ m < i
  <2>1. \A n \in Nat : n < i + 1 <=> n < i \/ n = i
    BY <1>5
  <2>2. QED
    BY <1>2, <1>5, <2>1 DEF Written
<1>7. /\ TextIs(kernel, types, bsync_rewrite, out, Written)
      /\ LabelsPrecede(kernel, out, emitted_labels)
      /\ TargetsLabelled(kernel, Written, branch_targets, emitted_labels)
  BY DEF TextInv
<1>8. \A p \in DOMAIN out : out[p].what = "label" => out[p].to \in emitted_labels
  BY <1>1, <1>2 DEF IInv, OutputInv, LinesAreGood, Visited
<1>9. a = kernel[line.of].address
  BY <1>4 DEF Here
<1>10. /\ Labelled => a \in Address
       /\ a \in branch_targets => a \in emitted_labels \cup more
  BY <1>5 DEF Labelled
<1>11. label.what = "label" /\ label.to = a /\ (Labelled => label \in OutLine)
  BY <1>10, EmitAssumption DEF Label, OutLine
<1> HIDE DEF a, label, Written
<1>12. TextIs(kernel, types, bsync_rewrite, out', Written')
  <2>1. head \in Seq(OutLine) /\ TextIs(kernel, types, bsync_rewrite, head, Written)
    <3>1. CASE Labelled
      BY <1>5, <1>7, <1>11, <3>1, LabelKeepsText, AppendKeeps
    <3>2. CASE ~Labelled
      BY <1>5, <1>7, <3>2
    <3>3. QED
      BY <3>1, <3>2
  <2> HIDE DEF head
  <2>2. TextIs(kernel, types, bsync_rewrite, Append(head, line), Written \cup {i})
    BY <1>4, <1>5, <1>6, <2>1, LineKeepsText
  <2>3. QED
    BY <1>2, <1>3, <1>6, <2>2
<1> HIDE DEF line
<1>13. LabelsPrecede(kernel, out', emitted_labels')
  <2>1. CASE Labelled
    <3>1. LabelsPrecede(kernel, Append(Append(out, label), line), emitted_labels \cup {label.to})
      BY <1>4, <1>5, <1>7, <1>8, <1>9, <1>11, <2>1, LabelAndLinePrecede
    <3>2. QED
      BY <1>2, <1>3, <1>11, <2>1, <3>1
  <2>2. CASE ~Labelled
    <3>1. LabelsPrecede(kernel, Append(out, line), emitted_labels)
      BY <1>4, <1>5, <1>7, LinePrecedes
    <3>2. QED
      BY <1>2, <1>3, <2>2, <3>1
  <2>3. QED
    BY <2>1, <2>2
<1>14. TargetsLabelled(kernel, Written', branch_targets, emitted_labels')
  BY <1>2, <1>6, <1>7, <1>10 DEF TargetsLabelled, a, Here
<1>15. QED
  BY <1>1, <1>2, <1>12, <1>13, <1>14 DEF TextInv

LEMMA TextStepwise == TextInv /\ [EmitNext]_emitVars => TextInv'
<1>1. QED
  BY PairingWritesNothing, SameTextStays, LateLabelKeepsText, EmissionKeepsText
  DEF EmitNext, EmitStep

-----------------------------------------------------------------------------
(* Where a thread of the finished text comes to. *)
Rest(lines, p) == {m \in p..Len(lines) : lines[m].what # "label"}
EffectiveFrom(n) == {m \in n..Len(kernel) : kernel[m].guard # "never"}
ComingAt(lines, end, p) ==
  IF Rest(lines, p) = {} THEN end ELSE lines[First(Rest(lines, p))].of

AllWritten == TextInv /\ stage \in {"labels", "done"}

LEMMA TextOfAll ==
  ASSUME AllWritten
  PROVE  /\ out \in Seq(OutLine) /\ Len(out) \in Nat /\ TextLines(out) \subseteq 1..Len(out)
         /\ Len(kernel) \in Nat /\ DOMAIN kernel = 1..Len(kernel)
         /\ Effective \subseteq 1..Len(kernel)
         /\ \A q \in TextLines(out) :
              /\ out[q].of \in Effective
              /\ out[q] = LineWith(kernel, types, bsync_rewrite, out[q].of)
         /\ \A n \in Effective : \E q \in TextLines(out) : out[q].of = n
         /\ \A q, r \in TextLines(out) : q < r => out[q].of < out[r].of
         /\ \A q : q \in TextLines(out) <=> q \in 1..Len(out) /\ out[q].what # "label"
<1>1. out \in Seq(OutLine) /\ Len(kernel) \in Nat /\ DOMAIN kernel = 1..Len(kernel)
  BY Places1 DEF AllWritten, TextInv, PairInv, IInv, TypeOK
<1>2. DOMAIN out = 1..Len(out) /\ Len(out) \in Nat
  BY <1>1
<1>3. Written = Effective
  BY DEF AllWritten, Written, Effective
<1>4. TextIs(kernel, types, bsync_rewrite, out, Effective)
  BY <1>3 DEF AllWritten, TextInv
<1>5. QED
  BY <1>1, <1>2, <1>4 DEF TextIs, TextLines, Effective

LEMMA RestIsText ==
  ASSUME AllWritten, NEW p \in 1..(Len(out) + 1)
  PROVE  \A q : q \in Rest(out, p) <=> q \in TextLines(out) /\ q >= p
<1>1. Len(out) \in Nat /\ \A q : q \in TextLines(out) <=> q \in 1..Len(out) /\ out[q].what # "label"
  BY TextOfAll
<1>2. \A q : q \in p..Len(out) <=> q \in 1..Len(out) /\ q >= p
  BY <1>1
<1>3. QED
  BY <1>1, <1>2 DEF Rest

LEMMA EffectiveIs ==
  ASSUME AllWritten, NEW n \in Nat \ {0}
  PROVE  \A m : m \in EffectiveFrom(n) <=> m \in Effective /\ m >= n
<1>1. Len(kernel) \in Nat /\ DOMAIN kernel = 1..Len(kernel)
  BY TextOfAll
<1>2. \A m : m \in n..Len(kernel) <=> m \in 1..Len(kernel) /\ m >= n
  BY <1>1
<1>3. QED
  BY <1>1, <1>2 DEF EffectiveFrom, Effective

LEMMA FromIs ==
  ASSUME NEW n
  PROVE  From(n) = IF EffectiveFrom(n) = {} THEN Ended ELSE First(EffectiveFrom(n))
BY DEF From, EffectiveFrom

(* Lines from p on are those of the instructions from n on. *)
LEMMA ComingIsFrom ==
  ASSUME AllWritten, NEW p \in 1..(Len(out) + 1), NEW n \in Nat \ {0},
         \A q \in TextLines(out) : q >= p <=> out[q].of >= n
  PROVE  ComingAt(out, Ended, p) = From(n)
<1> DEFINE R == Rest(out, p)
           E == EffectiveFrom(n)
<1>1. \A q : q \in R <=> q \in TextLines(out) /\ q >= p
  BY RestIsText
<1>2. \A m : m \in E <=> m \in Effective /\ m >= n
  BY EffectiveIs
<1>3. /\ ComingAt(out, Ended, p) = IF R = {} THEN Ended ELSE out[First(R)].of
      /\ From(n) = IF E = {} THEN Ended ELSE First(E)
  BY FromIs DEF ComingAt
<1> HIDE DEF R, E
<1>4. /\ \A q \in R : out[q].of \in E
      /\ \A m \in E : \E q \in R : out[q].of = m
  BY <1>1, <1>2, TextOfAll
<1>5. CASE R = {}
  <2>1. E = {}
    BY <1>4, <1>5
  <2>2. QED
    BY <1>3, <1>5, <2>1
<1>6. CASE R # {}
  <2>1. E # {}
    BY <1>4, <1>6
  <2>2. R \subseteq Nat /\ E \subseteq Nat
    BY <1>1, <1>2, TextOfAll
  <2> DEFINE f == First(R)
             g == First(E)
  <2>3. f \in R /\ \A q \in R : f <= q
    BY <1>6, <2>2, FirstIsLeast
  <2>4. g \in E /\ \A m \in E : g <= m
    BY <2>1, <2>2, FirstIsLeast
  <2> HIDE DEF f, g
  <2>5. PICK q \in R : out[q].of = g
    BY <1>4, <2>4
  <2>6. f <= q /\ g <= out[f].of /\ f \in Nat /\ q \in Nat /\ g \in Nat /\ out[f].of \in Nat
    BY <1>4, <2>2, <2>3, <2>4
  <2>7. f < q => out[f].of < out[q].of
    BY <1>1, <2>3, TextOfAll
  <2>8. f = q
    BY <2>5, <2>6, <2>7
  <2>9. QED
    BY <1>3, <1>6, <2>1, <2>5, <2>8 DEF f, g
<1>7. QED
  BY <1>5, <1>6

(* After the line of an instruction come the lines of the next ones. *)
LEMMA NextLine ==
  ASSUME AllWritten, NEW p \in TextLines(out)
  PROVE  /\ ComingAt(out, Ended, p + 1) = From(out[p].of + 1)
         /\ p + 1 \in 1..(Len(out) + 1)
<1> DEFINE n == out[p].of
<1>1. /\ Len(out) \in Nat /\ p \in 1..Len(out) /\ TextLines(out) \subseteq Nat
      /\ Len(kernel) \in Nat /\ n \in 1..Len(kernel)
      /\ \A q \in TextLines(out) : out[q].of \in 1..Len(kernel)
      /\ \A q, r \in TextLines(out) : q < r => out[q].of < out[r].of
  BY TextOfAll
<1>2. p + 1 \in 1..(Len(out) + 1) /\ n + 1 \in Nat \ {0}
  BY <1>1
<1>3. ASSUME NEW q \in TextLines(out) PROVE q >= p + 1 <=> out[q].of >= n + 1
  <2>1. q \in Nat /\ p \in Nat /\ out[q].of \in Nat /\ n \in Nat
    BY <1>1
  <2>2. CASE q = p
    BY <2>1, <2>2
  <2>3. CASE q < p
    <3>1. out[q].of < n
      BY <1>1, <2>3
    <3>2. QED
      BY <2>1, <2>3, <3>1
  <2>4. CASE p < q
    <3>1. n < out[q].of
      BY <1>1, <2>4
    <3>2. QED
      BY <2>1, <2>4, <3>1
  <2>5. QED
    BY <2>1, <2>2, <2>3, <2>4
<1> HIDE DEF n
<1>4. ComingAt(out, Ended, p + 1) = From(n + 1)
  BY <1>2, <1>3, ComingIsFrom
<1>5. QED
  BY <1>2, <1>4 DEF n

LEMMA FirstLine ==
  ASSUME AllWritten
  PROVE  ComingAt(out, Ended, 1) = From(1)
<1>1. /\ Len(out) \in Nat /\ TextLines(out) \subseteq 1..Len(out) /\ Len(kernel) \in Nat
      /\ \A q \in TextLines(out) : out[q].of \in 1..Len(kernel)
  BY TextOfAll
<1>2. 1 \in 1..(Len(out) + 1) /\ 1 \in Nat \ {0}
  BY <1>1
<1>3. \A q \in TextLines(out) : q >= 1 <=> out[q].of >= 1
  BY <1>1
<1>4. QED
  BY <1>2, <1>3, ComingIsFrom

LEMMA LastLine ==
  ASSUME AllWritten
  PROVE  ComingAt(out, Ended, Len(out) + 1) = Ended
<1>1. Len(out) \in Nat
  BY TextOfAll
<1>2. Rest(out, Len(out) + 1) = {}
  BY <1>1 DEF Rest
<1>3. QED
  BY <1>2 DEF ComingAt

(* A label is nothing to come to. *)
LEMMA LabelPassed ==
  ASSUME AllWritten, NEW p \in 1..Len(out), out[p].what = "label"
  PROVE  /\ ComingAt(out, Ended, p) = ComingAt(out, Ended, p + 1)
         /\ p + 1 \in 1..(Len(out) + 1)
<1>1. Len(out) \in Nat /\ p + 1 \in 1..(Len(out) + 1) /\ p \in 1..(Len(out) + 1)
  BY TextOfAll
<1>2. p \notin TextLines(out) /\ TextLines(out) \subseteq Nat
  BY TextOfAll
<1>3. \A q \in TextLines(out) : q >= p <=> q >= p + 1
  BY <1>2
<1>4. Rest(out, p) = Rest(out, p + 1)
  BY <1>1, <1>3, RestIsText
<1>5. QED
  BY <1>1, <1>4 DEF ComingAt

(* The line a thread is at is the line it comes to. *)
LEMMA LineReached ==
  ASSUME AllWritten, NEW p \in TextLines(out)
  PROVE  ComingAt(out, Ended, p) = out[p].of
<1>1. p \in 1..(Len(out) + 1) /\ p \in Nat /\ TextLines(out) \subseteq Nat
  BY TextOfAll
<1> DEFINE R == Rest(out, p)
<1>2. \A q : q \in R <=> q \in TextLines(out) /\ q >= p
  BY <1>1, RestIsText
<1>3. ComingAt(out, Ended, p) = IF R = {} THEN Ended ELSE out[First(R)].of
  BY DEF ComingAt
<1> HIDE DEF R
<1>4. p \in R /\ R \subseteq Nat
  BY <1>1, <1>2
<1>5. First(R) \in R /\ First(R) <= p
  BY <1>4, FirstIsLeast
<1>6. First(R) = p
  BY <1>1, <1>2, <1>4, <1>5
<1>7. QED
  BY <1>3, <1>4, <1>6

(* A branch to the address of an effective instruction comes to it, in the *)
(* kernel and in the text.                                                 *)
LEMMA JumpArrives ==
  ASSUME AllWritten, stage = "done", UniqueAddresses, NEW n \in Effective,
         kernel[n].address \in branch_targets
  PROVE  /\ At(kernel[n].address) = n
         /\ First(LabelsAt(kernel[n].address)) \in 1..(Len(out) + 1)
         /\ ComingAt(out, Ended, First(LabelsAt(kernel[n].address))) = n
<1> DEFINE a == kernel[n].address
           labels == LabelsAt(a)
           p == First(labels)
<1>0. a = kernel[n].address
  OBVIOUS
<1>1. Len(kernel) \in Nat /\ DOMAIN kernel = 1..Len(kernel) /\ n \in 1..Len(kernel)
      /\ Len(out) \in Nat /\ out \in Seq(OutLine) /\ DOMAIN out = 1..Len(out)
  BY TextOfAll
<1>2. LinesAreGood(out, Visited, branch_targets) /\ left = {}
  BY DEF AllWritten, TextInv, PairInv, IInv, OutputInv
<1> HIDE DEF a, p
<1>3. labels # {} /\ labels \subseteq Nat
  BY <1>0, <1>1, <1>2 DEF LinesAreGood, LabelsAt, Visited
<1>4. p \in labels
  <2> HIDE DEF labels
  <2>1. QED
    BY <1>3, FirstIsLeast DEF p
<1>5. p \in 1..Len(out) /\ out[p].what = "label" /\ out[p].to = a
  BY <1>1, <1>4 DEF LabelsAt
<1>6. a \in emitted_labels
  <2>1. n \in Written
    BY DEF Written, Effective
  <2>2. QED
    BY <1>0, <2>1 DEF AllWritten, TextInv, TargetsLabelled
<1>7. p + 1 \in TextLines(out) /\ kernel[out[p + 1].of].address = a
  BY <1>1, <1>5, <1>6 DEF AllWritten, TextInv, LabelsPrecede
<1>8. out[p + 1].of = n
  <2>1. out[p + 1].of \in DOMAIN kernel
    BY <1>1, <1>7, TextOfAll
  <2>2. QED
    BY <1>0, <1>1, <1>7, <2>1 DEF UniqueAddresses
<1>9. ComingAt(out, Ended, p) = n
  BY <1>5, <1>7, <1>8, LabelPassed, LineReached
<1>10. At(a) = n
  <2> DEFINE places == {m \in DOMAIN kernel : kernel[m].address = a}
             E == EffectiveFrom(n)
  <2>1. places = {n}
    BY <1>0, <1>1 DEF UniqueAddresses
  <2>2. At(a) = IF places = {} THEN Ended ELSE From(First(places))
    BY DEF At
  <2> HIDE DEF places
  <2>3. First(places) = n
    <3>1. places \subseteq Nat
      BY <1>1, <2>1
    <3>2. First(places) \in places
      BY <2>1, <3>1, FirstIsLeast
    <3>3. QED
      BY <2>1, <3>2
  <2>4. \A m : m \in E <=> m \in Effective /\ m >= n
    BY <1>1, EffectiveIs
  <2>5. From(n) = IF E = {} THEN Ended ELSE First(E)
    BY FromIs
  <2> HIDE DEF E
  <2>6. n \in E /\ E \subseteq Nat
    <3>1. Effective \subseteq 1..Len(kernel)
      BY TextOfAll
    <3>2. \A m \in Effective : m \in Nat
      BY <1>1, <3>1
    <3>3. n >= n
      BY <1>1
    <3>4. QED
      BY <2>4, <3>2, <3>3
  <2>7. First(E) \in E /\ First(E) <= n
    BY <2>6, FirstIsLeast
  <2>8. First(E) = n
    <3>1. First(E) >= n /\ First(E) \in Nat /\ n \in Nat
      BY <2>4, <2>6, <2>7
    <3>2. QED
      BY <2>7, <3>1
  <2>9. QED
    BY <2>1, <2>2, <2>3, <2>5, <2>6, <2>8
<1>11. p \in 1..(Len(out) + 1)
  BY <1>1, <1>5
<1>12. QED
  BY <1>9, <1>10, <1>11 DEF a, p

-----------------------------------------------------------------------------
(***************************************************************************)
(* Brackets of a kernel in which a barrier is not opened again before it   *)
(* is closed: none is opened inside, and a closing ends one bracket.       *)
(***************************************************************************)
Openings(b, n, m) == {k \in n..m : IsOpening(kernel[k]) /\ kernel[k].barrier = b}
Closings(b, n, m) == {k \in n..m : IsClosing(kernel[k]) /\ kernel[k].barrier = b}

LEMMA Counts ==
  ASSUME NEW b, NEW n \in Int, NEW m \in Int
  PROVE  /\ Opened(b, n, m) = Cardinality(Openings(b, n, m))
         /\ ClosedIn(b, n, m) \in Nat
         /\ ClosedIn(b, n, m) = 0 <=> Closings(b, n, m) = {}
<1>1. IsFiniteSet(n..m)
  BY FS_Interval
<1>2. Closings(b, n, m) \in SUBSET (n..m)
  BY DEF Closings
<1>3. IsFiniteSet(Closings(b, n, m))
  BY <1>1, <1>2, FS_Subset
<1>4. /\ Opened(b, n, m) = Cardinality(Openings(b, n, m))
      /\ ClosedIn(b, n, m) = Cardinality(Closings(b, n, m))
  BY DEF Opened, ClosedIn, Openings, Closings
<1>5. QED
  BY <1>3, <1>4, FS_EmptySet, FS_CardinalityType

LEMMA NoInnerOpening ==
  ASSUME Bracketed, NEW L \in Nat, DOMAIN kernel = 1..L,
         NEW n \in 1..L, NEW m \in 1..L, Bracket(n, m),
         NEW q \in (n + 1)..m, IsOpening(kernel[q]), kernel[q].barrier = kernel[n].barrier
  PROVE  FALSE
<1> DEFINE b == kernel[n].barrier
           T == Openings(b, n + 1, m)
           f == First(T)
<1>1. /\ IsOpening(kernel[n]) /\ IsClosing(kernel[m])
      /\ \A k \in n..(m - 1) : Opened(b, n, k) > ClosedIn(b, n, k)
  BY DEF Bracket
<1>2. b = kernel[n].barrier /\ \A k \in 1..L : ~(IsOpening(kernel[k]) /\ IsClosing(kernel[k]))
  BY DEF IsOpening, IsClosing
<1> HIDE DEF b
<1>3. q \in T /\ T \subseteq Nat
  BY <1>2 DEF Openings
<1> HIDE DEF T
<1>4. f \in T /\ \A k \in T : f <= k
  BY <1>3, FirstIsLeast
<1> HIDE DEF f
<1>5. f \in (n + 1)..m /\ IsOpening(kernel[f]) /\ kernel[f].barrier = b
  BY <1>4 DEF T, Openings
<1>6. f \in 1..L /\ n < f
  BY <1>5
<1>7. ClosedIn(b, n, f) > 0
  BY <1>1, <1>2, <1>5, <1>6 DEF Bracketed
<1>8. PICK c \in n..f : IsClosing(kernel[c]) /\ kernel[c].barrier = b
  <2>1. Closings(b, n, f) # {}
    BY <1>6, <1>7, Counts
  <2>2. QED
    BY <2>1 DEF Closings
<1>9. c \in n..(m - 1) /\ c < f /\ c \in 1..L
  <2>1. c # n /\ c # f
    BY <1>1, <1>2, <1>5, <1>6, <1>8
  <2>2. c \in 1..L /\ c < f
    BY <1>6, <2>1
  <2>3. QED
    BY <1>5, <2>2
<1>10. Openings(b, n, c) = {n}
  <2>1. n \in Openings(b, n, c)
    BY <1>1, <1>2, <1>9 DEF Openings
  <2>2. ASSUME NEW k \in Openings(b, n, c), k # n PROVE FALSE
    <3>1. k \in n..c /\ IsOpening(kernel[k]) /\ kernel[k].barrier = b
      BY DEF Openings
    <3>2. k \in (n + 1)..m /\ k < f /\ k \in Int /\ f \in Int
      BY <1>5, <1>9, <2>2, <3>1
    <3>3. k \in T
      BY <3>1, <3>2 DEF T, Openings
    <3>4. QED
      BY <1>4, <3>2, <3>3
  <2>3. QED
    BY <2>1, <2>2
<1>11. Opened(b, n, c) = 1
  <2>1. Cardinality({n}) = 1
    BY FS_Singleton
  <2>2. c \in Int /\ n \in Int
    BY <1>9
  <2>3. Opened(b, n, c) = Cardinality(Openings(b, n, c))
    BY <2>2, Counts
  <2>4. QED
    BY <1>10, <2>1, <2>3, Zenon
<1>12. ClosedIn(b, n, c) \in Nat /\ ClosedIn(b, n, c) # 0
  <2>1. c \in Closings(b, n, c)
    BY <1>8, <1>9 DEF Closings
  <2>2. QED
    BY <1>9, <2>1, Counts
<1>13. Opened(b, n, c) > ClosedIn(b, n, c)
  BY <1>1, <1>9
<1>14. QED
  BY <1>11, <1>12, <1>13

LEMMA OneBracket ==
  ASSUME Bracketed, NEW L \in Nat, DOMAIN kernel = 1..L, NEW m \in 1..L,
         NEW n \in 1..m, NEW q \in 1..m, Bracket(n, m), Bracket(q, m)
  PROVE  n = q
<1>1. /\ IsOpening(kernel[n]) /\ IsOpening(kernel[q]) /\ kernel[n].barrier = kernel[q].barrier
  BY DEF Bracket
<1>2. n \in 1..L /\ q \in 1..L /\ n \in Int /\ q \in Int
  OBVIOUS
<1>3. ~(n < q)
  <2>1. SUFFICES ASSUME n < q PROVE FALSE
    OBVIOUS
  <2>2. q \in (n + 1)..m
    BY <2>1
  <2>3. QED
    BY <1>1, <1>2, <2>2, NoInnerOpening
<1>4. ~(q < n)
  <2>1. SUFFICES ASSUME q < n PROVE FALSE
    OBVIOUS
  <2>2. n \in (q + 1)..m
    BY <2>1
  <2>3. QED
    BY <1>1, <1>2, <2>2, NoInnerOpening
<1>5. QED
  BY <1>2, <1>3, <1>4

-----------------------------------------------------------------------------
(* A branch of a register whose classes the bridge does not take for a     *)
(* floating-point one goes where its operand says.                         *)
LEMMA NoFloatType ==
  ASSUME NEW inst, inst.op \in {"BRA", "JMP"}, NEW ty,
         HasDst(inst) =>
           LET classes == ty[dst_reg(inst)]
           IN  /\ classes \subseteq Class
               /\ classes \cap {"F32", "F64"} = {} \/ classes \cap {"Int", "I64"} # {}
  PROVE  resolve_imm_type(inst, ty, {}) \notin {"F32", "F64"}
<1> DEFINE classes == IF HasDst(inst) THEN ty[dst_reg(inst)] ELSE {}
           Chosen(n) == Priority[n] \in classes
                        /\ \A m \in 1..(n - 1) : Priority[m] \notin classes
           c == CHOOSE n \in 1..5 : Chosen(n)
<1>1. /\ ~f64_dst(inst) /\ ~f64_src(inst) /\ Context(inst) = "none"
  BY DEF f64_dst, f64_src, f64_opcode, Context, is_f32_opcode, is_int_opcode
<1>2. resolve_imm_type(inst, ty, {}) = IF classes # {} THEN Priority[c] ELSE "none"
  BY <1>1 DEF resolve_imm_type, Preferred
<1>3. /\ classes \subseteq Class
      /\ classes \cap {"F32", "F64"} = {} \/ classes \cap {"Int", "I64"} # {}
  OBVIOUS
<1>4. /\ Priority[1] = "Int" /\ Priority[2] = "I64" /\ Priority[3] = "F32"
      /\ Priority[4] = "F64" /\ Priority[5] = "Pred"
  BY DEF Priority
<1> HIDE DEF classes
<1>5. CASE classes # {}
  <2>1. \E n \in 1..5 : Chosen(n)
    <3>1. CASE "Int" \in classes
      BY <1>4, <3>1
    <3>2. CASE "Int" \notin classes /\ "I64" \in classes
      <4>1. Chosen(2)
        BY <1>4, <3>2
      <4>2. QED
        BY <4>1
    <3>3. CASE "Int" \notin classes /\ "I64" \notin classes
      <4>1. classes = {"Pred"}
        BY <1>3, <1>5, <3>3 DEF Class
      <4>2. \A m \in 1..(5 - 1) : m \in {1, 2, 3, 4}
        OBVIOUS
      <4>3. Chosen(5)
        BY <1>4, <4>1, <4>2
      <4>4. QED
        BY <4>3
    <3>4. QED
      BY <3>1, <3>2, <3>3
  <2>2. c \in 1..5 /\ Chosen(c)
    <3> HIDE DEF Chosen
    <3>1. QED
      BY <2>1
  <2> HIDE DEF c
  <2>3. CASE c \in {3, 4}
    <3>1. 1 \in 1..(c - 1) /\ 2 \in 1..(c - 1)
      BY <2>3
    <3>2. "Int" \notin classes /\ "I64" \notin classes
      BY <1>4, <2>2, <3>1
    <3>3. QED
      BY <1>3, <1>4, <2>2, <2>3, <3>2
  <2>4. CASE c \notin {3, 4}
    BY <1>2, <1>4, <1>5, <2>2, <2>4
  <2>5. QED
    BY <2>3, <2>4
<1>6. CASE classes = {}
  BY <1>2, <1>6
<1>7. QED
  BY <1>5, <1>6

LEMMA BraIsKept ==
  ASSUME NEW inst \in Instruction, NoFloats(inst), HasTarget(inst), NEW ty,
         resolve_imm_type(inst, ty, {}) \notin {"F32", "F64"}
  PROVE  bra(to_rule_inst_from(inst, ty, {})) = branch_addr(inst)
<1> DEFINE ri   == to_rule_inst_from(inst, ty, {})
           ops  == ri.dst \o ri.src
           imms == {n \in DOMAIN ops : IsAddress(ops[n])}
           type == resolve_imm_type(inst, ty, {})
           first == First(imms)
<1>1. DOMAIN ops = DOMAIN Operands(inst)
  BY AddressesAreKept
<1>2. \A n \in DOMAIN ops :
        /\ IsAddress(ops[n]) <=> n \in Naming(Operands(inst)) /\ type \notin {"F32", "F64"}
        /\ IsAddress(ops[n]) => ops[n].bits = Operands(inst)[n].bits
  BY AddressesAreKept
<1>3. bra(ri) = IF imms = {} THEN 0 ELSE ops[first].bits.of \div 4
  BY DEF bra
<1>4. type \notin {"F32", "F64"}
  OBVIOUS
<1> HIDE DEF ri, ops, type
<1>5. imms = Naming(Operands(inst)) /\ imms # {}
  BY <1>1, <1>2, <1>4 DEF Naming, HasTarget
<1>6. branch_addr(inst) = Operands(inst)[first].bits.of \div 4
  BY <1>5 DEF branch_addr
<1>7. imms \subseteq Nat
  BY <1>1, PositionsAreNatural
<1>8. first \in imms
  <2> HIDE DEF imms
  <2>1. QED
    BY <1>5, <1>7, FirstIsLeast
<1>9. ops[first].bits = Operands(inst)[first].bits
  BY <1>2, <1>8
<1> HIDE DEF first, imms
<1>10. QED
  BY <1>3, <1>5, <1>6, <1>9 DEF ri

-----------------------------------------------------------------------------
(***************************************************************************)
(* The inductive invariant of the run.  The text comes to the instruction  *)
(* the thread is at, and inside a region its barrier holds the address its *)
(* BSSY wrote.                                                             *)
(***************************************************************************)
HeldAt(s, bars) ==
  \A n, m \in DOMAIN kernel : Region(n, m) /\ s \in (n + 1)..m =>
    bars[kernel[n].barrier] = branch_addr(kernel[n])

RunInv ==
  /\ TextInv
  /\ barriers \in [Barrier -> Address \cup {Unset}]
  /\ IF stage = "done" THEN ptx \in 1..(Len(out) + 1) ELSE ptx = 1
  /\ stage = "done" /\ Structured => Coming = sass /\ HeldAt(sass, barriers)

LEMMA KernelIs ==
  ASSUME TextInv
  PROVE  /\ kernel \in Kernels /\ Len(kernel) \in Nat /\ DOMAIN kernel = 1..Len(kernel)
         /\ \A n \in DOMAIN kernel : kernel[n] \in Instruction
         /\ \A n \in DOMAIN kernel : IsOpening(kernel[n]) \/ IsClosing(kernel[n]) =>
              kernel[n].barrier \in Barrier
         /\ types \in [RegNo -> SUBSET Class]
<1>1. /\ kernel \in Kernels /\ kernel \in Seq(Instruction) /\ Len(kernel) \in Nat
      /\ DOMAIN kernel = 1..Len(kernel) /\ types \in [RegNo -> SUBSET Class]
  BY Places1 DEF TextInv, PairInv, IInv, TypeOK
<1>2. \A n \in DOMAIN kernel : kernel[n] \in Instruction
  BY <1>1
<1>3. QED
  BY <1>1, <1>2 DEF Instruction, IsOpening, IsClosing

(* The next instruction. *)
LEMMA NextIs ==
  ASSUME AllWritten, NEW n \in Nat, From(n + 1) \in DOMAIN kernel
  PROVE  /\ From(n + 1) \in Nat /\ From(n + 1) > n
         /\ \A m \in Effective : m > n => From(n + 1) <= m
<1> DEFINE E == EffectiveFrom(n + 1)
<1>1. n + 1 \in Nat \ {0}
  OBVIOUS
<1>2. \A m : m \in E <=> m \in Effective /\ m >= n + 1
  BY <1>1, EffectiveIs
<1>3. From(n + 1) = IF E = {} THEN Ended ELSE First(E)
  BY FromIs
<1>4. Len(kernel) \in Nat /\ DOMAIN kernel = 1..Len(kernel) /\ Effective \subseteq 1..Len(kernel)
  BY TextOfAll
<1> HIDE DEF E
<1>5. E # {}
  BY <1>3, <1>4 DEF Ended
<1>6. \A m \in Effective : m \in Nat
  BY <1>4
<1>7. E \subseteq Nat
  BY <1>2, <1>6
<1>8. First(E) \in E /\ \A m \in E : First(E) <= m
  BY <1>5, <1>7, FirstIsLeast
<1>9. \A m \in Nat : m > n <=> m >= n + 1
  OBVIOUS
<1>10. First(E) \in Nat /\ First(E) >= n + 1
  BY <1>2, <1>7, <1>8
<1>11. First(E) > n
  BY <1>10
<1>12. \A m \in Effective : m > n => First(E) <= m
  BY <1>2, <1>6, <1>8, <1>9
<1>13. QED
  BY <1>3, <1>5, <1>10, <1>11, <1>12

(* Going on to the next instruction: a region is entered at its BSSY.      *)
LEMMA HeldNext ==
  ASSUME AllWritten, Bracketed, NEW s \in Effective, NEW true,
         NEW bars \in [Barrier -> Address \cup {Unset}], HeldAt(s, bars)
  PROVE  HeldAt(From(s + 1),
                IF IsOpening(kernel[s]) /\ Holds(kernel[s].guard, true)
                THEN [bars EXCEPT ![kernel[s].barrier] = branch_addr(kernel[s])]
                ELSE bars)
<1> DEFINE set == IF IsOpening(kernel[s]) /\ Holds(kernel[s].guard, true)
                  THEN [bars EXCEPT ![kernel[s].barrier] = branch_addr(kernel[s])]
                  ELSE bars
           f == From(s + 1)
<1> SUFFICES ASSUME NEW n \in DOMAIN kernel, NEW m \in DOMAIN kernel, Region(n, m),
                    f \in (n + 1)..m
             PROVE  set[kernel[n].barrier] = branch_addr(kernel[n])
  BY DEF HeldAt
<1>1. /\ Len(kernel) \in Nat /\ DOMAIN kernel = 1..Len(kernel) /\ s \in DOMAIN kernel
      /\ \A k \in DOMAIN kernel : IsOpening(kernel[k]) => kernel[k].barrier \in Barrier
  BY KernelIs DEF AllWritten, Effective
<1>2. n \in Effective /\ Bracket(n, m) /\ kernel[n].guard = "none" /\ IsOpening(kernel[n])
  BY DEF Region, Bracket
<1>3. s \in Nat /\ n \in Nat /\ m \in Nat /\ f \in DOMAIN kernel
  BY <1>1
<1>4. f \in Nat /\ f > s /\ \A k \in Effective : k > s => f <= k
  BY <1>3, NextIs
<1> HIDE DEF f
<1>5. n <= s /\ s < m
  BY <1>2, <1>3, <1>4
<1>6. CASE n = s
  <2>1. Holds(kernel[s].guard, true)
    BY <1>2, <1>6 DEF Holds
  <2>2. set = [bars EXCEPT ![kernel[s].barrier] = branch_addr(kernel[s])]
    BY <1>2, <1>6, <2>1
  <2>3. kernel[s].barrier \in Barrier
    BY <1>1, <1>2, <1>6
  <2>4. QED
    BY <1>6, <2>2, <2>3
<1>7. CASE n # s
  <2>1. s \in (n + 1)..m
    BY <1>3, <1>5, <1>7
  <2>2. bars[kernel[n].barrier] = branch_addr(kernel[n])
    BY <2>1 DEF HeldAt
  <2>3. ~(IsOpening(kernel[s]) /\ kernel[s].barrier = kernel[n].barrier)
    BY <1>1, <1>2, <2>1, NoInnerOpening
  <2>4. kernel[n].barrier \in Barrier /\ DOMAIN bars = Barrier
    BY <1>1, <1>2
  <2>5. QED
    BY <2>2, <2>3, <2>4
<1>8. QED
  BY <1>6, <1>7

(* A jump into a region is made from inside it. *)
LEMMA HeldJump ==
  ASSUME AllWritten, NEW s \in Effective, ~IsOpening(kernel[s]), NEW bars, HeldAt(s, bars),
         NEW k \in Jumps, s \in Leaves(k), NEW t \in Places(branch_addr(kernel[k]))
  PROVE  HeldAt(t, bars)
<1> SUFFICES ASSUME NEW n \in DOMAIN kernel, NEW m \in DOMAIN kernel, Region(n, m),
                    t \in (n + 1)..m
             PROVE  bars[kernel[n].barrier] = branch_addr(kernel[n])
  BY DEF HeldAt
<1>1. Leaves(k) \subseteq n..m /\ IsOpening(kernel[n])
  BY DEF Region, Bracket
<1>2. s \in n..m /\ s # n
  BY <1>1
<1>3. n \in Int /\ m \in Int
  BY KernelIs DEF AllWritten
<1>4. s \in (n + 1)..m
  BY <1>2, <1>3
<1>5. QED
  BY <1>4 DEF HeldAt

LEMMA HeldAtEnd ==
  ASSUME AllWritten, NEW bars
  PROVE  HeldAt(Ended, bars)
<1>1. Len(kernel) \in Nat /\ DOMAIN kernel = 1..Len(kernel)
  BY TextOfAll
<1>2. \A n, m \in DOMAIN kernel : Ended \notin (n + 1)..m
  BY <1>1 DEF Ended
<1>3. QED
  BY <1>2 DEF HeldAt

(* A jump and the branch of its text arrive together. *)
LEMMA JumpGoes ==
  ASSUME AllWritten, stage = "done", UniqueAddresses, TargetsAreKept, NEW k \in Jumps
  PROVE  \E t \in Effective :
           LET a == branch_addr(kernel[k])
           IN  /\ t \in Places(a) /\ At(a) = t
               /\ First(LabelsAt(a)) \in 1..(Len(out) + 1)
               /\ ComingAt(out, Ended, First(LabelsAt(a))) = t
<1> DEFINE a == branch_addr(kernel[k])
<1>1. HasTarget(kernel[k]) /\ Places(a) \cap Effective # {}
  BY DEF TargetsAreKept
<1>2. PICK t \in Effective : t \in Places(a)
  BY <1>1
<1>3. kernel[t].address = a
  BY <1>2 DEF Places
<1>4. k \in DOMAIN kernel /\ IsBranch(kernel[k])
  BY DEF Jumps, Effective, IsBranch
<1>5. a \in branch_targets
  BY <1>1, <1>4 DEF AllWritten, TextInv, PairInv, IInv, CollectedInv
<1> HIDE DEF a
<1>6. /\ At(a) = t /\ First(LabelsAt(a)) \in 1..(Len(out) + 1)
      /\ ComingAt(out, Ended, First(LabelsAt(a))) = t
  BY <1>3, <1>5, JumpArrives
<1>7. QED
  BY <1>2, <1>6 DEF a

(* The line of an effective instruction of a structured kernel. *)
LEMMA LineOfStructured ==
  ASSUME AllWritten, stage = "done", Structured, NEW n \in Effective
  PROVE  LET inst == kernel[n]
             line == LineWith(kernel, types, bsync_rewrite, n)
         IN  /\ inst.op = "EXIT" => line = Line("ret", 0, inst.guard, n)
             /\ inst.op \in {"BRA", "JMP"} => line = Line("bra", branch_addr(inst), inst.guard, n)
             /\ inst.op = "BSYNC" => \E r \in 1..n :
                  Region(r, n) /\ line = Line("bra", branch_addr(kernel[r]), inst.guard, n)
             /\ inst.op \notin {"EXIT", "BRA", "JMP", "BSYNC"} => line.what \notin {"bra", "ret"}
<1> DEFINE inst  == kernel[n]
           line  == LineWith(kernel, types, bsync_rewrite, n)
           guard == pred_prefix(inst.guard)
           ri    == to_rule_inst_from(inst, types, {})
<1>1. /\ kernel \in Kernels /\ Len(kernel) \in Nat /\ DOMAIN kernel = 1..Len(kernel)
      /\ n \in DOMAIN kernel /\ n \in 1..Len(kernel) /\ inst \in Instruction
      /\ types \in [RegNo -> SUBSET Class]
  BY KernelIs DEF AllWritten, Effective
<1>2. guard = inst.guard
  <2>1. inst.guard \in {"none", "never", "P0", "P1", "UP0", "UP1"}
    BY <1>1 DEF Instruction, Guard, Predicate
  <2>2. inst.guard \notin {"UP0", "UP1"}
    BY <1>1 DEF Structured
  <2>3. QED
    BY <2>1, <2>2 DEF pred_prefix
<1>3. inst.op = "EXIT" => line = Line("ret", 0, inst.guard, n)
  BY <1>2 DEF LineWith, translate_one
<1>4. ASSUME inst.op \in {"BRA", "JMP"}
      PROVE  line = Line("bra", branch_addr(inst), inst.guard, n)
  <2>1. line = Line("bra", bra(ri), guard, n)
    BY <1>4 DEF LineWith, translate_one
  <2>2. NoFloats(inst) /\ (HasDst(inst) => dst_reg(inst) \in RegNo)
    BY <1>1, <1>4, EmitAssumption DEF NoFloats, IsBranch
  <2>3. n \in Jumps
    BY <1>4 DEF Jumps
  <2>4. /\ HasTarget(inst)
        /\ HasDst(inst) =>
             LET classes == types[dst_reg(inst)]
             IN  /\ classes \subseteq Class
                 /\ classes \cap {"F32", "F64"} = {} \/ classes \cap {"Int", "I64"} # {}
    BY <1>1, <2>2, <2>3 DEF Structured, TargetsAreKept
  <2>5. resolve_imm_type(inst, types, {}) \notin {"F32", "F64"}
    <3> HIDE DEF inst
    <3>1. QED
      BY <1>4, <2>4, NoFloatType
  <2>6. bra(ri) = branch_addr(inst)
    BY <1>1, <2>2, <2>4, <2>5, BraIsKept
  <2>7. QED
    BY <1>2, <2>1, <2>6
<1>5. ASSUME inst.op = "BSYNC"
      PROVE  \E r \in 1..n :
               Region(r, n) /\ line = Line("bra", branch_addr(kernel[r]), inst.guard, n)
  <2>1. PICK r \in 1..n : Region(r, n)
    BY <1>1, <1>5 DEF Structured, Bracketed
  <2>2. Bracket(r, n) /\ IsClosing(inst)
    BY <2>1 DEF Region, Bracket
  <2>3. PairsAreBrackets
    BY PairedAsBrackets DEF AllWritten, TextInv
  <2>4. /\ inst.address \in DOMAIN bsync_rewrite
        /\ \E q \in 1..n : Bracket(q, n) /\ bsync_rewrite[inst.address] = branch_addr(kernel[q])
    BY <1>1, <2>2, <2>3 DEF PairsAreBrackets, Structured
  <2>5. PICK q \in 1..n : Bracket(q, n) /\ bsync_rewrite[inst.address] = branch_addr(kernel[q])
    BY <2>4
  <2>6. q = r
    BY <1>1, <2>2, <2>5, OneBracket DEF Structured
  <2>7. line = Line("bra", bsync_rewrite[inst.address], guard, n)
    BY <1>5, <2>4 DEF LineWith
  <2>8. line = Line("bra", branch_addr(kernel[r]), inst.guard, n)
    BY <1>2, <2>5, <2>6, <2>7
  <2>9. QED
    BY <2>1, <2>8
<1>6. ASSUME inst.op \notin {"EXIT", "BRA", "JMP", "BSYNC"}
      PROVE  line.what \notin {"bra", "ret"}
  <2>1. inst.op \notin {"CALL", "RET", "BRX", "JMX", "BRXU", "JMXU"}
    BY <1>1 DEF Structured
  <2>2. \/ line = Comment(n)
        \/ line = Line("line", 0, guard, n)
    BY <1>6, <2>1 DEF LineWith, translate_one
  <2> HIDE DEF line, guard
  <2>3. QED
    BY <2>2 DEF Comment, Line
<1>7. QED
  BY <1>3, <1>4, <1>5, <1>6

LEMMA ComingIs == Coming = ComingAt(out, Ended, ptx)
BY DEF Coming, ComingAt, Rest

(* What a step of the threads leaves alone. *)
LEMMA KernelStays ==
  ASSUME UNCHANGED <<kernel, types>>
  PROVE  /\ Structured' => Structured
         /\ \A n, m \in DOMAIN kernel : Region(n, m)' => Region(n, m)
<1>1. \A b, n, m : Opened(b, n, m)' = Opened(b, n, m) /\ ClosedIn(b, n, m)' = ClosedIn(b, n, m)
  BY DEF Opened, ClosedIn
<1>2. \A n, m : Bracket(n, m)' <=> Bracket(n, m)
  BY <1>1 DEF Bracket
<1>3. Effective' = Effective /\ Jumps' = Jumps /\ \A a : Places(a)' = Places(a)
  BY DEF Effective, Jumps, Places
<1>4. \A k : Leaves(k)' = Leaves(k)
  BY <1>2 DEF Leaves
<1>5. \A n, m : Region(n, m)' <=> Region(n, m)
  BY <1>2, <1>3, <1>4 DEF Region
<1>6. UniqueAddresses' => UniqueAddresses
  BY DEF UniqueAddresses
<1>7. TargetsAreKept' => TargetsAreKept
  BY <1>3 DEF TargetsAreKept
<1>8. Bracketed' => Bracketed
  BY <1>1, <1>5 DEF Bracketed
<1>9. QED
  BY <1>5, <1>6, <1>7, <1>8 DEF Structured

LEMMA RunGoesOn ==
  ASSUME TextInv', stage' = "done", UNCHANGED <<kernel, types, out>>,
         barriers' \in [Barrier -> Address \cup {Unset}], ptx' \in 1..(Len(out) + 1),
         Structured => ComingAt(out, Ended, ptx') = sass' /\ HeldAt(sass', barriers')
  PROVE  RunInv'
<1>1. (Structured' => Structured) /\ \A n, m \in DOMAIN kernel : Region(n, m)' => Region(n, m)
  BY KernelStays
<1>2. (Coming = ComingAt(out, Ended, ptx))'
  BY ComingIs, PTL
<1>3. Ended' = Ended
  BY DEF Ended
<1>4. Structured' => Coming' = sass'
  BY <1>1, <1>2, <1>3
<1>5. Structured' => HeldAt(sass, barriers)'
  BY <1>1 DEF HeldAt
<1>6. QED
  BY <1>4, <1>5 DEF RunInv

LEMMA RunInitially == FlowInit => RunInv
<1> SUFFICES ASSUME FlowInit PROVE RunInv
  OBVIOUS
<1>1. TextInv
  BY TextInitially DEF FlowInit
<1>2. stage = "collect" /\ ptx = 1 /\ barriers \in [Barrier -> Address \cup {Unset}]
  BY DEF FlowInit, Init
<1>3. QED
  BY <1>1, <1>2 DEF RunInv

LEMMA EmissionRuns == RunInv /\ Emission => RunInv'
<1> SUFFICES ASSUME RunInv, Emission PROVE RunInv'
  OBVIOUS
<1>1. TextInv'
  BY TextStepwise DEF RunInv, Emission, EmitNext
<1>2. stage # "done" /\ stage' # "done" /\ UNCHANGED <<ptx, barriers>>
  BY DEF Emission, EmitStep, machine, CollectBranchTarget, Collected, Open, Close, PassBy,
         Paired, SkipInstruction, EmitInstruction, Emitted, EmitMissingLabel
<1>3. QED
  BY <1>1, <1>2 DEF RunInv

LEMMA LaunchRuns == RunInv /\ Launch => RunInv'
<1> SUFFICES ASSUME RunInv, Launch PROVE RunInv'
  OBVIOUS
<1>1. TextInv' /\ AllWritten
  BY TextStepwise DEF RunInv, Launch, EmitNext, Closed, AllWritten
<1>2. /\ stage' = "done" /\ UNCHANGED <<kernel, types, out, barriers>>
      /\ ptx' = 1 /\ sass' = From(1)
      /\ barriers \in [Barrier -> Address \cup {Unset}]
  BY DEF Launch, Closed, RunInv
<1>3. ComingAt(out, Ended, ptx') = sass'
  BY <1>1, <1>2, FirstLine
<1>4. ptx' \in 1..(Len(out) + 1)
  BY <1>1, <1>2, TextOfAll
<1>5. HeldAt(sass', barriers')
  <2> SUFFICES ASSUME NEW n \in DOMAIN kernel, NEW m \in DOMAIN kernel, Region(n, m),
                      From(1) \in (n + 1)..m
               PROVE  FALSE
    BY <1>2 DEF HeldAt
  <2>1. n \in Effective
    BY DEF Region
  <2>2. Len(kernel) \in Nat /\ DOMAIN kernel = 1..Len(kernel)
    BY <1>1, TextOfAll
  <2>3. From(0 + 1) \in DOMAIN kernel /\ n \in Nat /\ n > 0 /\ From(0 + 1) > n
    BY <2>2
  <2>4. From(0 + 1) <= n
    BY <1>1, <2>1, <2>3, NextIs
  <2>5. From(0 + 1) \in Nat
    BY <2>2, <2>3
  <2>6. QED
    BY <2>3, <2>4, <2>5
<1>6. QED
  BY <1>1, <1>2, <1>3, <1>4, <1>5, RunGoesOn

LEMMA LabelRuns == RunInv /\ PassLabel => RunInv'
<1> SUFFICES ASSUME RunInv, PassLabel PROVE RunInv'
  OBVIOUS
<1>1. /\ stage = "done" /\ UNCHANGED emitVars /\ UNCHANGED <<sass, barriers>>
      /\ ptx <= Len(out) /\ out[ptx].what = "label" /\ ptx' = ptx + 1
      /\ stage' = "done" /\ UNCHANGED <<kernel, types, out>>
  BY DEF PassLabel, emitVars
<1>2. TextInv' /\ AllWritten
  BY <1>1, TextStepwise DEF RunInv, AllWritten
<1>3. ptx \in 1..Len(out)
  BY <1>1, <1>2, TextOfAll DEF RunInv
<1>4. /\ ComingAt(out, Ended, ptx) = ComingAt(out, Ended, ptx')
      /\ ptx' \in 1..(Len(out) + 1)
  BY <1>1, <1>2, <1>3, LabelPassed
<1>5. QED
  BY <1>1, <1>2, <1>4, ComingIs, RunGoesOn DEF RunInv

LEMMA StoppedRuns == RunInv /\ (Stopped \/ UNCHANGED vars) => RunInv'
<1> SUFFICES ASSUME RunInv, Stopped \/ UNCHANGED vars PROVE RunInv'
  OBVIOUS
<1>1. UNCHANGED vars /\ UNCHANGED emitVars
  BY DEF Stopped, vars, emitVars
<1>2. TextInv'
  BY <1>1, TextStepwise DEF RunInv
<1>3. UNCHANGED <<kernel, types, out, stage, ptx, sass, barriers>>
  BY <1>1 DEF vars
<1>4. CASE stage = "done"
  BY <1>2, <1>3, <1>4, ComingIs, RunGoesOn DEF RunInv
<1>5. CASE stage # "done"
  BY <1>2, <1>3, <1>5 DEF RunInv
<1>6. QED
  BY <1>4, <1>5

(* Where the two threads go from the line they are at. *)
LEMMA ThreadsAgree ==
  ASSUME AllWritten, stage = "done", Structured, NEW true, NEW p \in TextLines(out),
         p = ptx, sass = out[p].of, HeldAt(sass, barriers),
         barriers \in [Barrier -> Address \cup {Unset}]
  PROVE  LET inst == kernel[sass]
             set  == IF IsOpening(inst) /\ Holds(inst.guard, true)
                     THEN [barriers EXCEPT ![inst.barrier] = branch_addr(inst)]
                     ELSE barriers
         IN  /\ PtxNext(out[p], true) \in 1..(Len(out) + 1)
             /\ ComingAt(out, Ended, PtxNext(out[p], true)) = SassNext(inst, true)
             /\ HeldAt(SassNext(inst, true), set)
<1> DEFINE inst == kernel[sass]
           line == out[p]
           set  == IF IsOpening(inst) /\ Holds(inst.guard, true)
                   THEN [barriers EXCEPT ![inst.barrier] = branch_addr(inst)]
                   ELSE barriers
           Goes(q, s) == /\ q \in 1..(Len(out) + 1)
                         /\ ComingAt(out, Ended, q) = s /\ HeldAt(s, set)
<1>1. sass \in Effective /\ line = LineWith(kernel, types, bsync_rewrite, sass)
  BY TextOfAll
<1>2. UniqueAddresses /\ TargetsAreKept /\ Bracketed
  BY DEF Structured
<1>3. /\ inst.op = "EXIT" => line = Line("ret", 0, inst.guard, sass)
      /\ inst.op \in {"BRA", "JMP"} => line = Line("bra", branch_addr(inst), inst.guard, sass)
      /\ inst.op = "BSYNC" => \E r \in 1..sass :
           Region(r, sass) /\ line = Line("bra", branch_addr(kernel[r]), inst.guard, sass)
      /\ inst.op \notin {"EXIT", "BRA", "JMP", "BSYNC"} => line.what \notin {"bra", "ret"}
  BY <1>1, LineOfStructured
<1>4. Goes(p + 1, From(sass + 1))
  BY <1>1, <1>2, NextLine, HeldNext
<1>5. ASSUME inst.op \in {"BRA", "JMP", "BSYNC"}, NEW k \in Jumps, sass \in Leaves(k)
      PROVE  LET a == branch_addr(kernel[k])
             IN  Goes(First(LabelsAt(a)), At(a))
  <2> DEFINE a == branch_addr(kernel[k])
  <2>1. PICK t \in Effective :
          /\ t \in Places(a) /\ At(a) = t /\ First(LabelsAt(a)) \in 1..(Len(out) + 1)
          /\ ComingAt(out, Ended, First(LabelsAt(a))) = t
    BY <1>2, JumpGoes
  <2>2. ~IsOpening(inst) /\ set = barriers
    BY <1>5 DEF IsOpening
  <2>3. HeldAt(t, barriers)
    BY <1>1, <1>5, <2>1, <2>2, HeldJump
  <2>4. QED
    BY <2>1, <2>2, <2>3
<1> HIDE DEF Goes
<1>6. CASE ~Holds(inst.guard, true)
  <2>1. SassNext(inst, true) = From(sass + 1)
    BY <1>6 DEF SassNext
  <2>2. line.what \in {"bra", "ret"} => line.guard = inst.guard
    <3>1. \A what, to, guard, of : Line(what, to, guard, of).guard = guard
      BY DEF Line
    <3>2. CASE inst.op = "BSYNC"
      <4>1. PICK r \in 1..sass :
              line = Line("bra", branch_addr(kernel[r]), inst.guard, sass)
        BY <1>3, <3>2
      <4>2. Line("bra", branch_addr(kernel[r]), inst.guard, sass).guard
              = inst.guard
        BY <3>1
      <4>3. QED
        BY <4>1, <4>2, Zenon
    <3>3. CASE inst.op \in {"BRA", "JMP"}
      BY <1>3, <3>1, <3>3
    <3>4. CASE inst.op = "EXIT"
      BY <1>3, <3>1, <3>4
    <3>5. QED
      BY <1>3, <3>2, <3>3, <3>4
  <2>3. PtxNext(line, true) = p + 1
    BY <1>6, <2>2 DEF PtxNext
  <2>4. QED
    BY <1>4, <2>1, <2>3 DEF Goes
<1>7. CASE Holds(inst.guard, true) /\ inst.op = "EXIT"
  <2>1. SassNext(inst, true) = Ended
    BY <1>7 DEF SassNext
  <2>2. line.what = "ret" /\ line.guard = inst.guard
    BY <1>3, <1>7 DEF Line
  <2>3. PtxNext(line, true) = Len(out) + 1
    BY <1>7, <2>2 DEF PtxNext
  <2>4. Len(out) + 1 \in 1..(Len(out) + 1)
    BY TextOfAll
  <2>5. Goes(Len(out) + 1, Ended)
    BY <2>4, LastLine, HeldAtEnd DEF Goes
  <2>6. QED
    BY <2>1, <2>3, <2>5 DEF Goes
<1>8. CASE Holds(inst.guard, true) /\ inst.op \in {"BRA", "JMP"}
  <2>1. sass \in Jumps /\ sass \in Leaves(sass)
    BY <1>1, <1>8 DEF Jumps, Leaves
  <2> DEFINE a == branch_addr(inst)
  <2>2. SassNext(inst, true) = At(a)
    BY <1>8 DEF SassNext
  <2>3. line.what = "bra" /\ line.guard = inst.guard /\ line.to = a
    BY <1>3, <1>8 DEF Line
  <2>4. PtxNext(line, true) = First(LabelsAt(a))
    BY <1>8, <2>3 DEF PtxNext
  <2>5. Goes(First(LabelsAt(a)), At(a))
    BY <1>5, <1>8, <2>1
  <2>6. QED
    BY <2>2, <2>4, <2>5 DEF Goes
<1>9. CASE Holds(inst.guard, true) /\ inst.op = "BSYNC"
  <2>1. PICK r \in 1..sass :
          Region(r, sass) /\ line = Line("bra", branch_addr(kernel[r]), inst.guard, sass)
    BY <1>3, <1>9
  <2> DEFINE a == branch_addr(kernel[r])
  <2>2. /\ r \in Effective /\ IsOpening(kernel[r]) /\ Bracket(r, sass)
        /\ inst.barrier = kernel[r].barrier
    BY <2>1 DEF Region, Bracket
  <2>3. r \in Jumps /\ sass \in Leaves(r)
    BY <1>1, <2>2 DEF Jumps, Leaves, IsOpening, Effective
  <2>4. barriers[inst.barrier] = a
    <3>1. r \in DOMAIN kernel /\ sass \in DOMAIN kernel
      BY <1>1, <2>2 DEF Effective
    <3>2. r # sass
      BY <1>9, <2>2 DEF IsOpening
    <3>3. sass \in (r + 1)..sass
      <4>1. Effective \subseteq 1..Len(kernel) /\ Len(kernel) \in Nat
        BY TextOfAll
      <4>2. sass \in Nat
        BY <1>1, <4>1
      <4>3. QED
        BY <3>2, <4>2
    <3>4. QED
      BY <2>1, <2>2, <3>1, <3>3 DEF HeldAt
  <2>5. SassNext(inst, true) = At(a)
    BY <1>9, <2>4 DEF SassNext
  <2>6. line.what = "bra" /\ line.guard = inst.guard /\ line.to = a
    BY <2>1 DEF Line
  <2>7. PtxNext(line, true) = First(LabelsAt(a))
    BY <1>9, <2>6 DEF PtxNext
  <2>8. Goes(First(LabelsAt(a)), At(a))
    BY <1>5, <1>9, <2>3
  <2>9. QED
    BY <2>5, <2>7, <2>8 DEF Goes
<1>10. CASE Holds(inst.guard, true) /\ inst.op \notin {"EXIT", "BRA", "JMP", "BSYNC"}
  <2>1. SassNext(inst, true) = From(sass + 1)
    BY <1>10 DEF SassNext
  <2>2. line.what \notin {"bra", "ret"}
    BY <1>3, <1>10
  <2>3. PtxNext(line, true) = p + 1
    BY <2>2 DEF PtxNext
  <2>4. QED
    BY <1>4, <2>1, <2>3 DEF Goes
<1>11. QED
  BY <1>6, <1>7, <1>8, <1>9, <1>10

(* In any kernel, the PTX thread stays in the text: it branches to labels  *)
(* that are there.                                                         *)
LEMMA TextIsKept ==
  ASSUME AllWritten, stage = "done", NEW true, ptx \in TextLines(out)
  PROVE  PtxNext(out[ptx], true) \in 1..(Len(out) + 1)
<1>1. /\ Len(out) \in Nat /\ ptx \in 1..Len(out) /\ out \in Seq(OutLine)
      /\ DOMAIN out = 1..Len(out)
  <2>1. Len(out) \in Nat /\ ptx \in 1..Len(out) /\ out \in Seq(OutLine)
    BY TextOfAll
  <2>2. QED
    BY <2>1
<1>2. out[ptx].what = "bra" => First(LabelsAt(out[ptx].to)) \in 1..Len(out)
  <2> SUFFICES ASSUME out[ptx].what = "bra" PROVE First(LabelsAt(out[ptx].to)) \in 1..Len(out)
    OBVIOUS
  <2> DEFINE labels == LabelsAt(out[ptx].to)
  <2>1. LinesAreGood(out, Visited, branch_targets) /\ left = {}
    BY DEF AllWritten, TextInv, PairInv, IInv, OutputInv
  <2>2. labels # {}
    BY <1>1, <2>1 DEF LinesAreGood, LabelsAt, Visited
  <2>3. labels \subseteq 1..Len(out) /\ labels \subseteq Nat
    BY <1>1 DEF LabelsAt
  <2> HIDE DEF labels
  <2>4. First(labels) \in labels
    BY <2>2, <2>3, FirstIsLeast
  <2>5. QED
    BY <2>3, <2>4 DEF labels
<1>3. QED
  BY <1>1, <1>2 DEF PtxNext

LEMMA InstructionRuns ==
  ASSUME RunInv, NEW true, PassInstruction(true)
  PROVE  RunInv'
<1> DEFINE inst == kernel[sass]
<1>1. /\ stage = "done" /\ UNCHANGED emitVars /\ ptx <= Len(out)
      /\ out[ptx].what # "label" /\ sass = out[ptx].of
      /\ sass' = SassNext(inst, true) /\ ptx' = PtxNext(out[ptx], true)
      /\ barriers' = IF IsOpening(inst) /\ Holds(inst.guard, true)
                     THEN [barriers EXCEPT ![inst.barrier] = branch_addr(inst)]
                     ELSE barriers
  BY DEF PassInstruction
<1>2. stage' = "done" /\ UNCHANGED <<kernel, types, out>>
  BY <1>1 DEF emitVars
<1>3. TextInv' /\ AllWritten
  BY <1>1, TextStepwise DEF RunInv, AllWritten
<1>4. barriers \in [Barrier -> Address \cup {Unset}] /\ ptx \in 1..(Len(out) + 1)
  BY <1>1 DEF RunInv
<1>5. ptx \in TextLines(out)
  BY <1>1, <1>3, <1>4, TextOfAll
<1>6. ptx' \in 1..(Len(out) + 1)
  BY <1>1, <1>3, <1>5, TextIsKept
<1>7. barriers' \in [Barrier -> Address \cup {Unset}]
  <2>1. CASE IsOpening(inst) /\ Holds(inst.guard, true)
    <3>1. sass \in DOMAIN kernel
      BY <1>1, <1>3, <1>5, TextOfAll DEF Effective
    <3>2. kernel \in Kernels
      BY <1>3, KernelIs DEF AllWritten
    <3>3. branch_addr(inst) \in Address
      BY <2>1, <3>1, <3>2, EmitAssumption DEF IsOpening
    <3>4. barriers' = [barriers EXCEPT ![inst.barrier] = branch_addr(inst)]
      BY <1>1, <2>1
    <3>5. QED
      BY <1>4, <3>3, <3>4
  <2>2. CASE ~(IsOpening(inst) /\ Holds(inst.guard, true))
    BY <1>1, <1>4, <2>2
  <2>3. QED
    BY <2>1, <2>2
<1>8. Structured => ComingAt(out, Ended, ptx') = sass' /\ HeldAt(sass', barriers')
  <2> SUFFICES ASSUME Structured
               PROVE  ComingAt(out, Ended, ptx') = sass' /\ HeldAt(sass', barriers')
    OBVIOUS
  <2>1. HeldAt(sass, barriers)
    BY <1>1 DEF RunInv
  <2>2. /\ ComingAt(out, Ended, PtxNext(out[ptx], true)) = SassNext(inst, true)
        /\ HeldAt(SassNext(inst, true),
                  IF IsOpening(inst) /\ Holds(inst.guard, true)
                  THEN [barriers EXCEPT ![inst.barrier] = branch_addr(inst)]
                  ELSE barriers)
    BY <1>1, <1>3, <1>4, <1>5, <2>1, ThreadsAgree
  <2>3. QED
    BY <1>1, <2>2
<1>9. QED
  BY <1>2, <1>3, <1>6, <1>7, <1>8, RunGoesOn

LEMMA RunStepwise == RunInv /\ [Next]_vars => RunInv'
<1>1. QED
  BY EmissionRuns, LaunchRuns, LabelRuns, StoppedRuns, InstructionRuns DEF Next

(* In a structured kernel, the PTX thread comes to the instruction the     *)
(* SASS thread is at, along every path and whatever the predicates hold.   *)
THEOREM SameInstructions == FlowSpec => []SameInstruction
<1>1. RunInv => SameInstruction
  BY DEF RunInv, SameInstruction
<1>2. QED
  BY <1>1, RunInitially, RunStepwise, PTL DEF FlowSpec
=============================================================================
