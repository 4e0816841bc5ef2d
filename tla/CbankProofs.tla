----------------------------- MODULE CbankProofs -----------------------------
(***************************************************************************)
(* Proofs about Cbank, for every set of kernels, SM versions and nvinfo.   *)
(* The inductive invariant IInv adds to the type invariant what the stages *)
(* rely on: the three maps agree, everything the scan has passed is        *)
(* mapped, the lowered instructions are the lowering of a prefix of the    *)
(* kernel, and the preamble has treated the offsets no longer pending.     *)
(***************************************************************************)
EXTENDS Cbank, SequenceTheorems, TLAPS

MapsAgree ==
  /\ DOMAIN cbank_offsets \subseteq U32
  /\ DOMAIN cbank_special_map \cup DOMAIN cbank_reg_map = DOMAIN cbank_offsets
  /\ \A x \in DOMAIN cbank_special_map : cbank_special_map[x] = cbank_offsets[x].reg
  /\ \A x \in DOMAIN cbank_reg_map : cbank_reg_map[x] = cbank_offsets[x].reg
  /\ \A x \in DOMAIN cbank_offsets :
       /\ cbank_offsets[x] = LoweringOf(sm, x, cbank_offsets[x].reg)
       /\ cbank_offsets[x].reg < gpr_counter

Mapped(op) == op.kind = "bank0" => op.value \in DOMAIN cbank_offsets

MappedUpTo(inst, m) ==
  \A n \in DOMAIN ScanOrder(inst) : n < m => Mapped(ScanOrder(inst)[n])

AllMapped(inst) == \A n \in DOMAIN ScanOrder(inst) : Mapped(ScanOrder(inst)[n])

ScanInv ==
  /\ pc = "scan" => /\ at <= Len(kernel) + 1
                    /\ \A i \in DOMAIN kernel : i < at => AllMapped(kernel[i])
                    /\ at <= Len(kernel) => MappedUpTo(kernel[at], operand)
  /\ pc # "scan" => \A i \in DOMAIN kernel : AllMapped(kernel[i])

LowerInv ==
  /\ pc = "scan" => lowered = <<>>
  /\ pc = "lower" => at <= Len(kernel) + 1 /\ Len(lowered) = at - 1
  /\ pc \in {"preamble", "done"} => Len(lowered) = Len(kernel)
  /\ \A i \in DOMAIN lowered :
       /\ i \in DOMAIN kernel
       /\ lowered[i] = Lowered(kernel[i], cbank_special_map, cbank_reg_map)

EntryInv ==
  /\ pc \in {"scan", "lower"} => preamble = <<>>
  /\ pc \in {"preamble", "done"} => entry = EntryLabels
  /\ pc = "done" => pending = {}

Treated == DOMAIN cbank_offsets \ pending

WritesTreated ==
  \A n \in DOMAIN preamble : \E x \in Treated :
    preamble[n].to = cbank_offsets[x].reg

TreatedWritten ==
  \A x \in Treated : Handled(x) =>
    \E n \in DOMAIN preamble :
      WritesOf(cbank_offsets[x].reg) = {n} /\ Denotes(preamble[n], x)

PreambleInv ==
  pc \in {"preamble", "done"} => WritesTreated /\ TreatedWritten

IInv ==
  /\ TypeOK
  /\ DistinctRegisters
  /\ MapsAgree
  /\ ScanInv
  /\ LowerInv
  /\ EntryInv
  /\ LoadsAreDeclared
  /\ PreambleInv

-----------------------------------------------------------------------------
(* What the operators return. *)

LEMMA LoweringType ==
  ASSUME NEW s \in Nat, NEW x \in Nat, NEW r \in Nat
  PROVE  LoweringOf(s, x, r) \in Lowering
BY DEF LoweringOf, Lowering, cuda_param_base

LEMMA ResolvedType ==
  ASSUME NEW op \in Operand, NEW sp, sp \in [DOMAIN sp -> Nat],
         NEW rg, rg \in [DOMAIN rg -> Nat]
  PROVE  StripDesc(Resolved(op, sp, rg)) \in LoweredOperand
<1>1. op.value \in Nat
  BY KernelsAssumption DEF Operand, U32
<1>2. CASE op.kind # "bank0"
  BY <1>1, <1>2 DEF Resolved, StripDesc, Operand, LoweredOperand
<1>3. CASE op.kind = "bank0" /\ op.value \in DOMAIN sp
  <2>1. sp[op.value] \in Nat
    BY <1>3
  <2> QED
    BY <1>3, <2>1 DEF Resolved, StripDesc, Reg, LoweredOperand
<1>4. CASE op.kind = "bank0" /\ op.value \notin DOMAIN sp /\ op.value \in DOMAIN rg
  <2>1. rg[op.value] \in Nat
    BY <1>4
  <2> QED
    BY <1>4, <2>1 DEF Resolved, StripDesc, Reg, LoweredOperand
<1>5. CASE op.kind = "bank0" /\ op.value \notin DOMAIN sp /\ op.value \notin DOMAIN rg
  BY <1>5 DEF Resolved, StripDesc, Imm, LoweredOperand
<1> QED
  BY <1>2, <1>3, <1>4, <1>5

LEMMA LoweredType ==
  ASSUME NEW inst \in Instruction, NEW sp, sp \in [DOMAIN sp -> Nat],
         NEW rg, rg \in [DOMAIN rg -> Nat]
  PROVE  Lowered(inst, sp, rg) \in LoweredInstruction
<1> DEFINE each(ops) == [n \in DOMAIN ops |-> StripDesc(Resolved(ops[n], sp, rg))]
<1>1. ASSUME NEW ops \in Seq(Operand)
      PROVE  each(ops) \in Seq(LoweredOperand)
  <2>1. \A n \in 1..Len(ops) : StripDesc(Resolved(ops[n], sp, rg)) \in LoweredOperand
    BY ResolvedType
  <2>2. each(ops) = [n \in 1..Len(ops) |-> StripDesc(Resolved(ops[n], sp, rg))]
    OBVIOUS
  <2>3. each(ops) \in [1..Len(ops) -> LoweredOperand]
    BY <2>1, <2>2
  <2>4. Len(ops) \in Nat
    OBVIOUS
  <2> HIDE DEF each
  <2> QED
    BY <2>3, <2>4, IsASeq
<1>2. /\ inst.op \in Opcodes
      /\ inst.wide \in BOOLEAN
      /\ inst.dst \in Seq(Operand)
      /\ inst.src \in Seq(Operand)
  BY DEF Instruction
<1>3. each(inst.dst) \in Seq(LoweredOperand) /\ each(inst.src) \in Seq(LoweredOperand)
  BY <1>1, <1>2
<1>4. Lowered(inst, sp, rg) =
        [op |-> IF inst.op \in LoadConstant THEN "MOV" ELSE inst.op,
         wide |-> inst.wide, dst |-> each(inst.dst), src |-> each(inst.src)]
  BY DEF Lowered
<1> HIDE DEF each
<1>5. (IF inst.op \in LoadConstant THEN "MOV" ELSE inst.op) \in Opcodes
  BY <1>2, KernelsAssumption
<1>6. ASSUME NEW o \in Opcodes
      PROVE  [op |-> o, wide |-> inst.wide, dst |-> each(inst.dst),
              src |-> each(inst.src)] \in LoweredInstruction
  BY <1>2, <1>3 DEF LoweredInstruction
<1> QED
  BY <1>4, <1>5, <1>6

LEMMA WithFacts ==
  ASSUME NEW map, NEW key, NEW value
  PROVE  /\ DOMAIN With(map, key, value) = DOMAIN map \cup {key}
         /\ With(map, key, value)[key] = value
         /\ \A x \in DOMAIN map : x # key => With(map, key, value)[x] = map[x]
BY DEF With

LEMMA ConcatFacts ==
  ASSUME NEW S, NEW s \in Seq(S), NEW t \in Seq(S)
  PROVE  /\ s \o t \in Seq(S)
         /\ \A n \in DOMAIN s : n \in DOMAIN (s \o t) /\ (s \o t)[n] = s[n]
         /\ \A n \in DOMAIN t : /\ Len(s) + n \in DOMAIN (s \o t)
                               /\ (s \o t)[Len(s) + n] = t[n]
OBVIOUS

(* The scan order of an instruction is a sequence of its operands. *)
LEMMA ScanOrderFacts ==
  ASSUME NEW inst \in Instruction
  PROVE  /\ ScanOrder(inst) \in Seq(Operand)
         /\ \A n \in DOMAIN inst.src :
              n \in DOMAIN ScanOrder(inst) /\ ScanOrder(inst)[n] = inst.src[n]
         /\ \A n \in DOMAIN inst.dst :
              /\ Len(inst.src) + n \in DOMAIN ScanOrder(inst)
              /\ ScanOrder(inst)[Len(inst.src) + n] = inst.dst[n]
<1>1. inst.src \in Seq(Operand) /\ inst.dst \in Seq(Operand)
  BY DEF Instruction
<1>2. \A s, t \in Seq(Operand) :
        /\ s \o t \in Seq(Operand)
        /\ \A n \in DOMAIN s : n \in DOMAIN (s \o t) /\ (s \o t)[n] = s[n]
        /\ \A n \in DOMAIN t : /\ Len(s) + n \in DOMAIN (s \o t)
                              /\ (s \o t)[Len(s) + n] = t[n]
  BY ConcatFacts
<1> QED
  BY <1>1, <1>2, Zenon DEF ScanOrder

LEMMA KernelFacts ==
  ASSUME TypeOK, NEW i \in DOMAIN kernel
  PROVE  kernel \in Seq(Instruction) /\ kernel[i] \in Instruction
<1>1. kernel \in Seq(Instruction)
  BY KernelsAssumption DEF TypeOK
<1> QED
  BY <1>1

(* A write for an offset, and what it leaves of the other offsets. *)
LEMMA LinesFacts ==
  ASSUME IInv, NEW x \in DOMAIN cbank_offsets, NEW lines \in LinesFor(x)
  PROVE  \/ lines = <<>> /\ ~Handled(x)
         \/ \E w \in PreambleWrite :
              /\ lines = <<w>>
              /\ w.to = cbank_offsets[x].reg
              /\ w.from = "param" => w.label \in EntryLabels
              /\ Handled(x) => Denotes(w, x)
<1> USE DEF IInv
<1> DEFINE low == cbank_offsets[x]
<1>1. /\ low \in Lowering
      /\ low = LoweringOf(sm, x, low.reg)
      /\ x \in Nat /\ x < Word
      /\ sm \in Nat
  BY KernelsAssumption DEF TypeOK, MapsAgree, U32
<1>2. low.reg \in Nat /\ low.index \in Nat
  BY <1>1 DEF Lowering
<1>3. CASE low.kind = "special"
  <2>1. x \in cbank_special_register
    BY <1>1, <1>3 DEF LoweringOf
  <2>2. lines = <<Write(low.reg, SpecialName[x], 0, 0)>>
    BY <1>3 DEF LinesFor
  <2>3. SpecialName[x] \in SpecialNames /\ SpecialName[x] # "param"
    <3>1. \A y \in cbank_special_register : SpecialName[y] # "param"
      BY DEF cbank_special_register, SpecialName
    <3> QED
      BY <2>1, <3>1 DEF SpecialNames
  <2>4. Write(low.reg, SpecialName[x], 0, 0) \in PreambleWrite
    BY <1>2, <2>3 DEF Write, PreambleWrite
  <2> QED
    BY <2>1, <2>2, <2>3, <2>4 DEF Write, Denotes
<1>4. CASE low.kind = "param" /\ ~nvinfo.present
  <2>1. /\ x \notin cbank_special_register
        /\ x >= cuda_param_base(sm)
        /\ low.index = (x - cuda_param_base(sm)) \div 8
    BY <1>1, <1>4 DEF LoweringOf
  <2> DEFINE w == Write(low.reg, "param", low.index, 0)
  <2>2. lines = <<w>>
    BY <1>4 DEF LinesFor, ParamLoad
  <2>3. w \in PreambleWrite
    BY <1>2 DEF Write, PreambleWrite
  <2>4. low.index \in ParamIndices
    BY <1>4 DEF ParamIndices
  <2>5. low.index \in EntryLabels
    BY <1>2, <1>4, <2>4 DEF EntryLabels
  <2>6. /\ cuda_param_base(sm) + 8 * low.index <= x
        /\ x < cuda_param_base(sm) + 8 * (low.index + 1)
    BY <1>1, <2>1 DEF cuda_param_base
  <2> QED
    BY <1>4, <2>1, <2>2, <2>3, <2>5, <2>6 DEF Write, Denotes
<1>5. CASE low.kind = "param" /\ nvinfo.present /\ Covering(x) = {}
  <2>1. lines = <<>>
    BY <1>5 DEF LinesFor, ParamLoad
  <2> QED
    BY <1>5, <2>1 DEF Handled
<1>6. CASE low.kind = "param" /\ nvinfo.present /\ Covering(x) # {}
  <2>1. x \notin cbank_special_register
    BY <1>1, <1>6 DEF LoweringOf
  <2>2. PICK n \in Covering(x) :
          lines = <<Write(low.reg, "param", nvinfo.kparams[n].ordinal,
                          Relative(x) - nvinfo.kparams[n].offset)>>
    BY <1>6 DEF LinesFor, ParamLoad, FirstCovering
  <2> DEFINE k == nvinfo.kparams[n]
             w == Write(low.reg, "param", k.ordinal, Relative(x) - k.offset)
  <2>3. /\ nvinfo \in NvInfos
        /\ nvinfo \in NvInfo
        /\ n \in DOMAIN nvinfo.kparams
        /\ Covers(k, x)
    BY KernelsAssumption DEF TypeOK, Covering
  <2>4. /\ nvinfo.base \in Nat
        /\ nvinfo.kparams \in Seq(KParam)
    BY <2>3 DEF NvInfo
  <2>5. k \in KParam
    BY <2>3, <2>4
  <2>6. k.ordinal \in Nat /\ k.offset \in Nat /\ k.size \in Nat
    BY <2>5 DEF KParam
  <2>7. nvinfo.base + k.offset + k.size < Word
    BY <2>3, NvInfoAssumption
  <2>8. /\ x >= nvinfo.base
        /\ Relative(x) = x - nvinfo.base
    <3> HIDE DEF k
    <3>1. Relative(x) >= k.offset /\ Relative(x) < k.offset + k.size
      BY <2>3 DEF Covers
    <3> QED
      BY <1>1, <2>4, <2>6, <2>7, <3>1, KernelsAssumption DEF Relative
  <2>9. /\ Relative(x) - k.offset \in Nat
        /\ Relative(x) - k.offset < k.size
        /\ nvinfo.base + k.offset + (Relative(x) - k.offset) = x
    <3> HIDE DEF k
    <3>1. Relative(x) >= k.offset /\ Relative(x) < k.offset + k.size
      BY <2>3 DEF Covers
    <3> QED
      BY <1>1, <2>4, <2>6, <2>8, <3>1
  <2>10. w \in PreambleWrite
    <3> HIDE DEF k
    <3> QED
      BY <1>2, <2>6, <2>9 DEF Write, PreambleWrite
  <2>11. k.ordinal \in EntryLabels
    <3>1. nvinfo.kparams # <<>>
      BY <2>3
    <3> QED
      BY <1>6, <2>3, <3>1 DEF EntryLabels
  <2>12. Denotes(w, x)
    BY <1>6, <2>1, <2>3, <2>9 DEF Denotes, Write
  <2> QED
    BY <2>2, <2>10, <2>11, <2>12 DEF Write
<1>7. CASE low.kind = "zero"
  <2>1. ~Handled(x)
    BY <1>7 DEF Handled
  <2>2. CASE lines = <<>>
    BY <2>1, <2>2
  <2>3. CASE lines # <<>>
    <3>1. /\ x \in DOMAIN cbank_reg_map
          /\ lines = <<Write(cbank_reg_map[x], "%ntid.x", 0, 0)>>
      BY <1>7, <2>3 DEF LinesFor, LaunchInfoMove
    <3>2. cbank_reg_map[x] = low.reg
      BY <3>1 DEF MapsAgree
    <3>3. Write(low.reg, "%ntid.x", 0, 0) \in PreambleWrite
      BY <1>2 DEF Write, PreambleWrite
    <3> QED
      BY <2>1, <3>1, <3>2, <3>3 DEF Write
  <2> QED
    BY <2>2, <2>3
<1> QED
  BY <1>1, <1>3, <1>4, <1>5, <1>6, <1>7 DEF Lowering

-----------------------------------------------------------------------------
(* The steps. *)

LEMMA InitIInv == Init => IInv
<1> SUFFICES ASSUME Init PROVE IInv
  OBVIOUS
<1>1. kernel \in Seq(Instruction) /\ Len(kernel) \in Nat
  BY KernelsAssumption DEF Init
<1>2. TypeOK
  BY DEF Init, TypeOK
<1>3. DistinctRegisters /\ MapsAgree
  BY DEF Init, DistinctRegisters, MapsAgree
<1>4. ScanInv
  <2>1. 1 <= Len(kernel) + 1
    BY <1>1
  <2>2. ASSUME 1 <= Len(kernel) PROVE MappedUpTo(kernel[1], 1)
    <3>1. kernel[1] \in Instruction
      BY <1>1, <2>2
    <3>2. \A n \in DOMAIN ScanOrder(kernel[1]) : ~ (n < 1)
      BY <3>1, ScanOrderFacts
    <3> QED
      BY <3>2 DEF MappedUpTo
  <2>3. \A i \in DOMAIN kernel : ~ (i < 1)
    BY <1>1
  <2> QED
    BY <2>1, <2>2, <2>3 DEF Init, ScanInv
<1>5. LowerInv /\ EntryInv /\ LoadsAreDeclared /\ PreambleInv
  BY DEF Init, LowerInv, EntryInv, LoadsAreDeclared, PreambleInv
<1> QED
  BY <1>2, <1>3, <1>4, <1>5 DEF IInv

(* Steps that leave the maps and the preamble's side alone. *)
LEMMA SameMaps ==
  ASSUME IInv, UNCHANGED <<input, maps, entry, pending, preamble>>
  PROVE  /\ DistinctRegisters' /\ MapsAgree' /\ LoadsAreDeclared'
         /\ (WritesTreated /\ TreatedWritten => WritesTreated' /\ TreatedWritten')
         /\ EntryLabels' = EntryLabels
<1>1. DistinctRegisters' /\ MapsAgree'
  BY DEF IInv, input, maps, DistinctRegisters, MapsAgree
<1>2. LoadsAreDeclared'
  BY DEF IInv, LoadsAreDeclared
<1>3. WritesTreated => WritesTreated'
  BY DEF maps, WritesTreated, Treated
<1>4. TreatedWritten => TreatedWritten'
  BY DEF input, maps, TreatedWritten, Treated, Handled, Denotes, WritesOf,
         Covering, Covers, Relative
<1>5. EntryLabels' = EntryLabels
  BY DEF input, maps, EntryLabels, ParamIndices
<1> QED
  BY <1>1, <1>2, <1>3, <1>4, <1>5

LEMMA SkipOperandIInv == IInv /\ SkipOperand => IInv'
<1> SUFFICES ASSUME IInv, SkipOperand PROVE IInv'
  OBVIOUS
<1> USE DEF IInv
<1>1. TypeOK'
  BY DEF TypeOK, SkipOperand, input, maps
<1>2. DistinctRegisters' /\ MapsAgree' /\ LoadsAreDeclared'
  BY SameMaps DEF SkipOperand
<1>3. ScanInv'
  <2>1. at \in DOMAIN kernel
    BY KernelsAssumption DEF SkipOperand, TypeOK
  <2>2. kernel[at] \in Instruction
    BY <2>1, KernelFacts
  <2>3. MappedUpTo(kernel[at], operand + 1)
    <3>1. Mapped(Scanned)
      BY DEF SkipOperand, Mapped
    <3>2. MappedUpTo(kernel[at], operand)
      BY DEF SkipOperand, ScanInv
    <3>3. \A n \in DOMAIN ScanOrder(kernel[at]) : n \in Nat
      BY <2>2, ScanOrderFacts
    <3>4. operand \in Nat
      BY DEF TypeOK
    <3> QED
      BY <3>1, <3>2, <3>3, <3>4 DEF MappedUpTo, Scanned
  <2>4. /\ pc' = "scan" /\ at' = at /\ operand' = operand + 1
        /\ UNCHANGED <<kernel, cbank_offsets>>
    BY DEF SkipOperand, input, maps
  <2>5. ASSUME NEW i \in DOMAIN kernel', i < at'
        PROVE  AllMapped(kernel[i])'
    BY <2>4, <2>5 DEF AllMapped, Mapped, ScanInv
  <2>6. MappedUpTo(kernel[at], operand)'
    BY <2>3, <2>4 DEF MappedUpTo, Mapped
  <2> QED
    BY <2>4, <2>5, <2>6 DEF ScanInv, SkipOperand
<1>4. LowerInv' /\ EntryInv' /\ PreambleInv'
  BY DEF SkipOperand, LowerInv, EntryInv, PreambleInv, input, maps
<1> QED
  BY <1>1, <1>2, <1>3, <1>4

LEMMA MapOffsetIInv == IInv /\ MapOffset => IInv'
<1> SUFFICES ASSUME IInv, MapOffset PROVE IInv'
  OBVIOUS
<1> USE DEF IInv
<1> DEFINE x == Scanned.value
           low == LoweringOf(sm, x, gpr_counter)
<1>1. /\ at \in DOMAIN kernel
      /\ kernel[at] \in Instruction
      /\ Scanned \in Operand
  <2>1. at \in DOMAIN kernel
    BY KernelsAssumption DEF MapOffset, TypeOK
  <2>2. kernel[at] \in Instruction
    BY <2>1, KernelFacts
  <2>3. ScanOrder(kernel[at]) \in Seq(Operand)
    BY <2>2, ScanOrderFacts
  <2>4. operand \in 1..Len(ScanOrder(kernel[at]))
    BY <2>3 DEF MapOffset, TypeOK
  <2> QED
    BY <2>1, <2>2, <2>3, <2>4 DEF Scanned
<1>2. /\ x \in U32 /\ x \in Nat /\ sm \in Nat
      /\ gpr_counter \in Nat
      /\ x \notin DOMAIN cbank_offsets
  BY <1>1, KernelsAssumption DEF Operand, U32, TypeOK, MapOffset
<1>3. /\ low \in Lowering
      /\ low.reg = gpr_counter
  BY <1>2, LoweringType DEF LoweringOf
<1>4. /\ cbank_offsets' = With(cbank_offsets, x, low)
      /\ DOMAIN cbank_offsets' = DOMAIN cbank_offsets \cup {x}
      /\ cbank_offsets'[x] = low
      /\ \A y \in DOMAIN cbank_offsets : cbank_offsets'[y] = cbank_offsets[y]
  <2>1. cbank_offsets' = With(cbank_offsets, x, low)
    BY DEF MapOffset
  <2> HIDE DEF x, low
  <2>2. DOMAIN With(cbank_offsets, x, low) = DOMAIN cbank_offsets \cup {x}
    BY DEF With
  <2>3. With(cbank_offsets, x, low)[x] = low
    BY DEF With
  <2>4. \A y \in DOMAIN cbank_offsets :
          y # x => With(cbank_offsets, x, low)[y] = cbank_offsets[y]
    BY DEF With
  <2> QED
    BY <1>2, <2>1, <2>2, <2>3, <2>4
<1>5. /\ DOMAIN cbank_special_map' \cup DOMAIN cbank_reg_map' = DOMAIN cbank_offsets'
      /\ \A y \in DOMAIN cbank_special_map' :
           cbank_special_map'[y] = cbank_offsets'[y].reg
      /\ \A y \in DOMAIN cbank_reg_map' : cbank_reg_map'[y] = cbank_offsets'[y].reg
      /\ cbank_special_map' \in [DOMAIN cbank_special_map' -> Nat]
      /\ cbank_reg_map' \in [DOMAIN cbank_reg_map' -> Nat]
  <2> HIDE DEF x
  <2>1. /\ DOMAIN cbank_special_map \cup DOMAIN cbank_reg_map = DOMAIN cbank_offsets
        /\ \A y \in DOMAIN cbank_special_map :
             cbank_special_map[y] = cbank_offsets[y].reg /\ cbank_special_map[y] \in Nat
        /\ \A y \in DOMAIN cbank_reg_map :
             cbank_reg_map[y] = cbank_offsets[y].reg /\ cbank_reg_map[y] \in Nat
        /\ cbank_special_map \in [DOMAIN cbank_special_map -> Nat]
        /\ cbank_reg_map \in [DOMAIN cbank_reg_map -> Nat]
    BY DEF MapsAgree, TypeOK
  <2>2. CASE low.kind = "special"
    <3>1. /\ cbank_special_map' = With(cbank_special_map, x, gpr_counter)
          /\ cbank_reg_map' = cbank_reg_map
      BY <2>2 DEF MapOffset, x
    <3> HIDE DEF low
    <3> QED
      BY <1>2, <1>3, <1>4, <2>1, <3>1 DEF With
  <2>3. CASE low.kind # "special"
    <3>1. /\ cbank_reg_map' = With(cbank_reg_map, x, gpr_counter)
          /\ cbank_special_map' = cbank_special_map
      BY <2>3 DEF MapOffset, x
    <3> HIDE DEF low
    <3> QED
      BY <1>2, <1>3, <1>4, <2>1, <3>1 DEF With
  <2> QED
    BY <2>2, <2>3
<1>6. /\ gpr_counter' = gpr_counter + 1 /\ operand' = operand + 1 /\ at' = at
      /\ pc = "scan" /\ pc' = "scan"
      /\ UNCHANGED <<kernel, sm, nvinfo, lowered, entry, pending, preamble>>
  BY DEF MapOffset, input
<1>7. TypeOK'
  <2>1. cbank_offsets' \in [DOMAIN cbank_offsets' -> Lowering]
    BY <1>3, <1>4 DEF TypeOK, With
  <2>2. DOMAIN cbank_offsets' \subseteq Nat /\ pending' \subseteq DOMAIN cbank_offsets'
    BY <1>2, <1>4, <1>6 DEF TypeOK
  <2> QED
    BY <1>5, <1>6, <2>1, <2>2 DEF TypeOK
<1>8. DistinctRegisters'
  <2>1. ASSUME NEW y \in DOMAIN cbank_offsets PROVE cbank_offsets[y].reg # gpr_counter
    <3>1. cbank_offsets[y].reg \in Nat /\ cbank_offsets[y].reg < gpr_counter
      BY DEF MapsAgree, TypeOK, Lowering
    <3> QED
      BY <1>2, <3>1
  <2> HIDE DEF x, low
  <2> QED
    BY <1>2, <1>3, <1>4, <2>1 DEF DistinctRegisters
<1>9. MapsAgree'
  <2>1. ASSUME NEW y \in DOMAIN cbank_offsets'
        PROVE  /\ cbank_offsets'[y] = LoweringOf(sm', y, cbank_offsets'[y].reg)
               /\ cbank_offsets'[y].reg < gpr_counter'
    <3>1. CASE y = x
      <4>1. cbank_offsets'[y] = LoweringOf(sm, y, gpr_counter)
        BY <1>4, <3>1
      <4>2. cbank_offsets'[y].reg = gpr_counter
        BY <1>3, <1>4, <3>1
      <4> QED
        BY <1>2, <1>6, <4>1, <4>2
    <3>2. CASE y # x
      <4>1. y \in DOMAIN cbank_offsets /\ cbank_offsets'[y] = cbank_offsets[y]
        BY <1>4, <3>2
      <4>2. cbank_offsets[y].reg \in Nat /\ cbank_offsets[y].reg < gpr_counter
        BY <4>1 DEF MapsAgree, TypeOK, Lowering
      <4>3. cbank_offsets[y] = LoweringOf(sm, y, cbank_offsets[y].reg)
        BY <4>1 DEF MapsAgree
      <4> QED
        BY <1>2, <1>6, <4>1, <4>2, <4>3
    <3> QED
      BY <3>1, <3>2
  <2>2. DOMAIN cbank_offsets' \subseteq U32
    BY <1>2, <1>4 DEF MapsAgree
  <2> QED
    BY <1>5, <2>1, <2>2 DEF MapsAgree
<1>10. ScanInv'
  <2> DEFINE mappedAfter(op) == op.kind = "bank0" => op.value \in DOMAIN cbank_offsets'
  <2>1. ASSUME NEW op, Mapped(op) PROVE mappedAfter(op)
    BY <1>4, <2>1 DEF Mapped
  <2>2. mappedAfter(Scanned)
    BY <1>4
  <2>3. ASSUME NEW n \in DOMAIN ScanOrder(kernel[at]), n < operand + 1
        PROVE  mappedAfter(ScanOrder(kernel[at])[n])
    <3>1. MappedUpTo(kernel[at], operand)
      BY DEF MapOffset, ScanInv
    <3>2. n \in Nat /\ operand \in Nat
      BY <1>1, ScanOrderFacts DEF TypeOK
    <3>3. CASE n < operand
      BY <2>1, <3>1, <3>3 DEF MappedUpTo
    <3>4. CASE n = operand
      BY <2>2, <3>4 DEF Scanned
    <3> QED
      BY <2>3, <3>2, <3>3, <3>4
  <2>4. ASSUME NEW i \in DOMAIN kernel, i < at,
               NEW n \in DOMAIN ScanOrder(kernel[i])
        PROVE  mappedAfter(ScanOrder(kernel[i])[n])
    <3>1. AllMapped(kernel[i])
      BY <1>6, <2>4 DEF ScanInv
    <3> QED
      BY <2>1, <3>1 DEF AllMapped
  <2>5. /\ \A i \in DOMAIN kernel' : i < at' => AllMapped(kernel[i])'
        /\ MappedUpTo(kernel[at], operand)'
    BY <1>6, <2>3, <2>4 DEF AllMapped, MappedUpTo, Mapped
  <2>6. at' <= Len(kernel') + 1
    BY <1>6 DEF ScanInv
  <2> QED
    BY <1>6, <2>5, <2>6 DEF ScanInv
<1>11. LowerInv' /\ EntryInv' /\ PreambleInv'
  BY <1>6 DEF LowerInv, EntryInv, PreambleInv
<1>12. LoadsAreDeclared'
  BY <1>6 DEF LoadsAreDeclared
<1> QED
  BY <1>7, <1>8, <1>9, <1>10, <1>11, <1>12

LEMMA NextInstructionIInv == IInv /\ NextInstruction => IInv'
<1> SUFFICES ASSUME IInv, NextInstruction PROVE IInv'
  OBVIOUS
<1> USE DEF IInv
<1>1. TypeOK'
  BY DEF TypeOK, NextInstruction, input, maps
<1>2. DistinctRegisters' /\ MapsAgree' /\ LoadsAreDeclared'
  BY SameMaps DEF NextInstruction
<1>3. /\ pc = "scan" /\ pc' = "scan" /\ at' = at + 1 /\ operand' = 1
      /\ UNCHANGED <<kernel, cbank_offsets>>
      /\ at \in Nat /\ at <= Len(kernel)
      /\ kernel \in Seq(Instruction)
      /\ at \in DOMAIN kernel /\ operand \in Nat
  BY KernelsAssumption DEF NextInstruction, input, maps, TypeOK
<1>4. ScanInv'
  <2>1. AllMapped(kernel[at])
    <3>1. ScanOrder(kernel[at]) \in Seq(Operand)
      BY <1>3, KernelFacts, ScanOrderFacts
    <3>2. \A n \in DOMAIN ScanOrder(kernel[at]) : n < operand
      BY <1>3, <3>1 DEF NextInstruction
    <3>3. MappedUpTo(kernel[at], operand)
      BY <1>3 DEF ScanInv
    <3> QED
      BY <3>2, <3>3 DEF MappedUpTo, AllMapped
  <2>2. ASSUME NEW i \in DOMAIN kernel', i < at' PROVE AllMapped(kernel[i])'
    <3>1. i = at \/ i < at
      BY <1>3, <2>2
    <3>2. AllMapped(kernel[i])
      BY <1>3, <2>1, <2>2, <3>1 DEF ScanInv
    <3> QED
      BY <1>3, <3>2 DEF AllMapped, Mapped
  <2>3. ASSUME at' <= Len(kernel') PROVE MappedUpTo(kernel[at], operand)'
    <3>1. at + 1 \in DOMAIN kernel
      BY <1>3, <2>3
    <3>2. \A n \in DOMAIN ScanOrder(kernel[at + 1]) : ~ (n < 1)
      BY <3>1, KernelFacts, ScanOrderFacts
    <3> QED
      BY <1>3, <3>2 DEF MappedUpTo
  <2>4. at' <= Len(kernel') + 1
    BY <1>3
  <2> QED
    BY <1>3, <2>2, <2>3, <2>4 DEF ScanInv
<1>5. LowerInv' /\ EntryInv' /\ PreambleInv'
  BY DEF NextInstruction, LowerInv, EntryInv, PreambleInv, input, maps
<1> QED
  BY <1>1, <1>2, <1>4, <1>5

LEMMA ScanDoneIInv == IInv /\ ScanDone => IInv'
<1> SUFFICES ASSUME IInv, ScanDone PROVE IInv'
  OBVIOUS
<1> USE DEF IInv
<1>1. TypeOK'
  BY DEF TypeOK, ScanDone, input, maps
<1>2. DistinctRegisters' /\ MapsAgree' /\ LoadsAreDeclared'
  BY SameMaps DEF ScanDone
<1>3. /\ pc = "scan" /\ pc' = "lower" /\ at' = 1 /\ at > Len(kernel)
      /\ at \in Nat /\ kernel \in Seq(Instruction)
      /\ UNCHANGED <<kernel, cbank_offsets, cbank_special_map, cbank_reg_map, lowered>>
  BY KernelsAssumption DEF ScanDone, input, maps, TypeOK
<1>4. ScanInv'
  <2>1. \A i \in DOMAIN kernel : AllMapped(kernel[i])
    BY <1>3 DEF ScanInv
  <2> QED
    BY <1>3, <2>1 DEF ScanInv, AllMapped, Mapped
<1>5. LowerInv'
  BY <1>3 DEF LowerInv
<1>6. EntryInv' /\ PreambleInv'
  BY DEF ScanDone, EntryInv, PreambleInv
<1> QED
  BY <1>1, <1>2, <1>4, <1>5, <1>6

LEMMA LowerInstructionIInv == IInv /\ LowerInstruction => IInv'
<1> SUFFICES ASSUME IInv, LowerInstruction PROVE IInv'
  OBVIOUS
<1> USE DEF IInv
<1> DEFINE next == Lowered(kernel[at], cbank_special_map, cbank_reg_map)
<1>1. /\ pc = "lower" /\ pc' = "lower" /\ at' = at + 1 /\ at \in Nat \ {0}
      /\ at \in DOMAIN kernel /\ kernel \in Seq(Instruction)
      /\ kernel[at] \in Instruction
      /\ UNCHANGED <<kernel, cbank_offsets, cbank_special_map, cbank_reg_map>>
      /\ lowered' = Append(lowered, next)
      /\ lowered \in Seq(LoweredInstruction)
  BY KernelsAssumption DEF LowerInstruction, input, maps, TypeOK
<1>2. next \in LoweredInstruction
  BY <1>1, LoweredType DEF TypeOK
<1> HIDE DEF next
<1>3. TypeOK'
  <2>1. lowered' \in Seq(LoweredInstruction)
    BY <1>1, <1>2
  <2> QED
    BY <2>1 DEF TypeOK, LowerInstruction, input, maps
<1>4. DistinctRegisters' /\ MapsAgree' /\ LoadsAreDeclared'
  BY SameMaps DEF LowerInstruction
<1>5. ScanInv'
  BY <1>1 DEF ScanInv, AllMapped, Mapped
<1>6. LowerInv'
  <2>1. /\ Len(lowered) = at - 1 /\ at <= Len(kernel) + 1
        /\ \A i \in DOMAIN lowered :
             /\ i \in DOMAIN kernel
             /\ lowered[i] = Lowered(kernel[i], cbank_special_map, cbank_reg_map)
    BY <1>1 DEF LowerInv
  <2>2. Len(lowered') = at' - 1 /\ at' <= Len(kernel') + 1
    BY <1>1, <1>2, <2>1
  <2>3. ASSUME NEW i \in DOMAIN lowered'
        PROVE  /\ i \in DOMAIN kernel'
               /\ lowered'[i] = Lowered(kernel[i], cbank_special_map, cbank_reg_map)'
    <3>1. CASE i = at
      <4>1. lowered'[i] = next
        BY <1>1, <1>2, <2>1, <3>1
      <4> QED
        BY <1>1, <3>1, <4>1 DEF next, Lowered
    <3>2. CASE i # at
      <4>1. i \in DOMAIN lowered /\ lowered'[i] = lowered[i]
        BY <1>1, <1>2, <2>1, <2>3, <3>2
      <4> QED
        BY <1>1, <2>1, <4>1 DEF Lowered
    <3> QED
      BY <3>1, <3>2
  <2> QED
    BY <1>1, <2>2, <2>3 DEF LowerInv
<1>7. EntryInv' /\ PreambleInv'
  BY DEF LowerInstruction, EntryInv, PreambleInv
<1> QED
  BY <1>3, <1>4, <1>5, <1>6, <1>7

LEMMA EmitEntryDeclIInv == IInv /\ EmitEntryDecl => IInv'
<1> SUFFICES ASSUME IInv, EmitEntryDecl PROVE IInv'
  OBVIOUS
<1> USE DEF IInv
<1>1. /\ pc = "lower" /\ pc' = "preamble" /\ at > Len(kernel)
      /\ at \in Nat /\ kernel \in Seq(Instruction)
      /\ entry' = EntryLabels
      /\ pending' = DOMAIN cbank_offsets
      /\ preamble = <<>> /\ preamble' = <<>>
      /\ UNCHANGED <<kernel, sm, nvinfo, cbank_offsets, cbank_special_map,
                     cbank_reg_map, gpr_counter, at, operand, lowered>>
  BY KernelsAssumption DEF EmitEntryDecl, EntryInv, input, maps, TypeOK
<1>2. EntryLabels \subseteq Nat
  <2>1. CASE nvinfo.present /\ nvinfo.kparams # <<>>
    <3>1. nvinfo.kparams \in Seq(KParam)
      BY KernelsAssumption DEF TypeOK, NvInfo
    <3>2. \A k \in KParam : k.ordinal \in Nat
      BY DEF KParam
    <3>3. \A n \in DOMAIN nvinfo.kparams : nvinfo.kparams[n] \in KParam
      BY <3>1
    <3> QED
      BY <2>1, <3>2, <3>3 DEF EntryLabels
  <2>2. CASE ~(nvinfo.present /\ nvinfo.kparams # <<>>)
    <3>1. ParamIndices \subseteq Nat
      BY DEF ParamIndices, TypeOK, Lowering
    <3>2. EntryLabels = UNION {0..n : n \in ParamIndices}
      BY <2>2 DEF EntryLabels
    <3> QED
      BY <3>1, <3>2
  <2> QED
    BY <2>1, <2>2
<1>3. TypeOK'
  BY <1>1, <1>2 DEF TypeOK
<1>4. DistinctRegisters' /\ MapsAgree'
  BY <1>1 DEF DistinctRegisters, MapsAgree
<1>5. ScanInv'
  BY <1>1 DEF ScanInv, AllMapped, Mapped
<1>6. LowerInv'
  <2>1. Len(lowered) = Len(kernel)
    BY <1>1 DEF LowerInv
  <2> QED
    BY <1>1, <2>1 DEF LowerInv
<1>7. EntryInv'
  BY <1>1 DEF EntryInv, EntryLabels, ParamIndices
<1>8. LoadsAreDeclared'
  BY <1>1 DEF LoadsAreDeclared
<1>9. PreambleInv'
  BY <1>1 DEF PreambleInv, WritesTreated, TreatedWritten, Treated
<1> QED
  BY <1>3, <1>4, <1>5, <1>6, <1>7, <1>8, <1>9

LEMMA EmitPreambleIInv == IInv /\ EmitPreamble => IInv'
<1> SUFFICES ASSUME IInv, EmitPreamble PROVE IInv'
  OBVIOUS
<1> USE DEF IInv
<1>1. /\ pc = "preamble" /\ pc' = "preamble" /\ entry' = entry
      /\ UNCHANGED <<kernel, sm, nvinfo, cbank_offsets, cbank_special_map,
                     cbank_reg_map, gpr_counter, at, operand, lowered>>
      /\ entry = EntryLabels
      /\ preamble \in Seq(PreambleWrite)
      /\ pending \subseteq DOMAIN cbank_offsets
      /\ WritesTreated /\ TreatedWritten
  BY DEF EmitPreamble, input, maps, EntryInv, PreambleInv, TypeOK
<1>2. PICK x \in pending : \E lines \in LinesFor(x) :
        preamble' = preamble \o lines /\ pending' = pending \ {x}
  BY DEF EmitPreamble
<1>3. PICK lines \in LinesFor(x) :
        preamble' = preamble \o lines /\ pending' = pending \ {x}
  BY <1>2
<1>4. x \in DOMAIN cbank_offsets /\ x \notin Treated
  BY <1>1 DEF Treated
<1>5. \/ lines = <<>> /\ ~Handled(x)
      \/ \E w \in PreambleWrite :
           /\ lines = <<w>>
           /\ w.to = cbank_offsets[x].reg
           /\ w.from = "param" => w.label \in EntryLabels
           /\ Handled(x) => Denotes(w, x)
  BY <1>3, <1>4, LinesFacts
<1>6. Treated' = Treated \cup {x}
  BY <1>1, <1>3, <1>4 DEF Treated
<1>7. /\ \A y : Handled(y)' = Handled(y)
      /\ \A w, y : Denotes(w, y)' = Denotes(w, y)
  BY <1>1 DEF Handled, Denotes, Covering, Covers, Relative
<1>8. DistinctRegisters' /\ MapsAgree' /\ ScanInv' /\ LowerInv' /\ EntryInv'
  BY <1>1 DEF DistinctRegisters, MapsAgree, ScanInv, AllMapped, Mapped, LowerInv,
              EntryInv, EntryLabels, ParamIndices
<1>9. CASE lines = <<>> /\ ~Handled(x)
  <2>1. preamble' = preamble
    BY <1>1, <1>3, <1>9
  <2>2. TypeOK' /\ LoadsAreDeclared'
    BY <1>1, <1>3, <2>1 DEF TypeOK, LoadsAreDeclared
  <2>3. WritesTreated'
    BY <1>1, <1>6, <2>1 DEF WritesTreated
  <2>4. TreatedWritten'
    BY <1>1, <1>6, <1>7, <1>9, <2>1 DEF TreatedWritten, WritesOf
  <2> QED
    BY <1>1, <1>8, <2>2, <2>3, <2>4 DEF PreambleInv
<1>10. ASSUME NEW w \in PreambleWrite, lines = <<w>>,
              w.to = cbank_offsets[x].reg,
              w.from = "param" => w.label \in EntryLabels,
              Handled(x) => Denotes(w, x)
       PROVE  IInv'
  <2>0. PICK last : last = Len(preamble) + 1
    OBVIOUS
  <2>1. preamble' = Append(preamble, w)
    BY <1>1, <1>3, <1>10
  <2>2. /\ preamble' \in Seq(PreambleWrite)
        /\ DOMAIN preamble' = DOMAIN preamble \cup {last}
        /\ last \notin DOMAIN preamble
        /\ preamble'[last] = w
        /\ \A n \in DOMAIN preamble : preamble'[n] = preamble[n]
    BY <1>1, <2>0, <2>1
  <2>3. TypeOK'
    BY <1>1, <1>3, <2>2 DEF TypeOK
  <2>4. LoadsAreDeclared'
    BY <1>1, <1>10, <2>2 DEF LoadsAreDeclared
  <2>5. WritesTreated'
    BY <1>1, <1>6, <1>10, <2>2 DEF WritesTreated
  <2>6. WritesOf(cbank_offsets[x].reg) = {}
    <3>1. \A n \in DOMAIN preamble : preamble[n].to # cbank_offsets[x].reg
      BY <1>1, <1>4 DEF WritesTreated, Treated, DistinctRegisters
    <3> QED
      BY <3>1 DEF WritesOf
  <2>7. ASSUME NEW y \in Treated', Handled(y)'
        PROVE  \E n \in DOMAIN preamble' :
                 WritesOf(cbank_offsets[y].reg)' = {n} /\ Denotes(preamble[n], y)'
    <3>1. CASE y = x
      <4>1. WritesOf(cbank_offsets[y].reg)' = {last}
        BY <1>1, <1>10, <2>2, <2>6, <3>1 DEF WritesOf
      <4>2. Denotes(w, y)
        BY <1>7, <1>10, <2>7, <3>1
      <4>3. Denotes(preamble'[last], y)
        BY <2>2, <4>2
      <4>4. Denotes(preamble[last], y)'
        BY <1>1, <4>3 DEF Denotes
      <4> QED
        BY <2>2, <4>1, <4>4
    <3>2. CASE y # x
      <4>1. y \in Treated /\ Handled(y) /\ y \in DOMAIN cbank_offsets
        BY <1>6, <1>7, <2>7, <3>2 DEF Treated
      <4>2. PICK n \in DOMAIN preamble :
              WritesOf(cbank_offsets[y].reg) = {n} /\ Denotes(preamble[n], y)
        BY <1>1, <4>1 DEF TreatedWritten
      <4>3. cbank_offsets[x].reg # cbank_offsets[y].reg
        BY <1>4, <3>2, <4>1 DEF DistinctRegisters
      <4>4. WritesOf(cbank_offsets[y].reg)' = {n}
        BY <1>1, <1>10, <2>2, <4>2, <4>3 DEF WritesOf
      <4>5. Denotes(preamble'[n], y)
        BY <2>2, <4>2
      <4>6. Denotes(preamble[n], y)'
        BY <1>1, <4>5 DEF Denotes
      <4> QED
        BY <2>2, <4>4, <4>6
    <3> QED
      BY <3>1, <3>2
  <2>8. TreatedWritten'
    BY <2>7 DEF TreatedWritten
  <2> QED
    BY <1>8, <2>3, <2>4, <2>5, <2>8 DEF PreambleInv
<1> QED
  BY <1>5, <1>9, <1>10

LEMMA PreambleDoneIInv == IInv /\ PreambleDone => IInv'
<1> SUFFICES ASSUME IInv, PreambleDone PROVE IInv'
  OBVIOUS
<1> USE DEF IInv
<1>1. TypeOK'
  BY DEF TypeOK, PreambleDone, input, maps
<1>2. /\ DistinctRegisters' /\ MapsAgree' /\ LoadsAreDeclared'
      /\ WritesTreated' /\ TreatedWritten' /\ EntryLabels' = EntryLabels
  BY SameMaps DEF PreambleDone, PreambleInv
<1>3. ScanInv' /\ LowerInv'
  <2>1. /\ pc = "preamble" /\ pc' = "done"
        /\ UNCHANGED <<kernel, cbank_offsets, cbank_special_map, cbank_reg_map,
                       lowered>>
    BY DEF PreambleDone, input, maps
  <2>2. ScanInv'
    BY <2>1 DEF ScanInv, AllMapped, Mapped
  <2>3. LowerInv'
    BY <2>1 DEF LowerInv
  <2> QED
    BY <2>2, <2>3
<1>4. EntryInv' /\ PreambleInv'
  BY <1>2 DEF PreambleDone, EntryInv, PreambleInv
<1> QED
  BY <1>1, <1>2, <1>3, <1>4

LEMMA StutterIInv == IInv /\ UNCHANGED vars => IInv'
<1> SUFFICES ASSUME IInv, UNCHANGED vars PROVE IInv'
  OBVIOUS
<1> USE DEF IInv
<1>1. UNCHANGED <<input, maps, entry, pending, preamble, at, operand, lowered, pc>>
  BY DEF vars, input, maps
<1>2. TypeOK'
  BY <1>1 DEF TypeOK, input, maps
<1>3. /\ DistinctRegisters' /\ MapsAgree' /\ LoadsAreDeclared'
      /\ (WritesTreated /\ TreatedWritten => WritesTreated' /\ TreatedWritten')
      /\ EntryLabels' = EntryLabels
  BY <1>1, SameMaps
<1>4. ScanInv' /\ LowerInv'
  <2>1. UNCHANGED <<kernel, cbank_offsets, cbank_special_map, cbank_reg_map,
                    at, operand, lowered, pc>>
    BY <1>1 DEF input, maps
  <2>2. ScanInv'
    BY <2>1 DEF ScanInv, AllMapped, MappedUpTo, Mapped
  <2>3. LowerInv'
    BY <2>1 DEF LowerInv
  <2> QED
    BY <2>2, <2>3
<1>5. EntryInv' /\ PreambleInv'
  BY <1>1, <1>3 DEF EntryInv, PreambleInv
<1> QED
  BY <1>2, <1>3, <1>4, <1>5

-----------------------------------------------------------------------------
(* The theorems. *)

(* The inductive invariant holds of every behaviour of the two stages. *)
THEOREM Invariance == Spec => []IInv
<1>1. IInv /\ [Next]_vars => IInv'
  BY SkipOperandIInv, MapOffsetIInv, NextInstructionIInv, ScanDoneIInv,
     LowerInstructionIInv, EmitEntryDeclIInv, EmitPreambleIInv, PreambleDoneIInv,
     StutterIInv DEF Next, Finished
<1> QED
  BY InitIInv, <1>1, PTL DEF Spec

(* Every variable keeps its type; of the lowered kernel this says that no   *)
(* operand of constant bank 0 and no desc prefix is left in it.            *)
THEOREM TypeCorrectness == Spec => []TypeOK
<1>1. IInv => TypeOK
  BY DEF IInv
<1> QED
  BY Invariance, <1>1, PTL

(* build_cbank_maps never gives two offsets the same register. *)
THEOREM RegistersAreDistinct == Spec => []DistinctRegisters
<1>1. IInv => DistinctRegisters
  BY DEF IInv
<1> QED
  BY Invariance, <1>1, PTL

(* An operand of bank 0 the scan has met is replaced by its register. *)
LEMMA MappedIsResolved ==
  ASSUME IInv, NEW op, op.kind = "bank0", Mapped(op)
  PROVE  /\ op.value \in DOMAIN cbank_offsets
         /\ StripDesc(Resolved(op, cbank_special_map, cbank_reg_map))
              = Reg(cbank_offsets[op.value].reg)
<1>1. op.value \in DOMAIN cbank_offsets
  BY DEF Mapped
<1>2. Resolved(op, cbank_special_map, cbank_reg_map) = Reg(cbank_offsets[op.value].reg)
  BY <1>1 DEF Resolved, IInv, MapsAgree
<1>3. ASSUME NEW n \in Nat PROVE StripDesc(Reg(n)) = Reg(n)
  <2>1. Reg(n) \in [kind: {"reg"}, value: Nat, desc: {FALSE}]
    BY DEF Reg
  <2>2. \A r \in [kind: {"reg"}, value: Nat, desc: {FALSE}] :
          [r EXCEPT !.desc = FALSE] = r
    OBVIOUS
  <2> QED
    BY <2>1, <2>2 DEF StripDesc
<1>4. cbank_offsets[op.value].reg \in Nat
  BY <1>1 DEF IInv, TypeOK, Lowering
<1> QED
  BY <1>1, <1>2, <1>3, <1>4

(* resolve_cbank replaces every occurrence of a bank-0 constant, source or *)
(* destination, by the register the preamble associates with its offset:  *)
(* its fallback, the immediate 0, is unreachable.                          *)
THEOREM OccurrencesAreResolved == Spec => []EveryOccurrenceResolved
<1>1. ASSUME IInv PROVE EveryOccurrenceResolved
  <2> SUFFICES ASSUME NEW i \in DOMAIN lowered
               PROVE  /\ SameConstant(kernel[i].src, lowered[i].src)
                      /\ SameConstant(kernel[i].dst, lowered[i].dst)
    BY DEF EveryOccurrenceResolved
  <2>1. /\ i \in DOMAIN kernel
        /\ kernel[i] \in Instruction
        /\ lowered[i] = Lowered(kernel[i], cbank_special_map, cbank_reg_map)
    BY <1>1, KernelFacts DEF IInv, LowerInv
  <2>2. AllMapped(kernel[i])
    <3>1. pc # "scan"
      BY <1>1 DEF IInv, LowerInv
    <3> QED
      BY <1>1, <2>1, <3>1 DEF IInv, ScanInv
  <2>3. /\ \A n \in DOMAIN kernel[i].src : Mapped(kernel[i].src[n])
        /\ \A n \in DOMAIN kernel[i].dst : Mapped(kernel[i].dst[n])
    BY <2>1, <2>2, ScanOrderFacts, Zenon DEF AllMapped
  <2>4. /\ \A n \in DOMAIN kernel[i].src : lowered[i].src[n] =
             StripDesc(Resolved(kernel[i].src[n], cbank_special_map, cbank_reg_map))
        /\ \A n \in DOMAIN kernel[i].dst : lowered[i].dst[n] =
             StripDesc(Resolved(kernel[i].dst[n], cbank_special_map, cbank_reg_map))
    BY <2>1 DEF Lowered
  <2>5. SameConstant(kernel[i].src, lowered[i].src)
    BY <1>1, <2>3, <2>4, MappedIsResolved DEF SameConstant
  <2>6. SameConstant(kernel[i].dst, lowered[i].dst)
    BY <1>1, <2>3, <2>4, MappedIsResolved DEF SameConstant
  <2> QED
    BY <2>5, <2>6
<1> QED
  BY Invariance, <1>1, PTL

(* The preamble writes only registers the lowering handed out, each at     *)
(* most once, and every register of a special register or of a parameter   *)
(* (with nvinfo: one that a kparam covers) from what its offset denotes.   *)
THEOREM PreambleIsComplete == Spec => []PreambleInitialises
<1>1. IInv => PreambleInitialises
  BY DEF IInv, PreambleInv, EntryInv, WritesTreated, TreatedWritten, Treated,
         PreambleInitialises
<1> QED
  BY Invariance, <1>1, PTL

(* A parameter the preamble loads is a parameter of the PTX entry. *)
THEOREM LoadsHaveDeclarations == Spec => []LoadsAreDeclared
<1>1. IInv => LoadsAreDeclared
  BY DEF IInv
<1> QED
  BY Invariance, <1>1, PTL

=============================================================================
