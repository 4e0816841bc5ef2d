-------------------------------- MODULE Cbank --------------------------------
(***************************************************************************)
(* Constant bank 0 between two stages of the pipeline.                     *)
(*                                                                         *)
(*   lower  build_cbank_maps gives every offset c[0][offset] that occurs   *)
(*          in the kernel a general register and a lowering (special       *)
(*          register, parameter or `Zero'), and resolve_cbank puts that    *)
(*          register in place of every occurrence                          *)
(*   emit   emit_entry_decl declares the parameters of the PTX entry and   *)
(*          emit_cbank_preamble writes, before the first instruction, the  *)
(*          registers the first stage handed out                           *)
(*                                                                         *)
(* The stages share ctx.cbank_offsets, cbank_reg_map, cbank_special_map    *)
(* and agree on nothing else: a register the preamble does not write is    *)
(* read uninitialised by the kernel body.  Register names are numbers      *)
(* (%r8 is 8) and parameter labels are indices (out, in, param2 ...).      *)
(***************************************************************************)
EXTENDS Integers, Sequences, FiniteSets

CONSTANTS
  Opcodes,     \* the opcodes that occur, MOV among them
  Kernels,     \* the instruction sequences considered
  SmVersions,  \* the values of options.sm_version considered
  NvInfos,     \* the values of ctx.nvinfo considered
  Word         \* the number of u32 values, the modulus of wrapping_sub

(***************************************************************************)
(* Operands.  `bank0' is ConstantBank { bank: 0 }, `bank' any other bank;  *)
(* value is the offset, register number or immediate, and desc tells       *)
(* whether a memory operand carries a desc[UR] prefix.                     *)
(***************************************************************************)
U32 == 0..(Word - 1)

Operand ==
  [kind: {"bank0", "bank", "reg", "mem", "imm"}, value: U32, desc: BOOLEAN]

Instruction ==
  [op: Opcodes, wide: BOOLEAN, dst: Seq(Operand), src: Seq(Operand)]

Reg(n) == [kind |-> "reg", value |-> n, desc |-> FALSE]
Imm(v) == [kind |-> "imm", value |-> v, desc |-> FALSE]

(* NvKparam and NvKernelInfo, as much of them as emit reads. *)
KParam == [ordinal: Nat, offset: Nat, size: Nat]
NoNvInfo == [present |-> FALSE, base |-> 0, kparams |-> <<>>]
NvInfo == [present: BOOLEAN, base: Nat, kparams: Seq(KParam)]

ASSUME KernelsAssumption ==
  /\ Word \in Nat \ {0}
  /\ "MOV" \in Opcodes
  /\ Kernels \subseteq Seq(Instruction)
  /\ SmVersions \subseteq Nat
  /\ NvInfos \subseteq NvInfo

(* nvinfo's fields are u16: neither p.offset + p.size nor the sum with the *)
(* base reaches the width it is computed in (parameters fill some KB).     *)
ASSUME NvInfoAssumption ==
  \A nv \in NvInfos : \A n \in DOMAIN nv.kparams :
    nv.base + nv.kparams[n].offset + nv.kparams[n].size < Word

-----------------------------------------------------------------------------
(* The tables. *)

cuda_param_base(sm) == IF sm \in {89, 90} THEN 352 ELSE 896   \* 0x160, 0x380

SpecialName ==
  [x \in {0, 4, 8, 16, 20, 24, 32, 36, 40, 64, 68} |->
     CASE x = 0  -> "%tid.x"   [] x = 4  -> "%tid.y"   [] x = 8  -> "%tid.z"
       [] x = 16 -> "%ntid.x"  [] x = 20 -> "%ntid.y"  [] x = 24 -> "%ntid.z"
       [] x = 32 -> "%ctaid.x" [] x = 36 -> "%ctaid.y" [] x = 40 -> "%ctaid.z"
       [] x = 64 -> "%laneid"  [] x = 68 -> "%warpid"]

cbank_special_register == DOMAIN SpecialName

(* _launchinfo_special_reg: the one offset per SM family that holds ntid.x. *)
LaunchInfoOffset(sm) == IF sm \in {89, 90} THEN 352 ELSE 864  \* 0x160, 0x360

(***************************************************************************)
(* CbankLowering: the register, and the special register's name or the     *)
(* parameter's index.                                                      *)
(***************************************************************************)
Lowering == [kind: {"special", "param", "zero"}, reg: Nat, index: Nat]

LoweringOf(sm, offset, reg) ==
  [kind  |-> IF offset \in cbank_special_register THEN "special"
             ELSE IF offset >= cuda_param_base(sm) THEN "param" ELSE "zero",
   reg   |-> reg,
   index |-> IF offset >= cuda_param_base(sm)
             THEN (offset - cuda_param_base(sm)) \div 8 ELSE 0]

(* HashMap::insert of a new key. *)
With(map, key, value) ==
  [x \in DOMAIN map \cup {key} |-> IF x = key THEN value ELSE map[x]]

(* resolve_cbank: the special map, then the register map, then zero. *)
(* Mutant: an operand of a bank that has no special register stays. *)
Resolved_special_only(op, specials, regs) ==
  IF op.kind = "bank0" /\ op.value \in DOMAIN specials
  THEN Reg(specials[op.value]) ELSE op

Resolved(op, specials, regs) ==
  IF op.kind # "bank0" THEN op
  ELSE IF op.value \in DOMAIN specials THEN Reg(specials[op.value])
  ELSE IF op.value \in DOMAIN regs THEN Reg(regs[op.value])
  ELSE Imm(0)

StripDesc(op) == [op EXCEPT !.desc = FALSE]

LoadConstant == {"LDC", "LDCU", "ULDC"}

(***************************************************************************)
(* One turn of the lowering loop: operands, LDC to MOV, desc[UR].  wide is *)
(* the `64' modifier, which the MOV keeps as `ldc64'.                      *)
(***************************************************************************)
Lowered(inst, specials, regs) ==
  LET each(ops) ==
        [n \in DOMAIN ops |-> StripDesc(Resolved(ops[n], specials, regs))]
  IN  [op   |-> IF inst.op \in LoadConstant THEN "MOV" ELSE inst.op,
       wide |-> inst.wide,
       dst  |-> each(inst.dst),
       src  |-> each(inst.src)]

(* The order build_cbank_maps looks at an instruction's operands in. *)
(* Mutant: destinations are not scanned. *)
ScanOrder_sources_only(inst) == inst.src

ScanOrder(inst) == inst.src \o inst.dst

-----------------------------------------------------------------------------
VARIABLES
  kernel,             \* ctx.instructions before the stage
  sm,                 \* ctx.options.sm_version
  nvinfo,             \* ctx.nvinfo
  cbank_offsets,      \* ctx.cbank_offsets
  cbank_special_map,  \* ctx.cbank_special_map
  cbank_reg_map,      \* ctx.cbank_reg_map
  gpr_counter,        \* build_cbank_maps' next register
  at,                 \* the instruction a loop is at
  operand,            \* the operand of it the scan is at
  lowered,            \* ctx.instructions after the stage
  entry,              \* the parameter labels of the PTX entry
  pending,            \* the offsets emit_cbank_preamble has still to visit
  preamble,           \* the register writes of the preamble
  pc

vars == <<kernel, sm, nvinfo, cbank_offsets, cbank_special_map, cbank_reg_map,
          gpr_counter, at, operand, lowered, entry, pending, preamble, pc>>

maps == <<cbank_offsets, cbank_special_map, cbank_reg_map, gpr_counter>>
input == <<kernel, sm, nvinfo>>

Init ==
  /\ kernel \in Kernels
  /\ sm \in SmVersions
  /\ nvinfo \in NvInfos
  /\ cbank_offsets = <<>>
  /\ cbank_special_map = <<>>
  /\ cbank_reg_map = <<>>
  /\ gpr_counter = 8
  /\ at = 1
  /\ operand = 1
  /\ lowered = <<>>
  /\ entry = {}
  /\ pending = {}
  /\ preamble = <<>>
  /\ pc = "scan"

Scanned == ScanOrder(kernel[at])[operand]

(* `_ => continue', and the offsets already mapped. *)
SkipOperand ==
  /\ pc = "scan"
  /\ at <= Len(kernel)
  /\ operand <= Len(ScanOrder(kernel[at]))
  /\ Scanned.kind = "bank0" => Scanned.value \in DOMAIN cbank_offsets
  /\ operand' = operand + 1
  /\ UNCHANGED <<input, maps, at, lowered, entry, pending, preamble, pc>>

(* Mutant: a `Zero' entry does not consume its register. *)
MapOffset_zero_keeps_counter ==
  /\ pc = "scan"
  /\ at <= Len(kernel)
  /\ operand <= Len(ScanOrder(kernel[at]))
  /\ Scanned.kind = "bank0"
  /\ Scanned.value \notin DOMAIN cbank_offsets
  /\ LET low == LoweringOf(sm, Scanned.value, gpr_counter)
     IN  /\ cbank_offsets' = With(cbank_offsets, Scanned.value, low)
         /\ cbank_special_map' = IF low.kind = "special"
              THEN With(cbank_special_map, Scanned.value, gpr_counter)
              ELSE cbank_special_map
         /\ cbank_reg_map' = IF low.kind = "special" THEN cbank_reg_map
              ELSE With(cbank_reg_map, Scanned.value, gpr_counter)
         /\ gpr_counter' = gpr_counter + (IF low.kind = "zero" THEN 0 ELSE 1)
  /\ operand' = operand + 1
  /\ UNCHANGED <<input, at, lowered, entry, pending, preamble, pc>>

(* A new offset takes the next register, whatever its lowering. *)
MapOffset ==
  /\ pc = "scan"
  /\ at <= Len(kernel)
  /\ operand <= Len(ScanOrder(kernel[at]))
  /\ Scanned.kind = "bank0"
  /\ Scanned.value \notin DOMAIN cbank_offsets
  /\ LET low == LoweringOf(sm, Scanned.value, gpr_counter)
     IN  /\ cbank_offsets' = With(cbank_offsets, Scanned.value, low)
         /\ cbank_special_map' = IF low.kind = "special"
              THEN With(cbank_special_map, Scanned.value, gpr_counter)
              ELSE cbank_special_map
         /\ cbank_reg_map' = IF low.kind = "special" THEN cbank_reg_map
              ELSE With(cbank_reg_map, Scanned.value, gpr_counter)
  /\ gpr_counter' = gpr_counter + 1
  /\ operand' = operand + 1
  /\ UNCHANGED <<input, at, lowered, entry, pending, preamble, pc>>

NextInstruction ==
  /\ pc = "scan"
  /\ at <= Len(kernel)
  /\ operand > Len(ScanOrder(kernel[at]))
  /\ at' = at + 1
  /\ operand' = 1
  /\ UNCHANGED <<input, maps, lowered, entry, pending, preamble, pc>>

ScanDone ==
  /\ pc = "scan"
  /\ at > Len(kernel)
  /\ at' = 1
  /\ pc' = "lower"
  /\ UNCHANGED <<input, maps, operand, lowered, entry, pending, preamble>>

LowerInstruction ==
  /\ pc = "lower"
  /\ at <= Len(kernel)
  /\ lowered' = Append(lowered, Lowered(kernel[at], cbank_special_map, cbank_reg_map))
  /\ at' = at + 1
  /\ UNCHANGED <<input, maps, operand, entry, pending, preamble, pc>>

-----------------------------------------------------------------------------
(* emit *)

ParamIndices ==
  {cbank_offsets[x].index : x \in {y \in DOMAIN cbank_offsets :
                                     cbank_offsets[y].kind = "param"}}

(***************************************************************************)
(* emit_entry_decl: one label per kparam of nvinfo, or every index up to   *)
(* the greatest one that occurs.                                           *)
(***************************************************************************)
(* Mutant: the greatest index is left out. *)
EntryLabels_exclusive ==
  IF nvinfo.present /\ nvinfo.kparams # <<>>
  THEN {nvinfo.kparams[n].ordinal : n \in DOMAIN nvinfo.kparams}
  ELSE UNION {0..(n - 1) : n \in ParamIndices}

EntryLabels ==
  IF nvinfo.present /\ nvinfo.kparams # <<>>
  THEN {nvinfo.kparams[n].ordinal : n \in DOMAIN nvinfo.kparams}
  ELSE UNION {0..n : n \in ParamIndices}

EmitEntryDecl ==
  /\ pc = "lower"
  /\ at > Len(kernel)
  /\ entry' = EntryLabels
  /\ pending' = DOMAIN cbank_offsets
  /\ pc' = "preamble"
  /\ UNCHANGED <<input, maps, at, operand, lowered, preamble>>

(* offset.wrapping_sub(param_cbank_offset as u32) *)
Relative(offset) ==
  IF offset >= nvinfo.base THEN offset - nvinfo.base
  ELSE offset + Word - nvinfo.base

Covers(k, offset) ==
  Relative(offset) >= k.offset /\ Relative(offset) < k.offset + k.size

Covering(offset) == {n \in DOMAIN nvinfo.kparams : Covers(nvinfo.kparams[n], offset)}

(* kparams.iter().find(..): the least index, if any. *)
FirstCovering(offset) ==
  {n \in Covering(offset) : \A m \in Covering(offset) : n <= m}

(* One write of the preamble; label and byte are meant for a parameter. *)
Write(to, from, label, byte) ==
  [to |-> to, from |-> from, label |-> label, byte |-> byte]

SpecialNames == {SpecialName[x] : x \in cbank_special_register}

PreambleWrite ==
  [to: Nat, from: {"param", "%ntid.x"} \cup SpecialNames, label: Nat, byte: Nat]

(***************************************************************************)
(* The lines emit_cbank_preamble writes for one entry, none or one: a set  *)
(* of one sequence.                                                        *)
(***************************************************************************)
ParamLoad(offset, low) ==
  IF ~nvinfo.present THEN {<<Write(low.reg, "param", low.index, 0)>>}
  ELSE IF Covering(offset) = {} THEN {<<>>}
  ELSE {<<Write(low.reg, "param", nvinfo.kparams[n].ordinal,
                Relative(offset) - nvinfo.kparams[n].offset)>> :
          n \in FirstCovering(offset)}

LaunchInfoMove(offset) ==
  IF offset = LaunchInfoOffset(sm) /\ offset \in DOMAIN cbank_reg_map
  THEN {<<Write(cbank_reg_map[offset], "%ntid.x", 0, 0)>>}
  ELSE {<<>>}

(* Mutant: only parameters are loaded. *)
LinesFor_params_only(offset) ==
  LET low == cbank_offsets[offset]
  IN  IF low.kind = "param" THEN ParamLoad(offset, low) ELSE {<<>>}

LinesFor(offset) ==
  LET low == cbank_offsets[offset]
  IN  CASE low.kind = "special" -> {<<Write(low.reg, SpecialName[offset], 0, 0)>>}
        [] low.kind = "param"   -> ParamLoad(offset, low)
        [] low.kind = "zero"    -> LaunchInfoMove(offset)

(* The entries in the order of their offsets. *)
EmitPreamble ==
  /\ pc = "preamble"
  /\ \E x \in pending :
       /\ \A y \in pending : x <= y
       /\ \E lines \in LinesFor(x) : preamble' = preamble \o lines
       /\ pending' = pending \ {x}
  /\ UNCHANGED <<input, maps, at, operand, lowered, entry, pc>>

PreambleDone ==
  /\ pc = "preamble"
  /\ pending = {}
  /\ pc' = "done"
  /\ UNCHANGED <<input, maps, at, operand, lowered, entry, pending, preamble>>

Finished == pc = "done" /\ UNCHANGED vars

Next ==
  \/ SkipOperand
  \/ MapOffset
  \/ NextInstruction
  \/ ScanDone
  \/ LowerInstruction
  \/ EmitEntryDecl
  \/ EmitPreamble
  \/ PreambleDone
  \/ Finished

Spec == Init /\ [][Next]_vars

-----------------------------------------------------------------------------
(***************************************************************************)
(* Types.  The lowered kernel holds no operand of bank 0 and no desc.      *)
(***************************************************************************)
LoweredOperand ==
  [kind: {"bank", "reg", "mem", "imm"}, value: Nat, desc: {FALSE}]

LoweredInstruction ==
  [op: Opcodes, wide: BOOLEAN, dst: Seq(LoweredOperand), src: Seq(LoweredOperand)]

TypeOK ==
  /\ kernel \in Kernels
  /\ sm \in SmVersions
  /\ nvinfo \in NvInfos
  /\ DOMAIN cbank_offsets \subseteq Nat
  /\ cbank_offsets \in [DOMAIN cbank_offsets -> Lowering]
  /\ cbank_special_map \in [DOMAIN cbank_special_map -> Nat]
  /\ cbank_reg_map \in [DOMAIN cbank_reg_map -> Nat]
  /\ gpr_counter \in Nat
  /\ at \in Nat \ {0}
  /\ operand \in Nat \ {0}
  /\ lowered \in Seq(LoweredInstruction)
  /\ entry \subseteq Nat
  /\ pending \subseteq DOMAIN cbank_offsets
  /\ preamble \in Seq(PreambleWrite)
  /\ pc \in {"scan", "lower", "preamble", "done"}

(***************************************************************************)
(* Two offsets never share a register, so no constant is read through the  *)
(* register of another (build_cbank_maps advances one counter on each of   *)
(* its three branches).                                                    *)
(***************************************************************************)
DistinctRegisters ==
  \A x, y \in DOMAIN cbank_offsets :
    x # y => cbank_offsets[x].reg # cbank_offsets[y].reg

(***************************************************************************)
(* Every occurrence of c[0][x], source or destination, becomes the         *)
(* register the preamble associates with x: resolve_cbank reads two other  *)
(* maps than the preamble does, and its fallback, the immediate 0, is      *)
(* never reached.                                                          *)
(***************************************************************************)
SameConstant(before, after) ==
  \A n \in DOMAIN before :
    before[n].kind = "bank0" =>
      /\ before[n].value \in DOMAIN cbank_offsets
      /\ after[n] = Reg(cbank_offsets[before[n].value].reg)

EveryOccurrenceResolved ==
  \A i \in DOMAIN lowered :
    /\ SameConstant(kernel[i].src, lowered[i].src)
    /\ SameConstant(kernel[i].dst, lowered[i].dst)

(***************************************************************************)
(* The preamble writes a register at most once, only registers the         *)
(* lowering handed out, and, when the kernel body starts, every register   *)
(* that stands for a special register or for a parameter (with nvinfo: one *)
(* a kparam covers) has been written from what its offset denotes.         *)
(***************************************************************************)
WritesOf(reg) == {n \in DOMAIN preamble : preamble[n].to = reg}

Handled(x) ==
  \/ cbank_offsets[x].kind = "special"
  \/ cbank_offsets[x].kind = "param" /\ (nvinfo.present => Covering(x) # {})

Denotes(w, x) ==
  IF x \in cbank_special_register THEN w.from = SpecialName[x]
  ELSE /\ w.from = "param"
       /\ IF nvinfo.present
          THEN \E k \in {nvinfo.kparams[n] : n \in DOMAIN nvinfo.kparams} :
                 /\ w.label = k.ordinal
                 /\ w.byte < k.size
                 /\ nvinfo.base + k.offset + w.byte = x
          ELSE /\ cuda_param_base(sm) + 8 * w.label <= x
               /\ x < cuda_param_base(sm) + 8 * (w.label + 1)

PreambleInitialises ==
  pc = "done" =>
    /\ \A n \in DOMAIN preamble : \E x \in DOMAIN cbank_offsets :
         preamble[n].to = cbank_offsets[x].reg
    /\ \A x \in {y \in DOMAIN cbank_offsets : Handled(y)} :
         \E n \in DOMAIN preamble :
           WritesOf(cbank_offsets[x].reg) = {n} /\ Denotes(preamble[n], x)

(***************************************************************************)
(* Every parameter the preamble loads is declared by the entry: the label  *)
(* comes from nvinfo or from param_idx in both emit_entry_decl and         *)
(* emit_cbank_preamble, decided apart.                                     *)
(***************************************************************************)
LoadsAreDeclared ==
  \A n \in DOMAIN preamble :
    preamble[n].from = "param" => preamble[n].label \in entry
=============================================================================
