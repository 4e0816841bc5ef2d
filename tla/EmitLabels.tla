----------------------------- MODULE EmitLabels -----------------------------
(***************************************************************************)
(* Labels, branches and barriers in the emitted PTX (emit/mod.rs): the     *)
(* branch targets are collected, every BSYNC is paired with the BSSY its   *)
(* barrier was opened by, and the instructions are emitted in order, each  *)
(* branch target getting a label; targets without an instruction get one   *)
(* at the end.                                                             *)
(*                                                                         *)
(* An instruction is emitted as one line: a `bra', a `ret', or a line that *)
(* does not branch (what the other rules write, and comments).             *)
(***************************************************************************)
EXTENDS Bridge, FiniteSets

CONSTANTS
  Address,   \* the addresses that occur as targets, and 0
  Barrier,   \* the convergence barriers
  Kernels,   \* the sequences of instructions considered
  RegNo,     \* the register numbers branches name
  Assignments  \* the classes of the general registers, from type_infer

Predicate == {"P0", "P1", "UP0", "UP1"}
Guard == {"none", "never"} \cup Predicate   \* `never' is @!PT
NoBarrier == "no barrier"

(* barrier is what bssy_info and bsync_barrier read off the text. *)
Instruction ==
  [address: Address, op: STRING, mods: Seq(STRING), guard: Guard,
   barrier: Barrier \cup {NoBarrier},
   dst: Seq(SassOperand), src: Seq(SassOperand)]

Class == {"Int", "I64", "F32", "F64", "Pred"}

AddressOperand(a) == Immediate(Pattern("int", 4 * a))

(* Mutant: calls are no branches. *)
IsBranch_without_calls(inst) == inst.op \in {"BRA", "JMP", "JMXU", "BSSY", "BSYNC", "BPT", "BRX", "JMX"}

IsBranch(inst) == inst.op \in {"BRA", "JMP", "JMXU", "BSSY", "BSYNC", "BPT", "BRX", "JMX",
                         "CALL", "CAL"}

-----------------------------------------------------------------------------
(***************************************************************************)
(* branch_addr on the operands as parsed; the rules look at them after the *)
(* bridge.                                                                 *)
(***************************************************************************)
Operands(inst) == inst.dst \o inst.src

Naming(ops) ==
  {n \in DOMAIN ops : ops[n].kind = "imm" /\ ops[n].bits.form = "int" /\ ops[n].bits.of >= 0}
First(set) == CHOOSE n \in set : \A m \in set : n <= m

HasTarget(inst) == Naming(Operands(inst)) # {}
branch_addr(inst) == Operands(inst)[First(Naming(Operands(inst)))].bits.of \div 4

(* Branches have no floating-point operands, and name registers of RegNo. *)
ASSUME EmitAssumption ==
  /\ Address \subseteq Nat /\ 0 \in Address
  /\ NoBarrier \notin Barrier
  /\ Kernels \subseteq Seq(Instruction)
  /\ RegNo \subseteq Nat
  /\ Assignments \subseteq [RegNo -> SUBSET Class]
  /\ \A k \in Kernels : \A n \in DOMAIN k :
       /\ HasTarget(k[n]) => branch_addr(k[n]) \in Address
       /\ IsBranch(k[n]) =>
            /\ \A m \in DOMAIN Operands(k[n]) : Operands(k[n])[m].kind # "fimm"
            /\ HasDst(k[n]) => dst_reg(k[n]) \in RegNo

IsAddress(op) == op.op = "Imm" /\ op.bits.form = "int" /\ op.bits.of >= 0

(* bra.rs and jmp.rs: the first operand that is an address, or 0. *)
bra(ri) ==
  LET ops  == ri.dst \o ri.src
      imms == {n \in DOMAIN ops : IsAddress(ops[n])}
  IN  IF imms = {} THEN 0 ELSE ops[First(imms)].bits.of \div 4

(* translate_one: the opcodes of control flow, and a line of another rule. *)
(* The psi registers make no difference to these opcodes.                  *)
Line(what, to, guard, of) == [what |-> what, to |-> to, guard |-> guard, of |-> of]
Comment(of) == Line("comment", 0, "none", of)

(* pred_prefix: the register's number with the name %p. *)
pred_prefix(guard) ==
  CASE guard \in {"P0", "UP0"} -> "P0" [] guard \in {"P1", "UP1"} -> "P1" [] OTHER -> guard

(* call.rs: only the first operand is looked at; a register is written as  *)
(* the operand of bra.uni.                                                 *)
call(ri, guard, of) ==
  LET ops == ri.dst \o ri.src
  IN  CASE 1 \in DOMAIN ops /\ IsAddress(ops[1]) ->
             Line("bra", ops[1].bits.of \div 4, guard, of)
        [] 1 \in DOMAIN ops /\ ops[1].op = "Gpr" -> Line("line", 0, guard, of)
        [] OTHER -> Comment(of)

translate_one(inst, types, of) ==
  LET ri == to_rule_inst_from(inst, types, {})
      guard == pred_prefix(inst.guard)
  IN  CASE inst.op \in {"BRA", "JMP"}  -> Line("bra", bra(ri), guard, of)
        [] inst.op \in {"EXIT", "RET"} -> Line("ret", 0, guard, of)
        [] inst.op = "CALL"            -> call(ri, guard, of)
        [] inst.op \in {"BRX", "JMX", "BRXU", "JMXU"} -> Comment(of)
        [] OTHER                       -> Line("line", 0, guard, of)

-----------------------------------------------------------------------------
VARIABLES
  kernel,   \* ctx.instructions
  types,    \* ctx.type_constraints
  stage, i, \* the pass, and the instruction it is at
  branch_targets, stacks, bsync_rewrite,
  emitted_labels,
  left,     \* the targets the last pass has still to visit
  out       \* the output, label lines being [what |-> "label", to |-> address]

emitVars == <<kernel, types, stage, i, branch_targets, stacks, bsync_rewrite,
              emitted_labels, left, out>>

Init ==
  /\ kernel \in Kernels
  /\ types \in Assignments
  /\ stage = "collect" /\ i = 1
  /\ branch_targets = {}
  /\ stacks = [b \in Barrier |-> <<>>]
  /\ bsync_rewrite = << >>
  /\ emitted_labels = {}
  /\ left = {}
  /\ out = <<>>

Here == kernel[i]

(* One instruction of collect_branch_targets. *)
CollectBranchTarget ==
  /\ stage = "collect" /\ i <= Len(kernel)
  /\ branch_targets' = branch_targets \cup
       (IF IsBranch(Here) /\ HasTarget(Here) THEN {branch_addr(Here)} ELSE {})
  /\ i' = i + 1
  /\ UNCHANGED <<kernel, types, stage, stacks, bsync_rewrite, emitted_labels, left, out>>

Collected ==
  /\ stage = "collect" /\ i > Len(kernel)
  /\ stage' = "pair" /\ i' = 1
  /\ UNCHANGED <<kernel, types, branch_targets, stacks, bsync_rewrite, emitted_labels,
                 left, out>>

(* One instruction of build_bssy_map. *)
IsOpening(inst) == inst.op = "BSSY" /\ inst.barrier # NoBarrier /\ HasTarget(inst)
IsClosing(inst) == inst.op = "BSYNC" /\ inst.barrier # NoBarrier

Rewritten(address, target) ==
  [a \in DOMAIN bsync_rewrite \cup {address} |->
     IF a = address THEN target ELSE bsync_rewrite[a]]

Open ==
  /\ stage = "pair" /\ i <= Len(kernel)
  /\ IsOpening(Here)
  /\ stacks' = [stacks EXCEPT ![Here.barrier] = Append(@, branch_addr(Here))]
  /\ branch_targets' = branch_targets \cup {branch_addr(Here)}
  /\ i' = i + 1
  /\ UNCHANGED <<kernel, types, stage, bsync_rewrite, emitted_labels, left, out>>

(* Mutant: the oldest open BSSY is closed. *)
Close_fifo ==
  /\ stage = "pair" /\ i <= Len(kernel)
  /\ IsClosing(Here)
  /\ LET stack == stacks[Here.barrier]
     IN  IF stack = <<>> THEN UNCHANGED <<stacks, bsync_rewrite>>
         ELSE /\ stacks' = [stacks EXCEPT ![Here.barrier] = Tail(@)]
              /\ bsync_rewrite' = Rewritten(Here.address, Head(stack))
  /\ i' = i + 1
  /\ UNCHANGED <<kernel, types, stage, branch_targets, emitted_labels, left, out>>

Close ==
  /\ stage = "pair" /\ i <= Len(kernel)
  /\ IsClosing(Here)
  /\ LET stack == stacks[Here.barrier]
     IN  IF stack = <<>> THEN UNCHANGED <<stacks, bsync_rewrite>>
         ELSE /\ stacks' = [stacks EXCEPT ![Here.barrier] = SubSeq(@, 1, Len(@) - 1)]
              /\ bsync_rewrite' = Rewritten(Here.address, stack[Len(stack)])
  /\ i' = i + 1
  /\ UNCHANGED <<kernel, types, stage, branch_targets, emitted_labels, left, out>>

PassBy ==
  /\ stage = "pair" /\ i <= Len(kernel)
  /\ ~IsOpening(Here) /\ ~IsClosing(Here)
  /\ i' = i + 1
  /\ UNCHANGED <<kernel, types, stage, branch_targets, stacks, bsync_rewrite,
                 emitted_labels, left, out>>

(* The entry label. *)
Paired ==
  /\ stage = "pair" /\ i > Len(kernel)
  /\ branch_targets' = branch_targets \cup {0}
  /\ stage' = "emit" /\ i' = 1
  /\ UNCHANGED <<kernel, types, stacks, bsync_rewrite, emitted_labels, left, out>>

(* One instruction of the loop that emits; @!PT is skipped, label and all. *)
Label(a) == [what |-> "label", to |-> a, guard |-> "none", of |-> 0]
(* Mutants: a label again, and a label for every instruction. *)
Labelled_again == Here.address \in branch_targets
Labelled_always == Here.address \notin emitted_labels

Labelled == Here.address \in branch_targets \ emitted_labels

LineOf(inst) ==
  CASE inst.op = "BSSY"  -> Comment(i)
    [] inst.op = "BSYNC" ->
         IF inst.address \in DOMAIN bsync_rewrite
         THEN Line("bra", bsync_rewrite[inst.address], pred_prefix(inst.guard), i)
         ELSE Comment(i)
    [] OTHER -> translate_one(inst, types, i)

SkipInstruction ==
  /\ stage = "emit" /\ i <= Len(kernel)
  /\ Here.guard = "never"
  /\ i' = i + 1
  /\ UNCHANGED <<kernel, types, stage, branch_targets, stacks, bsync_rewrite,
                 emitted_labels, left, out>>

(* Mutant: the label comes after its instruction. *)
EmitInstruction_label_after ==
  /\ stage = "emit" /\ i <= Len(kernel)
  /\ Here.guard # "never"
  /\ LET body == Append(out, LineOf(Here))
     IN  out' = IF Labelled THEN Append(body, Label(Here.address)) ELSE body
  /\ emitted_labels' = emitted_labels \cup (IF Labelled THEN {Here.address} ELSE {})
  /\ i' = i + 1
  /\ UNCHANGED <<kernel, types, stage, branch_targets, stacks, bsync_rewrite, left>>

EmitInstruction ==
  /\ stage = "emit" /\ i <= Len(kernel)
  /\ Here.guard # "never"
  /\ LET head == IF Labelled THEN Append(out, Label(Here.address)) ELSE out
     IN  out' = Append(head, LineOf(Here))
  /\ emitted_labels' = emitted_labels \cup (IF Labelled THEN {Here.address} ELSE {})
  /\ i' = i + 1
  /\ UNCHANGED <<kernel, types, stage, branch_targets, stacks, bsync_rewrite, left>>

Emitted ==
  /\ stage = "emit" /\ i > Len(kernel)
  /\ stage' = "labels" /\ left' = branch_targets
  /\ UNCHANGED <<kernel, types, i, branch_targets, stacks, bsync_rewrite,
                 emitted_labels, out>>

(* The targets without a label so far, in the order of the HashSet. *)
EmitMissingLabel(a) ==
  /\ stage = "labels" /\ a \in left
  /\ out' = IF a \in emitted_labels THEN out ELSE Append(out, Label(a))
  /\ left' = left \ {a}
  /\ UNCHANGED <<kernel, types, stage, i, branch_targets, stacks, bsync_rewrite,
                 emitted_labels>>

Closed ==
  /\ stage = "labels" /\ left = {}
  /\ stage' = "done"
  /\ UNCHANGED <<kernel, types, i, branch_targets, stacks, bsync_rewrite,
                 emitted_labels, left, out>>

EmitStep ==
  \/ CollectBranchTarget \/ Collected
  \/ Open \/ Close \/ PassBy \/ Paired
  \/ SkipInstruction \/ EmitInstruction \/ Emitted
  \/ (\E a \in left : EmitMissingLabel(a))

EmitNext == EmitStep \/ Closed

Spec == Init /\ [][EmitNext]_emitVars

-----------------------------------------------------------------------------
OutLine ==
  [what: {"label", "bra", "ret", "line", "comment"}, to: Address,
   guard: {"none", "P0", "P1", "never"}, of: Nat]

TypeOK ==
  /\ kernel \in Seq(Instruction) /\ types \in [RegNo -> SUBSET Class]
  /\ stage \in {"collect", "pair", "emit", "labels", "done"}
  /\ i \in 1..(Len(kernel) + 1)
  /\ branch_targets \subseteq Address
  /\ stacks \in [Barrier -> Seq(Address)]
  /\ DOMAIN bsync_rewrite \subseteq Address
  /\ \A a \in DOMAIN bsync_rewrite : bsync_rewrite[a] \in Address
  /\ emitted_labels \subseteq branch_targets
  /\ left \subseteq branch_targets
  /\ out \in Seq(OutLine)

(***************************************************************************)
(* PTX has one name space of labels: no label is defined twice, whatever   *)
(* addresses repeat (the subroutines of a module reuse them) ...           *)
(***************************************************************************)
LabelsAt(a) == {n \in DOMAIN out : out[n].what = "label" /\ out[n].to = a}

LabelsAreUnique ==
  \A n, m \in DOMAIN out :
    out[n].what = "label" /\ out[m].what = "label" /\ out[n].to = out[m].to => n = m

(***************************************************************************)
(* ... and the finished kernel defines every label it branches to, though  *)
(* targets are collected from SASS operands and branches made from the     *)
(* bridge's, or from the stacks of the barriers.                           *)
(***************************************************************************)
BranchesAreDefined ==
  stage = "done" =>
    \A n \in DOMAIN out : out[n].what = "bra" => LabelsAt(out[n].to) # {}

(***************************************************************************)
(* In a kernel whose addresses do not repeat, a BSYNC has the target of    *)
(* the BSSY that opens the bracket it closes: between the two, its barrier *)
(* is closed as often as it is opened, and never more often.               *)
(***************************************************************************)
UniqueAddresses ==
  \A n, m \in DOMAIN kernel : kernel[n].address = kernel[m].address => n = m

Opened(b, n, m) == Cardinality({k \in n..m : IsOpening(kernel[k]) /\ kernel[k].barrier = b})
ClosedIn(b, n, m) == Cardinality({k \in n..m : IsClosing(kernel[k]) /\ kernel[k].barrier = b})

Bracket(n, m) ==
  /\ IsOpening(kernel[n]) /\ IsClosing(kernel[m])
  /\ LET b == kernel[n].barrier
     IN  /\ kernel[m].barrier = b
         /\ Opened(b, n, m) = ClosedIn(b, n, m)
         /\ \A k \in n..(m - 1) : Opened(b, n, k) > ClosedIn(b, n, k)

PairsAreBrackets ==
  stage \notin {"collect", "pair"} /\ UniqueAddresses =>
    \A m \in {k \in DOMAIN kernel : IsClosing(kernel[k])} :
      LET starts == {n \in 1..m : Bracket(n, m)}
      IN  IF kernel[m].address \in DOMAIN bsync_rewrite
          THEN \E n \in starts : bsync_rewrite[kernel[m].address] = branch_addr(kernel[n])
          ELSE starts = {}
=============================================================================
