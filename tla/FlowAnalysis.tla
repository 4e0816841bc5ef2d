---------------------------- MODULE FlowAnalysis ----------------------------
(***************************************************************************)
(* A listing is parsed line by line, then ControlFlowAnalyzer (text.rs)    *)
(* walks the instructions: find_basic_blocks twice, for the targets and    *)
(* for the blocks, and analyze_data_flow once.                             *)
(***************************************************************************)
EXTENDS InstructionText, FiniteSets

CONSTANT Listings

ASSUME ListingsAssumption ==
  \A l \in Listings :
    /\ l \in Seq(Line)
    /\ \A n \in DOMAIN l : \A m \in DOMAIN l[n].rest : WellWritten(l[n].rest[m].operand)

VARIABLES
  lines,
  phase,             \* "parse", "targets", "blocks", "flow", "done"
  at,                \* the line or instruction the walk is at
  of,                \* the line each instruction was read from
  instructions,
  branch_targets, current_block, new_block_next,
  last_writer        \* the address of the last instruction to write a register

flow_vars == <<lines, phase, at, of, instructions, branch_targets, current_block,
               new_block_next, last_writer>>

Init ==
  /\ lines \in Listings
  /\ phase = "parse" /\ at = 1
  /\ of = <<>> /\ instructions = <<>>
  /\ branch_targets = {} /\ current_block = 0 /\ new_block_next = TRUE
  /\ last_writer = <<>>

Here == instructions[at]
Walking(name) == phase = name /\ at <= Len(instructions)

ParseLine ==
  /\ phase = "parse" /\ at <= Len(lines) /\ IsRead(lines[at])
  /\ instructions' = Append(instructions, parse_instruction_line(lines[at]))
  /\ of' = Append(of, at)
  /\ at' = at + 1
  /\ UNCHANGED <<lines, phase, branch_targets, current_block, new_block_next, last_writer>>

SkipLine ==
  /\ phase = "parse" /\ at <= Len(lines) /\ ~IsRead(lines[at])
  /\ at' = at + 1
  /\ UNCHANGED <<lines, phase, of, instructions, branch_targets, current_block,
                 new_block_next, last_writer>>

Following == [parse |-> "targets", targets |-> "blocks", blocks |-> "flow", flow |-> "done"]

NextPhase ==
  /\ phase # "done"
  /\ at > (IF phase = "parse" THEN Len(lines) ELSE Len(instructions))
  /\ phase' = Following[phase] /\ at' = 1
  /\ UNCHANGED <<lines, of, instructions, branch_targets, current_block, new_block_next,
                 last_writer>>

(* Operands that are an Address count; the parser makes none. *)
Addresses(operands) ==
  {operands[n].value : n \in {m \in DOMAIN operands : operands[m].kind = "Address"}}

CollectTargets ==
  /\ Walking("targets")
  /\ branch_targets' = IF Here.opcode_class \in is_control_flow
                       THEN branch_targets \cup Addresses(Here.src_operands) ELSE branch_targets
  /\ at' = at + 1
  /\ UNCHANGED <<lines, phase, of, instructions, current_block, new_block_next, last_writer>>

AssignBlock ==
  /\ Walking("blocks")
  /\ current_block' = IF new_block_next \/ Here.address \in branch_targets
                      THEN current_block + 1 ELSE current_block
  /\ instructions' = [instructions EXCEPT ![at].basic_block_id = current_block']
  /\ new_block_next' = (Here.opcode_class \in is_control_flow)
  /\ at' = at + 1
  /\ UNCHANGED <<lines, phase, of, branch_targets, last_writer>>

Written_by(inst) == {Key(r) : r \in {q \in Registers(inst.dest_operands) : ~is_zero(q)}}
Recorded(writers, inst) ==
  [k \in DOMAIN writers \cup Written_by(inst) |->
     IF k \in Written_by(inst) THEN inst.address ELSE writers[k]]

(* The writers of the registers read, source by source. *)
Dependencies(writers, inst) ==
  LET operands == inst.src_operands
      sources == Filtered(operands, {n \in DOMAIN operands :
                   operands[n].kind = "Register" /\ Key(operands[n].register) \in DOMAIN writers})
  IN [n \in DOMAIN sources |-> writers[Key(sources[n].register)]]

(* Mutant: the destination is recorded before the sources are looked up. *)
AnalyzeInstruction_writes_first ==
  /\ Walking("flow")
  /\ last_writer' = Recorded(last_writer, Here)
  /\ instructions' = [instructions EXCEPT ![at].data_dependencies =
                        Dependencies(last_writer', Here)]
  /\ at' = at + 1
  /\ UNCHANGED <<lines, phase, of, branch_targets, current_block, new_block_next>>

AnalyzeInstruction ==
  /\ Walking("flow")
  /\ instructions' = [instructions EXCEPT ![at].data_dependencies =
                        Dependencies(last_writer, Here)]
  /\ last_writer' = Recorded(last_writer, Here)
  /\ at' = at + 1
  /\ UNCHANGED <<lines, phase, of, branch_targets, current_block, new_block_next>>

Finished == phase = "done" /\ UNCHANGED flow_vars

Next ==
  \/ ParseLine \/ SkipLine \/ NextPhase \/ CollectTargets \/ AssignBlock \/ AnalyzeInstruction
  \/ Finished

Spec == Init /\ [][Next]_flow_vars

-----------------------------------------------------------------------------
(* The operands a line is written with, up to the first end. *)
Operands_of(line) ==
  LET ends == {n \in DOMAIN line.rest : line.rest[n].what # "operand"}
      last == IF ends = {} THEN Len(line.rest) ELSE (CHOOSE n \in ends : \A m \in ends : n <= m) - 1
  IN [n \in 1..last |-> line.rest[n].operand]

WrittenAs(i) == Operands_of(lines[of[i]])
ReadAs(i) == instructions[i].dest_operands \o instructions[i].src_operands

(***************************************************************************)
(* instruction.rs:490-653, text.rs:84-96: every operand is read with all   *)
(* its parts and in its place, whatever stands beside it, if it is not of  *)
(* a form that Unread lists and no operand of the line leaves no place.    *)
(***************************************************************************)
OperandsAreRead ==
  \A i \in DOMAIN instructions :
    LET written == WrittenAs(i)
    IN (\A n \in DOMAIN written : ~LeavesNoPlace(written[n])) =>
         /\ Len(ReadAs(i)) = Len(written)
         /\ \A n \in DOMAIN written : ~Unread(written[n]) => Read(written[n], ReadAs(i)[n])

(***************************************************************************)
(* text.rs:324-346: an instruction depends on the instruction that last    *)
(* wrote a register it reads, and on no other: a write by the instruction  *)
(* itself, or one that was overwritten, is no dependency.  Where every     *)
(* operand is a general register, this is the data flow of the kernel; a   *)
(* line that cannot be read is no part of it.                              *)
(***************************************************************************)
Computes == {"IADD3", "IMAD", "MOV", "FADD", "FFMA"}
Plainly(line) ==
  /\ line.op \in Computes /\ Operands_of(line) # <<>>
  /\ \A n \in DOMAIN Operands_of(line) :
       LET w == Operands_of(line)[n]
       IN w.form = "register" /\ w.reg[1] \in {"R", "UR", "RZ"} /\ ~Unread(w)
Writes(line) == {Operands_of(line)[1].reg} \ {<<"RZ", 0>>}
Reads(line) == {Operands_of(line)[n].reg : n \in 2..Len(Operands_of(line))}

DependenciesAreLastWrites ==
  phase = "done" /\ (\A n \in DOMAIN lines : IsRead(lines[n]) => Plainly(lines[n])) =>
    \A i \in DOMAIN instructions :
      LET inst == instructions[i]
          above == {k \in 1..(of[i] - 1) : IsRead(lines[k])}
          source(k) == \E reg \in Writes(lines[k]) \cap Reads(lines[of[i]]) :
                         \A l \in above : l > k => reg \notin Writes(lines[l])
      IN {inst.data_dependencies[n] : n \in DOMAIN inst.data_dependencies}
           = {lines[k].address : k \in {l \in above : source(l)}}
=============================================================================
