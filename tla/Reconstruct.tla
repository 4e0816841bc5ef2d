----------------------------- MODULE Reconstruct -----------------------------
(***************************************************************************)
(* Two ways from one instruction to one line of PTX: the template's        *)
(* (EnhancedSassInstruction::generate_ptx) and PtxReconstructor's          *)
(* (ptx_recovery.rs).  Neither is the lift; both are shown to readers.     *)
(***************************************************************************)
EXTENDS InstructionText

LOCAL INSTANCE SequencesExt

(* A line: its guard if any, opcode and type, and its operands; or a comment. *)
PtxLine(guard, op, type, args) == [guard |-> guard, op |-> op, type |-> type, args |-> args]
CommentLine == PtxLine(<<>>, "//", None, <<>>)

-----------------------------------------------------------------------------
(* generate_ptx. *)

PtxOperands(operands) == [n \in DOMAIN operands |-> to_ptx_operand(operands[n])]

(* Mutant: the sources before the destinations. *)
generate_ptx_swapped(inst) ==
  LET t == inst.ptx_template
  IN IF t.kind # "Direct" THEN CommentLine
     ELSE PtxLine(PtxOperands(inst.predicate), t.opcode,
                  IF inst.data_type # None THEN to_ptx_suffix(inst.data_type)
                  ELSE IF t.type # None THEN t.type ELSE "b32",
                  PtxOperands(inst.src_operands) \o PtxOperands(inst.dest_operands))

generate_ptx(inst) ==
  LET t == inst.ptx_template
  IN IF t.kind # "Direct" THEN CommentLine
     ELSE PtxLine(PtxOperands(inst.predicate), t.opcode,
                  IF inst.data_type # None THEN to_ptx_suffix(inst.data_type)
                  ELSE IF t.type # None THEN t.type ELSE "b32",
                  PtxOperands(inst.dest_operands) \o PtxOperands(inst.src_operands))

-----------------------------------------------------------------------------
(* PtxReconstructor: operands.  Signs, bars and component are not written. *)

RegisterText(r) ==
  Ptx(CASE r.prefix \in {"UR", "URZ", "U"} -> "%ur" [] r.prefix \in {"P", "PT"} -> "%p"
        [] OTHER -> "%r", r.number, 0)
(* A name the table does not have keeps its SR_, in lower case. *)
map_special_register(name) ==
  CASE name = "SR_TID.X" -> "%tid.x" [] name = "SR_CTAID.X" -> "%ctaid.x"
    [] name = "SR_LANEID" -> "%laneid" [] OTHER -> "%sr_clocklo"
BaseText(op) == IF op.base = NoRegister THEN 0 ELSE op.base.number

format_operand(op) ==
  CASE op.kind = "Register" -> RegisterText(op.register)
    [] op.kind = "Predicate" -> Ptx("%p", op.register.number, 0)
    [] op.kind = "Immediate" -> Ptx("integer", op.value, 0)
    [] op.kind = "FloatImmediate" -> Ptx("float", op.value, 0)
    [] op.kind = "ConstantBank" -> Ptx("c[", op.bank, op.offset)
    [] op.kind = "Memory" -> Ptx("[%r", BaseText(op), op.offset)
    [] op.kind = "SpecialRegister" -> Ptx(map_special_register(op.name), 0, 0)
    [] OTHER -> Ptx("label", 0, 0)

Missing == Ptx("?", 0, 0)
format_sources(inst) == [n \in DOMAIN inst.src_operands |-> format_operand(inst.src_operands[n])]
format_dest(inst) ==
  IF inst.dest_operands = <<>> THEN Ptx("%r", 0, 0) ELSE format_operand(inst.dest_operands[1])
FirstSource(inst) == IF inst.src_operands = <<>> THEN Missing ELSE format_sources(inst)[1]

(* The rule that asks for an address prints what it is given in brackets. *)
Bracketed(p) == [p EXCEPT !.name = "[" \o @]

(* Mutant: only the sources are looked at. *)
format_memory_operand_sources(inst) ==
  LET found == SelectSeq(inst.src_operands, LAMBDA op : op.kind = "Memory")
  IN IF found = <<>> THEN Bracketed(FirstSource(inst))
     ELSE Ptx(IF found[1].base = NoRegister THEN "[" ELSE "[%r", BaseText(found[1]),
              found[1].offset)

(* The first memory operand, of the sources and then of the destinations; or the first source. *)
format_memory_operand(inst) ==
  LET found == SelectSeq(inst.src_operands \o inst.dest_operands, LAMBDA op : op.kind = "Memory")
  IN IF found = <<>> THEN Bracketed(FirstSource(inst))
     ELSE Ptx(IF found[1].base = NoRegister THEN "[" ELSE "[%r", BaseText(found[1]),
              found[1].offset)

get_ptx_type(inst) ==
  IF inst.data_type = "U128" THEN "b128"
  ELSE IF inst.data_type # None THEN to_ptx_suffix(inst.data_type)
  ELSE CASE inst.opcode_class = "FloatArithmetic" -> "f32"
         [] inst.opcode_class = "IntegerArithmetic" -> "s32"
         [] inst.opcode_class \in {"IntegerComparison", "FloatComparison"} -> "pred"
         [] OTHER -> "b32"

Line_(op, type, args) == PtxLine(<<>>, op, type, args)

-----------------------------------------------------------------------------
(* PtxReconstructor: instructions. *)

(* Three sources if the operation has three, else two, else one. *)
Arithmetic(inst, op, ternary) ==
  LET sources == format_sources(inst)
      some == IF ternary # None /\ Len(sources) >= 3 THEN 3 ELSE IF Len(sources) >= 2 THEN 2 ELSE 1
  IN IF sources = <<>> THEN CommentLine
     ELSE Line_(IF some = 3 THEN ternary ELSE op, get_ptx_type(inst),
                <<format_dest(inst)>> \o SubSeq(sources, 1, some))

(* The other opcodes of the code's table are of other classes. *)
reconstruct_int_arith(inst) ==
  CASE inst.opcode \in {"IADD", "IADD3"} -> Arithmetic(inst, "add", None)
    [] inst.opcode = "IMUL" -> Arithmetic(inst, "mul", None)
    [] inst.opcode = "IMAD" -> Arithmetic(inst, "mad", "mad")
    [] OTHER -> CommentLine

reconstruct_float_arith(inst) ==
  CASE inst.opcode = "FADD" -> Arithmetic(inst, "add", None)
    [] inst.opcode = "FMUL" -> Arithmetic(inst, "mul", None)
    [] inst.opcode = "FFMA" -> Arithmetic(inst, "fma", "fma.rn")
    [] inst.opcode = "FABS" -> Arithmetic(inst, "abs", None)
    [] inst.opcode = "FNEG" -> Arithmetic(inst, "neg", None)
    [] OTHER -> CommentLine

reconstruct_load(inst, op) ==
  Line_(op, get_ptx_type(inst), <<format_dest(inst), format_memory_operand(inst)>>)
reconstruct_store(inst, op) ==
  Line_(op, get_ptx_type(inst), <<format_memory_operand(inst), FirstSource(inst)>>)
reconstruct_move(inst) == Line_("mov", get_ptx_type(inst), <<format_dest(inst), FirstSource(inst)>>)

reconstruct_compare(inst) ==
  LET cmp == FirstOf(inst.modifiers, {"LT", "LE", "GT", "GE", "EQ", "NE"})
      sources == format_sources(inst)
  IN IF Len(sources) < 2 THEN CommentLine
     ELSE Line_("setp." \o (IF cmp = None THEN "EQ" ELSE cmp), get_ptx_type(inst),
                <<format_dest(inst), sources[1], sources[2]>>)

(* The target is looked for among the sources; L_ and its digits. *)
reconstruct_branch(inst) ==
  LET targets == SelectSeq(inst.src_operands, LAMBDA op : op.kind \in {"Immediate", "Label"})
      guards == SelectSeq(inst.predicate, LAMBDA op : op.kind = "Predicate")
  IN PtxLine([n \in DOMAIN guards |-> Ptx(IF guards[n].negated THEN "@!%p" ELSE "@%p",
                                          guards[n].register.number, 0)],
             "bra", None,
             <<IF targets = <<>> THEN Missing
               ELSE IF targets[1].kind = "Label" THEN Ptx("label", 0, 0)
               ELSE Ptx("L_", targets[1].value, 0)>>)

reconstruct_barrier(inst) ==
  IF inst.opcode \in {"BAR", "WARPSYNC"} THEN Line_("bar.sync", None, <<Ptx("integer", 0, 0)>>)
  ELSE CommentLine

(* %tid.x if no source is a special register. *)
reconstruct_special_reg(inst) ==
  LET special == SelectSeq(inst.src_operands, LAMBDA op : op.kind = "SpecialRegister")
  IN Line_("mov", "u32", <<format_dest(inst),
             IF special = <<>> THEN Ptx("%tid.x", 0, 0) ELSE format_operand(special[1])>>)

(* cvt.<to>.<from>. *)
SourceType(inst) ==
  LET named == FirstOf(inst.modifiers, {"F32", "F", "F64", "S32", "S", "U32", "U"})
  IN CASE named \in {"F32", "F"} -> "f32" [] named = "F64" -> "f64"
       [] named \in {"U32", "U"} -> "u32" [] OTHER -> "s32"
reconstruct_conversion(inst) ==
  Line_("cvt." \o (IF inst.opcode \in {"I2F", "I2FP", "F2F"} THEN "f32" ELSE "s32"),
        SourceType(inst), <<format_dest(inst), FirstSource(inst)>>)

reconstruct_instruction(inst) ==
  LET c == inst.opcode_class
  IN CASE c = "IntegerArithmetic" -> reconstruct_int_arith(inst)
       [] c = "FloatArithmetic" -> reconstruct_float_arith(inst)
       [] c = "GlobalLoad" -> reconstruct_load(inst, "ld.global")
       [] c = "GlobalStore" -> reconstruct_store(inst, "st.global")
       [] c = "SharedLoad" -> reconstruct_load(inst, "ld.shared")
       [] c = "SharedStore" -> reconstruct_store(inst, "st.shared")
       [] c = "Move" -> reconstruct_move(inst)
       [] c \in {"IntegerComparison", "FloatComparison"} -> reconstruct_compare(inst)
       [] c \in {"Branch", "ConditionalBranch"} -> reconstruct_branch(inst)
       [] c = "Barrier" -> reconstruct_barrier(inst)
       [] c = "SpecialRegRead" -> reconstruct_special_reg(inst)
       [] c \in {"IntegerConversion", "FloatConversion"} -> reconstruct_conversion(inst)
       [] c = "Exit" -> Line_("ret", None, <<>>)
       [] OTHER -> CommentLine
=============================================================================
