------------------------------ MODULE Readings ------------------------------
(***************************************************************************)
(* What an instruction of the listing does, and what a line of PTX does,   *)
(* in the same terms; and the instructions for which each way of writing   *)
(* PTX (Reconstruct) keeps the meaning.                                    *)
(*                                                                         *)
(* A meaning: the guard, the operation, and its destination and sources as *)
(* values.  A value that has a sign, bars or a part is not the register's. *)
(***************************************************************************)
EXTENDS FlowAnalysis, Reconstruct

LOCAL INSTANCE SequencesExt

Value(of_, n, offset, marks) == [of |-> of_, n |-> n, offset |-> offset, marks |-> marks]
NoMarks == <<"", FALSE, "", Nowhere, Nowhere>>
Meaning(guard, what, args) == [guard |-> guard, what |-> what, args |-> args]

(* The hardware. *)
Marks(w) == <<w.sign, w.bars, IF w.suffix = "reuse" THEN "" ELSE w.suffix, w.index, w.desc>>
SassValue(w) ==
  CASE w.form = "memory" -> Value("at " \o w.reg[1], w.reg[2], w.offset, Marks(w))
    [] w.form = "constant" -> Value("constant", w.bank, w.offset, Marks(w))
    [] w.form \in {"register", "guard"} -> Value(w.reg[1], w.reg[2], 0, Marks(w))
    [] OTHER -> Value(w.form, w.offset, 0, NoMarks)
(* A number without a point is still a float where the operation is one. *)
AsFloat(v) == IF v.of = "integer" THEN [v EXCEPT !.of = "float"] ELSE v
IsZero(w) == w.form = "register" /\ w.reg[1] = "RZ"

(* Modifiers that change nothing of what is done here. *)
Telling(mods) == SelectSeq(mods, LAMBDA m : m \notin {"E", "U32"})

SassArgs(line, ops) ==
  CASE line.op = "IADD3" -> <<ops[1]>> \o SelectSeq(Tail(ops), LAMBDA w : ~IsZero(w))
    [] line.op = "PRMT" -> <<ops[1], ops[2], ops[4], ops[3]>>      \* the selector last
    [] line.op = "IMAD" /\ line.mods # <<>> /\ line.mods[1] = "MOV" -> <<ops[1], ops[4]>>
    [] OTHER -> ops
OperationOf ==
  [IADD3 |-> "add", IADD |-> "add", IMAD |-> "mad", FADD |-> "fadd", FMUL |-> "fmul",
   FFMA |-> "ffma", MOV |-> "mov", S2R |-> "mov", SEL |-> "select", PRMT |-> "permute",
   LDG |-> "load global", STG |-> "store global", LDS |-> "load shared",
   STS |-> "store shared", EXIT |-> "exit", BRA |-> "branch", BAR |-> "barrier",
   WARPSYNC |-> "warpsync", ISETP |-> "compare", I2F |-> "to float", F2I |-> "to integer"]
Understood(line) == line.op \in DOMAIN OperationOf

(* A sum with a carry is another operation. *)
SassOperation(line, ops) ==
  IF line.op = "IMAD" /\ "MOV" \in {line.mods[n] : n \in DOMAIN line.mods} THEN <<"mov", <<>>>>
  ELSE IF line.op = "IADD3" /\ ops[2].reg[1] \in {"P", "UP", "PT", "UPT"} THEN <<"add, carry", <<>>>>
  ELSE <<OperationOf[line.op], Telling(line.mods)>>

SassMeans(line) ==
  LET args == SassArgs(line, Operands_of(line))
  IN Meaning([n \in DOMAIN line.guard |-> SassValue(line.guard[n])],
             SassOperation(line, Operands_of(line)),
             [n \in DOMAIN args |-> IF line.op \in {"FADD", "FMUL", "FFMA"}
                                     THEN AsFloat(SassValue(args[n])) ELSE SassValue(args[n])])

(* PTX: %r and %p are declared; c[..], %rz, ? and empty names are no operands. *)
PtxOperand ==
  [name \in {"%r", "%p", "[%r", "integer", "float", "L_", "%tid.x", "%ctaid.x", "%laneid",
             "@%p", "@!%p"} |->
     CASE name = "%r" -> "R" [] name \in {"%p", "@%p", "@!%p"} -> "P" [] name = "[%r" -> "at R"
       [] name = "%tid.x" -> "SR_TID.X" [] name = "%ctaid.x" -> "SR_CTAID.X"
       [] name = "%laneid" -> "SR_LANEID" [] name = "L_" -> "integer" [] OTHER -> name]
PtxValue(p) ==
  IF p.name \notin DOMAIN PtxOperand THEN Value("nothing", 0, 0, NoMarks)
  ELSE Value(PtxOperand[p.name], p.n, p.offset, [NoMarks EXCEPT ![1] = IF p.name = "@!%p" THEN "!" ELSE ""])

Integers32 == {"s32", "u32"}
Any32 == {"b32", "s32", "u32", "f32"}
PtxOperation(l) ==
  CASE l.op = "add" /\ l.type \in Integers32 -> <<"add", <<>>>>
    [] l.op = "add" /\ l.type = "f32" -> <<"fadd", <<>>>>
    [] l.op = "mul" /\ l.type = "f32" -> <<"fmul", <<>>>>
    [] l.op = "mad.lo" /\ l.type \in Integers32 -> <<"mad", <<>>>>
    [] l.op = "fma.rn" /\ l.type = "f32" -> <<"ffma", <<>>>>
    [] l.op = "mov" /\ l.type \in Any32 -> <<"mov", <<>>>>
    [] l.op = "selp" /\ l.type \in Any32 -> <<"select", <<>>>>
    [] l.op = "prmt" /\ l.type = "b32" -> <<"permute", <<>>>>
    [] l.op = "ld.global" -> <<"load global", IF l.type \in Any32 THEN <<>> ELSE <<l.type>>>>
    [] l.op = "st.global" -> <<"store global", IF l.type \in Any32 THEN <<>> ELSE <<l.type>>>>
    [] l.op = "ld.shared" -> <<"load shared", IF l.type \in Any32 THEN <<>> ELSE <<l.type>>>>
    [] l.op = "st.shared" -> <<"store shared", IF l.type \in Any32 THEN <<>> ELSE <<l.type>>>>
    [] l.op = "ret" /\ l.type = None -> <<"exit", <<>>>>
    [] l.op = "bra" /\ l.type = None -> <<"branch", <<>>>>
    [] l.op = "bar.sync" /\ l.type = None -> <<"barrier", <<"SYNC">>>>
    [] OTHER -> <<"nothing", <<>>>>

(* The width of an access is its modifier in SASS and its type in PTX. *)
Typed(mods) == [n \in DOMAIN mods |-> IF mods[n] = "U8" THEN "u8" ELSE mods[n]]
PtxMeans(l) ==
  Meaning([n \in DOMAIN l.guard |-> PtxValue(l.guard[n])], PtxOperation(l),
          [n \in DOMAIN l.args |-> PtxValue(l.args[n])])
Same(line, l) ==
  LET sass == SassMeans(line)
  IN PtxMeans(l) = [sass EXCEPT !.what = <<@[1], Typed(@[2])>>]

-----------------------------------------------------------------------------
(* The instructions each way keeps. *)

PlainR(w) == w.form = "register" /\ w.reg[1] = "R" /\ Marks(w) = NoMarks
PlainP(w) == w.form = "register" /\ w.reg[1] = "P" /\ Marks(w) = NoMarks
Simple(w) == PlainR(w) \/ w.form = "integer"
SimpleFloat(w) == PlainR(w) \/ w.form = "float"
Address32(w) == w.form = "memory" /\ w.reg[1] = "R" /\ Marks(w) = NoMarks
AreAll(ops, Fits(_)) == \A n \in 2..Len(ops) : Fits(ops[n])

(* Accesses of 32 bits or of a byte, through one 32-bit register. *)
PlainAccess(line, ops) ==
  /\ Telling(line.mods) \in {<<>>, <<"U8">>}
  /\ \/ line.op \in {"LDG", "LDS"} /\ PlainR(ops[1]) /\ Address32(ops[2])
     \/ line.op \in {"STG", "STS"} /\ Address32(ops[1]) /\ PlainR(ops[2])
PlainFloat(line, ops) ==
  /\ line.op \in {"FADD", "FMUL", "FFMA"} /\ line.mods = <<>>
  /\ PlainR(ops[1]) /\ AreAll(ops, SimpleFloat)
PlainMove(line, ops) ==
  \/ line.op = "MOV" /\ line.mods = <<>> /\ PlainR(ops[1]) /\ Simple(ops[2])
  \/ line.op = "S2R" /\ PlainR(ops[1]) /\ ops[2].reg[1] \in {"SR_TID.X", "SR_CTAID.X", "SR_LANEID"}

Reconstructs(line, ops) ==
  /\ line.guard = <<>>
  /\ \/ PlainFloat(line, ops) \/ PlainAccess(line, ops) \/ PlainMove(line, ops)
     \/ /\ line.op \in {"IADD", "IADD3"} /\ line.mods = <<>>
        /\ PlainR(ops[1]) /\ Simple(ops[2]) /\ Simple(ops[3])
        /\ line.op = "IADD3" => Len(ops) = 4 /\ IsZero(ops[4])
     \/ line.op = "EXIT"
     \/ line.op = "BAR" /\ line.mods = <<"SYNC">> /\ Len(ops) = 1 /\ ops[1].form = "integer"
        /\ ops[1].offset = 0

Templated(line, ops) ==
  /\ \A n \in DOMAIN line.guard : line.guard[n].reg[1] = "P"
  /\ \/ PlainFloat(line, ops) \/ PlainAccess(line, ops) \/ PlainMove(line, ops)
     \/ /\ line.op \in {"IADD", "IMAD"} /\ Telling(line.mods) = <<>>
        /\ PlainR(ops[1]) /\ AreAll(ops, Simple)
     \/ line.op = "SEL" /\ AreAll(SubSeq(ops, 1, 3), Simple) /\ PlainR(ops[1]) /\ PlainP(ops[4])
     \/ line.op = "PRMT" /\ PlainR(ops[1]) /\ AreAll(ops, Simple) /\ ops[3] = ops[4]

(***************************************************************************)
(* PtxReconstructor (ptx_recovery.rs:105-572) keeps what an instruction    *)
(* does in these cases and in no other: without a guard, on plain general  *)
(* registers, sums of two, 32-bit addresses.                               *)
(***************************************************************************)
ReconstructedExactly ==
  \A i \in DOMAIN instructions :
    LET line == lines[of[i]]
    IN Understood(line) =>
         (Same(line, reconstruct_instruction(instructions[i]))
            <=> Reconstructs(line, Operands_of(line)))

(***************************************************************************)
(* The template of an opcode (instruction.rs:916-977, 1163-1465) keeps     *)
(* what an instruction does in these cases and in no other.                *)
(***************************************************************************)
TemplatesExactly ==
  \A i \in DOMAIN instructions :
    LET line == lines[of[i]]
    IN Understood(line) =>
         (Same(line, generate_ptx(instructions[i])) <=> Templated(line, Operands_of(line)))
=============================================================================
