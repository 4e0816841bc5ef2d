--------------------------- MODULE InstructionText ---------------------------
(***************************************************************************)
(* The text of an instruction: the tables over its opcode, its operands    *)
(* (SassRegister::parse and SassOperand::parse, parse/instruction.rs) and  *)
(* its line (TextDisassemblyParser::parse_instruction_line,                *)
(* parse/text.rs).                                                         *)
(***************************************************************************)
EXTENDS Integers, Sequences

-----------------------------------------------------------------------------
(***************************************************************************)
(* The tables over opcodes and type modifiers: the class of an opcode, the *)
(* memory it works on, the PTX it is written as.  Each table is kept by    *)
(* hand, apart from the others.                                            *)
(***************************************************************************)

None == "none"

ClassOf ==
  [IntegerArithmetic |-> {"IADD", "IADD3", "IADD32I", "IMAD", "IMAD32I", "IMADSP", "IMUL",
                          "IMUL32I", "IABS", "INEG", "IMNMX", "LEA", "LEA.HI"},
   IntegerComparison |-> {"ISETP", "ISET", "ICMP"},
   IntegerLogical |-> {"LOP", "LOP3", "LOP32I", "AND", "OR", "XOR", "NOT", "SHL", "SHR", "SHF",
                       "BFE", "BFI", "FLO", "POPC", "BMSK", "SGXT", "BREV"},
   IntegerConversion |-> {"I2I", "I2F", "F2I", "I2FP"},
   FloatArithmetic |-> {"FADD", "FADD32I", "FMUL", "FMUL32I", "FFMA", "FMNMX", "FABS", "FNEG",
                        "FSWZADD"},
   FloatComparison |-> {"FSETP", "FSET", "FCMP"},
   FloatTranscendental |-> {"MUFU"},
   FloatConversion |-> {"F2F"},
   DoubleArithmetic |-> {"DADD", "DMUL", "DFMA", "DSETP", "DSET"},
   HalfArithmetic |-> {"HADD2", "HMUL2", "HFMA2", "HSETP2", "HSET2"},
   GlobalLoad |-> {"LDG"}, GlobalStore |-> {"STG"}, GlobalAtomic |-> {"ATOMG", "RED"},
   SharedLoad |-> {"LDS"}, SharedStore |-> {"STS"}, SharedAtomic |-> {"ATOMS"},
   LocalLoad |-> {"LDL"}, LocalStore |-> {"STL"}, ConstantLoad |-> {"LDC"},
   TextureFetch |-> {"TEX", "TLD", "TLD4", "TMML"}, TextureQuery |-> {"TXQ", "TXD"},
   SurfaceLoad |-> {"SULD"}, SurfaceStore |-> {"SUST"}, SurfaceAtomic |-> {"SUATOM", "SURED"},
   Branch |-> {"BRA", "JMP", "JMXU", "BSSY", "BSYNC", "BPT"},
   ConditionalBranch |-> {"BRX", "JMX"},
   Call |-> {"CAL", "JCAL", "CALL"}, Return |-> {"RET"}, Exit |-> {"EXIT"},
   Barrier |-> {"BAR", "DEPBAR", "B2R", "R2B", "ERRBAR", "WARPSYNC"},
   MemoryBarrier |-> {"MEMBAR", "CCTL", "CCTLL", "CCTLT"},
   SpecialRegRead |-> {"S2R", "CS2R"},
   PredicateSet |-> {"PSETP", "PLOP3", "P2R", "R2P"},
   Move |-> {"MOV", "MOV32I", "MOVM", "PRMT", "SEL"}, Shuffle |-> {"SHFL"},
   UniformDataPath |-> {"UIADD3", "UIMAD", "UFLO", "UPOPC", "ULDC", "ULEA", "UMOV", "UPRMT",
                        "USEL", "USETP", "UISETP", "ULOP3", "UPLOP3", "USHF", "VOTEU",
                        "UBREV", "UBMSK", "USGXT", "R2UR"},
   TensorCore |-> {"HMMA", "IMMA", "BMMA", "DMMA"},
   NoOperation |-> {"NOP"}]

(* A class no opcode is in is Unknown. *)
classify_opcode(op) ==
  LET found == {c \in DOMAIN ClassOf : op \in ClassOf[c]}
  IN IF found = {} THEN "Unknown" ELSE CHOOSE c \in found : TRUE

is_control_flow == {"Branch", "ConditionalBranch", "Call", "Return", "Exit"}

SpaceOf ==
  [Global |-> {"LDG", "STG", "ATOMG", "RED"}, Shared |-> {"LDS", "STS", "ATOMS"},
   Local |-> {"LDL", "STL"}, Constant |-> {"LDC"}, Texture |-> {"TEX", "TLD", "TLD4", "TXQ"},
   Surface |-> {"SULD", "SUST", "SUATOM"}]

get_memory_space(op) ==
  LET found == {s \in DOMAIN SpaceOf : op \in SpaceOf[s]}
  IN IF found = {} THEN None ELSE CHOOSE s \in found : TRUE

-----------------------------------------------------------------------------
(* get_ptx_template: an opcode and a type, a handler, or nothing. *)

Direct(opcode, type) == [kind |-> "Direct", opcode |-> opcode, type |-> type]
Special(handler) == [kind |-> "Special", opcode |-> handler, type |-> None]
NoEquivalent == [kind |-> "NoEquivalent", opcode |-> None, type |-> None]

IntegerTemplate(op) ==
  CASE op \in {"IADD", "IADD32I"} -> Direct("add", "s32")
    [] op = "IADD3" -> Special("iadd3_to_add")
    [] op \in {"IMAD", "IMAD32I"} -> Direct("mad.lo", "s32")
    [] op \in {"IMUL", "IMUL32I"} -> Direct("mul.lo", "s32")
    [] op = "IABS" -> Direct("abs", "s32")
    [] op = "INEG" -> Direct("neg", "s32")
    [] op = "IMNMX" -> Direct("min", "s32")
    [] op = "ISETP" -> Direct("setp", "s32")
    [] op = "ISET" -> Direct("set", "s32")
    [] op \in {"LOP", "LOP3", "LOP32I"} -> Special("lop3_to_logic")
    [] op = "SHL" -> Direct("shl", "b32")
    [] op = "SHR" -> Direct("shr", "b32")
    [] op = "AND" -> Direct("and", "b32")
    [] op = "OR" -> Direct("or", "b32")
    [] op = "XOR" -> Direct("xor", "b32")
    [] op = "NOT" -> Direct("not", "b32")
    [] op = "BFE" -> Direct("bfe", "u32")
    [] op = "BFI" -> Direct("bfi", "b32")
    [] op = "FLO" -> Direct("bfind", "u32")
    [] op = "POPC" -> Direct("popc", "b32")
    [] OTHER -> NoEquivalent

FloatTemplate(op) ==
  CASE op \in {"FADD", "FADD32I"} -> Direct("add", "f32")
    [] op \in {"FMUL", "FMUL32I"} -> Direct("mul", "f32")
    [] op = "FFMA" -> Direct("fma.rn", "f32")
    [] op = "FMNMX" -> Direct("min", "f32")
    [] op = "FABS" -> Direct("abs", "f32")
    [] op = "FNEG" -> Direct("neg", "f32")
    [] op = "FSETP" -> Direct("setp", "f32")
    [] op = "FSET" -> Direct("set", "f32")
    [] op = "MUFU" -> Special("mufu_to_transcendental")
    [] op \in {"I2I", "I2F", "F2I", "F2F"} -> Direct("cvt", None)
    [] op = "DADD" -> Direct("add", "f64")
    [] op = "DMUL" -> Direct("mul", "f64")
    [] op = "DFMA" -> Direct("fma.rn", "f64")
    [] op = "DSETP" -> Direct("setp", "f64")
    [] op = "HADD2" -> Direct("add", "f16x2")
    [] op = "HMUL2" -> Direct("mul", "f16x2")
    [] op = "HFMA2" -> Direct("fma.rn", "f16x2")
    [] op = "HSETP2" -> Direct("setp", "f16x2")
    [] OTHER -> NoEquivalent

(* Memory, the warp, control flow, moves.  SHFL and MEMBAR have two arms; the first is taken. *)
OtherTemplate(op) ==
  CASE op = "LDG" -> Direct("ld.global", None)
    [] op = "STG" -> Direct("st.global", None)
    [] op = "LDS" -> Direct("ld.shared", None)
    [] op = "STS" -> Direct("st.shared", None)
    [] op = "LDL" -> Direct("ld.local", None)
    [] op = "STL" -> Direct("st.local", None)
    [] op = "LDC" -> Direct("ld.const", None)
    [] op = "ATOMG" -> Direct("atom.global", None)
    [] op = "ATOMS" -> Direct("atom.shared", None)
    [] op = "RED" -> Direct("red.global", None)
    [] op = "SHFL" -> Special("shfl_to_shfl_sync")
    [] op = "VOTEU" -> Direct("vote", "u32")
    [] op = "MEMBAR" -> Direct("membar", None)
    [] op \in {"BRA", "JMP"} -> Direct("bra", None)
    [] op \in {"CAL", "JCAL"} -> Direct("call", None)
    [] op = "RET" -> Direct("ret", None)
    [] op = "EXIT" -> Direct("exit", None)
    [] op = "BAR" -> Direct("bar.sync", None)
    [] op = "S2R" -> Direct("mov", "u32")
    [] op \in {"MOV", "MOV32I"} -> Direct("mov", "b32")
    [] op = "SEL" -> Direct("selp", "b32")
    [] op = "PRMT" -> Direct("prmt", "b32")
    [] op = "PSETP" -> Direct("setp", "pred")
    [] op \in {"HMMA", "IMMA", "BMMA", "DMMA"} -> Special("mma_to_wmma")
    [] OTHER -> NoEquivalent

get_ptx_template(op) ==
  IF IntegerTemplate(op) # NoEquivalent THEN IntegerTemplate(op)
  ELSE IF FloatTemplate(op) # NoEquivalent THEN FloatTemplate(op) ELSE OtherTemplate(op)

-----------------------------------------------------------------------------
(* SassDataType: the modifiers that name one, and how PTX writes it. *)

from_modifier(modifier) ==
  CASE modifier \in {"U8", "U16", "U32", "U64", "U128", "S8", "S16", "S32", "S64", "BF16",
                     "TF32", "B8", "B16", "B32", "B64", "B128"} -> modifier
    [] modifier \in {"F16", "H"} -> "F16"
    [] modifier \in {"F32", "F"} -> "F32"
    [] modifier \in {"F64", "D"} -> "F64"
    [] OTHER -> None

PtxTypes ==
  [U8 |-> "u8", U16 |-> "u16", U32 |-> "u32", U64 |-> "u64", U128 |-> "u128", S8 |-> "s8",
   S16 |-> "s16", S32 |-> "s32", S64 |-> "s64", F16 |-> "f16", F32 |-> "f32", F64 |-> "f64",
   BF16 |-> "bf16", TF32 |-> "tf32", B8 |-> "b8", B16 |-> "b16", B32 |-> "b32", B64 |-> "b64",
   B128 |-> "b128"]
to_ptx_suffix(type) == PtxTypes[type]

-----------------------------------------------------------------------------
(***************************************************************************)
(* SassRegister::parse and SassOperand::parse (parse/instruction.rs): what *)
(* an operand of the listing becomes.  An operand is read by the first     *)
(* form its text fits, and its text is given here by what the forms tell   *)
(* apart.  Integer literals fit in 31 bits.                                *)
(***************************************************************************)

(***************************************************************************)
(* Written: a name of a register with its number; Bare names have none.    *)
(* sign: before the operand.  bars: |..|, inside the sign.  suffix: after  *)
(* a point; none stands after bars.  A constant's index is a register in   *)
(* its second brackets; a memory operand's base, index and offset are      *)
(* joined by `+', in order.                                                *)
(***************************************************************************)
Nowhere == <<"", 0>>
SpecialNames == {"SR_TID.X", "SR_CTAID.X", "SR_LANEID", "SR_CLOCKLO"}
Bare == {"RZ", "URZ", "PT", "UPT", "SRZ"} \cup SpecialNames
Names == Bare \cup {"R", "UR", "P", "UP"}
RegisterName == Names \X Nat
Written ==
  [form: {"register", "guard", "constant", "memory", "integer", "float", "infinity", "nan",
          "label"},
   sign: {"", "-", "~", "!"}, bars: BOOLEAN, reg: RegisterName \cup {Nowhere},
   suffix: {"", "64", "reuse", "H1_H1"}, index: RegisterName \cup {Nowhere}, bank: Nat,
   offset: Int, desc: RegisterName \cup {Nowhere}]

(* What the listing writes: a special register without sign or bars, a descriptor that is uniform. *)
Numbered(name) == name[1] \in Bare => name[2] = 0
WellWritten(w) ==
  /\ Numbered(w.reg) /\ Numbered(w.desc)
  /\ w.form = "register" => w.reg # Nowhere /\ (w.reg[1] \in SpecialNames => w.sign = "" /\ ~w.bars)
  /\ w.form = "guard" => w.reg[1] \in {"P", "UP", "PT", "UPT"}
  /\ w.form = "memory" => /\ w.reg[1] \notin Bare \ {"RZ", "URZ"}
                          /\ w.desc # Nowhere => w.desc[1] \in {"UR", "URZ"}

(* Parsed. *)
NoRegister == [prefix |-> "", number |-> 0, component |-> "", negated |-> FALSE,
               conditionally_negated |-> FALSE, cabs |-> FALSE]
Register(prefix, number, component, sign, cabs) ==
  [prefix |-> prefix, number |-> number, component |-> component, negated |-> sign \in {"-", "!"},
   conditionally_negated |-> sign = "~", cabs |-> cabs]
is_uniform(r) == r.prefix \in {"UR", "UP", "URZ"}
is_zero(r) == r.prefix \in {"RZ", "URZ", "PT"}

Dropped == [kind |-> "none"]     \* parse gives no operand

(***************************************************************************)
(* SassRegister::parse.  `|' is looked for before the sign, so bars inside *)
(* a sign are no register; RZ, URZ and PT are known by their whole text;   *)
(* every other register needs a digit.                                     *)
(***************************************************************************)
ZeroNumber(name) == CASE name = "RZ" -> 255 [] name = "URZ" -> 63 [] name = "PT" -> 7

(* Mutant: the zero registers are looked for before the sign is stripped. *)
parse_register_zero_first(w) ==
  IF w.bars /\ w.sign # "" THEN NoRegister
  ELSE IF w.reg[1] \in {"RZ", "URZ", "PT"} /\ w.suffix = "" /\ w.sign = ""
  THEN Register(w.reg[1], ZeroNumber(w.reg[1]), "", w.sign, w.bars)
  ELSE IF w.reg[1] \in Bare \cup {""} THEN NoRegister
  ELSE Register(w.reg[1], w.reg[2], w.suffix, w.sign, w.bars)

parse_register(w) ==
  IF w.bars /\ w.sign # "" THEN NoRegister
  ELSE IF w.reg[1] \in {"RZ", "URZ", "PT"} /\ w.suffix = ""
  THEN Register(w.reg[1], ZeroNumber(w.reg[1]), "", w.sign, w.bars)
  ELSE IF w.reg[1] \in Bare \cup {""} THEN NoRegister
  ELSE Register(w.reg[1], w.reg[2], w.suffix, w.sign, w.bars)

(* A register by its name alone, as it stands inside brackets. *)
Plain(name) == [reg |-> name, sign |-> "", bars |-> FALSE, suffix |-> ""]

(* parse_memory_operand: parts[0] is the base, parts[1] the offset, if it is a number. *)
parse_memory_operand(w) ==
  [kind |-> "Memory",
   base |-> parse_register(Plain(w.reg)),
   offset |-> IF w.reg = Nowhere \/ w.index # Nowhere THEN 0 ELSE w.offset,
   is_64bit_addr |-> w.suffix = "64",
   desc_ur |-> IF w.desc = Nowhere THEN NoRegister ELSE parse_register(Plain(w.desc))]

RegisterOperand(w) ==
  IF parse_register(w) # NoRegister THEN [kind |-> "Register", register |-> parse_register(w)]
  ELSE IF w.reg[1] \in SpecialNames THEN [kind |-> "SpecialRegister", name |-> w.reg[1]]
  ELSE [kind |-> "Label"]

ConstantOperand(w) ==
  IF w.bars \/ w.sign = "~" THEN [kind |-> "Label"]
  ELSE IF w.index # Nowhere THEN Dropped
  ELSE [kind |-> "ConstantBank", bank |-> w.bank, offset |-> w.offset]

parse_operand(w) ==
  CASE w.form = "guard" ->
         IF parse_register(Plain(w.reg)) = NoRegister THEN Dropped
         ELSE [kind |-> "Predicate", register |-> parse_register(Plain(w.reg)),
               negated |-> w.sign = "!"]
    [] w.form = "constant" -> ConstantOperand(w)
    [] w.form = "memory" -> parse_memory_operand(w)
    [] w.form = "integer" -> [kind |-> "Immediate", value |-> w.offset]
    [] w.form \in {"float", "infinity"} -> [kind |-> "FloatImmediate", value |-> w.offset]
    [] w.form = "register" -> RegisterOperand(w)
    [] OTHER -> [kind |-> "Label"]

-----------------------------------------------------------------------------
(***************************************************************************)
(* to_ptx_operand: PTX text, by its parts.  name is the kind of register   *)
(* or what stands for one.                                                 *)
(***************************************************************************)
Ptx(name, n, offset) == [name |-> name, n |-> n, offset |-> offset]

to_ptx_register(r) ==
  IF is_zero(r) THEN Ptx("%rz", 0, 0)
  ELSE Ptx(CASE r.prefix = "UR" -> "%ur" [] r.prefix = "P" -> "%p" [] r.prefix = "UP" -> "%up"
             [] OTHER -> "%r", r.number, 0)

(* The name without SR_, in lower case. *)
StrippedName ==
  [n \in SpecialNames |-> CASE n = "SR_TID.X" -> "%tid.x" [] n = "SR_CTAID.X" -> "%ctaid.x"
                      [] n = "SR_LANEID" -> "%laneid" [] n = "SR_CLOCKLO" -> "%clocklo"]

to_ptx_operand(op) ==
  CASE op.kind = "Register" -> to_ptx_register(op.register)
    [] op.kind = "Immediate" -> Ptx("integer", op.value, 0)
    [] op.kind = "FloatImmediate" -> Ptx("float", op.value, 0)
    [] op.kind = "ConstantBank" -> Ptx("[const", op.bank, op.offset)
    [] op.kind = "Memory" ->
         IF op.base = NoRegister THEN Ptx("[", op.offset, 0)
         ELSE LET base == to_ptx_register(op.base)
              IN Ptx("[" \o base.name, base.n, op.offset)
    [] op.kind = "Predicate" ->
         LET r == to_ptx_register(op.register)
         IN Ptx((IF op.negated THEN "@!" ELSE "@") \o r.name, r.n, 0)
    [] op.kind = "SpecialRegister" -> Ptx(StrippedName[op.name], 0, 0)
    [] OTHER -> Ptx("label", 0, 0)

-----------------------------------------------------------------------------
(***************************************************************************)
(* What is read of an operand, and the operands all of whose parts are.    *)
(* reuse is a hint to the hardware and no part of the operand.             *)
(***************************************************************************)
Named(r, name) ==
  /\ r.prefix = name[1]
  /\ name[1] \notin Bare => r.number = name[2]
Signed(r, w) ==
  /\ r.negated = (w.sign \in {"-", "!"}) /\ r.conditionally_negated = (w.sign = "~")
  /\ r.cabs = w.bars
  /\ w.suffix # "reuse" => r.component = w.suffix

Read(w, op) ==
  CASE w.form = "register" ->
         IF w.reg[1] \in SpecialNames THEN op.kind = "SpecialRegister" /\ op.name = w.reg[1]
         ELSE op.kind = "Register" /\ Named(op.register, w.reg) /\ Signed(op.register, w)
    [] w.form = "guard" ->
         op.kind = "Predicate" /\ Named(op.register, w.reg) /\ op.negated = (w.sign = "!")
    [] w.form = "constant" ->
         /\ op.kind = "ConstantBank" /\ op.bank = w.bank /\ op.offset = w.offset
         /\ w.sign = "" /\ ~w.bars /\ w.index = Nowhere
    [] w.form = "memory" ->
         /\ op.kind = "Memory" /\ op.offset = w.offset /\ w.index = Nowhere
         /\ IF w.reg = Nowhere THEN op.base = NoRegister ELSE Named(op.base, w.reg)
         /\ op.is_64bit_addr = (w.suffix = "64")
         /\ IF w.desc = Nowhere THEN op.desc_ur = NoRegister ELSE Named(op.desc_ur, w.desc)
    [] w.form = "integer" -> op.kind = "Immediate" /\ op.value = w.offset
    [] w.form = "float" -> op.kind = "FloatImmediate" /\ op.value = w.offset
    [] w.form = "infinity" -> op.kind = "FloatImmediate"
    [] w.form = "nan" -> op.kind = "FloatImmediate"
    [] w.form = "label" -> op.kind = "Label"

(***************************************************************************)
(* The forms that lose a part, or all they say.  Of these the comments at  *)
(* instruction.rs:507 and 621-625 list -c[..][..] and [R0+R1] as handled.  *)
(***************************************************************************)
Unread(w) ==
  \/ w.form \in {"register", "guard"} /\ w.reg[1] \in {"UPT", "SRZ"}
  \/ w.form = "register" /\ w.reg[1] \in {"RZ", "URZ", "PT"} /\ w.suffix # ""
  \/ w.form = "register" /\ w.bars /\ w.sign # ""
  \/ w.form = "nan"
  \/ w.form = "constant" /\ (w.sign # "" \/ w.bars \/ w.index # Nowhere)
  \/ w.form = "memory" /\ (w.index # Nowhere \/ (w.reg = Nowhere /\ w.offset # 0))

(* Those that are not there at all afterwards: the later operands move up. *)
LeavesNoPlace(w) ==
  \/ w.form = "guard" /\ w.reg[1] = "UPT"
  \/ w.form = "constant" /\ w.index # Nowhere /\ ~w.bars /\ w.sign # "~"

-----------------------------------------------------------------------------
(***************************************************************************)
(* TextDisassemblyParser::parse_instruction_line (parse/text.rs): a line   *)
(* of the listing becomes an instruction, or none if its guard cannot be   *)
(* read.  What follows the operands (the encoding, scheduling hints) is    *)
(* cut off; the first operand is the destination, whatever the opcode.     *)
(***************************************************************************)

(***************************************************************************)
(* A line: its address, its guard (at most one), the opcode, the modifiers *)
(* after it, and the pieces of the rest of the text in their order.        *)
(***************************************************************************)
Ends == {";", "/*", "&", "?"}      \* at depth 0; `&' and `?' begin a token
Piece == [what: {"operand"} \cup Ends, operand: Written]
Line == [address: Nat, guard: Seq(Written), op: STRING, mods: Seq(STRING), rest: Seq(Piece)]

(* filter: the members of a sequence at some of its places, in their order. *)
Selection(s, places) ==
  LET upto[n \in 0..Len(s)] ==
        IF n = 0 THEN <<>>
        ELSE IF n \in places THEN Append(upto[n - 1], s[n]) ELSE upto[n - 1]
  IN upto
Filtered(s, places) == Selection(s, places)[Len(s)]

strip_cuobjdump_trailing_metadata(rest) ==
  LET ends == {n \in DOMAIN rest : rest[n].what \in Ends}
  IN IF ends = {} THEN rest ELSE SubSeq(rest, 1, (CHOOSE n \in ends : \A m \in ends : n <= m) - 1)

split_top_level_operands(rest) ==
  LET operands == Filtered(rest, {n \in DOMAIN rest : rest[n].what = "operand"})
  IN [n \in DOMAIN operands |-> operands[n].operand]

(* The bits a modifier that is a number counts; the width is a u8. *)
Bits(modifier) ==
  CASE modifier = "16" -> 16 [] modifier = "64" -> 64 [] modifier = "128" -> 128
    [] modifier = "16816" -> 16816 [] OTHER -> 0

FirstOf(mods, known) ==
  LET found == {n \in DOMAIN mods : mods[n] \in known}
  IN IF found = {} THEN None ELSE mods[CHOOSE n \in found : \A m \in found : n <= m]

Members(mods) == {mods[n] : n \in DOMAIN mods}

vector_width(mods) ==
  LET number == FirstOf(mods, {m \in Members(mods) : Bits(m) # 0})
  IN IF number = None THEN 1 ELSE (Bits(number) \div 32) % 256

data_type(mods) ==
  from_modifier(FirstOf(mods, {m \in Members(mods) : from_modifier(m) # None}))

(* filter_map: an operand that cannot be read leaves no place behind. *)
Parsed(operands) ==
  LET read == [n \in DOMAIN operands |-> parse_operand(operands[n])]
  IN Filtered(read, {n \in DOMAIN read : read[n] # Dropped})

IsRead(line) == \A n \in DOMAIN line.guard : parse_operand(line.guard[n]) # Dropped

parse_instruction_line(line) ==
  LET operands == split_top_level_operands(strip_cuobjdump_trailing_metadata(line.rest))
  IN [address |-> line.address, opcode |-> line.op, modifiers |-> line.mods,
      opcode_class |-> classify_opcode(line.op),
      memory_space |-> get_memory_space(line.op),
      data_type |-> data_type(line.mods), vector_width |-> vector_width(line.mods),
      predicate |-> [n \in DOMAIN line.guard |-> parse_operand(line.guard[n])],
      dest_operands |-> Parsed(SubSeq(operands, 1, IF operands = <<>> THEN 0 ELSE 1)),
      src_operands |-> Parsed(SubSeq(operands, 2, Len(operands))),
      ptx_template |-> get_ptx_template(line.op),
      data_dependencies |-> <<>>, basic_block_id |-> 0]

(***************************************************************************)
(* Data flow between instructions: registers are compared by prefix and    *)
(* number, and only operands that are registers count.                     *)
(***************************************************************************)
Registers(operands) ==
  {operands[n].register : n \in {m \in DOMAIN operands : operands[m].kind = "Register"}}
Key(register) == <<register.prefix, register.number>>
=============================================================================
