-------------------------------- MODULE Dwarf --------------------------------
(***************************************************************************)
(* The line table of a cubin (parse/dwarf.rs): .debug_line is walked unit  *)
(* by unit; a unit's header gives the file names, and its program, run by  *)
(* a register machine, the source line of each address.                    *)
(*                                                                         *)
(* Bounds: addresses fit in 31 bits, names are ASCII, and a number in      *)
(* LEB128 is of at most three bytes.  Lines are taken as i32.              *)
(***************************************************************************)
EXTENDS CubinImage, FiniteSets

LOCAL INSTANCE SequencesExt

VARIABLES
  line_data,      \* .debug_line
  line_stage,     \* "wait", "unit", "program", "read" or "panic"
  unit_end,       \* the end of the unit walked
  at,             \* the bytes read
  machine,        \* the registers
  file_table,
  line_mappings   \* the row of each address

line_vars == <<line_data, line_stage, unit_end, at, machine, file_table, line_mappings>>

StartOfProgram == [address |-> 0, file |-> 1, line |-> 1, column |-> 0, is_stmt |-> TRUE]
UnknownFile == <<>>     \* "unknown"

LineInit ==
  /\ line_data = <<>> /\ line_stage = "wait"
  /\ unit_end = 0 /\ at = 0
  /\ machine = StartOfProgram
  /\ file_table = <<>> /\ line_mappings = <<>>

-----------------------------------------------------------------------------
(* The file table of a header. *)

(* The first byte that is 0, and the first without the high bit, from `offset' on. *)
Ending(data, offset, ends) ==
  LET found == {n \in offset..(Len(data) - 1) : data[n + 1] \in ends}
  IN IF found = {} THEN Len(data) ELSE CHOOSE n \in found : \A m \in found : n <= m
NulAt(data, offset) == Ending(data, offset, {0})
AfterLeb(data, offset) ==
  LET last == Ending(data, offset, 0..127)
  IN IF last < Len(data) THEN last + 1 ELSE last

Within(data, offset) == offset < Len(data) /\ data[offset + 1] # 0

(* Five parameters, the lengths of the standard opcodes, the directories. *)
AfterDirectories(data) ==
  LET skip[offset \in Nat] ==
        IF Within(data, offset) THEN skip[NulAt(data, offset) + 1] ELSE offset + 1
      base == IF 5 < Len(data) /\ data[5] > 0 THEN data[5] - 1 ELSE 0
  IN skip[5 + base]

(* A name, then its directory, time and size. *)
FileNames(data) ==
  LET names[offset \in Nat] ==
        IF ~Within(data, offset) THEN <<>>
        ELSE LET nul == NulAt(data, offset)
             IN <<SubSeq(data, offset + 1, nul)>> \o
                  names[AfterLeb(data, AfterLeb(data, AfterLeb(data, nul + 1)))]
  IN names[AfterDirectories(data)]

(* Names of earlier units stay where this unit has none. *)
parse_file_table(data) ==
  LET names == FileNames(data)
  IN [n \in DOMAIN file_table \cup DOMAIN names |->
        IF n \in DOMAIN names THEN names[n] ELSE file_table[n]]

-----------------------------------------------------------------------------
(* Units. *)

Left == Len(line_data) - at
unit_length == U32(line_data, at)
version == U16(line_data, at + 4)
header_end == at + 10 + U32(line_data, at + 6)
IsUnit == Left >= 4 /\ unit_length # 0 /\ at + unit_length + 4 <= Len(line_data)
IsRead == Left >= 10 /\ version \in 2..4 /\ header_end < at + 4 + unit_length

NoMoreUnits ==
  /\ line_stage = "unit" /\ ~IsUnit
  /\ line_stage' = "read"
  /\ UNCHANGED <<line_data, unit_end, at, machine, file_table, line_mappings>>

(* A unit of another version, or without a program, is passed over. *)
SkipUnit ==
  /\ line_stage = "unit" /\ IsUnit /\ ~IsRead
  /\ at' = at + 4 + unit_length
  /\ UNCHANGED <<line_data, line_stage, unit_end, machine, file_table, line_mappings>>

(* Mutant: the registers keep what the last unit left in them. *)
OpenUnit_keeps_registers ==
  /\ line_stage = "unit" /\ IsUnit /\ IsRead
  /\ line_stage' = "program"
  /\ unit_end' = at + 4 + unit_length
  /\ at' = header_end
  /\ file_table' = IF header_end > at + 20
                   THEN parse_file_table(SubSeq(line_data, at + 11, header_end))
                   ELSE file_table
  /\ UNCHANGED <<line_data, machine, line_mappings>>

OpenUnit ==
  /\ line_stage = "unit" /\ IsUnit /\ IsRead
  /\ line_stage' = "program"
  /\ unit_end' = at + 4 + unit_length
  /\ at' = header_end
  /\ machine' = StartOfProgram
  /\ file_table' = IF header_end > at + 20
                   THEN parse_file_table(SubSeq(line_data, at + 11, header_end))
                   ELSE file_table
  /\ UNCHANGED <<line_data, line_mappings>>

-----------------------------------------------------------------------------
(* The line program. *)

Running == line_stage = "program" /\ at < unit_end
opcode == line_data[at + 1]
Rest == SubSeq(line_data, at + 2, unit_end)

(* decode_uleb128, decode_sleb128_usize: the value and the bytes it took. *)
LebBytes(bytes) == SubSeq(bytes, 1, AfterLeb(bytes, 0))
Uleb(bytes) ==
  FoldRight(LAMBDA b, high : (b % 128) + 128 * high, LebBytes(bytes), 0)
Sleb(bytes) ==
  LET taken == LebBytes(bytes)
  IN IF taken # <<>> /\ Last(taken) \in 64..127
     THEN Uleb(bytes) - 128 ^ Len(taken) ELSE Uleb(bytes)

EndUnit == line_stage' = "unit" /\ at' = unit_end
Keep == UNCHANGED <<line_data, unit_end, file_table>>

Row(registers) ==
  [file |-> IF registers.file \in DOMAIN file_table THEN file_table[registers.file]
            ELSE UnknownFile,
   line |-> registers.line, column |-> registers.column, is_stmt |-> registers.is_stmt]

(* Mutant: the first row of an address stays. *)
EmitRow_keeps_first(registers) ==
  line_mappings' = [a \in DOMAIN line_mappings \cup {registers.address} |->
                      IF a \in DOMAIN line_mappings THEN line_mappings[a] ELSE Row(registers)]

EmitRow(registers) ==
  line_mappings' = [a \in DOMAIN line_mappings \cup {registers.address} |->
                      IF a = registers.address THEN Row(registers) ELSE line_mappings[a]]

EndOfProgram ==
  /\ line_stage = "program" /\ ~Running
  /\ EndUnit
  /\ Keep /\ UNCHANGED <<machine, line_mappings>>

(* Nothing after the zero, no length, or the end of a sequence: the walk stops. *)
EndSequence ==
  /\ Running /\ opcode = 0
  /\ Len(Rest) < 2 \/ Rest[1] = 0 \/ Rest[2] = 1
  /\ EndUnit
  /\ Keep /\ UNCHANGED <<machine, line_mappings>>

(* set_address, of eight bytes; the other extended opcodes are passed over. *)
Extended ==
  /\ Running /\ opcode = 0
  /\ Len(Rest) >= 2 /\ Rest[1] # 0 /\ Rest[2] # 1
  /\ at' = at + 2 + Rest[1]
  /\ machine' = IF Rest[2] = 2 /\ Len(Rest) >= 10
                THEN [machine EXCEPT !.address = U32(Rest, 2)] ELSE machine
  /\ Keep /\ UNCHANGED <<line_stage, line_mappings>>

Copy ==
  /\ Running /\ opcode = 1
  /\ EmitRow(machine)
  /\ at' = at + 1
  /\ Keep /\ UNCHANGED <<line_stage, machine>>

(* An opcode with a number in LEB128, and the register it changes. *)
Advanced ==
  CASE opcode = 2 -> [machine EXCEPT !.address = @ + Uleb(Rest)]
    [] opcode = 3 -> [machine EXCEPT !.line = @ + Sleb(Rest)]
    [] opcode = 4 -> [machine EXCEPT !.file = Uleb(Rest)]
    [] opcode = 5 -> [machine EXCEPT !.column = Uleb(Rest)]

WithOperand ==
  /\ Running /\ opcode \in 2..5
  /\ machine' = Advanced
  /\ at' = at + 1 + Len(LebBytes(Rest))
  /\ Keep /\ UNCHANGED <<line_stage, line_mappings>>

WithoutOperand ==
  /\ Running /\ opcode \in 6..8
  /\ machine' = CASE opcode = 6 -> [machine EXCEPT !.is_stmt = ~@]
                  [] opcode = 7 -> machine
                  [] opcode = 8 -> [machine EXCEPT !.address = @ + 17]
  /\ at' = at + 1
  /\ Keep /\ UNCHANGED <<line_stage, line_mappings>>

FixedAdvance ==
  /\ Running /\ opcode = 9
  /\ IF Len(Rest) >= 2
     THEN machine' = [machine EXCEPT !.address = @ + U16(Rest, 0)] /\ at' = at + 3
     ELSE machine' = machine /\ at' = at + 1
  /\ Keep /\ UNCHANGED <<line_stage, line_mappings>>

Stepped(adjusted) ==
  [machine EXCEPT !.line = @ + (adjusted % 14) - 6, !.address = @ + adjusted \div 14]

SpecialOpcode ==
  /\ Running /\ opcode >= 13
  /\ machine' = Stepped(opcode - 13)
  /\ EmitRow(machine')
  /\ at' = at + 1
  /\ Keep /\ UNCHANGED line_stage

(* opcode - 13 on a u8: a build with overflow checks panics, one without wraps. *)
OpcodeUnderflows ==
  /\ Running /\ opcode \in 10..12
  /\ \/ /\ line_stage' = "panic"
        /\ UNCHANGED <<at, machine, line_mappings>>
     \/ /\ machine' = Stepped((opcode - 13) % 256)
        /\ EmitRow(machine')
        /\ at' = at + 1
        /\ UNCHANGED line_stage
  /\ Keep

LineNext ==
  \/ NoMoreUnits \/ SkipUnit \/ OpenUnit \/ EndOfProgram \/ EndSequence \/ Extended
  \/ Copy \/ WithOperand \/ WithoutOperand \/ FixedAdvance \/ SpecialOpcode
  \/ OpcodeUnderflows

-----------------------------------------------------------------------------
(***************************************************************************)
(* The functions, variables and units .debug_info describes                *)
(* (parse/dwarf.rs, process_die).  The entries and their attributes are    *)
(* decoded by the `gimli' library; each attribute sets a field, in the     *)
(* order of the attributes, and an entry without a name is dropped.        *)
(***************************************************************************)

(***************************************************************************)
(* An attribute: its name, the form of its value, and the value: a number, *)
(* a string, or the bytes of an expression.                                *)
(***************************************************************************)
Tag == {"compile_unit", "subprogram", "variable", "formal_parameter", "other"}
Form == {"addr", "udata", "string", "exprloc", "flag"}
Attribute == [name: STRING, form: Form, n: Nat, s: STRING, bytes: Seq(Byte)]
DebugEntry == [tag: Tag, attrs: Seq(Attribute)]

NoString == ""
get_string_value(attr) == IF attr.form = "string" THEN attr.s ELSE NoString
IfForm(attr, form, old) == IF attr.form = form THEN attr.n ELSE old

(* An address, or a length that is added to the low_pc read so far. *)
HighPc(attr, info) ==
  CASE attr.form = "addr" -> attr.n
    [] attr.form = "udata" -> info.low_pc + attr.n
    [] OTHER -> info.high_pc

NewUnit == [name |-> NoString, comp_dir |-> NoString, producer |-> NoString,
            low_pc |-> 0, high_pc |-> 0]
UnitWith(info, attr) ==
  CASE attr.name = "name" -> [info EXCEPT !.name = get_string_value(attr)]
    [] attr.name = "comp_dir" -> [info EXCEPT !.comp_dir = get_string_value(attr)]
    [] attr.name = "producer" -> [info EXCEPT !.producer = get_string_value(attr)]
    [] attr.name = "low_pc" -> [info EXCEPT !.low_pc = IfForm(attr, "addr", @)]
    [] attr.name = "high_pc" -> [info EXCEPT !.high_pc = HighPc(attr, info)]
    [] OTHER -> info

NewFunction == [name |-> NoString, linkage_name |-> NoString, linked |-> FALSE,
                low_pc |-> 0, high_pc |-> 0, line |-> 0, is_inlined |-> FALSE]
FunctionWith(info, attr) ==
  CASE attr.name = "name" -> [info EXCEPT !.name = get_string_value(attr)]
    [] attr.name = "linkage_name" ->
         [info EXCEPT !.linkage_name = get_string_value(attr), !.linked = TRUE]
    [] attr.name = "low_pc" -> [info EXCEPT !.low_pc = IfForm(attr, "addr", @)]
    [] attr.name = "high_pc" -> [info EXCEPT !.high_pc = HighPc(attr, info)]
    [] attr.name = "decl_line" -> [info EXCEPT !.line = IfForm(attr, "udata", @)]
    [] attr.name = "inline" -> [info EXCEPT !.is_inlined = TRUE]
    [] OTHER -> info

(* parse_location_expr: a register, a frame offset, an address, or kept as it is. *)
Location(kind, n) == [kind |-> kind, n |-> n]
SignedByte(b) == IF b >= 64 THEN b - 128 ELSE b     \* a one-byte SLEB128
parse_location_expr(attr) ==
  LET bytes == attr.bytes
  IN IF attr.form # "exprloc" \/ bytes = <<>> THEN Location("unknown", 0)
     ELSE IF bytes[1] \in 80..111 THEN Location("register", bytes[1] - 80)
     ELSE IF bytes[1] = 145
     THEN IF Len(bytes) > 1 THEN Location("stack", SignedByte(bytes[2]))
          ELSE Location("unknown", 0)
     ELSE IF bytes[1] = 3
     THEN IF Len(bytes) >= 9 THEN Location("address", U32(bytes, 1)) ELSE Location("unknown", 0)
     ELSE Location("expression", 0)

NewVariable(tag) == [name |-> NoString, location |-> Location("unknown", 0), line |-> 0,
                     is_parameter |-> tag = "formal_parameter"]
VariableWith(info, attr) ==
  CASE attr.name = "name" -> [info EXCEPT !.name = get_string_value(attr)]
    [] attr.name = "decl_line" -> [info EXCEPT !.line = IfForm(attr, "udata", @)]
    [] attr.name = "location" -> [info EXCEPT !.location = parse_location_expr(attr)]
    [] OTHER -> info

-----------------------------------------------------------------------------
VARIABLES
  entries_read,       \* the entries processed
  compilation_units, functions, variables

info_vars == <<entries_read, compilation_units, functions, variables>>

InfoInit ==
  /\ entries_read = 0
  /\ compilation_units = <<>> /\ functions = <<>> /\ variables = <<>>

AppendIf(seq, info, keep) == IF keep THEN Append(seq, info) ELSE seq

(* process_die. *)
ProcessUnit(entry) ==
  /\ entry.tag = "compile_unit"
  /\ LET cu == FoldLeft(UnitWith, NewUnit, entry.attrs)
     IN compilation_units' = AppendIf(compilation_units, cu, cu.name # NoString)
  /\ UNCHANGED <<functions, variables>>

ProcessFunction(entry) ==
  /\ entry.tag = "subprogram"
  /\ LET func == FoldLeft(FunctionWith, NewFunction, entry.attrs)
     IN functions' = AppendIf(functions, func, func.name # NoString \/ func.linked)
  /\ UNCHANGED <<compilation_units, variables>>

ProcessVariable(entry) ==
  /\ entry.tag \in {"variable", "formal_parameter"}
  /\ LET var == FoldLeft(VariableWith, NewVariable(entry.tag), entry.attrs)
     IN variables' = AppendIf(variables, var, var.name # NoString)
  /\ UNCHANGED <<compilation_units, functions>>

ProcessOther(entry) ==
  /\ entry.tag = "other"
  /\ UNCHANGED <<compilation_units, functions, variables>>

ProcessEntry(entries) ==
  /\ entries_read < Len(entries)
  /\ entries_read' = entries_read + 1
  /\ \/ ProcessUnit(entries[entries_read'])
     \/ ProcessFunction(entries[entries_read'])
     \/ ProcessVariable(entries[entries_read'])
     \/ ProcessOther(entries[entries_read'])

-----------------------------------------------------------------------------
(***************************************************************************)
(* What a compiler writes in .debug_line, and what it means by it: the     *)
(* line machine of the DWARF standard with the parameters of each unit's   *)
(* header.  The parser above reads the bytes; its parameters are fixed.    *)
(***************************************************************************)
OpName == {"copy", "advance_pc", "advance_line", "set_file", "set_column", "negate_stmt",
           "set_basic_block", "const_add_pc", "fixed_advance_pc", "set_prologue_end", "special",
           "set_address", "discriminator", "end_sequence"}
Op == [op: OpName, n: Int]
Parameters == [min_inst: Nat, line_base: Int, line_range: Nat, opcode_base: 1..255]
Unit == [version: Nat, params: Parameters, directories: Seq(Seq(Byte)),
         files: Seq(Seq(Byte)), program: Seq(Op)]

-----------------------------------------------------------------------------
(* Bytes. *)

Low32(n) == Low16(n % 65536) \o Low16(n \div 65536)
UlebBytes(n) == IF n < 128 THEN <<n>> ELSE <<128 + (n % 128), n \div 128>>
SlebBytes(n) == IF n \in -64..63 THEN <<n % 128>>
                ELSE <<128 + (n % 128), (n \div 128) % 128>>

OpBytes(o) ==
  CASE o.op = "copy" -> <<1>>
    [] o.op = "advance_pc" -> <<2>> \o UlebBytes(o.n)
    [] o.op = "advance_line" -> <<3>> \o SlebBytes(o.n)
    [] o.op = "set_file" -> <<4>> \o UlebBytes(o.n)
    [] o.op = "set_column" -> <<5>> \o UlebBytes(o.n)
    [] o.op = "negate_stmt" -> <<6>>
    [] o.op = "set_basic_block" -> <<7>>
    [] o.op = "const_add_pc" -> <<8>>
    [] o.op = "fixed_advance_pc" -> <<9>> \o Low16(o.n)
    [] o.op = "set_prologue_end" -> <<10>>
    [] o.op = "special" -> <<o.n>>
    [] o.op = "set_address" -> <<0, 9, 2>> \o Low32(o.n) \o Zeros(4)
    [] o.op = "discriminator" -> <<0, 2, 4, o.n>>
    [] o.op = "end_sequence" -> <<0, 1, 1>>

Terminated(strings, after) ==
  Joined([n \in DOMAIN strings |-> strings[n] \o <<0>> \o after]) \o <<0>>

HeaderBytes(u) ==
  <<u.params.min_inst, 1, u.params.line_base % 256, u.params.line_range, u.params.opcode_base>>
    \o [n \in 1..(u.params.opcode_base - 1) |-> 1]
    \o Terminated(u.directories, <<>>) \o Terminated(u.files, <<1, 130, 1, 0>>)

UnitBytes(u) ==
  LET header == HeaderBytes(u)
      body == Low16(u.version) \o Low32(Len(header)) \o header
                \o Joined([n \in DOMAIN u.program |-> OpBytes(u.program[n])])
  IN Low32(Len(body)) \o body
TableBytes(units) == Joined([n \in DOMAIN units |-> UnitBytes(units[n])])

-----------------------------------------------------------------------------
(* Meaning.  The parameters the parser takes every header to have. *)

Usual == [min_inst |-> 1, line_base |-> -6, line_range |-> 14, opcode_base |-> 13]
UsesParameters(o) == o.op \in {"special", "const_add_pc"}

First == [address |-> 0, file |-> 1, line |-> 1, column |-> 0, is_stmt |-> TRUE]

After(r, o, p) ==
  CASE o.op = "advance_pc" -> [r EXCEPT !.address = @ + p.min_inst * o.n]
    [] o.op = "advance_line" -> [r EXCEPT !.line = @ + o.n]
    [] o.op = "set_file" -> [r EXCEPT !.file = o.n]
    [] o.op = "set_column" -> [r EXCEPT !.column = o.n]
    [] o.op = "negate_stmt" -> [r EXCEPT !.is_stmt = ~@]
    [] o.op = "const_add_pc" ->
         [r EXCEPT !.address = @ + p.min_inst * ((255 - p.opcode_base) \div p.line_range)]
    [] o.op = "fixed_advance_pc" -> [r EXCEPT !.address = @ + o.n]
    [] o.op = "special" ->
         LET adjusted == o.n - p.opcode_base
         IN [r EXCEPT !.address = @ + p.min_inst * (adjusted \div p.line_range),
                      !.line = @ + p.line_base + (adjusted % p.line_range)]
    [] o.op = "set_address" -> [r EXCEPT !.address = o.n]
    [] OTHER -> r

(* The registers after each opcode, and the rows: one for each `copy' and special opcode. *)
Registers(u, n) == FoldLeft(LAMBDA r, o : After(r, o, u.params), First, SubSeq(u.program, 1, n))
Rows(u) ==
  LET emits == {n \in DOMAIN u.program : u.program[n].op \in {"copy", "special"}}
  IN {[at |-> n, row |-> Registers(u, n)] : n \in emits}

(* One sequence, read by the parameters assumed, naming the unit's own files. *)
Read(u) == u.version \in 2..4
Readable(u) ==
  /\ u.program # <<>> /\ u.program[Len(u.program)].op = "end_sequence"
  /\ \A n \in 1..(Len(u.program) - 1) :
       /\ u.program[n].op \notin {"end_sequence", "set_prologue_end"}
       /\ UsesParameters(u.program[n]) => u.params = Usual
  /\ u.params.min_inst = 1
  /\ \A e \in Rows(u) : e.row.file \in DOMAIN u.files

(* The rows of the units, and the one that holds for an address: the last. *)
AllRows(units) ==
  UNION {{[unit |-> m, at |-> e.at, row |-> e.row] : e \in Rows(units[m])} :
           m \in {n \in DOMAIN units : Read(units[n])}}
Later(x, y) == x.unit > y.unit \/ (x.unit = y.unit /\ x.at > y.at)

Meant(units) ==
  LET rows == AllRows(units)
      last(a) == CHOOSE x \in rows : /\ x.row.address = a
                                     /\ \A y \in rows : y.row.address = a => ~Later(y, x)
      named(x) == [file |-> units[x.unit].files[x.row.file], line |-> x.row.line,
                   column |-> x.row.column, is_stmt |-> x.row.is_stmt]
  IN [a \in {x.row.address : x \in rows} |-> named(last(a))]
=============================================================================
