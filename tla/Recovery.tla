------------------------------ MODULE Recovery ------------------------------
(***************************************************************************)
(* PTX recovery (ptx_recovery.rs): the cubin is parsed, its debug sections *)
(* are read, and each instruction of a function is given the line of PTX   *)
(* it came from.  Whole-cubin recovery (recover_all) always fails: the     *)
(* decoder it needs has been removed.  The reconstruction of the PTX of an *)
(* instruction is in Reconstruct.                                          *)
(*                                                                         *)
(* A path is its bytes and does not end with a slash.                      *)
(***************************************************************************)
EXTENDS CubinParse, Dwarf

(***************************************************************************)
(* One use of the engine.  table: the line table the compiler wrote.       *)
(* entries: the entries of .debug_info, decoded.  sources: what            *)
(* add_ptx_content was given, in order.  instructions: the addresses of    *)
(* the function's instructions.                                            *)
(***************************************************************************)
CONSTANT Requests

Source == [name: Seq(Byte), lines: Seq(STRING)]
Request == [file: File, table: Seq(Unit), entries: Seq(DebugEntry), sources: Seq(Source),
            function: STRING, start: Nat, instructions: Seq(Nat)]

ASSUME RequestsAssumption == Requests \subseteq Request

VARIABLES
  request,
  outcome,        \* "none", "started", "recovered", "all_failed", "panic"
  looked_up,      \* the instructions looked up
  linkage_name,
  end_address,
  sass_to_ptx,    \* the line of an address
  ptx_lines       \* the text of a line

recover_vars == <<request, outcome, looked_up, linkage_name, end_address, sass_to_ptx, ptx_lines>>
vars == <<cubin_vars, line_vars, info_vars, recover_vars>>

Init ==
  /\ request \in Requests
  /\ CubinInit(request.file) /\ LineInit /\ InfoInit
  /\ outcome = "none"
  /\ looked_up = 0
  /\ linkage_name = NoString /\ end_address = 0
  /\ sass_to_ptx = <<>> /\ ptx_lines = <<>>

-----------------------------------------------------------------------------
(* PtxRecoveryEngine::new.  An error of the cubin parser is its result; the *)
(* parser of a builder is not used by the engine.                           *)

ReadCubin == CubinNext /\ UNCHANGED <<line_vars, info_vars, recover_vars>>

(* object.section_by_name: the first of the name, if its bytes are there. *)
DebugLineSections ==
  {n \in DOMAIN file.sections : file.sections[n].name.stem = ".debug_line"}
DebugLineData ==
  IF DebugLineSections = {} THEN <<>>
  ELSE LET s == file.sections[CHOOSE n \in DebugLineSections :
                                \A m \in DebugLineSections : n <= m]
       IN IF s.inside THEN s.data ELSE <<>>

OpenDebugLine ==
  /\ stage = "parsed" /\ ~file.builder /\ line_stage = "wait"
  /\ line_data' = DebugLineData
  /\ line_stage' = "unit"
  /\ UNCHANGED <<unit_end, at, machine, file_table, line_mappings,
                 cubin_vars, info_vars, recover_vars>>

ReadLines == LineNext /\ UNCHANGED <<cubin_vars, info_vars, recover_vars>>

ReadInfo ==
  /\ line_stage = "read"
  /\ ProcessEntry(request.entries)
  /\ UNCHANGED <<cubin_vars, line_vars, recover_vars>>

Engine == line_stage = "read" /\ entries_read = Len(request.entries)
Recovering == outcome = "started" /\ looked_up < Len(request.instructions)

-----------------------------------------------------------------------------
(* get_source_line. *)

NoSource == ""

(* The cache: a name given again has its last content. *)
Cached == {request.sources[n].name : n \in DOMAIN request.sources}
ContentOf(name) ==
  request.sources[CHOOSE n \in DOMAIN request.sources :
                    /\ request.sources[n].name = name
                    /\ \A m \in DOMAIN request.sources :
                         request.sources[m].name = name => m <= n].lines

SLASH == 47
basename(path) ==
  LET slashes == {n \in DOMAIN path : path[n] = SLASH}
  IN IF slashes = {} THEN path
     ELSE SubSeq(path, (CHOOSE n \in slashes : \A m \in slashes : m <= n) + 1, Len(path))

(* Line 0: `line - 1' panics, or wraps to a line no file has. *)
Nth(name, line) ==
  IF line \in DOMAIN ContentOf(name) THEN ContentOf(name)[line] ELSE NoSource
SameBasename(name) == {c \in Cached : basename(c) = basename(name)}

(* Mutant: files are matched by their last component only. *)
get_source_line_basename(name, line) ==
  IF SameBasename(name) # {} THEN {Nth(c, line) : c \in SameBasename(name)} ELSE {NoSource}

(* The name itself, or else any file of the same last component: the cache *)
(* is a HashMap.                                                           *)
get_source_line(name, line) ==
  IF name \in Cached THEN {Nth(name, line)}
  ELSE IF SameBasename(name) # {} THEN {Nth(c, line) : c \in SameBasename(name)}
  ELSE {NoSource}

-----------------------------------------------------------------------------
(* recover_function. *)

MatchesFunction(f) ==
  f.name = request.function \/ (f.linked /\ f.linkage_name = request.function)

StartFunction ==
  /\ Engine /\ outcome = "none"
  /\ outcome' = "started"
  /\ end_address' = IF request.instructions = <<>> THEN request.start
                    ELSE request.instructions[Len(request.instructions)]
  /\ linkage_name' = IF \E n \in DOMAIN functions : MatchesFunction(functions[n])
                     THEN SelectSeq(functions, MatchesFunction)[1].linkage_name
                     ELSE NoString
  /\ UNCHANGED <<request, looked_up, sass_to_ptx, ptx_lines,
                 cubin_vars, line_vars, info_vars>>

SourceLine(row, text) ==
  [source |-> text, file |-> row.file, column |-> row.column, is_statement |-> row.is_stmt]

(* HashMap::insert. *)
Inserted(map, key, value) ==
  [k \in DOMAIN map \cup {key} |-> IF k = key THEN value ELSE map[k]]

(* The instruction's row gives its line; the line's text is kept once. *)
LookUp(row, address) ==
  /\ sass_to_ptx' = Inserted(sass_to_ptx, address, row.line)
  /\ \E text \in get_source_line(row.file, row.line) :
       ptx_lines' = IF text = NoSource \/ row.line \in DOMAIN ptx_lines THEN ptx_lines
                    ELSE Inserted(ptx_lines, row.line, SourceLine(row, text))

RecoverInstruction ==
  /\ Recovering
  /\ looked_up' = looked_up + 1
  /\ LET address == request.instructions[looked_up']
     IN IF address \in DOMAIN line_mappings THEN LookUp(line_mappings[address], address)
        ELSE UNCHANGED <<sass_to_ptx, ptx_lines>>
  /\ UNCHANGED <<request, outcome, linkage_name, end_address, cubin_vars, line_vars, info_vars>>

(* `line - 1' with line 0, where overflow is checked. *)
LineUnderflows ==
  /\ Recovering
  /\ LET address == request.instructions[looked_up + 1]
     IN /\ address \in DOMAIN line_mappings
        /\ line_mappings[address].line = 0
        /\ SameBasename(line_mappings[address].file) # {}
  /\ outcome' = "panic"
  /\ UNCHANGED <<request, looked_up, linkage_name, end_address, sass_to_ptx, ptx_lines,
                 cubin_vars, line_vars, info_vars>>

FunctionRecovered ==
  /\ outcome = "started" /\ ~Recovering
  /\ outcome' = "recovered"
  /\ UNCHANGED <<request, looked_up, linkage_name, end_address, sass_to_ptx, ptx_lines,
                 cubin_vars, line_vars, info_vars>>

(* recover_all, on the same engine: an error whatever was read. *)
RecoverAll ==
  /\ Engine /\ outcome = "none"
  /\ outcome' = "all_failed"
  /\ UNCHANGED <<request, looked_up, linkage_name, end_address, sass_to_ptx, ptx_lines,
                 cubin_vars, line_vars, info_vars>>

Finished ==
  /\ \/ stage \in {"error", "panic"}
     \/ stage = "parsed" /\ file.builder
     \/ line_stage = "panic"
     \/ outcome \notin {"none", "started"}
  /\ UNCHANGED vars

Next ==
  \/ ReadCubin \/ OpenDebugLine \/ ReadLines \/ ReadInfo
  \/ StartFunction \/ RecoverInstruction \/ LineUnderflows \/ FunctionRecovered \/ RecoverAll
  \/ Finished

Spec == Init /\ [][Next]_vars

-----------------------------------------------------------------------------
(***************************************************************************)
(* The rows read are the rows the compiler wrote, and of the rows of one   *)
(* address the last, over all units: registers and file names of a unit    *)
(* are not those another has left, and every opcode takes the bytes that   *)
(* are its own (parse/dwarf.rs:294-438).  For tables within what the code  *)
(* takes every header to say (Readable).                                   *)
(***************************************************************************)
RowsAsProgrammed ==
  line_stage = "read" /\ line_data = TableBytes(request.table)
    /\ (\A n \in DOMAIN request.table : Read(request.table[n]) => Readable(request.table[n]))
  => line_mappings = Meant(request.table)

(* The one text a row can mean: of the file itself, or of the only one of its last component. *)
TextsOf(row) ==
  IF row.file \in Cached THEN {Nth(row.file, row.line)}
  ELSE LET same == SameBasename(row.file)
       IN IF Cardinality(same) = 1 THEN {Nth(c, row.line) : c \in same} ELSE {}

Mapped == {request.instructions[n] : n \in DOMAIN request.instructions} \cap DOMAIN line_mappings
OwnsItsLine(address) ==
  \A a \in Mapped : line_mappings[a].line = line_mappings[address].line
                       => line_mappings[a].file = line_mappings[address].file

(***************************************************************************)
(* Each mapped instruction leads, through its line, to the text of that    *)
(* line in its own file, where that file can be told and no other file of  *)
(* the function has an instruction on a line of the same number            *)
(* (ptx_recovery.rs:699-714, 756-786).                                     *)
(***************************************************************************)
SourcesAsMapped ==
  outcome = "recovered" =>
    /\ DOMAIN sass_to_ptx = Mapped
    /\ \A address \in Mapped :
         LET row == line_mappings[address]
         IN /\ sass_to_ptx[address] = row.line
            /\ OwnsItsLine(address) =>
                 \A text \in TextsOf(row) \ {NoSource} :
                   /\ row.line \in DOMAIN ptx_lines
                   /\ ptx_lines[row.line].source = text
                   /\ ptx_lines[row.line].file = row.file
=============================================================================
