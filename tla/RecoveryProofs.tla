--------------------------- MODULE RecoveryProofs ---------------------------
(***************************************************************************)
(* PTX recovery maps instructions to the lines of their rows, proved for   *)
(* every cubin, line table, set of sources and function.                   *)
(*                                                                         *)
(* ptx_lines is a map by line NUMBER: instructions of two files may fall   *)
(* on one entry, and the first one reached keeps it.  Hence the inductive  *)
(* invariant RecoverInv speaks of the rows reached so far, in both         *)
(* directions: each entry was made from one of them, and each of them that *)
(* has a text has an entry of its number.  Nothing is needed of the cubin  *)
(* or the line table, only that neither changes once the engine is made.   *)
(***************************************************************************)
EXTENDS Recovery, NvInfoProofs

-----------------------------------------------------------------------------
(* The instructions looked up that have a row. *)
Reached == {request.instructions[n] : n \in 1..looked_up} \cap DOMAIN line_mappings

(* What get_source_line may find for the row of an address. *)
Found == [a \in DOMAIN line_mappings |->
            get_source_line(line_mappings[a].file, line_mappings[a].line)]

MapKept(map, reached, rows) ==
  /\ DOMAIN map = reached
  /\ \A a \in reached : map[a] = rows[a].line
MapInv == MapKept(sass_to_ptx, Reached, line_mappings)

(* An entry was made from the row of a. *)
Shows(entry, a, rows, found) == entry.file = rows[a].file /\ entry.source \in found[a]

(* Every entry comes from a row reached, and every row reached has its entry. *)
TextKept(lines, reached, rows, found) ==
  /\ \A l \in DOMAIN lines :
       \E a \in reached : rows[a].line = l /\ Shows(lines[l], a, rows, found)
  /\ \A a \in reached : \A text :
       found[a] = {text} /\ text # NoSource => rows[a].line \in DOMAIN lines
TextInv == TextKept(ptx_lines, Reached, line_mappings, Found)

RecoverInv ==
  /\ request \in Requests
  /\ outcome # "none" => line_stage = "read"
  /\ outcome = "none" => looked_up = 0 /\ sass_to_ptx = <<>> /\ ptx_lines = <<>>
  /\ outcome \in {"started", "recovered"} =>
       /\ looked_up \in 0..Len(request.instructions)
       /\ outcome = "recovered" => looked_up = Len(request.instructions)
       /\ MapInv /\ TextInv

-----------------------------------------------------------------------------
(* The sources are those of the request. *)
LEMMA SameSources ==
  ASSUME request' = request
  PROVE  \A name, line : get_source_line(name, line)' = get_source_line(name, line)
  <1>1. Cached' = Cached
    BY Zenon DEF Cached
  <1>2. \A name : ContentOf(name)' = ContentOf(name) /\ SameBasename(name)' = SameBasename(name)
    BY <1>1, Zenon DEF ContentOf, SameBasename
  <1>3. \A name, line : Nth(name, line)' = Nth(name, line)
    BY <1>2, Zenon DEF Nth
  <1> QED BY <1>1, <1>2, <1>3, Zenon DEF get_source_line

(* Once the engine is made, neither the cubin nor its line table is read again. *)
LEMMA ReadOnce ==
  ASSUME line_stage = "read"
  PROVE  /\ ~LineNext /\ ~OpenDebugLine
         /\ line_stage \notin {"wait", "unit", "program", "panic"}
  BY DEF LineNext, OpenDebugLine, NoMoreUnits, SkipUnit, OpenUnit, EndOfProgram, EndSequence, Extended,
     Copy, WithOperand, WithoutOperand, FixedAdvance, SpecialOpcode, OpcodeUnderflows, Running

LEMMA InitRecoverInv == Init => RecoverInv
  BY DEF Init, RecoverInv

LEMMA SameRows ==
  ASSUME request' = request, line_mappings' = line_mappings
  PROVE  Found' = Found
  BY SameSources, Zenon DEF Found

(* The maps of a function are kept while the request and the rows are. *)
LEMMA MapsKept ==
  ASSUME request' = request, looked_up' = looked_up, line_mappings' = line_mappings,
         sass_to_ptx' = sass_to_ptx, ptx_lines' = ptx_lines
  PROVE  /\ MapInv => MapInv'
         /\ TextInv => TextInv'
  <1>1. Reached' = Reached
    BY Zenon DEF Reached
  <1> QED BY <1>1, SameRows DEF MapInv, TextInv

LEMMA ReadingKeeps ==
  RecoverInv /\ (ReadCubin \/ OpenDebugLine \/ ReadLines \/ ReadInfo) => RecoverInv'
  <1> SUFFICES ASSUME RecoverInv, ReadCubin \/ OpenDebugLine \/ ReadLines \/ ReadInfo
               PROVE  RecoverInv'
    OBVIOUS
  <1>1. UNCHANGED recover_vars
    BY DEF ReadCubin, OpenDebugLine, ReadLines, ReadInfo
  <1>2. outcome # "none" => line_mappings' = line_mappings /\ line_stage' = "read"
    BY ReadOnce DEF RecoverInv, ReadCubin, ReadLines, ReadInfo, line_vars
  <1> QED BY <1>1, <1>2, MapsKept DEF RecoverInv, recover_vars

LEMMA StartKeeps == RecoverInv /\ StartFunction => RecoverInv'
  <1> SUFFICES ASSUME RecoverInv, StartFunction
               PROVE  RecoverInv'
    OBVIOUS
  <1>1. /\ request' = request /\ looked_up' = looked_up /\ line_mappings' = line_mappings
        /\ sass_to_ptx' = sass_to_ptx /\ ptx_lines' = ptx_lines /\ line_stage' = "read"
        /\ outcome = "none" /\ outcome' = "started"
    BY DEF StartFunction, Engine, line_vars
  <1>2. looked_up = 0 /\ sass_to_ptx = << >> /\ ptx_lines = << >> /\ request \in Requests
    BY <1>1 DEF RecoverInv
  <1>3. Reached = {}
    BY <1>2 DEF Reached
  <1>4. MapInv /\ TextInv
    BY <1>2, <1>3 DEF MapInv, TextInv, MapKept, TextKept
  <1>5. Len(request.instructions) \in Nat
    BY <1>2, RequestsAssumption DEF Request
  <1> QED BY <1>1, <1>2, <1>4, <1>5, MapsKept DEF RecoverInv

LEMMA InstructionKeeps == RecoverInv /\ RecoverInstruction => RecoverInv'
  <1> SUFFICES ASSUME RecoverInv, RecoverInstruction
               PROVE  RecoverInv'
    OBVIOUS
  <1> DEFINE address == request.instructions[looked_up + 1]
             row == line_mappings[address]
  <1>1. /\ request' = request /\ line_mappings' = line_mappings /\ line_stage' = line_stage
        /\ outcome' = outcome /\ outcome = "started" /\ line_stage = "read"
        /\ looked_up' = looked_up + 1 /\ looked_up < Len(request.instructions)
        /\ looked_up \in Nat /\ Len(request.instructions) \in Nat
        /\ request \in Requests
    <2>1. Len(request.instructions) \in Nat
      BY RequestsAssumption DEF RecoverInv, Request
    <2> QED BY <2>1 DEF RecoverInstruction, Recovering, RecoverInv, line_vars
  <1>2. MapInv /\ TextInv
    BY <1>1 DEF RecoverInv
  <1>3. looked_up' \in 0..Len(request'.instructions)
    BY <1>1
  <1>4. Reached' = Reached \cup ({address} \cap DOMAIN line_mappings)
    <2>1. 1..looked_up' = 1..looked_up \cup {looked_up + 1}
      BY <1>1
    <2> QED BY <1>1, <2>1 DEF Reached
  <1>5. Found' = Found
    BY <1>1, SameRows
  <1>6. CASE address \notin DOMAIN line_mappings
    <2>1. sass_to_ptx' = sass_to_ptx /\ ptx_lines' = ptx_lines
      BY <1>1, <1>6 DEF RecoverInstruction
    <2>2. Reached' = Reached
      BY <1>4, <1>6
    <2>3. MapInv' /\ TextInv'
      BY <1>1, <1>2, <1>5, <2>1, <2>2 DEF MapInv, TextInv
    <2> QED BY <1>1, <1>3, <2>3 DEF RecoverInv
  <1>7. CASE address \in DOMAIN line_mappings
    <2>1. LookUp(row, address)
      BY <1>1, <1>7 DEF RecoverInstruction
    <2>2. Reached' = Reached \cup {address}
      BY <1>4, <1>7
    <2>3. PICK text \in get_source_line(row.file, row.line) :
            ptx_lines' = IF text = NoSource \/ row.line \in DOMAIN ptx_lines THEN ptx_lines
                         ELSE Inserted(ptx_lines, row.line, SourceLine(row, text))
      BY <2>1 DEF LookUp
    <2>4. text \in Found[address]
      BY <1>7, <2>3 DEF Found
    <2>5. sass_to_ptx' = Inserted(sass_to_ptx, address, row.line)
      BY <2>1 DEF LookUp
    <2> DEFINE rows == line_mappings
               entry == SourceLine(row, text)
    <2>6. entry.file = row.file /\ entry.source = text
      BY DEF SourceLine
    <2> HIDE DEF address, entry
    <2>7. MapInv'
      <3>1. MapKept(Inserted(sass_to_ptx, address, row.line), Reached \cup {address}, rows)
        BY <1>2 DEF MapInv, MapKept, Inserted
      <3> QED BY <1>1, <2>2, <2>5, <3>1 DEF MapInv
    <2>8. TextKept(ptx_lines', Reached \cup {address}, rows, Found)
      <3>1. CASE text = NoSource \/ row.line \in DOMAIN ptx_lines
        BY <1>2, <2>3, <2>4, <3>1 DEF TextInv, TextKept
      <3>2. CASE text # NoSource /\ row.line \notin DOMAIN ptx_lines
        <4>1. ptx_lines' = Inserted(ptx_lines, row.line, entry)
          BY <2>3, <3>2 DEF entry
        <4>2. /\ DOMAIN ptx_lines' = DOMAIN ptx_lines \cup {row.line}
              /\ ptx_lines'[row.line] = entry
              /\ \A l \in DOMAIN ptx_lines : ptx_lines'[l] = ptx_lines[l]
          BY <3>2, <4>1 DEF Inserted
        <4>3. Shows(entry, address, rows, Found)
          BY <2>4, <2>6 DEF Shows
        <4> QED BY <1>2, <4>2, <4>3 DEF TextInv, TextKept
      <3> QED BY <3>1, <3>2
    <2>9. TextInv'
      BY <1>1, <1>5, <2>2, <2>8 DEF TextInv
    <2> QED BY <1>1, <1>3, <2>7, <2>9 DEF RecoverInv
  <1> QED BY <1>6, <1>7

LEMMA EndKeeps == RecoverInv /\ (LineUnderflows \/ FunctionRecovered \/ RecoverAll) => RecoverInv'
  <1> SUFFICES ASSUME RecoverInv, LineUnderflows \/ FunctionRecovered \/ RecoverAll
               PROVE  RecoverInv'
    OBVIOUS
  <1>1. /\ request' = request /\ looked_up' = looked_up /\ line_mappings' = line_mappings
        /\ sass_to_ptx' = sass_to_ptx /\ ptx_lines' = ptx_lines /\ line_stage' = line_stage
        /\ line_stage = "read"
    BY DEF LineUnderflows, Recovering, FunctionRecovered, RecoverAll, Engine, line_vars, RecoverInv
  <1>2. request \in Requests
    BY DEF RecoverInv
  <1>3. CASE LineUnderflows \/ RecoverAll
    BY <1>1, <1>2, <1>3 DEF RecoverInv, LineUnderflows, RecoverAll
  <1>4. CASE FunctionRecovered
    <2>1. outcome = "started" /\ outcome' = "recovered" /\ ~(looked_up < Len(request.instructions))
      BY <1>4 DEF FunctionRecovered, Recovering
    <2>2. looked_up \in 0..Len(request.instructions) /\ MapInv /\ TextInv
      BY <2>1 DEF RecoverInv
    <2>3. Len(request.instructions) \in Nat
      BY <1>2, RequestsAssumption DEF Request
    <2>4. looked_up = Len(request.instructions)
      BY <2>1, <2>2, <2>3
    <2> QED BY <1>1, <1>2, <2>1, <2>2, <2>4, MapsKept DEF RecoverInv
  <1> QED BY <1>3, <1>4

LEMMA InvariantHolds == Spec => []RecoverInv
  <1>1. RecoverInv /\ UNCHANGED vars => RecoverInv'
    BY MapsKept DEF RecoverInv, vars, recover_vars, line_vars
  <1>2. RecoverInv /\ [Next]_vars => RecoverInv'
    BY <1>1, ReadingKeeps, StartKeeps, InstructionKeeps, EndKeeps DEF Next, Finished
  <1> QED BY InitRecoverInv, <1>2, PTL DEF Spec

-----------------------------------------------------------------------------
(* The one text a row can mean is the one get_source_line finds. *)
LEMMA OneText ==
  ASSUME request \in Requests, NEW row, NEW text \in TextsOf(row)
  PROVE  get_source_line(row.file, row.line) = {text}
  <1>1. CASE row.file \in Cached
    BY <1>1 DEF TextsOf, get_source_line
  <1>2. CASE row.file \notin Cached
    <2> DEFINE same == SameBasename(row.file)
    <2>1. Cardinality(same) = 1 /\ text \in {Nth(c, row.line) : c \in same}
      BY <1>2 DEF TextsOf
    <2>2. IsFiniteSet(same)
      <3>1. request.sources \in Seq(Source)
        BY RequestsAssumption DEF Request
      <3> DEFINE n == Len(request.sources)
                 names == [k \in 1..n |-> request.sources[k].name]
      <3>2. n \in Nat /\ names \in [1..n -> Cached] /\ \A name \in Cached : \E k \in 1..n : names[k] = name
        BY <3>1 DEF Cached
      <3> HIDE DEF names, n
      <3>3. IsFiniteSet(Cached)
        BY <3>2 DEF IsFiniteSet
      <3> QED BY <3>3, FS_Subset DEF SameBasename
    <2>3. PICK c : same = {c}
      BY <2>1, <2>2, FS_Singleton
    <2>4. get_source_line(row.file, row.line) = {Nth(d, row.line) : d \in same}
      BY <1>2, <2>3 DEF get_source_line
    <2> QED BY <2>1, <2>3, <2>4
  <1> QED BY <1>1, <1>2

(***************************************************************************)
(* PTX lines are those of their rows.  For every cubin, line table, order  *)
(* of the sources and function: what recover_function has when it returns  *)
(* gives each instruction that has a row the line of that row, and, where  *)
(* the row's file can be told and no other file has an instruction on a    *)
(* line of the same number, the text of that line in that file, whatever   *)
(* order the cache of sources is searched in (ptx_recovery.rs:699-786).    *)
(***************************************************************************)
THEOREM MappedToTheirSources == Spec => []SourcesAsMapped
  <1>1. RecoverInv => SourcesAsMapped
    <2> SUFFICES ASSUME RecoverInv, outcome = "recovered"
                 PROVE  /\ DOMAIN sass_to_ptx = Mapped
                        /\ \A address \in Mapped :
                             LET row == line_mappings[address]
                             IN /\ sass_to_ptx[address] = row.line
                                /\ OwnsItsLine(address) =>
                                     \A text \in TextsOf(row) \ {NoSource} :
                                       /\ row.line \in DOMAIN ptx_lines
                                       /\ ptx_lines[row.line].source = text
                                       /\ ptx_lines[row.line].file = row.file
      BY DEF SourcesAsMapped
    <2>1. request \in Requests /\ MapInv /\ TextInv /\ looked_up = Len(request.instructions)
      BY DEF RecoverInv
    <2>2. Reached = Mapped
      <3>1. DOMAIN request.instructions = 1..looked_up
        BY <2>1, RequestsAssumption DEF Request
      <3> QED BY <3>1 DEF Reached, Mapped
    <2>3. DOMAIN sass_to_ptx = Mapped /\ \A a \in Mapped : sass_to_ptx[a] = line_mappings[a].line
      BY <2>1, <2>2 DEF MapInv, MapKept
    <2>4. ASSUME NEW address \in Mapped, OwnsItsLine(address),
                 NEW text \in TextsOf(line_mappings[address]) \ {NoSource}
          PROVE  LET row == line_mappings[address]
                 IN  /\ row.line \in DOMAIN ptx_lines
                     /\ ptx_lines[row.line].source = text
                     /\ ptx_lines[row.line].file = row.file
      <3> DEFINE row == line_mappings[address]
      <3>1. get_source_line(row.file, row.line) = {text}
        BY <2>1, <2>4, OneText
      <3>2. row.line \in DOMAIN ptx_lines
        BY <2>1, <2>2, <2>4, <3>1 DEF TextInv, TextKept, Found, Mapped
      <3>3. PICK a \in Mapped : /\ line_mappings[a].line = row.line
                                /\ Shows(ptx_lines[row.line], a, line_mappings, Found)
        BY <2>1, <2>2, <3>2 DEF TextInv, TextKept
      <3>4. line_mappings[a].file = row.file
        BY <2>4, <3>3 DEF OwnsItsLine
      <3>5. Found[a] = {text}
        BY <3>1, <3>3, <3>4 DEF Found, Mapped
      <3> QED BY <3>2, <3>3, <3>4, <3>5 DEF Shows
    <2> QED BY <2>3, <2>4
  <1> QED BY InvariantHolds, <1>1, PTL

-----------------------------------------------------------------------------
(***************************************************************************)
(* The kernels are as compiled, proved for every cubin.                    *)
(*                                                                         *)
(* Two arguments.  parse_nv_info turns on data of any bytes, and its turns *)
(* are in step with the entries when these are sized and padded to words:  *)
(* by induction on the entries read, each turn begins at a word, where an  *)
(* entry does, and has of every field the last word given for it           *)
(* (ReadsAll).  CompiledInv is about the parse: until the last section is  *)
(* read the map has the last of each name among those read, and then every *)
(* kernel is what its name's sections give, each name at most once,        *)
(* whatever order the HashMap takes them in.                               *)
(***************************************************************************)
(* parse_nv_info: the turns of its loop, and what they make of padded entries. *)

Meta == [num_registers: Nat, shared_mem_size: Nat, const_mem_size: Nat,
         local_mem_size: Nat, max_threads_per_block: Nat]
Turning == [offset: Nat, meta: Meta]

LEMMA WithTyped ==
  ASSUME NEW meta \in Meta, NEW attr_type, NEW word \in Nat
  PROVE  With(meta, attr_type, word) \in Meta
BY DEF With, Meta, REGCOUNT, SMEM_SIZE, LMEM_SIZE, MAX_THREADS

LEMMA WordTyped ==
  ASSUME NEW data \in Seq(Nat), NEW o \in Nat
  PROVE  /\ o + 2 <= Len(data) => U16(data, o) \in Nat
         /\ o + 4 <= Len(data) => U32(data, o) \in Nat
<1> DEFINE n == Len(data)
<1>1. n \in Nat /\ \A i \in 1..n : data[i] \in Nat
  OBVIOUS
<1> HIDE DEF n
<1>2. ASSUME o + 2 <= n PROVE U16(data, o) \in Nat
  <2>1. o + 1 \in 1..n /\ o + 2 \in 1..n
    BY <1>1, <1>2
  <2>2. data[o + 1] \in Nat /\ data[o + 2] \in Nat
    BY <1>1, <2>1
  <2>3. QED
    BY <2>2 DEF U16
<1>3. ASSUME o + 4 <= n PROVE U32(data, o) \in Nat
  <2>1. o + 1 \in 1..n /\ o + 2 \in 1..n /\ o + 2 + 1 \in 1..n /\ o + 2 + 2 \in 1..n
    BY <1>1, <1>3
  <2>2. data[o + 1] \in Nat /\ data[o + 2] \in Nat /\ data[o + 2 + 1] \in Nat /\ data[o + 2 + 2] \in Nat
    BY <1>1, <2>1
  <2>3. \A a, b \in Nat : a + 256 * b \in Nat /\ a + 65536 * b \in Nat
    OBVIOUS
  <2>4. U16(data, o) \in Nat /\ U16(data, o + 2) \in Nat
    <3> DEFINE a == data[o + 1]
               b == data[o + 2]
               c == data[o + 2 + 1]
               d == data[o + 2 + 2]
    <3>1. U16(data, o) = a + 256 * b /\ U16(data, o + 2) = c + 256 * d
      BY Zenon DEF U16
    <3>2. a \in Nat /\ b \in Nat /\ c \in Nat /\ d \in Nat
      BY <2>2
    <3> HIDE DEF a, b, c, d
    <3>3. QED
      BY <2>3, <3>1, <3>2
  <2>5. QED
    <3> DEFINE a == U16(data, o)
               b == U16(data, o + 2)
    <3>1. U32(data, o) = a + 65536 * b
      BY DEF U32
    <3>2. a \in Nat /\ b \in Nat
      BY <2>4
    <3> HIDE DEF a, b
    <3>3. QED
      BY <2>3, <3>1, <3>2
<1>4. QED
  BY <1>2, <1>3 DEF n

LEMMA TurnedTyped ==
  ASSUME NEW data \in Seq(Nat), NEW padded \in BOOLEAN, NEW to \in Turning
  PROVE  Turned(data, padded, to) \in Turning
<1> DEFINE o == to.offset
           size == U16(data, o + 2)
           end == o + 4 + size
           word == U32(data, o + 4)
           next == [offset |-> IF padded THEN Aligned(end) ELSE end,
                    meta |-> IF size < 4 THEN to.meta
                             ELSE With(to.meta, SubSeq(data, o + 1, o + 2), word)]
<1>1. o \in Nat /\ to.meta \in Meta /\ Len(data) \in Nat
  BY DEF Turning
<1>2. ASSUME ~(o + 4 > Len(data) \/ end > Len(data)) PROVE next \in Turning
  <2>1. size \in Nat
    <3>1. o + 2 \in Nat /\ (o + 2) + 2 <= Len(data)
      BY <1>1, <1>2
    <3>2. QED
      BY <3>1, WordTyped
  <2>2. ~(size < 4) => word \in Nat
    <3>1. ASSUME ~(size < 4) PROVE o + 4 \in Nat /\ (o + 4) + 4 <= Len(data)
      <4> HIDE DEF size, o
      <4>1. ~(o + 4 + size > Len(data))
        BY <1>2
      <4>2. QED
        BY <1>1, <2>1, <3>1, <4>1
    <3>2. QED
      BY <3>1, WordTyped
  <2>3. end \in Nat /\ Aligned(end) \in Nat
    <3> HIDE DEF size
    <3>1. QED
      BY <1>1, <2>1 DEF Aligned
  <2>4. next.meta \in Meta
    BY <1>1, <2>2, WithTyped
  <2>5. next.offset \in Nat
    BY <2>3
  <2> HIDE DEF size, end, word, o
  <2>6. QED
    BY <2>4, <2>5 DEF Turning
<1>3. Turned(data, padded, to) = IF o + 4 > Len(data) \/ end > Len(data) THEN to ELSE next
  BY Zenon DEF Turned
<1> HIDE DEF next, end, o
<1>4. QED
  BY <1>2, <1>3

Turned_(v, data, padded) ==
  /\ v \in [0..Len(data) -> Turning] /\ v[0] = [offset |-> 0, meta |-> Metadata]
  /\ \A n \in 1..Len(data) : v[n] = Turned(data, padded, v[n - 1])

LEMMA TurnsSteps ==
  ASSUME NEW data \in Seq(Nat), NEW padded \in BOOLEAN
  PROVE  Turned_(Turns(data, padded), data, padded)
<1> DEFINE N == Len(data)
           T == Turning
           base == [offset |-> 0, meta |-> Metadata]
           turn(to) == Turned(data, padded, to)
           step == [u \in T \X (1..N) |-> turn(u[1])]
           Is(g) == g = [n \in 0..N |-> IF n = 0 THEN base ELSE turn(g[n - 1])]
<1>1. N \in Nat
  OBVIOUS
<1>2. base \in T
  BY DEF Turning, Metadata, Meta
<1>3. \A to \in T : turn(to) \in T
  BY TurnedTyped
<1>4. Turns(data, padded) = CHOOSE g : Is(g)
  BY Zenon DEF Turns
<1> HIDE DEF T, N, turn, base
<1>5. step \in Steps(N, T) /\ \A t \in T : \A n \in 1..N : step[<<t, n>>] = turn(t)
  BY <1>3 DEF Steps
<1> HIDE DEF step
<1>6. PICK g \in [0..N -> T] : g[0] = base /\ Follows(g, N, step)
  BY <1>1, <1>2, <1>5, Recursion
<1>7. \A n \in 1..N : n - 1 \in 0..N
  BY <1>1
<1>8. \A n \in 1..N : g[n] = turn(g[n - 1])
  BY <1>5, <1>6, <1>7 DEF Follows
<1>9. g = [n \in 0..N |-> IF n = 0 THEN base ELSE turn(g[n - 1])]
  BY <1>1, <1>6, <1>8
<1>10. Is(g)
  BY <1>9
<1> DEFINE w == CHOOSE h : Is(h)
<1>11. Is(w)
  BY <1>10, Zenon
<1> HIDE DEF w
<1>12. /\ DOMAIN w = 0..N /\ w[0] = base /\ \A n \in 1..N : w[n] = turn(w[n - 1])
       /\ w = [n \in 0..N |-> w[n]]
  <2>1. \A n \in 1..N : n \in 0..N /\ n # 0
    BY <1>1
  <2>2. DOMAIN w = 0..N /\ 0 \in 0..N
    BY <1>1, <1>11
  <2>3. \A n \in 0..N : w[n] = IF n = 0 THEN base ELSE turn(w[n - 1])
    BY <1>11, Zenon
  <2>4. w = [n \in 0..N |-> w[n]]
    BY <1>11, <2>2
  <2>5. QED
    BY <2>1, <2>2, <2>3, <2>4
<1> DEFINE S == {n \in Nat : n <= N => w[n] \in T}
<1>13. 0 \in S
  BY <1>2, <1>12
<1>14. ASSUME NEW n \in Nat, n \in S PROVE n + 1 \in S
  <2>1. SUFFICES ASSUME n + 1 <= N PROVE w[n + 1] \in T
    BY <1>1
  <2>2. n + 1 \in 1..N /\ (n + 1) - 1 = n /\ n <= N
    BY <1>1, <2>1
  <2>3. w[n] \in T /\ w[n + 1] = turn(w[n])
    BY <1>12, <1>14, <2>2
  <2>4. QED
    BY <1>3, <2>3
<1> HIDE DEF S
<1>15. Nat \subseteq S
  BY <1>13, <1>14, Induction
<1>16. \A n \in 0..N : w[n] \in T
  BY <1>1, <1>15 DEF S
<1>17. w \in [0..N -> T]
  BY <1>12, <1>16
<1>18. QED
  BY <1>4, <1>12, <1>17 DEF w, N, T, turn, base, Turned_

-----------------------------------------------------------------------------
(* Entries that end at words. *)

PadOff(entries, j) == Len(Upto(PaddedPieces(entries))[j])

LEMMA ToWordShape ==
  ASSUME NEW b \in Seq(Nat)
  PROVE  /\ ToWord(b) \in Seq(Nat) /\ Len(ToWord(b)) = Aligned(Len(b))
         /\ \A i \in 1..Len(b) : ToWord(b)[i] = b[i]
<1> DEFINE n == Len(b)
           z == (4 - (n % 4)) % 4
           zeros == Zeros(z)
<1>1. n \in Nat
  OBVIOUS
<1>2. ToWord(b) = b \o zeros
  BY Zenon DEF ToWord
<1>3. z \in Nat /\ n + z = Aligned(n)
  <2> HIDE DEF n
  <2>1. QED
    BY <1>1 DEF Aligned
<1> HIDE DEF z
<1>4. zeros \in Seq(Nat) /\ Len(zeros) = z
  BY <1>3 DEF Zeros
<1> HIDE DEF zeros
<1>5. IsChain(b \o zeros, b, zeros)
  BY <1>4, Chained
<1>6. QED
  BY <1>2, <1>3, <1>4, <1>5 DEF IsChain, n

LEMMA PaddedTyped ==
  ASSUME NEW entries \in Seq(Entry)
  PROVE  /\ PaddedPieces(entries) \in Seq(Seq(Nat))
         /\ Len(PaddedPieces(entries)) = Len(entries)
         /\ \A n \in 1..Len(entries) :
              /\ entries[n] \in Entry
              /\ PaddedPieces(entries)[n] = ToWord(EntryBytes(entries[n]))
<1>1. Len(entries) \in Nat /\ DOMAIN entries = 1..Len(entries)
  OBVIOUS
<1>2. \A n \in 1..Len(entries) : entries[n] \in Entry
  OBVIOUS
<1>3. \A n \in 1..Len(entries) : ToWord(EntryBytes(entries[n])) \in Seq(Nat)
  BY <1>2, EntryShape, ToWordShape
<1>4. PaddedPieces(entries) = [n \in 1..Len(entries) |-> ToWord(EntryBytes(entries[n]))]
  BY <1>1 DEF PaddedPieces
<1> DEFINE T == Seq(Nat)
           N == Len(entries)
           q == PaddedPieces(entries)
<1>5. N \in Nat /\ DOMAIN q = 1..N /\ \A n \in 1..N : q[n] \in T
  BY <1>1, <1>3, <1>4
<1>6. q = [n \in 1..N |-> q[n]]
  BY <1>4
<1> HIDE DEF T, N, q
<1>7. q \in Seq(T) /\ Len(q) = N
  BY <1>5, <1>6
<1>8. QED
  BY <1>2, <1>4, <1>7 DEF T, N, q

(* Where the padded entries begin: each at a word. *)
LEMMA PaddedOffsets ==
  ASSUME NEW entries \in Seq(Entry)
  PROVE  /\ \A j \in 0..Len(entries) : /\ Upto(PaddedPieces(entries))[j] \in Seq(Nat)
                                       /\ PadOff(entries, j) \in Nat
                                       /\ PadOff(entries, j) <= PadOff(entries, Len(entries))
         /\ PadOff(entries, 0) = 0
         /\ \A j \in 0..(Len(entries) - 1) :
              /\ PadOff(entries, j + 1) = PadOff(entries, j) + Aligned(4 + Len(entries[j + 1].data))
              /\ \A i \in 1..(4 + Len(entries[j + 1].data)) :
                   Upto(PaddedPieces(entries))[j + 1][PadOff(entries, j) + i]
                     = EntryBytes(entries[j + 1])[i]
<1> DEFINE p == PaddedPieces(entries)
           u == Upto(p)
           N == Len(entries)
<1>1. /\ p \in Seq(Seq(Nat)) /\ Len(p) = N /\ N \in Nat
      /\ \A n \in 1..N : entries[n] \in Entry /\ p[n] = ToWord(EntryBytes(entries[n]))
  BY PaddedTyped
<1> HIDE DEF p
<1>2. /\ u \in [0..N -> Seq(Nat)] /\ u[0] = <<>>
      /\ \A n \in 1..N : u[n] = u[n - 1] \o p[n]
  BY <1>1, UptoSteps
<1>3. \A j \in 0..N : Len(u[j]) <= Len(u[N])
  <2>1. TAKE j \in 0..N
  <2>2. N \in 0..Len(p) /\ j \in 0..N
    BY <1>1
  <2>3. QED
    BY <1>1, <2>2, UptoBegins
<1> HIDE DEF u, N
<1>4. \A j \in 0..N : u[j] \in Seq(Nat) /\ Len(u[j]) \in Nat
  BY <1>2
<1>5. ASSUME NEW j \in 0..(N - 1)
      PROVE  /\ Len(u[j + 1]) = Len(u[j]) + Aligned(4 + Len(entries[j + 1].data))
             /\ \A i \in 1..(4 + Len(entries[j + 1].data)) :
                  u[j + 1][Len(u[j]) + i] = EntryBytes(entries[j + 1])[i]
  <2>1. j + 1 \in 1..N /\ (j + 1) - 1 = j /\ j \in 0..N
    BY <1>1
  <2> DEFINE e == entries[j + 1]
             b == EntryBytes(e)
             a == u[j]
             t == ToWord(b)
             n == 4 + Len(e.data)
  <2>2. u[j + 1] = a \o t /\ e \in Entry
    BY <1>1, <1>2, <2>1
  <2> HIDE DEF e
  <2>3. b \in Seq(Nat) /\ Len(b) = n
    BY <2>2, EntryShape
  <2> HIDE DEF b, n
  <2>4. t \in Seq(Nat) /\ Len(t) = Aligned(n) /\ \A i \in 1..n : t[i] = b[i]
    BY <2>3, ToWordShape
  <2>5. a \in Seq(Nat) /\ n \in Nat
    BY <1>4, <2>1, <2>3
  <2> HIDE DEF a, t
  <2>6. IsChain(u[j + 1], a, t)
    BY <2>2, <2>4, <2>5, Chained
  <2>7. n <= Aligned(n)
    BY <2>5 DEF Aligned
  <2>8. \A i \in 1..n : i \in 1..Len(t)
    BY <2>4, <2>5, <2>7
  <2>9. Len(u[j + 1]) = Len(a) + Aligned(n) /\ \A i \in 1..n : u[j + 1][Len(a) + i] = b[i]
    BY <2>4, <2>6, <2>8 DEF IsChain
  <2>10. QED
    BY <2>9 DEF e, a, b, n
<1>6. Len(u[0]) = 0
  BY <1>2
<1>7. QED
  BY <1>3, <1>4, <1>5, <1>6 DEF PadOff, u, N, p

(* Padded bytes have entry j + 1 where the first j end. *)
PaddedEntry(entries, j) ==
  LET data == EncodePadded(entries)
      e == entries[j + 1]
      o == PadOff(entries, j)
      n == Len(e.data)
  IN /\ e \in Entry /\ o \in Nat /\ n \in Nat /\ data \in Seq(Nat)
     /\ Len(data) = PadOff(entries, Len(entries)) /\ o + 4 + n <= Len(data)
     /\ PadOff(entries, j + 1) = o + Aligned(4 + n)
     /\ SubSeq(data, o + 1, o + 2) = <<e.fmt, e.attr>>
     /\ e.sized => U16(data, o + 2) = n
     /\ n >= 4 => U32(data, o + 4) = U32(e.data, 0)

LEMMA PaddedAt ==
  ASSUME NEW entries \in Seq(Entry), NEW j \in 0..(Len(entries) - 1)
  PROVE  PaddedEntry(entries, j)
<1> DEFINE p == PaddedPieces(entries)
           u == Upto(p)
           N == Len(entries)
           e == entries[j + 1]
           d == e.data
           b == EntryBytes(e)
           o == PadOff(entries, j)
           n == Len(d)
           data == EncodePadded(entries)
<1>1. p \in Seq(Seq(Nat)) /\ Len(p) = N /\ N \in Nat
  BY PaddedTyped
<1>2. data = u[N]
  BY <1>1, Zenon DEF EncodePadded, Joined
<1>3. j \in 0..N /\ j + 1 \in 0..N /\ j + 1 \in 1..N
  BY <1>1
<1>4. e \in Entry
  BY <1>3, PaddedTyped
<1> HIDE DEF e
<1>5. /\ d \in Seq(Nat) /\ e.fmt \in Nat /\ e.attr \in Nat
      /\ b \in Seq(Nat) /\ Len(b) = 4 + n /\ b[1] = e.fmt /\ b[2] = e.attr
      /\ b[3] + 256 * b[4] = IF e.sized THEN n ELSE e.value
      /\ \A i \in 1..n : b[4 + i] = d[i]
  BY <1>4, EntryShape
<1>6. /\ u[N] \in Seq(Nat) /\ u[j + 1] \in Seq(Nat) /\ o \in Nat
      /\ PadOff(entries, j + 1) <= PadOff(entries, N)
      /\ PadOff(entries, j + 1) = o + Aligned(4 + n)
      /\ \A i \in 1..(4 + n) : u[j + 1][o + i] = b[i]
  <2> HIDE DEF d, b
  <2>1. /\ \A k \in 0..N : u[k] \in Seq(Nat) /\ PadOff(entries, k) \in Nat
                          /\ PadOff(entries, k) <= PadOff(entries, N)
        /\ \A k \in 0..(N - 1) :
             /\ PadOff(entries, k + 1) = PadOff(entries, k) + Aligned(4 + Len(entries[k + 1].data))
             /\ \A i \in 1..(4 + Len(entries[k + 1].data)) :
                  u[k + 1][PadOff(entries, k) + i] = EntryBytes(entries[k + 1])[i]
    BY PaddedOffsets
  <2>2. N \in 0..N /\ j \in 0..(N - 1)
    BY <1>1
  <2> HIDE DEF u, N, p
  <2>3. /\ u[N] \in Seq(Nat) /\ u[j + 1] \in Seq(Nat) /\ PadOff(entries, j) \in Nat
        /\ PadOff(entries, j + 1) <= PadOff(entries, N)
    BY <1>3, <2>1, <2>2
  <2>4. /\ PadOff(entries, j + 1) = PadOff(entries, j) + Aligned(4 + Len(entries[j + 1].data))
        /\ \A i \in 1..(4 + Len(entries[j + 1].data)) :
             u[j + 1][PadOff(entries, j) + i] = EntryBytes(entries[j + 1])[i]
    BY <2>1, <2>2, Zenon
  <2>5. QED
    BY <2>3, <2>4, Zenon DEF e, d, b
<1>7. \A i \in 1..Len(u[j + 1]) : u[N][i] = u[j + 1][i]
  <2>1. N \in 0..Len(p) /\ j + 1 \in 0..N
    BY <1>1, <1>3
  <2> HIDE DEF p
  <2>2. QED
    BY <1>1, <2>1, UptoBegins
<1>8. Len(u[j + 1]) = o + Aligned(4 + n) /\ Len(data) = PadOff(entries, N)
  BY <1>2, <1>6 DEF PadOff
<1>9. n \in Nat
  BY <1>5
<1> HIDE DEF p, u, N, d, b, n, data, o
<1>10. Aligned(4 + n) \in Nat /\ 4 + n <= Aligned(4 + n)
  BY <1>9 DEF Aligned
<1>11. \A i \in 1..(4 + n) : data[o + i] = b[i]
  <2>1. TAKE i \in 1..(4 + n)
  <2>2. o + i \in 1..Len(u[j + 1])
    BY <1>6, <1>8, <1>9, <1>10
  <2>3. QED
    BY <1>2, <1>6, <1>7, <2>2
<1>12. Len(data) \in Nat /\ o + 4 + n <= Len(data)
  BY <1>2, <1>6, <1>8, <1>9, <1>10 DEF N
<1>13. data[o + 1] = b[1] /\ data[o + 2] = b[2] /\ data[o + 3] = b[3] /\ data[o + 4] = b[4]
  BY <1>9, <1>11
<1>14. \A i \in 1..n : data[o + 4 + i] = d[i]
  <2>1. TAKE i \in 1..n
  <2>2. 4 + i \in 1..(4 + n) /\ o + (4 + i) = o + 4 + i
    BY <1>6, <1>9
  <2>3. QED
    BY <1>5, <1>11, <2>2 DEF n
<1>15. SubSeq(data, o + 1, o + 2) = <<e.fmt, e.attr>>
  <2> DEFINE q == SubSeq(data, o + 1, o + 2)
             r == <<e.fmt, e.attr>>
  <2>1. o + 2 <= Len(data)
    BY <1>6, <1>9, <1>12
  <2>2. q \in Seq(Nat) /\ Len(q) = 2 /\ q[1] = data[o + 1] /\ q[2] = data[o + 2]
    BY <1>2, <1>6, <2>1
  <2>3. r \in Seq(Nat) /\ Len(r) = 2 /\ r[1] = e.fmt /\ r[2] = e.attr
    BY <1>5
  <2>4. q[1] = r[1] /\ q[2] = r[2]
    BY <1>5, <1>13, <2>2, <2>3
  <2> HIDE DEF q, r
  <2>5. \A i \in 1..Len(q) : q[i] = r[i]
    BY <2>2, <2>4
  <2>6. q = r
    BY <2>2, <2>3, <2>5, SameSequence
  <2>7. QED
    BY <2>6 DEF q, r
<1>16. U16(data, o + 2) = b[3] + 256 * b[4]
  <2>1. o + 2 + 1 = o + 3 /\ o + 2 + 2 = o + 4
    BY <1>6
  <2>2. QED
    BY <1>13, <2>1, Zenon DEF U16
<1>17. ASSUME n >= 4 PROVE U32(data, o + 4) = U32(d, 0)
  <2>1. /\ 1 \in 1..n /\ 2 \in 1..n /\ 3 \in 1..n /\ 4 \in 1..n
    BY <1>9, <1>17
  <2>2. /\ data[o + 4 + 1] = d[1] /\ data[o + 4 + 2] = d[2]
        /\ data[o + 4 + 3] = d[3] /\ data[o + 4 + 4] = d[4]
    BY <1>14, <2>1
  <2>3. /\ o + 4 + 2 + 1 = o + 4 + 3 /\ o + 4 + 2 + 2 = o + 4 + 4
        /\ 0 + 1 = 1 /\ 0 + 2 = 2 /\ 0 + 2 + 1 = 3 /\ 0 + 2 + 2 = 4
    BY <1>6
  <2>4. U16(data, o + 4) = U16(d, 0)
    BY <2>2, <2>3, Zenon DEF U16
  <2>5. U16(data, o + 4 + 2) = U16(d, 0 + 2)
    BY <2>2, <2>3, Zenon DEF U16
  <2>6. QED
    BY <2>4, <2>5 DEF U32
<1>18. data \in Seq(Nat)
  BY <1>2, <1>6
<1>19. QED
  BY <1>4, <1>5, <1>6, <1>8, <1>9, <1>12, <1>15, <1>16, <1>17, <1>18
     DEF PaddedEntry, e, d, b, o, n, data, N

(* A turn at the beginning of an entry passes it. *)
LEMMA TurnPasses ==
  ASSUME NEW entries \in Seq(Entry), NEW j \in 0..(Len(entries) - 1), entries[j + 1].sized,
         NEW meta, PadOff(entries, j) % 4 = 0
  PROVE  LET e == entries[j + 1]
             n == Len(e.data)
             told == IF n < 4 THEN meta ELSE With(meta, <<e.fmt, e.attr>>, U32(e.data, 0))
         IN /\ Turned(EncodePadded(entries), TRUE, [offset |-> PadOff(entries, j), meta |-> meta])
                 = [offset |-> PadOff(entries, j + 1), meta |-> told]
            /\ PadOff(entries, j + 1) % 4 = 0
<1> DEFINE data == EncodePadded(entries)
           e == entries[j + 1]
           o == PadOff(entries, j)
           p == PadOff(entries, j + 1)
           n == Len(e.data)
           to == [offset |-> o, meta |-> meta]
           told == IF n < 4 THEN meta ELSE With(meta, <<e.fmt, e.attr>>, U32(e.data, 0))
           size == U16(data, o + 2)
           next == [offset |-> Aligned(o + 4 + size),
                    meta |-> IF size < 4 THEN meta
                             ELSE With(meta, SubSeq(data, o + 1, o + 2), U32(data, o + 4))]
<1>1. /\ o \in Nat /\ n \in Nat /\ o + 4 + n <= Len(data) /\ Len(data) \in Nat
      /\ p = o + Aligned(4 + n)
      /\ SubSeq(data, o + 1, o + 2) = <<e.fmt, e.attr>>
      /\ size = n
      /\ n >= 4 => U32(data, o + 4) = U32(e.data, 0)
  <2>1. PaddedEntry(entries, j)
    BY PaddedAt
  <2>2. data \in Seq(Nat)
    BY <2>1, Zenon DEF PaddedEntry
  <2>3. Len(data) \in Nat
    BY <2>2
  <2>4. QED
    BY <2>1, <2>3, Zenon DEF PaddedEntry
<1>2. to.offset = o /\ to.meta = meta
  OBVIOUS
<1> HIDE DEF to
<1>3. Turned(data, TRUE, to) = IF o + 4 > Len(data) \/ o + 4 + size > Len(data) THEN to ELSE next
  BY <1>2 DEF Turned
<1>4. o % 4 = 0
  BY DEF o
<1> HIDE DEF data, e, o, p, n, size
<1>5. ~(o + 4 > Len(data) \/ o + 4 + size > Len(data))
  BY <1>1
<1>6. Aligned(o + 4 + n) = p /\ p % 4 = 0
  BY <1>1, <1>4 DEF Aligned
<1>7. next = [offset |-> p, meta |-> told]
  <2>1. CASE n < 4
    BY <1>1, <1>6, <2>1
  <2>2. CASE ~(n < 4)
    <3> DEFINE sub == SubSeq(data, o + 1, o + 2)
               word == U32(data, o + 4)
               pair == <<e.fmt, e.attr>>
               given == U32(e.data, 0)
    <3>1. sub = pair /\ word = given
      BY <1>1, <2>2
    <3> HIDE DEF sub, word, pair, given
    <3>2. With(meta, sub, word) = With(meta, pair, given)
      BY <3>1
    <3> DEFINE a == With(meta, sub, word)
               b == With(meta, pair, given)
    <3>3. next = [offset |-> Aligned(o + 4 + size), meta |-> IF size < 4 THEN meta ELSE a]
      BY DEF sub, word
    <3>4. told = IF n < 4 THEN meta ELSE b
      BY DEF pair, given
    <3> HIDE DEF a, b, next, told
    <3>5. QED
      BY <1>1, <1>6, <2>2, <3>2, <3>3, <3>4 DEF a, b
  <2>3. QED
    BY <2>1, <2>2
<1> HIDE DEF next, told
<1>8. Turned(data, TRUE, to) = [offset |-> p, meta |-> told]
  BY <1>3, <1>5, <1>7
<1>9. QED
  BY <1>6, <1>8 DEF data, e, o, p, n, to, told

-----------------------------------------------------------------------------
(* Greatest numbers, as CHOOSE finds them. *)
GreatestOf(found) == CHOOSE n \in found : \A m \in found : n >= m

LEMMA GreatestIs ==
  ASSUME NEW found, NEW n \in found, found \subseteq Nat, \A m \in found : n >= m
  PROVE  GreatestOf(found) = n
<1> DEFINE g == GreatestOf(found)
<1>1. g \in found /\ \A m \in found : g >= m
  BY Zenon DEF GreatestOf
<1>2. g >= n /\ n >= g /\ g \in Nat /\ n \in Nat
  BY <1>1
<1> HIDE DEF g
<1>3. g = n
  BY <1>2
<1>4. QED
  BY <1>3 DEF g

LEMMA GreatestExists ==
  ASSUME NEW N \in Nat, NEW found, found \subseteq 1..N, found # {}
  PROVE  GreatestOf(found) \in found /\ \A m \in found : GreatestOf(found) >= m
<1> DEFINE T == {k \in Nat : (\E n \in found : n + k >= N) => \E g \in found : \A m \in found : g >= m}
<1>1. 0 \in T
  BY DEF T
<1>2. ASSUME NEW k \in Nat, k \in T PROVE k + 1 \in T
  <2>1. SUFFICES ASSUME NEW n \in found, n + (k + 1) >= N
                 PROVE  \E g \in found : \A m \in found : g >= m
    OBVIOUS
  <2>2. CASE \A m \in found : n >= m
    BY <2>2
  <2>3. CASE \E m \in found : ~(n >= m)
    BY <1>2, <2>1, <2>3
  <2>4. QED
    BY <2>2, <2>3
<1> HIDE DEF T
<1>3. Nat \subseteq T
  BY <1>1, <1>2, Induction
<1>4. N \in T
  BY <1>3
<1>5. \E n \in found : n + N >= N
  <2>1. PICK n \in found : TRUE
    OBVIOUS
  <2>2. n \in Nat /\ n + N >= N
    OBVIOUS
  <2>3. QED
    BY <2>2
<1>6. \E g \in found : \A m \in found : g >= m
  BY <1>4, <1>5 DEF T
<1>7. QED
  BY <1>6, Zenon DEF GreatestOf

-----------------------------------------------------------------------------
(* The word given for an attribute by the first j entries. *)
Gives(e, attr_type) == <<e.fmt, e.attr>> = attr_type /\ Len(e.data) >= 4
GivenBy(entries, j, attr_type, default) ==
  LET found == {n \in 1..j : Gives(entries[n], attr_type)}
  IN IF found = {} THEN default ELSE U32(entries[GreatestOf(found)].data, 0)

LEMMA GivenByAll ==
  ASSUME NEW entries \in Seq(Entry), NEW attr_type, NEW default
  PROVE  GivenBy(entries, Len(entries), attr_type, default) = Given(entries, attr_type, default)
<1>1. DOMAIN entries = 1..Len(entries)
  OBVIOUS
<1> DEFINE upto == {n \in 1..Len(entries) : Gives(entries[n], attr_type)}
           found == {n \in DOMAIN entries :
                       <<entries[n].fmt, entries[n].attr>> = attr_type /\ Len(entries[n].data) >= 4}
<1>2. upto = found
  BY <1>1, Zenon DEF Gives
<1>3. GivenBy(entries, Len(entries), attr_type, default)
        = IF upto = {} THEN default ELSE U32(entries[GreatestOf(upto)].data, 0)
  BY Zenon DEF GivenBy
<1>4. Given(entries, attr_type, default)
        = IF found = {} THEN default ELSE U32(entries[GreatestOf(found)].data, 0)
  BY Zenon DEF Given, GreatestOf
<1> HIDE DEF upto, found
<1>5. QED
  BY <1>2, <1>3, <1>4

LEMMA GivenByNone ==
  ASSUME NEW entries, NEW attr_type, NEW default
  PROVE  GivenBy(entries, 0, attr_type, default) = default
BY DEF GivenBy

LEMMA GivenByNext ==
  ASSUME NEW entries, NEW j \in Nat, NEW attr_type, NEW default
  PROVE  GivenBy(entries, j + 1, attr_type, default)
           = IF Gives(entries[j + 1], attr_type) THEN U32(entries[j + 1].data, 0)
             ELSE GivenBy(entries, j, attr_type, default)
<1> DEFINE upto(n) == {m \in 1..n : Gives(entries[m], attr_type)}
<1>1. 1..(j + 1) = 1..j \cup {j + 1}
  OBVIOUS
<1>2. CASE Gives(entries[j + 1], attr_type)
  <2>1. j + 1 \in upto(j + 1) /\ \A m \in upto(j + 1) : j + 1 >= m
    BY <1>2
  <2>2. upto(j + 1) \subseteq Nat
    OBVIOUS
  <2> DEFINE found == upto(j + 1)
             last == j + 1
  <2> HIDE DEF found, last
  <2>3. GreatestOf(found) = last
    BY <2>1, <2>2, GreatestIs DEF found, last
  <2>4. QED
    BY <1>2, <2>1, <2>3 DEF GivenBy, found, last
<1>3. CASE ~Gives(entries[j + 1], attr_type)
  <2>1. upto(j + 1) = upto(j)
    BY <1>1, <1>3
  <2>2. QED
    BY <1>3, <2>1, Zenon DEF GivenBy
<1>4. QED
  BY <1>2, <1>3

-----------------------------------------------------------------------------
(* What the first j entries tell of the kernel. *)
Told(meta, entries, j) ==
  /\ meta \in Meta
  /\ meta.num_registers = GivenBy(entries, j, REGCOUNT, 32)
  /\ meta.shared_mem_size = GivenBy(entries, j, SMEM_SIZE, 0)
  /\ meta.max_threads_per_block = GivenBy(entries, j, MAX_THREADS, 1024)

LEMMA WithTells ==
  ASSUME NEW meta \in Meta, NEW type, NEW word
  PROVE  /\ With(meta, type, word).num_registers
              = IF type = REGCOUNT THEN word ELSE meta.num_registers
         /\ With(meta, type, word).shared_mem_size
              = IF type = SMEM_SIZE THEN word ELSE meta.shared_mem_size
         /\ With(meta, type, word).max_threads_per_block
              = IF type = MAX_THREADS THEN word ELSE meta.max_threads_per_block
<1>1. /\ REGCOUNT # SMEM_SIZE /\ REGCOUNT # MAX_THREADS /\ SMEM_SIZE # MAX_THREADS
      /\ LMEM_SIZE # REGCOUNT /\ LMEM_SIZE # SMEM_SIZE /\ LMEM_SIZE # MAX_THREADS
  BY DEF REGCOUNT, SMEM_SIZE, LMEM_SIZE, MAX_THREADS
<1>2. CASE type = REGCOUNT
  BY <1>1, <1>2 DEF With, Meta
<1>3. CASE type = SMEM_SIZE
  BY <1>1, <1>3 DEF With, Meta
<1>4. CASE type = LMEM_SIZE
  BY <1>1, <1>4 DEF With, Meta
<1>5. CASE type = MAX_THREADS
  BY <1>1, <1>5 DEF With, Meta
<1>6. CASE type \notin {REGCOUNT, SMEM_SIZE, LMEM_SIZE, MAX_THREADS}
  BY <1>6 DEF With
<1>7. QED
  BY <1>2, <1>3, <1>4, <1>5, <1>6

LEMMA ToldNext ==
  ASSUME NEW entries \in Seq(Entry), NEW j \in 0..(Len(entries) - 1), NEW meta,
         Told(meta, entries, j)
  PROVE  LET e == entries[j + 1]
         IN Told(IF Len(e.data) < 4 THEN meta ELSE With(meta, <<e.fmt, e.attr>>, U32(e.data, 0)),
                 entries, j + 1)
<1> DEFINE e == entries[j + 1]
           n == Len(e.data)
           type == <<e.fmt, e.attr>>
           word == U32(e.data, 0)
           given(i, a, d) == GivenBy(entries, i, a, d)
<1>1. j \in Nat /\ e \in Entry
  OBVIOUS
<1>2. e.data \in Seq(Nat) /\ n \in Nat
  <2> HIDE DEF e
  <2>1. e.data \in Seq(Nat)
    BY <1>1, EntryShape, Zenon
  <2>2. QED
    BY <2>1
<1>3. \A a, d : given(j + 1, a, d) = IF Gives(e, a) THEN word ELSE given(j, a, d)
  BY <1>1, GivenByNext
<1>4. meta \in Meta
  BY DEF Told
<1>5. CASE n < 4
  <2>1. \A a : ~Gives(e, a)
    BY <1>2, <1>5 DEF Gives
  <2>2. \A a, d : given(j + 1, a, d) = given(j, a, d)
    BY <1>3, <2>1
  <2>3. QED
    BY <1>5, <2>2 DEF Told
<1>6. CASE ~(n < 4)
  <2>1. \A a : Gives(e, a) <=> type = a
    BY <1>2, <1>6 DEF Gives
  <2>2. word \in Nat
    <3> DEFINE data == e.data
    <3>1. data \in Seq(Nat) /\ 0 \in Nat /\ 0 + 4 <= Len(data)
      BY <1>2, <1>6
    <3> HIDE DEF data
    <3>2. U32(data, 0) \in Nat
      BY <3>1, WordTyped
    <3>3. QED
      BY <3>2 DEF data
  <2> DEFINE with == With(meta, type, word)
  <2> HIDE DEF type, word, given
  <2>3. with \in Meta
    BY <1>4, <2>2, WithTyped
  <2>4. /\ with.num_registers = IF type = REGCOUNT THEN word ELSE meta.num_registers
        /\ with.shared_mem_size = IF type = SMEM_SIZE THEN word ELSE meta.shared_mem_size
        /\ with.max_threads_per_block
             = IF type = MAX_THREADS THEN word ELSE meta.max_threads_per_block
    BY <1>4, WithTells
  <2> HIDE DEF with
  <2>5. /\ meta.num_registers = given(j, REGCOUNT, 32)
        /\ meta.shared_mem_size = given(j, SMEM_SIZE, 0)
        /\ meta.max_threads_per_block = given(j, MAX_THREADS, 1024)
    BY DEF Told, given
  <2>6. /\ with.num_registers = given(j + 1, REGCOUNT, 32)
        /\ with.shared_mem_size = given(j + 1, SMEM_SIZE, 0)
        /\ with.max_threads_per_block = given(j + 1, MAX_THREADS, 1024)
    BY <1>3, <2>1, <2>4, <2>5
  <2>7. Told(with, entries, j + 1)
    BY <2>3, <2>6 DEF Told, given
  <2>8. QED
    BY <1>6, <2>7 DEF with, type, word
<1>7. QED
  BY <1>5, <1>6

LEMMA MetadataTold == ASSUME NEW entries PROVE Told(Metadata, entries, 0)
BY GivenByNone DEF Told, Metadata, Meta

(* Sized entries, padded to words, are read one a turn; then nothing changes. *)
LEMMA ReadsAll ==
  ASSUME NEW entries \in Seq(Entry), \A n \in DOMAIN entries : entries[n].sized
  PROVE  Told(parse_nv_info(EncodePadded(entries)), entries, Len(entries))
<1> DEFINE data == EncodePadded(entries)
           N == Len(entries)
           L == Len(data)
           off(j) == PadOff(entries, j)
           v == Turns(data, TRUE)
<1>1. N \in Nat /\ DOMAIN entries = 1..N
  OBVIOUS
<1>2. /\ \A j \in 0..N : off(j) \in Nat /\ off(j) <= off(N)
      /\ off(0) = 0
      /\ \A j \in 0..(N - 1) : off(j + 1) = off(j) + Aligned(4 + Len(entries[j + 1].data))
  <2> HIDE DEF N
  <2>1. QED
    BY PaddedOffsets, Zenon DEF N
<1>3. data \in Seq(Nat) /\ L = off(N) /\ L \in Nat
  <2> DEFINE p == PaddedPieces(entries)
             u == Upto(p)
  <2>1. p \in Seq(Seq(Nat)) /\ Len(p) = N
    BY PaddedTyped
  <2>2. data = u[N]
    BY <2>1, Zenon DEF EncodePadded, Joined
  <2>3. u[N] \in Seq(Nat)
    <3> HIDE DEF p
    <3>1. N \in 0..N
      BY <1>1
    <3>2. QED
      BY <3>1, PaddedOffsets DEF p
  <2> HIDE DEF data, u, p, N
  <2>4. Len(data) = Len(u[N])
    BY <2>2
  <2>5. QED
    BY <2>2, <2>3, <2>4 DEF PadOff, u, p
<1>4. /\ v[0] = [offset |-> 0, meta |-> Metadata]
      /\ \A n \in 1..L : v[n] = Turned(data, TRUE, v[n - 1])
  <2> HIDE DEF data
  <2>1. Turned_(v, data, TRUE)
    BY <1>3, TurnsSteps
  <2>2. QED
    BY <2>1, Zenon DEF Turned_
<1>5. \A j \in 0..(N - 1) : Len(entries[j + 1].data) \in Nat
  <2>1. TAKE j \in 0..(N - 1)
  <2>2. entries[j + 1] \in Entry
    BY <1>1
  <2>3. QED
    BY <2>2, EntryShape
<1> HIDE DEF data, v, L
<1> DEFINE Reads(j) == /\ v[j] = [offset |-> off(j), meta |-> v[j].meta]
                       /\ Told(v[j].meta, entries, j) /\ off(j) % 4 = 0 /\ j <= off(j)
           S == {j \in Nat : j <= N => Reads(j)}
<1>6. 0 \in S
  <2>1. v[0].meta = Metadata
    BY <1>4
  <2>2. Reads(0)
    BY <1>2, <1>4, <2>1, MetadataTold
  <2>3. QED
    BY <2>2
<1>7. ASSUME NEW j \in Nat, j \in S PROVE j + 1 \in S
  <2>1. SUFFICES ASSUME j + 1 <= N PROVE Reads(j + 1)
    BY <1>1
  <2>2. j \in 0..(N - 1) /\ j + 1 \in 0..N /\ j \in 0..N /\ j + 1 \in 1..N
    BY <1>1, <2>1
  <2>3. Reads(j)
    BY <1>1, <1>7, <2>1
  <2> DEFINE e == entries[j + 1]
             m == v[j].meta
             told == IF Len(e.data) < 4 THEN m ELSE With(m, <<e.fmt, e.attr>>, U32(e.data, 0))
             to == [offset |-> off(j), meta |-> m]
  <2>4. j + 1 <= off(j + 1)
    <3> DEFINE a == off(j)
               n == Len(e.data)
    <3>1. off(j + 1) = a + Aligned(4 + n) /\ n \in Nat /\ a \in Nat /\ j <= a
      BY <1>2, <1>5, <2>2, <2>3
    <3> HIDE DEF a, n
    <3>2. Aligned(4 + n) \in Nat /\ 1 <= Aligned(4 + n)
      BY <3>1 DEF Aligned
    <3>3. QED
      BY <3>1, <3>2
  <2>5. (j + 1) \in 1..L /\ (j + 1) - 1 = j
    <3> DEFINE a == off(j + 1)
    <3>1. a \in Nat /\ a <= L /\ j + 1 <= a
      BY <1>2, <1>3, <2>2, <2>4
    <3> HIDE DEF a
    <3>2. QED
      BY <1>3, <3>1
  <2>6. entries[j + 1].sized
    BY <1>1, <2>2
  <2>7. /\ Turned(data, TRUE, to) = [offset |-> off(j + 1), meta |-> told]
        /\ off(j + 1) % 4 = 0
    <3>1. PadOff(entries, j) % 4 = 0
      BY <2>3
    <3> HIDE DEF m
    <3>2. QED
      BY <2>2, <2>6, <3>1, TurnPasses DEF data
  <2>8. v[j + 1] = Turned(data, TRUE, v[j]) /\ v[j] = to
    BY <1>4, <2>3, <2>5
  <2> HIDE DEF to
  <2>9. v[j + 1] = [offset |-> off(j + 1), meta |-> told]
    BY <2>7, <2>8
  <2>10. Told(told, entries, j + 1)
    <3>1. Told(m, entries, j)
      BY <2>3
    <3> HIDE DEF m
    <3>2. QED
      BY <2>2, <3>1, ToldNext
  <2> HIDE DEF told
  <2>11. v[j + 1].meta = told
    BY <2>9
  <2>12. QED
    BY <2>4, <2>7, <2>9, <2>10, <2>11
<1> HIDE DEF S
<1>8. Nat \subseteq S
  BY <1>6, <1>7, Induction
<1>9. Reads(N)
  BY <1>1, <1>8 DEF S
<1> DEFINE R == {k \in Nat : N + k <= L => v[N + k] = v[N]}
<1>10. 0 \in R
  BY <1>1
<1>11. ASSUME NEW k \in Nat, k \in R PROVE k + 1 \in R
  <2>1. SUFFICES ASSUME N + (k + 1) <= L PROVE v[N + (k + 1)] = v[N]
    OBVIOUS
  <2>2. N + (k + 1) \in 1..L /\ (N + (k + 1)) - 1 = N + k /\ N + k <= L
    BY <1>1, <1>3, <2>1
  <2>3. v[N + (k + 1)] = Turned(data, TRUE, v[N + k]) /\ v[N + k] = v[N]
    BY <1>4, <1>11, <2>2
  <2> DEFINE to == v[N]
  <2>4. to.offset = L
    BY <1>3, <1>9
  <2> HIDE DEF to
  <2>5. Turned(data, TRUE, to) = to
    BY <1>3, <2>4 DEF Turned, L
  <2>6. QED
    BY <2>3, <2>5 DEF to
<1> HIDE DEF R
<1>12. Nat \subseteq R
  BY <1>10, <1>11, Induction
<1>13. N <= L
  BY <1>3, <1>9
<1>14. L - N \in Nat /\ N + (L - N) = L
  BY <1>1, <1>3, <1>13
<1>15. v[L] = v[N]
  <2>1. L - N \in R
    BY <1>12, <1>14
  <2> DEFINE k == L - N
  <2>2. N + k <= L => v[N + k] = v[N]
    BY <2>1 DEF R
  <2>3. N + k = L /\ L <= L
    BY <1>3, <1>14
  <2> HIDE DEF k
  <2>4. QED
    BY <2>2, <2>3
<1>16. parse_nv_info(data) = v[N].meta
  BY <1>15 DEF parse_nv_info, v, L
<1>17. QED
  BY <1>9, <1>16 DEF data

-----------------------------------------------------------------------------
(* What parse_sections has kept of the first n sections: the last of each name. *)
NameAt(all, m) == all[m].name
Named(all, n) == {m \in 1..n : NameAt(all, m).stem # ""}
LastNamed(all, m, n) == \A l \in Named(all, n) : l > m => NameAt(all, l) # NameAt(all, m)
Kept(map, all, n) ==
  /\ DOMAIN map = {NameAt(all, m) : m \in Named(all, n)}
  /\ \A m \in Named(all, n) : LastNamed(all, m, n) => map[NameAt(all, m)] = all[m].data

(* What extract_kernels makes of a section of code. *)
Codes == {name \in DOMAIN sections : IsCode(name)}
Extraction(name) == [name |-> name.kernel, code |-> sections[name],
                     meta |-> MetadataOf(name.kernel), sm_version |-> sm_version]
KernelsRight ==
  /\ kernels \in Seq({Extraction(name) : name \in Codes})
  /\ \A m, n \in DOMAIN kernels : kernels[m].name = kernels[n].name => m = n

CompiledInv ==
  /\ request \in Requests /\ file = request.file
  /\ stage \in {"build", "elf"} => read = 0 /\ sections = <<>> /\ kernels = <<>>
  /\ stage = "sections" =>
       read \in 0..Len(file.sections) /\ Kept(sections, file.sections, read) /\ kernels = <<>>
  /\ stage = "symbols" => Kept(sections, file.sections, Len(file.sections)) /\ kernels = <<>>
  /\ stage \in {"kernels", "constants", "parsed"} =>
       Kept(sections, file.sections, Len(file.sections)) /\ KernelsRight
  /\ stage \in {"constants", "parsed"} => \A name \in Codes : name.kernel \in Extracted

LEMMA FileTyped ==
  ASSUME CompiledInv
  PROVE  /\ file \in File /\ file.sections \in Seq(Section) /\ Len(file.sections) \in Nat
         /\ DOMAIN file.sections = 1..Len(file.sections)
<1>1. file \in File
  BY RequestsAssumption DEF CompiledInv, Request
<1>2. file.sections \in Seq(Section)
  BY <1>1, Zenon DEF File
<1>3. QED
  BY <1>1, <1>2

LEMMA KeptNone == ASSUME NEW all PROVE Kept(<<>>, all, 0)
BY DEF Kept, Named

LEMMA KeptNext ==
  ASSUME NEW map, NEW all, NEW n \in Nat, Kept(map, all, n)
  PROVE  LET s == all[n + 1]
         IN Kept(IF s.name.stem = "" THEN map
                 ELSE [x \in DOMAIN map \cup {s.name} |-> IF x = s.name THEN s.data ELSE map[x]],
                 all, n + 1)
<1> DEFINE s == all[n + 1]
           name == s.name
           next == [x \in DOMAIN map \cup {name} |-> IF x = name THEN s.data ELSE map[x]]
<1>1. 1..(n + 1) = 1..n \cup {n + 1} /\ \A m \in 1..n : n + 1 > m /\ m \in Nat /\ m # n + 1
  OBVIOUS
<1>2. CASE name.stem = ""
  <2>1. Named(all, n + 1) = Named(all, n)
    BY <1>1, <1>2 DEF Named, NameAt
  <2>2. Kept(map, all, n + 1)
    BY <2>1, Zenon DEF Kept, LastNamed
  <2>3. QED
    BY <1>2, <2>2
<1>3. CASE name.stem # ""
  <2>1. Named(all, n + 1) = Named(all, n) \cup {n + 1} /\ \A m \in Named(all, n) : n + 1 > m /\ m # n + 1
    BY <1>1, <1>3 DEF Named, NameAt
  <2>2. name = NameAt(all, n + 1) /\ s = all[n + 1]
    BY DEF NameAt
  <2> HIDE DEF s, name
  <2>3. /\ DOMAIN next = DOMAIN map \cup {name} /\ next[name] = s.data
        /\ \A x \in DOMAIN map : x # name => next[x] = map[x]
    OBVIOUS
  <2> HIDE DEF next
  <2>4. DOMAIN next = {NameAt(all, m) : m \in Named(all, n + 1)}
    BY <2>1, <2>2, <2>3 DEF Kept
  <2>5. ASSUME NEW m \in Named(all, n + 1), LastNamed(all, m, n + 1)
        PROVE  next[NameAt(all, m)] = all[m].data
    <3>1. CASE m = n + 1
      BY <2>2, <2>3, <3>1
    <3>2. CASE m # n + 1
      <4>1. m \in Named(all, n) /\ n + 1 > m /\ n + 1 \in Named(all, n + 1)
        BY <2>1, <3>2
      <4>2. NameAt(all, m) # name /\ LastNamed(all, m, n)
        BY <2>1, <2>2, <2>5, <4>1 DEF LastNamed
      <4>3. NameAt(all, m) \in DOMAIN map /\ map[NameAt(all, m)] = all[m].data
        BY <4>1, <4>2, Zenon DEF Kept
      <4>4. QED
        BY <2>3, <4>2, <4>3
    <3>3. QED
      BY <3>1, <3>2
  <2>6. Kept(next, all, n + 1)
    BY <2>4, <2>5, Zenon DEF Kept
  <2>7. QED
    BY <1>3, <2>6 DEF next, name, s
<1>4. QED
  BY <1>2, <1>3

LEMMA CompiledInit == Init => CompiledInv
BY DEF Init, CubinInit, CompiledInv

(* What the engine does with the parsed cubin does not touch it. *)
LEMMA CompiledKept ==
  ASSUME CompiledInv, cubin_vars' = cubin_vars, request' = request
  PROVE  CompiledInv'
<1>1. /\ file' = file /\ stage' = stage /\ read' = read /\ sm_version' = sm_version
      /\ sections' = sections /\ kernels' = kernels
  BY DEF cubin_vars
<1>2. Codes' = Codes /\ Extracted' = Extracted
  BY <1>1, Zenon DEF Codes, IsCode, Extracted
<1>3. \A name : Extraction(name)' = Extraction(name)
  BY <1>1, Zenon DEF Extraction, MetadataOf
<1>4. KernelsRight' <=> KernelsRight
  <2>1. {Extraction(name) : name \in Codes}' = {Extraction(name) : name \in Codes}
    BY <1>2, <1>3
  <2>2. QED
    BY <1>1, <2>1, Zenon DEF KernelsRight
<1>5. QED
  BY <1>1, <1>2, <1>4, Zenon DEF CompiledInv

LEMMA CompiledReading ==
  ASSUME CompiledInv, request' = request,
         Build \/ ParseElf \/ ParseSection \/ SectionsRead \/ ParseSymbol \/ SymbolsRead
  PROVE  CompiledInv'
<1> DEFINE all == file.sections
           N == Len(all)
<1>1. N \in Nat /\ DOMAIN all = 1..N
  BY FileTyped
<1>2. request' \in Requests /\ file' = request'.file /\ file' = file
  BY DEF CompiledInv, Build, ParseElf, ParseSection, SectionsRead, ParseSymbol, SymbolsRead
<1>3. CASE Build
  BY <1>2, <1>3 DEF Build, CompiledInv
<1>4. CASE ParseElf
  BY <1>1, <1>2, <1>4, KeptNone DEF ParseElf, CompiledInv
<1>5. CASE ParseSection
  <2> DEFINE s == all[read + 1]
             next == IF s.name.stem = "" THEN sections
                     ELSE [x \in DOMAIN sections \cup {s.name} |->
                             IF x = s.name THEN s.data ELSE sections[x]]
  <2>1. stage = "sections" /\ read < N /\ kernels' = kernels
    BY <1>5 DEF ParseSection
  <2>2. read \in 0..N /\ Kept(sections, all, read) /\ kernels = <<>>
    BY <2>1 DEF CompiledInv
  <2>3. CASE stage' = "error"
    BY <1>2, <2>3 DEF CompiledInv
  <2>4. CASE stage' = "sections" /\ read' = read + 1 /\ sections' = next
    <3>1. read \in Nat /\ read + 1 \in 0..N
      BY <1>1, <2>1, <2>2
    <3>2. Kept(next, all, read + 1)
      <4> DEFINE map == sections
                 n == read
      <4>1. n \in Nat /\ Kept(map, all, n)
        BY <2>2, <3>1
      <4> HIDE DEF map, n, all
      <4>2. LET t == all[n + 1]
            IN Kept(IF t.name.stem = "" THEN map
                    ELSE [x \in DOMAIN map \cup {t.name} |-> IF x = t.name THEN t.data ELSE map[x]],
                    all, n + 1)
        BY <4>1, KeptNext
      <4>3. QED
        BY <4>2, Zenon DEF map, n
    <3> HIDE DEF next
    <3>3. QED
      BY <1>2, <2>1, <2>2, <2>4, <3>1, <3>2 DEF CompiledInv
  <2>5. QED
    BY <1>5, <2>1, <2>3, <2>4, Zenon DEF ParseSection
<1>6. CASE SectionsRead
  BY <1>2, <1>6 DEF SectionsRead, CompiledInv
<1>7. CASE ParseSymbol
  BY <1>2, <1>7 DEF ParseSymbol, CompiledInv
<1>8. CASE SymbolsRead
  <2>1. stage = "symbols" /\ stage' = "kernels" /\ sections' = sections /\ kernels' = kernels
    BY <1>8 DEF SymbolsRead
  <2>2. Kept(sections, all, N) /\ kernels = <<>>
    BY <2>1 DEF CompiledInv
  <2>3. KernelsRight'
    BY <2>1, <2>2 DEF KernelsRight
  <2>4. QED
    BY <1>2, <2>1, <2>2, <2>3 DEF CompiledInv
<1>9. QED
  BY <1>3, <1>4, <1>5, <1>6, <1>7, <1>8

(* Extractions depend on the sections and the version alone. *)
LEMMA ExtractionsKept ==
  ASSUME sections' = sections, sm_version' = sm_version
  PROVE  /\ Codes' = Codes
         /\ {Extraction(name) : name \in Codes}' = {Extraction(name) : name \in Codes}
<1>1. Codes' = Codes
  BY Zenon DEF Codes, IsCode
<1>2. \A name : Extraction(name)' = Extraction(name)
  BY Zenon DEF Extraction, MetadataOf
<1>3. QED
  BY <1>1, <1>2

LEMMA CompiledExtracting ==
  ASSUME CompiledInv, request' = request,
         ExtractKernel \/ KernelsExtracted \/ ExtractConstant \/ Parsed
  PROVE  CompiledInv'
<1> DEFINE Made == {Extraction(name) : name \in Codes}
<1>1. /\ stage \in {"kernels", "constants"} /\ stage' \in {"kernels", "constants", "parsed"}
      /\ file' = file /\ sections' = sections /\ sm_version' = sm_version
  BY DEF ExtractKernel, KernelsExtracted, ExtractConstant, Parsed
<1>2. /\ request' \in Requests /\ file' = request'.file
      /\ Kept(sections, file.sections, Len(file.sections)) /\ KernelsRight
  BY <1>1 DEF CompiledInv
<1>3. Codes' = Codes /\ Made' = Made
  BY <1>1, ExtractionsKept
<1>4. kernels \in Seq(Made) /\ \A m, n \in DOMAIN kernels : kernels[m].name = kernels[n].name => m = n
  BY <1>2 DEF KernelsRight
<1>5. CASE ExtractKernel
  <2>1. PICK name \in {n \in DOMAIN sections : IsCode(n) /\ n.kernel \notin Extracted} :
          kernels' = Append(kernels, Extraction(name))
    BY <1>5, Zenon DEF ExtractKernel, Extraction
  <2>2. name \in Codes /\ name.kernel \notin Extracted
    BY <2>1 DEF Codes
  <2> DEFINE k == Extraction(name)
  <2>3. k \in Made /\ k.name = name.kernel
    BY <2>2 DEF Extraction
  <2> HIDE DEF k, Made
  <2>4. /\ kernels' \in Seq(Made) /\ Len(kernels') = Len(kernels) + 1 /\ Len(kernels) \in Nat
        /\ DOMAIN kernels = 1..Len(kernels) /\ DOMAIN kernels' = 1..(Len(kernels) + 1)
        /\ kernels'[Len(kernels) + 1] = k
        /\ \A n \in 1..Len(kernels) : kernels'[n] = kernels[n]
    BY <1>4, <2>1, <2>3 DEF k
  <2>5. \A n \in DOMAIN kernels : kernels[n].name # name.kernel
    BY <2>2 DEF Extracted
  <2>6. ASSUME NEW m \in DOMAIN kernels', NEW n \in DOMAIN kernels', kernels'[m].name = kernels'[n].name
        PROVE  m = n
    <3>1. /\ m \in DOMAIN kernels \/ m = Len(kernels) + 1
          /\ n \in DOMAIN kernels \/ n = Len(kernels) + 1
      BY <2>4
    <3>2. QED
      BY <1>4, <2>3, <2>4, <2>5, <2>6, <3>1
  <2>7. KernelsRight'
    BY <1>3, <2>4, <2>6 DEF KernelsRight, Made
  <2>8. stage' = "kernels"
    BY <1>5 DEF ExtractKernel
  <2>9. QED
    BY <1>1, <1>2, <2>7, <2>8 DEF CompiledInv
<1>6. ASSUME kernels' = kernels PROVE KernelsRight'
  BY <1>3, <1>4, <1>6, Zenon DEF KernelsRight
<1>7. CASE KernelsExtracted
  <2>1. /\ kernels' = kernels /\ stage' = "constants" /\ Extracted' = Extracted
        /\ \A name \in Codes : name.kernel \in Extracted
    BY <1>7 DEF KernelsExtracted, Codes, Extracted
  <2>2. QED
    BY <1>1, <1>2, <1>3, <1>6, <2>1 DEF CompiledInv
<1>8. CASE ExtractConstant \/ Parsed
  <2>1. /\ kernels' = kernels /\ stage = "constants" /\ Extracted' = Extracted
    BY <1>8 DEF ExtractConstant, Parsed, Extracted
  <2>2. \A name \in Codes : name.kernel \in Extracted
    BY <2>1 DEF CompiledInv
  <2>3. QED
    BY <1>1, <1>2, <1>3, <1>6, <2>1, <2>2 DEF CompiledInv
<1>9. QED
  BY <1>5, <1>7, <1>8

LEMMA CompiledStep == CompiledInv /\ [Next]_vars => CompiledInv'
<1> SUFFICES ASSUME CompiledInv, [Next]_vars PROVE CompiledInv'
  OBVIOUS
<1>1. CASE ReadCubin
  <2>1. CubinNext /\ request' = request
    BY <1>1 DEF ReadCubin, recover_vars
  <2>2. QED
    BY <2>1, CompiledReading, CompiledExtracting DEF CubinNext
<1>2. CASE ~ReadCubin
  <2>1. cubin_vars' = cubin_vars /\ request' = request
    BY <1>2 DEF Next, vars, recover_vars, OpenDebugLine, ReadLines, ReadInfo, StartFunction,
                RecoverInstruction, LineUnderflows, FunctionRecovered, RecoverAll, Finished
  <2>2. QED
    BY <2>1, CompiledKept
<1>3. QED
  BY <1>1, <1>2

-----------------------------------------------------------------------------
(* The last section of a stem and a kernel is what the map has under their name. *)
NameOf(stem, k) == [stem |-> stem, kernel |-> k, number |-> NoNumber]

LEMMA SectionNames ==
  ASSUME CompiledInv, NEW m \in DOMAIN file.sections
  PROVE  LET s == file.sections[m]
         IN /\ s \in Section /\ s.data \in Seq(Byte) /\ s.written \in Seq(Entry)
            /\ s.name.stem # ".nv.constant" => s.name = NameOf(s.name.stem, s.name.kernel)
<1> DEFINE s == file.sections[m]
           name == s.name
<1>1. s \in Section
  BY FileTyped
<1> HIDE DEF s
<1>2. name \in SectionName /\ s.data \in Seq(Byte) /\ s.written \in Seq(Entry)
  BY <1>1 DEF Section
<1> HIDE DEF name
<1>3. /\ name = [stem |-> name.stem, kernel |-> name.kernel, number |-> name.number]
      /\ name.number # NoNumber => name.stem = ".nv.constant"
  BY <1>2 DEF SectionName
<1>4. name.stem # ".nv.constant" => name = NameOf(name.stem, name.kernel)
  BY <1>3 DEF NameOf
<1>5. QED
  BY <1>1, <1>2, <1>4 DEF name, s

LEMMA LastSection ==
  ASSUME CompiledInv, Kept(sections, file.sections, Len(file.sections)),
         NEW stem \in {".text.", ".nv.info."}, NEW k
  PROVE  \/ NameOf(stem, k) \notin DOMAIN sections /\ LastOf(stem, k) = {}
         \/ /\ NameOf(stem, k) \in DOMAIN sections
            /\ \E s : /\ LastOf(stem, k) = {s} /\ s.data = sections[NameOf(stem, k)]
                      /\ s.written \in Seq(Entry)
<1> DEFINE all == file.sections
           N == Len(all)
           found == {n \in DOMAIN all : all[n].name.stem = stem /\ all[n].name.kernel = k}
           name == NameOf(stem, k)
<1>1. N \in Nat /\ DOMAIN all = 1..N
  BY FileTyped
<1>2. LastOf(stem, k) = IF found = {} THEN {} ELSE {all[GreatestOf(found)]}
  BY Zenon DEF LastOf, GreatestOf
<1>3. \A n \in 1..N : n \in found <=> all[n].name = name
  <2>1. TAKE n \in 1..N
  <2>2. name.stem = stem /\ name.kernel = k
    BY DEF NameOf
  <2>3. all[n].name.stem # ".nv.constant"
          => all[n].name = NameOf(all[n].name.stem, all[n].name.kernel)
    BY <1>1, SectionNames
  <2> HIDE DEF name
  <2>4. ASSUME all[n].name.stem = stem, all[n].name.kernel = k
        PROVE  all[n].name = name
    BY <2>3, <2>4 DEF name
  <2>5. QED
    BY <1>1, <2>2, <2>4
<1>4. \A n \in 1..N : n \in found => n \in Named(all, N)
  BY DEF Named, NameAt
<1>5. CASE found = {}
  <2>1. name \notin DOMAIN sections
    BY <1>3, <1>5 DEF Kept, Named, NameAt
  <2>2. QED
    BY <1>2, <1>5, <2>1
<1>6. CASE found # {}
  <2> DEFINE g == GreatestOf(found)
             s == all[g]
  <2>1. found \subseteq 1..N
    BY <1>1
  <2> HIDE DEF found
  <2>2. g \in found /\ \A m \in found : g >= m
    BY <1>1, <1>6, <2>1, GreatestExists
  <2> HIDE DEF g
  <2>3. g \in 1..N /\ g \in Named(all, N) /\ NameAt(all, g) = name
    BY <1>3, <1>4, <2>1, <2>2 DEF NameAt
  <2>4. LastNamed(all, g, N)
    <3>1. SUFFICES ASSUME NEW l \in Named(all, N), l > g, NameAt(all, l) = NameAt(all, g)
                   PROVE  FALSE
      BY Zenon DEF LastNamed
    <3>2. l \in 1..N
      BY DEF Named
    <3>3. l \in found
      BY <1>3, <2>3, <3>1, <3>2 DEF NameAt
    <3>4. g >= l
      BY <2>2, <3>3
    <3>5. QED
      BY <1>1, <2>3, <3>1, <3>2, <3>4
  <2>5. name \in DOMAIN sections /\ sections[name] = s.data
    BY <2>3, <2>4 DEF Kept
  <2>6. s.written \in Seq(Entry)
    BY <1>1, <2>3, SectionNames
  <2>7. LastOf(stem, k) = {s}
    BY <1>2, <1>6 DEF g
  <2> HIDE DEF s, name
  <2>8. QED
    BY <2>5, <2>6, <2>7 DEF name
<1>7. QED
  BY <1>5, <1>6

LEMMA KernelOf ==
  ASSUME CompiledInv, stage = "parsed", NEW n \in DOMAIN kernels
  PROVE  LET name == NameOf(".text.", kernels[n].name)
         IN /\ name \in DOMAIN sections /\ sections[name] # <<>>
            /\ kernels[n].code = sections[name]
            /\ kernels[n].meta = MetadataOf(kernels[n].name)
<1>1. KernelsRight /\ Kept(sections, file.sections, Len(file.sections))
  BY DEF CompiledInv
<1> DEFINE Made == {Extraction(name) : name \in Codes}
<1>2. kernels[n] \in Made
  <2>1. kernels \in Seq(Made)
    BY <1>1, Zenon DEF KernelsRight
  <2> HIDE DEF Made
  <2>2. QED
    BY <2>1
<1>3. PICK name \in Codes : kernels[n] = Extraction(name)
  BY <1>2
<1>4. /\ kernels[n].name = name.kernel /\ kernels[n].code = sections[name]
      /\ kernels[n].meta = MetadataOf(name.kernel)
  BY <1>3 DEF Extraction
<1>5. name \in DOMAIN sections /\ name.stem = ".text." /\ sections[name] # <<>>
  BY DEF Codes, IsCode
<1>6. name = NameOf(".text.", name.kernel)
  <2>1. PICK m \in Named(file.sections, Len(file.sections)) : name = NameAt(file.sections, m)
    BY <1>1, <1>5 DEF Kept
  <2>2. m \in DOMAIN file.sections
    BY FileTyped DEF Named
  <2>3. file.sections[m].name = name
    BY <2>1 DEF NameAt
  <2>4. QED
    BY <1>5, <2>2, <2>3, SectionNames
<1>7. QED
  BY <1>4, <1>5, <1>6

(***************************************************************************)
(* Whatever the sections, their order and their contents, and whatever     *)
(* order the HashMap gives them in: a parse that succeeds has one kernel   *)
(* for each name whose last .text section is not empty, with that code;    *)
(* registers, shared memory and threads are the last words its own last    *)
(* .nv.info section gives for them, when its entries are sized and padded, *)
(* and the defaults when it has none (cubin.rs:284-422).                   *)
(***************************************************************************)
THEOREM KernelsCompiled == Spec => []KernelsAsCompiled
<1>1. CompiledInv => KernelsAsCompiled
  <2> SUFFICES ASSUME CompiledInv, stage = "parsed"
               PROVE  KernelsAsCompiled
    BY DEF KernelsAsCompiled
  <2>1. /\ KernelsRight /\ Kept(sections, file.sections, Len(file.sections))
        /\ \A name \in Codes : name.kernel \in Extracted
    BY DEF CompiledInv
  <2>2. \A m, n \in DOMAIN kernels : kernels[m].name = kernels[n].name => m = n
    BY <2>1 DEF KernelsRight
  <2>3. ASSUME NEW k \in Kernel
        PROVE  /\ k \in Extracted <=> \E s \in LastOf(".text.", k) : s.data # <<>>
               /\ k \in Extracted => \E s \in LastOf(".text.", k) : get_kernel_code(k) = s.data
    <3> DEFINE name == NameOf(".text.", k)
    <3>1. \/ name \notin DOMAIN sections /\ LastOf(".text.", k) = {}
          \/ /\ name \in DOMAIN sections
             /\ \E s : LastOf(".text.", k) = {s} /\ s.data = sections[name]
      <4>1. ".text." \in {".text.", ".nv.info."}
        OBVIOUS
      <4>2. QED
        BY <2>1, <4>1, LastSection
    <3>2. ASSUME k \in Extracted
          PROVE  /\ name \in DOMAIN sections /\ sections[name] # <<>>
                 /\ get_kernel_code(k) = sections[name]
      <4>1. PICK n \in DOMAIN kernels : kernels[n].name = k
        BY <3>2 DEF Extracted
      <4>2. name \in DOMAIN sections /\ sections[name] # <<>> /\ kernels[n].code = sections[name]
        BY <4>1, KernelOf
      <4> DEFINE found == {m \in DOMAIN kernels : kernels[m].name = k}
                 first == CHOOSE m \in found : \A l \in found : m <= l
      <4>3. found = {n}
        BY <2>2, <4>1
      <4>4. n <= n
        <5>1. kernels \in Seq({Extraction(x) : x \in Codes})
          BY <2>1, Zenon DEF KernelsRight
        <5>2. DOMAIN kernels \subseteq Nat
          BY <5>1
        <5>3. QED
          BY <5>2
      <4> HIDE DEF found
      <4>5. first = n
        BY <4>3, <4>4
      <4>6. get_kernel_code(k) = IF found = {} THEN <<>> ELSE kernels[first].code
        BY Zenon DEF get_kernel_code, found
      <4>7. QED
        BY <4>2, <4>3, <4>5, <4>6
    <3>3. ASSUME name \in DOMAIN sections, sections[name] # <<>>
          PROVE  k \in Extracted
      <4>1. name.stem = ".text." /\ name.kernel = k
        BY DEF NameOf
      <4> HIDE DEF name
      <4>2. name \in Codes
        BY <3>3, <4>1 DEF Codes, IsCode
      <4>3. QED
        BY <2>1, <4>1, <4>2
    <3> HIDE DEF name
    <3>4. QED
      BY <3>1, <3>2, <3>3
  <2>4. ASSUME NEW n \in DOMAIN kernels
        PROVE  LET meta == kernels[n].meta
                   info == LastOf(".nv.info.", kernels[n].name)
               IN /\ info = {} => meta = Metadata
                  /\ \A s \in info :
                       AllSized(s) =>
                         /\ meta.num_registers = Given(s.written, REGCOUNT, 32)
                         /\ meta.shared_mem_size = Given(s.written, SMEM_SIZE, 0)
                         /\ meta.max_threads_per_block = Given(s.written, MAX_THREADS, 1024)
    <3> DEFINE k == kernels[n].name
               meta == kernels[n].meta
               info == LastOf(".nv.info.", k)
               name == NameOf(".nv.info.", k)
    <3>1. meta = IF name \in DOMAIN sections THEN parse_nv_info(sections[name]) ELSE Metadata
      <4>1. meta = MetadataOf(k)
        BY KernelOf
      <4>2. InfoName(k) = name
        BY Zenon DEF InfoName, NameOf
      <4>3. QED
        BY <4>1, <4>2, Zenon DEF MetadataOf
    <3>2. \/ name \notin DOMAIN sections /\ info = {}
          \/ /\ name \in DOMAIN sections
             /\ \E s : info = {s} /\ s.data = sections[name] /\ s.written \in Seq(Entry)
      <4>1. ".nv.info." \in {".text.", ".nv.info."}
        OBVIOUS
      <4>2. QED
        BY <2>1, <4>1, LastSection
    <3> HIDE DEF k, meta, info, name
    <3>3. ASSUME NEW s \in info, AllSized(s)
          PROVE  /\ meta.num_registers = Given(s.written, REGCOUNT, 32)
                 /\ meta.shared_mem_size = Given(s.written, SMEM_SIZE, 0)
                 /\ meta.max_threads_per_block = Given(s.written, MAX_THREADS, 1024)
      <4>1. name \in DOMAIN sections /\ s.data = sections[name] /\ s.written \in Seq(Entry)
        BY <3>2
      <4>2. meta = parse_nv_info(EncodePadded(s.written))
        BY <3>1, <3>3, <4>1 DEF AllSized
      <4> DEFINE entries == s.written
      <4>3. entries \in Seq(Entry) /\ \A m \in DOMAIN entries : entries[m].sized
        BY <3>3, <4>1 DEF AllSized
      <4> HIDE DEF entries
      <4>4. Told(parse_nv_info(EncodePadded(entries)), entries, Len(entries))
        BY <4>3, ReadsAll
      <4>5. \A a, d : GivenBy(entries, Len(entries), a, d) = Given(entries, a, d)
        BY <4>3, GivenByAll
      <4>6. meta = parse_nv_info(EncodePadded(entries))
        BY <4>2 DEF entries
      <4>7. Told(meta, entries, Len(entries))
        BY <4>4, <4>6
      <4>8. QED
        BY <4>5, <4>7 DEF Told, entries
    <3>4. info = {} => meta = Metadata
      BY <3>1, <3>2
    <3>5. QED
      BY <3>3, <3>4 DEF k, meta, info
  <2>5. QED
    BY <2>2, <2>3, <2>4, Zenon DEF KernelsAsCompiled
<1>2. QED
  BY <1>1, CompiledInit, CompiledStep, PTL DEF Spec
=============================================================================
