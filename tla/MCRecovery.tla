----------------------------- MODULE MCRecovery -----------------------------
(***************************************************************************)
(* Requests for TLC: cubins of up to four sections whose debug line table  *)
(* is short, and line tables of one and two units in a plain cubin, with   *)
(* instructions at addresses 0, 1 and 4 and up to three source files.      *)
(*                                                                         *)
(* For the parameters, files of up to three .nv.info sections.  The        *)
(* compiler's entries: two parameters and a repeated ordinal, the region   *)
(* with and without an offset, an unknown attribute of odd length, values  *)
(* of the module, and the formats the walk does not know.                  *)
(***************************************************************************)
EXTENDS CubinReaders

MCKernel == {"k", "m"}

Named(stem, k, number) == [stem |-> stem, kernel |-> k, number |-> number]
Holding(name, data) ==
  [name |-> name, type |-> "other", header |-> TRUE, inside |-> TRUE, data |-> data, written |-> <<>>]
Text(k, data) == Holding(Named(".text.", k, NoNumber), data)
Constant(number, data) == Holding(Named(".nv.constant", NoKernel, number), data)
Table(data) == Holding(Named(".debug_line", NoKernel, NoNumber), data)
Nameless == Holding(Named("", NoKernel, NoNumber), <<1>>)

Sized(attr_type, data) ==
  [fmt |-> attr_type[1], attr |-> attr_type[2], sized |-> TRUE, value |-> 0, data |-> data]
InfoOf(k, encoded, written) ==
  [Holding(Named(".nv.info.", k, NoNumber), encoded) EXCEPT !.written = written]
EntriesWritten ==
  {Sized(attr_type, data) : attr_type \in {REGCOUNT, SMEM_SIZE, LMEM_SIZE, MAX_THREADS, <<4, 23>>},
                            data \in {<<>>, <<40, 0, 0>>, <<40, 1, 0, 0>>, <<0, 2, 0, 0, 9>>}}
Unsized == [Sized(REGCOUNT, <<>>) EXCEPT !.sized = FALSE, !.value = 8]

InfoSections ==
  {InfoOf("k", EncodePadded(w), w) :
     w \in {<<a, b>> : a, b \in EntriesWritten} \cup {<<a, Unsized>> : a \in EntriesWritten}} \cup
  {InfoOf("m", Encode(w), w) : w \in {<<a, b>> : a, b \in EntriesWritten}} \cup
  {InfoOf("k", <<4, 4, 9>>, <<>>)}

Sym(name, kind, n) == [name |-> name, kind |-> kind, section |-> n, global |-> TRUE]
CubinOf(held) ==
  [builder |-> FALSE, length |-> 64, magic |-> TRUE, class64 |-> TRUE, little |-> TRUE,
   machine |-> TRUE, flags |-> <<0, 0, 75>>, sections |-> held, symbols |-> <<>>]
CubinsRead ==
  {CubinOf(<<Text("k", <<7>>), s>>) : s \in InfoSections} \cup
  {CubinOf(<<a, b, c, d>>) :
     a, b \in {Text("k", <<7>>), Text("m", <<8>>), Text("k", <<>>)}, c \in {Text("k", <<9>>), Nameless},
     d \in {Constant(3, <<1>>), Constant(NoNumber, <<1, 2>>), InfoOf("m", <<>>, <<>>)}} \cup
  {CubinOf(<<Constant(3, <<1>>), Constant(NoNumber, <<2>>),
           [Text("k", <<7>>) EXCEPT !.header = h, !.inside = i], Nameless>>) : h, i \in BOOLEAN} \cup
  {[CubinOf(<<Text("k", <<7>>)>>) EXCEPT !.symbols = <<Sym(name, kind, n), Sym("k", "Text", 1)>>] :
     name \in {"k", NoKernel}, kind \in {"Text", "Data", "Section", "other"}, n \in {0, 1, 5}} \cup
  {[CubinOf(<<>>) EXCEPT !.builder = b, !.length = l, !.magic = m, !.class64 = c, !.little = e,
                       !.machine = g, !.flags = f] :
     b, m, c, e, g \in BOOLEAN, l \in {15, 18, 64}, f \in {<<9, 0, 80>>, <<86, 6, 1>>, <<0, 1, 2>>}}

-----------------------------------------------------------------------------
O(op, n) == [op |-> op, n |-> n]
Ops == {O("copy", 0), O("advance_pc", 1), O("advance_pc", 300), O("advance_line", 2),
        O("advance_line", -1), O("advance_line", 100), O("advance_line", -100),
        O("set_file", 2), O("set_file", 3), O("set_column", 200), O("negate_stmt", 0),
        O("set_basic_block", 0), O("const_add_pc", 0), O("fixed_advance_pc", 4),
        O("set_prologue_end", 0), O("special", 20), O("special", 75), O("set_address", 4),
        O("discriminator", 1), O("end_sequence", 0)}
Ended(program) == program \o <<O("end_sequence", 0)>>
FileA == <<97>>
FileDA == <<100, SLASH, 97>>
FileB == <<98>>
TableUnit(params, files, program) ==
  [version |-> 3, params |-> params, directories |-> <<FileDA>>, files |-> files, program |-> program]
Narrow == [min_inst |-> 1, line_base |-> -3, line_range |-> 12, opcode_base |-> 10]
ShortUnit(op) == TableUnit(Usual, <<FileB>>, Ended(<<op, O("special", 20)>>))

Units ==
  {TableUnit(params, <<FileDA, FileB>>, Ended(<<a, O("copy", 0), b, O("copy", 0)>>)) :
     params \in {Usual, Narrow}, a, b \in Ops}
Tables ==
  {<<u>> : u \in Units} \cup
  {<<TableUnit(Usual, <<FileDA, FileB>>, Ended(<<a, O("special", 20)>>)),
     [ShortUnit(b) EXCEPT !.version = v], ShortUnit(O("set_column", 3))>> :
     a, b \in Ops, v \in {3, 5}} \cup
  {<<[ShortUnit(a) EXCEPT !.program = <<>>, !.files = <<>>],
     [ShortUnit(a) EXCEPT !.program = <<O("copy", 0), a>>]>> : a \in Ops \cup {O("special", 9)}}

-----------------------------------------------------------------------------
A(name, form, n, s) == [name |-> name, form |-> form, n |-> n, s |-> s, bytes |-> <<>>]
Expr(bytes) == [A("location", "exprloc", 0, "") EXCEPT !.bytes = bytes]
E(tag, attrs) == [tag |-> tag, attrs |-> attrs]
Fun(name, linkage) ==
  E("subprogram", <<A("name", "string", 0, name), A("linkage_name", "string", 0, linkage),
                    A("low_pc", "addr", 16, ""), A("high_pc", "udata", 8, "")>>)
DebugInfo ==
  { <<Fun("k", "_k"), Fun("m", "k")>>, <<Fun("m", "k"), Fun("k", "_k")>>,
    <<E("compile_unit", <<A("name", "string", 0, "a.cu"), A("comp_dir", "string", 0, "d"),
                          A("producer", "string", 0, "p"), A("low_pc", "addr", 16, ""),
                          A("high_pc", "addr", 32, ""), A("other", "flag", 0, "")>>),
      E("compile_unit", <<A("producer", "string", 0, "p"), A("high_pc", "flag", 0, "")>>),
      E("subprogram", <<A("inline", "udata", 1, ""), A("decl_line", "udata", 7, ""),
                        A("other", "flag", 0, "")>>), E("other", <<>>)>> } \cup
  {<<E(tag, <<A("decl_line", "udata", 3, ""), A("name", "string", 0, name), Expr(bytes),
             A("other", "flag", 0, "")>>)>> :
     tag \in {"variable", "formal_parameter"}, name \in {"x", ""},
     bytes \in {<<>>, <<83>>, <<145>>, <<145, 124>>, <<3, 8, 1, 0, 0, 0, 0, 0, 0>>, <<3, 8>>, <<200>>}}

Lines(of, n) == [name |-> of, lines |-> n]
SourceSets ==
  {<<>>, <<Lines(FileDA, <<"a1", "a2", "a3">>)>>,
   <<Lines(FileA, <<"b1", "b2">>), Lines(FileDA, <<"old">>), Lines(FileDA, <<"a1", "a2", "a3">>)>>,
   <<Lines(FileA, <<"b1", "b2", "b3">>), Lines(FileB, <<"c1", "c2">>)>>,
   <<Lines(<<101, SLASH, 97>>, <<"d1">>), Lines(<<102, SLASH, 97>>, <<"e1">>)>>}

-----------------------------------------------------------------------------
(* The parameters. *)

PerFunc(attr, data) == Sized(<<PER_FUNC, attr>>, data)
Valued(fmt, attr, value) ==
  [fmt |-> fmt, attr |-> attr, sized |-> FALSE, value |-> value, data |-> <<>>]
(* Parameter n at byte 8 * n, of n + 4 bytes. *)
KParam(n) == PerFunc(KPARAM_INFO, <<0, 0, 0, 0, n, 0, 8 * n, 0, 0, 240, 31, 4 * n + 16>>)
Region(offset, size) == PerFunc(PARAM_CBANK, <<2, 0, 0, 0>> \o Low16(offset) \o Low16(size))

NvEntries ==
  { KParam(1), KParam(0), Region(896, 24), Region(0, 0), PerFunc(KPARAM_INFO, <<1, 0, 0, 0>>),
    PerFunc(80, <<4, 10, 0, 0, 3>>), PerFunc(80, <<>>),
    Valued(GLOBAL, CBANK_PARAM_SIZE, 24), Valued(GLOBAL, PARAM_CBANK, 896),
    Valued(1, 40, 0), Valued(2, 76, 2),
    Sized(<<1, 40>>, <<7, 0, 0, 0>>) }

NvNames == {Named(".nv.info.", "k", NoNumber), Named(".nv.info", NoKernel, NoNumber)}
OfM == Named(".nv.info.", "m", NoNumber)

Made(name, written) ==
  [name |-> name, type |-> "cuda_info", header |-> TRUE, inside |-> TRUE,
   data |-> Encode(written), written |-> written]
Lists == {<<a, b>> : a, b \in NvEntries} \cup {<<KParam(2), a, KParam(1)>> : a \in NvEntries}
Single == Made(OfM, <<KParam(0), Region(352, 8)>>)

NvFiles ==
  {CubinOf(<<Made(name, l)>>) : name \in NvNames, l \in Lists} \cup
  (* two sections of one kernel around the module's *)
  {CubinOf(<<Made(first, <<a>>), Made(second, <<b>>), Single>>) :
     first, second \in NvNames, a, b \in NvEntries} \cup
  (* cut short, empty, of another type, or with its header or its bytes outside the file *)
  {CubinOf(<<[Made(OfM, <<a, KParam(1)>>) EXCEPT !.data = SubSeq(@, 1, Len(@) - cut)],
          Made(OfM, <<b>>)>>) : a, b \in NvEntries, cut \in {1, 6, 13}} \cup
  {CubinOf(<<[Made(OfM, <<KParam(0)>>) EXCEPT !.header = h, !.inside = i, !.type = t], Single>>) :
     h, i \in BOOLEAN, t \in SectionType} \cup
  {[CubinOf(<<[Single EXCEPT !.header = h]>>) EXCEPT !.magic = m] : h, m \in BOOLEAN}

-----------------------------------------------------------------------------
Asked(f, table, entries, sources, instructions) ==
  [file |-> f, table |-> table, entries |-> entries, sources |-> sources,
   function |-> "k", start |-> 8, instructions |-> instructions]
Debugged(data) == CubinOf(<<Table(data), Text("k", <<7>>)>>)
Twice(data) == CubinOf(<<[Table(data) EXCEPT !.inside = TRUE], Table(<<1>>)>>)

MCRequests ==
  {Asked(f, <<>>, <<>>, <<>>, <<>>) : f \in CubinsRead \cup NvFiles} \cup
  {Asked(Debugged(TableBytes(t)), t, <<>>, sources, <<0, 1, 4>>) :
     t \in Tables, sources \in {<<>>}} \cup
  {Asked(Debugged(TableBytes(t)), t, <<>>, sources, <<0, 1, 4>>) :
     t \in {<<TableUnit(Usual, <<FileDA, FileB>>, Ended(<<a, O("special", 20), b, O("copy", 0)>>))>> :
              a \in {O("set_file", 2), O("advance_line", 2), O("advance_line", -2), O("copy", 0)},
              b \in Ops}, sources \in SourceSets} \cup
  {Asked(Debugged(SubSeq(TableBytes(<<ShortUnit(a)>>), 1, cut)), <<ShortUnit(a)>>, <<>>, <<>>, <<0>>) :
     a \in Ops, cut \in {3, 9, 20}} \cup
  {Asked(Twice(TableBytes(<<ShortUnit(a)>>)), <<ShortUnit(a)>>, <<>>, <<>>, <<0>>) : a \in Ops} \cup
  {Asked(CubinOf(<<>>), <<>>, info, <<>>, <<16, 24>>) : info \in DebugInfo}

MCCubins ==
  {[elf |-> e, strings |-> s, sections |-> r.file.sections] : e, s \in BOOLEAN, r \in MCRequests}
=============================================================================
