----------------------------- MODULE CubinParse -----------------------------
(***************************************************************************)
(* CubinParser::parse: the kernels of a cubin, their code and what the     *)
(* lift reports of them (registers, memories, threads), and the constant   *)
(* banks.  The ELF structure is read by the `object' library.              *)
(*                                                                         *)
(* Sections are kept in a HashMap: a later section of the same name        *)
(* replaces an earlier one, and kernels and constants come in any order.   *)
(***************************************************************************)
EXTENDS CubinImage, FiniteSets

(***************************************************************************)
(* header: the fields is_cubin looks at; length counts the file's bytes.   *)
(* flags: the three low bytes of e_flags.  builder: the parser is made by  *)
(* CubinParserBuilder.                                                     *)
(***************************************************************************)
Symbol == [name: Kernel \cup {NoKernel}, kind: {"Text", "Data", "Section", "other"},
           section: Nat, global: BOOLEAN]
File == [builder: BOOLEAN, length: Nat, magic: BOOLEAN, class64: BOOLEAN, little: BOOLEAN,
         machine: BOOLEAN, flags: Byte \X Byte \X Byte,
         sections: Seq(Section), symbols: Seq(Symbol)]

VARIABLES
  file,
  stage,       \* "build", "elf", "sections", "symbols", "kernels", "constants",
               \* or an outcome: "parsed", "error", "panic"
  read,        \* the sections or symbols read
  sm_version,
  sections,    \* the section of each name
  symbols,
  kernels,     \* in the order of the HashMap
  constants

cubin_vars == <<file, stage, read, sm_version, sections, symbols, kernels, constants>>

CubinInit(f) ==
  /\ file = f
  /\ stage = IF f.builder THEN "build" ELSE "elf"
  /\ read = 0 /\ sm_version = 0
  /\ sections = <<>> /\ symbols = <<>> /\ kernels = <<>> /\ constants = <<>>

(* is_cubin asks for sixteen bytes and then reads the machine in bytes 18 and 19. *)
Build ==
  /\ stage = "build"
  /\ stage' = IF file.length < 16 \/ ~file.magic \/ ~file.class64 \/ ~file.little THEN "error"
              ELSE IF file.length < 20 THEN "panic"
              ELSE IF file.machine THEN "elf" ELSE "error"
  /\ UNCHANGED <<file, read, sm_version, sections, symbols, kernels, constants>>

(* sm_version_from_elf_flags: the first byte that can be a version; 61 if none. *)
Versions(flags) == {n \in 1..3 : flags[n] >= 10}
SmVersion(flags) ==
  IF Versions(flags) = {} THEN 61
  ELSE flags[CHOOSE n \in Versions(flags) : \A m \in Versions(flags) : n <= m]

ParseElf ==
  /\ stage = "elf"
  /\ stage' = IF file.magic /\ file.class64 THEN "sections" ELSE "error"
  /\ sm_version' = SmVersion(file.flags)
  /\ UNCHANGED <<file, read, sections, symbols, kernels, constants>>

(* Mutant: the first section of a name is kept. *)
ParseSection_keeps_first ==
  /\ stage = "sections" /\ read < Len(file.sections)
  /\ read' = read + 1
  /\ LET s == file.sections[read']
     IN sections' = IF s.name.stem = "" \/ s.name \in DOMAIN sections THEN sections
                    ELSE [n \in DOMAIN sections \cup {s.name} |->
                            IF n = s.name THEN s.data ELSE sections[n]]
  /\ UNCHANGED <<file, stage, sm_version, symbols, kernels, constants>>

(* A name or bytes outside the file fail the whole parse; no name, no section. *)
ParseSection ==
  /\ stage = "sections" /\ read < Len(file.sections)
  /\ LET s == file.sections[read + 1]
     IN IF ~s.header \/ (s.name.stem # "" /\ ~s.inside)
        THEN stage' = "error" /\ UNCHANGED <<read, sections>>
        ELSE /\ read' = read + 1
             /\ sections' = IF s.name.stem = "" THEN sections
                            ELSE [n \in DOMAIN sections \cup {s.name} |->
                                    IF n = s.name THEN s.data ELSE sections[n]]
             /\ stage' = stage
  /\ UNCHANGED <<file, sm_version, symbols, kernels, constants>>

SectionsRead ==
  /\ stage = "sections" /\ read = Len(file.sections)
  /\ stage' = "symbols" /\ read' = 0
  /\ UNCHANGED <<file, sm_version, sections, symbols, kernels, constants>>

SymbolType(kind) == CASE kind = "Text" -> "Function" [] kind = "Data" -> "Variable"
                      [] kind = "Section" -> "Section" [] OTHER -> "Unknown"

(* symbol.section_index() may be none, or no section of the file. *)
SymbolSection(n) == IF n \in DOMAIN file.sections THEN file.sections[n].name.stem ELSE ""

ParseSymbol ==
  /\ stage = "symbols" /\ read < Len(file.symbols)
  /\ read' = read + 1
  /\ LET s == file.symbols[read']
     IN symbols' = IF s.name = NoKernel THEN symbols
                   ELSE Append(symbols, [name |-> s.name, symbol_type |-> SymbolType(s.kind),
                                         section |-> SymbolSection(s.section),
                                         is_global |-> s.global])
  /\ UNCHANGED <<file, stage, sm_version, sections, kernels, constants>>

SymbolsRead ==
  /\ stage = "symbols" /\ read = Len(file.symbols)
  /\ stage' = "kernels"
  /\ UNCHANGED <<file, read, sm_version, sections, symbols, kernels, constants>>

-----------------------------------------------------------------------------
(* parse_nv_info: every entry is taken for a type, a length and its data.  *)

REGCOUNT == <<1, 4>>
SMEM_SIZE == <<8, 8>>
LMEM_SIZE == <<4, 10>>
MAX_THREADS == <<4, 5>>

Metadata == [num_registers |-> 32, shared_mem_size |-> 0, const_mem_size |-> 0,
             local_mem_size |-> 0, max_threads_per_block |-> 1024]

(* The field an attribute sets; its first word is the value. *)
With(meta, attr_type, word) ==
  CASE attr_type = REGCOUNT -> [meta EXCEPT !.num_registers = word]
    [] attr_type = SMEM_SIZE -> [meta EXCEPT !.shared_mem_size = word]
    [] attr_type = LMEM_SIZE -> [meta EXCEPT !.local_mem_size = word]
    [] attr_type = MAX_THREADS -> [meta EXCEPT !.max_threads_per_block = word]
    [] OTHER -> meta

Aligned(offset) == ((offset + 3) \div 4) * 4

(* A turn of the loop: an entry of at least a word sets its field; the next begins at a word. *)
Turned(data, padded, to) ==
  LET size == U16(data, to.offset + 2)
      end == to.offset + 4 + size
  IN IF to.offset + 4 > Len(data) \/ end > Len(data) THEN to
     ELSE [offset |-> IF padded THEN Aligned(end) ELSE end,
           meta |-> IF size < 4 THEN to.meta
                    ELSE With(to.meta, SubSeq(data, to.offset + 1, to.offset + 2),
                              U32(data, to.offset + 4))]

(* After n turns.  As many as there are bytes are enough: the last ones change nothing. *)
Turns(data, padded) ==
  LET after[n \in 0..Len(data)] ==
        IF n = 0 THEN [offset |-> 0, meta |-> Metadata] ELSE Turned(data, padded, after[n - 1])
  IN after

(* Mutant: the data are skipped to their end, not to the next word. *)
parse_nv_info_unaligned(data) == Turns(data, FALSE)[Len(data)].meta

parse_nv_info(data) == Turns(data, TRUE)[Len(data)].meta

-----------------------------------------------------------------------------
(* Kernels and constants, in the order of the HashMap. *)

InfoName(k) == [stem |-> ".nv.info.", kernel |-> k, number |-> NoNumber]
IsCode(name) == name.stem = ".text." /\ sections[name] # <<>>
MetadataOf(k) ==
  IF InfoName(k) \in DOMAIN sections THEN parse_nv_info(sections[InfoName(k)]) ELSE Metadata

Extracted == {kernels[n].name : n \in DOMAIN kernels}
ExtractKernel ==
  /\ stage = "kernels"
  /\ \E name \in {n \in DOMAIN sections : IsCode(n) /\ n.kernel \notin Extracted} :
       kernels' = Append(kernels, [name |-> name.kernel, code |-> sections[name],
                                   meta |-> MetadataOf(name.kernel),
                                   sm_version |-> sm_version])
  /\ UNCHANGED <<file, stage, read, sm_version, sections, symbols, constants>>

KernelsExtracted ==
  /\ stage = "kernels"
  /\ \A n \in DOMAIN sections : IsCode(n) => n.kernel \in Extracted
  /\ stage' = "constants"
  /\ UNCHANGED <<file, read, sm_version, sections, symbols, kernels, constants>>

(* The bank is the number in the name; a name without one is of bank 0. *)
Bank(name) == IF name.number = NoNumber THEN 0 ELSE name.number
Banks == {constants[n].name : n \in DOMAIN constants}
ExtractConstant ==
  /\ stage = "constants"
  /\ \E name \in {n \in DOMAIN sections : n.stem = ".nv.constant"} \ Banks :
       constants' = Append(constants, [name |-> name, bank |-> Bank(name),
                                       size |-> Len(sections[name]), data |-> sections[name]])
  /\ UNCHANGED <<file, stage, read, sm_version, sections, symbols, kernels>>

(* parse_debug_lines returns no lines. *)
Parsed ==
  /\ stage = "constants"
  /\ {n \in DOMAIN sections : n.stem = ".nv.constant"} \subseteq Banks
  /\ stage' = "parsed"
  /\ UNCHANGED <<file, read, sm_version, sections, symbols, kernels, constants>>

CubinNext ==
  \/ Build \/ ParseElf \/ ParseSection \/ SectionsRead \/ ParseSymbol \/ SymbolsRead
  \/ ExtractKernel \/ KernelsExtracted \/ ExtractConstant \/ Parsed

(* get_kernel_code: the first kernel of the name. *)
get_kernel_code(k) ==
  LET found == {n \in DOMAIN kernels : kernels[n].name = k}
  IN IF found = {} THEN <<>>
     ELSE kernels[CHOOSE n \in found : \A m \in found : n <= m].code

-----------------------------------------------------------------------------
(* Every entry is what the reader takes it for: sized, and padded to a word. *)
AllSized(s) ==
  s.data = EncodePadded(s.written) /\ \A n \in DOMAIN s.written : s.written[n].sized

(* The last section of a name. *)
LastOf(stem, k) ==
  LET found == {n \in DOMAIN file.sections :
                  file.sections[n].name.stem = stem /\ file.sections[n].name.kernel = k}
  IN IF found = {} THEN {}
     ELSE {file.sections[CHOOSE n \in found : \A m \in found : n >= m]}

(* The word the compiler last gave for an attribute. *)
Given(entries, attr_type, default) ==
  LET found == {n \in DOMAIN entries :
                  <<entries[n].fmt, entries[n].attr>> = attr_type /\ Len(entries[n].data) >= 4}
  IN IF found = {} THEN default
     ELSE U32(entries[CHOOSE n \in found : \A m \in found : n >= m].data, 0)

(***************************************************************************)
(* The kernels are the code sections that are not empty, each once, with   *)
(* the code and the numbers of the sections of its own name, whatever the  *)
(* order in which the HashMap gives them (cubin.rs:284-422).               *)
(***************************************************************************)
KernelsAsCompiled ==
  stage = "parsed" =>
    /\ \A m, n \in DOMAIN kernels : kernels[m].name = kernels[n].name => m = n
    /\ \A k \in Kernel :
         /\ k \in Extracted <=> \E s \in LastOf(".text.", k) : s.data # <<>>
         /\ k \in Extracted => \E s \in LastOf(".text.", k) : get_kernel_code(k) = s.data
    /\ \A n \in DOMAIN kernels :
         LET meta == kernels[n].meta
             info == LastOf(".nv.info.", kernels[n].name)
         IN /\ info = {} => meta = Metadata
            /\ \A s \in info :
                 AllSized(s) =>
                   /\ meta.num_registers = Given(s.written, REGCOUNT, 32)
                   /\ meta.shared_mem_size = Given(s.written, SMEM_SIZE, 0)
                   /\ meta.max_threads_per_block = Given(s.written, MAX_THREADS, 1024)
=============================================================================
