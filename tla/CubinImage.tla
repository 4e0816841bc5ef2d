----------------------------- MODULE CubinImage -----------------------------
(***************************************************************************)
(* A cubin as its two readers see it: section headers, and the bytes of    *)
(* the .nv.info sections.  NvInfo (parse/nvinfo.rs) and CubinParse         *)
(* (parse/cubin.rs) walk the same bytes by different rules.                *)
(*                                                                         *)
(* A name is a stem, the kernel after it and, for .nv.constant, the number *)
(* that follows it.                                                        *)
(***************************************************************************)
EXTENDS Integers, Sequences

CONSTANT Kernel      \* the kernels' names

NoKernel == ""
ASSUME KernelAssumption == NoKernel \notin Kernel

NoNumber == -1
Byte == 0..255
Halfword == {n \in Nat : n < 65536}

Stems == {"", ".nv.info", ".nv.info.", ".nv.information", ".text", ".text.",
          ".nv.constant", ".debug_line"}
SectionName ==
  {n \in [stem: Stems, kernel: Kernel \cup {NoKernel}, number: Nat \cup {NoNumber}] :
     n.number # NoNumber => n.stem = ".nv.constant"}

(* SHT_CUDA_INFO, and any other type. *)
SectionType == {"cuda_info", "other"}

(* read_u16_le and read_u32_le, from the byte after `offset' bytes. *)
U16(data, offset) == data[offset + 1] + 256 * data[offset + 2]
U32(data, offset) == U16(data, offset) + 65536 * U16(data, offset + 2)
Low16(n) == <<n % 256, n \div 256>>

-----------------------------------------------------------------------------
(* The compiler's side. *)

PER_FUNC == 4     \* its u16 is the length of the data that follow
GLOBAL == 3       \* its u16 is the value

(* sized: the u16 is a length, and data follow.  The other formats may be either. *)
Entry == {e \in [fmt: Byte, attr: Byte, sized: BOOLEAN, value: Halfword, data: Seq(Byte)] :
            e.sized \/ e.data = <<>>}
EntryBytes(e) ==
  <<e.fmt, e.attr>> \o (IF e.sized THEN Low16(Len(e.data)) \o e.data ELSE Low16(e.value))

(* The bytes of the first n pieces, and of all of them. *)
Upto(pieces) ==
  LET bytes[n \in 0..Len(pieces)] == IF n = 0 THEN <<>> ELSE bytes[n - 1] \o pieces[n]
  IN bytes
Joined(pieces) == Upto(pieces)[Len(pieces)]

Pieces(entries) == [n \in DOMAIN entries |-> EntryBytes(entries[n])]
Encode(entries) == Joined(Pieces(entries))

(* Every entry ends at a word. *)
Zeros(n) == [i \in 1..n |-> 0]
ToWord(bytes) == bytes \o Zeros((4 - (Len(bytes) % 4)) % 4)
PaddedPieces(entries) == [n \in DOMAIN entries |-> ToWord(EntryBytes(entries[n]))]
EncodePadded(entries) == Joined(PaddedPieces(entries))

(***************************************************************************)
(* header: the header is inside the file.  inside: so are the bytes.       *)
(* data: the section's bytes; written: what the compiler put in them.      *)
(***************************************************************************)
Section == [name: SectionName, type: SectionType, header: BOOLEAN, inside: BOOLEAN,
            data: Seq(Byte), written: Seq(Entry)]

PARAM_CBANK == 10
KPARAM_INFO == 23
CBANK_PARAM_SIZE == 25
=============================================================================
