------------------------------- MODULE NvInfo -------------------------------
(***************************************************************************)
(* parse_cubin_nvinfo: the parameters of each kernel, from the .nv.info    *)
(* sections.  The lift names a kernel's parameters and places them in      *)
(* constant bank 0 by this table, so an entry lost or misread moves every  *)
(* parameter of the kernel.                                                *)
(*                                                                         *)
(* Sections come in any order, one without a kernel's name is the          *)
(* module's, and the sections of a kernel and of the module interleave.    *)
(* A payload is walked by tag, length and value.                           *)
(***************************************************************************)
EXTENDS CubinImage, FiniteSets

CONSTANT Cubins    \* the files considered

(* elf: the magic and the class are right.  strings: so are the bounds of the string table. *)
Cubin == [elf: BOOLEAN, strings: BOOLEAN, sections: Seq(Section)]

ASSUME CubinsAssumption == Cubins \subseteq Cubin

VARIABLES
  cubin,
  phase,       \* "header", "sections", "payload", "done" or "failed"
  section,     \* the section walked, or the last one walked
  pos,         \* the bytes consumed of its payload
  nv_kernels,     \* NvKernelInfo by name
  global       \* GlobalNvInfo

nv_vars == <<cubin, phase, section, pos, nv_kernels, global>>

NoValue == -1
NoGlobal == [param_cbank_offset |-> NoValue, cbank_param_size |-> NoValue]

NvInit ==
  /\ cubin \in Cubins
  /\ phase = "header"
  /\ section = 0 /\ pos = 0
  /\ nv_kernels = <<>>
  /\ global = NoGlobal

(* elf_header_64 and the bounds of the string table. *)
ReadHeader ==
  /\ phase = "header"
  /\ phase' = IF cubin.elf /\ cubin.strings THEN "sections" ELSE "failed"
  /\ UNCHANGED <<cubin, section, pos, nv_kernels, global>>

-----------------------------------------------------------------------------
(* Sections. *)

(* name.starts_with(".nv.info") *)
InfoStems == {".nv.info", ".nv.info.", ".nv.information"}
IsInfo(s) == /\ s.header /\ s.name.stem \in InfoStems /\ s.type = "cuda_info"
             /\ s.data # <<>> /\ s.inside

(* The payload is an information section's, or the section is passed over. *)
NextSection ==
  /\ phase = "sections" /\ section < Len(cubin.sections)
  /\ section' = section + 1
  /\ pos' = 0
  /\ phase' = IF IsInfo(cubin.sections[section']) THEN "payload" ELSE phase
  /\ UNCHANGED <<cubin, nv_kernels, global>>

payload == cubin.sections[section].data

(* strip_prefix(".nv.info.") and not empty. *)
kernel_name ==
  IF cubin.sections[section].name.stem = ".nv.info."
  THEN cubin.sections[section].name.kernel ELSE NoKernel

-----------------------------------------------------------------------------
(* The walk over a payload. *)

More == phase = "payload" /\ pos + 4 <= Len(payload)
fmt_byte == payload[pos + 1]
attr_id == payload[pos + 2]
attr_size == U16(payload, pos + 2)
Fits == pos + 4 + attr_size <= Len(payload)
attr_data == SubSeq(payload, pos + 5, pos + 4 + attr_size)

EndOfPayload ==
  /\ phase = "payload" /\ ~More
  /\ phase' = "sections"
  /\ UNCHANGED <<cubin, section, pos, nv_kernels, global>>

(* `break': no data, or more than the payload has. *)
Truncated ==
  /\ More
  /\ \/ fmt_byte = PER_FUNC /\ (attr_size = 0 \/ ~Fits)
     \/ fmt_byte \notin {PER_FUNC, GLOBAL} /\ ~Fits
  /\ phase' = "sections"
  /\ UNCHANGED <<cubin, section, pos, nv_kernels, global>>

PerFunction(attrs) ==
  /\ More /\ fmt_byte = PER_FUNC /\ attr_id \in attrs
  /\ attr_size # 0 /\ Fits
  /\ pos' = pos + 4 + attr_size

Info(offset, size, kparams) ==
  [param_cbank_offset |-> offset, param_cbank_size |-> size, kparams |-> kparams]
Entered(name, info) ==
  [k \in DOMAIN nv_kernels \cup {name} |-> IF k = name THEN info ELSE nv_kernels[k]]
KParamsOf(name) == IF name \in DOMAIN nv_kernels THEN nv_kernels[name].kparams ELSE <<>>

ParamCbank ==
  /\ PerFunction({PARAM_CBANK})
  /\ nv_kernels' = IF kernel_name # NoKernel /\ attr_size >= 8
                THEN Entered(kernel_name, Info(U16(attr_data, 4), U16(attr_data, 6),
                                               KParamsOf(kernel_name)))
                ELSE nv_kernels
  /\ UNCHANGED <<cubin, phase, section, global>>

(* The word `packed': log_align 8, space 4, cbankid 5, is_smem_param 1, size 14 bits. *)
NvKparam(data) ==
  [index |-> U32(data, 0), ordinal |-> U16(data, 4), offset |-> U16(data, 6),
   log_align |-> data[9], space |-> data[10] % 16,
   cbankid |-> data[10] \div 16 + 16 * (data[11] % 2),
   is_smem_param |-> (data[11] \div 2) % 2 = 1,
   size |-> data[11] \div 4 + 64 * data[12]]

DefaultOffset == 352     \* 0x160

(* Mutant: a descriptor replaces the ones before it. *)
KparamInfo_keeps_last ==
  /\ PerFunction({KPARAM_INFO})
  /\ nv_kernels' = IF kernel_name # NoKernel /\ attr_size >= 12
                THEN Entered(kernel_name, Info(DefaultOffset, 0, <<NvKparam(attr_data)>>))
                ELSE nv_kernels
  /\ UNCHANGED <<cubin, phase, section, global>>

KparamInfo ==
  /\ PerFunction({KPARAM_INFO})
  /\ nv_kernels' =
       IF kernel_name = NoKernel \/ attr_size < 12 THEN nv_kernels
       ELSE IF kernel_name \in DOMAIN nv_kernels
       THEN [nv_kernels EXCEPT ![kernel_name].kparams = Append(@, NvKparam(attr_data))]
       ELSE Entered(kernel_name, Info(DefaultOffset, 0, <<NvKparam(attr_data)>>))
  /\ UNCHANGED <<cubin, phase, section, global>>

OtherPerFunction ==
  /\ PerFunction(Byte \ {PARAM_CBANK, KPARAM_INFO})
  /\ UNCHANGED <<cubin, phase, section, nv_kernels, global>>

(* The u16 of the header is the value. *)
GlobalAttribute ==
  /\ More /\ fmt_byte = GLOBAL
  /\ pos' = pos + 4
  /\ global' = CASE attr_id = PARAM_CBANK -> [global EXCEPT !.param_cbank_offset = attr_size]
                 [] attr_id = CBANK_PARAM_SIZE -> [global EXCEPT !.cbank_param_size = attr_size]
                 [] OTHER -> global
  /\ UNCHANGED <<cubin, phase, section, nv_kernels>>

(* Mutant: a format it does not know ends the walk of every section. *)
UnknownFormat_gives_up ==
  /\ More /\ fmt_byte \notin {PER_FUNC, GLOBAL} /\ Fits
  /\ phase' = "sections"
  /\ section' = Len(cubin.sections)
  /\ UNCHANGED <<cubin, pos, nv_kernels, global>>

(* `try to skip using the u16 "size" heuristic' *)
UnknownFormat ==
  /\ More /\ fmt_byte \notin {PER_FUNC, GLOBAL} /\ Fits
  /\ pos' = pos + 4 + attr_size
  /\ UNCHANGED <<cubin, phase, section, nv_kernels, global>>

-----------------------------------------------------------------------------
(* The end. *)

(* sort_by_key keeps the order of equal ordinals. *)
SortedByOrdinal(q) ==
  LET before(m, n) == q[m].ordinal < q[n].ordinal \/ (q[m].ordinal = q[n].ordinal /\ m < n)
      rank(n) == Cardinality({m \in DOMAIN q : before(m, n)}) + 1
  IN [r \in DOMAIN q |-> q[CHOOSE n \in DOMAIN q : rank(n) = r]]

Or(value, default) == IF value = NoValue THEN default ELSE value

(* A zero stands for `not given'; global.param_cbank_size is never set. *)
WithDefaults(info) ==
  Info(IF info.param_cbank_offset = 0 THEN Or(global.param_cbank_offset, DefaultOffset)
       ELSE info.param_cbank_offset,
       IF info.param_cbank_size = 0 THEN Or(global.cbank_param_size, 0)
       ELSE info.param_cbank_size,
       SortedByOrdinal(info.kparams))

ApplyDefaults ==
  /\ phase = "sections" /\ section = Len(cubin.sections)
  /\ phase' = "done"
  /\ nv_kernels' = [k \in DOMAIN nv_kernels |-> WithDefaults(nv_kernels[k])]
  /\ UNCHANGED <<cubin, section, pos, global>>

NvFinished == phase \in {"done", "failed"} /\ UNCHANGED nv_vars

NvNext ==
  \/ ReadHeader \/ NextSection \/ EndOfPayload \/ Truncated
  \/ ParamCbank \/ KparamInfo \/ OtherPerFunction \/ GlobalAttribute \/ UnknownFormat
  \/ ApplyDefaults \/ NvFinished

NvSpec == NvInit /\ [][NvNext]_nv_vars

-----------------------------------------------------------------------------
(* What the table must say. *)

(* An entry after which the walk is where the next entry begins. *)
InStepAfter(e) ==
  \/ e.fmt = GLOBAL /\ ~e.sized
  \/ e.fmt = PER_FUNC /\ e.sized /\ e.data # <<>>
  \/ e.fmt \notin {PER_FUNC, GLOBAL} /\ (e.sized \/ e.value = 0)

Clean(s) == /\ s.data = Encode(s.written)
            /\ \A n \in DOMAIN s.written : InStepAfter(s.written[n])

IsOf(k, s) == IsInfo(s) /\ s.name.stem = ".nv.info." /\ s.name.kernel = k

(* An attribute of enough bytes. *)
Describes(e, attr, length) == e.fmt = PER_FUNC /\ e.attr = attr /\ Len(e.data) >= length

(* `earlier' and those of the first m entries of a list. *)
Gathered(earlier, entries, attr, length) ==
  LET found[m \in 0..Len(entries)] ==
        IF m = 0 THEN earlier
        ELSE IF Describes(entries[m], attr, length) THEN Append(found[m - 1], entries[m])
        ELSE found[m - 1]
  IN found

(* Those of k in the first n sections, and in all of them. *)
DescriptorsUpto(k, attr, length) ==
  LET found[n \in 0..Len(cubin.sections)] ==
        IF n = 0 THEN <<>>
        ELSE LET s == cubin.sections[n]
             IN IF IsOf(k, s) THEN Gathered(found[n - 1], s.written, attr, length)[Len(s.written)]
                ELSE found[n - 1]
  IN found
Descriptors(k, attr, length) == DescriptorsUpto(k, attr, length)[Len(cubin.sections)]

Regions(k) == Descriptors(k, PARAM_CBANK, 8)
Described(entries) == [n \in DOMAIN entries |-> NvKparam(entries[n].data)]
Params(k) == Described(Descriptors(k, KPARAM_INFO, 12))

(* The sections of k keep the walk in step. *)
Plain(k) == \A n \in DOMAIN cubin.sections : IsOf(k, cubin.sections[n]) => Clean(cubin.sections[n])

(***************************************************************************)
(* A kernel whose sections hold only entries of known length has the       *)
(* parameters they describe, in the order of their ordinals, and the       *)
(* region of its last PARAM_CBANK; without one it has the size the module  *)
(* gives and, where the module gives no offset either, the usual offset;   *)
(* whatever the order and the contents of the other sections               *)
(* (nvinfo.rs:139-321).                                                    *)
(***************************************************************************)
KernelsAsDescribed ==
  phase = "done" =>
    \A k \in Kernel : Plain(k) =>
      /\ k \in DOMAIN nv_kernels <=> Regions(k) # <<>> \/ Params(k) # <<>>
      /\ k \in DOMAIN nv_kernels =>
           LET info == nv_kernels[k]
               last == Regions(k)[Len(Regions(k))].data
               offset == U16(last, 4)
               size == U16(last, 6)
           IN /\ info.kparams = SortedByOrdinal(Params(k))
              /\ Regions(k) = <<>> =>
                   /\ info.param_cbank_size = Or(global.cbank_param_size, 0)
                   /\ global.param_cbank_offset = NoValue => info.param_cbank_offset = DefaultOffset
              /\ Regions(k) # <<>> => /\ offset # 0 => info.param_cbank_offset = offset
                                      /\ size # 0 => info.param_cbank_size = size

(* No section of k speaks for the module. *)
OwnEntriesOnly(k) ==
  \A n \in DOMAIN cubin.sections :
    LET s == cubin.sections[n]
    IN IsOf(k, s) => \A m \in DOMAIN s.written : s.written[m].fmt # GLOBAL

(***************************************************************************)
(* The comment at nvinfo.rs:302, "Apply global defaults to kernels that    *)
(* didn't have explicit PARAM_CBANK": a kernel that only its KPARAM_INFO   *)
(* entries describe has the offset that the module's section gives.  The   *)
(* code does not do this: such a kernel is entered with 0x160, and a       *)
(* default replaces a zero only.                                           *)
(***************************************************************************)
GlobalDefaultsApply ==
  phase = "done" /\ global.param_cbank_offset # NoValue =>
    \A k \in DOMAIN nv_kernels :
      Plain(k) /\ OwnEntriesOnly(k) /\ Regions(k) = <<>> =>
        nv_kernels[k].param_cbank_offset = global.param_cbank_offset

(* The entries of a section up to the first one that may put the walk out of step. *)
BeginsWith(data, bytes) == Len(bytes) <= Len(data) /\ SubSeq(data, 1, Len(bytes)) = bytes
InStepPrefix(s) ==
  {n \in DOMAIN s.written :
     /\ \A m \in 1..(n - 1) : InStepAfter(s.written[m])
     /\ BeginsWith(s.data, Upto(Pieces(s.written))[n])}

Listed(k, param) ==
  k \in DOMAIN nv_kernels /\ \E i \in DOMAIN nv_kernels[k].kparams : nv_kernels[k].kparams[i] = param

(***************************************************************************)
(* An entry that puts the walk out of step costs only what follows it in   *)
(* its section: the parameters described before it are kept                *)
(* (nvinfo.rs:226-235).                                                    *)
(***************************************************************************)
EarlierEntriesSurvive ==
  phase = "done" =>
    \A n \in DOMAIN cubin.sections :
      LET s == cubin.sections[n]
          k == s.name.kernel
      IN IsOf(k, s) /\ k # NoKernel =>
           \A m \in InStepPrefix(s) :
             Describes(s.written[m], KPARAM_INFO, 12) => Listed(k, NvKparam(s.written[m].data))
=============================================================================
