---------------------------- MODULE CubinReaders ----------------------------
(***************************************************************************)
(* The readers of one cubin: parse_cubin_nvinfo, which the lift takes a    *)
(* kernel's parameters from, and the cubin parser with the recovery engine *)
(* on it.  Each is given the same bytes, neither changes them, and they    *)
(* share nothing else: the walk over .nv.info is taken first, as in        *)
(* lift_cubin_to_ptx_with_cuobjdump, which parses no cubin before it.      *)
(***************************************************************************)
EXTENDS Recovery, NvInfo

(***************************************************************************)
(* A file as elf_header_64 and section_name see it.  Where the names are   *)
(* out of bounds for the walk, the `object' library reads none either.     *)
(***************************************************************************)
SeenBy(f) ==
  {c \in [elf: {f.magic /\ f.class64 /\ f.length >= 64}, strings: BOOLEAN, sections: {f.sections}] :
     ~c.strings => \A n \in DOMAIN f.sections : ~f.sections[n].header}

ReadersInit == Init /\ cubin \in SeenBy(request.file) /\ NvInit

ReadParameters == NvNext /\ UNCHANGED vars
RecoverLines == phase \in {"done", "failed"} /\ Next /\ UNCHANGED nv_vars

ReadersNext == ReadParameters \/ RecoverLines

ReadersSpec == ReadersInit /\ [][ReadersNext]_<<vars, nv_vars>>
=============================================================================
