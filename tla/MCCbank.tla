------------------------------- MODULE MCCbank -------------------------------
(***************************************************************************)
(* Kernels for TLC: one or two instructions over the offsets that tell the *)
(* tables apart - two special registers, launch info below the parameter   *)
(* base (0x118 occurs in every sm_89 kernel of the corpus), the parameter  *)
(* bases of both SM families, and the upper half of a 64-bit parameter.    *)
(***************************************************************************)
EXTENDS Cbank

CONSTANT MaxLen

Bank(x) == [kind |-> "bank0", value |-> x, desc |-> FALSE]
OtherBank(x) == [kind |-> "bank", value |-> x, desc |-> FALSE]
Mem(n, d) == [kind |-> "mem", value |-> n, desc |-> d]

\* %tid.x, %ctaid.z, 0x118, 0x160, 0x164, 0x170, 0x360, 0x380, 0x388
Offsets == {0, 40, 280, 352, 356, 368, 864, 896, 904}

Inst(op, wide, dst, src) == [op |-> op, wide |-> wide, dst |-> dst, src |-> src]

Menu ==
       {Inst("ULDC", TRUE, <<Reg(4)>>, <<Bank(x)>>) : x \in Offsets}
  \cup {Inst("IMAD", FALSE, <<Reg(2)>>, <<Reg(3), Bank(x), Bank(y)>>) :
          x \in {280, 352, 896}, y \in {352, 356, 864, 904}}
  \cup {Inst("NANOSLEEP", FALSE, <<Bank(x)>>, <<>>) : x \in {0, 352, 896}}
  \cup {Inst("STG", FALSE, <<Mem(2, TRUE)>>, <<OtherBank(0)>>)}

MCOpcodes == {"ULDC", "IMAD", "NANOSLEEP", "STG", "MOV"}

MCKernels == UNION {[1..n -> Menu] : n \in 1..MaxLen}

(* A TLC integer has 32 bits; an offset below nvinfo's base must still wrap *)
(* to a value no kparam reaches.                                           *)
MCWord == 2^20

MCSmVersions == {86, 89, 120}

KP(ordinal, offset, size) == [ordinal |-> ordinal, offset |-> offset, size |-> size]
Nv(base, kparams) == [present |-> TRUE, base |-> base, kparams |-> kparams]

MCNvInfos ==
  { NoNvInfo,
    Nv(352, <<KP(0, 0, 8), KP(1, 8, 4)>>),
    Nv(896, <<KP(0, 0, 8), KP(1, 8, 8)>>),
    Nv(352, <<>>) }
=============================================================================
