--------------------------- MODULE MCControlFlow ---------------------------
(***************************************************************************)
(* Kernels for TLC: all sequences of three and of four instructions over   *)
(* small alphabets, at the addresses 0, 1, 2, 3, and longer ones with      *)
(* nested and reused barriers, calls, and addresses that repeat.           *)
(***************************************************************************)
EXTENDS ControlFlow

Inst(op, guard, barrier, dst, src) ==
  [address |-> 0, op |-> op, mods |-> <<>>, guard |-> guard, barrier |-> barrier,
   dst |-> dst, src |-> src]

Plain(guard) == Inst("FADD", guard, NoBarrier,
                     <<RegisterOperand("R", 4, "none")>>, <<RegisterOperand("R", 4, "none")>>)
Uniform(guard) == Inst("UIADD3", guard, NoBarrier, <<RegisterOperand("UR", 4, "none")>>,
                       <<RegisterOperand("UR", 4, "none"), AddressOperand(4)>>)
Bra(guard, a) == Inst("BRA", guard, NoBarrier, <<AddressOperand(a)>>, <<>>)
BraDiv(guard, a) ==
  Inst("BRA", guard, NoBarrier, <<RegisterOperand("UR", 4, "none")>>, <<AddressOperand(a)>>)
Unresolved == Inst("BRA", "P0", NoBarrier,
  <<[kind |-> "label", prefix |-> "RZ", n |-> 0, flag |-> "none", bits |-> Nothing]>>, <<>>)
Bssy(b, a) == Inst("BSSY", "none", b, <<>>, <<AddressOperand(a)>>)
Bsync(guard, b) == Inst("BSYNC", guard, b, <<>>, <<>>)
Exit(guard) == Inst("EXIT", guard, NoBarrier, <<>>, <<>>)
Call(a) == Inst("CALL", "none", NoBarrier, <<AddressOperand(a)>>, <<>>)
Ret == Inst("RET", "none", NoBarrier, <<RegisterOperand("R", 4, "none")>>, <<>>)

Placed(body) == [n \in DOMAIN body |-> [body[n] EXCEPT !.address = n - 1]]
Twice(body) == Placed(body) \o Placed(body)   \* two functions of a module

Few ==
  {Plain("never"), Bra("P0", 3), Bra("none", 2), Bssy("B0", 3), Bsync("none", "B0"),
   Exit("P0")}
Many ==
  Few \cup {Plain("none"), Bra("P0", 0), Uniform("UP1"), BraDiv("P1", 2), Bssy("B0", 2),
           Bsync("P0", "B0")}

MCKernels ==
  {Placed(body) : body \in [1..4 -> Few] \cup [1..3 -> Many]} \cup
  { Placed(<<Bssy("B0", 7), Bra("P0", 5), Bssy("B1", 4), Bsync("P1", "B1"), Plain("none"),
             Bra("P1", 0), Bsync("none", "B0"), Exit("none")>>),
    Placed(<<Bssy("B0", 3), Bra("P0", 2), Bsync("none", "B0"), Bssy("B0", 6),
             Bra("P1", 5), Bsync("none", "B0"), Bra("P0", 0), Exit("none")>>),
    Placed(<<Bssy("B0", 3), Bra("P0", 4), Bsync("none", "B0"), Exit("none"), Plain("none"),
             Bsync("none", "B0")>>),
    Placed(<<Bssy("B0", 4), Bra("P0", 3), Bsync("none", "B0"), Bsync("none", "B0"), Exit("none")>>),
    Placed(<<Bssy("B0", 6), Bssy("B0", 5), Bra("P0", 4), Plain("none"), Bsync("none", "B0"),
             Bsync("none", "B0"), Exit("none")>>),
    Placed(<<Bssy("B0", 2), Bra("P0", 4), Bsync("none", "B0"), Bssy("B0", 5),
             Bsync("none", "B0"), Exit("none")>>),
    Placed(<<Bssy("B0", 2), Bsync("none", "B0"), Plain("none"),
             [Bssy("B0", 5) EXCEPT !.guard = "P0"], Bsync("none", "B0"), Exit("none")>>),
    Placed(<<Bra("P0", 4), Bra("P1", 6), Bssy("B0", 5), Bra("P1", 5), Bsync("none", "B0"),
             Plain("never"), Plain("none"), Exit("P0"), Bra("none", 0)>>),
    Placed(<<Bssy("B0", 7), Bssy("B1", 2), Plain("none"), Bsync("P0", "B0"), Bssy("B0", 8),
             Bsync("none", "B1"), Bsync("none", "B0"), Exit("none"), Exit("none")>>),
    Placed(<<Call(3), Unresolved, Exit("none"), Plain("none"), Ret>>),
    Twice(<<Bra("P0", 2), Plain("none"), Exit("none")>>),
    Twice(<<Bssy("B0", 2), Bsync("none", "B0"), Exit("none")>>) }

MCAddress == 0..9
MCBarrier == {"B0", "B1"}
MCRegNo == {4}
MCAssignments == [RegNo -> {{}, {"F32"}, {"F64"}}]
MCNumbers == {0}
=============================================================================
