---------------------------- MODULE MCFloatLift ----------------------------
(***************************************************************************)
(* Instructions for TLC: every rule with plain, flagged, uniform and       *)
(* literal operands, destinations that are also sources, and classes of    *)
(* the destination as seed_constraint and other uses of it leave them.     *)
(***************************************************************************)
EXTENDS FloatLift

R(n) == RegisterOperand("R", n, "none")
FR(n, flag) == RegisterOperand("R", n, flag)
UR(n) == RegisterOperand("UR", n, "none")
RZ == RegisterOperand("RZ", 255, "none")
NegRZ == RegisterOperand("RZ", 255, "neg")
PT == RegisterOperand("PT", 7, "none")
NotPT == RegisterOperand("PT", 7, "neg")
Integer(q) == Immediate(Pattern("int", q))
Hex(q) == Immediate(Pattern("f32", q))

P(n) == RegisterOperand("P", n, "none")
NotP(n) == RegisterOperand("P", n, "neg")

MakeWith(op, mods, dst, src) == [op |-> op, mods |-> mods, dst |-> <<dst>>, src |-> src]
Make(op, d, src) == MakeWith(op, <<>>, R(d), src)

Comparing ==
       {MakeWith("FSETP", <<cmp, mode>>, P(d), <<PT, R(2), b, chain>>) :
          cmp \in {"LT", "NE", "F", "T", "NEU"}, mode \in {"AND", "OR"}, d \in 0..1,
          b \in {R(3), FR(3, "neg"), FloatImmediate(2)}, chain \in {PT, NotPT, P(0)}}
  \cup {MakeWith("FSETP", <<"GE", "XOR">>, P(1), <<P(0), R(2), RZ, PT>>)}
  \cup {MakeWith("DSETP", <<cmp, mode>>, P(d), <<PT, R(2), b, chain>>) :
          cmp \in {"LT", "NAN", "NUM", "GTU"}, mode \in {"AND", "OR"}, d \in 0..1,
          b \in {R(3), RZ, Integer(4)}, chain \in {PT, P(0)}}
  \cup {MakeWith("FSET", mods, R(d), <<R(2), b, chain>>) :
          mods \in {<<"LT", "AND">>, <<"GE", "OR">>, <<"F", "AND">>, <<"T", "AND">>}, d \in 1..2,
          b \in {R(3), FloatImmediate(2)}, chain \in {PT, P(0)}}
  \cup {Make("FSEL", d, <<a, b, p>>) :
          d \in 1..2, a \in {R(2), FR(2, "neg"), RZ}, b \in {R(3), UR(1), FloatImmediate(6)},
          p \in {P(0), NotP(1), PT}}
  \cup {Make(op, d, <<b>>) : op \in {"FABS", "FNEG"}, d \in 1..2, b \in {R(2), FR(2, "neg"), RZ, Integer(-8)}}

Second ==
  {R(1), R(3), UR(1), RZ, Integer(4), Integer(-8), Integer(1024), Hex(6),
   FloatImmediate(2), FloatImmediate(-6)}
    \cup {FR(3, f) : f \in {"neg", "cABS"}}

MCInstructions ==
       {Make(op, d, <<R(2), b>>) :
          op \in {"FADD", "FMUL", "DADD", "DMUL"}, d \in {1, 2}, b \in Second}
  \cup {Make(op, 1, <<a, b, c>>) :
          op \in {"FFMA", "DFMA"}, a \in {R(1), FR(2, "neg")}, b \in Second,
          c \in {R(1), R(2), FR(3, "neg"), FR(3, "cABS"), NegRZ, FloatImmediate(6)}}
  \cup {Make("FMNMX", 1, <<R(2), b, p>>) : b \in Second, p \in {PT, NotPT, P(0), NotP(1)}}
  \cup {Make("MOV", 1, <<b>>) : b \in {R(2), RZ, Integer(4), Hex(4), Hex(-2), FloatImmediate(6)}}
  \cup Comparing

MCRegNo == 0..3
MCPredNo == 0..1
MCNumbers == {-6, -4, 0, 2, 4, 6}

MCAssignments ==
  {[n \in RegNo |-> IF n = 1 THEN c ELSE {}] :
     c \in {{}, {"F32"}, {"F32", "Int"}, {"F32", "F64"}, {"F64"}, {"Int"}}}

MCPsiSets == {{}, {1}}

MCContents ==
  { [c \in {"R", "UR"} \X RegNo |->
       CASE c[2] = 0 -> 4 [] c[2] = 1 -> IF c[1] = "R" THEN 2 ELSE 6
         [] c[2] = 2 -> -4 [] c[2] = 3 -> x] : x \in {6, -6, NaN} }

MCTruths == {[p \in MCPredNo |-> (p = 0) = b] : b \in BOOLEAN}
=============================================================================
