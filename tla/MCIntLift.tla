----------------------------- MODULE MCIntLift -----------------------------
(***************************************************************************)
(* Kernels for TLC: words of three bits; every rule with registers,        *)
(* literals, zero and flags, in both layouts cuobjdump prints IADD3 in,    *)
(* with destinations that are also sources, and with guards; and pairs in  *)
(* which the second instruction uses what the first one left.              *)
(***************************************************************************)
EXTENDS IntLift

MCRegNo == 0..3
MCPredNo == 0..1
MCNumbers == {0}

R(n) == RegisterOperand("R", n, "none")
FR(n, flag) == RegisterOperand("R", n, flag)
UR(n) == RegisterOperand("UR", n, "none")
P(n) == RegisterOperand("P", n, "none")
NotP(n) == RegisterOperand("P", n, "neg")
RZ == RegisterOperand("RZ", 255, "none")
PT == RegisterOperand("PT", 7, "none")
NotPT == RegisterOperand("PT", 7, "neg")
UP(n) == RegisterOperand("UP", n, "none")
Imm(v) == Immediate(Pattern("int", 4 * v))

Make(op, mods, dst, src) ==
  [op |-> op, mods |-> mods, dst |-> <<dst>>, src |-> src, guard |-> NoGuard]

Dst == {R(1), R(2), R(3)}

Iadd3 ==
  LET a == {R(2), FR(2, "neg")}
      b == {R(3), FR(3, "neg"), Imm(5), Imm(-2), RZ}
      c == {RZ, R(1), FR(1, "neg")}
      make(layout(_, _, _), mods, bs) ==
        {Make("IADD3", mods, d, layout(x, y, z)) : d \in Dst, x \in a, y \in bs, z \in c}
  IN       make(LAMBDA x, y, z : <<x, y, z>>, << >>, b)
      \cup make(LAMBDA x, y, z : <<PT, PT, x, y, z>>, << >>, b)
      \cup make(LAMBDA x, y, z : <<P(0), x, y, z>>, << >>, b)
      \cup make(LAMBDA x, y, z : <<P(0), PT, x, y, z>>, << >>, b)
      \cup make(LAMBDA x, y, z : <<x, y, z, P(0), NotPT>>, <<"X">>, b \cup {FR(3, "cINV")})
      \cup make(LAMBDA x, y, z : <<PT, PT, x, y, z, P(1), NotPT>>, <<"X">>,
                {R(3), FR(3, "cINV"), RZ})
      \cup make(LAMBDA x, y, z : <<P(0), P(0), x, y, z, P(0), P(1)>>, <<"X">>, {R(3), Imm(5)})

Imad ==
  LET c == {R(1), R(2), FR(3, "neg"), RZ, UR(2)}
  IN       {Make("IMAD", <<"U32">>, d, <<R(2), y, z>>) :
              d \in Dst, y \in {R(3), Imm(3), UR(2)}, z \in c}
      \cup {Make("IMAD", <<"X">>, d, <<R(2), R(3), z, p>>) :
              d \in Dst, z \in {R(1), FR(1, "cINV")}, p \in {P(0), NotP(1)}}
      \cup {Make("IMAD", <<"MOV", "U32">>, R(1), <<RZ, RZ, y>>) : y \in {R(2), Imm(3)}}

Lea ==
       {Make("LEA", << >>, d, <<R(2), y, Imm(s)>>) :
          d \in Dst, y \in {R(3), UR(2), Imm(3)}, s \in 0..2}
  \cup {Make("LEA", << >>, d, <<P(0), R(2), R(3), Imm(s)>>) : d \in Dst, s \in 0..2}
  \cup {Make("LEA", <<"X">>, d, <<R(2), R(3), Imm(1), P(1)>>) : d \in Dst}
  \cup {Make("LEA", <<"HI">>, d, <<R(2), R(3), R(1), Imm(s)>>) : d \in Dst, s \in 0..2}
  \cup {Make("LEA", <<"HI", "X">>, d, <<R(2), R(3), R(1), Imm(s), P(0)>>) :
          d \in Dst, s \in 0..2}

Isetp ==
       {Make("ISETP", <<cmp, "U32", mode>>, P(d), <<PT, R(2), y, chain>>) :
          cmp \in CmpModes, mode \in {"AND", "OR", "XOR"}, d \in 0..1,
          y \in {R(3), Imm(3), RZ}, chain \in {PT, NotPT, P(0), NotP(0), P(1)}}
  \cup {Make("ISETP", <<cmp, "AND">>, P(1), <<PT, R(2), FR(3, f), PT>>) :
          cmp \in CmpModes, f \in {"none", "neg"}}

Others ==
       {Make("SEL", << >>, d, <<x, y, p>>) :
          d \in Dst, x \in {R(2), FR(2, "neg"), UR(2), RZ},
          y \in {R(3), FR(3, "neg"), Imm(5)}, p \in {P(0), NotP(1), PT}}
  \cup {Make(op, << >>, d, <<x, y, p>>) :
          op \in {"IMNMX", "VIMNMX"}, d \in Dst, x \in {R(2), FR(2, "neg")},
          y \in {R(3), FR(3, "neg"), Imm(5), RZ}, p \in {PT, NotPT, P(0), NotP(0)}}
  \cup {Make("VIADD", << >>, d, <<R(2), y>>) : d \in Dst, y \in {R(3), FR(3, "neg"), Imm(-2), UR(3)}}
  \cup {Make("IABS", << >>, d, <<y>>) : d \in Dst, y \in {R(2), FR(2, "neg"), Imm(-2), Imm(5)}}
  \cup {Make("BMSK", << >>, d, <<x, y>>) : d \in Dst, x \in {R(2), RZ, UR(2)}, y \in {R(3), Imm(2), RZ}}
  \cup {Make("LOP3", <<"LUT">>, d, <<R(2), y, z, Imm(lut), NotPT>>) :
          d \in Dst, y \in {R(3), Imm(5), RZ}, z \in {R(1), RZ}, lut \in {192, 150, 106}}
  \cup {Make("LOP3", <<"LUT">>, R(1), <<RZ, RZ, RZ, Imm(255), NotPT>>)}
  \cup {Make("SHF", mods, d, <<x, y, z>>) :
          mods \in {<<"L", "U32", "HI">>, <<"R", "U32">>, <<"L", "W", "U32">>}, d \in Dst,
          x \in {R(2), RZ}, y \in {R(3), Imm(2)}, z \in {R(1), RZ}}

Uniform ==
       {Make("UMOV", << >>, UR(1), <<y>>) : y \in {UR(2), Imm(5), RZ}}
  \cup {Make("UIADD3", << >>, UR(d), <<UR(2), y, z>>) :
          d \in 1..2, y \in {UR(3), Imm(5), RZ}, z \in {UR(1), RZ}}
  \cup {Make("UIMAD", << >>, UR(d), <<UR(2), y, z>>) :
          d \in 1..2, y \in {UR(3), Imm(5)}, z \in {UR(1), RZ}}
  \cup {Make("ULEA", << >>, UR(d), <<UR(2), UR(3), Imm(s)>>) : d \in 1..3, s \in 0..2}
  \cup {Make("UISETP", <<cmp, "U32", mode>>, UP(1), <<PT, UR(2), Imm(3), chain>>) :
          cmp \in {"LT", "GE"}, mode \in {"AND", "OR"}, chain \in {PT, UP(0)}}

BitOps ==
       {Make(op, mods, d, <<x>>) :
          op \in {"POPC", "BREV", "FLO"}, mods \in {<<"U32">>, << >>}, d \in Dst,
          x \in {R(2), FR(2, "neg"), UR(2), RZ, Imm(5)}}
  \cup {Make("SGXT", <<"U32">>, d, <<x, y>>) :
          d \in Dst, x \in {R(2), UR(2), RZ}, y \in {R(3), UR(3), RZ, Imm(0), Imm(2), Imm(5)}}
  \cup {Make("VIADDMNMX", << >>, d, <<R(2), y, z>>) : d \in Dst, y \in {R(3), Imm(-2)}, z \in {R(1), Imm(5)}}
  \cup {Make("R2UR", << >>, UR(1), <<x>>) : x \in {R(2), RZ}}
  \cup {Make("UP2UR", << >>, UR(1), <<x>>) : x \in {UP(0), NotP(0), P(1), PT}}
  \cup {Make("UR2UP", << >>, UP(1), <<UR(2), y>>) : y \in {UR(3), RZ, Imm(0), Imm(1), Imm(2)}}
  \cup {Make("ULOP3", <<"LUT">>, UR(d), <<UR(2), y, RZ, Imm(192), NotPT>>) : d \in 1..2, y \in {UR(3), Imm(5)}}
  \cup {Make("USHF", mods, UR(d), <<x, y, UR(1)>>) :
          mods \in {<<"L", "U32">>, <<"R", "U32">>}, d \in 1..3, x \in {UR(2), RZ}, y \in {UR(3), Imm(2)}}
  \cup {Make(op, << >>, UR(d), <<UR(2), y, P(0)>>) : op \in {"USEL", "UBMSK"}, d \in 1..2, y \in {UR(3), Imm(2)}}
  \cup {Make(op, << >>, UR(1), <<UR(2), Imm(2)>>) : op \in {"USGXT", "UFLO"}}
  \cup {Make("P2R", << >>, R(1), <<R(2), Imm(3)>>), Make("R2P", << >>, P(0), <<R(2), Imm(3)>>),
        Make("UCLEA", << >>, UR(1), <<UR(2), UR(3)>>)}

Tables ==
       {Make("PLOP3", <<"LUT">>, d, <<PT>> \o s \o <<Imm(lut), Imm(8)>>) :
          d \in {P(0), P(1), UP(1), PT},
          s \in {<<P(0), P(1), UP(1)>>, <<P(1), UP(0), P(0)>>, <<P(1), P(0), PT>>, <<NotP(0), P(1), P(1)>>},
          lut \in {128, 254, 192, 252, 60, 106, 240, 12, 255, 1}}
  \cup {Make("UPLOP3", <<"LUT">>, UP(d), <<PT>> \o s \o <<Imm(lut), Imm(8)>>) :
          d \in 0..1, s \in {<<UP(0), UP(1), PT>>, <<PT, UP(1), UP(0)>>, <<UP(1), UP(1), UP(0)>>, <<UP(1), PT, PT>>},
          lut \in {128, 254}}

Discarded ==
  {Make("IADD3", << >>, RZ, <<P(1), R(2), R(3), RZ>>),
   Make("ISETP", <<"LT", "AND">>, PT, <<PT, R(2), R(3), PT>>)}

Guarded ==
  {[inst EXCEPT !.guard = g] :
     g \in {P(0), NotP(1)},
     inst \in {Make("VIADD", << >>, R(1), <<R(2), R(3)>>),
               Make("IADD3", << >>, R(1), <<R(2), R(3), RZ>>),
               Make("IADD3", << >>, R(1), <<R(2), R(3), R(1)>>),
               Make("IADD3", << >>, R(1), <<P(0), R(2), R(3), RZ>>),
               Make("ISETP", <<"LT", "AND">>, P(0), <<PT, R(2), R(3), PT>>),
               Make("ISETP", <<"LT", "OR">>, P(0), <<PT, R(2), R(3), P(1)>>),
               Make("BMSK", << >>, R(1), <<R(2), R(3)>>)}}

Singles == Iadd3 \cup Imad \cup Lea \cup Isetp \cup Others \cup Uniform \cup BitOps \cup Tables
             \cup Discarded \cup Guarded

Firsts ==
       {Make("IADD3", << >>, R(d), <<P(0), R(2), y, z>>) :
          d \in {0, 1}, y \in {R(3), Imm(5)}, z \in {RZ, R(3)}}
  \cup {Make("LEA", <<"HI">>, R(1), <<R(2), R(3), R(1), Imm(1)>>),
        Make("ISETP", <<"LT", "OR">>, P(0), <<PT, R(2), R(3), P(1)>>)}

Seconds ==
       {Make("IADD3", <<"X">>, R(1), <<x, y, RZ, P(0), NotPT>>) :
          x \in {R(2), R(3)}, y \in {RZ, R(3)}}
  \cup {Make("SEL", << >>, R(1), <<FR(2, "neg"), FR(3, "neg"), P(0)>>),
        Make("LEA", <<"HI", "X">>, R(1), <<R(2), R(3), R(1), Imm(1), P(0)>>),
        Make("ISETP", <<"GE", "XOR">>, P(1), <<PT, R(1), R(3), NotP(0)>>)}

MCPrograms == {<<inst>> : inst \in Singles} \cup (Firsts \X Seconds)

MCContents ==
  {[r \in {"R", "UR"} \X MCRegNo |->
      CASE r = <<"R", 2>> -> a [] r = <<"R", 3>> -> b
        [] r = <<"UR", 2>> -> b [] r = <<"UR", 3>> -> a
        [] OTHER -> 7 - 2 * r[2]] : a, b \in {0, 3, 4, 7}}

MCTruths ==
  {[p \in {"P", "UP"} \X MCPredNo |->
      CASE p = <<"P", 0>> -> x [] p = <<"P", 1>> -> y [] OTHER -> x # y] : x, y \in BOOLEAN}
=============================================================================
