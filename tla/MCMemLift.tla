----------------------------- MODULE MCMemLift -----------------------------
(***************************************************************************)
(* Kernels for TLC: words of four bits, so that a byte is one bit and an   *)
(* access of one, two or four bytes reads different values; every rule     *)
(* with every kind of address, value and guard, alone and after the makers *)
(* of addresses, with and without an instruction that names a register     *)
(* above all the others.                                                   *)
(***************************************************************************)
EXTENDS MemLift

LOCAL INSTANCE SequencesExt

MCRegNo == 0..7
MCUniformNo == {1}
MCNumbers == {0}
MCPairs == {0, 2, 4}

R(n) == RegisterOperand("R", n, "none")
UR == RegisterOperand("UR", 1, "none")
PT == RegisterOperand("PT", 7, "none")
Imm(v) == Immediate(Pattern("int", 4 * v))

M(n, offset) == MemoryOperand("R", n, FALSE, offset)
M64(n, offset) == MemoryOperand("R", n, TRUE, offset)
MU(offset) == MemoryOperand("UR", 1, FALSE, offset)
MZ(offset) == MemoryOperand("RZ", 255, FALSE, offset)

Make(op, mods, dst, src) ==
  [op |-> op, mods |-> mods, dst |-> <<dst>>, src |-> src, guard |-> NoGuard]

Wide == {M64(2, 0), M64(2, 3), M64(4, -2)}
Flat == {M(4, 0), M(2, 3), M64(4, 1), MU(0), MU(2), MZ(4)}
Widths == {<<"E">>, <<"E", "U8">>, <<"S8">>, <<"U16">>, <<"S16">>, <<"E", "64">>}
Values == {R(0), R(4), RZ}

Loads ==
       {Make("LDG", m, d, <<a>>) : m \in Widths, d \in {R(0), R(2), R(6), RZ}, a \in Wide \cup {M(2, 0)}}
  \cup {Make(op, m, d, <<a>>) : op \in {"LDS", "LDL"}, m \in Widths, d \in {R(0), R(4)}, a \in Flat}
  \cup {Make("LD", m, d, <<a>>) : m \in {<<"E">>, <<"E", "64">>}, d \in {R(0), RZ}, a \in Wide \cup Flat}

Stores ==
       {Make("STG", m, a, <<v>>) : m \in Widths, a \in Wide, v \in Values}
  \cup {Make("ST", <<"E">>, a, <<v>>) : a \in Wide \cup Flat, v \in Values}
  \cup {Make(op, m, a, <<v>>) : op \in {"STS", "STL"}, m \in Widths, a \in Flat, v \in Values \cup {UR}}

Atomics ==
       {Make("RED", <<"E", op>> \o type, a, <<v>>) :
          op \in {"ADD", "MIN", "XOR", "DEC"}, type \in {<< >>, <<"S32">>, <<"64">>},
          a \in {M64(2, 0), M64(4, 1), M(4, 0), MU(0)}, v \in Values}
  \cup {Make("ATOMG", <<"E", op>> \o type, PT, <<d, a, v>>) :
          op \in {"ADD", "MAX", "EXCH", "INC", "AND"}, type \in {<< >>, <<"S32">>},
          d \in {R(0), R(5), RZ}, a \in {M64(2, 0), M64(4, 1)}, v \in {R(0), R(6), RZ}}
  \cup {Make("ATOMG", <<"E", "CAS">>, PT, <<d, a, v, R(1)>>) :
          d \in {R(0), RZ}, a \in {M64(2, 0)}, v \in Values}
  \cup {Make("ATOMS", <<op>>, R(0), <<M(2, 0), R(4)>>) : op \in {"ADD", "OR"}}
  \cup {Make("ATOMS", <<"CAS">>, R(0), <<M(2, 0), R(4), R(5)>>)}

Copies == {Make("LDGSTS", <<"E">>, d, <<a>>) : d \in {M(4, 0), M(0, 3), MU(0)}, a \in Wide \cup {M(2, 1)}}

Makers ==
       {Make("LDC", m, R(d), <<ConstantOperand>>) : m \in {<< >>, <<"64">>}, d \in {2, 4}}
  \cup {Make("MOV", << >>, R(d), <<v>>) : d \in {2, 3, 6}, v \in {R(0), RZ, ConstantOperand}}
  \cup {Make("IMAD", m, R(2), <<R(0), y, z>>) :
          m \in {<<"WIDE">>, <<"WIDE", "U32">>}, y \in {Imm(2), R(1)}, z \in {R(2), R(4), RZ, UR}}

Singles == Loads \cup Stores \cup Atomics \cup Copies
Guards == {[negated |-> FALSE, n |-> 0], [negated |-> TRUE, n |-> 0]}
Guarded ==
  {[inst EXCEPT !.guard = g] :
     g \in Guards,
     inst \in {Make("LDG", <<"E">>, R(0), <<M64(2, 0)>>), Make("STS", << >>, M(4, 0), <<R(0)>>),
               Make("RED", <<"E", "ADD">>, M64(2, 0), <<R(0)>>),
               Make("RED", <<"E", "ADD">>, M(4, 0), <<R(0)>>),
               Make("LDGSTS", <<"E">>, M(4, 0), <<M64(2, 0)>>),
               Make("LDC", <<"64">>, R(2), <<ConstantOperand>>)}}

Users == {Make("LDG", <<"E">>, R(0), <<M64(2, 3)>>), Make("LDG", <<"E">>, R(2), <<M64(4, 0)>>),
          Make("STG", <<"E">>, M64(2, 0), <<R(0)>>), Make("RED", <<"E", "ADD">>, M64(2, 1), <<R(0)>>),
          Make("ATOMG", <<"E", "ADD">>, PT, <<R(3), M64(2, 0), R(0)>>),
          Make("LDS", <<"S8">>, R(4), <<M(2, 0)>>), Make("LDGSTS", <<"E">>, M(4, 0), <<M64(2, 0)>>)}

Top == <<Make("MOV", << >>, R(6), <<RZ>>), Make("STS", << >>, M(0, 0), <<UR>>)>>

Alone == {<<a>> : a \in Singles \cup Guarded}
Together == (Makers \X (Users \cup Guarded)) \cup (Makers \X Makers \X Users) \cup (Users \X Users)

MCPrograms == Alone \cup {body \o Top : body \in Alone \cup Together}

MCContents ==
  {[r \in ({"R"} \X MCRegNo) \cup ({"UR"} \X MCUniformNo) |->
      CASE r = <<"R", 0>> -> a [] r = <<"R", 2>> -> b [] r = <<"R", 3>> -> 1
        [] r[1] = "UR" -> 7 [] OTHER -> (3 * r[2] + a) % 16] : a \in {3, 12}, b \in {6, 15}}
=============================================================================
