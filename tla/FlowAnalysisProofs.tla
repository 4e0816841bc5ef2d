------------------------- MODULE FlowAnalysisProofs -------------------------
(***************************************************************************)
(* Proofs about FlowAnalysis: every operand of every listing is read as it *)
(* is written (OperandsAreRead) and the dependencies recorded for an       *)
(* instruction are the last writes of what it reads                        *)
(* (DependenciesAreLastWrites).                                            *)
(*                                                                         *)
(* ReadInv says what the walk keeps of the listing: `of' lists, in order,  *)
(* the lines read so far, and each instruction still has the operands its  *)
(* line was parsed to.  FlowInv says what analyze_data_flow has in hand:   *)
(* last_writer maps every register a line above the current one writes,    *)
(* and no other, to the address of the last line that writes it.  What     *)
(* Filtered computes is proved by induction on how far it has read; what   *)
(* an operand becomes, form by form.                                       *)
(***************************************************************************)
EXTENDS FlowAnalysis, SequenceTheorems, WellFoundedInduction, TLAPS

-----------------------------------------------------------------------------
(* Induction over the naturals: every set with 0 and closed under successor has them all. *)
LEMMA Induction ==
  ASSUME NEW S, 0 \in S, \A n \in Nat : n \in S => n + 1 \in S
  PROVE  Nat \subseteq S
  <1> DEFINE T == Nat \ S
             R == OpToRel(<, Nat)
  <1> SUFFICES ASSUME T # {}
               PROVE  FALSE
    OBVIOUS
  <1>1. PICK n \in T : \A m \in T : ~(<<m, n>> \in R)
    <2>1. IsWellFoundedOn(R, Nat)
      BY NatLessThanWellFounded
    <2> HIDE DEF R
    <2> QED BY <2>1, WFMin
  <1>2. R = {ss \in Nat \X Nat : ss[1] < ss[2]}
    BY Zenon DEF OpToRel
  <1> HIDE DEF R
  <1>3. n \in Nat /\ n # 0 /\ n \notin S
    BY <1>1
  <1>4. n - 1 \in Nat /\ n - 1 < n /\ (n - 1) + 1 = n /\ n - 1 \notin S
    BY <1>3
  <1>5. <<n - 1, n>> \in R
    BY <1>2, <1>3, <1>4
  <1> QED BY <1>1, <1>4, <1>5

LEMMA LeastNatural ==
  ASSUME NEW T, T \subseteq Nat, T # {}
  PROVE  \E n \in T : \A m \in T : n <= m
  <1> DEFINE S == {n \in Nat : \A m \in 0..n : m \notin T}
  <1>1. SUFFICES ASSUME \A n \in T : \E m \in T : m < n
                 PROVE  FALSE
    BY SMT
  <1>2. 0 \in S
    <2>1. 0 \notin T
      BY <1>1
    <2> QED BY <2>1
  <1>3. ASSUME NEW n \in Nat, n \in S
        PROVE  n + 1 \in S
    BY <1>1, <1>3
  <1>4. PICK n : n \in T
    OBVIOUS
  <1> HIDE DEF S
  <1>5. Nat \subseteq S
    BY <1>2, <1>3, Induction
  <1>6. n \in Nat /\ n \in 0..n
    BY <1>4
  <1> QED BY <1>4, <1>5, <1>6 DEF S

LEMMA SeqOfSubset ==
  ASSUME NEW S, NEW T, S \subseteq T, NEW t \in Seq(S)
  PROVE  t \in Seq(T)
  OBVIOUS

(* What Selection is, place by place. *)
LEMMA SelectionSteps ==
  ASSUME NEW s, NEW places, Len(s) \in Nat
  PROVE  /\ Selection(s, places)[0] = <<>>
         /\ \A n \in 1..Len(s) :
              Selection(s, places)[n] =
                IF n \in places THEN Append(Selection(s, places)[n - 1], s[n])
                ELSE Selection(s, places)[n - 1]
  <1> DEFINE N == Len(s)
             Step(t, n) == IF n \in places THEN Append(t, s[n]) ELSE t
             IsUpto(g, k) == g = [n \in 0..k |-> IF n = 0 THEN <<>> ELSE Step(g[n - 1], n)]
             S == {k \in Nat : \E g : IsUpto(g, k)}
  <1>1. 0 \in S
    <2>1. IsUpto([n \in 0..0 |-> <<>>], 0)
      OBVIOUS
    <2> QED BY <2>1
  <1>2. ASSUME NEW k \in Nat, k \in S
        PROVE  k + 1 \in S
    <2>1. PICK g : IsUpto(g, k)
      BY <1>2
    <2> HIDE DEF Step
    <2> DEFINE h == [n \in 0..(k + 1) |-> IF n = k + 1 THEN Step(g[k], k + 1) ELSE g[n]]
    <2>2. ASSUME NEW n \in 0..(k + 1)
          PROVE  h[n] = IF n = 0 THEN <<>> ELSE Step(h[n - 1], n)
      <3>1. CASE n = k + 1
        <4>1. h[n] = Step(g[k], k + 1) /\ n # 0 /\ n - 1 = k
          BY <3>1
        <4>2. h[k] = g[k]
          OBVIOUS
        <4> QED BY <3>1, <4>1, <4>2
      <3>2. CASE n \in 0..k
        <4>1. h[n] = g[n] /\ (n # 0 => h[n - 1] = g[n - 1])
          BY <3>2
        <4>2. g[n] = IF n = 0 THEN <<>> ELSE Step(g[n - 1], n)
          BY <2>1, <3>2
        <4> QED BY <4>1, <4>2
      <3> QED BY <3>1, <3>2
    <2>3. h = [n \in 0..(k + 1) |-> IF n = 0 THEN <<>> ELSE Step(h[n - 1], n)]
      BY <2>2
    <2> HIDE DEF h
    <2> QED BY <2>3
  <1>3. \E g : IsUpto(g, N)
    <2> HIDE DEF S
    <2>1. N \in S
      BY <1>1, <1>2, Induction
    <2> QED BY <2>1 DEF S
  <1> DEFINE u == Selection(s, places)
  <1>4. IsUpto(u, N)
    BY <1>3 DEF Selection
  <1> HIDE DEF u
  <1>5. \A n \in 0..N : u[n] = IF n = 0 THEN <<>> ELSE Step(u[n - 1], n)
    BY <1>4
  <1>6. u[0] = <<>> /\ \A n \in 1..N : u[n] = Step(u[n - 1], n)
    BY <1>5
  <1> QED BY <1>6 DEF u

(***************************************************************************)
(* A selection up to n has the members at the places selected up to n, at  *)
(* most one for each, and is all of them when all places are selected.     *)
(***************************************************************************)
IsSelection(t, s, places, n) ==
  /\ t \in Seq({s[m] : m \in 1..n})
  /\ {t[k] : k \in 1..Len(t)} = {s[m] : m \in places \cap 1..n}
  /\ Len(t) <= n
  /\ 1..n \subseteq places => Len(t) = n /\ \A m \in 1..n : t[m] = s[m]
  /\ ~(1..n \subseteq places) => Len(t) < n

LEMMA SelectionOneMore ==
  ASSUME NEW n \in Nat, NEW s, NEW places, NEW t, IsSelection(t, s, places, n)
  PROVE  IsSelection(IF n + 1 \in places THEN Append(t, s[n + 1]) ELSE t, s, places, n + 1)
  <1> DEFINE Upto(m) == {s[k] : k \in 1..m}
             Chosen(m) == {s[k] : k \in places \cap 1..m}
             Values(u) == {u[k] : k \in 1..Len(u)}
  <1>1. 1..(n + 1) = (1..n) \cup {n + 1} /\ n + 1 \notin 1..n
    OBVIOUS
  <1>2. Upto(n) \subseteq Upto(n + 1) /\ s[n + 1] \in Upto(n + 1)
    BY <1>1
  <1>3. t \in Seq(Upto(n)) /\ Values(t) = Chosen(n) /\ Len(t) <= n
    BY DEF IsSelection
  <1>4. /\ 1..n \subseteq places => Len(t) = n /\ \A m \in 1..n : t[m] = s[m]
        /\ ~(1..n \subseteq places) => Len(t) < n
    BY DEF IsSelection
  <1>5. t \in Seq(Upto(n + 1)) /\ Len(t) \in Nat
    <2> HIDE DEF Upto
    <2>1. \A k \in 1..Len(t) : t[k] \in Upto(n)
      BY <1>3
    <2> QED BY <1>2, <1>3, <2>1
  <1>6. CASE n + 1 \in places
    <2> DEFINE u == Append(t, s[n + 1])
    <2>1. u \in Seq(Upto(n + 1)) /\ Len(u) = Len(t) + 1 /\ u[Len(t) + 1] = s[n + 1]
          /\ \A k \in 1..Len(t) : u[k] = t[k]
      <3> HIDE DEF Upto
      <3> QED BY <1>2, <1>5, AppendProperties
    <2> HIDE DEF u
    <2>2. Values(u) = Values(t) \cup {s[n + 1]}
      <3>1. 1..Len(u) = (1..Len(t)) \cup {Len(t) + 1}
        BY <1>5, <2>1
      <3> QED BY <2>1, <3>1
    <2>3. Chosen(n + 1) = Chosen(n) \cup {s[n + 1]}
      BY <1>1, <1>6
    <2>4. 1..(n + 1) \subseteq places <=> 1..n \subseteq places
      BY <1>1, <1>6
    <2>5. 1..n \subseteq places => Len(u) = n + 1 /\ \A m \in 1..(n + 1) : u[m] = s[m]
      BY <1>1, <1>4, <2>1
    <2>6. Len(u) <= n + 1 /\ (~(1..n \subseteq places) => Len(u) < n + 1)
      BY <1>3, <1>4, <1>5, <2>1
    <2>7. IsSelection(u, s, places, n + 1)
      BY <1>3, <2>1, <2>2, <2>3, <2>4, <2>5, <2>6 DEF IsSelection
    <2> QED BY <1>6, <2>7 DEF u
  <1>7. CASE n + 1 \notin places
    <2>1. Chosen(n + 1) = Chosen(n)
      BY <1>1, <1>7
    <2>2. ~(1..(n + 1) \subseteq places)
      BY <1>1, <1>7
    <2>3. Len(t) < n + 1
      BY <1>3, <1>5
    <2>4. Values(t) = Chosen(n + 1)
      BY <1>3, <2>1, Zenon
    <2>5. Len(t) <= n + 1
      BY <1>5, <2>3
    <2>6. IsSelection(t, s, places, n + 1)
      BY <1>5, <2>2, <2>3, <2>4, <2>5, Zenon DEF IsSelection
    <2> QED BY <1>7, <2>6
  <1> QED BY <1>6, <1>7

LEMMA SelectionIs ==
  ASSUME NEW s, NEW places, Len(s) \in Nat
  PROVE  IsSelection(Filtered(s, places), s, places, Len(s))
  <1> DEFINE u == Selection(s, places)
             S == {n \in Nat : n <= Len(s) => IsSelection(u[n], s, places, n)}
  <1> HIDE DEF u
  <1>1. /\ u[0] = <<>>
        /\ \A n \in 1..Len(s) : u[n] = IF n \in places THEN Append(u[n - 1], s[n]) ELSE u[n - 1]
    BY SelectionSteps DEF u
  <1>2. 0 \in S
    <2>1. 1..0 = {}
      OBVIOUS
    <2>2. <<>> \in Seq({s[m] : m \in 1..0}) /\ Len(<<>>) = 0
      OBVIOUS
    <2>3. IsSelection(<<>>, s, places, 0)
      BY <2>1, <2>2 DEF IsSelection
    <2> QED BY <1>1, <2>3
  <1>3. ASSUME NEW n \in Nat, n \in S
        PROVE  n + 1 \in S
    <2> SUFFICES ASSUME n + 1 <= Len(s)
                 PROVE  IsSelection(u[n + 1], s, places, n + 1)
      OBVIOUS
    <2>1. n + 1 \in 1..Len(s) /\ (n + 1) - 1 = n /\ n <= Len(s)
      OBVIOUS
    <2>2. IsSelection(u[n], s, places, n)
      BY <1>3, <2>1
    <2>3. u[n + 1] = IF n + 1 \in places THEN Append(u[n], s[n + 1]) ELSE u[n]
      BY <1>1, <2>1
    <2> QED BY <2>2, <2>3, SelectionOneMore
  <1> HIDE DEF S
  <1>4. Len(s) \in S
    BY <1>2, <1>3, Induction
  <1> QED BY <1>4 DEF S, u, Filtered

-----------------------------------------------------------------------------
(* The operands of a line. *)

Operands(line) == split_top_level_operands(strip_cuobjdump_trailing_metadata(line.rest))

UpToFirst(rest, ends) ==
  IF ends = {} THEN rest ELSE SubSeq(rest, 1, (CHOOSE n \in ends : \A m \in ends : n <= m) - 1)

LEMMA OperandsOfLine ==
  ASSUME NEW line \in Line
  PROVE  Operands(line) = Operands_of(line) /\ Operands_of(line) \in Seq(Written)
  <1> DEFINE rest == line.rest
             ends == {n \in DOMAIN rest : rest[n].what # "operand"}
             first == CHOOSE n \in ends : \A m \in ends : n <= m
             last == IF ends = {} THEN Len(rest) ELSE first - 1
             kept == SubSeq(rest, 1, last)
  <1>1. rest \in Seq(Piece) /\ DOMAIN rest = 1..Len(rest) /\ Len(rest) \in Nat
    BY DEF Line
  <1>2. \A n \in DOMAIN rest : rest[n] \in Piece
    BY <1>1
  <1>3. ends = {n \in DOMAIN rest : rest[n].what \in Ends}
    BY <1>2 DEF Piece, Ends
  <1>4. last \in 0..Len(rest) /\ \A n \in 1..last : rest[n].what = "operand"
    <2>1. CASE ends = {}
      BY <1>1, <2>1
    <2>2. CASE ends # {}
      <3>1. ends \subseteq Nat
        BY <1>1
      <3>2. PICK e \in ends : \A m \in ends : e <= m
        <4> HIDE DEF ends
        <4> QED BY <2>2, <3>1, LeastNatural
      <3>3. first \in ends /\ \A m \in ends : first <= m
        BY <3>2
      <3> HIDE DEF first
      <3>4. last = first - 1 /\ first \in 1..Len(rest)
        BY <1>1, <2>2, <3>3
      <3> QED BY <1>1, <3>3, <3>4
    <2> QED BY <2>1, <2>2
  <1>5. strip_cuobjdump_trailing_metadata(rest) = kept
    <2>1. strip_cuobjdump_trailing_metadata(rest) = UpToFirst(rest, {n \in DOMAIN rest : rest[n].what \in Ends})
      BY Zenon DEF strip_cuobjdump_trailing_metadata, UpToFirst
    <2>2. kept = UpToFirst(rest, ends)
      <3> HIDE DEF ends
      <3>1. CASE ends = {}
        <4>1. SubSeq(rest, 1, Len(rest)) = rest
          BY <1>1
        <4> QED BY <3>1, <4>1 DEF UpToFirst
      <3>2. CASE ends # {}
        <4>1. last = first - 1
          BY <3>2
        <4>2. UpToFirst(rest, ends) = SubSeq(rest, 1, first - 1)
          BY <3>2 DEF UpToFirst
        <4> HIDE DEF first, last
        <4> QED BY <4>1, <4>2
      <3> QED BY <3>1, <3>2
    <2> QED BY <1>3, <2>1, <2>2, Zenon
  <1>6. Operands_of(line) = [n \in 1..last |-> rest[n].operand]
    BY DEF Operands_of
  <1> HIDE DEF last
  <1>7. Len(kept) = last /\ \A n \in 1..last : kept[n] = rest[n]
    BY <1>1, <1>4
  <1> HIDE DEF kept
  <1> DEFINE places == {n \in DOMAIN kept : kept[n].what = "operand"}
             read == Filtered(kept, places)
  <1>8. DOMAIN kept = 1..last
    <2>1. kept \in Seq(Piece)
      BY <1>1, <1>4 DEF kept
    <2> QED BY <1>7, <2>1
  <1>9. 1..last \subseteq places /\ Len(kept) \in Nat
    BY <1>4, <1>7, <1>8
  <1>10. DOMAIN read = 1..last /\ \A n \in 1..last : read[n] = rest[n]
    <2> HIDE DEF places
    <2>1. IsSelection(read, kept, places, last)
      BY <1>7, <1>9, SelectionIs
    <2> HIDE DEF read
    <2> QED BY <1>7, <1>9, <2>1 DEF IsSelection
  <1>11. Operands(line) = [n \in DOMAIN read |-> read[n].operand]
    BY <1>5, Zenon DEF Operands, split_top_level_operands
  <1> HIDE DEF read
  <1>12. Operands(line) = Operands_of(line)
    BY <1>6, <1>10, <1>11
  <1>13. \A n \in 1..last : rest[n].operand \in Written
    BY <1>1, <1>2, <1>4 DEF Piece
  <1> QED BY <1>4, <1>6, <1>12, <1>13

ReadOperand == {parse_operand(w) : w \in Written}

LEMMA OperandsParsed ==
  ASSUME NEW operands \in Seq(Written)
  PROVE  /\ Parsed(operands) \in Seq(ReadOperand)
         /\ IF \E n \in DOMAIN operands : parse_operand(operands[n]) = Dropped
            THEN Len(Parsed(operands)) < Len(operands)
            ELSE /\ Len(Parsed(operands)) = Len(operands)
                 /\ \A n \in DOMAIN operands : Parsed(operands)[n] = parse_operand(operands[n])
  <1> DEFINE read == [n \in DOMAIN operands |-> parse_operand(operands[n])]
             places == {n \in DOMAIN read : read[n] # Dropped}
             N == Len(operands)
  <1>1. DOMAIN operands = 1..N /\ N \in Nat
    OBVIOUS
  <1>2. Len(read) = N /\ DOMAIN read = 1..N
    BY <1>1
  <1>3. \A n \in 1..N : read[n] = parse_operand(operands[n])
    BY <1>1
  <1>4. Parsed(operands) = Filtered(read, places)
    BY Zenon DEF Parsed
  <1> HIDE DEF read
  <1>5. IsSelection(Parsed(operands), read, places, N)
    BY <1>1, <1>2, <1>4, SelectionIs
  <1>6. {read[m] : m \in 1..N} \subseteq ReadOperand
    <2>1. \A n \in 1..N : operands[n] \in Written
      BY <1>1
    <2> QED BY <1>3, <2>1 DEF ReadOperand
  <1>7. 1..N \subseteq places <=> ~\E n \in DOMAIN operands : parse_operand(operands[n]) = Dropped
    BY <1>1, <1>2, <1>3
  <1>8. Parsed(operands) \in Seq({read[m] : m \in 1..N})
    BY <1>5 DEF IsSelection
  <1>9. Parsed(operands) \in Seq(ReadOperand)
    BY <1>6, <1>8, SeqOfSubset
  <1> QED BY <1>1, <1>3, <1>5, <1>7, <1>9 DEF IsSelection

(* The instruction of a line: the operands that can be read, in their order. *)
AllKept(line) == \A n \in DOMAIN Operands_of(line) : parse_operand(Operands_of(line)[n]) # Dropped

LEMMA LineParsed ==
  ASSUME NEW line \in Line
  PROVE  LET inst == parse_instruction_line(line)
             O == Operands_of(line)
         IN  /\ inst.address = line.address
             /\ inst.dest_operands \in Seq(ReadOperand) /\ inst.src_operands \in Seq(ReadOperand)
             /\ ~AllKept(line) => Len(inst.dest_operands) + Len(inst.src_operands) < Len(O)
             /\ AllKept(line) /\ O # <<>> =>
                  /\ inst.dest_operands = <<parse_operand(O[1])>>
                  /\ Len(inst.src_operands) = Len(O) - 1
                  /\ \A n \in 1..(Len(O) - 1) : inst.src_operands[n] = parse_operand(O[n + 1])
             /\ O = <<>> => inst.dest_operands = <<>> /\ inst.src_operands = <<>>
  <1> DEFINE inst == parse_instruction_line(line)
             O == Operands_of(line)
             one == SubSeq(O, 1, IF O = <<>> THEN 0 ELSE 1)
             others == SubSeq(O, 2, Len(O))
  <1>1. /\ inst.address = line.address
        /\ inst.dest_operands = Parsed(one) /\ inst.src_operands = Parsed(others)
    <2>1. O = Operands(line)
      BY OperandsOfLine
    <2> QED BY <2>1 DEF parse_instruction_line, Operands
  <1> HIDE DEF inst
  <1>2. O \in Seq(Written)
    BY OperandsOfLine
  <1>3. AllKept(line) <=> \A n \in 1..Len(O) : parse_operand(O[n]) # Dropped
    BY <1>2 DEF AllKept
  <1> HIDE DEF O
  <1>4. CASE O = <<>>
    <2>1. one = <<>> /\ others = <<>>
      BY <1>4
    <2>2. Parsed(<<>>) = <<>> /\ <<>> \in Seq(ReadOperand)
      <3>1. <<>> \in Seq(Written) /\ <<>> \in Seq(ReadOperand) /\ DOMAIN <<>> = {} /\ Len(<<>>) = 0
        OBVIOUS
      <3>2. Parsed(<<>>) \in Seq(ReadOperand) /\ Len(Parsed(<<>>)) = 0
        BY <3>1, OperandsParsed
      <3> QED BY <3>1, <3>2
    <2>3. inst.dest_operands = <<>> /\ inst.src_operands = <<>>
      BY <1>1, <2>1, <2>2
    <2>4. AllKept(line)
      BY <1>3, <1>4
    <2> QED BY <1>1, <1>4, <2>2, <2>3, <2>4 DEF inst, O
  <1>5. CASE O # <<>>
    <2>1. Len(O) \in Nat \ {0} /\ \A n \in 1..Len(O) : O[n] \in Written
      BY <1>2, <1>5
    <2>2. one \in Seq(Written) /\ Len(one) = 1 /\ DOMAIN one = 1..1 /\ one[1] = O[1]
      BY <1>2, <1>5, <2>1
    <2>3. /\ others \in Seq(Written) /\ Len(others) = Len(O) - 1 /\ DOMAIN others = 1..(Len(O) - 1)
          /\ \A n \in 1..(Len(O) - 1) : others[n] = O[n + 1]
      <3>1. 2..Len(O) \subseteq 1..Len(O)
        BY <2>1
      <3>2. /\ others \in Seq(Written)
            /\ Len(others) = IF 2 <= Len(O) THEN Len(O) - 2 + 1 ELSE 0
            /\ \A n \in 1..(Len(O) - 2 + 1) : others[n] = O[2 + n - 1]
        BY <1>2, <3>1, <2>1, SubSeqProperties
      <3> HIDE DEF others
      <3>3. Len(others) = Len(O) - 1
        <4>1. CASE 2 <= Len(O)
          <5>1. Len(others) = Len(O) - 2 + 1
            BY <3>2, <4>1, Zenon
          <5> QED BY <2>1, <5>1
        <4>2. CASE ~(2 <= Len(O))
          <5>1. Len(others) = 0
            BY <3>2, <4>2, Zenon
          <5>2. Len(O) = 1
            <6> DEFINE k == Len(O)
            <6>1. k \in Nat /\ k # 0
              BY <2>1
            <6>2. ~(2 <= k)
              BY <4>2
            <6> HIDE DEF k
            <6>3. k = 1
              BY <6>1, <6>2
            <6> QED BY <6>3 DEF k
          <5> QED BY <5>1, <5>2
        <4> QED BY <4>1, <4>2
      <3>4. ASSUME NEW n \in 1..(Len(O) - 1)
            PROVE  others[n] = O[n + 1]
        <4>1. n \in 1..(Len(O) - 2 + 1) /\ 2 + n - 1 = n + 1
          BY <2>1
        <4>2. others[n] = O[2 + n - 1]
          BY <3>2, <4>1
        <4> QED BY <4>1, <4>2
      <3> QED BY <3>2, <3>3, <3>4
    <2> HIDE DEF one, others
    <2>4. /\ Parsed(one) \in Seq(ReadOperand)
          /\ IF parse_operand(O[1]) = Dropped THEN Len(Parsed(one)) < 1
             ELSE Len(Parsed(one)) = 1 /\ Parsed(one)[1] = parse_operand(O[1])
      BY <2>2, OperandsParsed
    <2>5. /\ Parsed(others) \in Seq(ReadOperand)
          /\ IF \E n \in 1..(Len(O) - 1) : parse_operand(O[n + 1]) = Dropped
             THEN Len(Parsed(others)) < Len(O) - 1
             ELSE /\ Len(Parsed(others)) = Len(O) - 1
                  /\ \A n \in 1..(Len(O) - 1) : Parsed(others)[n] = parse_operand(O[n + 1])
      BY <2>3, OperandsParsed
    <2>6. AllKept(line) <=> /\ parse_operand(O[1]) # Dropped
                            /\ ~\E n \in 1..(Len(O) - 1) : parse_operand(O[n + 1]) = Dropped
      <3>1. \A n \in 1..Len(O) : n = 1 \/ (n - 1 \in 1..(Len(O) - 1) /\ (n - 1) + 1 = n)
        BY <2>1
      <3>2. 1 \in 1..Len(O) /\ \A n \in 1..(Len(O) - 1) : n + 1 \in 1..Len(O)
        BY <2>1
      <3> QED BY <1>3, <3>1, <3>2
    <2>7. ASSUME ~AllKept(line)
          PROVE  Len(Parsed(one)) + Len(Parsed(others)) < Len(O)
      <3>1. Len(Parsed(one)) \in Nat /\ Len(Parsed(others)) \in Nat
        BY <2>4, <2>5
      <3>2. Len(Parsed(one)) <= 1
        <4> DEFINE k == Len(Parsed(one))
        <4>1. k < 1 \/ k = 1
          BY <2>4, Zenon
        <4>2. k \in Nat
          BY <3>1
        <4> HIDE DEF k
        <4>3. k <= 1
          BY <4>1, <4>2
        <4> QED BY <4>3 DEF k
      <3>3. Len(Parsed(others)) <= Len(O) - 1
        <4>1. CASE \E n \in 1..(Len(O) - 1) : parse_operand(O[n + 1]) = Dropped
          BY <2>1, <2>5, <3>1, <4>1
        <4>2. CASE ~\E n \in 1..(Len(O) - 1) : parse_operand(O[n + 1]) = Dropped
          BY <2>1, <2>5, <3>1, <4>2
        <4> QED BY <4>1, <4>2
      <3>4. CASE parse_operand(O[1]) = Dropped
        BY <2>1, <2>4, <3>1, <3>3, <3>4
      <3>5. CASE \E n \in 1..(Len(O) - 1) : parse_operand(O[n + 1]) = Dropped
        BY <2>1, <2>5, <3>1, <3>2, <3>5
      <3> QED BY <2>6, <2>7, <3>4, <3>5
    <2>8. ASSUME AllKept(line)
          PROVE  /\ Parsed(one) = <<parse_operand(O[1])>>
                 /\ Len(Parsed(others)) = Len(O) - 1
                 /\ \A n \in 1..(Len(O) - 1) : Parsed(others)[n] = parse_operand(O[n + 1])
      <3>1. Len(Parsed(one)) = 1 /\ Parsed(one)[1] = parse_operand(O[1])
        BY <2>4, <2>6, <2>8
      <3>2. Parsed(one) = <<parse_operand(O[1])>>
        BY <2>4, <3>1
      <3> QED BY <2>5, <2>6, <2>8, <3>2
    <2> QED BY <1>1, <1>5, <2>4, <2>5, <2>7, <2>8 DEF inst, O
  <1> QED BY <1>4, <1>5

LEMMA RegisterFields ==
  ASSUME NEW p, NEW n, NEW c, NEW sign, NEW b
  PROVE  LET r == Register(p, n, c, sign, b)
         IN  /\ r.prefix = p /\ r.number = n /\ r.component = c
             /\ r.negated = (sign \in {"-", "!"}) /\ r.conditionally_negated = (sign = "~") /\ r.cabs = b
  BY DEF Register

(* A register by its name alone. *)
LEMMA PlainRegister ==
  ASSUME NEW name, name[1] \in {"R", "UR", "P", "UP", "RZ", "URZ", "PT"}
  PROVE  Named(parse_register(Plain(name)), name)
  <1> DEFINE r == parse_register(Plain(name))
  <1>1. CASE name[1] \in {"RZ", "URZ", "PT"}
    <2>1. r = Register(name[1], ZeroNumber(name[1]), "", "", FALSE)
      BY <1>1 DEF parse_register, Plain
    <2> HIDE DEF r
    <2>2. r.prefix = name[1] /\ name[1] \in Bare
      BY <1>1, <2>1 DEF Register, Bare
    <2> QED BY <2>2 DEF Named, r
  <1>2. CASE name[1] \in {"R", "UR", "P", "UP"}
    <2>1. name[1] \notin Bare \cup {""}
      BY <1>2 DEF Bare, SpecialNames
    <2>2. r = Register(name[1], name[2], "", "", FALSE)
      BY <1>2, <2>1 DEF parse_register, Plain
    <2> HIDE DEF r
    <2>3. r.prefix = name[1] /\ r.number = name[2]
      BY <2>2 DEF Register
    <2> QED BY <2>3 DEF Named, r
  <1> QED BY <1>1, <1>2

LEMMA NoPlainRegister == parse_register(Plain(Nowhere)) = NoRegister
  BY DEF parse_register, Plain, Nowhere

(* What is not kept is of the forms listed. *)
LEMMA Placed ==
  ASSUME NEW w \in Written, WellWritten(w), parse_operand(w) = Dropped
  PROVE  LeavesNoPlace(w)
  <1>1. CASE w.form = "guard"
    <2>1. w.reg[1] \in {"P", "UP", "PT", "UPT"}
      BY <1>1 DEF WellWritten
    <2>2. ASSUME w.reg[1] # "UPT" PROVE parse_register(Plain(w.reg)) # NoRegister
      <3> DEFINE name == w.reg
                 r == parse_register(Plain(name))
      <3>1. name[1] \in {"R", "UR", "P", "UP", "RZ", "URZ", "PT"}
        BY <2>1, <2>2
      <3> HIDE DEF name
      <3>2. Named(r, name)
        BY <3>1, PlainRegister
      <3> HIDE DEF r
      <3>3. r.prefix # "" /\ NoRegister.prefix = ""
        BY <3>1, <3>2 DEF Named, NoRegister
      <3>4. r # NoRegister
        BY <3>3
      <3> QED BY <3>4 DEF r, name
    <2> QED BY <1>1, <2>2 DEF parse_operand, Dropped, LeavesNoPlace
  <1>2. CASE w.form = "constant"
    BY <1>2 DEF Written, parse_operand, ConstantOperand, Dropped, LeavesNoPlace
  <1>3. CASE w.form \in {"register", "memory"}
    BY <1>3 DEF parse_operand, RegisterOperand, parse_memory_operand, Dropped
  <1>4. CASE w.form \in {"integer", "float", "infinity", "nan", "label"}
    BY <1>4 DEF parse_operand, Dropped
  <1> QED BY <1>1, <1>2, <1>3, <1>4 DEF Written

(* The parts of an operand: form by form. *)
LEMMA OperandRead ==
  ASSUME NEW w \in Written, WellWritten(w), parse_operand(w) # Dropped
  PROVE  Read(w, parse_operand(w)) <=> ~Unread(w)
  <1> DEFINE name == w.reg[1]
             r == parse_register(w)
  <1>1. CASE w.form = "register"
    <2>1. name \in Names /\ (name \in Bare => w.reg[2] = 0) /\ (name \in SpecialNames => w.sign = "" /\ ~w.bars)
      BY <1>1 DEF WellWritten, Numbered, Written, RegisterName, Nowhere
    <2>2. parse_operand(w) = RegisterOperand(w)
      BY <1>1 DEF parse_operand
    <2>3. CASE w.bars /\ w.sign # ""
      <3>1. r = NoRegister /\ name \notin SpecialNames /\ Unread(w)
        BY <1>1, <2>1, <2>3 DEF parse_register, Unread
      <3>2. parse_operand(w).kind = "Label"
        BY <2>2, <3>1 DEF RegisterOperand
      <3> QED BY <1>1, <3>1, <3>2 DEF Read
    <2>4. CASE ~(w.bars /\ w.sign # "") /\ name \in {"RZ", "URZ", "PT"} /\ w.suffix = ""
      <3>1. r = Register(name, ZeroNumber(name), "", w.sign, w.bars)
        BY <2>4 DEF parse_register
      <3> HIDE DEF r
      <3>0. /\ r.prefix = name /\ r.component = "" /\ r.cabs = w.bars
            /\ r.negated = (w.sign \in {"-", "!"}) /\ r.conditionally_negated = (w.sign = "~")
        BY <3>1 DEF Register
      <3>2. r # NoRegister /\ name \notin SpecialNames /\ name \in Bare /\ name \notin {"UPT", "SRZ"}
        <4>1. r.prefix = name
          BY <3>0
        <4>2. name # "" /\ NoRegister.prefix = ""
          BY <2>4 DEF NoRegister
        <4> QED BY <2>4, <4>1, <4>2 DEF SpecialNames, Bare
      <3>3. parse_operand(w) = [kind |-> "Register", register |-> r]
        BY <2>2, <3>2 DEF RegisterOperand, r
      <3>4. ~Unread(w)
        BY <1>1, <2>4, <3>2 DEF Unread
      <3>5. Named(r, w.reg) /\ Signed(r, w)
        BY <2>4, <3>0, <3>2, Zenon DEF Named, Signed
      <3> QED BY <1>1, <3>2, <3>3, <3>4, <3>5 DEF Read
    <2>5. CASE ~(w.bars /\ w.sign # "") /\ ~(name \in {"RZ", "URZ", "PT"} /\ w.suffix = "") /\ name \in Bare
      <3>1. r = NoRegister
        BY <2>5 DEF parse_register
      <3>2. CASE name \in SpecialNames
        <4>1. parse_operand(w) = [kind |-> "SpecialRegister", name |-> name]
          BY <2>2, <3>1, <3>2 DEF RegisterOperand
        <4>2. ~Unread(w)
          BY <1>1, <2>1, <3>2 DEF Unread, SpecialNames
        <4> QED BY <1>1, <3>2, <4>1, <4>2 DEF Read
      <3>3. CASE name \notin SpecialNames
        <4>1. parse_operand(w).kind = "Label"
          BY <2>2, <3>1, <3>3 DEF RegisterOperand
        <4>2. Unread(w)
          BY <1>1, <2>5, <3>3 DEF Unread, Bare
        <4> QED BY <1>1, <3>3, <4>1, <4>2 DEF Read
      <3> QED BY <3>2, <3>3
    <2>6. CASE ~(w.bars /\ w.sign # "") /\ name \notin Bare
      <3>1. name \in {"R", "UR", "P", "UP"}
        BY <2>1, <2>6 DEF Names
      <3>2. name \notin {"RZ", "URZ", "PT", "UPT", "SRZ"} /\ name \notin SpecialNames /\ name # ""
        BY <3>1 DEF SpecialNames
      <3>3. r = Register(name, w.reg[2], w.suffix, w.sign, w.bars)
        BY <2>6, <3>2 DEF parse_register
      <3> HIDE DEF r
      <3>0. /\ r.prefix = name /\ r.number = w.reg[2] /\ r.component = w.suffix /\ r.cabs = w.bars
            /\ r.negated = (w.sign \in {"-", "!"}) /\ r.conditionally_negated = (w.sign = "~")
        BY <3>3 DEF Register
      <3>4. r # NoRegister
        <4>1. r.prefix # "" /\ NoRegister.prefix = ""
          BY <3>2, <3>0 DEF NoRegister
        <4> QED BY <4>1
      <3>5. parse_operand(w) = [kind |-> "Register", register |-> r]
        BY <2>2, <3>4 DEF RegisterOperand, r
      <3>6. ~Unread(w)
        BY <1>1, <2>6, <3>2 DEF Unread
      <3>7. Named(r, w.reg) /\ Signed(r, w)
        BY <3>0, Zenon DEF Named, Signed
      <3> DEFINE op == parse_operand(w)
      <3>8. op.kind = "Register" /\ op.register = r
        BY <3>5
      <3> HIDE DEF op
      <3>9. Read(w, op)
        BY <1>1, <3>2, <3>7, <3>8 DEF Read
      <3> QED BY <3>6, <3>9 DEF op
    <2> QED BY <2>3, <2>4, <2>5, <2>6
  <1>2. CASE w.form = "guard"
    <2>1. name \in {"P", "UP", "PT", "UPT"}
      BY <1>2 DEF WellWritten
    <2>2. name # "UPT" /\ parse_operand(w) = [kind |-> "Predicate", register |-> parse_register(Plain(w.reg)),
                                              negated |-> w.sign = "!"]
      BY <1>2 DEF parse_operand, Dropped, parse_register, Plain, Bare
    <2>3. Named(parse_register(Plain(w.reg)), w.reg)
      BY <2>1, <2>2, PlainRegister
    <2>4. ~Unread(w)
      BY <1>2, <2>1, <2>2 DEF Unread
    <2> QED BY <1>2, <2>2, <2>3, <2>4 DEF Read
  <1>3. CASE w.form = "constant"
    BY <1>3 DEF Written, parse_operand, ConstantOperand, Read, Unread, Dropped
  <1>4. CASE w.form = "memory"
    <2> DEFINE op == parse_memory_operand(w)
    <2>1. parse_operand(w) = op
      BY <1>4 DEF parse_operand
    <2>2. /\ w.reg # Nowhere => name \in {"R", "UR", "P", "UP", "RZ", "URZ"}
          /\ w.desc # Nowhere => w.desc[1] \in {"UR", "URZ"}
      BY <1>4 DEF WellWritten, Written, RegisterName, Names, Bare
    <2>3. IF w.reg = Nowhere THEN op.base = NoRegister ELSE Named(op.base, w.reg)
      BY <2>2, PlainRegister, NoPlainRegister DEF parse_memory_operand
    <2>4. IF w.desc = Nowhere THEN op.desc_ur = NoRegister ELSE Named(op.desc_ur, w.desc)
      BY <2>2, PlainRegister DEF parse_memory_operand
    <2>5. op.kind = "Memory" /\ op.is_64bit_addr = (w.suffix = "64")
      BY DEF parse_memory_operand
    <2>6. op.offset = (IF w.reg = Nowhere \/ w.index # Nowhere THEN 0 ELSE w.offset)
      BY DEF parse_memory_operand
    <2>7. Read(w, op) <=> op.offset = w.offset /\ w.index = Nowhere
      <3> HIDE DEF op
      <3> QED BY <1>4, <2>3, <2>4, <2>5 DEF Read
    <2>8. Unread(w) <=> w.index # Nowhere \/ (w.reg = Nowhere /\ w.offset # 0)
      BY <1>4 DEF Unread
    <2> HIDE DEF op
    <2> QED BY <2>1, <2>6, <2>7, <2>8
  <1>5. CASE w.form \in {"integer", "float", "infinity", "nan", "label"}
    BY <1>5 DEF Written, parse_operand, Read, Unread
  <1> QED BY <1>1, <1>2, <1>3, <1>4, <1>5 DEF Written
-----------------------------------------------------------------------------
(* What the walk keeps of the listing. *)

IsSequence(s) == \E S : s \in Seq(S)

LEMMA AppendIs ==
  ASSUME NEW s, IsSequence(s), NEW e
  PROVE  LET t == Append(s, e)
         IN  /\ IsSequence(t) /\ Len(s) \in Nat /\ Len(t) = Len(s) + 1 /\ t[Len(s) + 1] = e
             /\ \A i \in 1..Len(s) : t[i] = s[i]
  <1>1. PICK S : s \in Seq(S)
    BY DEF IsSequence
  <1>2. s \in Seq(S \cup {e}) /\ e \in S \cup {e}
    <2>1. S \subseteq S \cup {e} /\ e \in S \cup {e}
      OBVIOUS
    <2> QED BY <1>1, <2>1, SeqOfSubset
  <1>3. /\ Append(s, e) \in Seq(S \cup {e}) /\ Len(Append(s, e)) = Len(s) + 1
        /\ Append(s, e)[Len(s) + 1] = e /\ \A i \in 1..Len(s) : Append(s, e)[i] = s[i]
    BY <1>2, AppendProperties
  <1>4. Len(s) \in Nat
    BY <1>1
  <1>5. IsSequence(Append(s, e))
    BY <1>3 DEF IsSequence
  <1> QED BY <1>3, <1>4, <1>5

LEMMA SequenceDomain ==
  ASSUME NEW s, IsSequence(s)
  PROVE  Len(s) \in Nat /\ DOMAIN s = 1..Len(s)
  BY DEF IsSequence

LEMMA ExceptIs ==
  ASSUME NEW s, IsSequence(s), NEW k \in 1..Len(s), NEW v
  PROVE  LET t == [s EXCEPT ![k] = v]
         IN  /\ IsSequence(t) /\ Len(t) = Len(s) /\ t[k] = v
             /\ \A i \in 1..Len(s) : i # k => t[i] = s[i]
  <1> DEFINE t == [s EXCEPT ![k] = v]
  <1>1. PICK S : s \in Seq(S)
    BY DEF IsSequence
  <1>2. DOMAIN s = 1..Len(s) /\ Len(s) \in Nat
    BY <1>1
  <1>3. \A i \in 1..Len(s) : t[i] = IF i = k THEN v ELSE s[i]
    BY <1>2
  <1>4. t \in Seq(S \cup {v}) /\ Len(t) = Len(s)
    <2>1. \A i \in 1..Len(s) : t[i] \in S \cup {v}
      BY <1>1, <1>3
    <2>2. DOMAIN t = 1..Len(s) /\ t = [i \in 1..Len(s) |-> t[i]]
      BY <1>2
    <2> HIDE DEF t
    <2>3. t \in [1..Len(s) -> S \cup {v}]
      BY <2>1, <2>2
    <2> QED BY <1>2, <2>3
  <1> QED BY <1>3, <1>4 DEF IsSequence

(* o lists the lines up to n that are read, in order. *)
LinesRead(o, ls, n) ==
  /\ o \in Seq(1..n)
  /\ {o[i] : i \in 1..Len(o)} = {k \in 1..n : IsRead(ls[k])}
  /\ \A i, j \in 1..Len(o) : i < j => o[i] < o[j]

LEMMA ReadOneMore ==
  ASSUME NEW n \in Nat, NEW ls, NEW o, LinesRead(o, ls, n)
  PROVE  LinesRead(IF IsRead(ls[n + 1]) THEN Append(o, n + 1) ELSE o, ls, n + 1)
  <1> DEFINE Reading(m) == {k \in 1..m : IsRead(ls[k])}
  <1>1. 1..(n + 1) = (1..n) \cup {n + 1} /\ n + 1 \notin 1..n
    OBVIOUS
  <1>2. /\ o \in Seq(1..n) /\ Len(o) \in Nat /\ \A i \in 1..Len(o) : o[i] \in 1..n
        /\ {o[i] : i \in 1..Len(o)} = Reading(n)
        /\ \A i, j \in 1..Len(o) : i < j => o[i] < o[j]
    BY DEF LinesRead
  <1>3. o \in Seq(1..(n + 1))
    <2>1. 1..n \subseteq 1..(n + 1)
      BY <1>1
    <2> QED BY <1>2, <2>1, SeqOfSubset
  <1>4. CASE IsRead(ls[n + 1])
    <2> DEFINE u == Append(o, n + 1)
    <2>1. /\ u \in Seq(1..(n + 1)) /\ Len(u) = Len(o) + 1 /\ u[Len(o) + 1] = n + 1
          /\ \A i \in 1..Len(o) : u[i] = o[i]
      <3>1. n + 1 \in 1..(n + 1)
        OBVIOUS
      <3> QED BY <1>3, <3>1, AppendProperties
    <2> HIDE DEF u
    <2>2. 1..Len(u) = (1..Len(o)) \cup {Len(o) + 1}
      BY <1>2, <2>1
    <2>3. {u[i] : i \in 1..Len(u)} = {o[i] : i \in 1..Len(o)} \cup {n + 1}
      BY <2>1, <2>2
    <2>4. Reading(n + 1) = Reading(n) \cup {n + 1}
      BY <1>1, <1>4
    <2>5. ASSUME NEW i \in 1..Len(u), NEW j \in 1..Len(u), i < j
          PROVE  u[i] < u[j]
      <3>1. i \in 1..Len(o) /\ (j \in 1..Len(o) \/ j = Len(o) + 1)
        <4> DEFINE k == Len(o)
        <4>1. k \in Nat /\ i \in 1..(k + 1) /\ j \in 1..(k + 1)
          BY <1>2, <2>1
        <4> HIDE DEF k
        <4>2. i \in 1..k /\ (j \in 1..k \/ j = k + 1)
          BY <2>5, <4>1
        <4> QED BY <4>2 DEF k
      <3>2. CASE j \in 1..Len(o)
        <4>1. u[i] = o[i] /\ u[j] = o[j]
          BY <2>1, <3>1, <3>2
        <4> QED BY <1>2, <2>5, <3>1, <3>2, <4>1
      <3>3. CASE j = Len(o) + 1
        <4>1. u[i] = o[i] /\ o[i] \in 1..n /\ u[j] = n + 1
          BY <1>2, <2>1, <3>1, <3>3
        <4> QED BY <4>1
      <3> QED BY <3>1, <3>2, <3>3
    <2>6. LinesRead(u, ls, n + 1)
      BY <1>2, <2>1, <2>3, <2>4, <2>5 DEF LinesRead
    <2> QED BY <1>4, <2>6 DEF u
  <1>5. CASE ~IsRead(ls[n + 1])
    <2>1. Reading(n + 1) = Reading(n)
      BY <1>1, <1>5
    <2>2. LinesRead(o, ls, n + 1)
      BY <1>2, <1>3, <2>1 DEF LinesRead
    <2> QED BY <1>5, <2>2
  <1> QED BY <1>4, <1>5

(* The lines read before the i-th. *)
Before(o, i) == {o[j] : j \in 1..(i - 1)}

LEMMA BeforeIsAbove ==
  ASSUME NEW n \in Nat, NEW ls, NEW o, LinesRead(o, ls, n), NEW i \in 1..Len(o)
  PROVE  Before(o, i) = {k \in 1..(o[i] - 1) : IsRead(ls[k])}
  <1>1. /\ Len(o) \in Nat /\ \A j \in 1..Len(o) : o[j] \in 1..n
        /\ {o[j] : j \in 1..Len(o)} = {k \in 1..n : IsRead(ls[k])}
        /\ \A j, k \in 1..Len(o) : j < k => o[j] < o[k]
    BY DEF LinesRead
  <1>2. ASSUME NEW j \in 1..(i - 1)
        PROVE  o[j] \in 1..(o[i] - 1) /\ IsRead(ls[o[j]])
    <2>1. j \in 1..Len(o) /\ j < i
      BY <1>1
    <2>2. o[j] < o[i] /\ o[j] \in 1..n /\ o[i] \in 1..n
      BY <1>1, <2>1
    <2>3. o[j] \in {k \in 1..n : IsRead(ls[k])}
      BY <1>1, <2>1
    <2> QED BY <2>2, <2>3
  <1>3. ASSUME NEW k \in 1..(o[i] - 1), IsRead(ls[k])
        PROVE  \E j \in 1..(i - 1) : k = o[j]
    <2>1. o[i] \in 1..n
      BY <1>1
    <2>2. k \in 1..n /\ k < o[i]
      BY <2>1
    <2>3. PICK j \in 1..Len(o) : k = o[j]
      BY <1>1, <1>3, <2>2
    <2>4. j < i
      <3>1. ~(i < j) /\ i # j
        BY <1>1, <2>1, <2>2, <2>3
      <3> QED BY <1>1, <3>1
    <2> QED BY <2>3, <2>4
  <1> QED BY <1>2, <1>3 DEF Before

(* An instruction that keeps what parse_instruction_line made of a line's operands. *)
ReadFrom(inst, line) ==
  /\ {"address", "dest_operands", "src_operands", "data_dependencies", "basic_block_id"}
       \subseteq DOMAIN inst
  /\ inst.address = line.address
  /\ inst.dest_operands = parse_instruction_line(line).dest_operands
  /\ inst.src_operands = parse_instruction_line(line).src_operands

InstructionsRead(insts, o, ls) ==
  /\ IsSequence(insts) /\ Len(insts) = Len(o)
  /\ \A i \in 1..Len(o) : ReadFrom(insts[i], ls[o[i]])

(* Where the walk is, and what it has read. *)
ReadInv ==
  /\ lines \in Listings
  /\ phase \in {"parse", "targets", "blocks", "flow", "done"}
  /\ at \in Nat \ {0}
  /\ phase = "parse" => at <= Len(lines) + 1
  /\ phase \notin {"parse", "done"} => at <= Len(of) + 1
  /\ LinesRead(of, lines, IF phase = "parse" THEN at - 1 ELSE Len(lines))
  /\ InstructionsRead(instructions, of, lines)

LEMMA ListingIs ==
  ASSUME lines \in Listings
  PROVE  /\ Len(lines) \in Nat /\ DOMAIN lines = 1..Len(lines)
         /\ \A n \in 1..Len(lines) : lines[n] \in Line
         /\ \A n \in 1..Len(lines) : \A m \in DOMAIN lines[n].rest :
              WellWritten(lines[n].rest[m].operand)
  BY ListingsAssumption

LEMMA ReadInitial == Init => ReadInv
  <1> SUFFICES ASSUME Init
               PROVE  ReadInv
    OBVIOUS
  <1>1. lines \in Listings /\ phase = "parse" /\ at = 1 /\ of = <<>> /\ instructions = <<>>
    BY DEF Init
  <1>2. Len(lines) \in Nat
    BY <1>1, ListingIs
  <1>3. 1..0 = {} /\ <<>> \in Seq(1..0) /\ Len(<<>>) = 0 /\ at - 1 = 0
    BY <1>1
  <1>4. LinesRead(of, lines, at - 1)
    BY <1>1, <1>3 DEF LinesRead
  <1>5. InstructionsRead(instructions, of, lines)
    BY <1>1, <1>3 DEF InstructionsRead, IsSequence
  <1> QED BY <1>1, <1>2, <1>4, <1>5 DEF ReadInv

LEMMA ReadNext ==
  ASSUME ReadInv, [Next]_flow_vars
  PROVE  ReadInv'
  <1>1. /\ lines \in Listings
        /\ phase \in {"parse", "targets", "blocks", "flow", "done"}
        /\ at \in Nat \ {0}
        /\ phase = "parse" => at <= Len(lines) + 1
        /\ phase \notin {"parse", "done"} => at <= Len(of) + 1
        /\ LinesRead(of, lines, IF phase = "parse" THEN at - 1 ELSE Len(lines))
        /\ InstructionsRead(instructions, of, lines)
    BY DEF ReadInv
  <1>2. Len(lines) \in Nat
    BY <1>1, ListingIs
  <1>3. /\ IsSequence(instructions) /\ Len(instructions) = Len(of) /\ Len(of) \in Nat
        /\ IsSequence(of)
    BY <1>1 DEF InstructionsRead, LinesRead, IsSequence
  <1>4. CASE ParseLine
    <2>1. /\ phase = "parse" /\ at <= Len(lines) /\ IsRead(lines[at])
          /\ instructions' = Append(instructions, parse_instruction_line(lines[at]))
          /\ of' = Append(of, at) /\ at' = at + 1 /\ lines' = lines /\ phase' = phase
      BY <1>4 DEF ParseLine
    <2>2. LinesRead(of', lines', at' - 1)
      <3>1. at - 1 \in Nat /\ (at - 1) + 1 = at /\ (at + 1) - 1 = at
        BY <1>1
      <3>2. LinesRead(of, lines, at - 1)
        BY <1>1, <2>1
      <3>3. LinesRead(IF IsRead(lines[at]) THEN Append(of, at) ELSE of, lines, at)
        BY <3>1, <3>2, ReadOneMore
      <3> QED BY <2>1, <3>1, <3>3
    <2>3. InstructionsRead(instructions', of', lines')
      <3> DEFINE inst == parse_instruction_line(lines[at])
                 more == Append(instructions, inst)
                 longer == Append(of, at)
      <3>1. ReadFrom(inst, lines[at])
        BY DEF ReadFrom, parse_instruction_line
      <3> HIDE DEF inst
      <3>2. /\ IsSequence(more) /\ Len(more) = Len(of) + 1 /\ more[Len(of) + 1] = inst
            /\ \A i \in 1..Len(of) : more[i] = instructions[i]
        BY <1>3, AppendIs
      <3>3. /\ Len(longer) = Len(of) + 1 /\ longer[Len(of) + 1] = at
            /\ \A i \in 1..Len(of) : longer[i] = of[i]
        BY <1>3, AppendIs
      <3>4. 1..(Len(of) + 1) = (1..Len(of)) \cup {Len(of) + 1}
        BY <1>3
      <3> HIDE DEF more, longer
      <3>5. \A i \in 1..Len(longer) : ReadFrom(more[i], lines[longer[i]])
        BY <1>1, <3>1, <3>2, <3>3, <3>4 DEF InstructionsRead
      <3> QED BY <2>1, <3>2, <3>3, <3>5 DEF InstructionsRead, more, longer, inst
    <2> QED BY <1>1, <1>2, <2>1, <2>2, <2>3 DEF ReadInv
  <1>5. CASE SkipLine
    <2>1. /\ phase = "parse" /\ at <= Len(lines) /\ ~IsRead(lines[at])
          /\ instructions' = instructions
          /\ of' = of /\ at' = at + 1 /\ lines' = lines /\ phase' = phase
      BY <1>5 DEF SkipLine
    <2>2. LinesRead(of', lines', at' - 1)
      <3>1. at - 1 \in Nat /\ (at - 1) + 1 = at /\ (at + 1) - 1 = at
        BY <1>1
      <3>2. LinesRead(of, lines, at - 1)
        BY <1>1, <2>1
      <3>3. LinesRead(IF IsRead(lines[at]) THEN Append(of, at) ELSE of, lines, at)
        BY <3>1, <3>2, ReadOneMore
      <3> QED BY <2>1, <3>1, <3>3
    <2>3. InstructionsRead(instructions', of', lines')
      BY <1>1, <2>1
    <2> QED BY <1>1, <1>2, <2>1, <2>2, <2>3 DEF ReadInv
  <1>6. CASE NextPhase
    <2>1. /\ phase # "done" /\ phase' = Following[phase] /\ at' = 1
          /\ at > (IF phase = "parse" THEN Len(lines) ELSE Len(instructions))
          /\ lines' = lines /\ of' = of /\ instructions' = instructions
      BY <1>6 DEF NextPhase
    <2>2. phase' \in {"targets", "blocks", "flow", "done"}
      BY <1>1, <2>1 DEF Following
    <2>3. LinesRead(of, lines, Len(lines))
      <3>1. CASE phase = "parse"
        <4>1. at - 1 = Len(lines)
          BY <1>1, <1>2, <2>1, <3>1
        <4> QED BY <1>1, <3>1, <4>1
      <3>2. CASE phase # "parse"
        BY <1>1, <3>2
      <3> QED BY <3>1, <3>2
    <2>4. at' \in Nat \ {0} /\ at' <= Len(of) + 1
      BY <1>3, <2>1
    <2>5. phase' # "parse"
      BY <2>2
    <2> QED BY <1>1, <2>1, <2>2, <2>3, <2>4, <2>5 DEF ReadInv
  <1>7. ASSUME phase \in {"targets", "blocks", "flow"}, at <= Len(instructions), at' = at + 1,
               lines' = lines, of' = of, phase' = phase, InstructionsRead(instructions', of, lines)
        PROVE  ReadInv'
    <2>1. at' \in Nat \ {0} /\ at' <= Len(of) + 1
      BY <1>1, <1>3, <1>7
    <2>2. phase' # "parse" /\ phase # "parse"
      BY <1>7
    <2>3. LinesRead(of, lines, Len(lines))
      BY <1>1, <2>2
    <2> QED BY <1>1, <1>7, <2>1, <2>2, <2>3 DEF ReadInv
  <1>8. ASSUME at <= Len(instructions), NEW inst,
               ReadFrom(instructions[at], lines[of[at]]) => ReadFrom(inst, lines[of[at]])
        PROVE  InstructionsRead([instructions EXCEPT ![at] = inst], of, lines)
    <2> DEFINE changed == [instructions EXCEPT ![at] = inst]
    <2>1. at \in 1..Len(instructions)
      BY <1>1, <1>3, <1>8
    <2>2. /\ IsSequence(changed) /\ Len(changed) = Len(of) /\ changed[at] = inst
          /\ \A i \in 1..Len(of) : i # at => changed[i] = instructions[i]
      BY <1>3, <2>1, ExceptIs
    <2> HIDE DEF changed
    <2>3. \A i \in 1..Len(of) : ReadFrom(changed[i], lines[of[i]])
      BY <1>1, <1>3, <1>8, <2>1, <2>2 DEF InstructionsRead
    <2>4. InstructionsRead(changed, of, lines)
      BY <2>2, <2>3 DEF InstructionsRead
    <2> QED BY <2>4 DEF changed
  <1>9. CASE CollectTargets
    BY <1>1, <1>7, <1>9 DEF CollectTargets, Walking
  <1>10. CASE AssignBlock
    <2> DEFINE inst == [instructions[at] EXCEPT !.basic_block_id = current_block']
    <2>1. ReadFrom(instructions[at], lines[of[at]]) => ReadFrom(inst, lines[of[at]])
      BY DEF ReadFrom
    <2> HIDE DEF inst
    <2>2. /\ phase = "blocks" /\ at <= Len(instructions) /\ at' = at + 1
          /\ lines' = lines /\ of' = of /\ phase' = phase
          /\ instructions' = [instructions EXCEPT ![at] = inst]
      BY <1>10 DEF AssignBlock, Walking, inst
    <2> QED BY <1>7, <1>8, <2>1, <2>2
  <1>11. CASE AnalyzeInstruction
    <2> DEFINE inst == [instructions[at] EXCEPT !.data_dependencies =
                          Dependencies(last_writer, instructions[at])]
    <2>1. ReadFrom(instructions[at], lines[of[at]]) => ReadFrom(inst, lines[of[at]])
      BY DEF ReadFrom
    <2> HIDE DEF inst
    <2>2. /\ phase = "flow" /\ at <= Len(instructions) /\ at' = at + 1
          /\ lines' = lines /\ of' = of /\ phase' = phase
          /\ instructions' = [instructions EXCEPT ![at] = inst]
      BY <1>11 DEF AnalyzeInstruction, Walking, Here, inst
    <2> QED BY <1>7, <1>8, <2>1, <2>2
  <1>12. CASE UNCHANGED flow_vars
    BY <1>12 DEF ReadInv, flow_vars
  <1> QED BY <1>4, <1>5, <1>6, <1>9, <1>10, <1>11, <1>12 DEF Next, Finished

LEMMA ReadInvariant == Spec => []ReadInv
  <1>1. ReadInv /\ [Next]_flow_vars => ReadInv'
    BY ReadNext
  <1> QED BY <1>1, ReadInitial, PTL DEF Spec
-----------------------------------------------------------------------------
(* The operands of every line the walk read. *)

LEMMA OperandsAreListed ==
  ASSUME NEW line \in Line, \A m \in DOMAIN line.rest : WellWritten(line.rest[m].operand)
  PROVE  /\ DOMAIN Operands_of(line) = 1..Len(Operands_of(line)) /\ Len(Operands_of(line)) \in Nat
         /\ \A n \in DOMAIN Operands_of(line) :
              Operands_of(line)[n] \in Written /\ WellWritten(Operands_of(line)[n])
  <1> DEFINE O == Operands_of(line)
             ends == {n \in DOMAIN line.rest : line.rest[n].what # "operand"}
             first == CHOOSE n \in ends : \A m \in ends : n <= m
             last == IF ends = {} THEN Len(line.rest) ELSE first - 1
  <1>1. O = [n \in 1..last |-> line.rest[n].operand]
    BY DEF Operands_of
  <1>2. line.rest \in Seq(Piece) /\ DOMAIN line.rest = 1..Len(line.rest) /\ Len(line.rest) \in Nat
    BY DEF Line
  <1>3. 1..last \subseteq 1..Len(line.rest)
    <2>1. CASE ends = {}
      BY <2>1
    <2>2. CASE ends # {}
      <3>1. ends \subseteq Nat
        BY <1>2
      <3>2. PICK e \in ends : \A m \in ends : e <= m
        <4> HIDE DEF ends
        <4> QED BY <2>2, <3>1, LeastNatural
      <3>3. first \in ends
        BY <3>2
      <3> HIDE DEF first
      <3>4. first \in 1..Len(line.rest) /\ last = first - 1
        BY <1>2, <2>2, <3>3
      <3> QED BY <1>2, <3>4
    <2> QED BY <2>1, <2>2
  <1> HIDE DEF last
  <1>4. O \in Seq(Written)
    BY OperandsOfLine
  <1>5. \A n \in DOMAIN O : WellWritten(O[n])
    <2>1. DOMAIN O = 1..last
      BY <1>1
    <2>2. ASSUME NEW n \in 1..last
          PROVE  WellWritten(O[n])
      <3>1. O[n] = line.rest[n].operand
        BY <1>1
      <3>2. n \in DOMAIN line.rest
        BY <1>2, <1>3
      <3> HIDE DEF O
      <3> QED BY <3>1, <3>2
    <2> QED BY <2>1, <2>2
  <1> HIDE DEF O
  <1>6. /\ DOMAIN O = 1..Len(O) /\ Len(O) \in Nat /\ \A n \in DOMAIN O : O[n] \in Written
    BY <1>4
  <1> QED BY <1>5, <1>6 DEF O

LEMMA ReadGivesOperands ==
  ASSUME ReadInv
  PROVE  OperandsAreRead
  <1> SUFFICES ASSUME NEW i \in DOMAIN instructions
               PROVE  LET O == WrittenAs(i)
                      IN (\A n \in DOMAIN O : ~LeavesNoPlace(O[n])) =>
                           /\ Len(ReadAs(i)) = Len(O)
                           /\ \A n \in DOMAIN O : ~Unread(O[n]) => Read(O[n], ReadAs(i)[n])
    BY DEF OperandsAreRead
  <1> DEFINE line == lines[of[i]]
             O == Operands_of(line)
             inst == instructions[i]
  <1>1. i \in 1..Len(of) /\ ReadFrom(inst, line)
    BY SequenceDomain DEF ReadInv, InstructionsRead
  <1>2. of[i] \in 1..Len(lines)
    <2>1. Len(lines) \in Nat
      BY ListingIs DEF ReadInv
    <2> DEFINE n == IF phase = "parse" THEN at - 1 ELSE Len(lines)
    <2>2. n \in Nat /\ n <= Len(lines) /\ LinesRead(of, lines, n)
      BY <2>1 DEF ReadInv
    <2> HIDE DEF n
    <2>3. of[i] \in 1..n
      BY <1>1, <2>2 DEF LinesRead
    <2> QED BY <2>1, <2>2, <2>3
  <1>3. line \in Line /\ \A m \in DOMAIN line.rest : WellWritten(line.rest[m].operand)
    BY <1>2, ListingIs DEF ReadInv
  <1> HIDE DEF line
  <1>4. /\ DOMAIN O = 1..Len(O) /\ Len(O) \in Nat
        /\ \A n \in DOMAIN O : O[n] \in Written /\ WellWritten(O[n])
    BY <1>3, OperandsAreListed
  <1>5. /\ inst.dest_operands \in Seq(ReadOperand) /\ inst.src_operands \in Seq(ReadOperand)
        /\ ~AllKept(line) => Len(inst.dest_operands) + Len(inst.src_operands) < Len(O)
        /\ AllKept(line) /\ O # <<>> =>
             /\ inst.dest_operands = <<parse_operand(O[1])>>
             /\ Len(inst.src_operands) = Len(O) - 1
             /\ \A n \in 1..(Len(O) - 1) : inst.src_operands[n] = parse_operand(O[n + 1])
        /\ O = <<>> => inst.dest_operands = <<>> /\ inst.src_operands = <<>>
    BY <1>1, <1>3, LineParsed DEF ReadFrom
  <1>6. AllKept(line) <=> ~\E n \in DOMAIN O : parse_operand(O[n]) = Dropped
    BY DEF AllKept
  <1>7. WrittenAs(i) = O /\ ReadAs(i) = inst.dest_operands \o inst.src_operands
    BY DEF WrittenAs, ReadAs, line
  <1> DEFINE dest == inst.dest_operands
             src == inst.src_operands
             all == dest \o src
  <1> HIDE DEF O, inst, dest, src
  <1>8. Len(all) = Len(dest) + Len(src)
    BY <1>5 DEF dest, src
  <1>9. CASE ~AllKept(line)
    BY <1>4, <1>6, <1>7, <1>9, Placed
  <1>10. CASE AllKept(line)
    <2>1. Len(all) = Len(O) /\ \A n \in DOMAIN O : all[n] = parse_operand(O[n])
      <3>1. CASE O = <<>>
        <4>1. dest = <<>> /\ src = <<>>
          BY <1>5, <3>1, Zenon DEF dest, src
        <4>2. Len(all) = 0
          BY <1>8, <4>1
        <4>3. Len(O) = 0 /\ DOMAIN O = {}
          BY <3>1
        <4> QED BY <4>2, <4>3
      <3>2. CASE O # <<>>
        <4>1. /\ dest = <<parse_operand(O[1])>> /\ Len(dest) = 1 /\ Len(src) = Len(O) - 1
              /\ \A n \in 1..(Len(O) - 1) : src[n] = parse_operand(O[n + 1])
          BY <1>5, <1>10, <3>2 DEF dest, src
        <4>2. Len(all) = Len(O)
          BY <1>4, <1>8, <4>1
        <4>3. all[1] = dest[1] /\ dest[1] = parse_operand(O[1])
          BY <1>5, <4>1 DEF dest, src
        <4>4. ASSUME NEW n \in 1..(Len(O) - 1)
              PROVE  all[n + 1] = src[n]
          <5>1. n + 1 \in 1..(Len(dest) + Len(src)) /\ n + 1 > Len(dest) /\ (n + 1) - Len(dest) = n
            BY <1>4, <4>1
          <5>2. dest \in Seq(ReadOperand) /\ src \in Seq(ReadOperand)
            BY <1>5 DEF dest, src
          <5>3. all[n + 1] = src[(n + 1) - Len(dest)]
            BY <5>1, <5>2, ConcatProperties
          <5> QED BY <5>1, <5>3
        <4>5. \A n \in 1..Len(O) : n = 1 \/ (n - 1 \in 1..(Len(O) - 1) /\ (n - 1) + 1 = n)
          BY <1>4
        <4>6. ASSUME NEW n \in 1..Len(O)
              PROVE  all[n] = parse_operand(O[n])
          <5>1. CASE n = 1
            BY <4>3, <5>1
          <5>2. CASE n # 1
            <6>1. n - 1 \in 1..(Len(O) - 1) /\ (n - 1) + 1 = n
              BY <4>5, <5>2
            <6>2. all[(n - 1) + 1] = src[n - 1] /\ src[n - 1] = parse_operand(O[(n - 1) + 1])
              BY <4>1, <4>4, <6>1
            <6> QED BY <6>1, <6>2
          <5> QED BY <5>1, <5>2
        <4> HIDE DEF all
        <4> QED BY <1>4, <4>2, <4>6
      <3> QED BY <3>1, <3>2
    <2> HIDE DEF all
    <2>2. \A n \in DOMAIN O : ~Unread(O[n]) => Read(O[n], all[n])
      BY <1>4, <1>6, <1>10, <2>1, OperandRead
    <2>3. ReadAs(i) = all
      BY <1>7 DEF all, dest, src
    <2> QED BY <1>7, <2>1, <2>2, <2>3
  <1> QED BY <1>9, <1>10

(***************************************************************************)
(* instruction.rs:490-653, text.rs:84-96: in every listing, an operand of  *)
(* a form that Unread does not list is read with all its parts, and in its *)
(* place unless the line has an operand that leaves none.                  *)
(***************************************************************************)
THEOREM OperandsAreAsWritten == Spec => []OperandsAreRead
  BY ReadInvariant, ReadGivesOperands, PTL
-----------------------------------------------------------------------------
(* Data flow: what a line of general registers reads and writes. *)

KeyOf(reg) == IF reg[1] = "RZ" THEN <<"RZ", 255>> ELSE reg
GeneralName == {"R", "UR", "RZ"}

LEMMA GeneralRegister ==
  ASSUME NEW w \in Written, WellWritten(w), w.form = "register", w.reg[1] \in GeneralName, ~Unread(w)
  PROVE  /\ parse_operand(w) # Dropped /\ parse_operand(w).kind = "Register"
         /\ Key(parse_operand(w).register) = KeyOf(w.reg)
         /\ is_zero(parse_operand(w).register) <=> w.reg[1] = "RZ"
         /\ w.reg[1] = "RZ" <=> w.reg = <<"RZ", 0>>
  <1> DEFINE name == w.reg[1]
             r == parse_register(w)
  <1>1. w.reg \in RegisterName /\ (name = "RZ" => w.reg[2] = 0)
    BY DEF WellWritten, Numbered, Written, Bare
  <1>2. w.reg = <<w.reg[1], w.reg[2]>>
    BY <1>1 DEF RegisterName
  <1>3. ~(w.bars /\ w.sign # "") /\ (name = "RZ" => w.suffix = "")
    BY DEF Unread
  <1>4. parse_operand(w) = RegisterOperand(w)
    BY DEF parse_operand
  <1>5. CASE name = "RZ"
    <2>1. r = Register("RZ", ZeroNumber("RZ"), "", w.sign, w.bars)
      BY <1>3, <1>5 DEF parse_register
    <2>2. ZeroNumber("RZ") = 255
      BY DEF ZeroNumber
    <2> HIDE DEF r
    <2>3. r.prefix = "RZ" /\ r.number = 255
      BY <2>1, <2>2 DEF Register
    <2>4. r # NoRegister
      <3>1. NoRegister.prefix = ""
        BY DEF NoRegister
      <3> QED BY <2>3, <3>1
    <2>5. parse_operand(w) = [kind |-> "Register", register |-> r]
      BY <1>4, <2>4 DEF RegisterOperand, r
    <2>6. Key(r) = <<"RZ", 255>> /\ is_zero(r)
      BY <2>3 DEF Key, is_zero
    <2> QED BY <1>1, <1>2, <1>5, <2>5, <2>6 DEF KeyOf, Dropped
  <1>6. CASE name \in {"R", "UR"}
    <2>1. name \notin Bare \cup {""} /\ name # "RZ"
      BY <1>6 DEF Bare, SpecialNames
    <2>2. r = Register(name, w.reg[2], w.suffix, w.sign, w.bars)
      BY <1>3, <1>6, <2>1 DEF parse_register
    <2> HIDE DEF r
    <2>3. r.prefix = name /\ r.number = w.reg[2]
      BY <2>2 DEF Register
    <2>4. r # NoRegister
      <3>1. NoRegister.prefix = ""
        BY DEF NoRegister
      <3> QED BY <1>6, <2>3, <3>1
    <2>5. parse_operand(w) = [kind |-> "Register", register |-> r]
      BY <1>4, <2>4 DEF RegisterOperand, r
    <2>6. Key(r) = w.reg
      BY <1>2, <2>3 DEF Key
    <2>7. ~is_zero(r)
      BY <1>6, <2>3 DEF is_zero
    <2>8. w.reg # <<"RZ", 0>>
      BY <1>6
    <2> DEFINE op == parse_operand(w)
    <2>9. op.kind = "Register" /\ op.register = r /\ Dropped.kind = "none"
      BY <2>5 DEF Dropped
    <2> HIDE DEF op
    <2>10. op # Dropped
      BY <2>9
    <2>11. KeyOf(w.reg) = w.reg
      BY <2>1 DEF KeyOf
    <2> QED BY <2>1, <2>6, <2>7, <2>8, <2>9, <2>10, <2>11 DEF op
  <1> QED BY <1>5, <1>6 DEF GeneralName

(* The operands of a plain line become registers, one for one. *)
LEMMA PlainLine ==
  ASSUME NEW line \in Line, \A m \in DOMAIN line.rest : WellWritten(line.rest[m].operand),
         Plainly(line), NEW inst, ReadFrom(inst, line)
  PROVE  LET O == Operands_of(line)
         IN  /\ Len(O) \in Nat \ {0}
             /\ \A n \in 1..Len(O) : O[n].reg[1] = "RZ" <=> O[n].reg = <<"RZ", 0>>
             /\ Len(inst.dest_operands) = 1 /\ DOMAIN inst.dest_operands = {1}
             /\ inst.dest_operands[1].kind = "Register"
             /\ Key(inst.dest_operands[1].register) = KeyOf(O[1].reg)
             /\ is_zero(inst.dest_operands[1].register) <=> O[1].reg[1] = "RZ"
             /\ Len(inst.src_operands) = Len(O) - 1
             /\ DOMAIN inst.src_operands = 1..(Len(O) - 1)
             /\ \A n \in 1..(Len(O) - 1) :
                  /\ inst.src_operands[n].kind = "Register"
                  /\ Key(inst.src_operands[n].register) = KeyOf(O[n + 1].reg)
  <1> DEFINE O == Operands_of(line)
             op(n) == parse_operand(O[n])
             dest == inst.dest_operands
             src == inst.src_operands
  <1>1. /\ DOMAIN O = 1..Len(O) /\ Len(O) \in Nat
        /\ \A n \in DOMAIN O : O[n] \in Written /\ WellWritten(O[n])
    BY OperandsAreListed
  <1>2. O # <<>> /\ \A n \in DOMAIN O : O[n].form = "register" /\ O[n].reg[1] \in GeneralName /\ ~Unread(O[n])
    BY DEF Plainly, GeneralName
  <1>3. /\ dest \in Seq(ReadOperand) /\ src \in Seq(ReadOperand)
        /\ AllKept(line) /\ O # <<>> =>
             /\ dest = <<parse_operand(O[1])>>
             /\ Len(src) = Len(O) - 1
             /\ \A n \in 1..(Len(O) - 1) : src[n] = parse_operand(O[n + 1])
    BY LineParsed DEF ReadFrom
  <1>4. \A n \in DOMAIN O : parse_operand(O[n]) # Dropped
    <2> HIDE DEF O
    <2> QED BY <1>1, <1>2, GeneralRegister
  <1>5. AllKept(line)
    BY <1>4 DEF AllKept
  <1>6. O \in Seq(Written)
    BY OperandsOfLine
  <1> HIDE DEF O, dest, src
  <1>7. Len(O) # 0
    BY <1>2, <1>6
  <1>8. \A n \in 1..Len(O) :
          /\ op(n).kind = "Register" /\ Key(op(n).register) = KeyOf(O[n].reg)
          /\ is_zero(op(n).register) <=> O[n].reg[1] = "RZ"
          /\ O[n].reg[1] = "RZ" <=> O[n].reg = <<"RZ", 0>>
    BY <1>1, <1>2, GeneralRegister
  <1>9. 1 \in 1..Len(O) /\ \A n \in 1..(Len(O) - 1) : n + 1 \in 1..Len(O)
    BY <1>1, <1>7
  <1>10. dest = <<op(1)>> /\ Len(src) = Len(O) - 1 /\ \A n \in 1..(Len(O) - 1) : src[n] = op(n + 1)
    BY <1>2, <1>3, <1>5
  <1>11. dest[1] = op(1) /\ Len(dest) = 1 /\ DOMAIN dest = {1}
    BY <1>10
  <1>12. DOMAIN src = 1..(Len(O) - 1)
    BY <1>3, <1>10
  <1> HIDE DEF op
  <1>13. \A n \in 1..(Len(O) - 1) :
           src[n].kind = "Register" /\ Key(src[n].register) = KeyOf(O[n + 1].reg)
    BY <1>8, <1>9, <1>10
  <1>14. /\ dest[1].kind = "Register" /\ Key(dest[1].register) = KeyOf(O[1].reg)
         /\ is_zero(dest[1].register) <=> O[1].reg[1] = "RZ"
    BY <1>8, <1>9, <1>11
  <1> QED BY <1>1, <1>7, <1>8, <1>10, <1>11, <1>12, <1>13, <1>14, Zenon DEF O, dest, src

(* What it records and looks up are its own registers. *)
Values(f) == {f[x] : x \in DOMAIN f}
LookedUp(writers, line) == {writers[reg] : reg \in Reads(line) \cap DOMAIN writers}

LEMMA PlainEffects ==
  ASSUME NEW line \in Line, \A m \in DOMAIN line.rest : WellWritten(line.rest[m].operand),
         Plainly(line), NEW inst, ReadFrom(inst, line)
  PROVE  /\ Written_by(inst) = Writes(line)
         /\ \A reg \in Writes(line) : reg[1] # "RZ"
         /\ \A writers : (\A reg \in DOMAIN writers : reg[1] # "RZ") =>
              Values(Dependencies(writers, inst)) = LookedUp(writers, line)
  <1> DEFINE O == Operands_of(line)
             dest == inst.dest_operands
             src == inst.src_operands
  <1>1. /\ Len(O) \in Nat \ {0}
        /\ \A n \in 1..Len(O) : O[n].reg[1] = "RZ" <=> O[n].reg = <<"RZ", 0>>
        /\ DOMAIN dest = {1} /\ dest[1].kind = "Register"
        /\ Key(dest[1].register) = KeyOf(O[1].reg)
        /\ is_zero(dest[1].register) <=> O[1].reg[1] = "RZ"
        /\ Len(src) = Len(O) - 1 /\ DOMAIN src = 1..(Len(O) - 1)
        /\ \A n \in 1..(Len(O) - 1) :
             src[n].kind = "Register" /\ Key(src[n].register) = KeyOf(O[n + 1].reg)
    BY PlainLine
  <1>2. 1 \in 1..Len(O) /\ 2..Len(O) = {n + 1 : n \in 1..(Len(O) - 1)}
    <2> DEFINE k == Len(O)
    <2>1. k \in Nat /\ k # 0
      BY <1>1
    <2> HIDE DEF k
    <2>2. \A m \in 2..k : m - 1 \in 1..(k - 1) /\ m = (m - 1) + 1
      BY <2>1
    <2>3. \A n \in 1..(k - 1) : n + 1 \in 2..k
      BY <2>1
    <2>4. 1 \in 1..k
      BY <2>1
    <2> QED BY <2>2, <2>3, <2>4 DEF k
  <1>3. Written_by(inst) = {Key(r) : r \in {q \in {dest[1].register} : ~is_zero(q)}}
    <2>1. Registers(dest) = {dest[1].register}
      <3> HIDE DEF dest
      <3>1. {m \in DOMAIN dest : dest[m].kind = "Register"} = {1}
        BY <1>1
      <3> QED BY <3>1 DEF Registers
    <2> QED BY <2>1, Zenon DEF Written_by
  <1>4. Writes(line) = {O[1].reg} \ {<<"RZ", 0>>} /\ Reads(line) = {O[n].reg : n \in 2..Len(O)}
    BY DEF Writes, Reads
  <1>5. ASSUME NEW writers, \A reg \in DOMAIN writers : reg[1] # "RZ"
        PROVE  Values(Dependencies(writers, inst)) = {writers[reg] : reg \in Reads(line) \cap DOMAIN writers}
    <2> DEFINE key(n) == Key(src[n].register)
               places == {n \in DOMAIN src : src[n].kind = "Register" /\ key(n) \in DOMAIN writers}
               sources == Filtered(src, places)
               N == Len(O) - 1
    <2>1. N \in Nat /\ Len(src) = N /\ DOMAIN src = 1..N
      BY <1>1
    <2>2. places = {n \in 1..N : key(n) \in DOMAIN writers}
      BY <1>1, <2>1
    <2>3. Dependencies(writers, inst) = [n \in DOMAIN sources |-> writers[Key(sources[n].register)]]
      BY Zenon DEF Dependencies
    <2> HIDE DEF src, O, N
    <2>4. IsSelection(sources, src, places, N)
      <3> HIDE DEF places
      <3> QED BY <2>1, SelectionIs
    <2> HIDE DEF sources, places
    <2>5. /\ DOMAIN sources = 1..Len(sources)
          /\ {sources[k] : k \in 1..Len(sources)} = {src[m] : m \in places \cap 1..N}
      <3>1. /\ sources \in Seq({src[m] : m \in 1..N})
            /\ {sources[k] : k \in 1..Len(sources)} = {src[m] : m \in places \cap 1..N}
        BY <2>4, Zenon DEF IsSelection
      <3>2. DOMAIN sources = 1..Len(sources)
        BY <3>1
      <3> QED BY <3>1, <3>2
    <2>6. Values(Dependencies(writers, inst)) = {writers[Key(sources[n].register)] : n \in 1..Len(sources)}
      BY <2>3, <2>5 DEF Values
    <2>7. {writers[Key(sources[n].register)] : n \in 1..Len(sources)}
            = {writers[key(m)] : m \in places \cap 1..N}
      <3>1. \A n \in 1..Len(sources) : \E m \in places \cap 1..N : sources[n] = src[m]
        BY <2>5
      <3>2. \A m \in places \cap 1..N : \E n \in 1..Len(sources) : sources[n] = src[m]
        BY <2>5
      <3> DEFINE of_register(r) == writers[Key(r)]
                 R == {sources[n].register : n \in 1..Len(sources)}
                 Q == {src[m].register : m \in places \cap 1..N}
      <3>3. R = Q
        <4>1. ASSUME NEW n \in 1..Len(sources)
              PROVE  sources[n].register \in Q
          <5>1. PICK m \in places \cap 1..N : sources[n] = src[m]
            BY <3>1
          <5> QED BY <5>1, Zenon
        <4>2. ASSUME NEW m \in places \cap 1..N
              PROVE  src[m].register \in R
          <5>1. PICK n \in 1..Len(sources) : sources[n] = src[m]
            BY <3>2
          <5> QED BY <5>1, Zenon
        <4> QED BY <4>1, <4>2, Zenon
      <3>4. {writers[Key(sources[n].register)] : n \in 1..Len(sources)} = {of_register(r) : r \in R}
        OBVIOUS
      <3>5. {writers[key(m)] : m \in places \cap 1..N} = {of_register(r) : r \in Q}
        OBVIOUS
      <3> HIDE DEF of_register, R, Q
      <3> QED BY <3>3, <3>4, <3>5, Zenon
    <2>8. {writers[key(m)] : m \in places \cap 1..N} = {writers[key(m)] : m \in {n \in 1..N : key(n) \in DOMAIN writers}}
      <3>1. places \cap 1..N = {n \in 1..N : key(n) \in DOMAIN writers}
        BY <2>2
      <3> HIDE DEF key
      <3> QED BY <3>1
    <2>9. \A n \in 1..N : key(n) = KeyOf(O[n + 1].reg) /\ n + 1 \in 2..Len(O) /\ n + 1 \in 1..Len(O)
      BY <1>1, <1>2, <2>1 DEF N, src, O
    <2>10. ASSUME NEW n \in 1..N
           PROVE  /\ key(n) \in DOMAIN writers <=> O[n + 1].reg \in DOMAIN writers
                  /\ key(n) \in DOMAIN writers => key(n) = O[n + 1].reg
      <3>1. key(n) = KeyOf(O[n + 1].reg)
        BY <2>9
      <3> HIDE DEF key
      <3>2. CASE O[n + 1].reg[1] = "RZ"
        <4>1. key(n) = <<"RZ", 255>>
          BY <3>1, <3>2 DEF KeyOf
        <4>2. key(n)[1] = "RZ"
          BY <4>1
        <4> QED BY <1>5, <3>2, <4>2
      <3>3. CASE O[n + 1].reg[1] # "RZ"
        BY <3>1, <3>3 DEF KeyOf
      <3> QED BY <3>2, <3>3
    <2>11. {writers[key(m)] : m \in {n \in 1..N : key(n) \in DOMAIN writers}}
             = {writers[reg] : reg \in Reads(line) \cap DOMAIN writers}
      <3>1. Reads(line) = {O[n + 1].reg : n \in 1..N}
        BY <1>2, <1>4 DEF N, O
      <3> HIDE DEF key
      <3>2. \A m \in 1..N : key(m) \in DOMAIN writers =>
              O[m + 1].reg \in Reads(line) \cap DOMAIN writers /\ writers[key(m)] = writers[O[m + 1].reg]
        BY <2>10, <3>1
      <3>3. \A reg \in Reads(line) \cap DOMAIN writers :
              \E m \in 1..N : key(m) \in DOMAIN writers /\ writers[key(m)] = writers[reg]
        BY <2>10, <3>1
      <3> QED BY <3>2, <3>3
    <2> QED BY <2>6, <2>7, <2>8, <2>11
  <1> HIDE DEF dest, src
  <1>6. Written_by(inst) = Writes(line) /\ \A reg \in Writes(line) : reg[1] # "RZ"
    <2>1. O[1].reg[1] = "RZ" <=> O[1].reg = <<"RZ", 0>>
      BY <1>1, <1>2
    <2> DEFINE d == O[1].reg
               r == dest[1].register
    <2>2. Key(r) = KeyOf(d) /\ (is_zero(r) <=> d[1] = "RZ")
      BY <1>1
    <2> HIDE DEF O, d, r
    <2>3. CASE d[1] = "RZ"
      <3>1. Writes(line) = {}
        BY <1>4, <2>1, <2>3 DEF d
      <3>2. Written_by(inst) = {}
        BY <1>3, <2>2, <2>3 DEF r
      <3> QED BY <3>1, <3>2
    <2>4. CASE d[1] # "RZ"
      <3>1. Writes(line) = {d}
        BY <1>4, <2>1, <2>4 DEF d
      <3>2. Key(r) = d /\ ~is_zero(r)
        BY <2>2, <2>4 DEF KeyOf
      <3>3. Written_by(inst) = {d}
        BY <1>3, <3>2 DEF r
      <3> QED BY <2>4, <3>1, <3>3
    <2> QED BY <2>3, <2>4
  <1> QED BY <1>5, <1>6, Zenon DEF LookedUp
-----------------------------------------------------------------------------
(***************************************************************************)
(* last_writer against the lines: after the lines A of ls, it holds every  *)
(* register they write, with the address of the last one that does.        *)
(***************************************************************************)
IsLast(k, reg, ls, A) ==
  k \in A /\ reg \in Writes(ls[k]) /\ \A l \in A : l > k => reg \notin Writes(ls[l])

WritersAre(writers, ls, A) ==
  /\ DOMAIN writers = UNION {Writes(ls[k]) : k \in A}
  /\ \A reg \in DOMAIN writers :
       \E k \in A : IsLast(k, reg, ls, A) /\ writers[reg] = ls[k].address

LastSources(n, ls, A) ==
  {ls[k].address : k \in {l \in A : \E reg \in Writes(ls[l]) \cap Reads(ls[n]) :
                                      \A m \in A : m > l => reg \notin Writes(ls[m])}}

LEMMA RecordedStep ==
  ASSUME NEW writers, NEW ls, NEW A, A \subseteq Nat, NEW n \in Nat, \A k \in A : k < n,
         WritersAre(writers, ls, A), NEW inst,
         Written_by(inst) = Writes(ls[n]), inst.address = ls[n].address
  PROVE  WritersAre(Recorded(writers, inst), ls, A \cup {n})
  <1> DEFINE B == A \cup {n}
             after == Recorded(writers, inst)
             W(k) == Writes(ls[k])
             old == DOMAIN writers
  <1>1. after = [k \in old \cup W(n) |-> IF k \in W(n) THEN ls[n].address ELSE writers[k]]
    BY Zenon DEF Recorded
  <1>2. /\ old = UNION {W(k) : k \in A}
        /\ \A reg \in old : \E k \in A : IsLast(k, reg, ls, A) /\ writers[reg] = ls[k].address
    BY DEF WritersAre
  <1>3. \A k, reg : IsLast(k, reg, ls, A) <=>
                      k \in A /\ reg \in W(k) /\ \A l \in A : l > k => reg \notin W(l)
    BY DEF IsLast
  <1>4. \A k, reg : IsLast(k, reg, ls, B) <=>
                      k \in B /\ reg \in W(k) /\ \A l \in B : l > k => reg \notin W(l)
    BY DEF IsLast
  <1>5. DOMAIN after = old \cup W(n)
    BY <1>1
  <1>6. \A reg \in W(n) : after[reg] = ls[n].address
    BY <1>1
  <1>7. \A reg \in old : reg \notin W(n) => after[reg] = writers[reg]
    BY <1>1
  <1> HIDE DEF after, W, old
  <1>8. DOMAIN after = UNION {W(k) : k \in B}
    BY <1>2, <1>5
  <1>9. ASSUME NEW reg \in DOMAIN after
        PROVE  \E k \in B : IsLast(k, reg, ls, B) /\ after[reg] = ls[k].address
    <2>1. CASE reg \in W(n)
      <3>1. IsLast(n, reg, ls, B)
        <4>1. \A l \in B : ~(l > n)
          OBVIOUS
        <4> QED BY <1>4, <2>1, <4>1
      <3> QED BY <1>6, <2>1, <3>1
    <2>2. CASE reg \notin W(n)
      <3>1. reg \in old
        BY <1>5, <2>2
      <3>2. PICK k \in A : IsLast(k, reg, ls, A) /\ writers[reg] = ls[k].address
        BY <1>2, <3>1
      <3>3. IsLast(k, reg, ls, B)
        BY <1>3, <1>4, <2>2, <3>2
      <3> QED BY <1>7, <2>2, <3>1, <3>2, <3>3
    <2> QED BY <2>1, <2>2
  <1> QED BY <1>8, <1>9 DEF WritersAre, after, W

LEMMA DependsStep ==
  ASSUME NEW writers, NEW ls, NEW A, A \subseteq Nat, WritersAre(writers, ls, A)
  PROVE  \A n : LookedUp(writers, ls[n]) = LastSources(n, ls, A)
  <1> SUFFICES ASSUME NEW n
               PROVE  LookedUp(writers, ls[n]) = LastSources(n, ls, A)
    OBVIOUS
  <1> DEFINE W(k) == Writes(ls[k])
             R == Reads(ls[n])
             source(l) == \E reg \in W(l) \cap R : \A m \in A : m > l => reg \notin W(m)
             old == DOMAIN writers
             address(k) == ls[k].address
  <1>1. LastSources(n, ls, A) = {address(k) : k \in {l \in A : source(l)}}
    BY Zenon DEF LastSources
  <1>2. /\ old = UNION {W(k) : k \in A}
        /\ \A reg \in old : \E k \in A : IsLast(k, reg, ls, A) /\ writers[reg] = address(k)
    BY DEF WritersAre
  <1>3. \A k, reg : IsLast(k, reg, ls, A) <=>
                      k \in A /\ reg \in W(k) /\ \A l \in A : l > k => reg \notin W(l)
    BY DEF IsLast
  <1> HIDE DEF W, R, old, address
  <1>4. ASSUME NEW reg \in R \cap old
        PROVE  \E k \in {l \in A : source(l)} : writers[reg] = address(k)
    <2>1. PICK k \in A : IsLast(k, reg, ls, A) /\ writers[reg] = address(k)
      BY <1>2
    <2>2. source(k)
      BY <1>3, <2>1
    <2> HIDE DEF source
    <2> QED BY <2>1, <2>2
  <1>5. ASSUME NEW k \in A, source(k)
        PROVE  \E reg \in R \cap old : writers[reg] = address(k)
    <2>1. PICK reg \in W(k) \cap R : \A m \in A : m > k => reg \notin W(m)
      BY <1>5
    <2>2. reg \in old
      BY <1>2, <2>1
    <2>3. PICK l \in A : IsLast(l, reg, ls, A) /\ writers[reg] = address(l)
      BY <1>2, <2>2
    <2>4. l = k
      <3>1. ~(l > k) /\ ~(k > l)
        BY <1>3, <2>1, <2>3
      <3> QED BY <3>1
    <2> QED BY <2>1, <2>2, <2>3, <2>4
  <1> HIDE DEF source
  <1>6. {writers[reg] : reg \in R \cap old} = {address(k) : k \in {l \in A : source(l)}}
    BY <1>4, <1>5
  <1> QED BY <1>1, <1>6, Zenon DEF R, old, LookedUp

-----------------------------------------------------------------------------
(* The walk over the data flow. *)

AllPlain == \A n \in DOMAIN lines : IsRead(lines[n]) => Plainly(lines[n])
Analyzed(i) == phase = "done" \/ (phase = "flow" /\ i < at)

FlowInv ==
  AllPlain =>
    /\ phase \in {"parse", "targets", "blocks"} => last_writer = <<>>
    /\ phase = "flow" => WritersAre(last_writer, lines, Before(of, at))
    /\ \A i \in 1..Len(of) :
         Analyzed(i) => Values(instructions[i].data_dependencies)
                          = LastSources(of[i], lines, Before(of, i))

LEMMA FlowInitial == Init => FlowInv
  <1> SUFFICES ASSUME Init
               PROVE  FlowInv
    OBVIOUS
  <1>1. phase = "parse" /\ of = <<>> /\ last_writer = <<>>
    BY DEF Init
  <1>2. \A i : ~Analyzed(i)
    BY <1>1 DEF Analyzed
  <1> QED BY <1>1, <1>2 DEF FlowInv

(* The line an instruction was read from. *)
LEMMA LineOfInstruction ==
  ASSUME ReadInv, NEW i \in 1..Len(of)
  PROVE  /\ of[i] \in 1..Len(lines) /\ lines[of[i]] \in Line /\ IsRead(lines[of[i]])
         /\ \A m \in DOMAIN lines[of[i]].rest : WellWritten(lines[of[i]].rest[m].operand)
         /\ ReadFrom(instructions[i], lines[of[i]])
  <1>1. Len(lines) \in Nat
    BY ListingIs DEF ReadInv
  <1> DEFINE n == IF phase = "parse" THEN at - 1 ELSE Len(lines)
  <1>2. n \in Nat /\ n <= Len(lines) /\ LinesRead(of, lines, n)
    BY <1>1 DEF ReadInv
  <1> HIDE DEF n
  <1>3. of[i] \in {k \in 1..n : IsRead(lines[k])}
    BY <1>2 DEF LinesRead
  <1>4. of[i] \in 1..Len(lines) /\ IsRead(lines[of[i]])
    BY <1>1, <1>2, <1>3
  <1>5. ReadFrom(instructions[i], lines[of[i]])
    BY DEF ReadInv, InstructionsRead
  <1>6. lines \in Listings
    BY DEF ReadInv
  <1> QED BY <1>4, <1>5, <1>6, ListingIs

LEMMA FlowNext ==
  ASSUME ReadInv, FlowInv, [Next]_flow_vars
  PROVE  FlowInv'
  <1>1. /\ phase \in {"parse", "targets", "blocks", "flow", "done"} /\ at \in Nat \ {0}
        /\ phase \notin {"parse", "done"} => at <= Len(of) + 1
        /\ IsSequence(instructions) /\ Len(instructions) = Len(of) /\ Len(of) \in Nat
        /\ IsSequence(of)
    BY DEF ReadInv, InstructionsRead, LinesRead, IsSequence
  <1>2. lines' = lines
    BY DEF Next, ParseLine, SkipLine, NextPhase, CollectTargets, AssignBlock, AnalyzeInstruction,
           Finished, flow_vars
  <1>3. AllPlain' <=> AllPlain
    BY <1>2 DEF AllPlain
  <1> SUFFICES ASSUME AllPlain
               PROVE  FlowInv'
    BY <1>3 DEF FlowInv
  <1>4. /\ phase \in {"parse", "targets", "blocks"} => last_writer = <<>>
        /\ phase = "flow" => WritersAre(last_writer, lines, Before(of, at))
        /\ \A i \in 1..Len(of) :
             Analyzed(i) => Values(instructions[i].data_dependencies)
                              = LastSources(of[i], lines, Before(of, i))
    BY DEF FlowInv
  <1>5. ASSUME phase \in {"parse", "targets", "blocks"}, phase' = phase, last_writer' = last_writer
        PROVE  FlowInv'
    <2>1. phase' \in {"parse", "targets", "blocks"} /\ last_writer' = <<>>
      BY <1>4, <1>5
    <2>2. \A i : ~Analyzed(i)'
      BY <2>1 DEF Analyzed
    <2> QED BY <2>1, <2>2 DEF FlowInv
  <1>6. CASE ParseLine
    BY <1>5, <1>6 DEF ParseLine
  <1>7. CASE SkipLine
    BY <1>5, <1>7 DEF SkipLine
  <1>8. CASE CollectTargets
    BY <1>5, <1>8 DEF CollectTargets, Walking
  <1>9. CASE AssignBlock
    BY <1>5, <1>9 DEF AssignBlock, Walking
  <1>10. CASE NextPhase
    <2>1. /\ phase # "done" /\ phase' = Following[phase] /\ at' = 1
          /\ at > (IF phase = "parse" THEN Len(lines) ELSE Len(instructions))
          /\ of' = of /\ instructions' = instructions /\ last_writer' = last_writer
      BY <1>10 DEF NextPhase
    <2>2. CASE phase \in {"parse", "targets"}
      <3>1. phase' \in {"targets", "blocks"} /\ last_writer' = <<>>
        BY <1>4, <2>1, <2>2 DEF Following
      <3>2. \A i : ~Analyzed(i)'
        BY <3>1 DEF Analyzed
      <3> QED BY <3>1, <3>2 DEF FlowInv
    <2>3. CASE phase = "blocks"
      <3>1. phase' = "flow" /\ last_writer' = <<>>
        BY <1>4, <2>1, <2>3 DEF Following
      <3>2. Before(of', at') = {}
        BY <2>1 DEF Before
      <3>3. WritersAre(<<>>, lines, {})
        BY DEF WritersAre
      <3>4. \A i \in 1..Len(of) : ~Analyzed(i)'
        BY <1>1, <2>1, <3>1 DEF Analyzed
      <3> QED BY <1>2, <2>1, <3>1, <3>2, <3>3, <3>4 DEF FlowInv
    <2>4. CASE phase = "flow"
      <3>1. phase' = "done"
        BY <2>1, <2>4 DEF Following
      <3>2. \A i \in 1..Len(of) : Analyzed(i)
        BY <1>1, <2>1, <2>4 DEF Analyzed
      <3> QED BY <1>2, <1>4, <2>1, <3>1, <3>2 DEF FlowInv
    <2> QED BY <1>1, <2>1, <2>2, <2>3, <2>4
  <1>11. CASE AnalyzeInstruction
    <2> DEFINE inst == instructions[at]
               deps == Dependencies(last_writer, inst)
               A == Before(of, at)
               changed == [inst EXCEPT !.data_dependencies = deps]
    <2>1. /\ phase = "flow" /\ at <= Len(instructions) /\ at' = at + 1 /\ phase' = phase /\ of' = of
          /\ last_writer' = Recorded(last_writer, inst)
          /\ instructions' = [instructions EXCEPT ![at] = changed]
      BY <1>11 DEF AnalyzeInstruction, Walking, Here
    <2>2. at \in 1..Len(of)
      BY <1>1, <2>1
    <2> DEFINE line == lines[of[at]]
    <2>3. /\ of[at] \in 1..Len(lines) /\ line \in Line /\ IsRead(line) /\ ReadFrom(inst, line)
          /\ \A m \in DOMAIN line.rest : WellWritten(line.rest[m].operand)
      BY <2>2, LineOfInstruction
    <2>4. Plainly(line)
      <3>1. DOMAIN lines = 1..Len(lines)
        BY ListingIs DEF ReadInv
      <3> QED BY <2>3, <3>1 DEF AllPlain
    <2>5. inst.address = line.address /\ "data_dependencies" \in DOMAIN inst
      BY <2>3 DEF ReadFrom
    <2>6. A \subseteq Nat /\ \A k \in A : k < of[at]
      <3>1. \A j \in 1..(at - 1) : j \in 1..Len(of) /\ j < at
        BY <2>2, <1>1
      <3>2. /\ \A j \in 1..Len(of) : of[j] \in Nat
            /\ \A j, k \in 1..Len(of) : j < k => of[j] < of[k]
        <4>1. \A j \in 1..Len(of) : of[j] \in 1..Len(lines)
          BY LineOfInstruction
        <4>2. \A j, k \in 1..Len(of) : j < k => of[j] < of[k]
          BY DEF ReadInv, LinesRead
        <4> QED BY <4>1, <4>2
      <3> QED BY <2>2, <3>1, <3>2 DEF Before
    <2>7. WritersAre(last_writer, lines, A)
      BY <1>4, <2>1
    <2> HIDE DEF inst, A, line
    <2>8. /\ Written_by(inst) = Writes(line)
          /\ \A writers : (\A reg \in DOMAIN writers : reg[1] # "RZ") =>
               Values(Dependencies(writers, inst)) = LookedUp(writers, line)
      BY <2>3, <2>4, PlainEffects
    <2>9. \A reg \in DOMAIN last_writer : reg[1] # "RZ"
      <3>1. ASSUME NEW k \in A
            PROVE  \A reg \in Writes(lines[k]) : reg[1] # "RZ"
        <4>1. PICK j \in 1..(at - 1) : k = of[j]
          BY DEF A, Before
        <4>2. j \in 1..Len(of)
          BY <1>1, <2>2
        <4>3. /\ k \in 1..Len(lines) /\ lines[k] \in Line /\ IsRead(lines[k])
              /\ ReadFrom(instructions[j], lines[k])
              /\ \A m \in DOMAIN lines[k].rest : WellWritten(lines[k].rest[m].operand)
          BY <4>1, <4>2, LineOfInstruction
        <4>4. Plainly(lines[k])
          <5>1. DOMAIN lines = 1..Len(lines)
            BY ListingIs DEF ReadInv
          <5> QED BY <4>3, <5>1 DEF AllPlain
        <4> QED BY <4>3, <4>4, PlainEffects
      <3> QED BY <2>7, <3>1 DEF WritersAre
    <2>10. Values(deps) = LastSources(of[at], lines, A)
      <3>1. Values(deps) = LookedUp(last_writer, line)
        BY <2>8, <2>9
      <3>2. \A n : LookedUp(last_writer, lines[n]) = LastSources(n, lines, A)
        <4>1. A \subseteq Nat
          BY <2>6
        <4> QED BY <2>7, <4>1, DependsStep, Zenon
      <3> HIDE DEF deps
      <3> QED BY <3>1, <3>2, Zenon DEF line
    <2>11. WritersAre(last_writer', lines, Before(of, at + 1))
      <3>1. WritersAre(Recorded(last_writer, inst), lines, A \cup {of[at]})
        <4>1. of[at] \in Nat
          BY <2>3
        <4> QED BY <2>5, <2>6, <2>7, <2>8, <4>1, RecordedStep DEF line
      <3>2. Before(of, at + 1) = A \cup {of[at]}
        <4>1. 1..((at + 1) - 1) = (1..(at - 1)) \cup {at}
          BY <1>1
        <4> QED BY <4>1 DEF A, Before
      <3> QED BY <2>1, <3>1, <3>2
    <2>12. ASSUME NEW i \in 1..Len(of), i < at + 1
           PROVE  Values(instructions'[i].data_dependencies) = LastSources(of[i], lines, Before(of, i))
      <3>1. at \in 1..Len(instructions) /\ i \in 1..Len(instructions)
        BY <1>1, <2>2
      <3> HIDE DEF changed
      <3>2. instructions'[at] = changed /\ (i # at => instructions'[i] = instructions[i])
        BY <1>1, <2>1, <3>1, ExceptIs
      <3>3. CASE i = at
        <4>1. changed.data_dependencies = deps
          BY <2>5 DEF changed
        <4> QED BY <2>10, <3>2, <3>3, <4>1 DEF A
      <3>4. CASE i # at
        <4>1. i < at
          BY <1>1, <2>12, <3>4
        <4>2. Analyzed(i)
          BY <2>1, <4>1 DEF Analyzed
        <4> QED BY <1>4, <3>2, <3>4, <4>2
      <3> QED BY <3>3, <3>4
    <2>13. \A i \in 1..Len(of) : Analyzed(i)' => i < at + 1
      BY <2>1 DEF Analyzed
    <2> QED BY <1>2, <2>1, <2>11, <2>12, <2>13 DEF FlowInv
  <1>12. CASE UNCHANGED flow_vars
    <2>1. FlowInv' <=> FlowInv
      BY <1>12 DEF FlowInv, flow_vars, AllPlain, Analyzed
    <2> QED BY <2>1
  <1> QED BY <1>6, <1>7, <1>8, <1>9, <1>10, <1>11, <1>12 DEF Next, Finished

LEMMA FlowGivesDependencies ==
  ASSUME ReadInv, FlowInv
  PROVE  DependenciesAreLastWrites
  <1> SUFFICES ASSUME phase = "done", AllPlain, NEW i \in DOMAIN instructions
               PROVE  Values(instructions[i].data_dependencies)
                        = LastSources(of[i], lines, {k \in 1..(of[i] - 1) : IsRead(lines[k])})
    BY Zenon DEF DependenciesAreLastWrites, AllPlain, Values, LastSources
  <1>1. i \in 1..Len(of)
    BY SequenceDomain DEF ReadInv, InstructionsRead
  <1>2. Before(of, i) = {k \in 1..(of[i] - 1) : IsRead(lines[k])}
    <2>1. LinesRead(of, lines, Len(lines)) /\ Len(lines) \in Nat
      BY ListingIs DEF ReadInv
    <2> QED BY <1>1, <2>1, BeforeIsAbove
  <1>3. Analyzed(i)
    BY DEF Analyzed
  <1> QED BY <1>1, <1>2, <1>3 DEF FlowInv

(***************************************************************************)
(* text.rs:324-346: where every operand is a general register, the         *)
(* dependencies of an instruction are the addresses of the instructions    *)
(* that last wrote what it reads, in every listing.                        *)
(***************************************************************************)
THEOREM DependenciesAreTheDataFlow == Spec => []DependenciesAreLastWrites
  <1>1. FlowInv /\ ReadInv /\ [Next]_flow_vars => FlowInv'
    BY FlowNext
  <1>2. Spec => []FlowInv
    BY <1>1, FlowInitial, ReadInvariant, PTL DEF Spec
  <1> QED BY <1>2, ReadInvariant, FlowGivesDependencies, PTL
=============================================================================
