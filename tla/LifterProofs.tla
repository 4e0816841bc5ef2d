---------------------------- MODULE LifterProofs ----------------------------
(***************************************************************************)
(* For every listing, every call and every module: instructions are read   *)
(* in order, under their function and line and with their encodings; each  *)
(* kernel is lifted for the architecture of its cubin; and the lift is the *)
(* one PerFunction promises.                                               *)
(***************************************************************************)
EXTENDS Lifter, SequenceTheorems, WellFoundedInduction, TLAPS

KernelGroup == [name: Name \cup Unspecified, instructions: Seq(Instruction)]
Kernel == [name: Name \cup Unspecified, instructions: Seq(Instruction), sm_version: Nat,
           nvinfo: Name \cup {NoInfo}]
Phase == {"start", "dump", "read", "group", "lift", "returned", "failed"}

ReadingTypeOK ==
  /\ listing \in Seq(ListingLine)
  /\ listing # <<>> => listing \in Listings
  /\ at \in 1 .. (Len(listing) + 1)
  /\ current_function \in Name \cup {NoFunction}
  /\ current_file \in File
  /\ current_line \in Nat
  /\ instructions \in Seq(Instruction)

TypeOK ==
  /\ ReadingTypeOK
  /\ call \in Calls
  /\ module \in Modules
  /\ phase \in Phase
  /\ options \in Options
  /\ ctx_nvinfo \in Name \cup {NoInfo}
  /\ groups \in Seq(KernelGroup)
  /\ grouped \in 0 .. Len(instructions)
  /\ kernels \in Seq(Kernel)

-----------------------------------------------------------------------------
(* Selections of instructions. *)

(* Induction over the naturals: every set with 0 and closed under successor has them all. *)
LEMMA Induction ==
  ASSUME NEW S, 0 \in S, \A n \in Nat : n \in S => n + 1 \in S
  PROVE  Nat \subseteq S
<1> DEFINE T == Nat \ S
           R == OpToRel(<, Nat)
<1>1. SUFFICES ASSUME T # {} PROVE FALSE
  OBVIOUS
<1>2. PICK n \in T : \A m \in T : ~(<<m, n>> \in R)
  <2>1. IsWellFoundedOn(R, Nat)
    BY NatLessThanWellFounded
  <2> HIDE DEF R
  <2> QED
    BY <1>1, <2>1, WFMin
<1>3. R = {ss \in Nat \X Nat : ss[1] < ss[2]}
  BY Zenon DEF OpToRel
<1> HIDE DEF R
<1>4. n \in Nat /\ n # 0 /\ n \notin S
  BY <1>2
<1>5. n - 1 \in Nat /\ n - 1 < n /\ (n - 1) + 1 = n
  BY <1>4
<1>6. n - 1 \notin S
  BY <1>4, <1>5
<1>7. <<n - 1, n>> \in R
  BY <1>3, <1>4, <1>5
<1>8. QED
  BY <1>2, <1>5, <1>6, <1>7

(* What Selection is, place by place. *)
LEMMA SelectionSteps ==
  ASSUME NEW places, NEW N \in Nat, N = Len(instructions)
  PROVE  /\ Selection(instructions, places)[0] = <<>>
         /\ \A n \in 1 .. N :
              Selection(instructions, places)[n] =
                IF n \in places THEN Append(Selection(instructions, places)[n - 1], instructions[n])
                ELSE Selection(instructions, places)[n - 1]
<1> DEFINE Step(t, n) == IF n \in places THEN Append(t, instructions[n]) ELSE t
           IsUpto(g, k) == g = [n \in 0 .. k |-> IF n = 0 THEN <<>> ELSE Step(g[n - 1], n)]
           S == {k \in Nat : \E g : IsUpto(g, k)}
<1>1. 0 \in S
  <2>1. IsUpto([n \in 0 .. 0 |-> <<>>], 0)
    OBVIOUS
  <2>2. QED
    BY <2>1
<1>2. ASSUME NEW k \in Nat, k \in S PROVE k + 1 \in S
  <2>1. PICK g : IsUpto(g, k)
    BY <1>2
  <2> HIDE DEF Step
  <2> DEFINE h == [n \in 0 .. (k + 1) |-> IF n = k + 1 THEN Step(g[k], k + 1) ELSE g[n]]
  <2>2. ASSUME NEW n \in 0 .. (k + 1)
        PROVE  h[n] = IF n = 0 THEN <<>> ELSE Step(h[n - 1], n)
    <3>1. CASE n = k + 1
      <4>1. h[n] = Step(g[k], k + 1) /\ n # 0 /\ n - 1 = k
        BY <3>1
      <4>2. h[k] = g[k]
        OBVIOUS
      <4>3. QED
        BY <3>1, <4>1, <4>2
    <3>2. CASE n \in 0 .. k
      <4>1. h[n] = g[n] /\ (n # 0 => h[n - 1] = g[n - 1])
        BY <3>2
      <4>2. g[n] = IF n = 0 THEN <<>> ELSE Step(g[n - 1], n)
        BY <2>1, <3>2
      <4>3. QED
        BY <4>1, <4>2
    <3>3. QED
      BY <3>1, <3>2
  <2>3. h = [n \in 0 .. (k + 1) |-> IF n = 0 THEN <<>> ELSE Step(h[n - 1], n)]
    BY <2>2
  <2> HIDE DEF h
  <2>4. QED
    BY <2>3
<1> HIDE DEF S
<1>3. N \in S
  BY <1>1, <1>2, Induction
<1>4. \E u : IsUpto(u, N)
  BY <1>3 DEF S
<1>5. IsUpto(Selection(instructions, places), N)
  BY <1>4 DEF Selection
<1> DEFINE g == Selection(instructions, places)
<1> HIDE DEF g
<1>6. \A n \in 0 .. N : g[n] = IF n = 0 THEN <<>> ELSE Step(g[n - 1], n)
  BY <1>5 DEF g
<1>7. g[0] = <<>> /\ \A n \in 1 .. N : g[n] = Step(g[n - 1], n)
  BY <1>6
<1>8. QED
  BY <1>7 DEF g

(* A selection is a sequence of instructions, of some only where a place is selected. *)
LEMMA SelectionTyped ==
  ASSUME NEW places, NEW N \in Nat, N = Len(instructions), instructions \in Seq(Instruction)
  PROVE  \A n \in 0 .. N : /\ Selection(instructions, places)[n] \in Seq(Instruction)
                           /\ Selection(instructions, places)[n] # <<>> <=> places \cap 1 .. n # {}
<1> DEFINE g == Selection(instructions, places)
           S == {n \in Nat : n <= N => /\ g[n] \in Seq(Instruction)
                                       /\ g[n] # <<>> <=> places \cap 1 .. n # {}}
<1> HIDE DEF g
<1>1. /\ g[0] = <<>>
      /\ \A n \in 1 .. N : g[n] = IF n \in places THEN Append(g[n - 1], instructions[n])
                                 ELSE g[n - 1]
  BY SelectionSteps DEF g
<1>2. 0 \in S
  <2>1. 1 .. 0 = {}
    OBVIOUS
  <2>2. QED
    BY <1>1, <2>1, EmptySeq
<1>3. ASSUME NEW n \in Nat, n \in S PROVE n + 1 \in S
  <2> SUFFICES ASSUME n + 1 <= N
               PROVE  /\ g[n + 1] \in Seq(Instruction)
                      /\ g[n + 1] # <<>> <=> places \cap 1 .. (n + 1) # {}
    OBVIOUS
  <2>1. n + 1 \in 1 .. N /\ (n + 1) - 1 = n
    OBVIOUS
  <2>2. g[n] \in Seq(Instruction) /\ (g[n] # <<>> <=> places \cap 1 .. n # {})
    <3>1. n <= N
      OBVIOUS
    <3>2. QED
      BY <1>3, <3>1
  <2>3. 1 .. (n + 1) = (1 .. n) \cup {n + 1}
    OBVIOUS
  <2>4. CASE n + 1 \in places
    <3>1. g[n + 1] = Append(g[n], instructions[n + 1])
      BY <1>1, <2>1, <2>4
    <3>2. instructions[n + 1] \in Instruction
      BY <2>1, ElementOfSeq
    <3>3. g[n + 1] \in Seq(Instruction) /\ g[n + 1] # <<>>
      BY <2>2, <3>1, <3>2, AppendProperties
    <3>4. QED
      BY <2>3, <2>4, <3>3
  <2>5. CASE n + 1 \notin places
    <3>1. g[n + 1] = g[n]
      BY <1>1, <2>1, <2>5
    <3>2. QED
      BY <2>2, <2>3, <2>5, <3>1
  <2>6. QED
    BY <2>4, <2>5
<1>4. Nat \subseteq S
  <2> HIDE DEF S
  <2> QED
    BY <1>2, <1>3, Induction
<1>5. ASSUME NEW n \in 0 .. N
      PROVE  g[n] \in Seq(Instruction) /\ (g[n] # <<>> <=> places \cap 1 .. n # {})
  <2>1. n \in Nat /\ n <= N /\ n \in S
    BY <1>4
  <2>2. QED
    BY <2>1
<1>6. QED
  BY <1>5 DEF g

(* All places together select everything. *)
LEMMA SelectionOfAll ==
  ASSUME NEW places, NEW N \in Nat, N = Len(instructions), instructions \in Seq(Instruction),
         1 .. N \subseteq places
  PROVE  Selection(instructions, places)[N] = instructions
<1> DEFINE g == Selection(instructions, places)
           S == {n \in Nat : n <= N => /\ g[n] \in Seq(Instruction) /\ Len(g[n]) = n
                                       /\ \A m \in 1 .. n : g[n][m] = instructions[m]}
<1> HIDE DEF g
<1>1. /\ g[0] = <<>>
      /\ \A n \in 1 .. N : g[n] = Append(g[n - 1], instructions[n])
  BY SelectionSteps DEF g
<1>2. 0 \in S
  <2>1. g[0] \in Seq(Instruction) /\ Len(g[0]) = 0
    BY <1>1, EmptySeq
  <2>2. \A m \in 1 .. 0 : FALSE
    OBVIOUS
  <2>3. QED
    BY <2>1, <2>2
<1>3. ASSUME NEW n \in Nat, n \in S PROVE n + 1 \in S
  <2> SUFFICES ASSUME n + 1 <= N
               PROVE  /\ g[n + 1] \in Seq(Instruction) /\ Len(g[n + 1]) = n + 1
                      /\ \A m \in 1 .. (n + 1) : g[n + 1][m] = instructions[m]
    OBVIOUS
  <2>1. n + 1 \in 1 .. N /\ (n + 1) - 1 = n
    OBVIOUS
  <2>2. /\ g[n] \in Seq(Instruction) /\ Len(g[n]) = n
        /\ \A m \in 1 .. n : g[n][m] = instructions[m]
    BY <1>3
  <2>3. g[n + 1] = Append(g[n], instructions[n + 1]) /\ instructions[n + 1] \in Instruction
    BY <1>1, <2>1, ElementOfSeq
  <2>4. /\ g[n + 1] \in Seq(Instruction)
        /\ Len(g[n + 1]) = n + 1
        /\ \A m \in 1 .. n : g[n + 1][m] = g[n][m]
        /\ g[n + 1][n + 1] = instructions[n + 1]
    BY <2>2, <2>3, AppendProperties
  <2>5. \A m \in 1 .. (n + 1) : m \in 1 .. n \/ m = n + 1
    OBVIOUS
  <2>6. QED
    BY <2>2, <2>4, <2>5
<1>4. Nat \subseteq S
  <2> HIDE DEF S
  <2> QED
    BY <1>2, <1>3, Induction
<1>5. /\ g[N] \in Seq(Instruction) /\ Len(g[N]) = N
      /\ \A m \in 1 .. N : g[N][m] = instructions[m]
  BY <1>4
<1>6. g[N] = instructions
  BY <1>5, SeqEqual
<1>7. QED
  BY <1>6 DEF g

-----------------------------------------------------------------------------
(* Reading. *)

(* One line more: the latest line of some kinds above. *)
LEMMA LatestStep ==
  ASSUME NEW n \in Nat \ {0}, NEW kinds
  PROVE  Latest(n + 1, kinds) =
           IF listing[n].kind \in kinds THEN {n} ELSE Latest(n, kinds)
<1>1. (n + 1) - 1 = n /\ 1 .. n = (1 .. (n - 1)) \cup {n}
  OBVIOUS
<1>2. CASE listing[n].kind \in kinds
  <2>1. \A m \in 1 .. n : (\A k \in (m + 1) .. n : listing[k].kind \notin kinds) => m = n
    <3> SUFFICES ASSUME NEW m \in 1 .. n, m # n,
                        \A k \in (m + 1) .. n : listing[k].kind \notin kinds
                 PROVE  FALSE
      OBVIOUS
    <3>1. n \in (m + 1) .. n
      OBVIOUS
    <3>2. QED
      BY <1>2, <3>1
  <2>2. n \in 1 .. n /\ \A k \in (n + 1) .. n : FALSE
    OBVIOUS
  <2>3. Latest(n + 1, kinds) = {n}
    BY <1>1, <1>2, <2>1, <2>2 DEF Latest
  <2>4. QED
    BY <1>2, <2>3
<1>3. CASE listing[n].kind \notin kinds
  <2>1. ASSUME NEW m \in 1 .. (n - 1)
        PROVE  (m + 1) .. n = ((m + 1) .. (n - 1)) \cup {n}
    OBVIOUS
  <2>2. Latest(n + 1, kinds) = Latest(n, kinds)
    BY <1>1, <1>3, <2>1 DEF Latest
  <2>3. QED
    BY <1>3, <2>2
<1>4. QED
  BY <1>2, <1>3

(* Hence the function and the line that a line stands under, one line on. *)
LEMMA UnderStep ==
  ASSUME NEW n \in Nat \ {0}
  PROVE  /\ FunctionOf(n + 1) =
              IF listing[n].kind = "function" THEN listing[n].name ELSE FunctionOf(n)
         /\ LineOf(n + 1) =
              IF listing[n].kind \in {"file", "line"} THEN listing[n].number ELSE LineOf(n)
<1>1. (CHOOSE m \in {n} : TRUE) = n
  OBVIOUS
<1>2. FunctionOf(n + 1) =
        IF listing[n].kind = "function" THEN listing[n].name ELSE FunctionOf(n)
  <2>1. Latest(n + 1, {"function"}) =
          IF listing[n].kind = "function" THEN {n} ELSE Latest(n, {"function"})
    BY LatestStep
  <2> DEFINE Named(above) ==
        IF above = {} THEN NoFunction ELSE listing[CHOOSE m \in above : TRUE].name
  <2>2. \A k : FunctionOf(k) = Named(Latest(k, {"function"}))
    BY DEF FunctionOf
  <2>3. Named({n}) = listing[n].name
    BY <1>1
  <2> HIDE DEF Named
  <2>4. QED
    BY <2>1, <2>2, <2>3
<1>3. LineOf(n + 1) =
        IF listing[n].kind \in {"file", "line"} THEN listing[n].number ELSE LineOf(n)
  <2>1. Latest(n + 1, {"file", "line"}) =
          IF listing[n].kind \in {"file", "line"} THEN {n} ELSE Latest(n, {"file", "line"})
    BY LatestStep
  <2> DEFINE Numbered(above) ==
        IF above = {} THEN 0 ELSE listing[CHOOSE m \in above : TRUE].number
  <2>2. \A k : LineOf(k) = Numbered(Latest(k, {"file", "line"}))
    BY DEF LineOf
  <2>3. Numbered({n}) = listing[n].number
    BY <1>1
  <2> HIDE DEF Numbered
  <2>4. QED
    BY <2>1, <2>2, <2>3
<1>4. QED
  BY <1>2, <1>3

(* Above the first line there is nothing. *)
LEMMA UnderStart == FunctionOf(1) = NoFunction /\ LineOf(1) = 0
<1>1. \A kinds : Latest(1, kinds) = {}
  BY DEF Latest
<1>2. QED
  BY <1>1 DEF FunctionOf, LineOf

(* The lines that may continue the encoding of the n-th instruction, and what it holds. *)
Beyond(n) == IF n = Len(instructions) THEN at ELSE instructions[n + 1].of
Continued(n) ==
  {listing[m].number : m \in {k \in (instructions[n].of + 1) .. (Beyond(n) - 1) :
                                listing[k].kind = "encoding" /\ listing[k].number # 0}}
EncodingFits(n) ==
  IF Continued(n) = {} THEN instructions[n].encoding_hi = 0
  ELSE instructions[n].encoding_hi \in Continued(n)

(* What the loop knows at the line it is at, beside what it has read. *)
ReadSoFar ==
  /\ ReadInOrder
  /\ current_function = FunctionOf(at)
  /\ current_line = LineOf(at)
  /\ \A n \in DOMAIN instructions : instructions[n].of \in 1 .. (at - 1)
  /\ CompleteLines = InstructionLines => \A n \in DOMAIN instructions : EncodingFits(n)

(* A line that leaves the instructions alone. *)
LEMMA LinePassed ==
  ASSUME ReadingTypeOK, ReadSoFar, Reading,
         at' = at + 1, listing' = listing, instructions' = instructions,
         current_function' = FunctionOf(at + 1), current_line' = LineOf(at + 1),
         ThisLine.kind \in {"function", "file", "name", "line", "other"}
  PROVE  ReadSoFar'
<1> USE DEF ThisLine
<1>1. at \in Nat \ {0} /\ at' - 1 = at /\ 1 .. at = (1 .. (at - 1)) \cup {at}
  BY DEF ReadingTypeOK
<1>2. InstructionLines' = InstructionLines /\ CompleteLines' = CompleteLines
  BY <1>1 DEF InstructionLines, CompleteLines
<1>3. (\A n : FunctionOf(n)' = FunctionOf(n)) /\ (\A n : LineOf(n)' = LineOf(n))
  BY DEF FunctionOf, LineOf, Latest
<1>4. ReadInOrder'
  BY <1>2, <1>3 DEF ReadSoFar, ReadInOrder
<1>5. ASSUME CompleteLines = InstructionLines, NEW n \in DOMAIN instructions
      PROVE  EncodingFits(n)'
  <2>1. instructions[n].of \in 1 .. (at - 1)
    BY DEF ReadSoFar
  <2>2. {k \in (instructions[n].of + 1) .. (at' - 1) :
           listing[k].kind = "encoding" /\ listing[k].number # 0} =
        {k \in (instructions[n].of + 1) .. (at - 1) :
           listing[k].kind = "encoding" /\ listing[k].number # 0}
    BY <1>1, <2>1
  <2>3. Continued(n)' = Continued(n)
    BY <2>2 DEF Continued, Beyond
  <2>4. EncodingFits(n)
    BY <1>5 DEF ReadSoFar
  <2>5. QED
    BY <2>3, <2>4 DEF EncodingFits
<1>6. \A n \in DOMAIN instructions' : instructions'[n].of \in 1 .. (at' - 1)
  BY <1>1 DEF ReadSoFar
<1>7. QED
  BY <1>2, <1>3, <1>4, <1>5, <1>6 DEF ReadSoFar

(* A line of an instruction, or one that continues an encoding. *)
LEMMA EncodingAttached ==
  ASSUME ReadingTypeOK, ReadSoFar, Reading,
         at' = at + 1, listing' = listing,
         current_function' = current_function, current_line' = current_line,
         \/ ThisLine.kind = "encoding"
         \/ ThisLine.kind = "instruction" /\ ~ThisLine.complete,
         instructions' =
           IF ThisLine.number = 0 \/ instructions = <<>> THEN instructions
           ELSE [instructions EXCEPT ![Len(instructions)].encoding_hi = ThisLine.number]
  PROVE  ReadSoFar' /\ instructions' \in Seq(Instruction) /\ Len(instructions') = Len(instructions)
<1> USE DEF ThisLine
<1> DEFINE N == Len(instructions)
<1>1. /\ at \in Nat \ {0} /\ at' - 1 = at /\ 1 .. at = (1 .. (at - 1)) \cup {at}
      /\ at \in 1 .. Len(listing) /\ listing[at] \in ListingLine
      /\ instructions \in Seq(Instruction)
      /\ N \in Nat /\ DOMAIN instructions = 1 .. N
  BY LenProperties, ElementOfSeq DEF ReadingTypeOK, Reading
<1>2. \A n \in 1 .. N : instructions[n] \in Instruction
  BY <1>1
<1>3. /\ instructions' \in Seq(Instruction)
      /\ Len(instructions') = N
      /\ \A n \in 1 .. N :
           /\ instructions'[n].of = instructions[n].of
           /\ instructions'[n].function_name = instructions[n].function_name
           /\ instructions'[n].ptx_line = instructions[n].ptx_line
           /\ instructions'[n].encoding_hi =
                IF n = N /\ listing[at].number # 0 THEN listing[at].number
                ELSE instructions[n].encoding_hi
  <2>1. CASE listing[at].number = 0 \/ instructions = <<>>
    <3>1. instructions' = instructions /\ (instructions = <<>> => N = 0)
      BY <2>1
    <3>2. QED
      BY <1>1, <2>1, <3>1
  <2>2. CASE ~(listing[at].number = 0 \/ instructions = <<>>)
    <3>1. N # 0 /\ N \in 1 .. N /\ instructions[N] \in Instruction
      BY <1>1, <1>2, <2>2, EmptySeq
    <3> DEFINE last == [instructions[N] EXCEPT !.encoding_hi = listing[at].number]
    <3>2. instructions' = [instructions EXCEPT ![N] = last]
      BY <2>2
    <3>3. /\ last \in Instruction
          /\ last.of = instructions[N].of
          /\ last.function_name = instructions[N].function_name
          /\ last.ptx_line = instructions[N].ptx_line
          /\ last.encoding_hi = listing[at].number
      BY <1>1, <3>1 DEF Instruction, ListingLine
    <3> HIDE DEF last
    <3>4. /\ instructions' \in Seq(Instruction)
          /\ Len(instructions') = N
          /\ \A n \in 1 .. N : instructions'[n] = IF n = N THEN last ELSE instructions[n]
      <4>1. instructions \in Seq(Instruction) /\ N \in 1 .. Len(instructions) /\ last \in Instruction
        BY <1>1, <3>1, <3>3
      <4> HIDE DEF N
      <4>2. /\ [instructions EXCEPT ![N] = last] \in Seq(Instruction)
            /\ Len([instructions EXCEPT ![N] = last]) = Len(instructions)
            /\ \A j \in 1 .. Len(instructions) :
                 [instructions EXCEPT ![N] = last][j] = IF j = N THEN last ELSE instructions[j]
        BY <4>1, ExceptSeq
      <4>3. QED
        BY <3>2, <4>2 DEF N
    <3>5. QED
      BY <2>2, <3>3, <3>4
  <2>3. QED
    BY <2>1, <2>2
<1>4. DOMAIN instructions' = 1 .. N
  BY <1>3, LenProperties
<1> HIDE DEF N
<1>5. CompleteLines' = CompleteLines
  BY <1>1 DEF InstructionLines, CompleteLines
<1>6. (\A n : FunctionOf(n)' = FunctionOf(n)) /\ (\A n : LineOf(n)' = LineOf(n))
  BY DEF FunctionOf, LineOf, Latest
<1>7. ReadInOrder'
  <2>1. {instructions'[n].of : n \in 1 .. N} = {instructions[n].of : n \in 1 .. N}
    BY <1>3
  <2>2. \A n \in 1 .. N :
          /\ instructions[n].function_name = FunctionOf(instructions[n].of)
          /\ instructions[n].ptx_line = LineOf(instructions[n].of)
    BY <1>1 DEF ReadSoFar, ReadInOrder
  <2>3. \A n, m \in 1 .. N : n < m => instructions[n].of < instructions[m].of
    BY <1>1 DEF ReadSoFar, ReadInOrder
  <2>4. {instructions[n].of : n \in 1 .. N} = CompleteLines
    BY <1>1 DEF ReadSoFar, ReadInOrder
  <2>5. QED
    BY <1>3, <1>4, <1>5, <1>6, <2>1, <2>2, <2>3, <2>4 DEF ReadInOrder
<1>8. current_function' = FunctionOf(at)' /\ current_line' = LineOf(at)'
  <2>1. FunctionOf(at + 1) = FunctionOf(at) /\ LineOf(at + 1) = LineOf(at)
    BY <1>1, UnderStep
  <2>2. FunctionOf(at)' = FunctionOf(at + 1) /\ LineOf(at)' = LineOf(at + 1)
    BY DEF FunctionOf, LineOf, Latest
  <2>3. QED
    BY <2>1, <2>2 DEF ReadSoFar
<1>9. \A n \in 1 .. N : instructions'[n].of \in 1 .. (at' - 1)
  BY <1>1, <1>3 DEF ReadSoFar
<1>10. ASSUME CompleteLines' = InstructionLines', NEW n \in 1 .. N
       PROVE  EncodingFits(n)'
  <2>1. /\ InstructionLines' = IF listing[at].kind = "instruction"
                               THEN InstructionLines \cup {at} ELSE InstructionLines
        /\ at \notin InstructionLines /\ CompleteLines \subseteq InstructionLines
    BY <1>1 DEF InstructionLines, CompleteLines
  <2>2. listing[at].kind = "encoding" /\ CompleteLines = InstructionLines
    BY <1>5, <1>10, <2>1
  <2>3. EncodingFits(n)
    BY <1>1, <2>2 DEF ReadSoFar
  <2>4. instructions[n].of \in 1 .. (at - 1)
    BY <1>1 DEF ReadSoFar
  <2>5. CASE n # N
    <3>1. n + 1 \in 1 .. N
      BY <1>1, <2>5
    <3>2. Continued(n)' = Continued(n)
      BY <1>3, <2>5, <3>1 DEF Continued, Beyond, N
    <3>3. QED
      BY <1>3, <2>3, <2>5, <3>2 DEF EncodingFits
  <2>6. CASE n = N
    <3> DEFINE Lines(b) == {k \in (instructions[n].of + 1) .. (b - 1) :
                              listing[k].kind = "encoding" /\ listing[k].number # 0}
    <3>1. Lines(at + 1) = IF listing[at].number # 0 THEN Lines(at) \cup {at} ELSE Lines(at)
      BY <1>1, <2>2, <2>4
    <3>2. /\ Continued(n) = {listing[m].number : m \in Lines(at)}
          /\ Continued(n)' = {listing[m].number : m \in Lines(at + 1)}
      BY <1>3, <2>6 DEF Continued, Beyond, N
    <3> HIDE DEF Lines
    <3>3. Continued(n)' = IF listing[at].number # 0 THEN Continued(n) \cup {listing[at].number}
                          ELSE Continued(n)
      BY <3>1, <3>2
    <3>4. instructions'[n].encoding_hi =
            IF listing[at].number # 0 THEN listing[at].number ELSE instructions[n].encoding_hi
      BY <1>3, <2>6
    <3>5. QED
      BY <2>3, <3>3, <3>4 DEF EncodingFits
  <2>7. QED
    BY <2>5, <2>6
<1>11. ReadSoFar'
  BY <1>4, <1>7, <1>8, <1>9, <1>10 DEF ReadSoFar
<1>12. QED
  BY <1>3, <1>11 DEF N

(* A line whose instruction can be read. *)
LEMMA InstructionAppended ==
  ASSUME ReadingTypeOK, ReadSoFar, ParseInstruction, listing' = listing
  PROVE  ReadSoFar' /\ instructions' \in Seq(Instruction)
         /\ Len(instructions') = Len(instructions) + 1
<1> USE DEF ThisLine
<1> DEFINE N == Len(instructions)
           new == [of |-> at, function_name |-> current_function, ptx_file |-> current_file,
                   ptx_line |-> current_line, encoding_hi |-> 0]
<1>1. /\ at \in Nat \ {0} /\ at' = at + 1 /\ at' - 1 = at /\ 1 .. at = (1 .. (at - 1)) \cup {at}
      /\ at \in 1 .. Len(listing) /\ listing[at].kind = "instruction" /\ listing[at].complete
      /\ instructions \in Seq(Instruction)
      /\ N \in Nat /\ DOMAIN instructions = 1 .. N
      /\ instructions' = Append(instructions, new)
      /\ current_function' = current_function /\ current_line' = current_line
  BY LenProperties DEF ReadingTypeOK, Reading, ParseInstruction
<1>2. /\ new \in Instruction
      /\ new.of = at /\ new.function_name = current_function /\ new.ptx_line = current_line
      /\ new.encoding_hi = 0
  BY <1>1 DEF Instruction, ReadingTypeOK
<1> HIDE DEF new
<1>3. /\ instructions' \in Seq(Instruction)
      /\ Len(instructions') = N + 1
      /\ \A n \in 1 .. N : instructions'[n] = instructions[n]
      /\ instructions'[N + 1] = new
  BY <1>1, <1>2, AppendProperties
<1>4. DOMAIN instructions' = 1 .. (N + 1)
  BY <1>3, LenProperties
<1> HIDE DEF N
<1>5. 1 .. (N + 1) = (1 .. N) \cup {N + 1} /\ N + 1 \notin 1 .. N
  BY <1>1
<1>6. /\ InstructionLines' = InstructionLines \cup {at}
      /\ CompleteLines' = CompleteLines \cup {at}
      /\ at \notin InstructionLines /\ CompleteLines \subseteq InstructionLines
  BY <1>1 DEF InstructionLines, CompleteLines
<1>7. (\A n : FunctionOf(n)' = FunctionOf(n)) /\ (\A n : LineOf(n)' = LineOf(n))
  BY DEF FunctionOf, LineOf, Latest
<1>8. /\ {instructions[n].of : n \in 1 .. N} = CompleteLines
      /\ \A n, m \in 1 .. N : n < m => instructions[n].of < instructions[m].of
      /\ \A n \in 1 .. N : /\ instructions[n].function_name = FunctionOf(instructions[n].of)
                           /\ instructions[n].ptx_line = LineOf(instructions[n].of)
      /\ \A n \in 1 .. N : instructions[n].of \in 1 .. (at - 1)
      /\ current_function = FunctionOf(at) /\ current_line = LineOf(at)
      /\ CompleteLines = InstructionLines => \A n \in 1 .. N : EncodingFits(n)
  BY <1>1 DEF ReadSoFar, ReadInOrder
<1>9. ReadInOrder'
  <2>1. {instructions'[n].of : n \in 1 .. (N + 1)} = {instructions[n].of : n \in 1 .. N} \cup {at}
    BY <1>2, <1>3, <1>5
  <2>2. ASSUME NEW n \in 1 .. (N + 1), NEW m \in 1 .. (N + 1), n < m
        PROVE  instructions'[n].of < instructions'[m].of
    <3>1. n \in 1 .. N /\ (m \in 1 .. N \/ m = N + 1)
      BY <1>1, <2>2
    <3>2. instructions[n].of < at
      BY <1>1, <1>8, <3>1
    <3>3. QED
      BY <1>2, <1>3, <1>8, <2>2, <3>1, <3>2
  <2>3. ASSUME NEW n \in 1 .. (N + 1)
        PROVE  /\ instructions'[n].function_name = FunctionOf(instructions'[n].of)
               /\ instructions'[n].ptx_line = LineOf(instructions'[n].of)
    BY <1>2, <1>3, <1>5, <1>8
  <2>4. QED
    BY <1>4, <1>6, <1>7, <1>8, <2>1, <2>2, <2>3 DEF ReadInOrder
<1>10. current_function' = FunctionOf(at)' /\ current_line' = LineOf(at)'
  <2>1. FunctionOf(at + 1) = FunctionOf(at) /\ LineOf(at + 1) = LineOf(at)
    BY <1>1, UnderStep
  <2>2. FunctionOf(at)' = FunctionOf(at + 1) /\ LineOf(at)' = LineOf(at + 1)
    BY <1>1 DEF FunctionOf, LineOf, Latest
  <2>3. QED
    BY <1>1, <1>8, <2>1, <2>2
<1>11. ASSUME NEW n \in 1 .. (N + 1)
       PROVE  instructions'[n].of \in 1 .. (at' - 1)
  <2>1. CASE n \in 1 .. N
    <3>1. instructions[n].of \in 1 .. (at - 1)
      BY <1>8, <2>1
    <3>2. QED
      BY <1>1, <1>3, <2>1, <3>1
  <2>2. CASE n = N + 1
    BY <1>1, <1>2, <1>3, <2>2
  <2>3. QED
    BY <1>5, <2>1, <2>2
<1>12. ASSUME CompleteLines' = InstructionLines', NEW n \in 1 .. (N + 1)
       PROVE  EncodingFits(n)'
  <2>1. CompleteLines = InstructionLines
    BY <1>6, <1>12
  <2>2. CASE n \in 1 .. N
    <3>1. EncodingFits(n)
      BY <1>8, <2>1, <2>2
    <3>2. n # N + 1 /\ (n # N => n + 1 \in 1 .. N)
      BY <1>1, <2>2
    <3>3. Beyond(n)' = Beyond(n)
      BY <1>2, <1>3, <3>2 DEF Beyond, N
    <3>4. Continued(n)' = Continued(n)
      BY <1>3, <2>2, <3>3 DEF Continued
    <3>5. QED
      BY <1>3, <2>2, <3>1, <3>4 DEF EncodingFits
  <2>3. CASE n = N + 1
    <3>1. Beyond(n)' = at + 1
      BY <1>1, <1>3, <2>3 DEF Beyond
    <3>2. \A k \in (at + 1) .. ((at + 1) - 1) : FALSE
      BY <1>1
    <3>3. Continued(n)' = {}
      BY <1>2, <1>3, <2>3, <3>1, <3>2 DEF Continued
    <3>4. QED
      BY <1>2, <1>3, <2>3, <3>3 DEF EncodingFits
  <2>4. QED
    BY <1>5, <2>2, <2>3
<1>13. ReadSoFar'
  BY <1>4, <1>9, <1>10, <1>11, <1>12 DEF ReadSoFar
<1>14. QED
  BY <1>3, <1>13 DEF N

(* Before the first line there is nothing to know. *)
LEMMA ReadingStarts == StartReading => ReadSoFar
<1> SUFFICES ASSUME StartReading PROVE ReadSoFar
  OBVIOUS
<1>1. instructions = <<>> /\ at = 1 /\ \A n \in DOMAIN instructions : FALSE
  BY DEF StartReading
<1>2. InstructionLines = {} /\ CompleteLines = {}
  BY <1>1 DEF InstructionLines, CompleteLines
<1>3. ReadInOrder
  BY <1>1, <1>2 DEF ReadInOrder
<1>4. QED
  BY <1>1, <1>3, UnderStart DEF ReadSoFar, StartReading

(* One line read. *)
LEMMA LineRead ==
  ASSUME ReadingTypeOK, ReadSoFar, ReadLine
  PROVE  ReadingTypeOK' /\ ReadSoFar' /\ Len(instructions) <= Len(instructions')
<1>1. /\ at \in 1 .. Len(listing) /\ at \in Nat \ {0} /\ listing' = listing /\ at' = at + 1
      /\ Reading
      /\ listing[at] \in ListingLine
      /\ listing # <<>> /\ listing \in Listings
      /\ Len(instructions) \in Nat
  <2>1. at' = at + 1 /\ Reading /\ listing' = listing
    BY DEF ReadLine, FunctionHeader, FileMarker, LineMarker, ParseInstruction, AttachEncoding,
       OtherText
  <2>2. Len(listing) \in Nat /\ at \in 1 .. Len(listing) /\ listing # <<>>
    BY <2>1, LenProperties, EmptySeq DEF Reading, ReadingTypeOK
  <2>3. QED
    BY <2>1, <2>2, ElementOfSeq, LenProperties DEF ReadingTypeOK
<1>2. at' \in 1 .. (Len(listing') + 1)
  BY <1>1, LenProperties DEF ReadingTypeOK
<1>3. /\ FunctionOf(at + 1) =
           IF listing[at].kind = "function" THEN listing[at].name ELSE FunctionOf(at)
      /\ LineOf(at + 1) =
           IF listing[at].kind \in {"file", "line"} THEN listing[at].number ELSE LineOf(at)
      /\ current_function = FunctionOf(at) /\ current_line = LineOf(at)
  BY <1>1, UnderStep DEF ReadSoFar
<1>4. /\ listing[at].kind = "function" => listing[at].name \in Name
      /\ listing[at].kind \in {"file", "name"} => listing[at].name \in File
      /\ listing[at].number \in Nat
  <2>1. at \in DOMAIN listing
    BY <1>1, LenProperties DEF ReadingTypeOK
  <2>2. QED
    BY <1>1, <2>1, ListingAssumption DEF ListingLine
<1>5. CASE FunctionHeader \/ FileMarker \/ LineMarker \/ OtherText
  <2>1. /\ instructions' = instructions
        /\ ThisLine.kind \in {"function", "file", "name", "line", "other"}
        /\ current_function' = FunctionOf(at + 1) /\ current_line' = LineOf(at + 1)
    BY <1>3, <1>5 DEF FunctionHeader, FileMarker, LineMarker, OtherText, ThisLine
  <2>2. /\ current_function' \in Name \cup {NoFunction}
        /\ current_file' \in File
        /\ current_line' \in Nat
    BY <1>4, <1>5 DEF FunctionHeader, FileMarker, LineMarker, OtherText, ThisLine, ReadingTypeOK
  <2>3. ReadingTypeOK'
    BY <1>1, <1>2, <2>1, <2>2 DEF ReadingTypeOK
  <2>4. ReadSoFar'
    BY <1>1, <2>1, LinePassed
  <2>5. QED
    BY <1>1, <2>1, <2>3, <2>4
<1>6. CASE ParseInstruction
  <2>1. /\ ReadSoFar' /\ instructions' \in Seq(Instruction)
        /\ Len(instructions') = Len(instructions) + 1
    BY <1>1, <1>6, InstructionAppended
  <2>2. QED
    BY <1>1, <1>2, <1>6, <2>1 DEF ParseInstruction, ReadingTypeOK
<1>7. CASE AttachEncoding
  <2>1. /\ ReadSoFar' /\ instructions' \in Seq(Instruction)
        /\ Len(instructions') = Len(instructions)
    BY <1>1, <1>7, EncodingAttached DEF AttachEncoding
  <2>2. QED
    BY <1>1, <1>2, <1>7, <2>1 DEF AttachEncoding, ReadingTypeOK
<1>8. QED
  BY <1>5, <1>6, <1>7 DEF ReadLine

-----------------------------------------------------------------------------
(* The call. *)

(* What an instruction's group is named after. *)
LEMMA GroupNamed ==
  ASSUME NEW inst \in Instruction
  PROVE  GroupName(inst) \in Name
  BY LifterAssumption DEF GroupName, Instruction

(* The groups after one more instruction. *)
LEMMA GroupsTyped ==
  ASSUME TypeOK, GroupInstruction
  PROVE  groups' \in Seq(KernelGroup)
<1> DEFINE inst == instructions[grouped + 1]
           same == {n \in DOMAIN groups : groups[n].name = GroupName(inst)}
<1>1. inst \in Instruction /\ GroupName(inst) \in Name
  <2>1. grouped + 1 \in 1 .. Len(instructions) /\ instructions \in Seq(Instruction)
    BY LenProperties DEF TypeOK, ReadingTypeOK, GroupInstruction
  <2>2. QED
    BY <2>1, ElementOfSeq, GroupNamed
<1>2. groups \in Seq(KernelGroup) /\ DOMAIN groups = 1 .. Len(groups) /\ Len(groups) \in Nat
  BY LenProperties DEF TypeOK
<1>3. CASE same = {}
  <2>1. groups' = Append(groups, Group(GroupName(inst), <<inst>>))
    BY <1>3 DEF GroupInstruction
  <2>2. <<inst>> \in Seq(Instruction)
    BY <1>1
  <2>3. Group(GroupName(inst), <<inst>>) \in KernelGroup
    BY <1>1, <2>2 DEF Group, KernelGroup
  <2>4. QED
    BY <1>2, <2>1, <2>3, AppendProperties
<1>4. CASE same # {}
  <2> DEFINE new(n) == IF n \in same THEN [groups[n] EXCEPT !.instructions = Append(@, inst)]
                       ELSE groups[n]
  <2>1. groups' = [n \in 1 .. Len(groups) |-> new(n)]
    BY <1>2, <1>4 DEF GroupInstruction
  <2>2. ASSUME NEW n \in 1 .. Len(groups) PROVE new(n) \in KernelGroup
    <3>1. groups[n] \in KernelGroup
      BY <1>2
    <3>2. Append(groups[n].instructions, inst) \in Seq(Instruction)
      BY <1>1, <3>1, AppendProperties DEF KernelGroup
    <3> HIDE DEF inst, same
    <3>3. QED
      BY <3>1, <3>2 DEF KernelGroup
  <2> HIDE DEF new
  <2>3. QED
    BY <1>2, <2>1, <2>2, IsASeq
<1>5. QED
  BY <1>3, <1>4

LEMMA InitTyped == Init => TypeOK
<1> SUFFICES ASSUME Init PROVE TypeOK
  OBVIOUS
<1>1. listing = <<>> /\ Len(listing) = 0 /\ at = 1 /\ 1 \in 1 .. (0 + 1)
  BY DEF Init, StartReading
<1>2. instructions = <<>> /\ Len(instructions) = 0 /\ grouped = 0 /\ 0 \in 0 .. 0
  BY DEF Init, StartReading
<1>3. /\ listing \in Seq(ListingLine) /\ instructions \in Seq(Instruction)
      /\ groups \in Seq(KernelGroup) /\ kernels \in Seq(Kernel)
  BY EmptySeq DEF Init, StartReading
<1>4. /\ current_function \in Name \cup {NoFunction} /\ current_file \in File
      /\ current_line \in Nat
  BY ListingAssumption DEF Init, StartReading
<1>5. /\ call \in Calls /\ module \in Modules /\ phase \in Phase /\ options \in Options
      /\ ctx_nvinfo \in Name \cup {NoInfo}
  BY LifterAssumption DEF Init, Phase
<1>6. QED
  BY <1>1, <1>2, <1>3, <1>4, <1>5 DEF TypeOK, ReadingTypeOK

(* What a kernel's selection is made of. *)
LEMMA InstructionsOfTyped ==
  ASSUME TypeOK, NEW f
  PROVE  /\ InstructionsOf(f) \in Seq(Instruction)
         /\ InstructionsOf(f) # <<>> <=>
              \E n \in DOMAIN instructions : instructions[n].function_name = f
<1> DEFINE places == {n \in DOMAIN instructions : instructions[n].function_name = f}
<1>1. /\ instructions \in Seq(Instruction) /\ Len(instructions) \in Nat
      /\ DOMAIN instructions = 1 .. Len(instructions)
  BY LenProperties DEF TypeOK, ReadingTypeOK
<1>2. InstructionsOf(f) = Selection(instructions, places)[Len(instructions)]
  BY DEF InstructionsOf
<1>3. places \cap 1 .. Len(instructions) = places
  BY <1>1
<1> HIDE DEF places
<1>4. /\ Selection(instructions, places)[Len(instructions)] \in Seq(Instruction)
      /\ Selection(instructions, places)[Len(instructions)] # <<>> <=> places # {}
  <2>1. Len(instructions) \in 0 .. Len(instructions)
    BY <1>1
  <2>2. \A n \in 0 .. Len(instructions) :
          /\ Selection(instructions, places)[n] \in Seq(Instruction)
          /\ Selection(instructions, places)[n] # <<>> <=> places \cap 1 .. n # {}
    BY <1>1, SelectionTyped
  <2>3. QED
    BY <1>3, <2>1, <2>2
<1>5. QED
  BY <1>2, <1>4 DEF places

(* A group of its own. *)
LEMMA OneGroupTyped ==
  ASSUME NEW name \in Name \cup Unspecified, NEW insts \in Seq(Instruction)
  PROVE  <<Group(name, insts)>> \in Seq(KernelGroup)
<1>1. Group(name, insts) \in KernelGroup
  BY DEF Group, KernelGroup
<1>2. QED
  BY <1>1

LEMMA NamesReadTyped ==
  ASSUME TypeOK
  PROVE  NamesRead \subseteq Name
<1>1. \A n \in DOMAIN instructions : instructions[n].function_name \in Name \cup {NoFunction}
  <2>1. instructions \in Seq(Instruction) /\ DOMAIN instructions = 1 .. Len(instructions)
    BY LenProperties DEF TypeOK, ReadingTypeOK
  <2>2. \A n \in 1 .. Len(instructions) : instructions[n] \in Instruction
    BY <2>1, ElementOfSeq
  <2>3. QED
    BY <2>1, <2>2 DEF Instruction
<1>2. QED
  BY <1>1 DEF NamesRead

(* Before the listing is there, nothing has been read. *)
Unopened == phase \in {"start", "dump"} => listing = <<>> /\ StartReading

ReadingInv == TypeOK /\ Unopened /\ ReadSoFar

(* The listing is there. *)
LEMMA ListingOpened ==
  ASSUME ReadingInv, phase \in {"start", "dump"}, phase' = "read",
         listing' = module.lines, UNCHANGED reading
  PROVE  ReadingTypeOK' /\ ReadSoFar' /\ Unopened'
<1>1. listing' \in Listings /\ listing' \in Seq(ListingLine)
  BY ListingAssumption, LifterAssumption DEF ReadingInv, TypeOK
<1>2. at' = 1 /\ 1 \in 1 .. (Len(listing') + 1)
  BY <1>1, LenProperties DEF ReadingInv, Unopened, StartReading, reading
<1>3. ReadingTypeOK'
  BY <1>1, <1>2 DEF ReadingInv, TypeOK, ReadingTypeOK, reading
<1>4. StartReading'
  BY DEF ReadingInv, Unopened, StartReading, reading
<1>5. StartReading' => ReadSoFar'
  BY ReadingStarts, PTL
<1>6. QED
  BY <1>3, <1>4, <1>5 DEF Unopened

(* What does not touch the listing or the reading. *)
LEMMA ReadingKept ==
  ASSUME ReadingInv, UNCHANGED <<listing, reading>>,
         phase' \in {"start", "dump"} => phase \in {"start", "dump"}
  PROVE  ReadingTypeOK' /\ ReadSoFar' /\ Unopened'
<1>1. ReadingTypeOK'
  BY DEF ReadingInv, TypeOK, ReadingTypeOK, reading
<1>2. ReadSoFar' <=> ReadSoFar
  BY DEF ReadSoFar, ReadInOrder, FunctionOf, LineOf, Latest, CompleteLines, InstructionLines,
     EncodingFits, Continued, Beyond, reading
<1>3. Unopened'
  BY DEF ReadingInv, Unopened, StartReading, reading
<1>4. QED
  BY <1>1, <1>2, <1>3 DEF ReadingInv

(* Every step keeps the types and what reading has found. *)
LEMMA StepRead == ReadingInv /\ [Next]_vars => ReadingInv'
<1> SUFFICES ASSUME ReadingInv, [Next]_vars PROVE ReadingInv'
  OBVIOUS
<1> USE DEF Phase
<1>1. /\ TypeOK /\ ReadingTypeOK
      /\ instructions \in Seq(Instruction) /\ Len(instructions) \in Nat
      /\ grouped \in 0 .. Len(instructions)
      /\ call \in Calls /\ module \in Modules /\ phase \in Phase /\ options \in Options
      /\ ctx_nvinfo \in Name \cup {NoInfo}
      /\ groups \in Seq(KernelGroup) /\ kernels \in Seq(Kernel)
  BY LenProperties DEF ReadingInv, TypeOK, ReadingTypeOK
<1>2. /\ module.kernels \subseteq Name /\ module.infos \subseteq Name /\ module.sm \in Nat
      /\ options.kernel_name \in Name \cup Unspecified /\ options.sm_version \in Nat
      /\ options.nvinfo \in Name \cup {NoInfo}
  BY <1>1, LifterAssumption DEF Options
<1>3. \A name : Info(name) \subseteq Name \cup {NoInfo}
  BY <1>2 DEF Info
<1>4. CASE OpenText
  BY <1>1, <1>4, ListingOpened DEF OpenText, ReadingInv, TypeOK, reading
<1>5. CASE OpenCubin
  <2>1. options' \in Options /\ phase' = "dump" /\ phase = "start"
    <3>1. \E k \in module.kernels : \E info \in Info(k) :
            options' = [kernel_name |-> k, sm_version |-> module.sm,
                        nvinfo |-> IF options.nvinfo = NoInfo THEN info ELSE options.nvinfo]
      BY <1>5 DEF OpenCubin
    <3>2. QED
      BY <1>2, <1>3, <1>5, <3>1 DEF OpenCubin, Options
  <2>2. QED
    BY <1>1, <1>5, <2>1, ReadingKept DEF OpenCubin, ReadingInv, TypeOK, reading
<1>6. CASE OpenWithTool
  <2>1. options' \in Options /\ phase' = "dump" /\ phase = "start"
    <3>1. PICK info \in Info(options.kernel_name) :
            options' = [options EXCEPT !.nvinfo = IF @ = NoInfo THEN info ELSE @]
      BY <1>6 DEF OpenWithTool
    <3>2. info \in Name \cup {NoInfo}
      BY <1>3
    <3>3. QED
      BY <1>1, <1>2, <1>6, <3>1, <3>2 DEF OpenWithTool, Options
  <2>2. QED
    BY <1>1, <1>6, <2>1, ReadingKept DEF OpenWithTool, ReadingInv, TypeOK, reading
<1>7. CASE OpenInPipeline
  <2>1. ctx_nvinfo' \in Name \cup {NoInfo} /\ phase' = "dump" /\ phase = "start"
    BY <1>3, <1>7 DEF OpenInPipeline
  <2>2. QED
    BY <1>1, <1>7, <2>1, ReadingKept DEF OpenInPipeline, ReadingInv, TypeOK, reading
<1>8. CASE InputFails \/ NothingRead
  BY <1>1, <1>8, ReadingKept DEF InputFails, NothingRead, Failed, ReadingInv, TypeOK, reading
<1>9. CASE Dump
  <2>1. options' \in Options
    <3>1. CASE options' = options
      BY <1>1, <3>1
    <3>2. CASE options' # options
      <4>1. options' = [options EXCEPT !.sm_version = FirstTarget(module.lines)]
            /\ Targets(module.lines) # {}
        BY <1>9, <3>2 DEF Dump
      <4>2. FirstTarget(module.lines) \in Nat
        BY <1>1, <1>2, <4>1, TargetAssumption
      <4>3. QED
        BY <1>1, <4>1, <4>2 DEF Options
    <3>3. QED
      BY <3>1, <3>2
  <2>2. QED
    BY <1>1, <1>9, <2>1, ListingOpened DEF Dump, ReadingInv, TypeOK, reading
<1>10. CASE Read
  <2>1. ReadingTypeOK' /\ ReadSoFar' /\ Len(instructions) <= Len(instructions')
    BY <1>1, <1>10, LineRead DEF Read, ReadingInv
  <2>2. Len(instructions') \in Nat
    BY <2>1, LenProperties DEF ReadingTypeOK
  <2>3. grouped \in 0 .. Len(instructions')
    BY <1>1, <2>1, <2>2
  <2>4. QED
    BY <1>1, <1>10, <2>1, <2>3 DEF Read, ReadingInv, TypeOK, Unopened
<1>11. CASE TakeAll
  <2>1. groups' \in Seq(KernelGroup)
    BY <1>1, <1>2, <1>11, OneGroupTyped DEF TakeAll
  <2>2. QED
    BY <1>1, <1>11, <2>1, ReadingKept DEF TakeAll, ReadingInv, TypeOK, reading
<1>12. CASE TakeNamed
  <2>1. groups' \in Seq(KernelGroup)
    BY <1>1, <1>2, <1>12, OneGroupTyped, InstructionsOfTyped DEF TakeNamed
  <2>2. phase' \in {"failed", "lift"}
    BY <1>12 DEF TakeNamed, Failed
  <2>3. QED
    BY <1>1, <1>12, <2>1, <2>2, ReadingKept DEF TakeNamed, ReadingInv, TypeOK, reading
<1>13. CASE TakeGroups
  BY <1>1, <1>13, ReadingKept DEF TakeGroups, ReadingInv, TypeOK, reading
<1>14. CASE GroupInstruction
  <2>1. groups' \in Seq(KernelGroup)
    BY <1>1, <1>14, GroupsTyped
  <2>2. grouped' \in 0 .. Len(instructions)
    BY <1>1, <1>14 DEF GroupInstruction
  <2>3. QED
    BY <1>1, <1>14, <2>1, <2>2, ReadingKept DEF GroupInstruction, ReadingInv, TypeOK, reading
<1>15. CASE Grouped
  <2>1. groups' \in Seq(KernelGroup) /\ phase' \in {"failed", "lift"}
    <3>1. CASE Len(groups) > 1
      BY <1>1, <1>15, <3>1 DEF Grouped
    <3>2. CASE Len(groups) <= 1 /\ NamesRead = {}
      <4>1. groups' = <<Group(DefaultName, instructions)>> /\ phase' = "lift"
        BY <1>1, <1>15, <3>2, LenProperties DEF Grouped
      <4>2. QED
        BY <1>1, <4>1, LifterAssumption, OneGroupTyped
    <3>3. CASE Len(groups) <= 1 /\ NamesRead # {} /\ Cardinality(NamesRead) = 1
      <4>1. PICK f \in NamesRead : groups' = <<Group(f, InstructionsOf(f))>> /\ phase' = "lift"
        BY <1>1, <1>15, <3>3, LenProperties DEF Grouped
      <4>2. f \in Name
        BY <1>1, NamesReadTyped
      <4>3. QED
        BY <1>1, <4>1, <4>2, InstructionsOfTyped, OneGroupTyped
    <3>4. CASE Len(groups) <= 1 /\ NamesRead # {} /\ Cardinality(NamesRead) # 1
      BY <1>1, <1>15, <3>4, LenProperties DEF Grouped, Failed
    <3>5. QED
      BY <1>1, <3>1, <3>2, <3>3, <3>4, LenProperties
  <2>2. QED
    BY <1>1, <1>15, <2>1, ReadingKept DEF Grouped, ReadingInv, TypeOK, reading
<1>16. CASE LiftKernel
  <2>1. Head(groups) \in KernelGroup /\ Tail(groups) \in Seq(KernelGroup)
    BY <1>1, <1>16, HeadTailProperties DEF LiftKernel
  <2> DEFINE made == [name |-> Head(groups).name, instructions |-> Head(groups).instructions,
                      sm_version |-> options.sm_version, nvinfo |-> ctx_nvinfo]
  <2>2. made \in Kernel
    BY <1>1, <1>2, <2>1 DEF Kernel, KernelGroup
  <2>3. kernels' = Append(kernels, made) /\ groups' = Tail(groups)
    BY <1>16 DEF LiftKernel
  <2> HIDE DEF made
  <2>4. kernels' \in Seq(Kernel)
    BY <1>1, <2>2, <2>3, AppendProperties
  <2>5. QED
    BY <1>1, <1>16, <2>1, <2>3, <2>4, ReadingKept DEF LiftKernel, ReadingInv, TypeOK, reading
<1>17. CASE Return
  BY <1>1, <1>17, ReadingKept DEF Return, ReadingInv, TypeOK, reading
<1>18. CASE UNCHANGED vars
  BY <1>1, <1>18, ReadingKept DEF vars, ReadingInv, TypeOK, reading
<1>19. QED
  BY <1>4, <1>5, <1>6, <1>7, <1>8, <1>9, <1>10, <1>11, <1>12, <1>13, <1>14, <1>15, <1>16, <1>17,
     <1>18 DEF Next, Finished

LEMMA ReadingInvariance == Spec => []ReadingInv
<1>1. Init => ReadingInv
  BY InitTyped, ReadingStarts DEF ReadingInv, Unopened, Init
<1>2. QED
  BY <1>1, StepRead, PTL DEF Spec

(* The types of a lift, for every call, listing and module. *)
THEOREM TypeCorrectness == Spec => []TypeOK
<1>1. ReadingInv => TypeOK
  BY DEF ReadingInv
<1>2. QED
  BY <1>1, ReadingInvariance, PTL

(***************************************************************************)
(* ReadInOrder, for every listing: whatever markers, other text and        *)
(* unreadable lines stand between, the instructions are those of the lines *)
(* that can be read, in their order, each under its function and line.     *)
(***************************************************************************)
THEOREM InstructionsAreAttributed == Spec => []ReadInOrder
<1>1. ReadingInv => ReadInOrder
  BY DEF ReadingInv, ReadSoFar
<1>2. QED
  BY <1>1, ReadingInvariance, PTL

(***************************************************************************)
(* EncodingsBelong, for every listing: where every instruction line can be *)
(* read, an instruction holds an encoding of the lines below it, if there  *)
(* is one, and no other's.                                                 *)
(***************************************************************************)
THEOREM EncodingsAreAttributed == Spec => []EncodingsBelong
<1>1. ReadingInv => EncodingsBelong
  <2> SUFFICES ASSUME ReadingInv, CompleteLines = InstructionLines, NEW n \in DOMAIN instructions
               PROVE  EncodingFits(n)
    BY DEF EncodingsBelong, EncodingFits, Continued, Beyond
  <2>1. QED
    BY DEF ReadingInv, ReadSoFar
<1>2. QED
  BY <1>1, ReadingInvariance, PTL

-----------------------------------------------------------------------------
(***************************************************************************)
(* The architecture a kernel is lifted for: on the way to the listing the  *)
(* options hold that of the call, or already that of the cubin.            *)
(***************************************************************************)
Expected ==
  IF (call.entry = "cubin" /\ ~ByTool) \/ (ByTool /\ call.options.sm_version = 0)
  THEN module.sm ELSE call.options.sm_version

ArchitectureInv ==
  /\ phase = "start" => options.sm_version = call.options.sm_version
  /\ phase = "dump" =>
       options.sm_version = IF call.entry = "cubin" /\ ~ByTool THEN module.sm
                            ELSE call.options.sm_version
  /\ phase \in {"read", "group", "lift", "returned"} => options.sm_version = Expected
  /\ \A n \in DOMAIN kernels : kernels[n].sm_version = Expected

LEMMA StepTargets == TypeOK /\ ArchitectureInv /\ [Next]_vars => ArchitectureInv'
<1> SUFFICES ASSUME TypeOK, ArchitectureInv, [Next]_vars PROVE ArchitectureInv'
  OBVIOUS
<1>1. /\ phase = "start" => options.sm_version = call.options.sm_version
      /\ phase = "dump" =>
           options.sm_version = IF call.entry = "cubin" /\ ~ByTool THEN module.sm
                                ELSE call.options.sm_version
      /\ phase \in {"read", "group", "lift", "returned"} => options.sm_version = Expected
      /\ \A n \in DOMAIN kernels : kernels[n].sm_version = Expected
  BY DEF ArchitectureInv
<1>2. call' = call /\ module' = module
  BY DEF Next, OpenText, OpenCubin, OpenWithTool, OpenInPipeline, InputFails, Dump, Read,
     NothingRead, TakeAll, TakeNamed, TakeGroups, GroupInstruction, Grouped, LiftKernel, Return,
     Finished, vars
<1>3. Expected' = Expected /\ (ByTool' <=> ByTool)
  BY <1>2 DEF Expected, ByTool
<1>4. options \in Options /\ call.entry \in Entry
  BY LifterAssumption DEF TypeOK
<1>5. CASE OpenText
  <2>1. /\ phase' = "read" /\ phase = "start" /\ options' = options /\ kernels' = kernels
        /\ call.entry \in FromText
    BY <1>5 DEF OpenText
  <2>2. Expected = call.options.sm_version
    BY <2>1 DEF Expected, ByTool, FromText
  <2>3. QED
    BY <1>1, <1>3, <2>1, <2>2 DEF ArchitectureInv
<1>6. CASE OpenCubin
  <2>1. /\ phase' = "dump" /\ kernels' = kernels /\ options'.sm_version = module.sm
        /\ call.entry = "cubin" /\ ~ByTool
    BY <1>6 DEF OpenCubin
  <2>2. QED
    BY <1>1, <1>2, <1>3, <2>1 DEF ArchitectureInv
<1>7. CASE OpenWithTool
  <2>1. /\ phase' = "dump" /\ phase = "start" /\ kernels' = kernels
        /\ options'.sm_version = options.sm_version /\ ByTool
    BY <1>4, <1>7 DEF OpenWithTool, Options
  <2>2. QED
    BY <1>1, <1>2, <1>3, <2>1 DEF ArchitectureInv
<1>8. CASE OpenInPipeline
  <2>1. /\ phase' = "dump" /\ phase = "start" /\ kernels' = kernels
        /\ options' = options /\ call.entry = "cli_cubin"
    BY <1>8 DEF OpenInPipeline
  <2>2. QED
    BY <1>1, <1>2, <1>3, <2>1 DEF ArchitectureInv
<1>9. CASE InputFails \/ NothingRead
  <2>1. phase' = "failed" /\ kernels' = kernels
    BY <1>9 DEF InputFails, NothingRead, Failed
  <2>2. QED
    BY <1>1, <1>3, <2>1 DEF ArchitectureInv
<1>10. CASE Dump
  <2>1. /\ phase = "dump" /\ phase' = "read" /\ kernels' = kernels
        /\ IF ByTool /\ options.sm_version = 0
           THEN /\ Targets(module.lines) # {}
                /\ options' = [options EXCEPT !.sm_version = FirstTarget(module.lines)]
           ELSE options' = options
    BY <1>10 DEF Dump
  <2>2. Targets(module.lines) # {} => FirstTarget(module.lines) = module.sm
    BY TargetAssumption DEF TypeOK
  <2>3. options'.sm_version = IF ByTool /\ options.sm_version = 0 THEN module.sm
                              ELSE options.sm_version
    BY <1>4, <2>1, <2>2 DEF Options
  <2>4. options'.sm_version = Expected
    BY <1>1, <2>1, <2>3 DEF Expected
  <2>5. QED
    BY <1>1, <1>3, <2>1, <2>4 DEF ArchitectureInv
<1>11. CASE Read \/ TakeAll \/ TakeNamed \/ TakeGroups \/ GroupInstruction \/ Grouped \/ Return
  <2>1. /\ phase \in {"read", "group", "lift"} /\ phase' \in {"read", "group", "lift", "returned", "failed"}
        /\ kernels' = kernels /\ options' = options
    BY <1>11 DEF Read, TakeAll, TakeNamed, TakeGroups, GroupInstruction, Grouped, Return,
       ReadingDone, Failed
  <2>2. QED
    BY <1>1, <1>3, <2>1 DEF ArchitectureInv
<1>12. CASE LiftKernel
  <2> DEFINE made == [name |-> Head(groups).name, instructions |-> Head(groups).instructions,
                      sm_version |-> options.sm_version, nvinfo |-> ctx_nvinfo]
  <2>1. /\ phase = "lift" /\ phase' = "lift" /\ options' = options
        /\ kernels' = Append(kernels, made)
        /\ kernels \in Seq(Kernel) /\ groups \in Seq(KernelGroup) /\ groups # <<>>
    BY <1>12 DEF LiftKernel, TypeOK
  <2>2. made \in Kernel /\ made.sm_version = Expected
    <3>1. Head(groups) \in KernelGroup
      BY <2>1, HeadTailProperties
    <3>2. ctx_nvinfo \in Name \cup {NoInfo} /\ options.sm_version \in Nat
      BY <1>4 DEF TypeOK, Options
    <3>3. made.sm_version = Expected
      BY <1>1, <2>1
    <3>4. QED
      BY <3>1, <3>2, <3>3 DEF Kernel, KernelGroup
  <2> HIDE DEF made
  <2>3. /\ kernels' \in Seq(Kernel)
        /\ Len(kernels') = Len(kernels) + 1 /\ Len(kernels) \in Nat
        /\ \A n \in 1 .. Len(kernels) : kernels'[n] = kernels[n]
        /\ kernels'[Len(kernels) + 1] = made
    BY <2>1, <2>2, AppendProperties, LenProperties
  <2>4. DOMAIN kernels' = 1 .. (Len(kernels) + 1) /\ DOMAIN kernels = 1 .. Len(kernels)
    BY <2>1, <2>3, LenProperties
  <2>5. ASSUME NEW n \in 1 .. (Len(kernels) + 1)
        PROVE  kernels'[n].sm_version = Expected
    <3>1. n \in 1 .. Len(kernels) \/ n = Len(kernels) + 1
      BY <2>3
    <3>2. QED
      BY <1>1, <2>2, <2>3, <2>4, <3>1
  <2>6. QED
    BY <1>1, <1>3, <2>1, <2>4, <2>5 DEF ArchitectureInv
<1>13. CASE UNCHANGED vars
  BY <1>1, <1>3, <1>13 DEF vars, ArchitectureInv
<1>14. QED
  BY <1>5, <1>6, <1>7, <1>8, <1>9, <1>10, <1>11, <1>12, <1>13 DEF Next, Finished

(***************************************************************************)
(* TargetArchitecture, for every call and module: a kernel is lifted for   *)
(* the architecture of the cubin it comes from, or for the one the call    *)
(* names.                                                                  *)
(***************************************************************************)
THEOREM ArchitectureIsTheCubins == Spec => []TargetArchitecture
<1>1. Init => ArchitectureInv
  <2>1. Init => \A n \in DOMAIN kernels : FALSE
    BY DEF Init
  <2>2. QED
    BY <2>1 DEF Init, ArchitectureInv
<1>2. ArchitectureInv => TargetArchitecture
  BY DEF ArchitectureInv, TargetArchitecture, Expected
<1>3. QED
  BY <1>1, <1>2, StepTargets, TypeCorrectness, PTL DEF Spec

-----------------------------------------------------------------------------
(***************************************************************************)
(* The lift implements PerFunction.  GroupNames are the names that the     *)
(* instructions put groups under, GroupOf(f) the instructions under one.   *)
(***************************************************************************)
GroupNames == {GroupName(instructions[n]) : n \in DOMAIN instructions}
GroupPlaces(f) == {n \in DOMAIN instructions : GroupName(instructions[n]) = f}
GroupOf(f) == Selection(instructions, GroupPlaces(f))

(* A header anywhere above a line is found. *)
LEMMA HeaderFound ==
  ASSUME NEW kinds
  PROVE  \A n \in Nat \ {0} : \A h \in 1 .. (n - 1) :
           listing[h].kind \in kinds => Latest(n, kinds) # {}
<1> DEFINE Found(n) == \A h \in 1 .. (n - 1) : listing[h].kind \in kinds => Latest(n, kinds) # {}
           S == {n \in Nat : Found(n + 1)}
<1>1. 0 \in S
  <2>1. 1 .. ((0 + 1) - 1) = {}
    OBVIOUS
  <2>2. QED
    BY <2>1
<1>2. ASSUME NEW n \in Nat, n \in S PROVE n + 1 \in S
  <2>1. Found(n + 1)
    BY <1>2
  <2>2. Latest((n + 1) + 1, kinds) =
          IF listing[n + 1].kind \in kinds THEN {n + 1} ELSE Latest(n + 1, kinds)
    <3>1. n + 1 \in Nat \ {0}
      OBVIOUS
    <3>2. QED
      BY <3>1, LatestStep
  <2>3. ASSUME NEW h \in 1 .. (((n + 1) + 1) - 1), listing[h].kind \in kinds
        PROVE  Latest((n + 1) + 1, kinds) # {}
    <3>1. h = n + 1 \/ h \in 1 .. ((n + 1) - 1)
      OBVIOUS
    <3>2. QED
      BY <2>1, <2>2, <2>3, <3>1
  <2>4. QED
    BY <2>3
<1> HIDE DEF Found
<1>3. Nat \subseteq S
  <2> HIDE DEF S
  <2> QED
    BY <1>1, <1>2, Induction
<1>4. ASSUME NEW n \in Nat \ {0} PROVE Found(n)
  <2>1. n - 1 \in S /\ (n - 1) + 1 = n
    BY <1>3
  <2>2. QED
    BY <2>1
<1>5. QED
  BY <1>4 DEF Found

(* The function a line stands under is that of a header, or none stands above it. *)
LEMMA FunctionOfHeader ==
  ASSUME NEW n \in Nat \ {0}
  PROVE  \/ /\ FunctionOf(n) = NoFunction
            /\ \A h \in 1 .. (n - 1) : listing[h].kind # "function"
         \/ \E h \in 1 .. (n - 1) : /\ listing[h].kind = "function"
                                    /\ FunctionOf(n) = listing[h].name
<1> DEFINE above == Latest(n, {"function"})
<1>1. CASE above = {}
  <2>1. \A h \in 1 .. (n - 1) : listing[h].kind \notin {"function"}
    BY <1>1, HeaderFound
  <2>2. QED
    BY <1>1, <2>1 DEF FunctionOf
<1>2. CASE above # {}
  <2> DEFINE m == CHOOSE m \in above : TRUE
  <2>1. m \in above
    BY <1>2
  <2>2. FunctionOf(n) = listing[m].name
    BY <1>2 DEF FunctionOf
  <2> HIDE DEF m
  <2>3. m \in 1 .. (n - 1) /\ listing[m].kind = "function"
    BY <2>1 DEF Latest
  <2>4. QED
    BY <2>2, <2>3
<1>3. QED
  BY <1>1, <1>2

(* Where the listing is the module's, an instruction without a function leaves no `kernel'. *)
LEMMA NoneAboveTheHeaders ==
  ASSUME ReadingInv, listing = module.lines,
         NEW n \in DOMAIN instructions, instructions[n].function_name = NoFunction
  PROVE  DefaultName \notin NamesRead
<1>1. DOMAIN instructions = 1 .. Len(instructions) /\ Len(instructions) \in Nat
      /\ listing \in Listings /\ listing \in Seq(ListingLine) /\ DOMAIN listing = 1 .. Len(listing)
      /\ Len(listing) \in Nat /\ at \in 1 .. (Len(listing) + 1)
  BY LenProperties, LifterAssumption, ListingAssumption DEF ReadingInv, TypeOK, ReadingTypeOK
<1>2. ASSUME NEW k \in DOMAIN instructions
      PROVE  /\ instructions[k].function_name = FunctionOf(instructions[k].of)
             /\ instructions[k].of \in DOMAIN listing /\ instructions[k].of \in Nat \ {0}
             /\ listing[instructions[k].of].kind = "instruction"
  <2>1. instructions[k].of \in CompleteLines
    BY DEF ReadingInv, ReadSoFar, ReadInOrder
  <2>2. QED
    BY <1>1, <2>1 DEF CompleteLines, InstructionLines, ReadingInv, ReadSoFar, ReadInOrder
<1>3. ASSUME NEW h \in DOMAIN listing, listing[h].kind = "function"
      PROVE  listing[h].name \in Name /\ listing[h].name \in Functions(module.lines)
  BY <1>1, <1>3, ListingAssumption DEF Functions
<1>4. \A h \in 1 .. (instructions[n].of - 1) : listing[h].kind # "function"
  <2>1. ASSUME NEW h \in 1 .. (instructions[n].of - 1), listing[h].kind = "function",
               FunctionOf(instructions[n].of) = listing[h].name
        PROVE  FALSE
    <3>1. h \in DOMAIN listing
      BY <1>1, <1>2
    <3>2. QED
      BY <1>2, <1>3, <2>1, <3>1, ListingAssumption
  <2>2. QED
    BY <1>2, <2>1, FunctionOfHeader
<1>5. DefaultName \notin Functions(module.lines)
  BY <1>2, <1>4, HeaderAssumption DEF ReadingInv, TypeOK
<1>6. ASSUME NEW k \in DOMAIN instructions, instructions[k].function_name # NoFunction
      PROVE  instructions[k].function_name \in Functions(module.lines)
  <2>1. PICK h \in 1 .. (instructions[k].of - 1) :
          listing[h].kind = "function" /\ FunctionOf(instructions[k].of) = listing[h].name
    BY <1>2, <1>6, FunctionOfHeader
  <2>2. h \in DOMAIN listing
    BY <1>1, <1>2
  <2>3. QED
    BY <1>2, <1>3, <2>1, <2>2
<1>7. QED
  BY <1>5, <1>6 DEF NamesRead
-----------------------------------------------------------------------------
(***************************************************************************)
(* The inductive invariant of the refinement.  While instructions are put  *)
(* into groups, each group has those of its name among the instructions    *)
(* grouped so far; while kernels are lifted, the names of the groups left  *)
(* and of the kernels made are, without a repetition, those wanted.        *)
(***************************************************************************)
NamesOf(records) == {records[n].name : n \in DOMAIN records}
OneEach(records) ==
  \A n, m \in DOMAIN records : records[n].name = records[m].name => n = m

Untouched == phase \in {"start", "dump", "read"} => groups = <<>> /\ grouped = 0
NothingMade == phase \notin {"lift", "returned"} => kernels = <<>>
FromModule == phase \in {"read", "group", "lift", "returned"} => listing = module.lines

Grouping ==
  phase = "group" =>
    /\ All /\ instructions # <<>>
    /\ OneEach(groups)
    /\ NamesOf(groups) = {GroupName(instructions[k]) : k \in 1 .. grouped}
    /\ \A n \in DOMAIN groups : groups[n].instructions = GroupOf(groups[n].name)[grouped]

Lifting ==
  phase \in {"lift", "returned"} =>
    /\ NamesOf(groups) \cup NamesOf(kernels) = Wanted
    /\ NamesOf(groups) \cap NamesOf(kernels) = {}
    /\ OneEach(groups)
    /\ \A n \in DOMAIN groups : groups[n].instructions = Program[groups[n].name]

LiftInv == ReadingInv /\ Untouched /\ NothingMade /\ FromModule /\ Grouping /\ Lifting

(* What is wanted, and made from what. *)
EveryGroup == [f \in GroupNames |-> GroupOf(f)[Len(instructions)]]
EveryFunction == [f \in NamesRead |-> InstructionsOf(f)]

LEMMA ProgramOfAll == Known /\ All => Program = EveryGroup /\ Wanted = GroupNames
  BY DEF Program, Wanted, All, GroupNames, GroupOf, GroupPlaces, EveryGroup

LEMMA ProgramOfCli ==
  Known /\ call.entry \in FromCli =>
    /\ Program = [f \in {options.kernel_name} |-> instructions]
    /\ Wanted = {options.kernel_name}
  BY DEF Program, Wanted, All

LEMMA ProgramOfName ==
  Known /\ call.entry \notin FromCli /\ ~All =>
    Program = EveryFunction /\ Wanted = {options.kernel_name}
  BY DEF Program, Wanted, All, EveryFunction

LEMMA ProgramUnknown == ~Known => Program = <<>> /\ Wanted = {}
  BY DEF Program, Wanted

LEMMA ProgramKept ==
  ASSUME UNCHANGED <<call, options, instructions>>, Known' <=> Known
  PROVE  Program' = Program /\ Wanted' = Wanted
<1>1. GroupNames' = GroupNames
  BY DEF GroupNames
<1>2. EveryGroup' = EveryGroup /\ EveryFunction' = EveryFunction
  <2>1. EveryGroup' = EveryGroup
    BY DEF EveryGroup, GroupNames, GroupOf, GroupPlaces
  <2>2. EveryFunction' = EveryFunction
    BY DEF EveryFunction, NamesRead, InstructionsOf
  <2>3. QED
    BY <2>1, <2>2
<1>3. (All' <=> All) /\ ((call.entry \in FromCli)' <=> call.entry \in FromCli)
  BY DEF All
<1>4. CASE ~Known
  <2>1. (~Known => Program = <<>> /\ Wanted = {})'
    BY ProgramUnknown, PTL
  <2>2. QED
    BY <1>4, <2>1, ProgramUnknown
<1>5. CASE Known /\ All
  <2>1. (Known /\ All => Program = EveryGroup /\ Wanted = GroupNames)'
    BY ProgramOfAll, PTL
  <2>2. QED
    BY <1>1, <1>2, <1>3, <1>5, <2>1, ProgramOfAll
<1>6. CASE Known /\ call.entry \in FromCli
  <2>1. (Known /\ call.entry \in FromCli =>
           /\ Program = [f \in {options.kernel_name} |-> instructions]
           /\ Wanted = {options.kernel_name})'
    BY ProgramOfCli, PTL
  <2>2. QED
    BY <1>3, <1>6, <2>1, ProgramOfCli
<1>7. CASE Known /\ call.entry \notin FromCli /\ ~All
  <2>1. (Known /\ call.entry \notin FromCli /\ ~All =>
           Program = EveryFunction /\ Wanted = {options.kernel_name})'
    BY ProgramOfName, PTL
  <2>2. QED
    BY <1>1, <1>2, <1>3, <1>7, <2>1, ProgramOfName
<1>8. QED
  BY <1>4, <1>5, <1>6, <1>7

(* No function asked for is without instructions. *)
LEMMA NoneEmpty ==
  ASSUME TypeOK
  PROVE  /\ \A f \in NamesRead : EveryFunction[f] # <<>>
         /\ \A f \in GroupNames : EveryGroup[f] # <<>>
         /\ instructions # <<>> => GroupNames # {}
<1>1. /\ instructions \in Seq(Instruction) /\ Len(instructions) \in Nat
      /\ DOMAIN instructions = 1 .. Len(instructions)
  BY LenProperties DEF TypeOK, ReadingTypeOK
<1>2. ASSUME NEW f \in NamesRead PROVE EveryFunction[f] # <<>>
  <2>1. \E n \in DOMAIN instructions : instructions[n].function_name = f
    BY DEF NamesRead
  <2>2. QED
    BY <2>1, InstructionsOfTyped DEF EveryFunction
<1>3. ASSUME NEW f \in GroupNames PROVE EveryGroup[f] # <<>>
  <2>1. GroupPlaces(f) \cap 1 .. Len(instructions) # {}
    BY <1>1 DEF GroupNames, GroupPlaces
  <2>2. Len(instructions) \in 0 .. Len(instructions)
    BY <1>1
  <2>3. \A n \in 0 .. Len(instructions) :
          GroupOf(f)[n] # <<>> <=> GroupPlaces(f) \cap 1 .. n # {}
    BY <1>1, SelectionTyped DEF GroupOf
  <2>4. GroupOf(f)[Len(instructions)] # <<>>
    BY <2>1, <2>2, <2>3
  <2>5. QED
    BY <2>4 DEF EveryGroup
<1>4. ASSUME instructions # <<>> PROVE GroupNames # {}
  <2>1. 1 \in DOMAIN instructions
    BY <1>1, <1>4, EmptySeq
  <2>2. QED
    BY <2>1 DEF GroupNames
<1>5. QED
  BY <1>2, <1>3, <1>4

(* A single group. *)
LEMMA SingleGroup ==
  ASSUME NEW name, NEW insts
  PROVE  LET gs == <<Group(name, insts)>>
         IN  /\ NamesOf(gs) = {name} /\ OneEach(gs)
             /\ \A n \in DOMAIN gs : gs[n].name = name /\ gs[n].instructions = insts
  BY DEF NamesOf, OneEach, Group

(***************************************************************************)
(* What selection hands to the lift: everything at once for sass_lift, the *)
(* function named, or every function.                                      *)
(***************************************************************************)
Taken ==
  \/ /\ call.entry \in FromCli
     /\ groups = <<Group(options.kernel_name, instructions)>>
  \/ /\ call.entry \notin FromCli /\ ~All
     /\ options.kernel_name \in NamesRead
     /\ groups = <<Group(options.kernel_name, EveryFunction[options.kernel_name])>>
  \/ /\ All
     /\ OneEach(groups) /\ NamesOf(groups) = GroupNames
     /\ \A n \in DOMAIN groups : groups[n].instructions = EveryGroup[groups[n].name]

LEMMA Entered ==
  TypeOK /\ phase = "lift" /\ kernels = <<>> /\ instructions # <<>> /\ Taken =>
    /\ Lifting
    /\ Wanted # {} /\ Wanted \subseteq DOMAIN Program
    /\ \A f \in Wanted : Program[f] # <<>>
<1> SUFFICES ASSUME TypeOK, phase = "lift", kernels = <<>>, instructions # <<>>, Taken
             PROVE  /\ Lifting
                    /\ Wanted # {} /\ Wanted \subseteq DOMAIN Program
                    /\ \A f \in Wanted : Program[f] # <<>>
  OBVIOUS
<1>1. Known /\ NamesOf(kernels) = {}
  BY DEF Known, NamesOf
<1> DEFINE name == options.kernel_name
<1>2. CASE call.entry \in FromCli
  <2>1. Program = [f \in {name} |-> instructions] /\ Wanted = {name}
    BY <1>1, <1>2, ProgramOfCli
  <2>2. groups = <<Group(name, instructions)>>
    BY <1>2 DEF Taken, All
  <2> HIDE DEF name
  <2>3. /\ NamesOf(groups) = {name} /\ OneEach(groups)
        /\ \A n \in DOMAIN groups : groups[n].name = name /\ groups[n].instructions = instructions
    BY <2>2, SingleGroup
  <2>4. QED
    BY <1>1, <2>1, <2>3 DEF Lifting
<1>3. CASE call.entry \notin FromCli /\ ~All
  <2>1. Program = EveryFunction /\ Wanted = {name}
    BY <1>1, <1>3, ProgramOfName
  <2>2. name \in NamesRead /\ groups = <<Group(name, EveryFunction[name])>>
    BY <1>3 DEF Taken
  <2> HIDE DEF name
  <2>3. /\ NamesOf(groups) = {name} /\ OneEach(groups)
        /\ \A n \in DOMAIN groups : /\ groups[n].name = name
                                    /\ groups[n].instructions = EveryFunction[name]
    BY <2>2, SingleGroup
  <2>4. DOMAIN EveryFunction = NamesRead
    BY DEF EveryFunction
  <2>5. QED
    BY <1>1, <2>1, <2>2, <2>3, <2>4, NoneEmpty DEF Lifting
<1>4. CASE All
  <2>1. Program = EveryGroup /\ Wanted = GroupNames
    BY <1>1, <1>4, ProgramOfAll
  <2>2. /\ OneEach(groups) /\ NamesOf(groups) = GroupNames
        /\ \A n \in DOMAIN groups : groups[n].instructions = EveryGroup[groups[n].name]
    BY <1>4 DEF Taken, All
  <2>3. DOMAIN EveryGroup = GroupNames
    BY DEF EveryGroup
  <2>4. QED
    BY <1>1, <2>1, <2>2, <2>3, NoneEmpty DEF Lifting
<1>5. QED
  BY <1>2, <1>3, <1>4

(* One more instruction is put into its group. *)
LEMMA InstructionGrouped ==
  ASSUME TypeOK, Grouping, GroupInstruction
  PROVE  Grouping'
<1> DEFINE k == grouped + 1
           inst == instructions[k]
           g == GroupName(inst)
           same == {n \in DOMAIN groups : groups[n].name = g}
<1>1. /\ phase = "group" /\ phase' = "group" /\ grouped' = k
      /\ UNCHANGED <<call, options, instructions>>
  BY DEF GroupInstruction, reading
<1>2. /\ instructions \in Seq(Instruction) /\ Len(instructions) \in Nat
      /\ DOMAIN instructions = 1 .. Len(instructions)
      /\ grouped \in Nat /\ k \in 1 .. Len(instructions) /\ grouped \in 0 .. Len(instructions)
      /\ k - 1 = grouped /\ 1 .. k = (1 .. grouped) \cup {k}
      /\ groups \in Seq(KernelGroup) /\ DOMAIN groups = 1 .. Len(groups) /\ Len(groups) \in Nat
  <2>1. /\ instructions \in Seq(Instruction) /\ groups \in Seq(KernelGroup)
        /\ grouped \in 0 .. Len(instructions)
    BY Zenon DEF TypeOK, ReadingTypeOK
  <2>2. grouped < Len(instructions)
    BY DEF GroupInstruction
  <2>3. /\ Len(instructions) \in Nat /\ DOMAIN instructions = 1 .. Len(instructions)
        /\ Len(groups) \in Nat /\ DOMAIN groups = 1 .. Len(groups)
    BY <2>1, LenProperties
  <2> DEFINE len == Len(instructions)
  <2>4. len \in Nat /\ grouped \in 0 .. len /\ grouped < len
    BY <2>1, <2>2, <2>3
  <2> HIDE DEF len
  <2>5. grouped \in Nat /\ k \in 1 .. len /\ k - 1 = grouped
    BY <2>4
  <2>6. 1 .. k = (1 .. grouped) \cup {k}
    BY <2>5
  <2>7. QED
    BY <2>1, <2>3, <2>5, <2>6, Zenon DEF len
<1>3. /\ All /\ instructions # <<>> /\ OneEach(groups)
      /\ NamesOf(groups) = {GroupName(instructions[j]) : j \in 1 .. grouped}
      /\ \A n \in DOMAIN groups : groups[n].instructions = GroupOf(groups[n].name)[grouped]
  BY <1>1 DEF Grouping
<1>4. All' /\ instructions' # <<>>
  BY <1>1, <1>3 DEF All
<1>5. \A f : k \in GroupPlaces(f) <=> f = g
  BY <1>2 DEF GroupPlaces
<1>6. ASSUME NEW f
      PROVE  GroupOf(f)[k] = IF f = g THEN Append(GroupOf(f)[grouped], inst)
                             ELSE GroupOf(f)[grouped]
  <2>1. \A n \in 1 .. Len(instructions) :
          GroupOf(f)[n] = IF n \in GroupPlaces(f) THEN Append(GroupOf(f)[n - 1], instructions[n])
                          ELSE GroupOf(f)[n - 1]
    BY <1>2, SelectionSteps DEF GroupOf
  <2>2. QED
    BY <1>2, <1>5, <2>1
<1>7. {GroupName(instructions[j]) : j \in 1 .. k}
        = {GroupName(instructions[j]) : j \in 1 .. grouped} \cup {g}
  BY <1>2
<1>8. \A f : GroupOf(f)' = GroupOf(f)
  BY <1>1 DEF GroupOf, GroupPlaces
<1>9. groups' = IF same = {} THEN Append(groups, Group(g, <<inst>>))
                ELSE [n \in DOMAIN groups |->
                        IF n \in same THEN [groups[n] EXCEPT !.instructions = Append(@, inst)]
                        ELSE groups[n]]
  BY DEF GroupInstruction
<1>10. /\ OneEach(groups')
       /\ NamesOf(groups') = NamesOf(groups) \cup {g}
       /\ \A n \in DOMAIN groups' : groups'[n].instructions = GroupOf(groups'[n].name)[k]
  <2> HIDE DEF k, inst, g
  <2>1. CASE same = {}
    <3>1. groups' = Append(groups, Group(g, <<inst>>))
      BY <1>9, <2>1
    <3>2. g \notin NamesOf(groups)
      BY <2>1 DEF NamesOf
    <3>3. GroupOf(g)[grouped] = <<>>
      <4>1. GroupPlaces(g) \cap 1 .. grouped = {}
        BY <1>3, <3>2 DEF GroupPlaces
      <4>2. QED
        BY <1>2, <4>1, SelectionTyped DEF GroupOf
    <3>4. GroupOf(g)[k] = <<inst>>
      <4>1. Append(<<>>, inst) = <<inst>>
        OBVIOUS
      <4>2. GroupOf(g)[k] = Append(GroupOf(g)[grouped], inst)
        BY <1>6
      <4>3. QED
        BY <3>3, <4>1, <4>2
    <3>5. /\ DOMAIN groups' = 1 .. (Len(groups) + 1)
          /\ \A n \in 1 .. Len(groups) : groups'[n] = groups[n]
          /\ groups'[Len(groups) + 1].name = g
          /\ groups'[Len(groups) + 1].instructions = <<inst>>
      BY <1>2, <3>1 DEF Group
    <3>6. ASSUME NEW n \in 1 .. (Len(groups) + 1)
          PROVE  n \in 1 .. Len(groups) \/ n = Len(groups) + 1
      BY <1>2
    <3>7. OneEach(groups')
      BY <1>2, <1>3, <3>2, <3>5, <3>6 DEF OneEach, NamesOf
    <3>8. NamesOf(groups') = NamesOf(groups) \cup {g}
      <4>1. Len(groups) + 1 \in 1 .. (Len(groups) + 1)
            /\ 1 .. Len(groups) \subseteq 1 .. (Len(groups) + 1)
        BY <1>2
      <4>2. QED
        BY <1>2, <3>5, <3>6, <4>1 DEF NamesOf
    <3>9. ASSUME NEW n \in DOMAIN groups'
          PROVE  groups'[n].instructions = GroupOf(groups'[n].name)[k]
      <4>1. CASE n \in 1 .. Len(groups)
        <5>1. groups[n].name # g /\ groups'[n] = groups[n]
          BY <1>2, <3>2, <3>5, <4>1 DEF NamesOf
        <5>2. QED
          BY <1>2, <1>3, <1>6, <4>1, <5>1
      <4>2. CASE n = Len(groups) + 1
        BY <3>4, <3>5, <4>2
      <4>3. QED
        BY <3>5, <3>6, <4>1, <4>2
    <3>10. QED
      BY <3>7, <3>8, <3>9
  <2>2. CASE same # {}
    <3>1. groups' = [n \in DOMAIN groups |->
                       IF n \in same THEN [groups[n] EXCEPT !.instructions = Append(@, inst)]
                       ELSE groups[n]]
      BY <1>9, <2>2
    <3>2. ASSUME NEW n \in DOMAIN groups
          PROVE  /\ groups'[n].name = groups[n].name
                 /\ groups'[n].instructions =
                      IF groups[n].name = g THEN Append(groups[n].instructions, inst)
                      ELSE groups[n].instructions
      <4>1. groups[n] \in KernelGroup
        BY <1>2
      <4>2. QED
        BY <3>1, <4>1 DEF KernelGroup
    <3>3. DOMAIN groups' = DOMAIN groups
      BY <3>1
    <3>4. g \in NamesOf(groups)
      BY <2>2 DEF NamesOf
    <3>5. OneEach(groups') /\ NamesOf(groups') = NamesOf(groups) \cup {g}
      BY <1>3, <3>2, <3>3, <3>4 DEF OneEach, NamesOf
    <3>6. QED
      BY <1>3, <1>6, <3>2, <3>3, <3>5
  <2>3. QED
    BY <2>1, <2>2
<1>11. QED
  BY <1>1, <1>3, <1>4, <1>7, <1>8, <1>10 DEF Grouping

(* When every instruction has its group, what is handed over is every function. *)
LEMMA GroupsTaken ==
  ASSUME LiftInv, Grouped, phase' = "lift"
  PROVE  Taken'
<1>1. /\ phase = "group" /\ grouped = Len(instructions)
      /\ UNCHANGED <<call, options, instructions>>
  BY DEF Grouped, reading
<1>2. /\ All /\ instructions # <<>> /\ OneEach(groups)
      /\ NamesOf(groups) = {GroupName(instructions[j]) : j \in 1 .. grouped}
      /\ \A n \in DOMAIN groups : groups[n].instructions = GroupOf(groups[n].name)[grouped]
  BY <1>1 DEF LiftInv, Grouping
<1>3. /\ TypeOK /\ ReadingInv /\ listing = module.lines
      /\ instructions \in Seq(Instruction) /\ Len(instructions) \in Nat
      /\ DOMAIN instructions = 1 .. Len(instructions)
      /\ groups \in Seq(KernelGroup) /\ DOMAIN groups = 1 .. Len(groups) /\ Len(groups) \in Nat
  BY <1>1, LenProperties DEF LiftInv, ReadingInv, TypeOK, ReadingTypeOK, FromModule
<1>4. NamesOf(groups) = GroupNames
  BY <1>1, <1>2, <1>3 DEF GroupNames
<1>5. /\ All' /\ GroupNames' = GroupNames
      /\ EveryGroup' = EveryGroup /\ EveryFunction' = EveryFunction
  <2>1. All' /\ GroupNames' = GroupNames
    BY <1>1, <1>2 DEF All, GroupNames
  <2>2. EveryGroup' = EveryGroup
    BY <1>1 DEF EveryGroup, GroupNames, GroupOf, GroupPlaces
  <2>3. EveryFunction' = EveryFunction
    BY <1>1 DEF EveryFunction, NamesRead, InstructionsOf
  <2>4. QED
    BY <2>1, <2>2, <2>3
<1>6. SUFFICES /\ OneEach(groups') /\ NamesOf(groups') = GroupNames
               /\ \A n \in DOMAIN groups' : groups'[n].instructions = EveryGroup[groups'[n].name]
  BY <1>5 DEF Taken
<1>7. CASE Len(groups) > 1
  <2>1. groups' = groups
    BY <1>7 DEF Grouped
  <2>2. \A n \in DOMAIN groups : groups[n].name \in GroupNames
    BY <1>4 DEF NamesOf
  <2>3. QED
    BY <1>1, <1>2, <1>4, <2>1, <2>2 DEF EveryGroup
<1>8. CASE Len(groups) <= 1
  <2>1. ASSUME NEW a \in GroupNames, NEW b \in GroupNames PROVE a = b
    <3>1. \A n, m \in DOMAIN groups : n = m
      BY <1>3, <1>8
    <3>2. QED
      BY <1>4, <3>1 DEF NamesOf
  <2>2. GroupNames # {}
    BY <1>2, <1>3, NoneEmpty
  <2>3. ASSUME NEW f \in GroupNames, NEW insts,
               groups' = <<Group(f, insts)>>, insts = GroupOf(f)[Len(instructions)]
        PROVE  /\ OneEach(groups') /\ NamesOf(groups') = GroupNames
               /\ \A n \in DOMAIN groups' :
                    groups'[n].instructions = EveryGroup[groups'[n].name]
    <3>1. /\ NamesOf(groups') = {f} /\ OneEach(groups')
          /\ \A n \in DOMAIN groups' : /\ groups'[n].name = f
                                       /\ groups'[n].instructions = insts
      BY <2>3, SingleGroup
    <3>2. GroupNames = {f}
      BY <2>1
    <3>3. QED
      BY <2>3, <3>1, <3>2 DEF EveryGroup
  <2>4. CASE NamesRead = {}
    <3>1. groups' = <<Group(DefaultName, instructions)>>
      BY <1>3, <1>8, <2>4 DEF Grouped
    <3>2. \A n \in DOMAIN instructions : GroupName(instructions[n]) = DefaultName
      BY <2>4 DEF NamesRead, GroupName
    <3>3. DefaultName \in GroupNames
      BY <2>2, <3>2 DEF GroupNames
    <3>4. GroupOf(DefaultName)[Len(instructions)] = instructions
      <4>1. 1 .. Len(instructions) \subseteq GroupPlaces(DefaultName)
        BY <1>3, <3>2 DEF GroupPlaces
      <4>2. QED
        BY <1>3, <4>1, SelectionOfAll DEF GroupOf
    <3>5. QED
      BY <2>3, <3>1, <3>3, <3>4
  <2>5. CASE NamesRead # {}
    <3>1. PICK f \in NamesRead : groups' = <<Group(f, InstructionsOf(f))>>
      BY <1>3, <1>8, <2>5 DEF Grouped, Failed
    <3>2. f \in GroupNames
      BY <3>1 DEF NamesRead, GroupNames, GroupName
    <3>3. \A n \in DOMAIN instructions : GroupName(instructions[n]) = f
      BY <2>1, <3>2 DEF GroupNames
    <3>4. \A n \in DOMAIN instructions : instructions[n].function_name = f
      <4>1. ASSUME NEW n \in DOMAIN instructions, instructions[n].function_name = NoFunction
            PROVE  FALSE
        <5>1. DefaultName \notin NamesRead
          BY <1>3, <4>1, NoneAboveTheHeaders
        <5>2. f = DefaultName
          BY <3>3, <4>1 DEF GroupName
        <5>3. QED
          BY <5>1, <5>2
      <4>2. QED
        BY <3>3, <4>1 DEF GroupName
    <3>5. InstructionsOf(f) = GroupOf(f)[Len(instructions)]
      <4>1. {n \in DOMAIN instructions : instructions[n].function_name = f} = GroupPlaces(f)
        BY <3>3, <3>4 DEF GroupPlaces
      <4>2. QED
        BY <4>1 DEF InstructionsOf, GroupOf
    <3>6. QED
      BY <2>3, <3>1, <3>2, <3>5
  <2>6. QED
    BY <2>4, <2>5
<1>9. QED
  BY <1>3, <1>7, <1>8

(* The lift starts with what was asked for, and with no kernel. *)
LEMMA HandedOver ==
  ASSUME LiftInv, [Next]_vars, phase # "lift", phase' = "lift"
  PROVE  /\ kernels' = <<>> /\ kernels = <<>> /\ ~Known
         /\ instructions' # <<>> /\ Taken'
<1>1. TakeAll \/ TakeNamed \/ Grouped
  BY DEF Next, vars, OpenText, OpenCubin, OpenWithTool, OpenInPipeline, InputFails, Dump, Read,
         NothingRead, TakeGroups, GroupInstruction, LiftKernel, Return, Finished, Failed
<1>2. phase \in {"read", "group"} /\ UNCHANGED <<call, options, instructions, kernels>>
  BY <1>1 DEF TakeAll, TakeNamed, Grouped, ReadingDone, reading
<1>3. kernels = <<>> /\ ~Known
  BY <1>2 DEF LiftInv, NothingMade, Known
<1>4. CASE TakeAll
  <2>1. /\ call.entry \in FromCli /\ instructions # <<>>
        /\ groups' = <<Group(options.kernel_name, instructions)>>
    BY <1>4 DEF TakeAll
  <2>2. QED
    BY <1>2, <1>3, <2>1 DEF Taken
<1>5. CASE TakeNamed
  <2> DEFINE name == options.kernel_name
  <2>1. /\ call.entry \notin FromCli /\ name \notin Unspecified /\ instructions # <<>>
        /\ InstructionsOf(name) # <<>> /\ groups' = <<Group(name, InstructionsOf(name))>>
    BY <1>5 DEF TakeNamed, is_unspecified_kernel_name, Failed
  <2>2. name \in NamesRead
    <3>1. TypeOK /\ name \in Name
      BY <2>1 DEF LiftInv, ReadingInv, TypeOK, Options
    <3>2. \E n \in DOMAIN instructions : instructions[n].function_name = name
      BY <2>1, <3>1, InstructionsOfTyped
    <3>3. QED
      BY <3>1, <3>2, ListingAssumption DEF NamesRead
  <2>3. groups' = <<Group(name, EveryFunction[name])>>
    BY <2>1, <2>2 DEF EveryFunction
  <2>4. EveryFunction' = EveryFunction /\ NamesRead' = NamesRead
    <3>1. EveryFunction' = EveryFunction
      BY <1>2 DEF EveryFunction, NamesRead, InstructionsOf
    <3>2. QED
      BY <1>2, <3>1 DEF NamesRead
  <2>5. ~All' /\ call'.entry \notin FromCli /\ options' = options
    BY <1>2, <2>1 DEF All, is_unspecified_kernel_name
  <2>6. QED
    BY <1>2, <1>3, <2>1, <2>2, <2>3, <2>4, <2>5 DEF Taken
<1>6. CASE Grouped
  <2>1. Taken'
    BY <1>6, GroupsTaken
  <2>2. instructions # <<>>
    BY <1>6 DEF Grouped, LiftInv, Grouping
  <2>3. QED
    BY <1>2, <1>3, <2>1, <2>2
<1>7. QED
  BY <1>1, <1>4, <1>5, <1>6

(* The kernel made is one wanted, not made before, and from its own instructions. *)
LEMMA KernelLifted ==
  ASSUME LiftInv, LiftKernel
  PROVE  LET f == Head(groups).name
         IN  /\ Known /\ f \in Wanted \ NamesOf(kernels)
             /\ Head(groups).instructions = Program[f]
             /\ Lifting'
<1> DEFINE f == Head(groups).name
           made == [name |-> f, instructions |-> Head(groups).instructions,
                    sm_version |-> options.sm_version, nvinfo |-> ctx_nvinfo]
<1>1. /\ phase = "lift" /\ phase' = "lift" /\ UNCHANGED <<call, options, instructions>>
      /\ groups # <<>> /\ groups' = Tail(groups) /\ kernels' = Append(kernels, made)
      /\ groups \in Seq(KernelGroup) /\ kernels \in Seq(Kernel)
  BY DEF LiftKernel, reading, LiftInv, ReadingInv, TypeOK
<1>2. /\ NamesOf(groups) \cup NamesOf(kernels) = Wanted
      /\ NamesOf(groups) \cap NamesOf(kernels) = {}
      /\ OneEach(groups)
      /\ \A n \in DOMAIN groups : groups[n].instructions = Program[groups[n].name]
  BY <1>1 DEF LiftInv, Lifting
<1>3. Known /\ (Known' <=> Known)
  BY <1>1 DEF Known
<1>4. Program' = Program /\ Wanted' = Wanted
  BY <1>1, <1>3, ProgramKept
<1> HIDE DEF made
<1>5. /\ Len(groups) \in Nat /\ Len(groups) # 0 /\ DOMAIN groups = 1 .. Len(groups)
      /\ Head(groups) = groups[1] /\ 1 \in DOMAIN groups
      /\ DOMAIN groups' = 1 .. (Len(groups) - 1)
      /\ \A n \in 1 .. (Len(groups) - 1) : groups'[n] = groups[n + 1]
  BY <1>1, LenProperties, EmptySeq, HeadTailProperties
<1>6. NamesOf(groups') = NamesOf(groups) \ {f}
  <2>1. \A n \in DOMAIN groups : n # 1 => groups[n].name # f
    BY <1>2, <1>5 DEF OneEach
  <2>2. \A n \in DOMAIN groups : n # 1 => n - 1 \in 1 .. (Len(groups) - 1) /\ (n - 1) + 1 = n
    BY <1>5
  <2>3. \A n \in 1 .. (Len(groups) - 1) : n + 1 \in DOMAIN groups /\ n + 1 # 1
    BY <1>5
  <2>4. NamesOf(groups') \subseteq NamesOf(groups) \ {f}
    BY <1>5, <2>1, <2>3 DEF NamesOf
  <2>5. ASSUME NEW n \in DOMAIN groups, groups[n].name # f
        PROVE  groups[n].name \in NamesOf(groups')
    <3>1. n # 1
      BY <1>5, <2>5
    <3>2. n - 1 \in DOMAIN groups' /\ groups'[n - 1] = groups[n]
      BY <1>5, <2>2, <3>1
    <3>3. QED
      BY <3>2 DEF NamesOf
  <2>6. QED
    BY <2>4, <2>5 DEF NamesOf
<1>7. NamesOf(kernels') = NamesOf(kernels) \cup {f}
  <2>1. /\ Len(kernels) \in Nat /\ DOMAIN kernels = 1 .. Len(kernels)
        /\ DOMAIN kernels' = 1 .. (Len(kernels) + 1)
        /\ \A n \in 1 .. Len(kernels) : kernels'[n] = kernels[n]
        /\ kernels'[Len(kernels) + 1] = made
    BY <1>1, LenProperties
  <2>2. made.name = f
    BY DEF made
  <2>3. 1 .. (Len(kernels) + 1) = (1 .. Len(kernels)) \cup {Len(kernels) + 1}
    BY <2>1
  <2>4. QED
    BY <2>1, <2>2, <2>3 DEF NamesOf
<1>8. f \in NamesOf(groups) /\ Head(groups).instructions = Program[f]
  BY <1>2, <1>5 DEF NamesOf
<1>9. OneEach(groups')
  <2>1. \A n \in DOMAIN groups' : n + 1 \in DOMAIN groups /\ groups'[n] = groups[n + 1] /\ n \in Int
    BY <1>5
  <2>2. ASSUME NEW n \in DOMAIN groups', NEW m \in DOMAIN groups',
               groups'[n].name = groups'[m].name
        PROVE  n = m
    <3>1. n + 1 = m + 1
      BY <1>2, <2>1, <2>2 DEF OneEach
    <3>2. QED
      BY <2>1, <3>1
  <2>3. QED
    BY <2>2 DEF OneEach
<1>10. \A n \in DOMAIN groups' : groups'[n].instructions = Program[groups'[n].name]
  <2>1. \A n \in DOMAIN groups' : n + 1 \in DOMAIN groups /\ groups'[n] = groups[n + 1]
    BY <1>5
  <2>2. QED
    BY <1>2, <2>1
<1> HIDE DEF f
<1>11. Lifting'
  BY <1>2, <1>4, <1>6, <1>7, <1>8, <1>9, <1>10 DEF Lifting
<1>12. QED
  BY <1>2, <1>3, <1>8, <1>11 DEF f

(* The invariant is inductive. *)
LEMMA StepLifts == LiftInv /\ [Next]_vars => LiftInv'
<1> SUFFICES ASSUME LiftInv, [Next]_vars PROVE LiftInv'
  OBVIOUS
<1>1. ReadingInv'
  BY StepRead DEF LiftInv
<1>2. Untouched'
  BY DEF LiftInv, Untouched, Next, vars, OpenText, OpenCubin, OpenWithTool, OpenInPipeline,
         InputFails, Dump, Read, NothingRead, TakeAll, TakeNamed, TakeGroups, GroupInstruction,
         Grouped, LiftKernel, Return, Finished, Failed
<1>3. NothingMade'
  BY DEF LiftInv, NothingMade, Next, vars, OpenText, OpenCubin, OpenWithTool, OpenInPipeline,
         InputFails, Dump, Read, NothingRead, TakeAll, TakeNamed, TakeGroups, GroupInstruction,
         Grouped, LiftKernel, Return, Finished, Failed, ReadingDone
<1>4. FromModule'
  BY DEF LiftInv, FromModule, Next, vars, OpenText, OpenCubin, OpenWithTool, OpenInPipeline,
         InputFails, Dump, Read, ReadLine, NothingRead, TakeAll, TakeNamed, TakeGroups,
         GroupInstruction, Grouped, LiftKernel, Return, Finished, Failed, ReadingDone
<1>5. Grouping'
  <2>1. CASE phase' # "group"
    BY <2>1 DEF Grouping
  <2>2. CASE phase' = "group"
    <3>1. TakeGroups \/ GroupInstruction \/ UNCHANGED vars
      BY <2>2 DEF Next, vars, OpenText, OpenCubin, OpenWithTool, OpenInPipeline, InputFails, Dump,
             Read, ReadingDone, NothingRead, TakeAll, TakeNamed, Grouped, LiftKernel, Return,
             Finished, Failed
    <3>2. CASE TakeGroups
      <4>1. /\ All /\ instructions # <<>> /\ groups = <<>> /\ grouped = 0
            /\ UNCHANGED <<call, options, instructions, groups, grouped>>
        BY <3>2 DEF TakeGroups, ReadingDone, All, LiftInv, Untouched, reading
      <4>2. All' /\ instructions' # <<>> /\ groups' = <<>> /\ grouped' = 0
        BY <4>1 DEF All
      <4>3. DOMAIN groups' = {} /\ 1 .. grouped' = {}
        BY <4>2
      <4>4. QED
        BY <4>2, <4>3 DEF Grouping, OneEach, NamesOf
    <3>3. CASE GroupInstruction
      BY <3>3, InstructionGrouped DEF LiftInv, ReadingInv
    <3>4. CASE UNCHANGED vars
      <4>1. Grouping
        BY DEF LiftInv
      <4>2. QED
        BY <3>4, <4>1 DEF Grouping, vars, reading, All, OneEach, NamesOf, GroupOf, GroupPlaces
    <3>5. QED
      BY <3>1, <3>2, <3>3, <3>4
  <2>3. QED
    BY <2>1, <2>2
<1>6. Lifting'
  <2>1. CASE phase' \notin {"lift", "returned"}
    BY <2>1 DEF Lifting
  <2>2. CASE phase # "lift" /\ phase' = "lift"
    <3>1. /\ phase' = "lift" /\ kernels' = <<>> /\ instructions' # <<>> /\ Taken' /\ TypeOK'
      BY <1>1, <2>2, HandedOver DEF ReadingInv
    <3>2. (TypeOK /\ phase = "lift" /\ kernels = <<>> /\ instructions # <<>> /\ Taken =>
             /\ Lifting
             /\ Wanted # {} /\ Wanted \subseteq DOMAIN Program
             /\ \A f \in Wanted : Program[f] # <<>>)'
      BY Entered, PTL
    <3>3. QED
      BY <3>1, <3>2
  <2>3. CASE phase \in {"lift", "returned"} /\ phase' \in {"lift", "returned"}
    <3>1. LiftKernel \/ UNCHANGED <<call, options, instructions, groups, kernels>>
      BY <2>3 DEF Next, vars, reading, OpenText, OpenCubin, OpenWithTool, OpenInPipeline,
             InputFails, Dump, Read, ReadingDone, NothingRead, TakeAll, TakeNamed, TakeGroups,
             GroupInstruction, Grouped, Return, Finished, Failed
    <3>2. CASE LiftKernel
      BY <3>2, KernelLifted
    <3>3. CASE UNCHANGED <<call, options, instructions, groups, kernels>>
      <4>1. Known' <=> Known
        BY <2>3 DEF Known
      <4>2. Program' = Program /\ Wanted' = Wanted
        BY <3>3, <4>1, ProgramKept
      <4>3. QED
        BY <2>3, <3>3, <4>2 DEF LiftInv, Lifting, OneEach, NamesOf
    <3>4. QED
      BY <3>1, <3>2, <3>3
  <2>4. CASE phase \notin {"lift", "returned"} /\ phase' = "returned"
    BY <2>4 DEF Next, vars, OpenText, OpenCubin, OpenWithTool, OpenInPipeline, InputFails, Dump,
           Read, ReadingDone, NothingRead, TakeAll, TakeNamed, TakeGroups, GroupInstruction,
           Grouped, LiftKernel, Return, Finished, Failed
  <2>5. QED
    BY <2>1, <2>2, <2>3, <2>4
<1>7. QED
  BY <1>1, <1>2, <1>3, <1>4, <1>5, <1>6 DEF LiftInv

LEMMA LiftInvariance == Spec => []LiftInv
<1>1. Init => LiftInv
  <2> SUFFICES ASSUME Init PROVE LiftInv
    OBVIOUS
  <2>1. ReadingInv
    BY InitTyped, ReadingStarts DEF Init, ReadingInv, Unopened
  <2>2. QED
    BY <2>1 DEF Init, LiftInv, Untouched, NothingMade, FromModule, Grouping, Lifting
<1>2. QED
  BY <1>1, StepLifts, PTL DEF Spec

-----------------------------------------------------------------------------
(* Every step of the lift is one of PerFunction, or none. *)
Shown == [n \in DOMAIN kernels |->
            [name |-> kernels[n].name, instructions |-> kernels[n].instructions]]
Outcome == IF phase \in {"returned", "failed"} THEN phase ELSE "running"

LEMMA StepImplements == LiftInv /\ LiftInv' /\ [Next]_vars => [Promise!Next]_(Promise!vars)
<1> SUFFICES ASSUME LiftInv, LiftInv', [Next]_vars PROVE [Promise!Next]_(Promise!vars)
  OBVIOUS
<1>1. ASSUME UNCHANGED <<Program, Wanted, Known, Shown, Outcome>>
      PROVE  UNCHANGED Promise!vars
  BY <1>1 DEF Promise!vars, Shown, Outcome
<1>2. kernels' = kernels => Shown' = Shown
  BY DEF Shown
<1>3. CASE ~Known /\ ~Known'
  <2>1. UNCHANGED <<Program, Wanted, Known>>
    <3>1. Known' <=> Known
      BY <1>3
    <3>2. (~Known => Program = <<>> /\ Wanted = {})'
      BY ProgramUnknown, PTL
    <3>3. Known' = Known
      BY <1>3 DEF Known
    <3>4. QED
      BY <1>3, <3>2, <3>3, ProgramUnknown
  <2>2. kernels = <<>> /\ kernels' = <<>>
    BY <1>3 DEF LiftInv, NothingMade, Known
  <2>3. Shown = <<>> /\ UNCHANGED Shown
    BY <1>2, <2>2 DEF Shown
  <2>4. CASE phase # "failed" /\ phase' = "failed"
    <3>1. Outcome = "running" /\ Outcome' = "failed"
      BY <1>3, <2>4 DEF Outcome, Known
    <3>2. Promise!Fail
      BY <2>1, <2>3, <3>1 DEF Promise!Fail, Shown, Outcome
    <3>3. QED
      BY <3>2 DEF Promise!Next
  <2>5. CASE phase' = "failed" <=> phase = "failed"
    <3>1. UNCHANGED Outcome
      BY <1>3, <2>5 DEF Outcome, Known
    <3>2. QED
      BY <1>1, <2>1, <2>3, <3>1
  <2>6. CASE phase = "failed" /\ phase' # "failed"
    BY <2>6 DEF Next, vars, OpenText, OpenCubin, OpenWithTool, OpenInPipeline, InputFails, Dump,
           Read, ReadingDone, NothingRead, TakeAll, TakeNamed, TakeGroups, GroupInstruction,
           Grouped, LiftKernel, Return, Finished
  <2>7. QED
    BY <2>4, <2>5, <2>6
<1>4. CASE ~Known /\ Known'
  <2>1. phase # "lift" /\ phase' = "lift"
    BY <1>4 DEF Known, Next, vars, OpenText, OpenCubin, OpenWithTool, OpenInPipeline, InputFails,
           Dump, Read, ReadingDone, NothingRead, TakeAll, TakeNamed, TakeGroups, GroupInstruction,
           Grouped, LiftKernel, Return, Finished, Failed
  <2>2. kernels' = <<>> /\ kernels = <<>> /\ instructions' # <<>> /\ Taken'
    BY <2>1, HandedOver
  <2>3. (TypeOK /\ phase = "lift" /\ kernels = <<>> /\ instructions # <<>> /\ Taken =>
           /\ Lifting
           /\ Wanted # {} /\ Wanted \subseteq DOMAIN Program
           /\ \A f \in Wanted : Program[f] # <<>>)'
    BY Entered, PTL
  <2>4. /\ Wanted' # {} /\ Wanted' \subseteq DOMAIN Program'
        /\ \A f \in Wanted' : Program'[f] # <<>>
    BY <2>1, <2>2, <2>3 DEF LiftInv, ReadingInv
  <2>5. Outcome = "running" /\ Outcome' = "running" /\ UNCHANGED Shown
    <3>1. phase # "failed"
      BY <2>1 DEF Next, vars, OpenText, OpenCubin, OpenWithTool, OpenInPipeline, InputFails, Dump,
             Read, ReadingDone, NothingRead, TakeAll, TakeNamed, TakeGroups, GroupInstruction,
             Grouped, LiftKernel, Return, Finished
    <3>2. QED
      BY <1>2, <1>4, <2>1, <2>2, <3>1 DEF Outcome, Known
  <2>6. Promise!Receive
    BY <1>4, <2>4, <2>5 DEF Promise!Receive, Shown, Outcome, Known
  <2>7. QED
    BY <2>6 DEF Promise!Next
<1>5. CASE Known /\ Known'
  <2>1. /\ LiftKernel \/ Return \/ UNCHANGED <<phase, kernels>>
        /\ UNCHANGED <<call, options, instructions>>
    BY <1>5 DEF Known, Next, vars, reading, OpenText, OpenCubin, OpenWithTool, OpenInPipeline,
           InputFails, Dump, Read, ReadingDone, NothingRead, TakeAll, TakeNamed, TakeGroups,
           GroupInstruction, Grouped, LiftKernel, Return, Finished, Failed
  <2>2. UNCHANGED <<Program, Wanted>>
    BY <1>5, <2>1, ProgramKept
  <2>3. UNCHANGED Known
    BY <1>5 DEF Known
  <2>4. NamesOf(kernels) = Promise!Made
    BY DEF Promise!Made, NamesOf
  <2>5. CASE LiftKernel
    <3> DEFINE f == Head(groups).name
               made == [name |-> f, instructions |-> Head(groups).instructions,
                        sm_version |-> options.sm_version, nvinfo |-> ctx_nvinfo]
    <3>1. /\ f \in Wanted \ NamesOf(kernels) /\ Head(groups).instructions = Program[f]
      BY <2>5, KernelLifted
    <3>2. /\ Outcome = "running" /\ Outcome' = "running"
          /\ kernels' = Append(kernels, made) /\ kernels \in Seq(Kernel)
      BY <2>5 DEF LiftKernel, Outcome, LiftInv, ReadingInv, TypeOK
    <3>3. made.name = f /\ made.instructions = Program[f]
      BY <3>1
    <3> HIDE DEF f, made
    <3>4. Shown' = Append(Shown, [name |-> f, instructions |-> Program[f]])
      <4>1. /\ Len(kernels) \in Nat /\ DOMAIN kernels = 1 .. Len(kernels)
            /\ DOMAIN kernels' = 1 .. (Len(kernels) + 1)
            /\ \A n \in 1 .. Len(kernels) : kernels'[n] = kernels[n]
            /\ kernels'[Len(kernels) + 1] = made
        BY <3>2, LenProperties
      <4> DEFINE entry == [name |-> f, instructions |-> Program[f]]
      <4>2. Shown \in Seq({Shown[n] : n \in DOMAIN Shown}) /\ Len(Shown) = Len(kernels)
        <5>1. Shown = [n \in 1 .. Len(kernels) |-> Shown[n]] /\ DOMAIN Shown = 1 .. Len(kernels)
          BY <4>1 DEF Shown
        <5> HIDE DEF Shown
        <5>2. Shown \in Seq({Shown[n] : n \in DOMAIN Shown})
          BY <4>1, <5>1, IsASeq
        <5>3. QED
          BY <4>1, <5>1, <5>2, LenProperties
      <4>3. Shown' = [n \in 1 .. (Len(kernels) + 1) |->
                        IF n \in 1 .. Len(kernels) THEN Shown[n] ELSE entry]
        BY <3>3, <4>1 DEF Shown
      <4> HIDE DEF Shown, entry
      <4>4. Append(Shown, entry) = [n \in 1 .. (Len(kernels) + 1) |->
                                      IF n \in 1 .. Len(kernels) THEN Shown[n] ELSE entry]
        <5> DEFINE longer == Append(Shown, entry)
                   T == {Shown[n] : n \in DOMAIN Shown} \cup {entry}
        <5>1. /\ longer \in Seq(T)
              /\ Len(longer) = Len(kernels) + 1
              /\ \A n \in 1 .. Len(kernels) : longer[n] = Shown[n]
              /\ longer[Len(kernels) + 1] = entry
          <6>1. Shown \in Seq(T) /\ entry \in T
            BY <4>2
          <6> HIDE DEF T
          <6>2. QED
            BY <4>2, <6>1, AppendProperties
        <5> HIDE DEF longer, T
        <5>2. longer = [n \in 1 .. (Len(kernels) + 1) |-> longer[n]]
          BY <5>1
        <5>3. \A n \in 1 .. (Len(kernels) + 1) :
                longer[n] = IF n \in 1 .. Len(kernels) THEN Shown[n] ELSE entry
          BY <4>1, <5>1
        <5>4. longer = [n \in 1 .. (Len(kernels) + 1) |->
                          IF n \in 1 .. Len(kernels) THEN Shown[n] ELSE entry]
          BY <5>2, <5>3
        <5>5. QED
          BY <5>4 DEF longer
      <4>5. QED
        BY <4>3, <4>4 DEF entry
    <3>5. PICK g \in Wanted : g = f
      BY <3>1
    <3>6. Promise!Make(g)
      BY <1>5, <2>2, <2>3, <2>4, <3>1, <3>2, <3>4, <3>5 DEF Promise!Make, Shown, Outcome
    <3>7. QED
      BY <3>6 DEF Promise!Next
  <2>6. CASE Return
    <3>1. Outcome = "running" /\ Outcome' = "returned" /\ UNCHANGED Shown
      BY <1>2, <2>6 DEF Return, Outcome
    <3>2. NamesOf(kernels) = Wanted
      <4>1. NamesOf(groups) = {}
        BY <2>6 DEF Return, NamesOf
      <4>2. QED
        BY <2>6, <4>1 DEF Return, LiftInv, Lifting
    <3>3. Promise!Return
      BY <1>5, <2>2, <2>3, <2>4, <3>1, <3>2 DEF Promise!Return, Shown, Outcome
    <3>4. QED
      BY <3>3 DEF Promise!Next
  <2>7. CASE UNCHANGED <<phase, kernels>>
    <3>1. UNCHANGED <<Shown, Outcome>>
      BY <1>2, <2>7 DEF Outcome
    <3>2. QED
      BY <1>1, <2>2, <2>3, <3>1
  <2>8. QED
    BY <2>1, <2>5, <2>6, <2>7
<1>6. CASE Known /\ ~Known'
  BY <1>6 DEF Known, Next, vars, OpenText, OpenCubin, OpenWithTool, OpenInPipeline, InputFails,
         Dump, Read, ReadingDone, NothingRead, TakeAll, TakeNamed, TakeGroups, GroupInstruction,
         Grouped, LiftKernel, Return, Finished
<1>7. QED
  BY <1>3, <1>4, <1>5, <1>6

(***************************************************************************)
(* The lift is the one PerFunction promises, for every listing and call:   *)
(* one kernel for each function asked for, from that function's own        *)
(* instructions in their order, or a failure and no kernel.                *)
(***************************************************************************)
THEOREM LiftsPerFunction == Spec => ImplementsPerFunction
<1>1. Init => Promise!Init
  <2> SUFFICES ASSUME Init PROVE Promise!Init
    OBVIOUS
  <2>1. ~Known /\ Program = <<>> /\ Wanted = {} /\ Shown = <<>> /\ Outcome = "running"
    <3>1. ~Known
      BY DEF Init, Known
    <3>2. QED
      BY <3>1, ProgramUnknown DEF Init, Shown, Outcome
  <2>2. QED
    BY <2>1 DEF Promise!Init, Shown, Outcome, Known
<1>2. QED
  BY <1>1, StepImplements, LiftInvariance, PTL DEF Spec, ImplementsPerFunction, Promise!Spec
=============================================================================
