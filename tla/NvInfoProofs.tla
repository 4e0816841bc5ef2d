----------------------------- MODULE NvInfoProofs -----------------------------
(***************************************************************************)
(* The table of parameters says what the .nv.info sections describe,       *)
(* proved for every set of files: any number of sections in any order, and *)
(* payloads of any length.                                                 *)
(*                                                                         *)
(* First what the compiler's bytes are, entry by entry (UptoSteps,         *)
(* EntryAt); then the walk, which is at the beginning of an entry as long  *)
(* as no entry before it has put it out of step.  SurviveInv: what a       *)
(* section described in step is in the table, or the walk stands before it *)
(* at the beginning of an entry.  DescInv: for a kernel whose sections     *)
(* keep the walk in step, the table tells what the sections passed, and    *)
(* the entries passed of this one, describe, and nothing else.             *)
(***************************************************************************)
EXTENDS NvInfo, FiniteSetTheorems, WellFoundedInduction, TLAPS

-----------------------------------------------------------------------------
(* Recursion over the naturals. *)

(* Induction over the naturals: every set with 0 and closed under successor has them all. *)
LEMMA Induction ==
  ASSUME NEW S, 0 \in S, \A n \in Nat : n \in S => n + 1 \in S
  PROVE  Nat \subseteq S
<1> DEFINE T == Nat \ S
           R == OpToRel(<, Nat)
<1>1. SUFFICES ASSUME T # {} PROVE FALSE
  OBVIOUS
<1>2. PICK n \in T : \A m \in T : ~(<<m, n>> \in R)
  <2>1. IsWellFoundedOn(R, Nat)
    BY NatLessThanWellFounded
  <2> HIDE DEF R
  <2> QED
    BY <1>1, <2>1, WFMin
<1>3. R = {ss \in Nat \X Nat : ss[1] < ss[2]}
  BY Zenon DEF OpToRel
<1> HIDE DEF R
<1>4. n \in Nat /\ n # 0 /\ n \notin S
  BY <1>2
<1>5. n - 1 \in Nat /\ n - 1 < n /\ (n - 1) + 1 = n
  BY <1>4
<1>6. n - 1 \notin S
  BY <1>4, <1>5
<1>7. <<n - 1, n>> \in R
  BY <1>3, <1>4, <1>5
<1>8. QED
  BY <1>2, <1>5, <1>6, <1>7

(* The steps of a recursion of N turns, from a value and the turn's number to the next value. *)
Steps(N, T) == [T \X (1..N) -> T]
Follows(g, N, step) == \A n \in 1..N : g[n] = step[<<g[n - 1], n>>]

(* A function that is given by its first value and by steps from each value to the next. *)
LEMMA Recursion ==
  ASSUME NEW N \in Nat, NEW T, NEW base \in T, NEW step \in Steps(N, T)
  PROVE  \E g \in [0..N -> T] : g[0] = base /\ Follows(g, N, step)
<1> USE DEF Steps, Follows
<1> DEFINE Upto_(g, k) == /\ g \in [0..k -> T] /\ g[0] = base
                          /\ \A n \in 1..k : g[n] = step[<<g[n - 1], n>>]
           S == {k \in Nat : k <= N => \E g : Upto_(g, k)}
<1>1. 0 \in S
  <2>1. Upto_([n \in 0..0 |-> base], 0)
    OBVIOUS
  <2>2. QED
    BY <2>1
<1>2. ASSUME NEW k \in Nat, k \in S PROVE k + 1 \in S
  <2>1. SUFFICES ASSUME k + 1 <= N PROVE \E g : Upto_(g, k + 1)
    OBVIOUS
  <2>2. PICK g : Upto_(g, k)
    BY <1>2, <2>1
  <2> DEFINE h == [n \in 0..(k + 1) |-> IF n = k + 1 THEN step[<<g[k], k + 1>>] ELSE g[n]]
  <2>3. step[<<g[k], k + 1>>] \in T
    BY <2>1, <2>2
  <2>4. h \in [0..(k + 1) -> T] /\ h[0] = base
    BY <2>2, <2>3
  <2>5. ASSUME NEW n \in 1..(k + 1) PROVE h[n] = step[<<h[n - 1], n>>]
    <3>1. CASE n = k + 1
      <4>1. h[k + 1] = step[<<g[k], k + 1>>] /\ h[k] = g[k]
        OBVIOUS
      <4>2. n - 1 = k
        BY <3>1
      <4>3. QED
        BY <3>1, <4>1, <4>2
    <3>2. CASE n # k + 1
      BY <2>2, <3>2
    <3>3. QED
      BY <3>1, <3>2
  <2> HIDE DEF h
  <2>6. QED
    BY <2>4, <2>5
<1> HIDE DEF S
<1>3. N \in S
  BY <1>1, <1>2, Induction
<1>4. QED
  BY <1>3 DEF S

-----------------------------------------------------------------------------
(* The compiler's bytes. *)

LEMMA UptoSteps ==
  ASSUME NEW pieces \in Seq(Seq(Nat))
  PROVE  /\ Upto(pieces) \in [0..Len(pieces) -> Seq(Nat)]
         /\ Upto(pieces)[0] = <<>>
         /\ \A n \in 1..Len(pieces) : Upto(pieces)[n] = Upto(pieces)[n - 1] \o pieces[n]
<1> DEFINE N == Len(pieces)
           T == Seq(Nat)
           step == [u \in T \X (1..N) |-> u[1] \o pieces[u[2]]]
           Is(g) == g = [n \in 0..N |-> IF n = 0 THEN <<>> ELSE g[n - 1] \o pieces[n]]
<1>1. /\ N \in Nat /\ <<>> \in T /\ step \in [T \X (1..N) -> T]
      /\ \A t \in T : \A n \in 1..N : step[<<t, n>>] = t \o pieces[n] /\ t \o pieces[n] \in T
  <2>1. N \in Nat /\ <<>> \in T
    OBVIOUS
  <2>2. \A n \in 1..N : pieces[n] \in T
    OBVIOUS
  <2>3. \A t \in T : \A n \in 1..N : t \o pieces[n] \in T
    BY <2>2
  <2> HIDE DEF T, N
  <2>4. QED
    BY <2>1, <2>3
<1>2. Upto(pieces) = CHOOSE h : Is(h)
  BY Zenon DEF Upto
<1> HIDE DEF step, T, N
<1>3. PICK g \in [0..N -> T] : g[0] = <<>> /\ \A n \in 1..N : g[n] = step[<<g[n - 1], n>>]
  <2>1. step \in Steps(N, T)
    BY <1>1 DEF Steps
  <2>2. \E g \in [0..N -> T] : g[0] = <<>> /\ Follows(g, N, step)
    BY ONLY <1>1, <2>1, Recursion
  <2>3. QED
    BY <2>2 DEF Follows
<1>4. \A n \in 1..N : n - 1 \in 0..N /\ n \in 0..N /\ n # 0
  BY <1>1
<1>5. \A n \in 0..N : n = 0 \/ n \in 1..N
  BY <1>1
<1>6. \A n \in 1..N : g[n] = g[n - 1] \o pieces[n]
  BY <1>1, <1>3, <1>4
<1>7. Is(g)
  BY <1>3, <1>5, <1>6
<1> HIDE DEF Is
<1>8. Is(Upto(pieces))
  BY <1>2, <1>7
<1> DEFINE v == Upto(pieces)
<1> HIDE DEF v
<1>9. Is(v)
  BY <1>8 DEF v
<1>10. /\ v = [n \in 0..N |-> v[n]] /\ v[0] = <<>>
       /\ \A n \in 1..N : v[n] = v[n - 1] \o pieces[n]
  <2>1. v = [n \in 0..N |-> v[n]]
    BY <1>9 DEF Is
  <2>2. 0 \in 0..N
    BY <1>1
  <2>3. QED
    BY <1>4, <1>9, <2>1, <2>2 DEF Is
<1>11. \A n \in 0..N : v[n] \in T
  <2> DEFINE S == {n \in Nat : n <= N => v[n] \in T}
  <2>1. 0 \in S
    BY <1>1, <1>10
  <2>2. ASSUME NEW n \in Nat, n \in S PROVE n + 1 \in S
    <3>1. SUFFICES ASSUME n + 1 <= N PROVE v[n + 1] \in T
      OBVIOUS
    <3>2. v[n] \in T /\ n + 1 \in 1..N /\ (n + 1) - 1 = n
      BY <1>1, <2>2, <3>1
    <3>3. v[n + 1] = v[n] \o pieces[n + 1]
      BY <1>10, <3>2
    <3>4. QED
      BY <1>1, <3>2, <3>3
  <2> HIDE DEF S
  <2>3. Nat \subseteq S
    BY <2>1, <2>2, Induction
  <2>4. QED
    BY <1>1, <2>3 DEF S
<1>12. QED
  BY <1>10, <1>11 DEF v, T, N

(* The bytes of fewer pieces begin those of more. *)
LEMMA UptoBegins ==
  ASSUME NEW pieces \in Seq(Seq(Nat)), NEW n \in 0..Len(pieces), NEW m \in 0..n
  PROVE  /\ Len(Upto(pieces)[m]) <= Len(Upto(pieces)[n])
         /\ \A i \in 1..Len(Upto(pieces)[m]) : Upto(pieces)[n][i] = Upto(pieces)[m][i]
<1> DEFINE u == Upto(pieces)
           N == Len(pieces)
           Begins(k) == /\ Len(u[m]) <= Len(u[k])
                        /\ \A i \in 1..Len(u[m]) : u[k][i] = u[m][i]
           S == {d \in Nat : m + d <= N => Begins(m + d)}
<1>1. /\ N \in Nat /\ u \in [0..N -> Seq(Nat)]
      /\ \A k \in 1..N : u[k] = u[k - 1] \o pieces[k] /\ pieces[k] \in Seq(Nat)
  <2>1. N \in Nat /\ \A k \in 1..N : pieces[k] \in Seq(Nat)
    OBVIOUS
  <2>2. QED
    BY <2>1, UptoSteps
<1> HIDE DEF u, N
<1>2. 0 \in S
  BY <1>1
<1>3. ASSUME NEW d \in Nat, d \in S PROVE d + 1 \in S
  <2>1. SUFFICES ASSUME m + d + 1 <= N PROVE Begins(m + d + 1)
    BY <1>1
  <2>2. PICK a \in Seq(Nat), b \in Seq(Nat) : u[m + d + 1] = a \o b /\ a = u[m + d]
    <3>1. m + d + 1 \in 1..N /\ (m + d + 1) - 1 = m + d /\ m + d \in 0..N
      BY <1>1, <2>1
    <3>2. QED
      BY <1>1, <3>1
  <2>3. Begins(m + d)
    BY <1>1, <1>3, <2>1
  <2>4. u[m] \in Seq(Nat)
    BY <1>1, <2>1
  <2>5. Begins(m + d + 1)
    <3> DEFINE c == u[m]
               w == u[m + d + 1]
    <3>1. c \in Seq(Nat) /\ Len(c) <= Len(a) /\ \A i \in 1..Len(c) : a[i] = c[i]
      BY <2>2, <2>3, <2>4
    <3> HIDE DEF c
    <3>2. w = a \o b /\ \A i \in 1..Len(a) : w[i] = a[i]
      BY <2>2
    <3>3. Len(a) <= Len(w) /\ Len(a) \in Nat /\ Len(w) \in Nat /\ Len(c) \in Nat
      BY <2>2, <3>1
    <3> HIDE DEF w
    <3>4. Len(c) <= Len(w) /\ \A i \in 1..Len(c) : w[i] = c[i]
      BY <3>1, <3>2, <3>3
    <3>5. QED
      BY <3>4 DEF c, w
  <2>6. QED
    BY <2>5
<1>4. n - m \in Nat /\ m + (n - m) = n /\ n <= N
  BY <1>1 DEF N
<1> HIDE DEF S
<1>5. n - m \in S
  BY <1>2, <1>3, <1>4, Induction
<1>6. QED
  BY <1>4, <1>5 DEF S, u

LEMMA BytesAreNumbers == ASSUME NEW q \in Seq(Byte) PROVE q \in Seq(Nat)
<1>1. Byte \subseteq Nat
  BY DEF Byte
<1>2. Len(q) \in Nat /\ q = [i \in 1..Len(q) |-> q[i]] /\ \A i \in 1..Len(q) : q[i] \in Byte
  OBVIOUS
<1>3. QED
  BY <1>1, <1>2

LEMMA EntryTyped ==
  ASSUME NEW e \in Entry
  PROVE  /\ e.fmt \in Byte /\ e.attr \in Byte /\ e.fmt \in Nat /\ e.attr \in Nat
         /\ e.sized \in BOOLEAN /\ e.value \in Nat
         /\ e.data \in Seq(Nat) /\ (e.sized \/ e.data = <<>>)
<1> DEFINE R == [fmt: Byte, attr: Byte, sized: BOOLEAN, value: Halfword, data: Seq(Byte)]
<1>1. e \in R /\ (e.sized \/ e.data = <<>>)
  BY Zenon DEF Entry
<1>2. e.fmt \in Byte /\ e.attr \in Byte /\ e.value \in Halfword /\ e.data \in Seq(Byte)
  BY <1>1
<1>3. e.sized \in BOOLEAN
  BY <1>1
<1>4. e.data \in Seq(Nat)
  BY <1>2, BytesAreNumbers
<1>5. e.fmt \in Nat /\ e.attr \in Nat
  <2>1. Byte \subseteq Nat
    BY DEF Byte
  <2>2. QED
    BY <1>2, <2>1
<1>6. e.value \in Nat
  BY <1>2 DEF Halfword
<1>7. QED
  BY <1>1, <1>2, <1>3, <1>4, <1>5, <1>6, Zenon

(* c is one sequence of numbers after another. *)
IsChain(c, a, b) == /\ c \in Seq(Nat) /\ Len(c) = Len(a) + Len(b)
                    /\ \A i \in 1..Len(a) : c[i] = a[i]
                    /\ \A i \in 1..Len(b) : c[Len(a) + i] = b[i]

LEMMA Chained ==
  ASSUME NEW a \in Seq(Nat), NEW b \in Seq(Nat)
  PROVE  IsChain(a \o b, a, b)
<1>1. Len(a) \in Nat /\ Len(b) \in Nat
  OBVIOUS
<1>2. a \o b \in Seq(Nat) /\ Len(a \o b) = Len(a) + Len(b)
  OBVIOUS
<1>3. \A i \in 1..Len(a) : (a \o b)[i] = a[i]
  OBVIOUS
<1>4. ASSUME NEW i \in 1..Len(b) PROVE (a \o b)[Len(a) + i] = b[i]
  <2>1. Len(a) + i \in 1..(Len(a) + Len(b)) /\ Len(a) + i > Len(a) /\ (Len(a) + i) - Len(a) = i
    BY <1>1
  <2>2. QED
    BY <1>1, <2>1
<1>5. QED
  BY <1>2, <1>3, <1>4 DEF IsChain

(* Two sequences of one length with the same elements. *)
LEMMA SameSequence ==
  ASSUME NEW a \in Seq(Nat), NEW b \in Seq(Nat), Len(a) = Len(b),
         \A i \in 1..Len(a) : a[i] = b[i]
  PROVE  a = b
OBVIOUS

(* An entry's bytes: the format, the attribute, its u16, and the data. *)
LEMMA EntryShape ==
  ASSUME NEW e \in Entry
  PROVE  LET b == EntryBytes(e)
         IN /\ e.data \in Seq(Nat) /\ e.fmt \in Nat /\ e.attr \in Nat
            /\ b \in Seq(Nat) /\ Len(b) = 4 + Len(e.data)
            /\ b[1] = e.fmt /\ b[2] = e.attr
            /\ b[3] + 256 * b[4] = IF e.sized THEN Len(e.data) ELSE e.value
            /\ \A i \in 1..Len(e.data) : b[4 + i] = e.data[i]
<1> DEFINE d == e.data
           b == EntryBytes(e)
           v == IF e.sized THEN Len(d) ELSE e.value
<1>1. /\ e.fmt \in Nat /\ e.attr \in Nat /\ e.sized \in BOOLEAN /\ e.value \in Nat
      /\ d \in Seq(Nat) /\ (e.sized \/ d = <<>>)
  BY EntryTyped
<1>2. v \in Nat
  BY <1>1
<1>3. v % 256 \in Nat /\ v \div 256 \in Nat /\ (v % 256) + 256 * (v \div 256) = v
  BY <1>2
<1>4. b = <<e.fmt, e.attr>> \o (<<v % 256, v \div 256>> \o d)
  <2>1. CASE e.sized
    BY <2>1 DEF EntryBytes, Low16
  <2>2. CASE ~e.sized
    <3>1. b = <<e.fmt, e.attr>> \o <<v % 256, v \div 256>> /\ d = <<>>
      BY <1>1, <2>2 DEF EntryBytes, Low16
    <3> HIDE DEF b, v
    <3>2. <<v % 256, v \div 256>> \o d = <<v % 256, v \div 256>>
      BY <1>3, <3>1
    <3>3. QED
      BY <3>1, <3>2
  <2>3. QED
    BY <1>1, <2>1, <2>2
<1> HIDE DEF b, v, d
<1>5. /\ b \in Seq(Nat) /\ Len(b) = 4 + Len(d)
      /\ b[1] = e.fmt /\ b[2] = e.attr /\ b[3] = v % 256 /\ b[4] = v \div 256
      /\ \A i \in 1..Len(d) : b[4 + i] = d[i]
  <2> DEFINE x == <<v % 256, v \div 256>>
             y == x \o d
             z == <<e.fmt, e.attr>>
  <2>1. x \in Seq(Nat) /\ Len(x) = 2 /\ x[1] = v % 256 /\ x[2] = v \div 256
    BY <1>3
  <2>2. z \in Seq(Nat) /\ Len(z) = 2 /\ z[1] = e.fmt /\ z[2] = e.attr
    BY <1>1
  <2> HIDE DEF x, z
  <2>3. /\ y \in Seq(Nat) /\ Len(y) = 2 + Len(d)
        /\ \A i \in 1..2 : y[i] = x[i]
        /\ \A i \in 1..Len(d) : y[2 + i] = d[i]
    <3>1. x \in Seq(Nat) /\ d \in Seq(Nat) /\ Len(x) = 2
      BY <1>1, <2>1
    <3>2. IsChain(x \o d, x, d)
      BY ONLY <3>1, Chained
    <3>3. IsChain(y, x, d)
      BY <3>2
    <3> HIDE DEF y
    <3>4. QED
      BY ONLY <3>1, <3>3 DEF IsChain
  <2>4. Len(d) \in Nat
    BY <1>1
  <2> HIDE DEF y
  <2>5. b = z \o y
    BY <1>4 DEF x, y, z
  <2>6. /\ b \in Seq(Nat) /\ Len(b) = 2 + Len(y)
        /\ \A i \in 1..2 : b[i] = z[i]
        /\ \A i \in 1..Len(y) : b[2 + i] = y[i]
    <3>1. z \in Seq(Nat) /\ y \in Seq(Nat) /\ Len(z) = 2
      BY <2>2, <2>3
    <3>2. IsChain(z \o y, z, y)
      BY ONLY <3>1, Chained
    <3>3. IsChain(b, z, y)
      BY <2>5, <3>2
    <3>4. QED
      BY ONLY <3>1, <3>3 DEF IsChain
  <2>7. b[3] = y[1] /\ b[4] = y[2]
    BY <2>3, <2>4, <2>6
  <2>8. ASSUME NEW i \in 1..Len(d) PROVE b[4 + i] = d[i]
    <3>1. 2 + i \in 1..Len(y) /\ 2 + (2 + i) = 4 + i
      BY <2>3, <2>4
    <3>2. QED
      BY <2>3, <2>6, <3>1
  <2>9. QED
    BY <2>1, <2>2, <2>3, <2>4, <2>6, <2>7, <2>8
<1>6. QED
  BY <1>1, <1>3, <1>5 DEF b, v, d

Off(entries, j) == Len(Upto(Pieces(entries))[j])

LEMMA PiecesTyped ==
  ASSUME NEW entries \in Seq(Entry)
  PROVE  /\ Pieces(entries) \in Seq(Seq(Nat)) /\ Len(Pieces(entries)) = Len(entries)
         /\ \A n \in 1..Len(entries) : /\ entries[n] \in Entry
                                       /\ Pieces(entries)[n] = EntryBytes(entries[n])
<1>1. Len(entries) \in Nat /\ DOMAIN entries = 1..Len(entries)
  OBVIOUS
<1>2. \A n \in 1..Len(entries) : entries[n] \in Entry
  OBVIOUS
<1>3. \A n \in 1..Len(entries) : EntryBytes(entries[n]) \in Seq(Nat)
  BY <1>2, EntryShape
<1>4. Pieces(entries) = [n \in 1..Len(entries) |-> EntryBytes(entries[n])]
  BY <1>1 DEF Pieces
<1> DEFINE T == Seq(Nat)
           N == Len(entries)
           q == Pieces(entries)
<1>5. N \in Nat /\ DOMAIN q = 1..N /\ \A n \in 1..N : q[n] \in T
  BY <1>1, <1>3, <1>4
<1>6. q = [n \in 1..N |-> q[n]]
  BY <1>4
<1> HIDE DEF T, N, q
<1>7. q \in Seq(T) /\ Len(q) = N
  BY <1>5, <1>6
<1>8. QED
  BY <1>2, <1>4, <1>7 DEF T, N, q

(* Where the entries begin. *)
LEMMA Offsets ==
  ASSUME NEW entries \in Seq(Entry)
  PROVE  /\ \A j \in 0..Len(entries) : /\ Upto(Pieces(entries))[j] \in Seq(Nat)
                                       /\ Off(entries, j) \in Nat
         /\ Off(entries, 0) = 0
         /\ \A j \in 0..(Len(entries) - 1) :
              /\ Off(entries, j + 1) = Off(entries, j) + 4 + Len(entries[j + 1].data)
              /\ \A i \in 1..(4 + Len(entries[j + 1].data)) :
                   Upto(Pieces(entries))[j + 1][Off(entries, j) + i] = EntryBytes(entries[j + 1])[i]
<1> DEFINE u == Upto(Pieces(entries))
           N == Len(entries)
<1>1. /\ u \in [0..N -> Seq(Nat)] /\ u[0] = <<>>
      /\ \A n \in 1..N : u[n] = u[n - 1] \o EntryBytes(entries[n])
  BY PiecesTyped, UptoSteps
<1>2. N \in Nat /\ \A n \in 1..N : entries[n] \in Entry
  BY PiecesTyped
<1> HIDE DEF u, N
<1>3. \A j \in 0..N : u[j] \in Seq(Nat) /\ Len(u[j]) \in Nat
  BY <1>1
<1>4. ASSUME NEW j \in 0..(N - 1)
      PROVE  /\ Len(u[j + 1]) = Len(u[j]) + 4 + Len(entries[j + 1].data)
             /\ \A i \in 1..(4 + Len(entries[j + 1].data)) :
                  u[j + 1][Len(u[j]) + i] = EntryBytes(entries[j + 1])[i]
  <2>1. j + 1 \in 1..N /\ (j + 1) - 1 = j /\ j \in 0..N
    BY <1>2
  <2>2. u[j + 1] = u[j] \o EntryBytes(entries[j + 1])
    BY <1>1, <2>1
  <2>3. /\ EntryBytes(entries[j + 1]) \in Seq(Nat) /\ entries[j + 1].data \in Seq(Nat)
        /\ Len(EntryBytes(entries[j + 1])) = 4 + Len(entries[j + 1].data)
    BY <1>2, <2>1, EntryShape
  <2>4. u[j] \in Seq(Nat)
    BY <1>3, <2>1
  <2>5. QED
    <3> DEFINE a == u[j]
               b == EntryBytes(entries[j + 1])
               d == Len(entries[j + 1].data)
    <3> HIDE DEF a, b, d
    <3>1. a \in Seq(Nat) /\ b \in Seq(Nat) /\ Len(b) = 4 + d /\ u[j + 1] = a \o b
      BY <2>2, <2>3, <2>4 DEF a, b, d
    <3>2. d \in Nat
      BY <2>3 DEF d
    <3>3. Len(u[j + 1]) = Len(a) + (4 + d) /\ \A i \in 1..(4 + d) : u[j + 1][Len(a) + i] = b[i]
      <4>1. IsChain(a \o b, a, b)
        BY ONLY <3>1, Chained
      <4>2. IsChain(u[j + 1], a, b)
        BY <3>1, <4>1
      <4>3. QED
        BY ONLY <3>1, <4>2 DEF IsChain
    <3>4. Len(a) \in Nat
      BY <3>1
    <3>5. Len(u[j + 1]) = Len(a) + 4 + d
      BY <3>2, <3>3, <3>4
    <3>6. QED
      BY <3>3, <3>5 DEF a, b, d
<1>5. Len(u[0]) = 0
  BY <1>1
<1>6. QED
  BY <1>3, <1>4, <1>5 DEF Off, u, N

(* Bytes that begin with those of j + 1 entries have entry j + 1 after those of the first j. *)
LEMMA EntryAt ==
  ASSUME NEW data \in Seq(Nat), NEW entries \in Seq(Entry), NEW j \in 0..(Len(entries) - 1),
         BeginsWith(data, Upto(Pieces(entries))[j + 1])
  PROVE  LET e == entries[j + 1]
             o == Off(entries, j)
         IN /\ e \in Entry /\ o \in Nat /\ Off(entries, j + 1) = o + 4 + Len(e.data)
            /\ Off(entries, j + 1) <= Len(data)
            /\ data[o + 1] = e.fmt /\ data[o + 2] = e.attr
            /\ U16(data, o + 2) = IF e.sized THEN Len(e.data) ELSE e.value
            /\ SubSeq(data, o + 5, o + 4 + Len(e.data)) = e.data
<1> DEFINE e == entries[j + 1]
           o == Off(entries, j)
           p == Off(entries, j + 1)
           v == Upto(Pieces(entries))[j + 1]
           b == EntryBytes(e)
<1>1. j + 1 \in 1..Len(entries) /\ j \in 0..Len(entries) /\ j + 1 \in 0..Len(entries)
  OBVIOUS
<1>2. /\ e \in Entry /\ e.data \in Seq(Nat) /\ Len(b) = 4 + Len(e.data)
      /\ b[1] = e.fmt /\ b[2] = e.attr
      /\ b[3] + 256 * b[4] = IF e.sized THEN Len(e.data) ELSE e.value
      /\ \A i \in 1..Len(e.data) : b[4 + i] = e.data[i]
  <2>1. e \in Entry
    BY <1>1
  <2> HIDE DEF e
  <2>2. QED
    BY <2>1, EntryShape
<1>3. /\ o \in Nat /\ v \in Seq(Nat) /\ p = Len(v) /\ p = o + 4 + Len(e.data)
      /\ \A i \in 1..(4 + Len(e.data)) : v[o + i] = b[i]
  BY <1>1, Offsets DEF Off
<1>4. Len(v) <= Len(data) /\ SubSeq(data, 1, Len(v)) = v
  BY DEF BeginsWith
<1> DEFINE n == Len(e.data)
           d == e.data
<1> HIDE DEF e, o, p, v, b
<1>5. n \in Nat
  BY <1>2
<1> HIDE DEF n, d
<1>6. \A i \in 1..Len(v) : data[i] = v[i]
  <2>1. TAKE i \in 1..Len(v)
  <2>2. SubSeq(data, 1, Len(v))[i] = data[i]
    BY <1>3, <1>4
  <2>3. QED
    BY <1>4, <2>2
<1>7. \A i \in 1..(4 + n) : o + i \in 1..Len(v) /\ data[o + i] = b[i]
  <2>1. TAKE i \in 1..(4 + n)
  <2>2. o + i \in 1..Len(v)
    <3>1. Len(v) = o + 4 + n /\ o \in Nat
      BY <1>3 DEF n
    <3>2. QED
      BY <1>5, <3>1
  <2>3. v[o + i] = b[i]
    BY <1>3 DEF n
  <2>4. QED
    BY <1>6, <2>2, <2>3
<1>8. /\ data[o + 1] = b[1] /\ data[o + 2] = b[2] /\ data[o + 3] = b[3] /\ data[o + 4] = b[4]
      /\ \A i \in 1..n : data[o + 4 + i] = b[4 + i]
  <2>1. 1 \in 1..(4 + n) /\ 2 \in 1..(4 + n) /\ 3 \in 1..(4 + n) /\ 4 \in 1..(4 + n)
    BY <1>5
  <2>2. ASSUME NEW i \in 1..n PROVE data[o + 4 + i] = b[4 + i]
    <3>1. 4 + i \in 1..(4 + n) /\ o + (4 + i) = o + 4 + i
      BY <1>3, <1>5
    <3>2. QED
      BY <1>7, <3>1
  <2>3. QED
    BY <1>7, <2>1, <2>2
<1>9. U16(data, o + 2) = b[3] + 256 * b[4]
  BY <1>3, <1>8 DEF U16
<1>10. SubSeq(data, o + 5, o + 4 + n) = d
  <2> DEFINE q == SubSeq(data, o + 5, o + 4 + n)
  <2>1. o + 4 + n <= Len(data)
    BY <1>3, <1>4 DEF n
  <2>2. /\ q \in Seq(Nat) /\ Len(q) = n
        /\ \A i \in 1..n : q[i] = data[o + 4 + i]
    BY <1>3, <1>5, <2>1
  <2>3. d \in Seq(Nat) /\ Len(d) = n /\ \A i \in 1..n : d[i] = data[o + 4 + i]
    BY <1>2, <1>8 DEF n, d
  <2> HIDE DEF q
  <2>4. q = d
    BY <2>2, <2>3, SameSequence
  <2>5. QED
    BY <2>4 DEF q
<1>11. QED
  BY <1>2, <1>3, <1>4, <1>8, <1>9, <1>10 DEF e, o, p, v, b, n, d

-----------------------------------------------------------------------------
(* The entries that describe a kernel. *)

GatheredTo(v, earlier, entries, attr, length) ==
  /\ v \in [0..Len(entries) -> Seq(Entry)] /\ v[0] = earlier
  /\ \A n \in 1..Len(entries) :
       v[n] = IF Describes(entries[n], attr, length) THEN Append(v[n - 1], entries[n])
              ELSE v[n - 1]

LEMMA GatheredSteps ==
  ASSUME NEW earlier \in Seq(Entry), NEW entries \in Seq(Entry), NEW attr, NEW length
  PROVE  GatheredTo(Gathered(earlier, entries, attr, length), earlier, entries, attr, length)
<1> DEFINE N == Len(entries)
           T == Seq(Entry)
           D(n) == Describes(entries[n], attr, length)
           step == [u \in T \X (1..N) |-> IF D(u[2]) THEN Append(u[1], entries[u[2]]) ELSE u[1]]
           Is(g) == g = [m \in 0..N |-> IF m = 0 THEN earlier
                                        ELSE IF D(m) THEN Append(g[m - 1], entries[m])
                                        ELSE g[m - 1]]
           w == Gathered(earlier, entries, attr, length)
<1>1. w = CHOOSE h : Is(h)
  BY Zenon DEF Gathered
<1>2. N \in Nat /\ earlier \in T /\ \A t \in T : \A n \in 1..N : Append(t, entries[n]) \in T
  OBVIOUS
<1> HIDE DEF T, N, D, w
<1>3. /\ step \in [T \X (1..N) -> T]
      /\ \A t \in T : \A n \in 1..N :
           step[<<t, n>>] = IF D(n) THEN Append(t, entries[n]) ELSE t
  BY <1>2
<1> HIDE DEF step
<1>4. PICK g \in [0..N -> T] : g[0] = earlier /\ \A n \in 1..N : g[n] = step[<<g[n - 1], n>>]
  <2>1. step \in Steps(N, T)
    BY <1>3 DEF Steps
  <2>2. \E g \in [0..N -> T] : g[0] = earlier /\ Follows(g, N, step)
    BY ONLY <1>2, <2>1, Recursion
  <2>3. QED
    BY <2>2 DEF Follows
<1>5. \A n \in 1..N : n - 1 \in 0..N /\ n \in 0..N /\ n # 0
  BY <1>2
<1>6. \A n \in 0..N : n = 0 \/ n \in 1..N
  BY <1>2
<1>7. \A n \in 1..N : g[n] = IF D(n) THEN Append(g[n - 1], entries[n]) ELSE g[n - 1]
  BY <1>3, <1>4, <1>5
<1>8. Is(g)
  BY <1>4, <1>6, <1>7
<1> HIDE DEF Is
<1>9. Is(w)
  BY <1>1, <1>8
<1>10. /\ w = [n \in 0..N |-> w[n]] /\ w[0] = earlier
       /\ \A n \in 1..N : w[n] = IF D(n) THEN Append(w[n - 1], entries[n]) ELSE w[n - 1]
  <2>1. w = [n \in 0..N |-> w[n]]
    BY <1>9 DEF Is
  <2>2. 0 \in 0..N
    BY <1>2
  <2>3. QED
    BY <1>5, <1>9, <2>1, <2>2 DEF Is
<1>11. \A n \in 0..N : w[n] \in T
  <2> DEFINE S == {n \in Nat : n <= N => w[n] \in T}
  <2>1. 0 \in S
    BY <1>2, <1>10
  <2>2. ASSUME NEW n \in Nat, n \in S PROVE n + 1 \in S
    <3>1. SUFFICES ASSUME n + 1 <= N PROVE w[n + 1] \in T
      OBVIOUS
    <3>2. w[n] \in T /\ n + 1 \in 1..N /\ (n + 1) - 1 = n
      BY <1>2, <2>2, <3>1
    <3>3. w[n + 1] = IF D(n + 1) THEN Append(w[n], entries[n + 1]) ELSE w[n]
      BY <1>10, <3>2
    <3>4. QED
      BY <1>2, <3>2, <3>3
  <2> HIDE DEF S
  <2>3. Nat \subseteq S
    BY <2>1, <2>2, Induction
  <2>4. QED
    BY <1>2, <2>3 DEF S
<1>12. GatheredTo(w, earlier, entries, attr, length)
  BY <1>10, <1>11 DEF T, N, D, GatheredTo
<1>13. QED
  BY <1>12 DEF w

LEMMA SectionTyped ==
  ASSUME cubin \in Cubin, NEW n \in DOMAIN cubin.sections
  PROVE  LET s == cubin.sections[n]
         IN /\ cubin.sections \in Seq(Section) /\ s \in Section
            /\ s.written \in Seq(Entry) /\ s.data \in Seq(Byte) /\ s.data \in Seq(Nat)
            /\ s.name \in SectionName
<1>1. cubin.sections \in Seq(Section)
  BY DEF Cubin
<1> DEFINE s == cubin.sections[n]
<1>2. s \in Section
  BY <1>1
<1> HIDE DEF s
<1>3. s.written \in Seq(Entry) /\ s.data \in Seq(Byte) /\ s.name \in SectionName
  BY <1>2 DEF Section
<1>4. s.data \in Seq(Nat)
  BY <1>3, BytesAreNumbers
<1>5. QED
  BY <1>1, <1>2, <1>3, <1>4 DEF s

Gained(before, s, k, attr, length) ==
  IF IsOf(k, s) THEN Gathered(before, s.written, attr, length)[Len(s.written)] ELSE before
FoundTo(v, k, attr, length) ==
  /\ v \in [0..Len(cubin.sections) -> Seq(Entry)] /\ v[0] = <<>>
  /\ \A n \in 1..Len(cubin.sections) : v[n] = Gained(v[n - 1], cubin.sections[n], k, attr, length)

LEMMA DescriptorsSteps ==
  ASSUME cubin \in Cubin, NEW k, NEW attr, NEW length
  PROVE  FoundTo(DescriptorsUpto(k, attr, length), k, attr, length)
<1> DEFINE N == Len(cubin.sections)
           T == Seq(Entry)
           G(t, n) == Gained(t, cubin.sections[n], k, attr, length)
           step == [u \in T \X (1..N) |-> G(u[1], u[2])]
           Is(g) == g = [n \in 0..N |-> IF n = 0 THEN <<>> ELSE G(g[n - 1], n)]
           w == DescriptorsUpto(k, attr, length)
<1>1. w = CHOOSE h : Is(h)
  BY Zenon DEF DescriptorsUpto, Gained
<1>2. N \in Nat /\ <<>> \in T /\ \A t \in T : \A n \in 1..N : G(t, n) \in T
  <2>1. cubin.sections \in Seq(Section)
    BY DEF Cubin
  <2>2. N \in Nat /\ DOMAIN cubin.sections = 1..N
    BY <2>1
  <2>3. ASSUME NEW t \in T, NEW n \in 1..N PROVE G(t, n) \in T
    <3> DEFINE s == cubin.sections[n]
    <3>1. s.written \in Seq(Entry)
      BY <2>2, SectionTyped
    <3> HIDE DEF s
    <3>2. Len(s.written) \in 0..Len(s.written)
      BY <3>1
    <3>3. GatheredTo(Gathered(t, s.written, attr, length), t, s.written, attr, length)
      BY <3>1, GatheredSteps
    <3>4. Gathered(t, s.written, attr, length)[Len(s.written)] \in T
      BY <3>2, <3>3 DEF GatheredTo
    <3>5. QED
      BY <3>4 DEF Gained, s
  <2>4. QED
    BY <2>2, <2>3
<1> HIDE DEF T, N, G, w
<1>3. /\ step \in [T \X (1..N) -> T]
      /\ \A t \in T : \A n \in 1..N : step[<<t, n>>] = G(t, n)
  BY <1>2
<1> HIDE DEF step
<1>4. PICK g \in [0..N -> T] : g[0] = <<>> /\ \A n \in 1..N : g[n] = step[<<g[n - 1], n>>]
  <2>1. step \in Steps(N, T)
    BY <1>3 DEF Steps
  <2>2. \E g \in [0..N -> T] : g[0] = <<>> /\ Follows(g, N, step)
    BY ONLY <1>2, <2>1, Recursion
  <2>3. QED
    BY <2>2 DEF Follows
<1>5. \A n \in 1..N : n - 1 \in 0..N /\ n \in 0..N /\ n # 0
  BY <1>2
<1>6. \A n \in 0..N : n = 0 \/ n \in 1..N
  BY <1>2
<1>7. \A n \in 1..N : g[n] = G(g[n - 1], n)
  BY <1>3, <1>4, <1>5
<1>8. Is(g)
  BY <1>4, <1>6, <1>7
<1> HIDE DEF Is
<1>9. Is(w)
  BY <1>1, <1>8
<1>10. /\ w = [n \in 0..N |-> w[n]] /\ w[0] = <<>>
       /\ \A n \in 1..N : w[n] = G(w[n - 1], n)
  <2>1. w = [n \in 0..N |-> w[n]]
    BY <1>9 DEF Is
  <2>2. 0 \in 0..N
    BY <1>2
  <2>3. QED
    BY <1>5, <1>9, <2>1, <2>2 DEF Is
<1>11. \A n \in 0..N : w[n] \in T
  <2> DEFINE S == {n \in Nat : n <= N => w[n] \in T}
  <2>1. 0 \in S
    BY <1>2, <1>10
  <2>2. ASSUME NEW n \in Nat, n \in S PROVE n + 1 \in S
    <3>1. SUFFICES ASSUME n + 1 <= N PROVE w[n + 1] \in T
      OBVIOUS
    <3>2. w[n] \in T /\ n + 1 \in 1..N /\ (n + 1) - 1 = n
      BY <1>2, <2>2, <3>1
    <3>3. w[n + 1] = G(w[n], n + 1)
      BY <1>10, <3>2
    <3>4. QED
      BY <1>2, <3>2, <3>3
  <2> HIDE DEF S
  <2>3. Nat \subseteq S
    BY <2>1, <2>2, Induction
  <2>4. QED
    BY <1>2, <2>3 DEF S
<1>12. FoundTo(w, k, attr, length)
  BY <1>10, <1>11 DEF T, N, G, FoundTo
<1>13. QED
  BY <1>12 DEF w

-----------------------------------------------------------------------------
(* The parameters of a kernel, sorted. *)

NvKparams == {NvKparam(d) : d \in {b \in Seq(Nat) : Len(b) >= 12}}

LEMMA OrdinalTyped == ASSUME NEW p \in NvKparams PROVE p.ordinal \in Nat
<1>1. PICK d \in Seq(Nat) : Len(d) >= 12 /\ p = NvKparam(d)
  BY DEF NvKparams
<1>2. d[5] \in Nat /\ d[6] \in Nat
  BY <1>1
<1>3. p.ordinal = d[5] + 256 * d[6]
  BY <1>1 DEF NvKparam, U16
<1>4. QED
  BY <1>2, <1>3

LEMMA IntervalSize == ASSUME NEW N \in Nat PROVE IsFiniteSet(1..N) /\ Cardinality(1..N) = N
<1>1. IsFiniteSet(1..N) /\ Cardinality(1..N) = IF 1 > N THEN 0 ELSE N - 1 + 1
  BY FS_Interval
<1> DEFINE c == Cardinality(1..N)
<1> HIDE DEF c
<1>2. c = N
  BY <1>1 DEF c
<1>3. QED
  BY <1>1, <1>2 DEF c

(* The ordinals do not decrease, and each of the descriptors has its place. *)
LEMMA SortedKeeps ==
  ASSUME NEW q \in Seq(NvKparams)
  PROVE  /\ SortedByOrdinal(q) \in Seq(NvKparams) /\ Len(SortedByOrdinal(q)) = Len(q)
         /\ \A a, b \in DOMAIN q :
              a < b => SortedByOrdinal(q)[a].ordinal <= SortedByOrdinal(q)[b].ordinal
         /\ \A n \in DOMAIN q : \E r \in DOMAIN SortedByOrdinal(q) : SortedByOrdinal(q)[r] = q[n]
<1> DEFINE N == Len(q)
           before(m, n) == q[m].ordinal < q[n].ordinal \/ (q[m].ordinal = q[n].ordinal /\ m < n)
           Below(n) == {m \in DOMAIN q : before(m, n)}
           rank(n) == Cardinality(Below(n)) + 1
           f == [n \in 1..N |-> rank(n)]
<1>1. N \in Nat /\ DOMAIN q = 1..N /\ \A n \in 1..N : q[n] \in NvKparams
  OBVIOUS
<1>2. \A n \in 1..N : q[n].ordinal \in Nat
  BY <1>1, OrdinalTyped
<1>3. IsFiniteSet(1..N) /\ Cardinality(1..N) = N
  BY <1>1, IntervalSize
<1>4. \A m, n \in 1..N : m # n => before(m, n) \/ before(n, m)
  BY <1>1, <1>2
<1>5. \A m, n, p \in 1..N : before(m, n) /\ before(n, p) => before(m, p)
  BY <1>1, <1>2
<1>6. \A n \in 1..N : ~before(n, n)
  BY <1>1, <1>2
<1> HIDE DEF before, N
<1>7. \A n \in 1..N : /\ Below(n) \subseteq 1..N /\ n \notin Below(n)
                      /\ IsFiniteSet(Below(n)) /\ Cardinality(Below(n)) \in Nat
  <2>1. TAKE n \in 1..N
  <2>2. Below(n) \in SUBSET (1..N) /\ n \notin Below(n)
    BY <1>1, <1>6
  <2> HIDE DEF Below
  <2>3. IsFiniteSet(Below(n))
    BY <1>3, <2>2, FS_Subset
  <2>4. QED
    BY <2>2, <2>3, FS_CardinalityType
<1>8. ASSUME NEW m \in 1..N, NEW n \in 1..N, before(m, n) PROVE rank(m) < rank(n)
  <2>1. Below(m) \subseteq Below(n) /\ m \in Below(n) /\ m \notin Below(m)
    BY <1>1, <1>5, <1>7, <1>8
  <2>2. IsFiniteSet(Below(n)) /\ Cardinality(Below(n)) \in Nat /\ Cardinality(Below(m)) \in Nat
    BY <1>7
  <2> HIDE DEF Below
  <2>3. Below(m) \in SUBSET Below(n) /\ Below(m) # Below(n)
    BY <2>1
  <2>4. Cardinality(Below(m)) <= Cardinality(Below(n)) /\ Cardinality(Below(m)) # Cardinality(Below(n))
    BY <2>2, <2>3, FS_Subset
  <2>5. QED
    BY <2>2, <2>4
<1>9. \A n \in 1..N : rank(n) \in 1..N
  <2>1. TAKE n \in 1..N
  <2>2. Below(n) \in SUBSET ((1..N) \ {n})
    BY <1>7
  <2>3. IsFiniteSet((1..N) \ {n}) /\ Cardinality((1..N) \ {n}) = N - 1
    BY <1>3, FS_RemoveElement
  <2>4. Cardinality(Below(n)) \in Nat
    BY <1>7
  <2> HIDE DEF Below
  <2>5. Cardinality(Below(n)) <= N - 1
    BY <2>2, <2>3, FS_Subset
  <2>6. QED
    BY <1>1, <2>4, <2>5
<1>10. \A m, n \in 1..N : rank(m) = rank(n) => m = n
  <2>1. \A n \in 1..N : rank(n) \in Int
    BY <1>1, <1>9
  <2> HIDE DEF rank
  <2>2. QED
    BY <1>4, <1>8, <2>1
<1> HIDE DEF rank
<1>11. f \in Injection(1..N, 1..N)
  BY <1>9, <1>10 DEF Injection, IsInjective
<1>12. f \in Surjection(1..N, 1..N)
  BY <1>3, <1>11, FS_Injection
<1>13. \A r \in 1..N : \E n \in 1..N : rank(n) = r
  BY <1>12 DEF Surjection
<1> DEFINE place(r) == CHOOSE n \in 1..N : rank(n) = r
<1>14. \A r \in 1..N : place(r) \in 1..N /\ rank(place(r)) = r
  BY <1>13
<1>15. SortedByOrdinal(q) = [r \in 1..N |-> q[place(r)]]
  <2>1. SortedByOrdinal(q) = [r \in DOMAIN q |-> q[CHOOSE n \in DOMAIN q : rank(n) = r]]
    BY Zenon DEF SortedByOrdinal, rank, before
  <2>2. QED
    BY <1>1, <2>1
<1>16. \A n \in 1..N : place(rank(n)) = n
  BY <1>9, <1>10, <1>14
<1> HIDE DEF place
<1> DEFINE v == SortedByOrdinal(q)
<1> HIDE DEF v
<1>17. v = [r \in 1..N |-> q[place(r)]]
  BY <1>15 DEF v
<1>18. v \in Seq(NvKparams) /\ Len(v) = N
  BY <1>1, <1>14, <1>17
<1>19. \A n \in 1..N : rank(n) \in DOMAIN v /\ v[rank(n)] = q[n]
  BY <1>9, <1>16, <1>17
<1>20. ASSUME NEW a \in 1..N, NEW b \in 1..N, a < b PROVE v[a].ordinal <= v[b].ordinal
  <2>1. /\ place(a) \in 1..N /\ place(b) \in 1..N /\ rank(place(a)) = a /\ rank(place(b)) = b
    BY <1>14
  <2>2. ~before(place(b), place(a)) /\ place(a) # place(b)
    BY <1>1, <1>8, <1>20, <2>1
  <2>3. before(place(a), place(b))
    BY <1>4, <2>1, <2>2
  <2>4. q[place(a)].ordinal <= q[place(b)].ordinal
    BY <1>2, <2>1, <2>3 DEF before
  <2>5. QED
    BY <1>17, <2>4
<1>21. QED
  BY <1>1, <1>18, <1>19, <1>20 DEF v, N

-----------------------------------------------------------------------------
(* Types. *)

NvKernelInfo == [param_cbank_offset: Nat, param_cbank_size: Nat, kparams: Seq(NvKparams)]

GlobalNvInfo ==
  [param_cbank_offset: Nat \cup {NoValue}, cbank_param_size: Nat \cup {NoValue}]

Phases == {"header", "sections", "payload", "done", "failed"}

KernelsTyped == DOMAIN nv_kernels \subseteq Kernel /\ \A k \in DOMAIN nv_kernels : nv_kernels[k] \in NvKernelInfo

NvTypeOK ==
  /\ cubin \in Cubin
  /\ phase \in Phases
  /\ section \in 0..Len(cubin.sections)
  /\ pos \in Nat
  /\ global \in GlobalNvInfo
  /\ phase = "payload" => section # 0 /\ IsInfo(cubin.sections[section])
  /\ phase = "done" => section = Len(cubin.sections)
  /\ phase = "header" => section = 0
  /\ KernelsTyped

LEMMA InfoTyped ==
  ASSUME NEW offset \in Nat, NEW size \in Nat, NEW kparams \in Seq(NvKparams)
  PROVE  /\ Info(offset, size, kparams) \in NvKernelInfo
         /\ Info(offset, size, kparams).param_cbank_offset = offset
         /\ Info(offset, size, kparams).param_cbank_size = size
         /\ Info(offset, size, kparams).kparams = kparams
BY DEF Info, NvKernelInfo

LEMMA InfoExtended ==
  ASSUME NEW r \in NvKernelInfo, NEW q
  PROVE  [r EXCEPT !.kparams = q] = Info(r.param_cbank_offset, r.param_cbank_size, q)
BY DEF Info, NvKernelInfo

LEMMA NoKernels == DOMAIN <<>> = {}
OBVIOUS

LEMMA InitTyped == NvInit => NvTypeOK
<1> SUFFICES ASSUME NvInit PROVE NvTypeOK
  OBVIOUS
<1>1. cubin \in Cubin /\ phase = "header" /\ section = 0 /\ pos = 0 /\ nv_kernels = <<>>
  BY CubinsAssumption DEF NvInit
<1>2. Len(cubin.sections) \in Nat
  BY <1>1 DEF Cubin
<1>3. global \in GlobalNvInfo
  BY DEF NvInit, NoGlobal, GlobalNvInfo
<1>4. KernelsTyped
  BY <1>1, NoKernels DEF KernelsTyped
<1>5. QED
  BY <1>1, <1>2, <1>3, <1>4 DEF NvTypeOK, Phases

(* A turn of the walk. *)
Turn == ParamCbank \/ KparamInfo \/ OtherPerFunction \/ GlobalAttribute \/ UnknownFormat

TookParam(k, p) ==
  /\ DOMAIN nv_kernels' = DOMAIN nv_kernels \cup {k}
  /\ \A m \in DOMAIN nv_kernels \ {k} : nv_kernels'[m] = nv_kernels[m]
  /\ nv_kernels'[k] = IF k \in DOMAIN nv_kernels
                   THEN Info(nv_kernels[k].param_cbank_offset, nv_kernels[k].param_cbank_size,
                             Append(nv_kernels[k].kparams, p))
                   ELSE Info(DefaultOffset, 0, <<p>>)

TookRegion(k, offset, size) ==
  /\ DOMAIN nv_kernels' = DOMAIN nv_kernels \cup {k}
  /\ \A m \in DOMAIN nv_kernels \ {k} : nv_kernels'[m] = nv_kernels[m]
  /\ nv_kernels'[k] = Info(offset, size, KParamsOf(k))

TakesParam == fmt_byte = PER_FUNC /\ attr_id = KPARAM_INFO /\ attr_size >= 12
TakesRegion == fmt_byte = PER_FUNC /\ attr_id = PARAM_CBANK /\ attr_size >= 8

LEMMA PayloadTyped ==
  ASSUME NvTypeOK, phase = "payload"
  PROVE  /\ section \in 1..Len(cubin.sections) /\ section \in DOMAIN cubin.sections
         /\ payload \in Seq(Nat) /\ payload \in Seq(Byte) /\ Len(payload) \in Nat
         /\ kernel_name # NoKernel => kernel_name \in Kernel
<1>1. cubin.sections \in Seq(Section) /\ section \in 0..Len(cubin.sections) /\ section # 0
  BY DEF NvTypeOK, Cubin
<1>2. section \in 1..Len(cubin.sections) /\ section \in DOMAIN cubin.sections
  BY <1>1
<1>3. /\ payload \in Seq(Byte) /\ payload \in Seq(Nat)
      /\ cubin.sections[section].name \in SectionName
  BY <1>2, SectionTyped DEF NvTypeOK, payload
<1>4. cubin.sections[section].name.kernel \in Kernel \cup {NoKernel}
  BY <1>3 DEF SectionName
<1>5. kernel_name # NoKernel => kernel_name \in Kernel
  BY <1>4 DEF kernel_name
<1>6. QED
  BY <1>2, <1>3, <1>5

LEMMA AttrTyped ==
  ASSUME NvTypeOK, phase = "payload", More
  PROVE  /\ fmt_byte \in Byte /\ attr_id \in Byte /\ attr_size \in Nat
         /\ Fits => attr_data \in Seq(Nat) /\ Len(attr_data) = attr_size
<1>1. pos \in Nat /\ pos + 4 <= Len(payload) /\ payload \in Seq(Byte) /\ payload \in Seq(Nat)
  BY PayloadTyped DEF NvTypeOK, More
<1>2. fmt_byte \in Byte /\ attr_id \in Byte
  BY <1>1 DEF fmt_byte, attr_id
<1>3. attr_size \in Nat
  BY <1>1 DEF attr_size, U16
<1>4. Fits => attr_data \in Seq(Nat) /\ Len(attr_data) = attr_size
  <2> HIDE DEF attr_size
  <2>1. QED
    BY <1>1, <1>3 DEF Fits, attr_data
<1>5. QED
  BY <1>2, <1>3, <1>4

LEMMA TookParamStep ==
  ASSUME NvTypeOK, phase = "payload", NEW k \in Kernel, NEW p,
         nv_kernels' = IF k \in DOMAIN nv_kernels
                    THEN [nv_kernels EXCEPT ![k].kparams = Append(@, p)]
                    ELSE Entered(k, Info(DefaultOffset, 0, <<p>>))
  PROVE  TookParam(k, p)
<1>1. CASE k \in DOMAIN nv_kernels
  <2>1. nv_kernels[k] \in NvKernelInfo
    BY <1>1 DEF NvTypeOK, KernelsTyped
  <2>2. nv_kernels' = [nv_kernels EXCEPT ![k].kparams = Append(@, p)]
    BY <1>1
  <2>3. DOMAIN nv_kernels' = DOMAIN nv_kernels /\ \A m \in DOMAIN nv_kernels \ {k} : nv_kernels'[m] = nv_kernels[m]
    BY <2>2
  <2>4. nv_kernels'[k] = [nv_kernels[k] EXCEPT !.kparams = Append(@, p)]
    BY <1>1, <2>2
  <2> DEFINE r == nv_kernels[k]
  <2> HIDE DEF r
  <2>5. [r EXCEPT !.kparams = Append(@, p)]
          = Info(r.param_cbank_offset, r.param_cbank_size, Append(r.kparams, p))
    BY <2>1, InfoExtended DEF r
  <2>6. QED
    BY <1>1, <2>3, <2>4, <2>5 DEF r, TookParam
<1>2. CASE k \notin DOMAIN nv_kernels
  BY <1>2 DEF TookParam, Entered
<1>3. QED
  BY <1>1, <1>2

(* What a turn does to the nv_kernels. *)
LEMMA TurnEffect ==
  ASSUME NvTypeOK, Turn
  PROVE  /\ phase = "payload" /\ More
         /\ cubin' = cubin /\ phase' = phase /\ section' = section
         /\ TakesParam \/ TakesRegion => Fits
         /\ IF TakesParam /\ kernel_name # NoKernel THEN TookParam(kernel_name, NvKparam(attr_data))
            ELSE IF TakesRegion /\ kernel_name # NoKernel
            THEN TookRegion(kernel_name, U16(attr_data, 4), U16(attr_data, 6))
            ELSE nv_kernels' = nv_kernels
<1>1. /\ phase = "payload" /\ More
      /\ cubin' = cubin /\ phase' = phase /\ section' = section
  BY DEF Turn, ParamCbank, KparamInfo, OtherPerFunction, GlobalAttribute, UnknownFormat,
         PerFunction, More
<1>2. /\ fmt_byte \in Byte /\ attr_id \in Byte /\ attr_size \in Nat
      /\ kernel_name # NoKernel => kernel_name \in Kernel
  BY <1>1, AttrTyped, PayloadTyped
<1>3. PER_FUNC # GLOBAL /\ PARAM_CBANK # KPARAM_INFO
  BY DEF PER_FUNC, GLOBAL, PARAM_CBANK, KPARAM_INFO
<1>4. CASE ParamCbank
  <2>1. /\ fmt_byte = PER_FUNC /\ attr_id = PARAM_CBANK /\ Fits
        /\ nv_kernels' = IF kernel_name # NoKernel /\ attr_size >= 8
                      THEN Entered(kernel_name, Info(U16(attr_data, 4), U16(attr_data, 6),
                                                     KParamsOf(kernel_name)))
                      ELSE nv_kernels
    BY <1>4, Zenon DEF ParamCbank, PerFunction
  <2>2. ~TakesParam /\ (TakesRegion <=> attr_size >= 8)
    BY <1>3, <2>1 DEF TakesParam, TakesRegion
  <2>3. \A k, info : nv_kernels' = Entered(k, info) =>
           /\ DOMAIN nv_kernels' = DOMAIN nv_kernels \cup {k}
           /\ \A m \in DOMAIN nv_kernels \ {k} : nv_kernels'[m] = nv_kernels[m]
           /\ nv_kernels'[k] = info
    BY DEF Entered
  <2>4. QED
    BY <1>1, <2>1, <2>2, <2>3, Zenon DEF TookRegion
<1>5. CASE KparamInfo
  <2>1. /\ fmt_byte = PER_FUNC /\ attr_id = KPARAM_INFO /\ Fits
        /\ nv_kernels' =
             IF kernel_name = NoKernel \/ attr_size < 12 THEN nv_kernels
             ELSE IF kernel_name \in DOMAIN nv_kernels
             THEN [nv_kernels EXCEPT ![kernel_name].kparams = Append(@, NvKparam(attr_data))]
             ELSE Entered(kernel_name, Info(DefaultOffset, 0, <<NvKparam(attr_data)>>))
    BY <1>5, Zenon DEF KparamInfo, PerFunction
  <2>2. ~TakesRegion /\ (TakesParam <=> attr_size >= 12)
    BY <1>3, <2>1 DEF TakesParam, TakesRegion
  <2>3. CASE kernel_name # NoKernel /\ attr_size >= 12
    <3>1. ~(attr_size < 12) /\ kernel_name \in Kernel
      BY <1>2, <2>3
    <3>2. TookParam(kernel_name, NvKparam(attr_data))
      BY <1>1, <2>1, <2>3, <3>1, TookParamStep, Zenon
    <3>3. QED
      BY <1>1, <2>1, <2>2, <2>3, <3>2, Zenon
  <2>4. CASE ~(kernel_name # NoKernel /\ attr_size >= 12)
    <3>1. kernel_name = NoKernel \/ attr_size < 12
      BY <1>2, <2>4
    <3>2. QED
      BY <1>1, <2>1, <2>2, <2>4, <3>1, Zenon
  <2>5. QED
    BY <2>3, <2>4
<1>6. CASE OtherPerFunction \/ GlobalAttribute \/ UnknownFormat
  <2>1. nv_kernels' = nv_kernels /\ ~TakesParam /\ ~TakesRegion
    BY <1>3, <1>6 DEF OtherPerFunction, GlobalAttribute, UnknownFormat, PerFunction, TakesParam,
                      TakesRegion
  <2>2. QED
    BY <1>1, <2>1, Zenon
<1>7. QED
  BY <1>4, <1>5, <1>6 DEF Turn

LEMMA ParamTyped ==
  ASSUME NvTypeOK, phase = "payload", More, Fits
  PROVE  /\ TakesParam => NvKparam(attr_data) \in NvKparams
         /\ TakesRegion => U16(attr_data, 4) \in Nat /\ U16(attr_data, 6) \in Nat
<1>1. attr_data \in Seq(Nat) /\ Len(attr_data) = attr_size /\ attr_size \in Nat
  BY AttrTyped
<1> DEFINE d == attr_data
<1> HIDE DEF d
<1>2. TakesParam => d \in {b \in Seq(Nat) : Len(b) >= 12}
  BY <1>1 DEF d, TakesParam
<1>3. TakesParam => NvKparam(d) \in NvKparams
  BY <1>2 DEF NvKparams
<1>4. ASSUME TakesRegion PROVE U16(d, 4) \in Nat /\ U16(d, 6) \in Nat
  <2>1. d \in Seq(Nat) /\ Len(d) >= 8 /\ Len(d) \in Nat
    BY <1>1, <1>4 DEF d, TakesRegion
  <2>2. d[5] \in Nat /\ d[6] \in Nat /\ d[7] \in Nat /\ d[8] \in Nat
    BY <2>1
  <2>3. QED
    BY <2>2 DEF U16
<1>5. QED
  BY <1>3, <1>4 DEF d

LEMMA KernelsKept ==
  ASSUME NvTypeOK, phase = "payload", NEW k \in Kernel,
         (\E p \in NvKparams : TookParam(k, p)) \/ (\E o, z \in Nat : TookRegion(k, o, z))
  PROVE  KernelsTyped'
<1>1. DOMAIN nv_kernels' = DOMAIN nv_kernels \cup {k} /\ \A m \in DOMAIN nv_kernels \ {k} : nv_kernels'[m] = nv_kernels[m]
  BY DEF TookParam, TookRegion
<1>2. DOMAIN nv_kernels \subseteq Kernel /\ \A m \in DOMAIN nv_kernels : nv_kernels[m] \in NvKernelInfo
  BY DEF NvTypeOK, KernelsTyped
<1>3. \A r \in NvKernelInfo : /\ r.param_cbank_offset \in Nat /\ r.param_cbank_size \in Nat
                              /\ r.kparams \in Seq(NvKparams)
  BY DEF NvKernelInfo
<1>4. <<>> \in Seq(NvKparams) /\ DefaultOffset \in Nat
  BY DEF DefaultOffset
<1>5. nv_kernels'[k] \in NvKernelInfo
  <2>1. ASSUME NEW p \in NvKparams, TookParam(k, p) PROVE nv_kernels'[k] \in NvKernelInfo
    <3>1. CASE k \in DOMAIN nv_kernels
      <4>1. nv_kernels'[k] = Info(nv_kernels[k].param_cbank_offset, nv_kernels[k].param_cbank_size,
                               Append(nv_kernels[k].kparams, p))
        BY <2>1, <3>1 DEF TookParam
      <4>2. /\ nv_kernels[k].param_cbank_offset \in Nat /\ nv_kernels[k].param_cbank_size \in Nat
            /\ nv_kernels[k].kparams \in Seq(NvKparams)
        BY <1>2, <1>3, <3>1
      <4>3. Append(nv_kernels[k].kparams, p) \in Seq(NvKparams)
        BY <4>2
      <4> DEFINE q == Append(nv_kernels[k].kparams, p)
                 o == nv_kernels[k].param_cbank_offset
                 z == nv_kernels[k].param_cbank_size
      <4>4. o \in Nat /\ z \in Nat /\ q \in Seq(NvKparams) /\ nv_kernels'[k] = Info(o, z, q)
        BY <4>1, <4>2, <4>3
      <4> HIDE DEF q, o, z
      <4>5. QED
        BY <4>4, InfoTyped
    <3>2. CASE k \notin DOMAIN nv_kernels
      <4>1. nv_kernels'[k] = Info(DefaultOffset, 0, <<p>>)
        BY <2>1, <3>2 DEF TookParam
      <4> DEFINE q == <<p>>
                 z == 0
      <4>2. q \in Seq(NvKparams) /\ z \in Nat /\ nv_kernels'[k] = Info(DefaultOffset, z, q)
        BY <4>1
      <4> HIDE DEF q, z
      <4>3. QED
        BY <1>4, <4>2, InfoTyped
    <3>3. QED
      BY <3>1, <3>2
  <2>2. ASSUME NEW o \in Nat, NEW z \in Nat, TookRegion(k, o, z) PROVE nv_kernels'[k] \in NvKernelInfo
    <3>1. KParamsOf(k) \in Seq(NvKparams)
      BY <1>2, <1>3, <1>4 DEF KParamsOf
    <3>2. nv_kernels'[k] = Info(o, z, KParamsOf(k))
      BY <2>2 DEF TookRegion
    <3>3. QED
      BY <3>1, <3>2, InfoTyped
  <2>3. QED
    BY <2>1, <2>2
<1>6. QED
  BY <1>1, <1>2, <1>5 DEF KernelsTyped

LEMMA TurnTyped == ASSUME NvTypeOK, Turn PROVE KernelsTyped'
<1>1. /\ phase = "payload" /\ More
      /\ kernel_name # NoKernel => kernel_name \in Kernel
  BY TurnEffect, PayloadTyped
<1>2. CASE TakesParam /\ kernel_name # NoKernel
  <2>1. TookParam(kernel_name, NvKparam(attr_data)) /\ NvKparam(attr_data) \in NvKparams
    BY <1>1, <1>2, TurnEffect, ParamTyped
  <2>2. QED
    BY <1>1, <1>2, <2>1, KernelsKept
<1>3. CASE ~(TakesParam /\ kernel_name # NoKernel) /\ TakesRegion /\ kernel_name # NoKernel
  <2>1. TookRegion(kernel_name, U16(attr_data, 4), U16(attr_data, 6))
    BY <1>3, TurnEffect
  <2>2. U16(attr_data, 4) \in Nat /\ U16(attr_data, 6) \in Nat
    BY <1>1, <1>3, TurnEffect, ParamTyped
  <2>3. QED
    BY <1>1, <1>3, <2>1, <2>2, KernelsKept
<1>4. CASE nv_kernels' = nv_kernels
  BY <1>4 DEF NvTypeOK, KernelsTyped
<1>5. QED
  BY <1>2, <1>3, <1>4, TurnEffect

LEMMA DefaultsTyped ==
  ASSUME NvTypeOK, NEW r \in NvKernelInfo
  PROVE  /\ WithDefaults(r) \in NvKernelInfo
         /\ WithDefaults(r).kparams = SortedByOrdinal(r.kparams)
         /\ r.param_cbank_offset # 0 => WithDefaults(r).param_cbank_offset = r.param_cbank_offset
         /\ WithDefaults(r).param_cbank_size = IF r.param_cbank_size = 0 THEN Or(global.cbank_param_size, 0)
                                               ELSE r.param_cbank_size
<1> DEFINE o == IF r.param_cbank_offset = 0 THEN Or(global.param_cbank_offset, DefaultOffset)
                ELSE r.param_cbank_offset
           z == IF r.param_cbank_size = 0 THEN Or(global.cbank_param_size, 0)
                ELSE r.param_cbank_size
           q == SortedByOrdinal(r.kparams)
<1>1. r.param_cbank_offset \in Nat /\ r.param_cbank_size \in Nat /\ r.kparams \in Seq(NvKparams)
  BY DEF NvKernelInfo
<1>2. o \in Nat /\ z \in Nat
  BY <1>1 DEF NvTypeOK, GlobalNvInfo, Or, DefaultOffset
<1>3. q \in Seq(NvKparams)
  BY <1>1, SortedKeeps
<1>4. WithDefaults(r) = Info(o, z, q)
  BY Zenon DEF WithDefaults
<1>5. r.param_cbank_offset # 0 => o = r.param_cbank_offset
  OBVIOUS
<1> HIDE DEF o, z, q
<1>6. /\ WithDefaults(r) \in NvKernelInfo
      /\ WithDefaults(r).kparams = q
      /\ WithDefaults(r).param_cbank_offset = o
      /\ WithDefaults(r).param_cbank_size = z
  BY <1>2, <1>3, <1>4, InfoTyped
<1>7. QED
  BY <1>5, <1>6, Zenon DEF q, z

LEMMA NextTyped == NvTypeOK /\ [NvNext]_nv_vars => NvTypeOK'
<1> SUFFICES ASSUME NvTypeOK, [NvNext]_nv_vars PROVE NvTypeOK'
  OBVIOUS
<1>1. Len(cubin.sections) \in Nat /\ section \in 0..Len(cubin.sections) /\ phase \in Phases
  BY DEF NvTypeOK, Cubin
<1>2. CASE ReadHeader
  BY <1>2 DEF ReadHeader, NvTypeOK, Phases, KernelsTyped
<1>3. CASE NextSection
  <2>1. /\ phase = "sections" /\ section' = section + 1 /\ section < Len(cubin.sections) /\ pos' = 0
        /\ phase' = IF IsInfo(cubin.sections[section']) THEN "payload" ELSE phase
        /\ cubin' = cubin /\ nv_kernels' = nv_kernels /\ global' = global
    BY <1>3 DEF NextSection
  <2>2. section' \in 0..Len(cubin.sections) /\ section' # 0
    BY <1>1, <2>1
  <2>3. phase' = "sections" \/ (phase' = "payload" /\ IsInfo(cubin'.sections[section']))
    BY <2>1
  <2>4. QED
    BY <2>1, <2>2, <2>3 DEF NvTypeOK, Phases, KernelsTyped
<1>4. CASE EndOfPayload \/ Truncated
  BY <1>4 DEF EndOfPayload, Truncated, NvTypeOK, Phases, KernelsTyped
<1>5. CASE Turn
  <2>1. KernelsTyped' /\ cubin' = cubin /\ phase' = phase /\ section' = section /\ phase = "payload" /\ More
    BY <1>5, TurnTyped, TurnEffect
  <2>2. attr_id \in Byte /\ attr_size \in Nat /\ pos \in Nat
    BY <2>1, AttrTyped DEF NvTypeOK
  <2>3. pos' = pos + 4 + attr_size \/ pos' = pos + 4
    BY <1>5 DEF Turn, ParamCbank, KparamInfo, OtherPerFunction, GlobalAttribute, UnknownFormat,
                PerFunction
  <2>4. global' \in GlobalNvInfo
    <3>1. global' = global \/ global' = [global EXCEPT !.param_cbank_offset = attr_size]
            \/ global' = [global EXCEPT !.cbank_param_size = attr_size]
      BY <1>5 DEF Turn, ParamCbank, KparamInfo, OtherPerFunction, GlobalAttribute, UnknownFormat
    <3>2. QED
      BY <2>2, <3>1 DEF NvTypeOK, GlobalNvInfo
  <2>5. pos' \in Nat
    BY <2>2, <2>3
  <2>6. IsInfo(cubin.sections[section])' <=> IsInfo(cubin.sections[section])
    BY <2>1 DEF IsInfo
  <2>7. QED
    BY <2>1, <2>4, <2>5, <2>6 DEF NvTypeOK
<1>6. CASE ApplyDefaults
  <2>1. /\ phase = "sections" /\ section = Len(cubin.sections) /\ phase' = "done"
        /\ nv_kernels' = [k \in DOMAIN nv_kernels |-> WithDefaults(nv_kernels[k])]
        /\ cubin' = cubin /\ section' = section /\ pos' = pos /\ global' = global
    BY <1>6 DEF ApplyDefaults
  <2>2. KernelsTyped'
    <3>1. DOMAIN nv_kernels' = DOMAIN nv_kernels /\ \A k \in DOMAIN nv_kernels : nv_kernels'[k] = WithDefaults(nv_kernels[k])
      BY <2>1
    <3>2. QED
      BY <3>1, DefaultsTyped DEF NvTypeOK, KernelsTyped
  <2>3. QED
    BY <2>1, <2>2 DEF NvTypeOK, Phases
<1>7. CASE UNCHANGED nv_vars
  BY <1>7 DEF nv_vars, NvTypeOK, KernelsTyped, IsInfo
<1>8. CASE NvFinished
  BY <1>7, <1>8 DEF NvFinished
<1>9. QED
  BY <1>2, <1>3, <1>4, <1>5, <1>6, <1>7, <1>8 DEF NvNext, Turn

(* The walk is in a section of the file while it reads a payload, and every kernel *)
(* that has an entry is a name of a section, with parameters that were descriptors. *)
THEOREM NvTypeCorrectness == NvSpec => []NvTypeOK
<1>1. NvInit => NvTypeOK
  BY InitTyped
<1>2. NvTypeOK /\ [NvNext]_nv_vars => NvTypeOK'
  BY NextTyped
<1>3. QED
  BY <1>1, <1>2, PTL DEF NvSpec

-----------------------------------------------------------------------------
(* The walk, entry by entry. *)

LEMMA BeginsElements ==
  ASSUME NEW data \in Seq(Nat), NEW bytes \in Seq(Nat)
  PROVE  BeginsWith(data, bytes) <=> /\ Len(bytes) <= Len(data)
                                     /\ \A i \in 1..Len(bytes) : data[i] = bytes[i]
<1> DEFINE q == SubSeq(data, 1, Len(bytes))
<1>1. Len(bytes) <= Len(data) =>
        q \in Seq(Nat) /\ Len(q) = Len(bytes) /\ \A i \in 1..Len(bytes) : q[i] = data[i]
  OBVIOUS
<1> HIDE DEF q
<1>2. Len(bytes) <= Len(data) /\ (\A i \in 1..Len(bytes) : data[i] = bytes[i]) => q = bytes
  BY <1>1, SameSequence
<1>3. BeginsWith(data, bytes) <=> Len(bytes) <= Len(data) /\ q = bytes
  BY DEF BeginsWith, q
<1>4. QED
  BY <1>1, <1>2, <1>3

LEMMA EarlierBegins ==
  ASSUME NEW data \in Seq(Nat), NEW entries \in Seq(Entry),
         NEW m \in 0..Len(entries), NEW j \in 0..m,
         BeginsWith(data, Upto(Pieces(entries))[m])
  PROVE  BeginsWith(data, Upto(Pieces(entries))[j])
<1> DEFINE a == Upto(Pieces(entries))[j]
           b == Upto(Pieces(entries))[m]
<1>1. a \in Seq(Nat) /\ b \in Seq(Nat)
  BY Offsets
<1>2. Len(a) <= Len(b) /\ \A i \in 1..Len(a) : b[i] = a[i]
  <2>1. Pieces(entries) \in Seq(Seq(Nat)) /\ m \in 0..Len(Pieces(entries))
    BY PiecesTyped
  <2>2. QED
    BY <2>1, UptoBegins
<1> HIDE DEF a, b
<1>3. Len(b) <= Len(data) /\ \A i \in 1..Len(b) : data[i] = b[i]
  BY <1>1, BeginsElements DEF b
<1>4. Len(a) <= Len(data) /\ \A i \in 1..Len(a) : data[i] = a[i]
  BY <1>1, <1>2, <1>3
<1>5. BeginsWith(data, a)
  BY <1>1, <1>4, BeginsElements
<1>6. QED
  BY <1>5 DEF a

LEMMA EncodedBegins ==
  ASSUME NEW entries \in Seq(Entry), NEW data \in Seq(Nat), data = Encode(entries)
  PROVE  /\ Len(data) = Off(entries, Len(entries))
         /\ \A j \in 0..Len(entries) : BeginsWith(data, Upto(Pieces(entries))[j])
<1>1. Len(entries) \in 0..Len(entries)
  OBVIOUS
<1>2. data = Upto(Pieces(entries))[Len(entries)]
  BY PiecesTyped DEF Encode, Joined
<1>3. BeginsWith(data, data)
  BY BeginsElements
<1>4. \A j \in 0..Len(entries) : BeginsWith(data, Upto(Pieces(entries))[j])
  BY <1>1, <1>2, <1>3, EarlierBegins
<1>5. QED
  BY <1>2, <1>4 DEF Off

written == cubin.sections[section].written

(* Where the walk is when it has consumed j entries that kept it in step. *)
AtEntry(j) ==
  /\ j \in 0..(Len(written) - 1)
  /\ pos = Off(written, j)
  /\ BeginsWith(payload, Upto(Pieces(written))[j + 1])

LEMMA EntryRead ==
  ASSUME NvTypeOK, phase = "payload", NEW j, AtEntry(j)
  PROVE  LET e == written[j + 1]
         IN /\ More /\ e \in Entry /\ j + 1 \in 1..Len(written)
            /\ fmt_byte = e.fmt /\ attr_id = e.attr
            /\ attr_size = IF e.sized THEN Len(e.data) ELSE e.value
            /\ Off(written, j + 1) = pos + 4 + Len(e.data)
            /\ Off(written, j + 1) <= Len(payload)
            /\ e.sized => Fits /\ attr_data = e.data
<1>1. payload \in Seq(Nat) /\ written \in Seq(Entry) /\ Len(payload) \in Nat
  BY PayloadTyped, SectionTyped DEF NvTypeOK, written
<1>2. j \in 0..(Len(written) - 1) /\ pos = Off(written, j) /\ BeginsWith(payload, Upto(Pieces(written))[j + 1])
  BY DEF AtEntry
<1> DEFINE e == written[j + 1]
<1>3. /\ e \in Entry /\ pos \in Nat /\ Off(written, j + 1) = pos + 4 + Len(e.data)
      /\ Off(written, j + 1) <= Len(payload)
      /\ payload[pos + 1] = e.fmt /\ payload[pos + 2] = e.attr
      /\ U16(payload, pos + 2) = IF e.sized THEN Len(e.data) ELSE e.value
      /\ SubSeq(payload, pos + 5, pos + 4 + Len(e.data)) = e.data
  BY <1>1, <1>2, EntryAt
<1>4. j + 1 \in 1..Len(written) /\ e \in Entry
  <2>1. j + 1 \in 1..Len(written)
    BY <1>1, <1>2
  <2>2. QED
    BY <1>3, <2>1
<1> HIDE DEF e
<1>5. Len(e.data) \in Nat
  <2>1. e.data \in Seq(Nat)
    BY <1>4, EntryTyped
  <2>2. QED
    BY <2>1
<1>6. More
  <2> DEFINE n == Len(e.data)
             o == Off(written, j + 1)
             w == Len(payload)
  <2>1. n \in Nat /\ pos \in Nat /\ w \in Nat /\ o = pos + 4 + n /\ o <= w
    BY <1>1, <1>3, <1>5
  <2> HIDE DEF n, o, w
  <2>2. pos + 4 <= w
    BY <2>1
  <2>3. QED
    BY <2>2 DEF More, w
<1>7. /\ fmt_byte = e.fmt /\ attr_id = e.attr
      /\ attr_size = IF e.sized THEN Len(e.data) ELSE e.value
  BY <1>3, Zenon DEF fmt_byte, attr_id, attr_size
<1>8. e.sized => Fits /\ attr_data = e.data
  <2> HAVE e.sized
  <2>1. attr_size = Len(e.data)
    BY <1>7
  <2>2. Fits
    BY <1>3, <2>1 DEF Fits
  <2>3. attr_data = e.data
    BY <1>3, <2>1 DEF attr_data
  <2>4. QED
    BY <2>2, <2>3
<1>9. QED
  BY <1>3, <1>4, <1>6, <1>7, <1>8 DEF e

(* An entry that keeps the walk in step is taken whole. *)
LEMMA EntryTaken ==
  ASSUME NvTypeOK, phase = "payload", NEW j, AtEntry(j), InStepAfter(written[j + 1])
  PROVE  /\ ~EndOfPayload /\ ~Truncated
         /\ Turn => pos' = Off(written, j + 1)
         /\ TakesParam <=> Describes(written[j + 1], KPARAM_INFO, 12)
         /\ TakesRegion <=> Describes(written[j + 1], PARAM_CBANK, 8)
         /\ TakesParam \/ TakesRegion => attr_data = written[j + 1].data
<1> DEFINE e == written[j + 1]
<1>1. /\ More /\ e \in Entry
      /\ fmt_byte = e.fmt /\ attr_id = e.attr
      /\ attr_size = IF e.sized THEN Len(e.data) ELSE e.value
      /\ Off(written, j + 1) = pos + 4 + Len(e.data)
      /\ Off(written, j + 1) <= Len(payload)
      /\ e.sized => Fits /\ attr_data = e.data
  BY EntryRead
<1> HIDE DEF e
<1>2. /\ e.data \in Seq(Nat) /\ (e.sized \/ e.data = <<>>) /\ e.sized \in BOOLEAN
  BY <1>1, EntryTyped
<1>3. Len(e.data) \in Nat /\ (e.data = <<>> <=> Len(e.data) = 0) /\ pos \in Nat
  BY <1>2 DEF NvTypeOK
<1>4. \/ e.fmt = GLOBAL /\ ~e.sized
      \/ e.fmt = PER_FUNC /\ e.sized /\ e.data # <<>>
      \/ e.fmt \notin {PER_FUNC, GLOBAL} /\ (e.sized \/ e.value = 0)
  BY DEF InStepAfter, e
<1>5. PER_FUNC # GLOBAL
  BY DEF PER_FUNC, GLOBAL
<1> DEFINE Fine == /\ ~EndOfPayload /\ ~Truncated
                   /\ Turn => pos' = pos + 4 + Len(e.data)
                   /\ fmt_byte = PER_FUNC => attr_size = Len(e.data) /\ attr_data = e.data
<1>6. ASSUME e.fmt = GLOBAL /\ ~e.sized PROVE Fine
  <2>1. Len(e.data) = 0 /\ fmt_byte = GLOBAL
    BY <1>1, <1>2, <1>3, <1>6
  <2>2. Turn => pos' = pos + 4
    BY <1>5, <2>1 DEF Turn, ParamCbank, KparamInfo, OtherPerFunction, GlobalAttribute, UnknownFormat,
                      PerFunction
  <2>3. ~EndOfPayload /\ ~Truncated
    BY <1>1, <1>5, <2>1 DEF EndOfPayload, Truncated
  <2>4. QED
    BY <1>3, <1>5, <2>1, <2>2, <2>3
<1>7. ASSUME e.fmt = PER_FUNC /\ e.sized /\ e.data # <<>> PROVE Fine
  <2>1. attr_size = Len(e.data) /\ attr_size # 0 /\ fmt_byte = PER_FUNC /\ Fits /\ attr_data = e.data
    BY <1>1, <1>3, <1>7
  <2>2. Turn => pos' = pos + 4 + Len(e.data)
    BY <1>5, <2>1 DEF Turn, ParamCbank, KparamInfo, OtherPerFunction, GlobalAttribute, UnknownFormat,
                      PerFunction
  <2>3. ~EndOfPayload /\ ~Truncated
    BY <1>1, <2>1 DEF EndOfPayload, Truncated
  <2>4. QED
    BY <2>1, <2>2, <2>3
<1>8. ASSUME e.fmt \notin {PER_FUNC, GLOBAL} /\ (e.sized \/ e.value = 0) PROVE Fine
  <2>1. fmt_byte \notin {PER_FUNC, GLOBAL} /\ attr_size = Len(e.data)
    BY <1>1, <1>2, <1>3, <1>8
  <2>2. Turn => pos' = pos + 4 + attr_size
    BY <2>1 DEF Turn, ParamCbank, KparamInfo, OtherPerFunction, GlobalAttribute, UnknownFormat,
                PerFunction
  <2>3. Fits
    BY <1>1, <2>1 DEF Fits
  <2>4. ~EndOfPayload /\ ~Truncated
    BY <1>1, <2>1, <2>3 DEF EndOfPayload, Truncated
  <2>5. QED
    BY <2>1, <2>2, <2>4
<1>9. Fine
  BY <1>4, <1>6, <1>7, <1>8
<1>10. QED
  BY <1>1, <1>9 DEF e, TakesParam, TakesRegion, Describes

-----------------------------------------------------------------------------
(* What was described stays listed. *)

(* What section n owes to the table, and what the table still may miss of it: the *)
(* descriptors of m, when the walk has yet to reach entry m in step. *)
Owed(n, m) ==
  LET s == cubin.sections[n]
  IN /\ IsOf(s.name.kernel, s) /\ s.name.kernel # NoKernel
     /\ m \in InStepPrefix(s) /\ Describes(s.written[m], KPARAM_INFO, 12)
Paid(n, m) ==
  Listed(cubin.sections[n].name.kernel, NvKparam(cubin.sections[n].written[m].data))
Ahead(m) == \E j \in 0..(m - 1) : pos = Off(written, j)

Survived(n) == \A m : Owed(n, m) => Paid(n, m)

SurviveInv ==
  /\ phase \in {"sections", "done"} => \A n \in 1..section : Survived(n)
  /\ phase = "payload" => /\ \A n \in 1..(section - 1) : Survived(n)
                          /\ \A m : Owed(section, m) => Paid(section, m) \/ Ahead(m)

LEMMA ListedKept ==
  ASSUME NvTypeOK, Turn, NEW k, NEW p, Listed(k, p)
  PROVE  Listed(k, p)'
<1>1. k \in DOMAIN nv_kernels /\ \E i \in DOMAIN nv_kernels[k].kparams : nv_kernels[k].kparams[i] = p
  BY DEF Listed
<1>2. nv_kernels[k] \in NvKernelInfo
  BY <1>1 DEF NvTypeOK, KernelsTyped
<1> DEFINE r == nv_kernels[k]
<1>3. /\ r.param_cbank_offset \in Nat /\ r.param_cbank_size \in Nat /\ r.kparams \in Seq(NvKparams)
  BY <1>2 DEF NvKernelInfo
<1>4. PICK i \in DOMAIN r.kparams : r.kparams[i] = p
  BY <1>1
<1> HIDE DEF r
<1>5. phase = "payload" /\ More /\ (kernel_name # NoKernel => kernel_name \in Kernel)
  BY TurnEffect, PayloadTyped
<1>6. \A x : \A q \in Seq(NvKparams) : i \in DOMAIN q /\ q[i] = p =>
         i \in DOMAIN Append(q, x) /\ Append(q, x)[i] = p
  OBVIOUS
<1>7. ASSUME k \in DOMAIN nv_kernels', nv_kernels'[k] = r PROVE Listed(k, p)'
  BY <1>1, <1>7 DEF Listed, r
<1>8. CASE TakesParam /\ kernel_name # NoKernel
  <2>1. TookParam(kernel_name, NvKparam(attr_data)) /\ NvKparam(attr_data) \in NvKparams
    BY <1>5, <1>8, TurnEffect, ParamTyped
  <2>2. CASE k # kernel_name
    BY <1>1, <1>7, <2>1, <2>2 DEF TookParam, r
  <2>3. CASE k = kernel_name
    <3> DEFINE x == NvKparam(attr_data)
               q == Append(r.kparams, x)
    <3>1. q \in Seq(NvKparams) /\ i \in DOMAIN q /\ q[i] = p
      BY <1>3, <1>4, <1>6, <2>1
    <3>2. k \in DOMAIN nv_kernels' /\ nv_kernels'[k] = Info(r.param_cbank_offset, r.param_cbank_size, q)
      BY <1>1, <2>1, <2>3 DEF TookParam, r
    <3> HIDE DEF q
    <3>3. nv_kernels'[k].kparams = q
      BY <1>3, <3>1, <3>2, InfoTyped
    <3>4. QED
      BY <3>1, <3>2, <3>3 DEF Listed
  <2>4. QED
    BY <2>2, <2>3
<1>9. CASE ~(TakesParam /\ kernel_name # NoKernel) /\ TakesRegion /\ kernel_name # NoKernel
  <2>1. TookRegion(kernel_name, U16(attr_data, 4), U16(attr_data, 6))
    BY <1>9, TurnEffect
  <2>2. U16(attr_data, 4) \in Nat /\ U16(attr_data, 6) \in Nat
    BY <1>5, <1>9, TurnEffect, ParamTyped
  <2>3. CASE k # kernel_name
    BY <1>1, <1>7, <2>1, <2>3 DEF TookRegion, r
  <2>4. CASE k = kernel_name
    <3>1. k \in DOMAIN nv_kernels' /\ nv_kernels'[k] = Info(U16(attr_data, 4), U16(attr_data, 6), r.kparams)
      BY <1>1, <2>1, <2>4 DEF TookRegion, KParamsOf, r
    <3>2. nv_kernels'[k].kparams = r.kparams
      BY <1>3, <2>2, <3>1, InfoTyped
    <3>3. QED
      BY <1>4, <3>1, <3>2 DEF Listed
  <2>5. QED
    BY <2>3, <2>4
<1>10. CASE nv_kernels' = nv_kernels
  BY <1>10 DEF Listed
<1>11. QED
  BY <1>8, <1>9, <1>10, TurnEffect

LEMMA ListedSorted ==
  ASSUME NvTypeOK, ApplyDefaults, NEW k, NEW p, Listed(k, p)
  PROVE  Listed(k, p)'
<1>1. k \in DOMAIN nv_kernels /\ \E i \in DOMAIN nv_kernels[k].kparams : nv_kernels[k].kparams[i] = p
  BY DEF Listed
<1>2. nv_kernels[k] \in NvKernelInfo
  BY <1>1 DEF NvTypeOK, KernelsTyped
<1> DEFINE q == nv_kernels[k].kparams
<1>3. q \in Seq(NvKparams)
  BY <1>2 DEF NvKernelInfo
<1>4. k \in DOMAIN nv_kernels' /\ nv_kernels'[k] = WithDefaults(nv_kernels[k])
  BY <1>1 DEF ApplyDefaults
<1>5. nv_kernels'[k].kparams = SortedByOrdinal(q)
  BY <1>2, <1>4, DefaultsTyped
<1>6. PICK i \in DOMAIN q : q[i] = p
  BY <1>1
<1> HIDE DEF q
<1>7. \E j \in DOMAIN SortedByOrdinal(q) : SortedByOrdinal(q)[j] = p
  BY <1>3, <1>6, SortedKeeps
<1>8. QED
  BY <1>4, <1>5, <1>7, Zenon DEF Listed

LEMMA PaidKept ==
  ASSUME cubin' = cubin, \A k, p : Listed(k, p) => Listed(k, p)'
  PROVE  /\ \A n, m : Owed(n, m)' <=> Owed(n, m)
         /\ \A n, m : Paid(n, m) => Paid(n, m)'
         /\ \A n : Survived(n) => Survived(n)'
<1>1. \A n, m : Owed(n, m)' <=> Owed(n, m)
  BY Zenon DEF Owed
<1>2. ASSUME NEW n, NEW m, Paid(n, m) PROVE Paid(n, m)'
  <2> DEFINE k == cubin.sections[n].name.kernel
             p == NvKparam(cubin.sections[n].written[m].data)
  <2>1. PICK c, x : c = k /\ x = p
    OBVIOUS
  <2>2. Listed(c, x)
    BY <1>2, <2>1 DEF Paid
  <2>3. Listed(c, x)'
    BY <2>2
  <2>4. c = k' /\ x = p'
    BY <2>1, Zenon
  <2>5. QED
    BY <2>3, <2>4, Zenon DEF Paid
<1>3. QED
  BY <1>1, <1>2 DEF Survived

(* An entry in step is before the walk, or is the one it reads. *)
LEMMA PrefixReached ==
  ASSUME NvTypeOK, phase = "payload", NEW m, m \in InStepPrefix(cubin.sections[section]),
         NEW j \in 0..(m - 1), pos = Off(written, j)
  PROVE  /\ AtEntry(j) /\ m \in 1..Len(written) /\ m \in Nat
         /\ j + 1 < m => InStepAfter(written[j + 1])
<1>1. payload \in Seq(Nat) /\ written \in Seq(Entry)
  BY PayloadTyped, SectionTyped DEF NvTypeOK, written
<1>2. /\ m \in DOMAIN written
      /\ \A i \in 1..(m - 1) : InStepAfter(written[i])
      /\ BeginsWith(payload, Upto(Pieces(written))[m])
  BY Zenon DEF InStepPrefix, written, payload
<1>3. m \in 1..Len(written) /\ Len(written) \in Nat /\ m \in 0..Len(written)
  BY <1>1, <1>2
<1>4. j \in 0..(Len(written) - 1) /\ j + 1 \in 0..m
  BY <1>3
<1>5. BeginsWith(payload, Upto(Pieces(written))[j + 1])
  BY <1>1, <1>2, <1>3, <1>4, EarlierBegins
<1>6. j + 1 < m => InStepAfter(written[j + 1])
  BY <1>2, <1>3, <1>4
<1>7. QED
  BY <1>3, <1>4, <1>5, <1>6 DEF AtEntry

LEMMA ParamListed ==
  ASSUME NvTypeOK, phase = "payload", NEW k \in Kernel, NEW p \in NvKparams, TookParam(k, p)
  PROVE  Listed(k, p)'
<1>1. k \in DOMAIN nv_kernels'
  BY DEF TookParam
<1>2. \A q \in Seq(NvKparams) :
         Len(q) + 1 \in DOMAIN Append(q, p) /\ Append(q, p)[Len(q) + 1] = p
  OBVIOUS
<1>3. CASE k \in DOMAIN nv_kernels
  <2> DEFINE r == nv_kernels[k]
             q == Append(r.kparams, p)
  <2>1. /\ r.param_cbank_offset \in Nat /\ r.param_cbank_size \in Nat /\ r.kparams \in Seq(NvKparams)
    BY <1>3 DEF NvTypeOK, KernelsTyped, NvKernelInfo
  <2>2. nv_kernels'[k] = Info(r.param_cbank_offset, r.param_cbank_size, q)
    BY <1>3 DEF TookParam
  <2> HIDE DEF r
  <2>3. q \in Seq(NvKparams) /\ Len(r.kparams) + 1 \in DOMAIN q /\ q[Len(r.kparams) + 1] = p
    BY <1>2, <2>1
  <2> HIDE DEF q
  <2>4. nv_kernels'[k].kparams = q
    BY <2>1, <2>2, <2>3, InfoTyped
  <2>5. QED
    BY <1>1, <2>3, <2>4 DEF Listed
<1>4. CASE k \notin DOMAIN nv_kernels
  <2> DEFINE q == <<p>>
             z == 0
  <2>1. nv_kernels'[k] = Info(DefaultOffset, z, q)
    BY <1>4 DEF TookParam
  <2>2. q \in Seq(NvKparams) /\ 1 \in DOMAIN q /\ q[1] = p /\ z \in Nat /\ DefaultOffset \in Nat
    BY DEF DefaultOffset
  <2> HIDE DEF q, z
  <2>3. nv_kernels'[k].kparams = q
    BY <2>1, <2>2, InfoTyped
  <2>4. QED
    BY <1>1, <2>2, <2>3 DEF Listed
<1>5. QED
  BY <1>3, <1>4

(* A descriptor keeps the walk in step. *)
LEMMA DescriptorInStep ==
  ASSUME NEW e \in Entry, NEW attr, NEW length \in Nat, length # 0, Describes(e, attr, length)
  PROVE  InStepAfter(e)
<1>1. e.fmt = PER_FUNC /\ Len(e.data) >= length /\ e.data \in Seq(Nat) /\ (e.sized \/ e.data = <<>>)
  BY EntryTyped DEF Describes
<1>2. e.data # <<>>
  BY <1>1
<1>3. QED
  BY <1>1, <1>2, Zenon DEF InStepAfter

LEMMA AheadStays ==
  ASSUME NvTypeOK, phase = "payload", NEW m, Owed(section, m), Ahead(m)
  PROVE  /\ ~EndOfPayload /\ ~Truncated
         /\ Turn => Paid(section, m)' \/ Ahead(m)'
<1> DEFINE s == cubin.sections[section]
           e == written[m]
<1>1. /\ IsOf(s.name.kernel, s) /\ s.name.kernel # NoKernel
      /\ m \in InStepPrefix(s) /\ Describes(e, KPARAM_INFO, 12)
  BY Zenon DEF Owed, written
<1>2. PICK j \in 0..(m - 1) : pos = Off(written, j)
  BY DEF Ahead
<1>3. /\ AtEntry(j) /\ m \in 1..Len(written) /\ m \in Nat
      /\ j + 1 < m => InStepAfter(written[j + 1])
  BY <1>1, <1>2, PrefixReached
<1>4. written \in Seq(Entry)
  BY PayloadTyped, SectionTyped DEF NvTypeOK, written
<1>5. InStepAfter(e)
  <2>1. e \in Entry
    BY <1>3, <1>4
  <2>2. 12 \in Nat /\ 12 # 0
    OBVIOUS
  <2> HIDE DEF e
  <2>3. QED
    BY <1>1, <2>1, <2>2, DescriptorInStep
<1>6. j + 1 = m \/ j + 1 < m
  BY <1>2, <1>3
<1>7. InStepAfter(written[j + 1])
  BY <1>3, <1>5, <1>6
<1>8. ~EndOfPayload /\ ~Truncated
  BY <1>3, <1>7, EntryTaken
<1>9. ASSUME Turn, j + 1 < m PROVE Ahead(m)'
  <2>1. pos' = Off(written, j + 1)
    BY <1>3, <1>7, <1>9, EntryTaken
  <2>2. written' = written
    BY <1>9, TurnEffect DEF written
  <2>3. j + 1 \in 0..(m - 1)
    BY <1>2, <1>3, <1>9
  <2>4. QED
    BY <2>1, <2>2, <2>3 DEF Ahead
<1>10. ASSUME Turn, j + 1 = m PROVE Paid(section, m)'
  <2>1. TakesParam /\ attr_data = e.data
    BY <1>1, <1>3, <1>7, <1>10, EntryTaken
  <2>2. kernel_name = s.name.kernel
    BY <1>1 DEF IsOf, kernel_name
  <2>3. TookParam(kernel_name, NvKparam(attr_data)) /\ More /\ Fits /\ cubin' = cubin /\ section' = section
    BY <1>1, <1>10, <2>1, <2>2, TurnEffect
  <2>4. NvKparam(attr_data) \in NvKparams /\ kernel_name \in Kernel
    BY <1>1, <2>1, <2>2, <2>3, ParamTyped, PayloadTyped
  <2>5. PICK c \in Kernel, x \in NvKparams : c = kernel_name /\ x = NvKparam(attr_data)
    BY <2>4
  <2>6. Listed(c, x)'
    BY <2>3, <2>5, ParamListed
  <2>7. c = cubin'.sections[section'].name.kernel /\ x = NvKparam(cubin'.sections[section'].written[m].data)
    BY <2>1, <2>2, <2>3, <2>5 DEF written
  <2>8. QED
    BY <2>6, <2>7, Zenon DEF Paid
<1>11. QED
  BY <1>6, <1>8, <1>9, <1>10

LEMMA SurviveStep == NvTypeOK /\ SurviveInv /\ [NvNext]_nv_vars => SurviveInv'
<1> SUFFICES ASSUME NvTypeOK, SurviveInv, [NvNext]_nv_vars PROVE SurviveInv'
  OBVIOUS
<1>1. section \in 0..Len(cubin.sections) /\ Len(cubin.sections) \in Nat
  BY DEF NvTypeOK, Cubin
<1>2. CASE ReadHeader
  <2>1. section = 0 /\ section' = section /\ phase' # "payload"
    BY <1>2 DEF ReadHeader, NvTypeOK
  <2>2. QED
    BY <2>1 DEF SurviveInv
<1>3. CASE NextSection
  <2>1. /\ phase = "sections" /\ section' = section + 1 /\ section < Len(cubin.sections) /\ pos' = 0
        /\ phase' = IF IsInfo(cubin.sections[section']) THEN "payload" ELSE phase
        /\ cubin' = cubin /\ nv_kernels' = nv_kernels
    BY <1>3 DEF NextSection
  <2>2. \A n : Survived(n) => Survived(n)'
    <3>1. \A k, p : Listed(k, p) => Listed(k, p)'
      BY <2>1 DEF Listed
    <3>2. QED
      BY <2>1, <3>1, PaidKept
  <2>3. \A n \in 1..section : Survived(n)'
    BY <2>1, <2>2 DEF SurviveInv
  <2>4. CASE IsInfo(cubin.sections[section'])
    <3>1. phase' = "payload" /\ section' - 1 = section
      BY <1>1, <2>1, <2>4
    <3>2. ASSUME NEW m, Owed(section, m)' PROVE Ahead(m)'
      <4>1. PICK n \in DOMAIN cubin.sections : n = section'
        BY <1>1, <2>1 DEF NvTypeOK, Cubin
      <4>2. cubin.sections[n].written \in Seq(Entry)
        BY SectionTyped DEF NvTypeOK
      <4>3. written' \in Seq(Entry)
        BY <2>1, <4>1, <4>2 DEF written
      <4>4. m \in DOMAIN written'
        BY <3>2, Zenon DEF Owed, InStepPrefix, written
      <4>5. m \in Nat /\ m >= 1
        BY <4>3, <4>4
      <4>6. Off(written', 0) = 0
        BY <4>3, Offsets
      <4>7. 0 \in 0..(m - 1)
        BY <4>5
      <4>8. QED
        BY <2>1, <4>6, <4>7 DEF Ahead
    <3>3. QED
      BY <2>3, <3>1, <3>2 DEF SurviveInv
  <2>5. CASE ~IsInfo(cubin.sections[section'])
    <3>1. phase' = "sections"
      BY <2>1, <2>5
    <3>2. \A n, m : n = section' => ~Owed(n, m)'
      BY <2>1, <2>5 DEF Owed, IsOf
    <3>3. \A n \in 1..section' : n \in 1..section \/ n = section'
      BY <1>1, <2>1
    <3>4. \A n \in 1..section' : Survived(n)'
      <4>1. ASSUME NEW n \in 1..section', n = section' PROVE Survived(n)'
        <5>1. \A m : ~Owed(n, m)'
          BY <3>2, <4>1
        <5>2. QED
          BY <5>1 DEF Survived
      <4>2. QED
        BY <2>3, <3>3, <4>1
    <3>5. QED
      BY <3>1, <3>4 DEF SurviveInv
  <2>6. QED
    BY <2>4, <2>5
<1>4. CASE EndOfPayload \/ Truncated
  <2>1. /\ phase = "payload" /\ phase' = "sections" /\ section' = section
        /\ cubin' = cubin /\ nv_kernels' = nv_kernels
    BY <1>4 DEF EndOfPayload, Truncated, More
  <2>2. \A m : Owed(section, m) => Paid(section, m)
    BY <1>4, <2>1, AheadStays DEF SurviveInv
  <2>3. Survived(section)
    BY <2>2 DEF Survived
  <2>4. \A n \in 1..section : n \in 1..(section - 1) \/ n = section
    BY <1>1
  <2>5. \A n \in 1..section : Survived(n)
    BY <2>1, <2>3, <2>4 DEF SurviveInv
  <2>6. \A k, p : Listed(k, p) => Listed(k, p)'
    BY <2>1 DEF Listed
  <2>7. \A n \in 1..section : Survived(n)'
    BY <2>1, <2>5, <2>6, PaidKept
  <2>8. QED
    BY <2>1, <2>7 DEF SurviveInv
<1>5. CASE Turn
  <2>1. phase = "payload" /\ phase' = phase /\ section' = section /\ cubin' = cubin
    BY <1>5, TurnEffect
  <2>2. \A k, p : Listed(k, p) => Listed(k, p)'
    BY <1>5, ListedKept
  <2>3. /\ \A n, m : Owed(n, m)' <=> Owed(n, m)
        /\ \A n, m : Paid(n, m) => Paid(n, m)'
        /\ \A n : Survived(n) => Survived(n)'
    BY <2>1, <2>2, PaidKept
  <2>4. \A n \in 1..(section - 1) : Survived(n)'
    BY <2>1, <2>3 DEF SurviveInv
  <2>5. ASSUME NEW m, Owed(section, m)' PROVE Paid(section, m)' \/ Ahead(m)'
    <3>1. Owed(section, m)
      BY <2>1, <2>5, Zenon DEF Owed
    <3>2. CASE Paid(section, m)
      <4>1. PICK n : n = section
        OBVIOUS
      <4>2. Paid(n, m)'
        BY <2>3, <3>2, <4>1
      <4>3. n = section'
        BY <2>1, <4>1
      <4>4. QED
        BY <4>2, <4>3
    <3>3. CASE Ahead(m)
      BY <1>5, <2>1, <3>1, <3>3, AheadStays
    <3>4. QED
      BY <2>1, <3>1, <3>2, <3>3 DEF SurviveInv
  <2>6. QED
    BY <2>1, <2>4, <2>5 DEF SurviveInv
<1>6. CASE ApplyDefaults
  <2>1. phase = "sections" /\ phase' = "done" /\ section' = section /\ cubin' = cubin
    BY <1>6 DEF ApplyDefaults
  <2>2. \A k, p : Listed(k, p) => Listed(k, p)'
    BY <1>6, ListedSorted
  <2>3. \A n \in 1..section : Survived(n)'
    BY <2>1, <2>2, PaidKept DEF SurviveInv
  <2>4. QED
    BY <2>1, <2>3 DEF SurviveInv
<1>7. CASE UNCHANGED nv_vars
  <2>1. /\ phase' = phase /\ section' = section /\ cubin' = cubin /\ nv_kernels' = nv_kernels /\ pos' = pos
    BY <1>7 DEF nv_vars
  <2>2. QED
    BY <2>1, Zenon DEF SurviveInv, Survived, Owed, Paid, Listed, Ahead, written
<1>8. CASE NvFinished
  BY <1>7, <1>8 DEF NvFinished
<1>9. QED
  BY <1>2, <1>3, <1>4, <1>5, <1>6, <1>7, <1>8 DEF NvNext, Turn

(* The parameters described before the entry that put the walk out of step are listed *)
(* in the end, whatever the sections and their order. *)
THEOREM NothingBeforeIsLost == NvSpec => []EarlierEntriesSurvive
<1>1. NvInit => NvTypeOK /\ SurviveInv
  <2>1. NvInit => SurviveInv
    BY DEF NvInit, SurviveInv
  <2>2. QED
    BY <2>1, InitTyped
<1>2. NvTypeOK /\ SurviveInv /\ [NvNext]_nv_vars => (NvTypeOK /\ SurviveInv)'
  BY NextTyped, SurviveStep
<1>3. NvTypeOK /\ SurviveInv => EarlierEntriesSurvive
  <2> SUFFICES ASSUME NvTypeOK, SurviveInv, phase = "done"
               PROVE  \A n \in DOMAIN cubin.sections : Survived(n)
    BY Zenon DEF EarlierEntriesSurvive, Survived, Owed, Paid
  <2>1. section = Len(cubin.sections) /\ DOMAIN cubin.sections = 1..Len(cubin.sections)
    BY DEF NvTypeOK, Cubin
  <2>2. QED
    BY <2>1 DEF SurviveInv
<1>4. QED
  BY <1>1, <1>2, <1>3, PTL DEF NvSpec

-----------------------------------------------------------------------------
(* The table says what was described. *)

(* What a map of nv_kernels says of k when r and p are the regions and the descriptors so far. *)
Tells(map, k, r, p) ==
  /\ k \in DOMAIN map <=> r # <<>> \/ p # <<>>
  /\ k \in DOMAIN map =>
       /\ map[k].kparams = Described(p)
       /\ r = <<>> => map[k].param_cbank_offset = DefaultOffset /\ map[k].param_cbank_size = 0
       /\ r # <<>> => /\ map[k].param_cbank_offset = U16(r[Len(r)].data, 4)
                      /\ map[k].param_cbank_size = U16(r[Len(r)].data, 6)

LEMMA DescribedAppends ==
  ASSUME NEW p \in Seq(Entry), NEW e \in Entry
  PROVE  Described(Append(p, e)) = Append(Described(p), NvKparam(e.data)) /\ Described(<<>>) = <<>>
<1> DEFINE q == Append(p, e)
           a == Described(q)
           d == Described(p)
           b == Append(d, NvKparam(e.data))
           N == Len(p)
<1>1. /\ N \in Nat /\ DOMAIN p = 1..N /\ DOMAIN q = 1..(N + 1)
      /\ \A n \in 1..N : q[n] = p[n]
      /\ q[N + 1] = e
  OBVIOUS
<1> HIDE DEF q, N
<1>2. a = [n \in 1..(N + 1) |-> NvKparam(q[n].data)]
  BY <1>1 DEF Described
<1>3. d = [n \in 1..N |-> NvKparam(p[n].data)]
  BY <1>1 DEF Described
<1> DEFINE x == NvKparam(e.data)
           T == {NvKparam(q[n].data) : n \in 1..(N + 1)}
<1>4. /\ \A n \in 1..N : NvKparam(q[n].data) = NvKparam(p[n].data)
      /\ NvKparam(q[N + 1].data) = x
  BY <1>1
<1>5. a \in Seq(T) /\ Len(a) = N + 1 /\ \A n \in 1..(N + 1) : a[n] = NvKparam(q[n].data)
  <2> DEFINE f(n) == NvKparam(q[n].data)
  <2>1. a = [n \in 1..(N + 1) |-> f(n)] /\ \A n \in 1..(N + 1) : f(n) \in T
    BY <1>2
  <2> HIDE DEF f, T, a
  <2>2. a \in Seq(T) /\ Len(a) = N + 1 /\ \A n \in 1..(N + 1) : a[n] = f(n)
    BY <1>1, <2>1
  <2>3. QED
    BY <2>2 DEF f
<1>6. d \in Seq(T) /\ Len(d) = N /\ \A n \in 1..N : d[n] = NvKparam(p[n].data)
  <2> DEFINE f(n) == NvKparam(p[n].data)
  <2>1. d = [n \in 1..N |-> f(n)]
    BY <1>3
  <2>2. \A n \in 1..N : f(n) \in T
    <3>1. \A n \in 1..N : n \in 1..(N + 1)
      BY <1>1
    <3>2. QED
      BY <1>4, <3>1
  <2> HIDE DEF f, T, d
  <2>3. d \in Seq(T) /\ Len(d) = N /\ \A n \in 1..N : d[n] = f(n)
    BY <1>1, <2>1, <2>2
  <2>4. QED
    BY <2>3 DEF f
<1>7. x \in T
  BY <1>1, <1>4
<1> HIDE DEF a, d, x, T
<1>8. Append(d, x) \in Seq(T) /\ Len(Append(d, x)) = N + 1
      /\ (\A n \in 1..N : Append(d, x)[n] = d[n]) /\ Append(d, x)[N + 1] = x
  BY <1>1, <1>6, <1>7
<1>9. \A n \in 1..(N + 1) : a[n] = Append(d, x)[n]
  <2>1. \A n \in 1..(N + 1) : n \in 1..N \/ n = N + 1
    BY <1>1
  <2>2. N + 1 \in 1..(N + 1) /\ \A n \in 1..N : n \in 1..(N + 1)
    BY <1>1
  <2>3. QED
    BY <1>4, <1>5, <1>6, <1>8, <2>1, <2>2 DEF x
<1>10. a = Append(d, x)
  BY <1>5, <1>8, <1>9
<1>11. Described(<<>>) = <<>>
  BY DEF Described
<1>12. QED
  BY <1>10, <1>11 DEF q, a, d, x

LEMMA ParamTells ==
  ASSUME NvTypeOK, NEW k \in Kernel, NEW r \in Seq(Entry), NEW p \in Seq(Entry), NEW e \in Entry,
         Tells(nv_kernels, k, r, p), TookParam(k, NvKparam(e.data)), NvKparam(e.data) \in NvKparams
  PROVE  Tells(nv_kernels', k, r, Append(p, e))
<1> DEFINE x == NvKparam(e.data)
           d == Described(p)
           u == Append(p, e)
<1>1. /\ k \in DOMAIN nv_kernels' /\ x \in NvKparams
      /\ nv_kernels'[k] = IF k \in DOMAIN nv_kernels
                       THEN Info(nv_kernels[k].param_cbank_offset, nv_kernels[k].param_cbank_size,
                                 Append(nv_kernels[k].kparams, x))
                       ELSE Info(DefaultOffset, 0, <<x>>)
  BY DEF TookParam
<1>2. u # <<>>
  OBVIOUS
<1>3. Described(u) = Append(d, x) /\ Described(<<>>) = <<>>
  BY DescribedAppends
<1> HIDE DEF x, u
<1>4. CASE k \in DOMAIN nv_kernels
  <2> DEFINE i == nv_kernels[k]
             q == Append(i.kparams, x)
  <2>1. i.param_cbank_offset \in Nat /\ i.param_cbank_size \in Nat /\ i.kparams \in Seq(NvKparams)
    BY <1>4 DEF NvTypeOK, KernelsTyped, NvKernelInfo
  <2>2. nv_kernels'[k] = Info(i.param_cbank_offset, i.param_cbank_size, q)
    BY <1>1, <1>4
  <2>3. /\ i.kparams = d
        /\ r = <<>> => i.param_cbank_offset = DefaultOffset /\ i.param_cbank_size = 0
        /\ r # <<>> => /\ i.param_cbank_offset = U16(r[Len(r)].data, 4)
                       /\ i.param_cbank_size = U16(r[Len(r)].data, 6)
    BY <1>4 DEF Tells
  <2> HIDE DEF i
  <2>4. q \in Seq(NvKparams) /\ q = Described(u)
    BY <1>1, <1>3, <2>1, <2>3
  <2> HIDE DEF q
  <2>5. /\ nv_kernels'[k].kparams = q /\ nv_kernels'[k].param_cbank_offset = i.param_cbank_offset
        /\ nv_kernels'[k].param_cbank_size = i.param_cbank_size
    BY <2>1, <2>2, <2>4, InfoTyped
  <2>6. QED
    BY <1>1, <1>2, <2>3, <2>4, <2>5 DEF Tells, u
<1>5. CASE k \notin DOMAIN nv_kernels
  <2> DEFINE q == <<x>>
             z == 0
  <2>1. nv_kernels'[k] = Info(DefaultOffset, z, q)
    BY <1>1, <1>5
  <2>2. r = <<>> /\ p = <<>>
    BY <1>5 DEF Tells
  <2>3. q \in Seq(NvKparams) /\ z \in Nat /\ DefaultOffset \in Nat
    BY <1>1 DEF DefaultOffset
  <2>4. q = Described(u)
    <3>1. d = <<>>
      BY <1>3, <2>2
    <3>2. Append(<<>>, x) = <<x>>
      OBVIOUS
    <3>3. QED
      BY <1>3, <3>1, <3>2
  <2> HIDE DEF q, z
  <2>5. /\ nv_kernels'[k].kparams = q /\ nv_kernels'[k].param_cbank_offset = DefaultOffset
        /\ nv_kernels'[k].param_cbank_size = z
    BY <2>1, <2>3, InfoTyped
  <2>6. QED
    BY <1>1, <1>2, <2>2, <2>4, <2>5 DEF Tells, u, z
<1>6. QED
  BY <1>4, <1>5

LEMMA RegionTells ==
  ASSUME NvTypeOK, NEW k \in Kernel, NEW r \in Seq(Entry), NEW p \in Seq(Entry), NEW e \in Entry,
         Tells(nv_kernels, k, r, p), TookRegion(k, U16(e.data, 4), U16(e.data, 6)),
         U16(e.data, 4) \in Nat, U16(e.data, 6) \in Nat
  PROVE  Tells(nv_kernels', k, Append(r, e), p)
<1> DEFINE u == Append(r, e)
           o == U16(e.data, 4)
           z == U16(e.data, 6)
           q == KParamsOf(k)
<1>1. k \in DOMAIN nv_kernels' /\ nv_kernels'[k] = Info(o, z, q)
  BY DEF TookRegion
<1>2. u # <<>> /\ u[Len(u)] = e
  <2>1. Len(r) \in Nat /\ u \in Seq(Entry) /\ Len(u) = Len(r) + 1 /\ u[Len(r) + 1] = e
    OBVIOUS
  <2> HIDE DEF u
  <2>2. Len(u) # 0
    BY <2>1
  <2>3. u # <<>>
    BY <2>2
  <2>4. QED
    BY <2>1, <2>3
<1>3. q \in Seq(NvKparams) /\ q = Described(p)
  <2>1. CASE k \in DOMAIN nv_kernels
    BY <2>1 DEF Tells, KParamsOf, NvTypeOK, KernelsTyped, NvKernelInfo
  <2>2. CASE k \notin DOMAIN nv_kernels
    <3>1. p = <<>> /\ q = <<>>
      BY <2>2 DEF Tells, KParamsOf
    <3>2. Described(<<>>) = <<>>
      BY DescribedAppends
    <3>3. <<>> \in Seq(NvKparams)
      OBVIOUS
    <3>4. QED
      BY <3>1, <3>2, <3>3
  <2>3. QED
    BY <2>1, <2>2
<1> HIDE DEF u, q
<1>4. o \in Nat /\ z \in Nat
  OBVIOUS
<1>5. nv_kernels'[k].kparams = q /\ nv_kernels'[k].param_cbank_offset = o /\ nv_kernels'[k].param_cbank_size = z
  <2> HIDE DEF o, z
  <2>1. QED
    BY <1>1, <1>3, <1>4, InfoTyped
<1>6. Tells(nv_kernels', k, u, p)
  BY <1>1, <1>2, <1>3, <1>5 DEF Tells
<1>7. QED
  BY <1>6 DEF u

(* A turn over the payload of another section says nothing of k. *)
LEMMA OtherTells ==
  ASSUME NvTypeOK, Turn, NEW k \in Kernel, NEW r, NEW p, Tells(nv_kernels, k, r, p), kernel_name # k
  PROVE  Tells(nv_kernels', k, r, p)
<1> DEFINE Same == /\ k \in DOMAIN nv_kernels' <=> k \in DOMAIN nv_kernels
                   /\ k \in DOMAIN nv_kernels => nv_kernels'[k] = nv_kernels[k]
<1>1. ASSUME NEW c, NEW x, TookParam(c, x), c # k PROVE Same
  BY <1>1 DEF TookParam
<1>2. ASSUME NEW c, NEW o, NEW z, TookRegion(c, o, z), c # k PROVE Same
  BY <1>2 DEF TookRegion
<1>3. nv_kernels' = nv_kernels => Same
  OBVIOUS
<1> HIDE DEF Same
<1>4. Same
  BY <1>1, <1>2, <1>3, TurnEffect, Zenon
<1>5. QED
  BY <1>4, Zenon DEF Same, Tells

RegionsUpto(k) == DescriptorsUpto(k, PARAM_CBANK, 8)
ParamsUpto(k) == DescriptorsUpto(k, KPARAM_INFO, 12)

(* Those of the sections before the one walked and of its first j entries. *)
RegionsIn(k, j) == Gathered(RegionsUpto(k)[section - 1], written, PARAM_CBANK, 8)[j]
ParamsIn(k, j) == Gathered(ParamsUpto(k)[section - 1], written, KPARAM_INFO, 12)[j]

ReadSoFar(k) ==
  \E j \in 0..Len(written) :
    pos = Off(written, j) /\ Tells(nv_kernels, k, RegionsIn(k, j), ParamsIn(k, j))

DescInv ==
  /\ phase \in {"header", "sections"} =>
       \A k \in Kernel : Plain(k) => Tells(nv_kernels, k, RegionsUpto(k)[section], ParamsUpto(k)[section])
  /\ phase = "payload" =>
       \A k \in Kernel :
         Plain(k) => IF IsOf(k, cubin.sections[section]) THEN ReadSoFar(k)
                     ELSE Tells(nv_kernels, k, RegionsUpto(k)[section], ParamsUpto(k)[section])
  /\ phase = "done" => KernelsAsDescribed

LEMMA SameFile ==
  ASSUME cubin' = cubin
  PROVE  /\ \A k : RegionsUpto(k)' = RegionsUpto(k) /\ ParamsUpto(k)' = ParamsUpto(k)
         /\ \A k : Plain(k)' <=> Plain(k)
BY Zenon DEF RegionsUpto, ParamsUpto, DescriptorsUpto, Plain

(* From one section to the next. *)
LEMMA UptoTyped ==
  ASSUME NvTypeOK, NEW k
  PROVE  /\ \A n \in 0..Len(cubin.sections) : /\ RegionsUpto(k)[n] \in Seq(Entry)
                                              /\ ParamsUpto(k)[n] \in Seq(Entry)
         /\ RegionsUpto(k)[0] = <<>> /\ ParamsUpto(k)[0] = <<>>
         /\ \A n \in 1..Len(cubin.sections) :
              IF IsOf(k, cubin.sections[n])
              THEN /\ RegionsUpto(k)[n] = Gathered(RegionsUpto(k)[n - 1], cubin.sections[n].written,
                                                   PARAM_CBANK, 8)[Len(cubin.sections[n].written)]
                   /\ ParamsUpto(k)[n] = Gathered(ParamsUpto(k)[n - 1], cubin.sections[n].written,
                                                  KPARAM_INFO, 12)[Len(cubin.sections[n].written)]
              ELSE RegionsUpto(k)[n] = RegionsUpto(k)[n - 1] /\ ParamsUpto(k)[n] = ParamsUpto(k)[n - 1]
<1>1. /\ FoundTo(RegionsUpto(k), k, PARAM_CBANK, 8)
      /\ FoundTo(ParamsUpto(k), k, KPARAM_INFO, 12)
  BY DescriptorsSteps DEF NvTypeOK, RegionsUpto, ParamsUpto
<1> DEFINE N == Len(cubin.sections)
           a == RegionsUpto(k)
           b == ParamsUpto(k)
<1> HIDE DEF a, b, N
<1>2. /\ a \in [0..N -> Seq(Entry)] /\ a[0] = <<>>
      /\ \A n \in 1..N : a[n] = Gained(a[n - 1], cubin.sections[n], k, PARAM_CBANK, 8)
  BY <1>1, Zenon DEF FoundTo, a, N
<1>3. /\ b \in [0..N -> Seq(Entry)] /\ b[0] = <<>>
      /\ \A n \in 1..N : b[n] = Gained(b[n - 1], cubin.sections[n], k, KPARAM_INFO, 12)
  BY <1>1, Zenon DEF FoundTo, b, N
<1>4. \A n \in 0..N : a[n] \in Seq(Entry) /\ b[n] \in Seq(Entry)
  BY <1>2, <1>3
<1>5. QED
  BY <1>2, <1>3, <1>4, Zenon DEF Gained, a, b, N

LEMMA InSteps ==
  ASSUME NvTypeOK, phase = "payload", NEW k
  PROVE  /\ written \in Seq(Entry)
         /\ \A j \in 0..Len(written) : RegionsIn(k, j) \in Seq(Entry) /\ ParamsIn(k, j) \in Seq(Entry)
         /\ \A j \in 1..Len(written) :
              /\ RegionsIn(k, j) = IF Describes(written[j], PARAM_CBANK, 8)
                                   THEN Append(RegionsIn(k, j - 1), written[j])
                                   ELSE RegionsIn(k, j - 1)
              /\ ParamsIn(k, j) = IF Describes(written[j], KPARAM_INFO, 12)
                                  THEN Append(ParamsIn(k, j - 1), written[j])
                                  ELSE ParamsIn(k, j - 1)
<1>1. section \in 1..Len(cubin.sections) /\ written \in Seq(Entry)
  BY PayloadTyped, SectionTyped DEF NvTypeOK, written
<1>2. section - 1 \in 0..Len(cubin.sections)
  BY <1>1
<1>3. RegionsUpto(k)[section - 1] \in Seq(Entry) /\ ParamsUpto(k)[section - 1] \in Seq(Entry)
  BY <1>2, UptoTyped
<1> DEFINE x == RegionsUpto(k)[section - 1]
           y == ParamsUpto(k)[section - 1]
           a == Gathered(x, written, PARAM_CBANK, 8)
           b == Gathered(y, written, KPARAM_INFO, 12)
           N == Len(written)
<1>4. GatheredTo(a, x, written, PARAM_CBANK, 8) /\ GatheredTo(b, y, written, KPARAM_INFO, 12)
  <2> HIDE DEF x, y
  <2>1. x \in Seq(Entry) /\ y \in Seq(Entry)
    BY <1>3 DEF x, y
  <2>2. QED
    BY <1>1, <2>1, GatheredSteps
<1>5. \A j : RegionsIn(k, j) = a[j] /\ ParamsIn(k, j) = b[j]
  BY Zenon DEF RegionsIn, ParamsIn
<1> HIDE DEF a, b, N, x, y
<1>6. /\ a \in [0..N -> Seq(Entry)]
      /\ \A n \in 1..N : a[n] = IF Describes(written[n], PARAM_CBANK, 8)
                                THEN Append(a[n - 1], written[n]) ELSE a[n - 1]
  BY <1>4, Zenon DEF GatheredTo, N
<1>7. /\ b \in [0..N -> Seq(Entry)]
      /\ \A n \in 1..N : b[n] = IF Describes(written[n], KPARAM_INFO, 12)
                                THEN Append(b[n - 1], written[n]) ELSE b[n - 1]
  BY <1>4, Zenon DEF GatheredTo, N
<1>8. \A j \in 0..N : a[j] \in Seq(Entry) /\ b[j] \in Seq(Entry)
  BY <1>6, <1>7
<1>9. QED
  BY <1>1, <1>5, <1>6, <1>7, <1>8, Zenon DEF N

LEMMA CleanWalk ==
  ASSUME NvTypeOK, phase = "payload", NEW k \in Kernel, Plain(k), IsOf(k, cubin.sections[section])
  PROVE  /\ \A j \in 0..(Len(written) - 1) :
              pos = Off(written, j) => AtEntry(j) /\ InStepAfter(written[j + 1])
         /\ pos = Off(written, Len(written)) => ~More
         /\ kernel_name = k /\ k # NoKernel
<1>1. /\ section \in DOMAIN cubin.sections /\ payload \in Seq(Nat) /\ written \in Seq(Entry)
  BY PayloadTyped, SectionTyped DEF NvTypeOK, written
<1>2. /\ payload = Encode(written) /\ \A n \in DOMAIN written : InStepAfter(written[n])
  BY <1>1, Zenon DEF Plain, Clean, payload, written
<1>3. /\ Len(payload) = Off(written, Len(written))
      /\ \A j \in 0..Len(written) : BeginsWith(payload, Upto(Pieces(written))[j])
  BY <1>1, <1>2, EncodedBegins
<1>4. \A j \in 0..(Len(written) - 1) : j + 1 \in 0..Len(written) /\ j + 1 \in DOMAIN written
  BY <1>1
<1>5. pos = Off(written, Len(written)) => ~More
  <2>1. Len(payload) \in Nat
    BY <1>1
  <2>2. QED
    BY <1>3, <2>1 DEF More
<1>6. kernel_name = k /\ k # NoKernel
  BY KernelAssumption DEF IsOf, kernel_name
<1>7. QED
  BY <1>2, <1>3, <1>4, <1>5, <1>6 DEF AtEntry

LEMMA TurnReads ==
  ASSUME NvTypeOK, Turn, NEW k \in Kernel, Plain(k), IsOf(k, cubin.sections[section]), ReadSoFar(k)
  PROVE  ReadSoFar(k)'
<1>1. /\ phase = "payload" /\ More /\ cubin' = cubin /\ section' = section /\ phase' = phase
  BY TurnEffect
<1>2. written' = written /\ \A j : RegionsIn(k, j)' = RegionsIn(k, j) /\ ParamsIn(k, j)' = ParamsIn(k, j)
  BY <1>1, SameFile, Zenon DEF written, RegionsIn, ParamsIn
<1>3. PICK j \in 0..Len(written) :
        pos = Off(written, j) /\ Tells(nv_kernels, k, RegionsIn(k, j), ParamsIn(k, j))
  BY DEF ReadSoFar
<1>4. written \in Seq(Entry) /\ Len(written) \in Nat
  BY <1>1, InSteps
<1>5. j \in 0..(Len(written) - 1) /\ j + 1 \in 1..Len(written) /\ j + 1 \in 0..Len(written) /\ (j + 1) - 1 = j
  <2>1. j # Len(written)
    BY <1>1, <1>3, CleanWalk
  <2>2. QED
    BY <1>4, <2>1
<1>6. AtEntry(j) /\ InStepAfter(written[j + 1]) /\ kernel_name = k /\ k # NoKernel
  BY <1>1, <1>3, <1>5, CleanWalk
<1>7. PICK e \in Entry : e = written[j + 1]
  BY <1>4, <1>5
<1>8. PICK r \in Seq(Entry), p \in Seq(Entry) : r = RegionsIn(k, j) /\ p = ParamsIn(k, j)
  BY <1>1, InSteps
<1>9. /\ RegionsIn(k, j + 1) = IF Describes(e, PARAM_CBANK, 8) THEN Append(r, e) ELSE r
      /\ ParamsIn(k, j + 1) = IF Describes(e, KPARAM_INFO, 12) THEN Append(p, e) ELSE p
  BY <1>1, <1>5, <1>7, <1>8, InSteps
<1>10. /\ pos' = Off(written, j + 1)
       /\ TakesParam <=> Describes(e, KPARAM_INFO, 12)
       /\ TakesRegion <=> Describes(e, PARAM_CBANK, 8)
       /\ TakesParam \/ TakesRegion => attr_data = e.data
  BY <1>1, <1>6, <1>7, EntryTaken
<1>11. Tells(nv_kernels, k, r, p)
  BY <1>3, <1>8
<1>12. Tells(nv_kernels', k, RegionsIn(k, j + 1), ParamsIn(k, j + 1))
  <2>1. CASE TakesParam
    <3>1. TookParam(k, NvKparam(e.data)) /\ NvKparam(e.data) \in NvKparams
      BY <1>1, <1>6, <1>10, <2>1, TurnEffect, ParamTyped
    <3>2. ~TakesRegion
      BY <2>1 DEF TakesParam, TakesRegion, PARAM_CBANK, KPARAM_INFO
    <3>3. Tells(nv_kernels', k, r, Append(p, e))
      BY <1>11, <3>1, ParamTells
    <3>4. QED
      BY <1>9, <1>10, <2>1, <3>2, <3>3
  <2>2. CASE ~TakesParam /\ TakesRegion
    <3>1. TookRegion(k, U16(e.data, 4), U16(e.data, 6))
      BY <1>6, <1>10, <2>2, TurnEffect
    <3>2. U16(e.data, 4) \in Nat /\ U16(e.data, 6) \in Nat
      BY <1>1, <1>10, <2>2, TurnEffect, ParamTyped
    <3>3. Tells(nv_kernels', k, Append(r, e), p)
      BY <1>11, <3>1, <3>2, RegionTells
    <3>4. QED
      BY <1>9, <1>10, <2>2, <3>3
  <2>3. CASE ~TakesParam /\ ~TakesRegion
    <3>1. nv_kernels' = nv_kernels
      BY <2>3, TurnEffect
    <3>2. QED
      BY <1>9, <1>10, <1>11, <2>3, <3>1
  <2>4. QED
    BY <2>1, <2>2, <2>3
<1>13. QED
  BY <1>2, <1>5, <1>10, <1>12 DEF ReadSoFar

-----------------------------------------------------------------------------
(* The end of the walk. *)

(* g: what the module gives. *)
Final(map, g, k, r, q) ==
  /\ k \in DOMAIN map <=> r # <<>> \/ q # <<>>
  /\ k \in DOMAIN map =>
       LET info == map[k]
           last == r[Len(r)].data
           offset == U16(last, 4)
           size == U16(last, 6)
       IN /\ info.kparams = SortedByOrdinal(q)
          /\ r = <<>> =>
               /\ info.param_cbank_size = Or(g.cbank_param_size, 0)
               /\ g.param_cbank_offset = NoValue => info.param_cbank_offset = DefaultOffset
          /\ r # <<>> => /\ offset # 0 => info.param_cbank_offset = offset
                         /\ size # 0 => info.param_cbank_size = size

LEMMA DefaultsFinal ==
  ASSUME NvTypeOK, ApplyDefaults, NEW k \in Kernel, NEW r \in Seq(Entry), NEW p \in Seq(Entry),
         Tells(nv_kernels, k, r, p)
  PROVE  Final(nv_kernels', global', k, r, Described(p))
<1>1. p = <<>> <=> Described(p) = <<>>
  <2> DEFINE d == Described(p)
  <2>1. DOMAIN d = DOMAIN p
    BY DEF Described
  <2>2. p = <<>> => d = <<>>
    BY DEF Described
  <2>3. d = <<>> => DOMAIN d = {}
    BY NoKernels
  <2>4. DOMAIN p = {} => p = <<>>
    OBVIOUS
  <2> HIDE DEF d
  <2>5. p = <<>> <=> d = <<>>
    BY <2>1, <2>2, <2>3, <2>4
  <2>6. QED
    BY <2>5 DEF d
<1>2. /\ DOMAIN nv_kernels' = DOMAIN nv_kernels
      /\ \A c \in DOMAIN nv_kernels : nv_kernels'[c] = WithDefaults(nv_kernels[c])
      /\ global' = global
  BY DEF ApplyDefaults
<1>3. ASSUME k \in DOMAIN nv_kernels
      PROVE  /\ nv_kernels'[k].kparams = SortedByOrdinal(nv_kernels[k].kparams)
             /\ nv_kernels[k].param_cbank_offset # 0 =>
                  nv_kernels'[k].param_cbank_offset = nv_kernels[k].param_cbank_offset
             /\ nv_kernels'[k].param_cbank_size = IF nv_kernels[k].param_cbank_size = 0
                                                  THEN Or(global.cbank_param_size, 0)
                                                  ELSE nv_kernels[k].param_cbank_size
  BY <1>2, <1>3, DefaultsTyped DEF NvTypeOK, KernelsTyped
<1>4. DefaultOffset # 0
  BY DEF DefaultOffset
<1>5. QED
  BY <1>1, <1>2, <1>3, <1>4 DEF Tells, Final

LEMMA DescStep == NvTypeOK /\ DescInv /\ [NvNext]_nv_vars => DescInv'
<1> SUFFICES ASSUME NvTypeOK, DescInv, [NvNext]_nv_vars PROVE DescInv'
  OBVIOUS
<1>1. section \in 0..Len(cubin.sections) /\ Len(cubin.sections) \in Nat /\ phase \in Phases
  BY DEF NvTypeOK, Cubin
<1>2. CASE ReadHeader
  <2>1. /\ phase = "header" /\ phase' \in {"sections", "failed"}
        /\ cubin' = cubin /\ section' = section /\ nv_kernels' = nv_kernels
    BY <1>2 DEF ReadHeader
  <2>2. QED
    BY <2>1, SameFile DEF DescInv
<1>3. CASE NextSection
  <2>1. /\ phase = "sections" /\ section' = section + 1 /\ section < Len(cubin.sections) /\ pos' = 0
        /\ phase' = IF IsInfo(cubin.sections[section']) THEN "payload" ELSE phase
        /\ cubin' = cubin /\ nv_kernels' = nv_kernels
    BY <1>3 DEF NextSection
  <2>2. PICK n \in 1..Len(cubin.sections) :
          n = section' /\ n - 1 = section /\ n \in DOMAIN cubin.sections
    BY <1>1, <2>1 DEF NvTypeOK, Cubin
  <2> DEFINE s == cubin.sections[n]
  <2>3. s.written \in Seq(Entry) /\ written' = s.written
    BY <2>1, <2>2, SectionTyped DEF NvTypeOK, written
  <2>4. ASSUME NEW k \in Kernel, Plain(k)' PROVE Tells(nv_kernels, k, RegionsUpto(k)[n - 1], ParamsUpto(k)[n - 1])
    BY <2>1, <2>2, <2>4, SameFile DEF DescInv
  <2>5. ASSUME NEW k \in Kernel, Plain(k)', ~IsOf(k, s)
        PROVE  Tells(nv_kernels', k, RegionsUpto(k)'[section'], ParamsUpto(k)'[section'])
    <3>1. RegionsUpto(k)[n] = RegionsUpto(k)[n - 1] /\ ParamsUpto(k)[n] = ParamsUpto(k)[n - 1]
      BY <2>5, UptoTyped
    <3>2. RegionsUpto(k)' = RegionsUpto(k) /\ ParamsUpto(k)' = ParamsUpto(k)
      BY <2>1, SameFile
    <3>3. QED
      BY <2>1, <2>2, <2>4, <2>5, <3>1, <3>2
  <2>6. ASSUME NEW k \in Kernel, Plain(k)', IsOf(k, s) PROVE ReadSoFar(k)'
    <3>1. RegionsUpto(k)[n - 1] \in Seq(Entry) /\ ParamsUpto(k)[n - 1] \in Seq(Entry)
      BY <1>1, <2>2, UptoTyped
    <3>2. PICK r \in Seq(Entry), p \in Seq(Entry) :
            r = RegionsUpto(k)[n - 1] /\ p = ParamsUpto(k)[n - 1]
      BY <3>1
    <3>3. /\ Gathered(r, s.written, PARAM_CBANK, 8)[0] = r
          /\ Gathered(p, s.written, KPARAM_INFO, 12)[0] = p
      <4> HIDE DEF s
      <4>1. QED
        BY <2>3, GatheredSteps DEF GatheredTo
    <3>4. RegionsIn(k, 0)' = r /\ ParamsIn(k, 0)' = p
      <4>1. RegionsUpto(k)' = RegionsUpto(k) /\ ParamsUpto(k)' = ParamsUpto(k)
        BY <2>1, SameFile
      <4>2. section' - 1 = n - 1
        BY <2>2
      <4>3. QED
        BY <2>3, <3>2, <3>3, <4>1, <4>2, Zenon DEF RegionsIn, ParamsIn
    <3>5. Off(written', 0) = 0 /\ 0 \in 0..Len(written')
      BY <2>3, Offsets
    <3>6. Tells(nv_kernels', k, r, p)
      BY <2>1, <2>4, <2>6, <3>2
    <3>7. QED
      BY <2>1, <3>4, <3>5, <3>6 DEF ReadSoFar
  <2>7. CASE IsInfo(s)
    <3>1. phase' = "payload" /\ cubin'.sections[section'] = s
      BY <2>1, <2>2, <2>7
    <3>2. QED
      BY <2>5, <2>6, <3>1, Zenon DEF DescInv
  <2>8. CASE ~IsInfo(s)
    <3>1. phase' = "sections" /\ \A k : ~IsOf(k, s)
      BY <2>1, <2>2, <2>8 DEF IsOf
    <3>2. QED
      BY <2>5, <3>1 DEF DescInv
  <2>9. QED
    BY <2>7, <2>8
<1>4. CASE EndOfPayload \/ Truncated
  <2>1. /\ phase = "payload" /\ phase' = "sections" /\ section' = section
        /\ cubin' = cubin /\ nv_kernels' = nv_kernels
    BY <1>4 DEF EndOfPayload, Truncated, More
  <2>2. ASSUME NEW k \in Kernel, Plain(k)
        PROVE  Tells(nv_kernels, k, RegionsUpto(k)[section], ParamsUpto(k)[section])
    <3>1. CASE ~IsOf(k, cubin.sections[section])
      BY <2>1, <2>2, <3>1 DEF DescInv
    <3>2. CASE IsOf(k, cubin.sections[section])
      <4>1. PICK j \in 0..Len(written) :
              pos = Off(written, j) /\ Tells(nv_kernels, k, RegionsIn(k, j), ParamsIn(k, j))
        BY <2>1, <2>2, <3>2 DEF DescInv, ReadSoFar
      <4>2. written \in Seq(Entry) /\ Len(written) \in Nat
        BY <2>1, InSteps
      <4>3. j = Len(written)
        <5>1. SUFFICES ASSUME j # Len(written) PROVE FALSE
          OBVIOUS
        <5>2. j \in 0..(Len(written) - 1)
          BY <4>2, <5>1
        <5>3. AtEntry(j) /\ InStepAfter(written[j + 1])
          BY <2>1, <2>2, <3>2, <4>1, <5>2, CleanWalk
        <5>4. QED
          BY <1>4, <2>1, <5>3, EntryTaken
      <4>4. section \in 1..Len(cubin.sections)
        BY <2>1, PayloadTyped
      <4>5. /\ RegionsUpto(k)[section] = RegionsIn(k, j)
            /\ ParamsUpto(k)[section] = ParamsIn(k, j)
        BY <3>2, <4>3, <4>4, UptoTyped, Zenon DEF RegionsIn, ParamsIn, written
      <4>6. QED
        BY <4>1, <4>5
    <3>3. QED
      BY <3>1, <3>2
  <2>3. QED
    BY <2>1, <2>2, SameFile DEF DescInv
<1>5. CASE Turn
  <2>1. phase = "payload" /\ phase' = phase /\ section' = section /\ cubin' = cubin
    BY <1>5, TurnEffect
  <2>2. ASSUME NEW k \in Kernel, Plain(k)
        PROVE  IF IsOf(k, cubin.sections[section]) THEN ReadSoFar(k)'
               ELSE Tells(nv_kernels', k, RegionsUpto(k)[section], ParamsUpto(k)[section])
    <3>1. CASE IsOf(k, cubin.sections[section])
      BY <1>5, <2>1, <2>2, <3>1, TurnReads DEF DescInv
    <3>2. CASE ~IsOf(k, cubin.sections[section])
      <4>1. kernel_name # k
        <5>1. IsInfo(cubin.sections[section])
          BY <2>1 DEF NvTypeOK
        <5>2. QED
          BY <3>2, <5>1, KernelAssumption DEF IsOf, kernel_name
      <4>2. PICK r, p : r = RegionsUpto(k)[section] /\ p = ParamsUpto(k)[section]
        OBVIOUS
      <4>3. Tells(nv_kernels, k, r, p)
        BY <2>1, <2>2, <3>2, <4>2 DEF DescInv
      <4>4. Tells(nv_kernels', k, r, p)
        BY <1>5, <4>1, <4>3, OtherTells
      <4>5. QED
        BY <3>2, <4>2, <4>4
    <3>3. QED
      BY <3>1, <3>2
  <2>3. QED
    BY <2>1, <2>2, SameFile, Zenon DEF DescInv
<1>6. CASE ApplyDefaults
  <2>1. phase = "sections" /\ section = Len(cubin.sections) /\ phase' = "done" /\ cubin' = cubin
    BY <1>6 DEF ApplyDefaults
  <2>2. ASSUME NEW k \in Kernel, Plain(k)
        PROVE  Final(nv_kernels', global', k, RegionsUpto(k)[section], Described(ParamsUpto(k)[section]))
    <3>1. PICK r \in Seq(Entry), p \in Seq(Entry) :
            r = RegionsUpto(k)[section] /\ p = ParamsUpto(k)[section]
      BY <1>1, UptoTyped
    <3>2. Tells(nv_kernels, k, r, p)
      BY <2>1, <2>2, <3>1 DEF DescInv
    <3>3. Final(nv_kernels', global', k, r, Described(p))
      BY <1>6, <3>2, DefaultsFinal
    <3>4. QED
      BY <3>1, <3>3
  <2>3. \A k \in Kernel : Plain(k)' => Final(nv_kernels', global', k, Regions(k)', Params(k)')
    <3>1. \A k : Regions(k)' = RegionsUpto(k)[section] /\ Params(k)' = Described(ParamsUpto(k)[section])
      BY <2>1, SameFile, Zenon DEF Regions, Params, Descriptors, RegionsUpto, ParamsUpto
    <3>2. QED
      BY <2>1, <2>2, <3>1, SameFile
  <2>4. KernelsAsDescribed'
    BY <2>3, Zenon DEF KernelsAsDescribed, Final, Plain
  <2>5. QED
    BY <2>1, <2>4 DEF DescInv
<1>7. CASE UNCHANGED nv_vars
  <2>1. /\ phase' = phase /\ section' = section /\ cubin' = cubin /\ nv_kernels' = nv_kernels
        /\ pos' = pos /\ global' = global
    BY <1>7 DEF nv_vars
  <2>2. KernelsAsDescribed' <=> KernelsAsDescribed
    <3>1. \A k : Regions(k)' = Regions(k) /\ Params(k)' = Params(k)
      BY <2>1, SameFile, Zenon DEF Regions, Params, Descriptors, RegionsUpto, ParamsUpto
    <3>2. KernelsAsDescribed <=>
            (phase = "done" => \A k \in Kernel : Plain(k) => Final(nv_kernels, global, k, Regions(k), Params(k)))
      BY Zenon DEF KernelsAsDescribed, Plain, Final
    <3>3. KernelsAsDescribed' <=>
            (phase' = "done" =>
               \A k \in Kernel : Plain(k)' => Final(nv_kernels', global', k, Regions(k)', Params(k)'))
      BY Zenon DEF KernelsAsDescribed, Plain, Final
    <3>4. QED
      BY <2>1, <3>1, <3>2, <3>3, SameFile
  <2>3. \A k : ReadSoFar(k)' <=> ReadSoFar(k)
    BY <2>1, SameFile, Zenon DEF ReadSoFar, RegionsIn, ParamsIn, written
  <2>4. QED
    BY <2>1, <2>2, <2>3, SameFile, Zenon DEF DescInv
<1>8. CASE NvFinished
  BY <1>7, <1>8 DEF NvFinished
<1>9. QED
  BY <1>2, <1>3, <1>4, <1>5, <1>6, <1>7, <1>8 DEF NvNext, Turn

(* A kernel whose sections keep the walk in step has in the end the parameters and the *)
(* region they describe, whatever the order and the contents of the other sections. *)
THEOREM TableIsAsDescribed == NvSpec => []KernelsAsDescribed
<1>1. NvInit => NvTypeOK /\ DescInv
  <2> SUFFICES ASSUME NvInit PROVE NvTypeOK /\ DescInv
    OBVIOUS
  <2>1. NvTypeOK
    BY InitTyped
  <2>2. phase = "header" /\ section = 0 /\ nv_kernels = <<>>
    BY DEF NvInit
  <2>3. \A k \in Kernel : Tells(nv_kernels, k, RegionsUpto(k)[section], ParamsUpto(k)[section])
    BY <2>1, <2>2, UptoTyped, NoKernels DEF Tells
  <2>4. QED
    BY <2>1, <2>2, <2>3 DEF DescInv
<1>2. NvTypeOK /\ DescInv /\ [NvNext]_nv_vars => (NvTypeOK /\ DescInv)'
  BY NextTyped, DescStep
<1>3. NvTypeOK /\ DescInv => KernelsAsDescribed
  BY Zenon DEF DescInv, KernelsAsDescribed
<1>4. QED
  BY <1>1, <1>2, <1>3, PTL DEF NvSpec
=============================================================================
