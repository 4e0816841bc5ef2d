----------------------------- MODULE IntRules -----------------------------
(***************************************************************************)
(* The rules of the integer instructions (rules/arith, bit, pred, uniform):*)
(* a RuleInst becomes PTX lines `name.type d, args;'.  A rule's scratch    *)
(* registers are numbered from the bases the register declarations leave   *)
(* free.                                                                   *)
(***************************************************************************)
EXTENDS Bridge, Words

LOCAL INSTANCE SequencesExt

CONSTANTS
  ScratchBase,       \* Scratch.gpr_base
  ScratchPredBase,   \* Scratch.pred_base
  SmVersion          \* sm_version() of shf.rs

ASSUME ScratchAssumption ==
  ScratchBase \in Nat /\ ScratchPredBase \in Nat /\ SmVersion \in Nat

-----------------------------------------------------------------------------
(***************************************************************************)
(* Arguments, lines, and how the helpers render an Op.                     *)
(***************************************************************************)
Arg(class, n) == [class |-> class, n |-> n]
Literal(v) == Arg("literal", v)
Table(lut) == Arg("lut", lut)
R0 == Arg("%r", 0)
P0 == Arg("%p", 0)
UR0 == Arg("%ur", 0)
UP0 == Arg("%up", 0)

Scratch(n) == Arg("%r", ScratchBase + n)
ScratchPred(n) == Arg("%p", ScratchPredBase + n)

Always == Arg("always", 0)
TypedLine(name, type, d, args) ==
  [guard |-> Always, name |-> name, type |-> type, cmp |-> "none", d |-> d, args |-> args]
Line(name, d, args) == TypedLine(name, "u32", d, args)
Setp(cmp, type, d, args) ==
  [TypedLine("setp", type, d, args) EXCEPT !.cmp = cmp]

imm(o) == o.bits.of \div 4   \* the integer of an Imm

GprName == {"Gpr", "NegGpr", "CinvGpr", "CabsGpr"}

as_int(o) ==
  CASE o.op \in GprName -> Arg("%r", o.n)
    [] o.op = "Ur"   -> Arg("%ur", o.n)
    [] o.op = "Up"   -> Arg("%up", o.n)
    [] o.op = "Imm"  -> Literal(imm(o))
    [] o.op = "Zero" -> Literal(0)
    [] OTHER         -> R0

as_gpr(o) ==
  CASE o.op \in GprName \cup {"Ur", "Up"} -> Arg("%r", o.n)
    [] o.op = "Imm"  -> Literal(imm(o))
    [] o.op = "Zero" -> Literal(0)
    [] OTHER         -> R0

as_pred(o) ==
  CASE o.op = "Pred"    -> Arg("%p", o.n)
    [] o.op = "NegPred" -> Arg("!%p", o.n)
    [] o.op = "Up"      -> Arg("%up", o.n)
    [] OTHER            -> P0

(* The fmt_op and fmt_ur of the rules: what is not named is register 0. *)
fmt_op(o) == IF o.op \in {"Gpr", "NegGpr", "CinvGpr"} THEN Arg("%r", o.n) ELSE R0
fmt_ur(o) ==
  CASE o.op = "Ur" -> Arg("%ur", o.n) [] o.op = "Imm" -> Literal(imm(o)) [] OTHER -> UR0

Has(ri, mod) == HasMod(ri, {mod})
Flagged(ri, flag, n) == <<flag, "src", n>> \in ri.flags
OpAt(ri, n, names) == n \in DOMAIN ri.src /\ ri.src[n].op \in names

Predicates(ri) == SelectSeq(ri.src, LAMBDA o : o.op \in {"Pred", "NegPred"})
fmt_p(o) == Arg("%p", o.n)   \* a negation is dropped

-----------------------------------------------------------------------------
(***************************************************************************)
(* IADD3.  The terms are the sources that are registers or literals; the   *)
(* flag of the k-th term is looked for at the (k + 2)-nd source.  A term   *)
(* with `~' is negated by a preamble if the carry predicate holds.         *)
(***************************************************************************)
Kind(ri, o, k) ==
  CASE o.op = "NegGpr"  -> "neg"
    [] o.op = "CinvGpr" -> "cINV"
    [] o.op = "Gpr" /\ Flagged(ri, "cINV", k + 2) -> "cINV"
    [] o.op = "Gpr" /\ Flagged(ri, "neg", k + 2)  -> "neg"
    [] OTHER -> "none"

classify(ri) ==
  LET ops == SelectSeq(ri.src, LAMBDA o : o.op \in {"Gpr", "NegGpr", "CinvGpr", "Imm"})
  IN  [k \in DOMAIN ops |-> [arg |-> as_int(ops[k]), kind |-> Kind(ri, ops[k], k)]]

Cinvs(terms, k) == Cardinality({j \in 1..(k - 1) : terms[j].kind = "cINV"})

Preamble(terms, carry) ==
  FlattenSeq([k \in DOMAIN terms |->
    IF terms[k].kind # "cINV" THEN << >>
    ELSE << Line("sub", Scratch(5), <<Literal(0), terms[k].arg>>),
            Line("selp", Scratch(3 + Cinvs(terms, k)), <<Scratch(5), terms[k].arg, carry>>) >>])

effective_terms(terms) ==
  [k \in DOMAIN terms |->
     IF terms[k].kind = "cINV" THEN [arg |-> Scratch(3 + Cinvs(terms, k)), neg |-> FALSE]
     ELSE [arg |-> terms[k].arg, neg |-> terms[k].kind = "neg"]]

AddOrSub(neg, d, a, b) == Line(IF neg THEN "sub" ELSE "add", d, <<a, b>>)

fmt_2term(d, t) ==
  CASE t[1].neg /\ t[2].neg ->
         << Line("sub", d, <<Literal(0), t[1].arg>>), Line("sub", d, <<d, t[2].arg>>) >>
    [] t[1].neg -> << Line("sub", d, <<t[2].arg, t[1].arg>>) >>
    [] OTHER    -> << AddOrSub(t[2].neg, d, t[1].arg, t[2].arg) >>

fmt_3term(d, t) ==
  << IF t[1].neg THEN Line("sub", Scratch(0), <<Literal(0), t[1].arg>>)
     ELSE Line("mov", Scratch(0), <<t[1].arg>>),
     AddOrSub(t[2].neg, Scratch(0), Scratch(0), t[2].arg),
     AddOrSub(t[3].neg, d, Scratch(0), t[3].arg) >>

v1_simple(d, t) ==
  CASE Len(t) = 0 -> << Line("mov", d, <<Literal(0)>>) >>
    [] Len(t) = 1 -> << IF t[1].neg THEN Line("sub", d, <<Literal(0), t[1].arg>>)
                        ELSE Line("mov", d, <<t[1].arg>>) >>
    [] Len(t) = 2 -> fmt_2term(d, t)
    [] OTHER      -> fmt_3term(d, t)

(* Carry of s1 + s2 + s3: c1 is the one of s1 + s2, the rest of the sum. *)
carry_3term(d, pc, s1, s2, s3) ==
  << Line("add", Scratch(2), <<s1, s2>>),
     Setp("LT", "u32", pc, <<Scratch(2), s1>>),
     Line("selp", Scratch(0), <<Literal(1), Literal(0), pc>>),
     Setp("LT", "u32", pc, <<d, s3>>),
     Line("selp", Scratch(1), <<Literal(1), Literal(0), pc>>),
     Line("xor", Scratch(0), <<Scratch(0), Scratch(1)>>),
     Setp("NE", "u32", pc, <<Scratch(0), Literal(0)>>) >>

(* Mutant: the first term is not saved when the destination overwrites it. *)
v2_v4_producer_no_save(d, pc, t) ==
  LET base == v1_simple(d, t)
  IN  CASE Len(t) = 2 /\ ~t[1].neg /\ ~t[2].neg ->
             base \o << Setp("LT", "u32", pc, <<d, t[2].arg>>) >>
        [] Len(t) = 2 /\ ~t[1].neg /\ t[2].neg ->
             base \o << Setp("GT", "u32", pc, <<d, t[1].arg>>) >>
        [] Len(t) = 2 /\ t[1].neg /\ ~t[2].neg ->
             base \o << Setp("GT", "u32", pc, <<d, t[2].arg>>) >>
        [] Len(t) = 2 ->
             base \o << Line("add", Scratch(0), <<t[1].arg, t[2].arg>>),
                        Setp("NE", "u32", pc, <<Scratch(0), Literal(0)>>) >>
        [] Len(t) >= 3 -> base \o carry_3term(d, pc, t[1].arg, t[2].arg, t[3].arg)
        [] OTHER -> base \o << Setp("NE", "u32", pc, <<Literal(0), Literal(0)>>) >>

v2_v4_producer(d, pc, t) ==
  LET base == v1_simple(d, t)
  IN  CASE Len(t) = 2 /\ ~t[1].neg /\ ~t[2].neg ->
             base \o << Setp("LT", "u32", pc, <<d, t[2].arg>>) >>
        [] Len(t) = 2 /\ ~t[1].neg /\ t[2].neg /\ d = t[1].arg ->
             << Line("mov", Scratch(0), <<d>>) >> \o base
               \o << Setp("GT", "u32", pc, <<d, Scratch(0)>>) >>
        [] Len(t) = 2 /\ ~t[1].neg /\ t[2].neg /\ d # t[1].arg ->
             base \o << Setp("GT", "u32", pc, <<d, t[1].arg>>) >>
        [] Len(t) = 2 /\ t[1].neg /\ ~t[2].neg ->
             base \o << Setp("GT", "u32", pc, <<d, t[2].arg>>) >>
        [] Len(t) = 2 /\ t[1].neg /\ t[2].neg ->
             base \o << Line("add", Scratch(0), <<t[1].arg, t[2].arg>>),
                        Setp("NE", "u32", pc, <<Scratch(0), Literal(0)>>) >>
        [] Len(t) >= 3 -> base \o carry_3term(d, pc, t[1].arg, t[2].arg, t[3].arg)
        [] OTHER -> base \o << Setp("NE", "u32", pc, <<Literal(0), Literal(0)>>) >>

(* Mutant: the added word is not the one the carry was put into. *)
AddPredicate_stale(d, pc) ==
  << Line("selp", Scratch(0), <<Literal(1), Literal(0), pc>>),
     Line("add", d, <<d, Scratch(1)>>) >>

AddPredicate(d, pc) ==
  << Line("selp", Scratch(0), <<Literal(1), Literal(0), pc>>),
     Line("add", d, <<d, Scratch(0)>>) >>

v5_carry_consumer(d, pc, t) ==
  (IF Len(t) < 2 THEN v1_simple(d, t)
   ELSE << Line("mov", d, <<t[1].arg>>) >>
          \o [k \in 1..(Len(t) - 1) |-> AddOrSub(t[k + 1].neg, d, d, t[k + 1].arg)])
  \o AddPredicate(d, pc)

(* What v6 puts in scratch 0 is the carry, 0 or 1 or, of three terms, 2;   *)
(* in scratch 1 the signs of the terms less that of the sum.               *)
carry_v6(d, pc, t) ==
  IF Len(t) = 2
  THEN << Line("add", d, <<t[1].arg, t[2].arg>>),
          Setp("LT", "u32", ScratchPred(0), <<d, t[2].arg>>),
          Line("selp", Scratch(0), <<Literal(1), Literal(0), ScratchPred(0)>>),
          Setp("NE", "u32", pc, <<Scratch(0), Literal(0)>>) >>
  ELSE << Line("add", Scratch(0), <<t[1].arg, t[2].arg>>),
          Setp("LT", "u32", ScratchPred(0), <<Scratch(0), t[1].arg>>),
          Line("selp", Scratch(2), <<Literal(1), Literal(0), ScratchPred(0)>>),
          Line("add", d, <<Scratch(0), t[3].arg>>),
          Setp("LT", "u32", ScratchPred(1), <<d, t[3].arg>>),
          Line("selp", Scratch(0), <<Literal(1), Literal(0), ScratchPred(1)>>),
          Line("xor", Scratch(1), <<Scratch(2), Scratch(0)>>),
          Setp("NE", "u32", pc, <<Scratch(1), Literal(0)>>),
          Line("add", Scratch(0), <<Scratch(2), Scratch(0)>>) >>

AddSign(arg) ==
  << Line("shr", Scratch(2), <<arg, Literal(W - 1)>>),
     Line("add", Scratch(1), <<Scratch(1), Scratch(2)>>) >>

overflow_v6(d, pv, t) ==
  << Line("shr", Scratch(1), <<t[1].arg, Literal(W - 1)>>) >>
    \o AddSign(t[2].arg)
    \o (IF Len(t) = 2 THEN << >> ELSE AddSign(t[3].arg))
    \o << Line("shr", Scratch(2), <<d, Literal(W - 1)>>),
          Line("sub", Scratch(1), <<Scratch(1), Scratch(2)>>),
          Setp("NE", "u32", pv, <<Scratch(0), Scratch(1)>>) >>

v6_full(d, ps, t) ==
  IF Len(t) < 2 THEN << Line("mov", d, <<Literal(0)>>) >>
  ELSE carry_v6(d, fmt_p(ps[Len(ps) - 1]), t) \o overflow_v6(d, fmt_p(ps[Len(ps)]), t)

iadd3(ri) ==
  LET d == fmt_op(ri.dst[1])
      ps == Predicates(ri)
      terms == classify(ri)
      t == effective_terms(terms)
      carry == IF Has(ri, "X") /\ ps # << >> THEN fmt_p(ps[1]) ELSE P0
  IN  Preamble(terms, carry) \o
      (CASE Len(ps) >= 4 -> v6_full(d, ps, t)
         [] Len(ps) \in 1..3 /\ Has(ri, "X") -> v5_carry_consumer(d, fmt_p(ps[1]), t)
         [] Len(ps) \in 1..3 /\ ~Has(ri, "X") -> v2_v4_producer(d, fmt_p(ps[1]), t)
         [] Len(ps) = 0 -> v1_simple(d, t))

-----------------------------------------------------------------------------
(***************************************************************************)
(* IMAD without WIDE.  The data operands are those that are no predicates; *)
(* zero counts among them.                                                 *)
(***************************************************************************)
fmt_data(o) == IF o.op \in GprName \cup {"Ur", "Imm"} THEN as_int(o) ELSE Literal(0)

imad(ri) ==
  LET d    == IF ri.dst[1].op = "Zero" THEN Literal(0) ELSE fmt_op(ri.dst[1])
      ps   == Predicates(ri)
      data == SelectSeq(ri.src, LAMBDA o : o.op \notin {"Pred", "NegPred"})
      ra   == fmt_data(data[1])
      rb   == fmt_data(data[2])
      rc   == fmt_data(data[3])
      mad  == Line("mad.lo", d, <<ra, rb, rc>>)
  IN  CASE Has(ri, "X") /\ ps = << >> -> << Line("mov", d, <<Literal(0)>>) >>
        [] Has(ri, "X") /\ ps # << >> /\ data[3].op = "CinvGpr" ->
             << mad, Line("selp", Scratch(0), <<rc, Literal(0), fmt_p(ps[1])>>),
                Line("sub", d, <<d, Scratch(0)>>), Line("sub", d, <<d, Scratch(0)>>) >>
             \o AddPredicate(d, fmt_p(ps[1]))
        [] Has(ri, "X") /\ ps # << >> /\ data[3].op # "CinvGpr" ->
             << mad >> \o AddPredicate(d, fmt_p(ps[1]))
        [] ~Has(ri, "X") /\ Flagged(ri, "neg", 3) ->
             << Line("mul.lo", d, <<ra, rb>>), Line("sub", d, <<d, rc>>) >>
        [] OTHER -> << mad >>

(***************************************************************************)
(* LEA.  Zero is no operand; an addend in a uniform register is shifted    *)
(* together with the base.                                                 *)
(***************************************************************************)
v_lo(d, base, addend, scale) ==
  << Line("shl", Scratch(0), <<addend, scale>>), Line("add", d, <<base, Scratch(0)>>) >>

(* Mutant: the carry out of the lower sum is lost. *)
v_hi_plain_add(d, base, addend, hi, scale, carry) ==
  << Line("shl", Scratch(0), <<addend, scale>>),
     Line("shr", Scratch(1), <<addend, Literal(W - scale.n)>>),
     Line("add", Scratch(0), <<base, Scratch(0)>>),
     Line("add", d, <<hi, Scratch(1)>>) >>

v_hi(d, base, addend, hi, scale, carry) ==
  << Line("shl", Scratch(0), <<addend, scale>>),
     Line("shr", Scratch(1), <<addend, Literal(W - scale.n)>>) >>
  \o (IF carry = << >> THEN << >>
      ELSE << Line("selp", Scratch(2), <<Literal(1), Literal(0), carry[1]>>),
              Line("add", Scratch(0), <<Scratch(0), Scratch(2)>>) >>)
  \o << Line("add.cc", Scratch(0), <<base, Scratch(0)>>),
        Line("addc", d, <<hi, Scratch(1)>>) >>

lea(ri) ==
  LET d    == IF ri.dst[1].op = "Gpr" THEN fmt_op(ri.dst[1]) ELSE R0
      ps   == Predicates(ri)
      ops  == SelectSeq(ri.src, LAMBDA o : o.op \in GprName \cup {"Imm", "Ur"})
      data(n, default) == IF n \in DOMAIN ops THEN as_int(ops[n]) ELSE default
      base   == data(1, R0)
      addend == data(2, R0)
      scale  == data(3, Literal(0))
  IN  CASE ops = << >> -> << Line("mov", d, <<Literal(0)>>) >>
        [] ops # << >> /\ Has(ri, "HI") ->
             v_hi(d, base, addend, data(3, base), data(4, Literal(0)),
                  IF Has(ri, "X") /\ ps # << >> THEN << fmt_p(ps[1]) >> ELSE << >>)
        [] ops # << >> /\ Has(ri, "X") /\ ~Has(ri, "HI") ->
             v_lo(d, base, addend, scale)
             \o (IF ps = << >> THEN << >> ELSE AddPredicate(d, fmt_p(ps[1])))
        [] ops # << >> /\ ~Has(ri, "X") /\ ~Has(ri, "HI") /\ ps # << >> ->
             v_lo(d, base, addend, scale)
             \o << Setp("LT", "u32", fmt_p(ps[1]), <<d, base>>) >>
        [] ops # << >> /\ ~Has(ri, "X") /\ ~Has(ri, "HI") /\ ps = << >> ->
             IF OpAt(ri, 2, {"Ur"})
             THEN << Line("add", Scratch(0), <<base, addend>>),
                     Line("shl", d, <<Scratch(0), scale>>) >>
             ELSE v_lo(d, base, addend, scale)

(***************************************************************************)
(* ISETP without EX: the chain is the fourth source.                       *)
(***************************************************************************)
FirstMod(ri, mods, default) ==
  LET found == SelectSeq(ri.mods, LAMBDA m : m \in mods)
  IN  IF found = << >> THEN default ELSE found[1]

CmpModes == {"F", "LT", "EQ", "LE", "GT", "NE", "GE", "T"}

isetp(ri) ==
  LET pd    == as_pred(ri.dst[1])
      chain == as_pred(ri.src[4])
      cmp   == FirstMod(ri, CmpModes, "EQ")
      mode  == FirstMod(ri, {"AND", "OR", "XOR"}, "AND")
      setp(d) == Setp(cmp, IF Has(ri, "U32") THEN "u32" ELSE "s32", d,
                      <<as_int(ri.src[2]), as_int(ri.src[3])>>)
  IN  CASE cmp = "F" -> << Line("mov.pred", pd, <<Literal(0)>>) >>
        [] cmp = "T" -> << Line("mov.pred", pd, <<Literal(1)>>) >>
        [] cmp \notin {"F", "T"} /\ mode = "AND" /\ chain = P0 -> << setp(pd) >>
        [] cmp \notin {"F", "T"} /\ ~(mode = "AND" /\ chain = P0) ->
             << setp(ScratchPred(0)),
                Line(CASE mode = "AND" -> "and.pred" [] mode = "OR" -> "or.pred"
                       [] mode = "XOR" -> "xor.pred",
                     pd, <<chain, ScratchPred(0)>>) >>

(***************************************************************************)
(* SEL and VIMNMX: a source flagged negative is negated into a scratch     *)
(* register; SEL leaves zero alone.                                        *)
(***************************************************************************)
NegatedPositions(ri, kept) ==
  SelectSeq(<<1, 2>>, LAMBDA n : Flagged(ri, "neg", n) /\ ~OpAt(ri, n, kept))

Negations(ri, ns) ==
  [k \in DOMAIN ns |-> Line("sub", Scratch(ns[k] - 1), <<Literal(0), as_int(ri.src[ns[k]])>>)]

Negatable(ri, ns, n) ==
  IF \E k \in DOMAIN ns : ns[k] = n THEN Scratch(n - 1) ELSE as_int(ri.src[n])

sel(ri) ==
  LET ns == NegatedPositions(ri, {"Zero"})
  IN  Negations(ri, ns)
      \o << Line("selp", as_gpr(ri.dst[1]),
                 <<Negatable(ri, ns, 1), Negatable(ri, ns, 2), as_pred(ri.src[3])>>) >>

vimnmx(ri) ==
  LET ns == NegatedPositions(ri, {})
  IN  Negations(ri, ns)
      \o << Line(IF OpAt(ri, 3, {"NegPred"}) \/ Flagged(ri, "neg", 3) THEN "max" ELSE "min",
                 as_int(ri.dst[1]), <<Negatable(ri, ns, 1), Negatable(ri, ns, 2)>>) >>

imnmx(ri) ==
  << Line(IF OpAt(ri, 3, {"NegPred"}) THEN "max" ELSE "min", as_int(ri.dst[1]),
          [n \in 1..2 |-> IF OpAt(ri, n, {"Zero", "Gpr", "Ur", "Imm"})
                          THEN as_int(ri.src[n]) ELSE R0]) >>

viadd(ri) == << Line("add", as_int(ri.dst[1]), <<as_int(ri.src[1]), as_int(ri.src[2])>>) >>

iabs(ri) ==
  LET d == as_int(ri.dst[1])
  IN  IF OpAt(ri, 1, {"Imm"})
      THEN LET v == imm(ri.src[1])
           IN  << Line("mov", d, <<Literal(IF v < 0 THEN -v ELSE v)>>) >>
      ELSE << TypedLine("abs", "s32", d, <<as_int(ri.src[1])>>) >>

(* BMSK: the position is the first register, the width the second operand. *)
bmsk(ri) ==
  LET d     == IF ri.dst[1].op = "Gpr" THEN fmt_op(ri.dst[1]) ELSE R0
      gprs  == SelectSeq(ri.src, LAMBDA o : o.op = "Gpr")
      data  == SelectSeq(ri.src, LAMBDA o : o.op \in {"Gpr", "Imm"})
      pos   == IF gprs = << >> THEN Literal(0) ELSE as_int(gprs[1])
      width == IF Len(data) < 2 THEN Literal(0) ELSE as_int(data[2])
  IN  << Line("mov", Scratch(0), <<Literal(1)>>),
         Line("shl", Scratch(1), <<Scratch(0), width>>),
         Line("sub", Scratch(1), <<Scratch(1), Literal(1)>>),
         Line("shl", d, <<Scratch(1), pos>>) >>

(***************************************************************************)
(* LOP3: the table is the last literal; the operands are the first three   *)
(* others that are not zero, register 0 in the place of those missing.     *)
(***************************************************************************)
lop3(ri) ==
  LET imms == SelectSeq(ri.src, LAMBDA o : o.op = "Imm")
      lut  == IF imms = << >> THEN 0 ELSE imm(imms[Len(imms)]) % 256
      data == SelectSeq(ri.src, LAMBDA o :
                IF o.op = "Imm" THEN imm(o) % 256 # lut
                ELSE o.op \notin {"Pred", "NegPred", "Zero"})
      arg(n) == IF n \in DOMAIN data /\ data[n].op \in GprName \cup {"Imm"}
                THEN as_int(data[n]) ELSE R0
      d    == CASE ri.dst[1].op = "Pred" -> Scratch(4)
                [] ri.dst[1].op = "Zero" -> Literal(0)
                [] OTHER -> fmt_op(ri.dst[1])
      pred == IF ri.dst[1].op \in {"Pred", "NegPred"} THEN as_pred(ri.dst[1]) ELSE P0
  IN  IF data = << >> THEN << Line("mov.pred", pred, <<Literal(0)>>) >>
      ELSE << Line("lop3", d, <<arg(1), arg(2), arg(3), Table(lut)>>) >>
           \o (IF ri.dst[1].op = "Pred"
               THEN << Setp("NE", "u32", pred, <<d, Literal(0)>>) >> ELSE << >>)

OfWord(name, ri) == << Line(name, as_int(ri.dst[1]), <<as_int(ri.src[1])>>) >>

popc(ri) == OfWord("popc", ri)
brev(ri) == OfWord("brev", ri)
flo(ri) == OfWord("bfind", ri)

(* SGXT: the bit becomes the sign, and the sign all bits. *)
sgxt(ri) ==
  LET d    == IF ri.dst[1].op = "Gpr" THEN fmt_op(ri.dst[1]) ELSE R0
      ra   == IF OpAt(ri, 1, {"Gpr"}) THEN fmt_op(ri.src[1]) ELSE R0
      fill(x) == TypedLine("shr", "s32", d, <<x, Literal(W - 1)>>)
  IN  CASE OpAt(ri, 2, {"Imm"}) /\ imm(ri.src[2]) \in 0..(W - 1) ->
             << Line("shl", d, <<ra, Literal(W - 1 - imm(ri.src[2]))>>), fill(d) >>
        [] OpAt(ri, 2, {"Gpr", "Ur"}) ->
             << Line("sub", Scratch(0), <<Literal(W - 1), as_int(ri.src[2])>>),
                Line("shl", Scratch(0), <<ra, Scratch(0)>>), fill(Scratch(0)) >>
        [] OTHER -> << Line("mov", d, <<Literal(0)>>) >>

viaddmnmx(ri) ==
  << Line("add", Scratch(0), <<as_int(ri.src[1]), as_int(ri.src[2])>>),
     Line("min", Scratch(1), <<Scratch(0), as_int(ri.src[3])>>),
     Line("max", as_int(ri.dst[1]), <<Scratch(1), Literal(0)>>) >>

(* SHF: the order of the sources depends on the architecture. *)
shf(ri) ==
  LET x == [n \in 1..3 |-> as_int(ri.src[n])]
  IN  << TypedLine(IF Has(ri, "R") THEN "shf.r" ELSE "shf.l",
                   IF Has(ri, "W") THEN "wrap" ELSE "clamp", as_int(ri.dst[1]),
                   IF SmVersion >= 120 THEN <<x[3], x[1], x[2]>> ELSE x) >>

-----------------------------------------------------------------------------
(***************************************************************************)
(* The uniform instructions.                                               *)
(***************************************************************************)
umov(ri) ==
  LET data == SelectSeq(ri.src, LAMBDA o : o.op \notin {"Up", "Pred"})
  IN  << Line("mov", IF ri.dst[1].op = "Ur" THEN fmt_ur(ri.dst[1]) ELSE UR0,
              << IF data = << >> THEN UR0
                 ELSE IF data[1].op = "Gpr" THEN as_int(data[1]) ELSE fmt_ur(data[1]) >>) >>

(* With three operands the rule writes a comment. *)
uiadd3(ri) ==
  LET srcs == SelectSeq(ri.src, LAMBDA o : o.op \in {"Ur", "Imm"})
      at(n) == IF n \in DOMAIN srcs THEN fmt_ur(srcs[n]) ELSE UR0
  IN  IF Len(srcs) <= 2 THEN << Line("add", fmt_ur(ri.dst[1]), <<at(1), at(2)>>) >>
      ELSE << >>

uimad(ri) ==
  << Line("mad.lo", IF ri.dst[1].op = "Ur" THEN fmt_ur(ri.dst[1]) ELSE UR0,
          [n \in 1..3 |-> fmt_ur(ri.src[n])]) >>

ulea(ri) ==
  LET d == fmt_ur(ri.dst[1])  a == fmt_ur(ri.src[1])  b == fmt_ur(ri.src[2])
  IN  IF OpAt(ri, 3, {"Imm"}) /\ imm(ri.src[3]) # 0
      THEN << Line("shl", Scratch(0), <<a, as_int(ri.src[3])>>),
              Line("add", d, <<Scratch(0), b>>) >>
      ELSE << Line("add", d, <<a, b>>) >>

uisetp(ri) ==
  << Setp(FirstMod(ri, {"LT", "GT", "EQ", "NE", "LE", "GE"}, "LT"), "u32",
          IF ri.dst[1].op = "Up" THEN as_pred(ri.dst[1]) ELSE UP0,
          << IF OpAt(ri, 2, {"Ur"}) THEN fmt_ur(ri.src[2]) ELSE UR0,
             IF OpAt(ri, 3, {"Imm"}) THEN fmt_ur(ri.src[3]) ELSE Literal(0) >>) >>

ubmsk(ri) ==
  << Line("bmsk", IF ri.dst[1].op \in {"Gpr", "Ur"} THEN as_gpr(ri.dst[1]) ELSE R0,
          << IF OpAt(ri, 1, {"Gpr", "Ur"}) THEN as_gpr(ri.src[1]) ELSE R0,
             IF OpAt(ri, 2, {"Gpr", "Ur", "Imm"}) THEN as_gpr(ri.src[2]) ELSE Literal(0) >>) >>

(* The first register of ops with the name op. *)
FirstNamed(ops, name, default) ==
  LET found == SelectSeq(ops, LAMBDA o : o.op = name)
  IN  IF found = << >> THEN default ELSE as_int(found[1])

r2ur(ri) == << Line("mov", FirstNamed(ri.dst, "Ur", UR0), <<FirstNamed(ri.src, "Gpr", R0)>>) >>

up2ur(ri) ==
  << Line("selp", IF ri.dst[1].op = "Ur" THEN fmt_ur(ri.dst[1]) ELSE UR0,
          <<Literal(1), Literal(0),
            IF OpAt(ri, 1, {"Up", "Pred"}) THEN Arg("%up", ri.src[1].n) ELSE UP0>>) >>

(* Mutant: the bit is not isolated before it is tested. *)
ur2up_unmasked(ri) ==
  LET up == IF ri.dst[1].op \in {"Up", "Pred"} THEN Arg("%up", ri.dst[1].n) ELSE UP0
      ur == IF OpAt(ri, 1, {"Ur"}) THEN fmt_ur(ri.src[1]) ELSE UR0
      position == IF OpAt(ri, 2, {"Imm", "Ur"}) THEN as_int(ri.src[2]) ELSE Literal(0)
  IN  << Line("shr", Scratch(0), <<ur, position>>),
         Setp("NE", "u32", up, <<Scratch(0), Literal(0)>>) >>

(* Bit 0 is tested without being isolated. *)
ur2up(ri) ==
  LET up == IF ri.dst[1].op \in {"Up", "Pred"} THEN Arg("%up", ri.dst[1].n) ELSE UP0
      ur == IF OpAt(ri, 1, {"Ur"}) THEN fmt_ur(ri.src[1]) ELSE UR0
      position == IF OpAt(ri, 2, {"Imm", "Ur"}) THEN as_int(ri.src[2]) ELSE Literal(0)
  IN  IF position = Literal(0) THEN << Setp("NE", "u32", up, <<ur, Literal(0)>>) >>
      ELSE << Line("shr", Scratch(0), <<ur, position>>),
              Line("and", Scratch(0), <<Scratch(0), Literal(1)>>),
              Setp("NE", "u32", up, <<Scratch(0), Literal(0)>>) >>

-----------------------------------------------------------------------------
(***************************************************************************)
(* Predicates.  The operands of PLOP3 are the first three that are neither *)
(* negated nor PT; the table is the first literal.  What the rule writes   *)
(* for the tables in Unlifted is a comment or no PTX instruction.          *)
(***************************************************************************)
Lut(ri) ==
  LET imms == SelectSeq(ri.src, LAMBDA o : o.op = "Imm")
  IN  IF imms = << >> THEN 0 ELSE imm(imms[1]) % 256

Unlifted == {0, 240, 204, 170, 255, 12}   \* 0x00 0xF0 0xCC 0xAA 0xFF 0x0C

BitOf(n, p) == Line("selp", Scratch(n), <<Literal(1), Literal(0), p>>)

lut_to_ptx(pd, p, lut) ==
  CASE lut \in Unlifted -> << >>
    [] lut = 192 -> << Line("and.pred", pd, <<p[1], p[2]>>) >>
    [] lut = 252 -> << Line("or.pred", pd, <<p[1], p[2]>>) >>
    [] lut = 60  -> << Line("xor.pred", pd, <<p[1], p[2]>>) >>
    [] OTHER ->
         << BitOf(0, p[1]), BitOf(1, p[2]), BitOf(2, p[3]),
            Line("lop3", Scratch(3), <<Scratch(0), Scratch(1), Scratch(2), Table(lut)>>),
            Setp("NE", "u32", pd, <<Scratch(3), Literal(0)>>) >>

plop3(ri) ==
  LET preds == SelectSeq(ri.src, LAMBDA o : o.op \in {"Pred", "Up"})
      pd == IF ri.dst[1].op \in {"Pred", "Up"} THEN as_pred(ri.dst[1]) ELSE P0
  IN  IF Len(preds) < 3 THEN << >>
      ELSE lut_to_ptx(pd, [n \in 1..3 |-> as_pred(preds[n])], Lut(ri))

(* Only the conjunction, and of two predicates. *)
uplop3(ri) ==
  LET ups == SelectSeq(ri.src, LAMBDA o : o.op = "Up")
      at(n) == IF n \in DOMAIN ups THEN as_pred(ups[n]) ELSE UP0
      imms == SelectSeq(ri.src, LAMBDA o : o.op = "Imm")
  IN  IF imms = << >> \/ imm(imms[1]) # 128 THEN << >>
      ELSE << Line("and.pred", IF ri.dst[1].op = "Up" THEN as_pred(ri.dst[1]) ELSE UP0,
                   <<at(1), at(2)>>) >>

(***************************************************************************)
(* translate_one and pred_prefix: the text of the rule with the guard in   *)
(* front of it, which the first line gets.                                 *)
(***************************************************************************)
dispatch_misc(ri) == IF ri.op = "UFLO" THEN << Line("bfind", R0, <<R0>>) >> ELSE << >>

rule(ri) ==
  CASE ri.op = "IADD3"  -> iadd3(ri)   [] ri.op = "IMAD"   -> imad(ri)
    [] ri.op = "LEA"    -> lea(ri)     [] ri.op = "ISETP"  -> isetp(ri)
    [] ri.op \in {"SEL", "USEL"} -> sel(ri)    [] ri.op = "VIMNMX" -> vimnmx(ri)
    [] ri.op = "IMNMX"  -> imnmx(ri)   [] ri.op = "VIADD"  -> viadd(ri)
    [] ri.op = "IABS"   -> iabs(ri)    [] ri.op = "BMSK"   -> bmsk(ri)
    [] ri.op \in {"LOP3", "ULOP3"} -> lop3(ri) [] ri.op \in {"SHF", "USHF"} -> shf(ri)
    [] ri.op = "POPC"   -> popc(ri)    [] ri.op = "BREV"   -> brev(ri)
    [] ri.op = "FLO"    -> flo(ri)     [] ri.op \in {"SGXT", "USGXT"} -> sgxt(ri)
    [] ri.op = "PLOP3"  -> plop3(ri)   [] ri.op = "UPLOP3" -> uplop3(ri)
    [] ri.op = "UBMSK"  -> ubmsk(ri)   [] ri.op = "R2UR"   -> r2ur(ri)
    [] ri.op = "UP2UR"  -> up2ur(ri)   [] ri.op = "UR2UP"  -> ur2up(ri)
    [] ri.op = "VIADDMNMX" -> viaddmnmx(ri)
    [] ri.op \in {"UFLO", "R2P", "P2R", "UCLEA"} -> dispatch_misc(ri)
    [] ri.op = "UMOV"   -> umov(ri)    [] ri.op = "UIADD3" -> uiadd3(ri)
    [] ri.op = "UIMAD"  -> uimad(ri)   [] ri.op = "ULEA"   -> ulea(ri)
    [] ri.op = "UISETP" -> uisetp(ri)

NoGuard == RegisterOperand("PT", 7, "none")

pred_prefix(guard) ==
  CASE guard = NoGuard        -> Always
    [] guard.flag = "neg"     -> Arg("!%p", guard.n)
    [] OTHER                  -> Arg("%p", guard.n)

translate_one(inst, types) ==
  LET lines == rule(to_rule_inst_from(inst, types, {}))
  IN  IF lines = << >> THEN lines
      ELSE [lines EXCEPT ![1].guard = pred_prefix(inst.guard)]
=============================================================================
