------------------------------ MODULE IntLift ------------------------------
(***************************************************************************)
(* A kernel of integer instructions, lifted one by one and executed as the *)
(* PTX lines the rules wrote, on PTX's files of words and predicates:      *)
(* register Rn is %rn, URn is %urn, Pn is %pn and UPn is %upn.             *)
(*                                                                         *)
(* regs and preds are the SASS registers at the last instruction boundary; *)
(* SassMachine says how they may change.  A rule may use scratch registers *)
(* and the carry flag between boundaries, and finds there what earlier     *)
(* instructions left.                                                      *)
(***************************************************************************)
EXTENDS IntRules

LOCAL INSTANCE SequencesExt

CONSTANTS
  RegNo, PredNo, Programs,   \* as in SassMachine
  Contents,                  \* the words registers may hold at first
  Truths                     \* the truth values predicates may hold at first

ASSUME IntLiftAssumption ==
  /\ 0 \in RegNo /\ RegNo \subseteq 0..(ScratchBase - 1)
  /\ 0 \in PredNo /\ PredNo \subseteq 0..(ScratchPredBase - 1)
  /\ Contents \subseteq [{"R", "UR"} \X RegNo -> Word]
  /\ Truths \subseteq [{"P", "UP"} \X PredNo -> BOOLEAN]

VARIABLES
  program,   \* the instructions
  done,      \* how many have been executed
  regs,      \* the words of R and UR after them
  preds,     \* the predicates P and UP after them
  ptx,       \* the lines of the next instruction
  at,        \* the line to be executed
  words,     \* the words of PTX
  truths,    \* the predicates of PTX
  cc,        \* PTX's carry flag
  pc

vars == <<program, done, regs, preds, ptx, at, words, truths, cc, pc>>

WordNo == RegNo \cup (ScratchBase .. (ScratchBase + 5))
TruthNo == PredNo \cup (ScratchPredBase .. (ScratchPredBase + 1))
WordCell == {"%r", "%ur"} \X WordNo
TruthCell == {"%p", "%up"} \X TruthNo

(* The PTX register of a SASS register. *)
PtxClass == [R |-> "%r", UR |-> "%ur", P |-> "%p", UP |-> "%up"]
Ptx(r) == <<PtxClass[r[1]], r[2]>>

(* Every destination of the kernels is an integer. *)
Classes == [n \in RegNo |-> {"Int"}]

-----------------------------------------------------------------------------
(***************************************************************************)
(* What PTX lines do.                                                      *)
(***************************************************************************)
(* Shifts of a funnel by a register: clamped to W, or modulo W. *)
By(type, n) == IF type = "wrap" THEN n % W ELSE IF n > W THEN W ELSE n

Compute(name, type, x) ==
  CASE name = "mov"    -> x[1]
    [] name = "add"    -> Wrap(x[1] + x[2])
    [] name = "add.cc" -> Wrap(x[1] + x[2])
    [] name = "addc"   -> Wrap(x[1] + x[2] + (IF cc THEN 1 ELSE 0))
    [] name = "sub"    -> Wrap(x[1] - x[2])
    [] name = "mul.lo" -> Wrap(x[1] * x[2])
    [] name = "mad.lo" -> Wrap(x[1] * x[2] + x[3])
    [] name = "shl"    -> ShiftLeft(x[1], x[2])
    [] name = "shr"    -> IF type = "s32" THEN ShiftSigned(x[1], x[2]) ELSE ShiftRight(x[1], x[2])
    [] name = "bmsk"   -> Mask(x[1], x[2])
    [] name = "popc"   -> PopCount(x[1])
    [] name = "brev"   -> Mirrored(x[1])
    [] name = "bfind"  -> Leading(x[1])
    [] name = "and"    -> Lop3(x[1], x[2], 0, 192)
    [] name = "min"    -> IF x[1] <= x[2] THEN x[1] ELSE x[2]
    [] name = "max"    -> IF x[1] <= x[2] THEN x[2] ELSE x[1]
    [] name = "abs"    -> IF Signed(x[1]) < 0 THEN Wrap(-x[1]) ELSE x[1]
    [] name = "xor"    -> Lop3(x[1], x[2], 0, 60)
    [] name = "lop3"   -> Lop3(x[1], x[2], x[3], x[4])
    [] name = "selp"   -> IF x[3] THEN x[1] ELSE x[2]
    [] name = "shf.l"  -> FunnelLeft(x[1], x[2], By(type, x[3]))
    [] name = "shf.r"  -> FunnelRight(x[1], x[2], By(type, x[3]))

Decide(line, x) ==
  CASE line.name = "setp"     -> IF line.type = "s32"
                                 THEN Holds(line.cmp, Signed(x[1]), Signed(x[2]))
                                 ELSE Holds(line.cmp, x[1], x[2])
    [] line.name = "mov.pred" -> x[1] = 1
    [] line.name = "and.pred" -> x[1] /\ x[2]
    [] line.name = "or.pred"  -> x[1] \/ x[2]
    [] line.name = "xor.pred" -> x[1] # x[2]

ValueOf(arg) ==
  CASE arg.class \in {"%p", "%up"} -> truths[<<arg.class, arg.n>>]
    [] arg.class = "!%p"    -> ~truths[<<"%p", arg.n>>]
    [] arg.class = "literal" -> Wrap(arg.n)
    [] arg.class = "lut"     -> arg.n
    [] arg.class = "always"  -> TRUE
    [] OTHER                 -> words[<<arg.class, arg.n>>]

-----------------------------------------------------------------------------
Init ==
  /\ program \in Programs
  /\ done = 0
  /\ regs \in Contents
  /\ preds \in Truths
  /\ ptx = << >>
  /\ at = 1
  /\ words = [c \in WordCell |->
                IF c[2] \in RegNo THEN regs[<<IF c[1] = "%r" THEN "R" ELSE "UR", c[2]>>]
                ELSE Wrap(2 * c[2] + 1)]
  /\ truths = [c \in TruthCell |->
                IF c[2] \in PredNo THEN preds[<<IF c[1] = "%p" THEN "P" ELSE "UP", c[2]>>]
                ELSE TRUE]
  /\ cc = TRUE
  /\ pc = "translate"

TranslateInstruction ==
  /\ pc = "translate"
  /\ done < Len(program)
  /\ ptx' = translate_one(program[done + 1], Classes)
  /\ at' = 1
  /\ pc' = "execute"
  /\ UNCHANGED <<program, done, regs, preds, words, truths, cc>>

Execute ==
  /\ pc = "execute"
  /\ at <= Len(ptx)
  /\ LET line == ptx[at]
         x == [n \in DOMAIN line.args |-> ValueOf(line.args[n])]
         cell == <<line.d.class, line.d.n>>
     IN  CASE ~ValueOf(line.guard) -> UNCHANGED <<words, truths, cc>>
           [] ValueOf(line.guard) /\ cell \in TruthCell ->
                /\ truths' = [truths EXCEPT ![cell] = Decide(line, x)]
                /\ UNCHANGED <<words, cc>>
           [] ValueOf(line.guard) /\ cell \in WordCell ->
                /\ words' = [words EXCEPT ![cell] = Compute(line.name, line.type, x)]
                /\ cc' = (IF line.name = "add.cc" THEN Carry(x[1] + x[2]) ELSE cc)
                /\ UNCHANGED truths
  /\ at' = at + 1
  /\ UNCHANGED <<program, done, regs, preds, ptx, pc>>

Retire ==
  /\ pc = "execute"
  /\ at > Len(ptx)
  /\ regs' = [r \in DOMAIN regs |-> words[Ptx(r)]]
  /\ preds' = [p \in DOMAIN preds |-> truths[Ptx(p)]]
  /\ done' = done + 1
  /\ pc' = "translate"
  /\ UNCHANGED <<program, ptx, at, words, truths, cc>>

Finished == pc = "translate" /\ done = Len(program) /\ UNCHANGED vars

Next == TranslateInstruction \/ Execute \/ Retire \/ Finished

Spec == Init /\ [][Next]_vars

-----------------------------------------------------------------------------
(***************************************************************************)
(* The instructions whose result survives the lift: what the text of the   *)
(* operands and the order of the lines keep.                               *)
(***************************************************************************)
Selectors(inst) == SelectSeq(inst.src, LAMBDA op : op.prefix \in {"P", "UP"})
Data(inst) == SelectSeq(inst.src, LAMBDA op : op.prefix \notin {"P", "UP", "PT"})
Terms(inst) == SelectSeq(Data(inst), LAMBDA op : op.kind = "imm" \/ op.prefix = "R")

Among(op, prefixes) == op.kind = "reg" /\ op.prefix \in prefixes
IsWord(op, prefixes) == op.kind = "imm" \/ Among(op, prefixes)
Flags(ops) == {ops[n].flag : n \in DOMAIN ops}
PlainData(inst) == Flags(Data(inst)) \subseteq {"none"}
PlainPT(op) == op.prefix = "PT" /\ op.flag = "none"

(* The destination overwrites operand op. *)
Overwrites(inst, op) == op.prefix = inst.dst[1].prefix /\ op.n = inst.dst[1].n

(* The flag IADD3 finds for its k-th term is the term's. *)
FlagsFit(inst) ==
  LET t == Terms(inst)
      flag(n) == IF n \in DOMAIN inst.src THEN inst.src[n].flag ELSE "none"
  IN  \A k \in DOMAIN t : t[k].kind = "reg" => t[k].flag = flag(k + 2)

Negative(op) == op.flag = "neg"
KeepsTerms(inst, t) == \A k \in DOMAIN t : ~Overwrites(inst, t[k])

(* With carry and overflow; with a carry-in; with a carry; plain. *)
KeepsFull(inst, t) == PlainData(inst) /\ Len(t) >= 2 /\ KeepsTerms(inst, t)

KeepsConsumer(inst, t) ==
  /\ Selectors(inst) # << >> /\ Selectors(inst)[1].flag = "none"
  /\ Len(t) >= 2 => ~Negative(t[1])
  /\ \A k \in 2..Len(t) : t[k].flag = "cINV" \/ ~Overwrites(inst, t[k])

KeepsProducer(inst, t) ==
  \/ Len(t) < 2 /\ PlainData(inst)
  \/ /\ Len(t) = 2
     /\ ~(Negative(t[1]) /\ Negative(t[2]))
     /\ Negative(t[2]) \/ ~Overwrites(inst, t[2])
  \/ Len(t) = 3 /\ PlainData(inst) /\ KeepsTerms(inst, t)

KeepsSum(inst, t) ==
  Len(t) = 2 /\ Negative(t[1]) /\ Negative(t[2]) => ~Overwrites(inst, t[2])

KeepsIadd3(inst) ==
  LET t == Terms(inst)
      s == Selectors(inst)
  IN  /\ FlagsFit(inst)
      /\ \A n \in DOMAIN inst.src : ~Among(inst.src[n], {"UR"})
      /\ "cINV" \in Flags(t) => Has(inst, "X")
      /\ IF Len(s) >= 4 THEN KeepsFull(inst, t)
         ELSE IF Has(inst, "X") THEN KeepsConsumer(inst, t)
         ELSE IF s # << >> THEN KeepsProducer(inst, t)
         ELSE KeepsSum(inst, t)

KeepsImad(inst) ==
  LET d == Data(inst)
  IN  IF Has(inst, "X")
      THEN PlainData(inst) /\ Selectors(inst) # << >> /\ Selectors(inst)[1].flag = "none"
      ELSE /\ Flags(<<d[1], d[2]>>) = {"none"}
           /\ \/ d[3].flag = "none"
              \/ d[3].flag = "neg" /\ d[3] = inst.src[3] /\ ~Overwrites(inst, d[3])

KeepsLea(inst) ==
  LET d == Data(inst)
      s == Selectors(inst)
      scale == d[Len(d)].bits.of \div 4
  IN  /\ PlainData(inst)
      /\ \A n \in DOMAIN d : IsWord(d[n], {"R", "UR"})
      /\ Has(inst, "X") /\ s # << >> => s[1].flag = "none"
      /\ Has(inst, "HI") /\ Has(inst, "X") => scale > 0
      /\ ~Has(inst, "HI") /\ ~Has(inst, "X") =>
           IF s = << >> THEN Among(inst.src[2], {"UR"}) => scale = 0
           ELSE ~Overwrites(inst, d[1])

KeepsIsetp(inst) ==
  LET chain == inst.src[4]
      conjoins == ~Has(inst, "OR") /\ ~Has(inst, "XOR")
  IN  /\ PlainData(inst)
      /\ CASE Has(inst, "F") -> conjoins
           [] Has(inst, "T") -> conjoins /\ PlainPT(chain)
           [] OTHER -> \/ conjoins /\ PlainPT(chain)
                       \/ /\ Among(chain, {"P"})
                          /\ ~(conjoins /\ chain.n = 0 /\ chain.flag = "none")

KeepsLop3(inst) ==
  LET lut == inst.src[4].bits.of \div 4
      table(op) == op.kind = "imm" /\ (op.bits.of \div 4) % 256 = lut
  IN  /\ PlainData(inst)
      /\ \A n \in 1..2 : IsWord(inst.src[n], {"R"}) /\ ~table(inst.src[n])
      /\ \/ IsWord(inst.src[3], {"R"}) /\ ~table(inst.src[3])
         \/ /\ inst.src[3].prefix = "RZ" /\ inst.src[3].kind = "reg"
            /\ \A a, b \in 0..1 : Lookup(lut, a, b, 0) = Lookup(lut, a, b, 1)

(* Of the bit operations on uniform registers only the shift reads and     *)
(* writes them.                                                            *)
KeepsBits(inst) ==
  LET s == inst.src
  IN  /\ PlainData(inst)
      /\ CASE inst.op \in {"POPC", "BREV"} -> TRUE
           [] inst.op = "FLO"   -> Has(inst, "U32")
           [] inst.op \in {"SHF", "USHF"} -> SmVersion >= 120
           [] inst.op = "SGXT"  -> Among(s[1], {"R"}) /\ IsWord(s[2], {"R", "UR"})
           [] inst.op = "R2UR"  -> Among(s[1], {"R"})
           [] inst.op = "UP2UR" -> Among(s[1], {"UP"}) /\ s[1].flag = "none"
           [] inst.op = "UR2UP" -> /\ Among(s[1], {"UR"}) /\ IsWord(s[2], {"UR"})
                                   /\ s[2].kind = "imm" => s[2].bits.of # 0
           [] OTHER             -> FALSE

(* The other bits of lop3 look up the entry of three false predicates.     *)
KeepsTable(inst) ==
  LET s == inst.src
      lut == s[5].bits.of \div 4
      ups == SelectSeq(<<s[2], s[3], s[4]>>, LAMBDA op : op.prefix = "UP")
  IN  IF inst.op = "UPLOP3"
      THEN /\ lut = 128
           /\ Len(ups) = 2 /\ Flags(ups) = {"none"}
           /\ \E n \in 2..4 : PlainPT(s[n])
      ELSE /\ \A n \in 2..4 : Among(s[n], {"P", "UP"}) /\ s[n].flag = "none"
           /\ s[1].prefix = "PT"
           /\ lut \notin Unlifted /\ (lut % 2 = 0)

KeepsUniform(inst) ==
  LET d == Data(inst)
  IN  /\ PlainData(inst)
      /\ CASE inst.op = "UMOV"   -> IsWord(d[1], {"UR"})
           [] inst.op = "UIADD3" -> Len(SelectSeq(d, LAMBDA op : IsWord(op, {"UR"}))) = 2
           [] inst.op = "UIMAD"  -> \A n \in 1..3 : IsWord(d[n], {"UR"})
           [] inst.op = "ULEA"   -> /\ \A n \in 1..2 : IsWord(d[n], {"UR"})
                                    /\ d[3].kind = "imm"
           [] inst.op = "UISETP" -> /\ Has(inst, "U32") /\ ~Has(inst, "F") /\ ~Has(inst, "T")
                                    /\ ~Has(inst, "OR") /\ ~Has(inst, "XOR")
                                    /\ Among(d[1], {"UR"}) /\ d[2].kind = "imm"
                                    /\ PlainPT(inst.src[4])

KeepsData(inst) ==
  LET s == inst.src
      v == s[1].bits.of \div 4
  IN  CASE inst.op = "IADD3" -> KeepsIadd3(inst)
        [] inst.op = "IMAD"  -> KeepsImad(inst)
        [] inst.op = "LEA"   -> KeepsLea(inst)
        [] inst.op = "ISETP" -> KeepsIsetp(inst)
        [] inst.op = "LOP3"  -> KeepsLop3(inst)
        [] inst.op = "SEL"   -> Flags(Data(inst)) \subseteq {"none", "neg"} /\ Among(s[3], {"P"})
        [] inst.op = "VIMNMX" -> Flags(Data(inst)) \subseteq {"none", "neg"} /\ s[3].prefix = "PT"
        [] inst.op = "IMNMX" -> PlainData(inst) /\ PlainPT(s[3])
        [] inst.op = "VIADD" -> PlainData(inst)
        [] inst.op = "IABS"  -> PlainData(inst) /\ (s[1].kind = "imm" => v = Signed(Wrap(v)))
        [] inst.op = "BMSK"  -> PlainData(inst) /\ Among(s[1], {"R"}) /\ IsWord(s[2], {"R"})
        [] inst.op \in {"PLOP3", "UPLOP3"} -> KeepsTable(inst)
        [] inst.op \in {"UMOV", "UIADD3", "UIMAD", "ULEA", "UISETP"} -> KeepsUniform(inst)
        [] OTHER             -> KeepsBits(inst)

(* The guard stands before the first line only. *)
Lossless(inst) ==
  /\ inst.dst[1].prefix \in {"R", "UR", "P", "UP"}
  /\ KeepsData(inst)
  /\ inst.guard = NoGuard \/ Len(translate_one(inst, Classes)) = 1

(* Register 0 stands for a destination that is none, or none the rule      *)
(* knows; two rules write R where they mean UR.                            *)
Spilled(inst) ==
  CASE inst.dst[1].prefix \in {"RZ", "PT"} -> {"R", "UR", "P", "UP"} \X {0}
    [] inst.op = "LOP3"              -> {<<"P", 0>>}
    [] inst.op = "ULOP3"             -> {<<"P", 0>>, <<"R", 0>>}
    [] inst.op \in {"USGXT", "UFLO"} -> {<<"R", 0>>}
    [] inst.op \in {"USEL", "UBMSK"} -> {<<"R", inst.dst[1].n>>}
    [] OTHER                         -> {}

(***************************************************************************)
(* The lifted kernel does what the SASS kernel does: an instruction that   *)
(* is Lossless has exactly its effect, whatever is in the registers and    *)
(* whatever earlier instructions left in the scratch registers and the     *)
(* carry flag, and no other instruction changes a register it does not     *)
(* name (those in Spilled apart).                                          *)
(***************************************************************************)
Sass == INSTANCE SassMachine

ImplementsSass == Sass!Spec

(***************************************************************************)
(* The idiom of 64-bit addition: IADD3 of the lower words with a carry,    *)
(* IADD3.X of the upper words with that carry, into registers that are not *)
(* read.  After both, the pair of destinations holds the sum of the pairs, *)
(* modulo 2^(2 W).  (One predicate holds the carry of two words only.)     *)
(***************************************************************************)
Reads(inst, r) == \E n \in DOMAIN inst.src : inst.src[n].prefix = "R" /\ inst.src[n].n = r

AddsPair(lo, hi) ==
  /\ lo.op = "IADD3" /\ hi.op = "IADD3" /\ Has(hi, "X") /\ ~Has(lo, "X")
  /\ Len(Terms(lo)) <= 2 /\ Selectors(hi) = Selectors(lo) /\ Len(Selectors(lo)) = 1
  /\ Flags(lo.src) \cup Flags(Data(hi)) = {"none"}
  /\ lo.guard = NoGuard /\ hi.guard = NoGuard
  /\ lo.dst # hi.dst
  /\ \A inst \in {lo, hi} : ~Reads(inst, lo.dst[1].n) /\ ~Reads(inst, hi.dst[1].n)

SumOfWords(terms) ==
  FoldLeft(LAMBDA sum, op : sum + (IF op.kind = "imm" THEN Wrap(imm(op))
                                   ELSE regs[<<"R", op.n>>]), 0, terms)

PairAddsWide ==
  (done = 2 /\ AddsPair(program[1], program[2])) =>
    LET lo == program[1]
        hi == program[2]
    IN  regs[<<"R", hi.dst[1].n>>] * 2^W + regs[<<"R", lo.dst[1].n>>]
          = (SumOfWords(Terms(lo)) + 2^W * SumOfWords(Terms(hi))) % 2^(2 * W)
=============================================================================
