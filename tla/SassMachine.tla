---------------------------- MODULE SassMachine ----------------------------
(***************************************************************************)
(* What SASS promises of its integer instructions, from the semantic       *)
(* blocks at the head of the rule files: a machine with a file of words    *)
(* and one of predicates, of which an instruction changes its destinations *)
(* only, and those only if its guard holds.                                *)
(*                                                                         *)
(* An instruction that is not Lossless may leave anything in its           *)
(* destinations and in what it is known to spill over; what the others     *)
(* leave is determined.                                                    *)
(***************************************************************************)
EXTENDS Bridge, Words

LOCAL INSTANCE SequencesExt

CONSTANTS
  RegNo,        \* the numbers of the registers R and UR
  PredNo,       \* the numbers of the predicates P and UP
  Programs,     \* the sequences of instructions considered
  Lossless(_),  \* whether the result of an instruction is kept
  Spilled(_)    \* what it may overwrite besides its destinations, if not

VARIABLES
  program,      \* the instructions
  done,         \* how many of them have been executed
  regs,         \* the words in the registers
  preds         \* the truth values in the predicates

machine == <<program, done, regs, preds>>

Reg == {"R", "UR"} \X RegNo
Pred == {"P", "UP"} \X PredNo

-----------------------------------------------------------------------------
(***************************************************************************)
(* Operands.                                                               *)
(***************************************************************************)
Named(op) == <<op.prefix, op.n>>

IsPredicate(op) == op.prefix \in {"P", "UP"}
IsSelector(op) == op.prefix \in {"P", "UP", "PT"}

Truth(op) ==
  (IF IsPredicate(op) THEN preds[Named(op)] ELSE TRUE) # (op.flag = "neg")

(* The number an operand adds; carry decides what `~' does to it. *)
Term(op, carry) ==
  LET x == CASE op.kind = "imm"     -> Wrap(op.bits.of \div 4)
             [] op.prefix \in {"R", "UR"} -> regs[Named(op)]
             [] OTHER               -> 0
  IN  IF op.flag = "neg" \/ (op.flag = "cINV" /\ carry) THEN -x ELSE x

Value(op) == Wrap(Term(op, FALSE))

Total(terms, carry) ==
  FoldLeft(LAMBDA sum, op : sum + Term(op, carry), 0, terms)

Bool2Nat(b) == IF b THEN 1 ELSE 0

-----------------------------------------------------------------------------
(***************************************************************************)
(* The instructions.  A carry-in is the first predicate among the sources  *)
(* of an instruction with the modifier X; without it, that predicate is    *)
(* where the carry goes.  With four predicates the last two are carry and  *)
(* signed overflow.                                                        *)
(***************************************************************************)
Has(inst, mod) == \E n \in DOMAIN inst.mods : inst.mods[n] = mod

Selectors(inst) == SelectSeq(inst.src, IsPredicate)
DataOperands(inst) == SelectSeq(inst.src, LAMBDA op : ~IsSelector(op))

IsFull(inst) == inst.op = "IADD3" /\ Len(Selectors(inst)) >= 4
ConsumesCarry(inst) == Has(inst, "X") /\ Selectors(inst) # <<>> /\ ~IsFull(inst)
ProducesCarry(inst) ==
  /\ inst.op \in {"IADD3", "LEA"}
  /\ Selectors(inst) # <<>> /\ ~Has(inst, "X") /\ ~Has(inst, "HI") /\ ~IsFull(inst)

CarryIn(inst) == ConsumesCarry(inst) /\ Truth(Selectors(inst)[1])

(* The base of LEA.HI is a pair; the shifted addend of the others a word. *)
LeaTotal(inst) ==
  LET d == DataOperands(inst)
      shifted == Value(d[2]) * 2^Value(d[Len(d)])
  IN  (IF Has(inst, "HI") THEN Value(d[3]) * 2^W + shifted ELSE Wrap(shifted))
        + Value(d[1]) + Bool2Nat(CarryIn(inst))

Shifted(inst) ==
  LET x == [n \in 1..3 |-> Value(inst.src[n])]   \* hi, shift, lo
      by == IF Has(inst, "W") THEN x[2] % W ELSE IF x[2] > W THEN W ELSE x[2]
  IN  IF Has(inst, "R") THEN FunnelRight(x[3], x[1], by) ELSE FunnelLeft(x[3], x[1], by)

Least(x, y) == IF x <= y THEN x ELSE y
Greatest(x, y) == IF x <= y THEN y ELSE x

Result(inst) ==
  LET x == [n \in DOMAIN inst.src |-> Value(inst.src[n])]
      s == inst.src
      d == DataOperands(inst)
  IN  CASE inst.op \in {"IADD3", "UIADD3"} ->
             Wrap(Total(d, CarryIn(inst)) + Bool2Nat(CarryIn(inst)))
        [] inst.op \in {"IMAD", "UIMAD"} ->
             Wrap(Value(d[1]) * Value(d[2]) + Total(<<d[3]>>, CarryIn(inst))
                    + Bool2Nat(CarryIn(inst)))
        [] inst.op = "LEA"   -> IF Has(inst, "HI") THEN Wrap(LeaTotal(inst) \div 2^W)
                                ELSE Wrap(LeaTotal(inst))
        [] inst.op = "ULEA"  -> Wrap(x[1] * 2^x[3] + x[2])
        [] inst.op = "VIADD" -> Wrap(x[1] + x[2])
        [] inst.op = "SEL"   -> IF Truth(s[3]) THEN x[1] ELSE x[2]
        [] inst.op \in {"IMNMX", "VIMNMX"} ->
             IF Truth(s[3]) THEN Least(x[1], x[2]) ELSE Greatest(x[1], x[2])
        [] inst.op = "IABS"  -> IF Signed(x[1]) < 0 THEN Wrap(-x[1]) ELSE x[1]
        [] inst.op = "BMSK"  -> Mask(x[1], x[2])
        [] inst.op = "LOP3"  -> Lop3(x[1], x[2], x[3], s[4].bits.of \div 4)
        [] inst.op \in {"SHF", "USHF"}  -> Shifted(inst)
        [] inst.op \in {"UMOV", "R2UR"} -> x[1]
        [] inst.op = "UP2UR" -> Bool2Nat(Truth(s[1]))
        [] inst.op = "POPC"  -> PopCount(x[1])
        [] inst.op = "BREV"  -> Mirrored(x[1])
        [] inst.op = "FLO"   -> Leading(x[1])
        [] inst.op = "SGXT"  -> IF Bit(x[1], x[2]) = 1 THEN 2^W - 1 ELSE 0

(* The comparison of ISETP, and the chain its result is combined with. *)
CompareModes == {"F", "LT", "EQ", "LE", "GT", "NE", "GE", "T"}

Compare(inst) ==
  LET cmp == CHOOSE m \in CompareModes : Has(inst, m)
      x == Value(inst.src[2])
      y == Value(inst.src[3])
  IN  CASE cmp = "F" -> FALSE
        [] cmp = "T" -> TRUE
        [] Has(inst, "U32") -> Holds(cmp, x, y)
        [] OTHER -> Holds(cmp, Signed(x), Signed(y))

Chained(inst) ==
  LET chain == Truth(inst.src[4])
  IN  CASE Has(inst, "OR")  -> chain \/ Compare(inst)
        [] Has(inst, "XOR") -> chain # Compare(inst)
        [] OTHER            -> chain /\ Compare(inst)

(* PLOP3 looks its three predicates up in a table; UR2UP tests a bit. *)
Decided(inst) ==
  LET s == inst.src
      truth(n) == Bool2Nat(Truth(s[n]))
  IN  CASE inst.op \in {"PLOP3", "UPLOP3"} ->
             Lookup(s[5].bits.of \div 4, truth(2), truth(3), truth(4)) = 1
        [] inst.op = "UR2UP" -> Bit(Value(s[1]), Value(s[2])) = 1
        [] OTHER             -> Chained(inst)

SignedTotal(terms) == FoldLeft(LAMBDA sum, op : sum + Signed(Value(op)), 0, terms)

Overflow(inst) ==
  SignedTotal(DataOperands(inst)) \notin (-2^(W - 1)) .. (2^(W - 1) - 1)

SumOf(inst) ==
  IF inst.op = "LEA" THEN LeaTotal(inst) ELSE Total(DataOperands(inst), FALSE)

-----------------------------------------------------------------------------
(***************************************************************************)
(* Destinations and what is written to them.                               *)
(***************************************************************************)
RegDst(inst) == {Named(inst.dst[n]) : n \in DOMAIN inst.dst} \cap Reg

CarryDst(inst) ==
  LET s == Selectors(inst)
  IN  CASE ProducesCarry(inst) -> {Named(s[1])}
        [] IsFull(inst)        -> {Named(s[Len(s) - 1])}
        [] OTHER               -> {}
OverflowDst(inst) ==
  LET s == Selectors(inst) IN IF IsFull(inst) THEN {Named(s[Len(s)])} ELSE {}
CompareDst(inst) == {Named(inst.dst[n]) : n \in DOMAIN inst.dst} \cap Pred

PredDst(inst) == CarryDst(inst) \cup OverflowDst(inst) \cup CompareDst(inst)

Executed(inst) ==
  /\ regs' = [r \in Reg |-> IF r \in RegDst(inst) THEN Result(inst) ELSE regs[r]]
  /\ preds' = [p \in Pred |->
                 CASE p \in OverflowDst(inst) -> Overflow(inst)
                   [] p \in CarryDst(inst)    -> Carry(SumOf(inst))
                   [] p \in CompareDst(inst)  -> Decided(inst)
                   [] OTHER                   -> preds[p]]

Scrambled(inst) ==
  /\ regs' \in [Reg -> Word] /\ preds' \in [Pred -> BOOLEAN]
  /\ \A r \in Reg \ (RegDst(inst) \cup Spilled(inst)) : regs'[r] = regs[r]
  /\ \A p \in Pred \ (PredDst(inst) \cup Spilled(inst)) : preds'[p] = preds[p]

Init ==
  /\ program \in Programs
  /\ done = 0
  /\ regs \in [Reg -> Word]
  /\ preds \in [Pred -> BOOLEAN]

Step ==
  /\ done < Len(program)
  /\ done' = done + 1
  /\ LET inst == program[done + 1]
     IN  CASE ~Lossless(inst)    -> Scrambled(inst)
           [] Truth(inst.guard)  -> Executed(inst)
           [] OTHER              -> UNCHANGED <<regs, preds>>
  /\ UNCHANGED program

Next == Step

Spec == Init /\ [][Next]_machine
=============================================================================
