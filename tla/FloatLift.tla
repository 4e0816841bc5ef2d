----------------------------- MODULE FloatLift -----------------------------
(***************************************************************************)
(* One floating-point instruction (or MOV) on its way from SASS to PTX:    *)
(* the bridge makes a RuleInst of it, its rule writes PTX lines, and the   *)
(* lines are executed on the PTX registers.  The question is the one of    *)
(* the charter (PLAN.md): does the PTX compute what the SASS instruction   *)
(* computes?                                                               *)
(*                                                                         *)
(* A SASS register n is %rn to single-precision lines, %fdn (for the pair) *)
(* to double-precision ones; UR n is %urn.  Rounding, FTZ and the rounding *)
(* modes are left out: the numbers used are exact.  Predicate n is %pn.    *)
(***************************************************************************)
EXTENDS Bridge

CONSTANTS
  RegNo,         \* the register numbers the instruction may name, and 0
  PredNo,        \* the numbers of the predicates it may name, and 0
  ScratchBase,   \* ctx.regs.scratch_gpr_base
  ScratchPredBase,
  Instructions,  \* the instructions considered, before the bridge
  Assignments,   \* the classes of the general registers, from type_infer
  PsiSets,       \* the psi registers, from type_infer
  Contents,      \* the numbers the SASS registers hold, NaN among them
  Truths         \* the truth values its predicates hold

(* No number: what comes of reading a pattern in another form, too. *)
NaN == 1000000

Class == {"Int", "I64", "F32", "F64", "Pred"}

Instruction ==
  [op: STRING, mods: Seq(STRING), dst: Seq(SassOperand), src: Seq(SassOperand)]

ASSUME LiftAssumption ==
  /\ ScratchBase \in Nat /\ RegNo \subseteq 0..(ScratchBase - 1) /\ 0 \in RegNo
  /\ Instructions \subseteq Instruction
  /\ Assignments \subseteq [RegNo -> SUBSET Class]
  /\ PsiSets \subseteq SUBSET RegNo
  /\ PredNo \subseteq Nat /\ 0 \in PredNo /\ ScratchPredBase \in Nat \ PredNo
  /\ Contents \subseteq [{"R", "UR"} \X RegNo -> Numbers \cup {NaN}]
  /\ Truths \subseteq [PredNo -> BOOLEAN]

(***************************************************************************)
(* The forms of the fourteen instructions, as the heads of the rule files  *)
(* list them: one destination, and sources that are data but for those     *)
(* that select (Selecting) or chain.  A comparison is named once.          *)
(***************************************************************************)
CmpModes == {"F", "LT", "EQ", "LE", "GT", "NE", "GE", "T"}
DoubleModes == {"LT", "GT", "EQ", "NE", "LE", "GE", "NAN", "NUM"}
Comparison == CmpModes \cup DoubleModes

SetsPredicate == {"FSETP", "DSETP"}

Unary == {"FABS", "FNEG", "MOV"}
Binary == {"FADD", "FMUL", "DADD", "DMUL"}
Ternary == {"FFMA", "DFMA", "FMNMX", "FSET", "FSEL"}
Opcodes == Unary \cup Binary \cup Ternary \cup SetsPredicate

Arity(op) ==
  IF op \in Unary THEN 1 ELSE IF op \in Binary THEN 2 ELSE IF op \in Ternary THEN 3 ELSE 4

Selecting(op) ==
  IF op \in SetsPredicate THEN {1, 4} ELSE IF op \in {"FMNMX", "FSET", "FSEL"} THEN {3} ELSE {}

DataOperand(o) ==
  \/ o = Immediate(o.bits) \/ o = FloatImmediate(o.bits.of)
  \/ o.kind = "reg" /\ (o.prefix = "RZ" \/ (o.prefix \in {"R", "UR"} /\ o.n \in RegNo))
SelectorOperand(o) ==
  o.kind = "reg" /\ (o.prefix = "PT" \/ (o.prefix = "P" /\ o.n \in PredNo))
DestinationOperand(o, prefix) ==
  /\ o.kind = "reg" /\ o.prefix = prefix /\ o.flag = "none"
  /\ o.n \in RegNo /\ (prefix = "P" => o.n \in PredNo)

SassForm(i) ==
  /\ i.op \in Opcodes /\ Len(i.dst) = 1 /\ Len(i.src) = Arity(i.op)
  /\ DestinationOperand(i.dst[1], IF i.op \in SetsPredicate THEN "P" ELSE "R")
  /\ \A n \in DOMAIN i.src :
       IF n \in Selecting(i.op) THEN SelectorOperand(i.src[n]) ELSE DataOperand(i.src[n])
  /\ \A n, m \in DOMAIN i.mods : {i.mods[n], i.mods[m]} \subseteq Comparison => n = m

ASSUME FormAssumption == \A i \in Instructions : SassForm(i)

-----------------------------------------------------------------------------
(***************************************************************************)
(* Arguments of a PTX line, and how the helpers render an Op as one.       *)
(***************************************************************************)
Arg(class, n) == [class |-> class, n |-> n, bits |-> Nothing]
Literal(v) == [class |-> "literal", n |-> 0, bits |-> v]
R0 == Arg("%r", 0)
P0 == Arg("%p", 0)

(* imm_f32: small integers are numbers, the others are patterns. *)
imm_f32(v) ==
  IF v.form = "int" /\ v.of >= -(4 * 128) /\ v.of <= 4 * 255
  THEN Pattern("f32", v.of) ELSE v

as_f32(o) ==
  CASE o.op \in {"Gpr", "NegGpr", "CinvGpr", "CabsGpr"} -> Arg("%r", o.n)
    [] o.op = "GprF64" -> Arg("%fd", o.n)
    [] o.op = "GprI64" -> Arg("%rd", o.n)
    [] o.op = "Ur"     -> Arg("%ur", o.n)
    [] o.op = "Up"     -> Arg("%up", o.n)
    [] o.op = "Imm"    -> Literal(imm_f32(o.bits))
    [] o.op = "ImmF32" -> Literal(o.bits)
    [] o.op = "Zero"   -> Literal(Nothing)
    [] OTHER           -> R0

as_f64(o) ==
  CASE o.op \in {"Gpr", "NegGpr"}   -> Arg("%r", o.n)
    [] o.op = "GprF64" -> Arg("%fd", o.n)
    [] o.op = "GprI64" -> Arg("%rd", o.n)
    [] o.op = "Ur"     -> Arg("%ur", o.n)
    [] o.op = "Up"     -> Arg("%up", o.n)
    [] o.op \in {"Imm", "ImmF64"}   -> Literal(o.bits)
    [] o.op = "Zero"   -> Literal(Nothing)
    [] OTHER           -> R0

as_gpr(o) ==
  CASE o.op \in {"Gpr", "NegGpr", "Ur", "Up", "CinvGpr", "CabsGpr"} -> Arg("%r", o.n)
    [] o.op = "GprF64" -> Arg("%fd", o.n)
    [] o.op \in {"Imm", "ImmF32", "ImmF64"} -> Literal(o.bits)
    [] o.op = "Zero"   -> Literal(Nothing)
    [] OTHER           -> R0

as_pred(o) ==
  CASE o.op = "Pred"    -> Arg("%p", o.n)
    [] o.op = "NegPred" -> Arg("!%p", o.n)
    [] o.op = "Up"      -> Arg("%up", o.n)
    [] OTHER            -> P0

(* A line `name.type d, args;'; a setp has the name of its comparison. *)
Line(name, type, d, args) == [name |-> name, type |-> type, d |-> d, args |-> args]

Scratch(n) == Arg("%r", ScratchBase + n)
ScratchPred == Arg("%p", ScratchPredBase)

-----------------------------------------------------------------------------
(***************************************************************************)
(* The rules.  Each takes a RuleInst and returns its lines.                *)
(***************************************************************************)
Is(ri, n, name) == n \in DOMAIN ri.src /\ ri.src[n].op = name

fadd(ri) ==
  LET d == as_f32(ri.dst[1])  a == as_f32(ri.src[1])  b == as_f32(ri.src[2])
  IN  CASE Is(ri, 2, "CabsGpr") ->
             << Line("abs", "f32", Scratch(0), <<Arg("%r", ri.src[2].n)>>),
                Line("add", "f32", d, <<a, Scratch(0)>>) >>
        [] Is(ri, 2, "NegGpr")  -> << Line("sub", "f32", d, <<a, b>>) >>
        [] Is(ri, 2, "CinvGpr") -> << >>
        [] OTHER                -> << Line("add", "f32", d, <<a, b>>) >>

fmul(ri) ==
  LET d == as_f32(ri.dst[1])  a == as_f32(ri.src[1])  b == as_f32(ri.src[2])
  IN  CASE Is(ri, 2, "NegGpr") ->   \* the register's number as a literal
             << Line("mul", "f32", Scratch(0),
                     <<a, Literal(Pattern("int", 4 * ri.src[2].n))>>),
                Line("neg", "f32", d, <<Scratch(0)>>) >>
        [] Is(ri, 2, "CabsGpr") -> << >>
        [] OTHER                -> << Line("mul", "f32", d, <<a, b>>) >>

(***************************************************************************)
(* FFMA: the first source that is negated, then an absolute addend, each   *)
(* by its variant or by its flag; the register 0 stands for an operand     *)
(* that is none.                                                           *)
(***************************************************************************)
NegatedSources(ri) ==
  {n \in 1..3 : Is(ri, n, "NegGpr") \/ <<"neg", "src", n>> \in ri.flags}

FlaggedRegister(ri, n, variant) ==
  Arg("%r", IF ri.src[n].op \in {"Gpr", "GprF64", variant} THEN ri.src[n].n ELSE 0)

(* Mutant: the addend's absolute value is not taken. *)
ffma_drops_abs(ri) ==
  LET d == as_f32(ri.dst[1])  a == as_f32(ri.src[1])  b == as_f32(ri.src[2])
      fma(c) == Line("fma", "f32", d, <<a, b, c>>)
  IN  IF NegatedSources(ri) # {}
      THEN << Line("neg", "f32", Scratch(0),
                   <<FlaggedRegister(ri, CHOOSE n \in NegatedSources(ri) :
                        \A m \in NegatedSources(ri) : n <= m, "NegGpr")>>),
              fma(Scratch(0)) >>
      ELSE << fma(as_f32(ri.src[3])) >>

ffma(ri) ==
  LET d == as_f32(ri.dst[1])  a == as_f32(ri.src[1])  b == as_f32(ri.src[2])
      fma(c) == Line("fma", "f32", d, <<a, b, c>>)
  IN  IF NegatedSources(ri) # {}
      THEN << Line("neg", "f32", Scratch(0),
                   <<FlaggedRegister(ri, CHOOSE n \in NegatedSources(ri) :
                        \A m \in NegatedSources(ri) : n <= m, "NegGpr")>>),
              fma(Scratch(0)) >>
      ELSE IF Is(ri, 3, "CabsGpr") \/ <<"cABS", "src", 3>> \in ri.flags
      THEN << Line("abs", "f32", Scratch(0), <<FlaggedRegister(ri, 3, "CabsGpr")>>),
              fma(Scratch(0)) >>
      ELSE << fma(as_f32(ri.src[3])) >>

dadd(ri) ==
  LET d == as_f64(ri.dst[1])  a == as_f64(ri.src[1])  b == as_f64(ri.src[2])
  IN  CASE Is(ri, 2, "NegGpr")  -> << Line("sub", "f64", d, <<a, b>>) >>
        [] Is(ri, 2, "CabsGpr") ->
             << Line("abs", "f64", Scratch(0), <<Arg("%r", ri.src[2].n)>>),
                Line("add", "f64", d, <<a, Scratch(0)>>) >>
        [] OTHER                -> << Line("add", "f64", d, <<a, b>>) >>

dmul(ri) ==
  << Line("mul", "f64", as_f64(ri.dst[1]), <<as_f64(ri.src[1]), as_f64(ri.src[2])>>) >>

dfma(ri) ==
  LET d == as_f64(ri.dst[1])  a == as_f64(ri.src[1])  b == as_f64(ri.src[2])
      via(name) == << Line(name, "f64", Scratch(0), <<Arg("%r", ri.src[3].n)>>),
                      Line("fma", "f64", d, <<a, b, Scratch(0)>>) >>
  IN  CASE Is(ri, 3, "NegGpr")  -> via("neg")
        [] Is(ri, 3, "CabsGpr") -> via("abs")
        [] OTHER -> << Line("fma", "f64", d, <<a, b, as_f64(ri.src[3])>>) >>

fmnmx(ri) ==
  << Line(IF Is(ri, 3, "NegPred") \/ <<"neg", "src", 3>> \in ri.flags
          THEN "max" ELSE "min", "f32",
          as_f32(ri.dst[1]), <<as_f32(ri.src[1]), as_f32(ri.src[2])>>) >>

(* MOV without `ldc64', which only lowering adds. *)
mov(ri) ==
  LET d == IF ri.dst[1].op = "Ur" THEN Arg("%ur", ri.dst[1].n) ELSE as_gpr(ri.dst[1])
  IN  IF Is(ri, 1, "NegGpr")
      THEN << Line("neg", "b32", Scratch(0), <<Arg("%r", ri.src[1].n)>>),
              Line("mov", "b32", d, <<Scratch(0)>>) >>
      ELSE << Line("mov", "b32", d, <<as_gpr(ri.src[1])>>) >>

(***************************************************************************)
(* FSETP (without EX) takes its first source for the chain, DSETP has no   *)
(* chain; a comparison neither names becomes EQ in the one, LT in the      *)
(* other.  A flag of a compared operand was a variant, and is lost.        *)
(***************************************************************************)
FirstMod(i, mods, default) ==
  LET found == {n \in DOMAIN i.mods : i.mods[n] \in mods}
  IN  IF found = {} THEN default ELSE i.mods[CHOOSE n \in found : \A m \in found : n <= m]

MovPred(d, b) == Line("mov", "pred", d, <<Literal(b)>>)

(* Mutant: the compared operands are taken in the other order. *)
fsetp_swapped(ri) ==
  LET cmp == FirstMod(ri, CmpModes, "EQ")
      pd  == as_pred(ri.dst[1])
  IN  IF cmp \in {"F", "T"} THEN << MovPred(pd, cmp = "T") >>
      ELSE << Line(cmp, "f32", pd, <<as_f32(ri.src[3]), as_f32(ri.src[2])>>) >>

fsetp(ri) ==
  LET pd   == as_pred(ri.dst[1])
      chain == as_pred(ri.src[1])
      cmp  == FirstMod(ri, CmpModes, "EQ")
      mode == FirstMod(ri, {"AND", "OR", "XOR"}, "AND")
      setp(d) == Line(cmp, "f32", d, <<as_f32(ri.src[2]), as_f32(ri.src[3])>>)
  IN  CASE cmp = "F" -> << MovPred(pd, FALSE) >>
        [] cmp = "T" -> << MovPred(pd, TRUE) >>
        [] OTHER     ->
             IF mode = "AND" /\ chain = P0 /\ chain # pd THEN << setp(pd) >>
             ELSE << setp(ScratchPred), Line(mode, "pred", pd, <<chain, ScratchPred>>) >>

dsetp(ri) ==
  LET at(n) == IF ri.src[n].op = "Imm" THEN R0 ELSE as_f64(ri.src[n])
  IN  << Line(FirstMod(ri, DoubleModes, "LT"), "f64",
              IF ri.dst[1].op = "Pred" THEN as_pred(ri.dst[1]) ELSE P0, <<at(2), at(3)>>) >>

fset(ri) ==
  LET cmp == FirstMod(ri, CmpModes, "EQ")
      d   == as_f32(ri.dst[1])
      One == Literal(Pattern("int", 4))
  IN  CASE cmp = "F" -> << Line("mov", "b32", d, <<Literal(Nothing)>>) >>
        [] cmp = "T" -> << Line("mov", "b32", d, <<One>>) >>
        [] OTHER     -> << Line(cmp, "f32", ScratchPred, <<as_f32(ri.src[1]), as_f32(ri.src[2])>>),
                           Line("selp", "b32", d, <<One, Literal(Nothing), ScratchPred>>) >>

(* FSEL negates the pattern as an integer, and drops a negation of P. *)
fsel(ri) ==
  LET negated(n) == <<"neg", "src", n>> \in ri.flags /\ ~Is(ri, n, "Zero")
      negation(n) == IF ~negated(n) THEN << >>
                     ELSE << Line("sub", "int", Scratch(n - 1), <<Literal(Nothing), as_f32(ri.src[n])>>) >>
      at(n) == IF negated(n) THEN Scratch(n - 1) ELSE as_f32(ri.src[n])
      p == IF Is(ri, 3, "Pred") \/ Is(ri, 3, "NegPred") THEN Arg("%p", ri.src[3].n) ELSE P0
  IN  negation(1) \o negation(2)
      \o << Line("selp", "f32", as_gpr(ri.dst[1]), <<at(1), at(2), p>>) >>

fabs(ri) == << Line("abs", "f32", as_f32(ri.dst[1]), <<as_f32(ri.src[1])>>) >>
fneg(ri) == << Line("neg", "f32", as_f32(ri.dst[1]), <<as_f32(ri.src[1])>>) >>

translate(ri) ==
  CASE ri.op = "FADD"  -> fadd(ri)   [] ri.op = "FMUL" -> fmul(ri)
    [] ri.op = "FFMA"  -> ffma(ri)   [] ri.op = "DADD" -> dadd(ri)
    [] ri.op = "DMUL"  -> dmul(ri)   [] ri.op = "DFMA" -> dfma(ri)
    [] ri.op = "FMNMX" -> fmnmx(ri)  [] ri.op = "MOV"  -> mov(ri)
    [] ri.op = "FSETP" -> fsetp(ri)  [] ri.op = "DSETP" -> dsetp(ri)
    [] ri.op = "FSET"  -> fset(ri)   [] ri.op = "FSEL" -> fsel(ri)
    [] ri.op = "FABS"  -> fabs(ri)   [] ri.op = "FNEG" -> fneg(ri)

-----------------------------------------------------------------------------
(***************************************************************************)
(* What a PTX line does.  A register holds a bit pattern; read in another  *)
(* form than it was written in, it is no number the kernel computed.       *)
(***************************************************************************)

Number(type, bits) ==
  IF bits = Nothing THEN 0 ELSE IF bits.form = type THEN bits.of ELSE NaN

Negated(x) == IF x = NaN THEN NaN ELSE -x
Absolute(x) == IF x < 0 THEN -x ELSE x
Sum(x, y) == IF NaN \in {x, y} THEN NaN ELSE x + y
Product(x, y) ==
  IF NaN \in {x, y} THEN NaN
  ELSE IF x * y >= 0 THEN (x * y) \div 4 ELSE -((-(x * y)) \div 4)
Least(x, y) == IF NaN \in {x, y} THEN NaN ELSE IF x <= y THEN x ELSE y
Greatest(x, y) == IF NaN \in {x, y} THEN NaN ELSE IF x >= y THEN x ELSE y

Compute(name, x) ==
  CASE name = "add" -> Sum(x[1], x[2])
    [] name = "sub" -> Sum(x[1], Negated(x[2]))
    [] name = "mul" -> Product(x[1], x[2])
    [] name = "fma" -> Sum(Product(x[1], x[2]), x[3])
    [] name = "min" -> Least(x[1], x[2])
    [] name = "max" -> Greatest(x[1], x[2])
    [] name = "neg" -> Negated(x[1])
    [] name = "abs" -> Absolute(x[1])

(* Comparisons: those with NaN fail, but for the one that asks for it. *)
Holds(cmp, x, y) ==
  IF cmp \in {"NAN", "NUM"} THEN (cmp = "NAN") = (NaN \in {x, y})
  ELSE /\ NaN \notin {x, y}
       /\ CASE cmp = "LT" -> x < y [] cmp = "LE" -> x <= y
            [] cmp = "GT" -> x > y [] cmp = "GE" -> x >= y
            [] cmp = "EQ" -> x = y [] cmp = "NE" -> x # y

Combined(mode, p, q) ==
  CASE mode = "AND" -> p /\ q [] mode = "OR" -> p \/ q [] mode = "XOR" -> p # q

Encode(type, x) == IF x = NaN THEN Garbage ELSE Pattern(type, x)

-----------------------------------------------------------------------------
VARIABLES
  inst,      \* the SASS instruction
  types,     \* ctx.type_constraints
  psi,       \* ctx.type_psi
  contents,  \* the numbers in the SASS registers
  truths,    \* the truth values in the SASS predicates
  rule,      \* the RuleInst
  ptx,       \* the lines of the rule
  cells,     \* the PTX registers
  at,        \* the line to be executed
  pc

vars == <<inst, types, psi, contents, truths, rule, ptx, cells, at, pc>>
input == <<inst, types, psi, contents, truths>>

IsDouble == inst.op \in f64_opcode

ScratchCell ==
  ({"%r"} \X {ScratchBase, ScratchBase + 1}) \cup {<<"%p", ScratchPredBase>>}

Cell == ({"%r", "%fd", "%ur"} \X RegNo) \cup ({"%p"} \X PredNo) \cup ScratchCell

Initially(c) ==
  IF c[1] = "%p" THEN c \notin ScratchCell /\ truths[c[2]]
  ELSE IF c \in ScratchCell THEN Garbage
  ELSE CASE c[1] = "%r"  -> Pattern("f32", contents[<<"R", c[2]>>])
         [] c[1] = "%fd" -> Pattern("f64", contents[<<"R", c[2]>>])
         [] c[1] = "%ur" -> Pattern("f32", contents[<<"UR", c[2]>>])

Init ==
  /\ inst \in Instructions
  /\ types \in Assignments
  /\ psi \in PsiSets
  /\ contents \in Contents
  /\ truths \in Truths
  /\ rule = [op |-> inst.op, mods |-> <<>>, flags |-> {}, dst |-> <<>>, src |-> <<>>]
  /\ ptx = <<>>
  /\ cells = [c \in Cell |-> Initially(c)]
  /\ at = 1
  /\ pc = "bridge"

ToRuleInst ==
  /\ pc = "bridge"
  /\ rule' = to_rule_inst_from(inst, types, psi)
  /\ pc' = "rule"
  /\ UNCHANGED <<input, ptx, cells, at>>

Translate ==
  /\ pc = "rule"
  /\ ptx' = translate(rule)
  /\ pc' = "execute"
  /\ UNCHANGED <<input, rule, cells, at>>

BitsOf(arg) ==
  CASE arg.class = "literal" -> arg.bits
    [] arg.class = "!%p"     -> ~cells[<<"%p", arg.n>>]
    [] OTHER                 -> cells[<<arg.class, arg.n>>]

LineResult(line) ==
  LET args == [n \in DOMAIN line.args |-> BitsOf(line.args[n])]
      x == [n \in DOMAIN line.args |-> Number(line.type, args[n])]
  IN  CASE line.name = "mov"  -> args[1]
        [] line.name = "selp" -> IF args[3] THEN args[1] ELSE args[2]
        [] line.name \in {"AND", "OR", "XOR"} -> Combined(line.name, args[1], args[2])
        [] line.name \in Comparison -> Holds(line.name, x[1], x[2])
        [] OTHER -> Encode(line.type, Compute(line.name, x))

Written(line) == <<line.d.class, line.d.n>>

Execute ==
  /\ pc = "execute"
  /\ at <= Len(ptx)
  /\ cells' = [cells EXCEPT ![Written(ptx[at])] = LineResult(ptx[at])]
  /\ at' = at + 1
  /\ UNCHANGED <<input, rule, ptx, pc>>

Done ==
  /\ pc = "execute"
  /\ at > Len(ptx)
  /\ pc' = "done"
  /\ UNCHANGED <<input, rule, ptx, cells, at>>

Finished == pc = "done" /\ UNCHANGED vars

Next == ToRuleInst \/ Translate \/ Execute \/ Done \/ Finished

Spec == Init /\ [][Next]_vars

-----------------------------------------------------------------------------
(***************************************************************************)
(* What the SASS instruction computes, from the semantic blocks at the     *)
(* head of the rule files.                                                 *)
(***************************************************************************)
Flagged(flag, x) ==
  CASE flag = "none" -> x [] flag = "neg" -> Negated(x) [] flag = "cABS" -> Absolute(x)

SassValue(op) ==
  CASE op.kind = "reg" -> IF is_zero(op) \/ op.prefix = "P" THEN 0
                          ELSE Flagged(op.flag, contents[<<op.prefix, op.n>>])
    [] op.kind \in {"imm", "fimm"} -> op.bits.of

SassTruth(op) ==
  (IF op.prefix = "P" THEN truths[op.n] ELSE TRUE) # (op.flag = "neg")

(* The comparison of x and y, combined with the chain. *)
SassVerdict(x, y, chain) ==
  LET cmp == FirstMod(inst, Comparison, "none")
  IN  Combined(FirstMod(inst, {"AND", "OR", "XOR"}, "AND"), SassTruth(chain),
               cmp = "T" \/ (cmp # "F" /\ Holds(cmp, x, y)))

SassResult ==
  LET x(n) == SassValue(inst.src[n])
  IN  CASE inst.op \in {"FADD", "DADD"} -> Sum(x(1), x(2))
        [] inst.op \in {"FMUL", "DMUL"} -> Product(x(1), x(2))
        [] inst.op \in {"FFMA", "DFMA"} -> Sum(Product(x(1), x(2)), x(3))
        [] inst.op = "FMNMX" -> IF SassTruth(inst.src[3]) THEN Least(x(1), x(2))
                                ELSE Greatest(x(1), x(2))
        [] inst.op = "FABS"  -> Absolute(x(1))
        [] inst.op = "FNEG"  -> Negated(x(1))

SassBits ==
  LET s == inst.src
      x(n) == SassValue(inst.src[n])
  IN  CASE inst.op \in {"FSETP", "DSETP"} -> SassVerdict(x(2), x(3), s[4])
        [] inst.op = "FSET" -> IF SassVerdict(x(1), x(2), s[3]) THEN Pattern("int", 4) ELSE Nothing
        [] inst.op = "FSEL" -> Pattern("f32", IF SassTruth(s[3]) THEN x(1) ELSE x(2))
        [] inst.op = "MOV"  -> IF s[1].kind = "imm" THEN s[1].bits ELSE Pattern("f32", x(1))
        [] OTHER -> Encode(IF IsDouble THEN "f64" ELSE "f32", SassResult)

Destination ==
  <<IF inst.op \in {"FSETP", "DSETP"} THEN "%p" ELSE IF IsDouble THEN "%fd" ELSE "%r",
    inst.dst[1].n>>

Exact == cells[Destination] = SassBits

-----------------------------------------------------------------------------
(***************************************************************************)
(* An instruction nothing of which is lost on the way computes exactly     *)
(* what SASS does: general registers without flags (or with the flag on    *)
(* the addend of FFMA, the selector of FMNMX), literals of a double that   *)
(* are integers, literals of a single in float context or that imm_f32     *)
(* takes for what they are, and MOV's patterns in integer context.  And no *)
(* line, of any instruction, writes another register than the destination  *)
(* and the scratch register.                                               *)
(***************************************************************************)
Operands == {inst.src[n] : n \in DOMAIN inst.src}
Literals == {o \in Operands : o.kind \in {"imm", "fimm"}}
DstClasses == types[inst.dst[1].n]

FlagKept(n) ==
  LET o == inst.src[n]
  IN  /\ n = 3
      /\ \/ inst.op = "FFMA" /\ o.prefix = "R" /\ o.flag \in {"neg", "cABS"}
         \/ inst.op = "FMNMX" /\ o.flag = "neg"
FlagsKept == \A n \in DOMAIN inst.src : inst.src[n].flag # "none" => FlagKept(n)

IsPT(op) == op.prefix = "PT" /\ op.flag = "none"
Conjoins == ~HasMod(inst, {"OR", "XOR"})

ChainKept ==
  LET s == inst.src
  IN  CASE inst.op = "FSETP" ->
             /\ IsPT(s[1]) /\ Conjoins /\ HasMod(inst, CmpModes)
             /\ HasMod(inst, {"F"}) \/ (IsPT(s[4]) /\ (HasMod(inst, {"T"}) \/ inst.dst[1].n # 0))
        [] inst.op = "DSETP" ->
             IsPT(s[1]) /\ IsPT(s[4]) /\ Conjoins /\ HasMod(inst, DoubleModes)
        [] inst.op = "FSET"  -> IsPT(s[3]) /\ Conjoins /\ HasMod(inst, CmpModes)
        [] inst.op = "FSEL"  -> s[3].prefix = "P"
        [] inst.op = "FMNMX" -> s[3].prefix = "PT"
        [] OTHER             -> TRUE

(* What resolve_imm_type makes of a literal of a single. *)
IntegerClass == DstClasses \cap {"Int", "I64"} # {}
FloatContext ==
  inst.dst[1].n \in psi \/ DstClasses = {} \/ ("F32" \in DstClasses /\ ~IntegerClass)
IntegerContext == inst.dst[1].n \notin psi /\ IntegerClass

Whole(o) == o.kind = "imm" /\ o.bits.form = "int"
Small(o) == Whole(o) /\ o.bits.of \in -(4 * 128)..(4 * 255)
Single(o) == o.kind = "imm" /\ o.bits.form = "f32"

LiteralsKept ==
  CASE IsDouble        -> \A o \in Literals : Whole(o)
    [] inst.op = "MOV" -> /\ \A o \in Literals : o.kind = "imm"
                          /\ IntegerClass \/ DstClasses = {}
    [] OTHER           -> \/ FloatContext /\ \A o \in Literals : Whole(o) \/ o.kind = "fimm"
                          \/ IntegerContext /\ \A o \in Literals : Small(o) \/ Single(o)

Supported ==
  /\ FlagsKept
  /\ ChainKept
  /\ \A o \in Operands : o.prefix # "UR"
  /\ Literals # {} => LiteralsKept

OthersUntouched ==
  \A c \in Cell \ ({Destination} \cup ScratchCell) : cells[c] = Initially(c)

SupportedIsExact == OthersUntouched /\ (pc = "done" /\ Supported => Exact)
=============================================================================
