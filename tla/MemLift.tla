------------------------------ MODULE MemLift ------------------------------
(***************************************************************************)
(* A kernel of memory instructions executed twice: by SASS (regs, mem), an *)
(* instruction at a time, and as the PTX lines the rules wrote for it      *)
(* (files, ptxMem), a line at a time.                                      *)
(*                                                                         *)
(* Nothing in the lifter keeps %rn and %rdn in step: a load writes %rn,    *)
(* IMAD.WIDE writes %rdn, LDC.64 writes both.  words and pairs say of      *)
(* which registers PTX holds the value where: Rn is %rn for n in words,    *)
(* Rn, Rn+1 is %rdn for n in pairs, and the constant is in its register    *)
(* while constant is true.  A program is disciplined while each rule reads *)
(* a register where its value is.                                          *)
(***************************************************************************)
EXTENDS MemRules

LOCAL INSTANCE SequencesExt
LOCAL INSTANCE FiniteSetsExt

CONSTANTS
  RegNo,      \* numbers of the registers R, from 0
  UniformNo,  \* numbers of the registers UR
  Programs,   \* kernels
  Contents,   \* what regs may be at first
  Pairs,      \* numbers whose %rd earlier instructions left right
  Param       \* the constant, two words

ASSUME MemLiftAssumption ==
  /\ RegNo \subseteq Nat /\ UniformNo \subseteq Nat
  /\ Contents \subseteq [({"R"} \X RegNo) \cup ({"UR"} \X UniformNo) -> Word]
  /\ Pairs \subseteq {n \in RegNo : n + 1 \in RegNo}
  /\ W % 4 = 0 /\ Param \in 0..(2^(2 * W) - 1)

VARIABLES
  program, p0,               \* the kernel, and its predicate P0
  done, regs, mem,           \* SASS
  ptx, at, files, ptxMem,    \* the lines of the next instruction; PTX
  words, pairs, constant, disciplined,
  pc

vars == <<program, p0, done, regs, mem, ptx, at, files, ptxMem,
          words, pairs, constant, disciplined, pc>>

sass == <<done, regs, mem>>
views == <<words, pairs, constant>>

-----------------------------------------------------------------------------
(***************************************************************************)
(* Memory, by bytes of W / 4 bits; a byte never written has some value.    *)
(***************************************************************************)
ByteRange == 2^(W \div 4)
Salt == [global |-> 0, shared |-> 1, local |-> 2, generic |-> 3]

Bytes(type) ==
  CASE type \in {"U8", "S8"}   -> 1 [] type \in {"U16", "S16"} -> 2
    [] type \in {"U64", "S64", "F64", "B64"} -> 8 [] OTHER -> 4

Cell(space, a, k) == <<space, (a + k) % 2^(2 * W)>>
ByteAt(m, c) ==
  IF c \in DOMAIN m THEN m[c] ELSE (c[2] + c[2] \div 3 + Salt[c[1]]) % ByteRange

Fetch(m, space, a, size) ==
  MapThenSumSet(LAMBDA k : ByteRange^k * ByteAt(m, Cell(space, a, k)), 0..(size - 1))

Put(m, space, a, size, v) ==
  LET place == {Cell(space, a, k) : k \in 0..(size - 1)}
  IN  [c \in DOMAIN m \cup place |->
         IF c \in place
         THEN LET k == CHOOSE i \in 0..(size - 1) : Cell(space, a, i) = c
              IN  (v \div ByteRange^k) % ByteRange
         ELSE m[c]]

(* A narrow value in a register: S types extend its sign. *)
Extend(type, x) ==
  LET range == ByteRange^Bytes(type)
  IN  IF type \in {"S8", "S16"} /\ x >= range \div 2 THEN Wrap(x - range) ELSE x

LoadFrom(m, space, type, a) == Extend(type, Fetch(m, space, a, Bytes(type)))

(* What an atomic operation leaves, of the old word and its operands. *)
Combine(op, type, old, x) ==
  LET less(u, v) == IF type = "S32" THEN Signed(u) < Signed(v) ELSE u < v
  IN  CASE op = "ADD"  -> Wrap(old + x[1])
        [] op = "MIN"  -> IF less(x[1], old) THEN x[1] ELSE old
        [] op = "MAX"  -> IF less(old, x[1]) THEN x[1] ELSE old
        [] op = "AND"  -> Lop3(old, x[1], 0, 192)
        [] op = "OR"   -> Lop3(old, x[1], 0, 252)
        [] op = "XOR"  -> Lop3(old, x[1], 0, 60)
        [] op = "EXCH" -> x[1]
        [] op = "INC"  -> IF old >= x[1] THEN 0 ELSE old + 1
        [] op = "DEC"  -> IF old = 0 \/ old > x[1] THEN x[1] ELSE old - 1
        [] op = "CAS"  -> IF old = x[1] THEN x[2] ELSE old

-----------------------------------------------------------------------------
(***************************************************************************)
(* SASS.                                                                   *)
(***************************************************************************)
SpaceOf ==
  [op \in {"LDG", "STG", "RED", "ATOMG"} |-> "global"] @@
  [op \in {"LDS", "STS", "ATOMS"} |-> "shared"] @@
  [op \in {"LDL", "STL"} |-> "local"] @@ [op \in {"LD", "ST"} |-> "generic"]

WordOf(op) == IF is_zero(op) THEN 0 ELSE regs[<<op.prefix, op.n>>]
PairAt(n) == regs[<<"R", n>>] + 2^W * regs[<<"R", n + 1>>]
PairOf(op) == IF is_zero(op) THEN 0 ELSE PairAt(op.n)

AddressOf(op) ==
  IF op.is_64bit THEN (PairOf(op) + op.offset) % 2^(2 * W) ELSE Wrap(WordOf(op) + op.offset)

WidthName == {"U8", "S8", "U16", "S16", "64", "S32"}
TypeOf(inst) ==
  LET mod == FirstOf(inst, WidthName, "U32") IN IF mod = "64" THEN "U64" ELSE mod
OperationOf(inst) == FirstOf(inst, ToSet(SharedOperations), "ADD")

Set(op, v) == IF is_zero(op) THEN regs ELSE [regs EXCEPT ![<<op.prefix, op.n>>] = v]
SetPair(op, v) ==
  IF is_zero(op) THEN regs
  ELSE [regs EXCEPT ![<<"R", op.n>>] = Wrap(v), ![<<"R", op.n + 1>>] = v \div 2^W]

(* regs' and mem' of a load into d, of a store, of an atomic operation. *)
SassLoad(inst, d, source) ==
  LET v == LoadFrom(mem, SpaceOf[inst.op], TypeOf(inst), AddressOf(source))
  IN  /\ regs' = (IF TypeOf(inst) = "U64" THEN SetPair(d, v) ELSE Set(d, v))
      /\ UNCHANGED mem

SassStore(inst, target, source) ==
  LET v == IF TypeOf(inst) = "U64" THEN PairOf(source) ELSE WordOf(source)
  IN  /\ mem' = Put(mem, SpaceOf[inst.op], AddressOf(target), Bytes(TypeOf(inst)), v)
      /\ UNCHANGED regs

SassAtomic(inst, d, target, sources) ==
  LET space == SpaceOf[inst.op]
      old == Fetch(mem, space, AddressOf(target), 4)
      x == [k \in DOMAIN sources |-> WordOf(sources[k])]
  IN  /\ mem' = Put(mem, space, AddressOf(target), 4,
                    Combine(OperationOf(inst), TypeOf(inst), old, x))
      /\ regs' = Set(d, old)

RZ == RegisterOperand("RZ", 255, "none")

SassStep(inst) ==
  LET s == inst.src
  IN  CASE inst.op \in {"LDG", "LDS", "LDL", "LD"} -> SassLoad(inst, inst.dst[1], s[1])
        [] inst.op \in {"STG", "STS", "STL", "ST"} -> SassStore(inst, inst.dst[1], s[1])
        [] inst.op = "RED"   -> SassAtomic(inst, RZ, inst.dst[1], s)
        [] inst.op = "ATOMG" -> SassAtomic(inst, s[1], s[2], SubSeq(s, 3, Len(s)))
        [] inst.op = "ATOMS" -> SassAtomic(inst, inst.dst[1], s[1], Tail(s))
        [] inst.op = "LDGSTS" ->
             /\ mem' = Put(mem, "shared", AddressOf(inst.dst[1]), 4,
                           Fetch(mem, "global", AddressOf(s[1]), 4))
             /\ UNCHANGED regs
        [] inst.op = "LDC" ->
             /\ regs' = (IF HasMod(inst, {"64"}) THEN SetPair(inst.dst[1], Param)
                         ELSE Set(inst.dst[1], Wrap(Param)))
             /\ UNCHANGED mem
        [] inst.op = "MOV" ->
             /\ regs' = Set(inst.dst[1], IF s[1].kind = "const" THEN Wrap(Param) ELSE WordOf(s[1]))
             /\ UNCHANGED mem
        [] inst.op = "IMAD" ->
             LET factor(k) == IF s[k].kind = "imm" THEN Wrap(s[k].bits.of \div 4) ELSE WordOf(s[k])
                 product == IF HasMod(inst, {"U32"}) THEN factor(1) * factor(2)
                            ELSE Signed(factor(1)) * Signed(factor(2))
             IN  /\ regs' = SetPair(inst.dst[1], (product + PairOf(s[3])) % 2^(2 * W))
                 /\ UNCHANGED mem

-----------------------------------------------------------------------------
(***************************************************************************)
(* The discipline: the forms each rule translates, with the registers it   *)
(* reads where their values are.                                           *)
(***************************************************************************)
IsWord(op) == op.kind = "reg" /\ op.prefix = "R" /\ op.n \in words
IsPlain(op) == op.kind = "reg" /\ op.prefix = "R"
IsZero(op) == op.kind = "reg" /\ is_zero(op)
IsUniform(op) == op.kind = "reg" /\ op.prefix = "UR"

PairAddress(op) == op.prefix = "R" /\ op.is_64bit /\ op.n \in pairs
WordAddress(op) == op.prefix = "R" /\ ~op.is_64bit /\ op.n \in words
FlatAddress(op) == PairAddress(op) \/ WordAddress(op)
SharedAddress(op) == FlatAddress(op) \/ (op.prefix = "UR" /\ ~op.is_64bit)
HalvesAddress(op) == op.prefix = "R" /\ op.is_64bit /\ {op.n, op.n + 1} \subseteq words

Typed(inst, types) == TypeOf(inst) \in types
Narrow == {"U32", "S32", "U8", "S8", "U16", "S16"}

Ordered(inst) == OperationOf(inst) \in {"MIN", "MAX"}

Reads(inst) ==
  LET s == inst.src
      d == inst.dst[1]
  IN  CASE inst.op = "LDG" -> IsPlain(d) /\ Typed(inst, Narrow) /\ PairAddress(s[1])
        [] inst.op = "LDS" -> IsPlain(d) /\ Typed(inst, Narrow) /\ SharedAddress(s[1])
        [] inst.op = "LD"  -> IsPlain(d) /\ Typed(inst, {"U32"}) /\ FlatAddress(s[1])
        [] inst.op \in {"STG", "ST"} ->
             Typed(inst, {"U32"}) /\ IsWord(s[1]) /\ FlatAddress(d)
        [] inst.op \in {"STS", "STL"} ->
             /\ Typed(inst, Narrow) /\ SharedAddress(d)
             /\ IsWord(s[1]) \/ IsZero(s[1]) \/ IsUniform(s[1])
        [] inst.op = "RED" ->
             /\ Typed(inst, {"U32", "S32"}) /\ IsWord(s[1])
             /\ HalvesAddress(d) \/ WordAddress(d)
        [] inst.op = "ATOMG" ->
             /\ IsPlain(s[1]) /\ PairAddress(s[2]) /\ \A k \in 3..Len(s) : IsWord(s[k])
             /\ OperationOf(inst) # "INC" /\ Typed(inst, {"U32", "S32"})
             /\ Ordered(inst) => Typed(inst, {"U32"})
        [] inst.op = "LDGSTS" -> PairAddress(s[1]) /\ WordAddress(d)
        [] inst.op = "LDC" -> IsPlain(d) /\ constant
        [] inst.op = "MOV" -> /\ IsPlain(d)
                              /\ IsWord(s[1]) \/ IsZero(s[1]) \/ (s[1].kind = "const" /\ constant)
        [] inst.op = "IMAD" ->
             /\ IsPlain(d) /\ IsWord(s[1]) /\ (IsWord(s[2]) \/ s[2].kind = "imm")
             /\ IsZero(s[3]) \/ (IsPlain(s[3]) /\ s[3].n \in pairs)
             /\ HasMod(inst, {"U32"}) \/
                \A k \in 1..2 : 0 <= Signed(IF s[k].kind = "imm" THEN Wrap(s[k].bits.of \div 4)
                                            ELSE WordOf(s[k]))
        [] OTHER -> FALSE   \* LDL and ATOMS read %r0 whatever the address

(* The registers a kernel names, the upper halves of its pairs among them. *)
Named(inst, prefix) ==
  LET operands == {op \in ToSet(inst.dst \o inst.src) : op.prefix = prefix /\ op.kind \in {"reg", "mem"}}
      halves(op) == IF op.kind = "mem" THEN op.is_64bit ELSE HasMod(inst, {"WIDE", "64"})
  IN  UNION {IF halves(op) THEN {op.n, op.n + 1} ELSE {op.n} : op \in operands}

Own(prefix) == UNION {Named(inst, prefix) : inst \in ToSet(program)}

LoweredProgram == [k \in DOMAIN program |-> Lowered(program[k])]
sb == scratch_gpr_base(LoweredProgram)
Declared == declared(LoweredProgram)

(* scan_registers has counted every register the kernel names. *)
AllCounted ==
  /\ \A n \in Own("R") : n < sb
  /\ \A n \in Own("UR") : n < scan_registers(LoweredProgram, "UR")

Disciplined(inst) ==
  /\ Reads(inst)
  /\ inst.guard = NoGuard \/ Len(translate_one(Lowered(inst), sb)) = 1
  /\ AllCounted

(* Which views are right after an instruction that wrote. *)
WroteWord(n) ==
  /\ words' = words \cup {n}
  /\ pairs' = pairs \ {n - 1, n}
  /\ constant' = (constant /\ n # GprCounter)

WrotePair(n, lower) ==
  /\ words' = (words \ {n, n + 1}) \cup (IF lower THEN {n} ELSE {})
  /\ pairs' = (pairs \ {n - 1, n + 1}) \cup {n}
  /\ constant' = (constant /\ n # GprCounter)

WroteTo(inst) ==
  IF inst.op = "ATOMG" THEN inst.src[1]
  ELSE IF inst.op \in {"STG", "STS", "STL", "ST", "RED", "LDGSTS"} THEN RZ ELSE inst.dst[1]

Wrote(inst) ==
  LET d == WroteTo(inst)
  IN  CASE ~IsPlain(d) -> UNCHANGED views
        [] IsPlain(d) /\ inst.op = "IMAD" -> WrotePair(d.n, FALSE)
        [] IsPlain(d) /\ inst.op = "LDC" /\ HasMod(inst, {"64"}) -> WrotePair(d.n, TRUE)
        [] OTHER -> WroteWord(d.n)

-----------------------------------------------------------------------------
(***************************************************************************)
(* PTX.  ptxas rejects a line whose registers are not declared or have not *)
(* the width of its type (a narrow type fits a wider register).  Which of  *)
(* the types of one width an operation admits is left out.                 *)
(***************************************************************************)
Width == [class \in {"%r", "%ur"} |-> 4] @@ [class \in {"%rd"} |-> 8]
Fits(arg, types) == arg.class = "literal" \/ Width[arg.class] \in types

WellTyped(line) ==
  LET all(types) == \A k \in DOMAIN line.args : Fits(line.args[k], types)
  IN  CASE line.name = "ld" -> /\ line.d.class # "literal"
                               /\ Width[line.d.class] >= Bytes(line.type)
        [] line.name = "st" -> all(Bytes(line.type)..8)
        [] line.space # "none" /\ line.name \notin {"ld", "st"} ->
             all({Bytes(line.type)}) /\ (line.d # NoArg => Fits(line.d, {Bytes(line.type)}))
        [] line.name \in {"cvt.u64.u32", "mul.wide.u32"} -> all({4}) /\ line.d.class = "%rd"
        [] line.name = "mov.b32" -> all({4}) /\ line.d.class = "%r"
        [] OTHER -> all({8}) /\ line.d.class = "%rd"

RegistersOf(line) ==
  {arg \in {line.d, line.address.reg} \cup ToSet(line.args) : arg.class \notin {"none", "literal"}}

Accepted(line) ==
  /\ \A arg \in RegistersOf(line) : arg.n < Declared[arg.class]
  /\ WellTyped(line)

Value(arg) ==
  IF arg.class = "literal" THEN Wrap(arg.n) ELSE files[<<arg.class, arg.n>>]

Effective(line) == (Value(line.address.reg) + line.address.offset)
                     % 2^(W * (Width[line.address.reg.class] \div 4))

Computed(name, x) ==
  CASE name \in {"mov.b32", "mov.u64", "cvt.u64.u32"} -> x[1]
    [] name = "shl.b64" -> (x[1] * 2^x[2]) % 2^(2 * W)
    [] name = "or.b64"  -> LET b(v, k) == (v \div 2^k) % 2
                           IN  MapThenSumSet(LAMBDA k : 2^k * Max({b(x[1], k), b(x[2], k)}),
                                             0..(2 * W - 1))
    [] name = "mul.wide.u32" -> x[1] * x[2]
    [] name = "add.u64"      -> (x[1] + x[2]) % 2^(2 * W)

-----------------------------------------------------------------------------
Cells == ({"%r", "%rd"} \X (0..(Max(RegNo) + 4))) \cup ({"%ur"} \X UniformNo)

UsesConstant == \E inst \in ToSet(program) : \E op \in ToSet(inst.src) : op.kind = "const"

Init ==
  /\ program \in Programs /\ p0 \in BOOLEAN
  /\ done = 0 /\ regs \in Contents /\ mem = << >>
  /\ ptx = << >> /\ at = 1 /\ ptxMem = << >>
  /\ words = Own("R") \ (IF UsesConstant THEN {GprCounter} ELSE {})
  /\ pairs = {n \in Pairs : {n, n + 1} \subseteq Own("R")
                              /\ ~(UsesConstant /\ n = GprCounter)}
  /\ constant = UsesConstant
  /\ files = [c \in Cells |->
                CASE c[1] = "%ur" -> regs[<<"UR", c[2]>>]
                  [] c = <<"%r", GprCounter>> /\ UsesConstant  -> Wrap(Param)
                  [] c = <<"%rd", GprCounter>> /\ UsesConstant -> Param
                  [] c[1] = "%r" /\ c[2] \in words  -> regs[<<"R", c[2]>>]
                  [] c[1] = "%rd" /\ c[2] \in pairs -> PairAt(c[2])
                  [] OTHER -> (5 * c[2] + 3) % 2^W]
  /\ disciplined = TRUE
  /\ pc = "translate"

TranslateInstruction ==
  /\ pc = "translate" /\ done < Len(program)
  /\ LET inst == program[done + 1]
     IN  /\ ptx' = translate_one(Lowered(inst), sb)
         /\ disciplined' = (disciplined /\ Disciplined(inst))
  /\ pc' = (IF \A k \in DOMAIN ptx' : Accepted(ptx'[k]) THEN "execute" ELSE "rejected")
  /\ at' = 1
  /\ UNCHANGED <<program, p0, sass, files, ptxMem, views>>

Holding(guard) == guard = NoGuard \/ p0 # guard.negated

Execute ==
  /\ pc = "execute" /\ at <= Len(ptx)
  /\ LET line == ptx[at]
         x == [k \in DOMAIN line.args |-> Value(line.args[k])]
         a == Effective(line)
         old == LoadFrom(ptxMem, line.space, line.type, a)
         write(v) == files' = [files EXCEPT ![<<line.d.class, line.d.n>>] = v]
         put(v) == ptxMem' = Put(ptxMem, line.space, a, Bytes(line.type), v)
     IN  CASE ~Holding(line.guard) -> UNCHANGED <<files, ptxMem>>
           [] Holding(line.guard) /\ line.space = "none" ->
                write(Computed(line.name, x)) /\ UNCHANGED ptxMem
           [] Holding(line.guard) /\ line.name = "ld" -> write(old) /\ UNCHANGED ptxMem
           [] Holding(line.guard) /\ line.name = "st" -> put(x[1]) /\ UNCHANGED files
           [] OTHER -> /\ put(Combine(line.name, line.type, old, x))
                       /\ IF line.d = NoArg THEN UNCHANGED files ELSE write(old)
  /\ at' = at + 1
  /\ UNCHANGED <<program, p0, sass, ptx, views, disciplined, pc>>

Retire ==
  /\ pc = "execute" /\ at > Len(ptx)
  /\ LET inst == program[done + 1]
     IN  IF Holding(inst.guard) THEN SassStep(inst) /\ Wrote(inst)
         ELSE UNCHANGED <<regs, mem, views>>
  /\ done' = done + 1
  /\ pc' = "translate"
  /\ UNCHANGED <<program, p0, ptx, at, files, ptxMem, disciplined>>

Finished ==
  /\ \/ pc = "rejected"
     \/ pc = "translate" /\ done = Len(program)
  /\ UNCHANGED vars

Next == TranslateInstruction \/ Execute \/ Retire \/ Finished

Spec == Init /\ [][Next]_vars

-----------------------------------------------------------------------------
(***************************************************************************)
(* A disciplined kernel reads and writes the memory its SASS does (the     *)
(* space, the address, the bytes and the value of every access, in order), *)
(* and what it computes is where the next instruction looks for it.        *)
(***************************************************************************)
MemoryAgrees ==
  (pc = "translate" /\ disciplined) =>
    /\ ptxMem = mem
    /\ \A n \in words : files[<<"%r", n>>] = regs[<<"R", n>>]
    /\ \A n \in pairs : files[<<"%rd", n>>] = PairAt(n)
    /\ constant => files[<<"%rd", GprCounter>>] = Param

(***************************************************************************)
(* The registers of a disciplined kernel are declared, in the width its    *)
(* lines need: the emitter counts them on the SASS operands, before the    *)
(* rules choose PTX registers and scratch registers.                       *)
(***************************************************************************)
DisciplinedIsAccepted == (pc = "rejected") => ~disciplined
=============================================================================
