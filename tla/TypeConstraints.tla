--------------------------- MODULE TypeConstraints ---------------------------
(***************************************************************************)
(* The constraint system that the type_infer stage solves                  *)
(* (lifter/src/sass/type_infer/stage_type_infer.rs).  An instruction gives *)
(* its operands type classes (seed_constraint), directly for its own       *)
(* operands and along def-use edges for the registers it connects.  The    *)
(* operators here say which (register, class) pairs follow from which; the *)
(* order in which the stage adds them is module TypeInfer's.               *)
(*                                                                         *)
(* An assignment k maps a register to the set of concrete classes known    *)
(* for it: the code's `types` map with TypeClass::Unknown filtered out, as *)
(* TypeInferEngine::get returns it.                                        *)
(***************************************************************************)
EXTENDS Naturals, Sequences

CONSTANTS
  RegId,      \* the registers, pipeline::RegId
  Programs    \* the instruction streams the stage may be given

ConcreteType == {"Int", "I64", "F32", "F64", "Pred"}
TypeClass == ConcreteType \cup {"Unknown"}

(***************************************************************************)
(* The opcodes of each row of seed_constraint; conversions and MUFU take   *)
(* the width of their types from the modifiers.                            *)
(***************************************************************************)
FloatOp      == {"FADD", "FMUL", "FFMA", "FMNMX", "FRND", "FSET", "FSWZADD",
                 "FABS", "FNEG"}
DoubleOp     == {"DADD", "DMUL", "DFMA"}
IntOp        == {"IADD3", "IMAD", "IMNMX", "LEA", "IABS", "ULEA", "UIADD3",
                 "UIMAD", "UCLEA", "VABSDIFF", "VABSDIFF4", "HADD2", "HMUL2",
                 "HFMA2", "HMNMX2", "HSET2"}
IntUnaryOp   == {"POPC", "FLO", "UFLO", "BREV", "I2I", "I2IP", "SGXT",
                 "USGXT", "BMSK", "UBMSK"}
TransparentOp == {"MOV", "UMOV", "SEL", "USEL", "PRMT", "UPRMT", "SHF",
                  "USHFT", "LOP3", "ULOP3", "BMOV", "UBREV", "LDG", "STG",
                  "LDS", "STS", "LDL", "STL", "LD", "ST", "LDC", "ULDC",
                  "LDGSTS", "ATOMG", "ATOMS", "LDSM", "MOVM", "LDTRAM"}
IntSourceOp  == {"S2R", "CS2R", "S2UR", "B2R", "R2UR", "UR2UP", "UP2UR",
                 "LEPC", "GETLMEMBASE", "ISBERD", "RPCMOV", "HMMA", "BMFMA",
                 "IMMA", "DMMA", "QMMA"}
OtherOp      == {"BRA", "EXIT", "BSSY", "BSYNC", "BAR", "VOTE", "RED"}

Constraint(dst, src, flow) ==
  [dst_types |-> dst, src_types |-> src, transparent |-> flow]

has_mod(modifiers, flag) == \E n \in DOMAIN modifiers : modifiers[n] = flag
ModAt(modifiers, n, flag) == n \in DOMAIN modifiers /\ modifiers[n] = flag
HasAny(modifiers, a, b) == has_mod(modifiers, a) \/ has_mod(modifiers, b)

FloatType(double) == IF double THEN "F64" ELSE "F32"
IntType(long) == IF long THEN "I64" ELSE "Int"

seed_constraint(op, modifiers) ==
  CASE op \in FloatOp      -> Constraint(<<"F32">>, <<"F32", "F32">>, FALSE)
    [] op \in {"FSETP", "HSETP2"}
                           -> Constraint(<<"Pred", "Pred">>, <<"F32", "F32">>, FALSE)
    [] op = "MUFU" ->
         Constraint(<<FloatType(HasAny(modifiers, "RCP64H", "RSQ64H"))>>,
                    <<FloatType(HasAny(modifiers, "RCP64H", "RSQ64H"))>>, FALSE)
    [] op = "F2F" ->
         Constraint(<<FloatType(ModAt(modifiers, 1, "F64"))>>,
                    <<FloatType(ModAt(modifiers, 2, "F64"))>>, FALSE)
    [] op = "F2I" ->
         Constraint(<<IntType(HasAny(modifiers, "S64", "U64"))>>,
                    <<FloatType(has_mod(modifiers, "F64"))>>, FALSE)
    [] op \in {"I2F", "I2FP", "FCHK"} ->
         Constraint(<<FloatType(has_mod(modifiers, "F64"))>>,
                    <<IntType(HasAny(modifiers, "S64", "U64"))>>, FALSE)
    [] op \in DoubleOp     -> Constraint(<<"F64">>, <<"F64", "F64">>, FALSE)
    [] op = "DSETP"        -> Constraint(<<"Pred", "Pred">>, <<"F64", "F64">>, FALSE)
    [] op \in IntOp        -> Constraint(<<"Int">>, <<"Int", "Int">>, FALSE)
    [] op \in {"ISETP", "UISETP"}
                           -> Constraint(<<"Pred", "Pred">>, <<"Int", "Int">>, FALSE)
    [] op \in IntUnaryOp   -> Constraint(<<"Int">>, <<"Int">>, FALSE)
    [] op \in {"R2P", "PSETP"}
                           -> Constraint(<<"Pred">>, <<"Int">>, FALSE)
    [] op = "P2R"          -> Constraint(<<"Int">>, <<"Pred">>, FALSE)
    [] op \in TransparentOp -> Constraint(<<>>, <<>>, TRUE)
    [] op \in IntSourceOp  -> Constraint(<<"Int">>, <<>>, FALSE)
    [] OTHER               -> Constraint(<<>>, <<>>, FALSE)

(***************************************************************************)
(* operand_to_reg drops RZ / PT / URZ, memory operands and immediates, and *)
(* files uniform predicates under RegPrefix::P.  An operand is a record of *)
(* its kind ("reg", "pred" or anything else), prefix, number and is_zero.  *)
(***************************************************************************)
PredicatePrefix == {"P", "UP", "UPT", "PT"}

IsTracked(op) ==
  \/ op.kind = "pred"
  \/ op.kind = "reg" /\ ~op.zero /\ op.prefix \in {"R", "UR"} \cup PredicatePrefix

operand_to_reg(op) ==
  IF op.kind = "pred" \/ op.prefix \in PredicatePrefix
  THEN <<"P", op.number>>
  ELSE <<op.prefix, op.number>>

operands_to_regs(ops) ==
  LET tracked == SelectSeq(ops, IsTracked)
  IN  [n \in DOMAIN tracked |-> operand_to_reg(tracked[n])]

(***************************************************************************)
(* One instruction as the engine sees it: its opcode and modifiers, its    *)
(* guard (which the engine never reads) and its DefUseInfo.                *)
(***************************************************************************)
Guard == {"none", "@P0", "@!P0"}

Occurs(regs, r) == \E n \in DOMAIN regs : regs[n] = r

(* DefUseInfo is two lists of registers; every operand the parser makes is one. *)
ASSUME ProgramsAssumption ==
  \A p \in Programs : \A i \in DOMAIN p :
    p[i].dsts \in Seq(RegId) /\ p[i].srcs \in Seq(RegId)

RegsOf(p) ==
  {r \in RegId : \E i \in DOMAIN p : Occurs(p[i].dsts, r) \/ Occurs(p[i].srcs, r)}

DefsOf(p, r) == {i \in DOMAIN p : Occurs(p[i].dsts, r)}

(***************************************************************************)
(* seed: dsts zipped with dst_types and srcs with src_types.               *)
(***************************************************************************)
Zipped(regs, types) == {<<regs[n], types[n]>> : n \in DOMAIN regs \cap DOMAIN types}

Seeds(p) ==
  UNION {Zipped(p[i].dsts, seed_constraint(p[i].op, p[i].modifiers).dst_types)
           \cup Zipped(p[i].srcs, seed_constraint(p[i].op, p[i].modifiers).src_types) :
           i \in DOMAIN p}

(***************************************************************************)
(* What processing register r contributes when its classes are `current`:  *)
(* an instruction that reads r types its destinations, one that writes r   *)
(* types its sources, transparently (with r's own classes) or from its row *)
(* of the table.                                                           *)
(***************************************************************************)
Propagated(transparent, current, types) ==
  IF transparent THEN current ELSE {types[n] : n \in DOMAIN types}

(* Mutant: only destinations are typed, never sources. *)
Pushes_forward_only(inst, r, current) ==
  LET c == seed_constraint(inst.op, inst.modifiers)
  IN  {u \in RegId \X ConcreteType :
         /\ Occurs(inst.srcs, r)
         /\ Occurs(inst.dsts, u[1])
         /\ u[2] \in Propagated(c.transparent, current, c.dst_types)}

Pushes(inst, r, current) ==
  LET c == seed_constraint(inst.op, inst.modifiers)
  IN  {u \in RegId \X ConcreteType :
         \/ /\ Occurs(inst.srcs, r)
            /\ Occurs(inst.dsts, u[1])
            /\ u[2] \in Propagated(c.transparent, current, c.dst_types)
         \/ /\ Occurs(inst.dsts, r)
            /\ Occurs(inst.srcs, u[1])
            /\ u[2] \in Propagated(c.transparent, current, c.src_types)}

Updates(p, r, current) == UNION {Pushes(p[i], r, current) : i \in DOMAIN p}

SweepUpdates(p, k) == UNION {Updates(p, r, k[r]) : r \in RegsOf(p)}

(***************************************************************************)
(* Everything that follows from k in one step, and the assignments from    *)
(* which nothing new follows.                                              *)
(***************************************************************************)
Assignments(p) == [RegsOf(p) -> SUBSET ConcreteType]

Derivable(p, k) == Seeds(p) \cup SweepUpdates(p, k)

Holds(k, u) == u[2] \in k[u[1]]

Closed(p, k) == \A u \in Derivable(p, k) : Holds(k, u)

Below(k, c) == \A r \in DOMAIN k : k[r] \subseteq c[r]
=============================================================================
