--------------------------- MODULE TypeInferProofs ---------------------------
(***************************************************************************)
(* For every set of registers and every instruction stream: the sets the   *)
(* stage returns are the least solution of the constraints.                *)
(*                                                                         *)
(* The inductive invariant says, beside the types: a queued update is      *)
(* derivable from what is known (UpdatesDerivable), nothing known or       *)
(* queued is missing from a solution (SoundInv), a seed is applied or      *)
(* still queued (SeedsInv), and in a sweep that has changed nothing every  *)
(* consequence of the sets is applied or still queued (SweepInv).          *)
(***************************************************************************)
EXTENDS TypeStage, SequenceTheorems, TLAPS

-----------------------------------------------------------------------------
(***************************************************************************)
(* The constraint system: what the table, the seeds and the pushes of an   *)
(* instruction range over, and that pushing is monotone.                   *)
(***************************************************************************)
(* Every class named in a row of the table is concrete. *)
LEMMA RowsConcrete ==
  ASSUME NEW op, NEW mods
  PROVE  /\ \A n \in DOMAIN seed_constraint(op, mods).dst_types :
              seed_constraint(op, mods).dst_types[n] \in ConcreteType
         /\ \A n \in DOMAIN seed_constraint(op, mods).src_types :
              seed_constraint(op, mods).src_types[n] \in ConcreteType
<1> DEFINE Fine(c) ==
      /\ \A n \in DOMAIN c.dst_types : c.dst_types[n] \in ConcreteType
      /\ \A n \in DOMAIN c.src_types : c.src_types[n] \in ConcreteType
<1>1. ASSUME NEW a \in ConcreteType, NEW b \in ConcreteType, NEW f
      PROVE  /\ Fine(Constraint(<<>>, <<>>, f))
             /\ Fine(Constraint(<<a>>, <<>>, f))
             /\ Fine(Constraint(<<a>>, <<b>>, f))
             /\ Fine(Constraint(<<a>>, <<b, b>>, f))
             /\ Fine(Constraint(<<a, a>>, <<b, b>>, f))
  BY DEF Constraint
<1> HIDE DEF Fine
<1>2. {"Int", "I64", "F32", "F64", "Pred"} = ConcreteType
  BY DEF ConcreteType
<1>3. \A b : FloatType(b) \in ConcreteType /\ IntType(b) \in ConcreteType
  BY <1>2, Zenon DEF FloatType, IntType
<1>4. Fine(seed_constraint(op, mods))
  BY <1>1, <1>2, <1>3, Zenon DEF seed_constraint
<1>5. QED
  BY <1>4 DEF Fine

(* A row that types its sources types its destinations too, and a row     *)
(* names one class for all its destinations.                              *)
LEMMA RowsUniform ==
  ASSUME NEW op, NEW mods
  PROVE  /\ \A n \in DOMAIN seed_constraint(op, mods).dst_types :
              /\ 1 \in DOMAIN seed_constraint(op, mods).dst_types
              /\ seed_constraint(op, mods).dst_types[n] = seed_constraint(op, mods).dst_types[1]
         /\ \A n \in DOMAIN seed_constraint(op, mods).src_types :
              1 \in DOMAIN seed_constraint(op, mods).dst_types
         /\ seed_constraint(op, mods).transparent \in BOOLEAN
<1> DEFINE Fine(c) ==
      /\ \A n \in DOMAIN c.dst_types :
           1 \in DOMAIN c.dst_types /\ c.dst_types[n] = c.dst_types[1]
      /\ \A n \in DOMAIN c.src_types : 1 \in DOMAIN c.dst_types
      /\ c.transparent \in BOOLEAN
<1>1. ASSUME NEW a, NEW b, NEW f \in BOOLEAN
      PROVE  /\ Fine(Constraint(<<>>, <<>>, f))
             /\ Fine(Constraint(<<a>>, <<>>, f))
             /\ Fine(Constraint(<<a>>, <<b>>, f))
             /\ Fine(Constraint(<<a>>, <<b, b>>, f))
             /\ Fine(Constraint(<<a, a>>, <<b, b>>, f))
  BY DEF Constraint
<1> HIDE DEF Fine
<1>2. Fine(seed_constraint(op, mods))
  BY <1>1, Zenon DEF seed_constraint
<1>3. QED
  BY <1>2 DEF Fine

(* A transparent row names no class. *)
LEMMA TransparentRows ==
  ASSUME NEW op, NEW mods, seed_constraint(op, mods).transparent
  PROVE  seed_constraint(op, mods).dst_types = <<>> /\ seed_constraint(op, mods).src_types = <<>>
<1> DEFINE Fine(c) == c.transparent => c.dst_types = <<>> /\ c.src_types = <<>>
<1>1. ASSUME NEW a, NEW b
      PROVE  Fine(Constraint(a, b, FALSE)) /\ Fine(Constraint(<<>>, <<>>, TRUE))
  BY DEF Constraint
<1> HIDE DEF Fine
<1>2. Fine(seed_constraint(op, mods))
  BY <1>1, Zenon DEF seed_constraint
<1>3. QED
  BY <1>2 DEF Fine

(* The updates a register contributes type registers of the program. *)
LEMMA UpdatesTyped ==
  ASSUME NEW p, NEW r, NEW current
  PROVE  Updates(p, r, current) \subseteq RegsOf(p) \X ConcreteType
  BY DEF Updates, Pushes, RegsOf

(* So do the seeds. *)
LEMMA SeedsTyped ==
  ASSUME NEW p \in Programs
  PROVE  Seeds(p) \subseteq RegsOf(p) \X ConcreteType
<1> SUFFICES ASSUME NEW u \in Seeds(p)
             PROVE  u \in RegsOf(p) \X ConcreteType
  OBVIOUS
<1>1. PICK i \in DOMAIN p :
        \/ u \in Zipped(p[i].dsts, seed_constraint(p[i].op, p[i].modifiers).dst_types)
        \/ u \in Zipped(p[i].srcs, seed_constraint(p[i].op, p[i].modifiers).src_types)
  BY DEF Seeds
<1>2. CASE u \in Zipped(p[i].dsts, seed_constraint(p[i].op, p[i].modifiers).dst_types)
  BY <1>2, RowsConcrete, ProgramsAssumption DEF Zipped, RegsOf, Occurs
<1>3. CASE u \in Zipped(p[i].srcs, seed_constraint(p[i].op, p[i].modifiers).src_types)
  BY <1>3, RowsConcrete, ProgramsAssumption DEF Zipped, RegsOf, Occurs
<1>4. QED
  BY <1>1, <1>2, <1>3

(* A register with more classes contributes more updates. *)
LEMMA UpdatesMonotone ==
  ASSUME NEW p, NEW r, NEW a, NEW b, a \subseteq b
  PROVE  Updates(p, r, a) \subseteq Updates(p, r, b)
<1>1. ASSUME NEW flow, NEW row
      PROVE  Propagated(flow, a, row) \subseteq Propagated(flow, b, row)
  BY DEF Propagated
<1>2. ASSUME NEW inst
      PROVE  Pushes(inst, r, a) \subseteq Pushes(inst, r, b)
  BY <1>1 DEF Pushes
<1>3. QED
  BY <1>2 DEF Updates

(* Hence more is derivable from a larger assignment. *)
LEMMA DerivableMonotone ==
  ASSUME NEW p,
         NEW k, DOMAIN k = RegsOf(p),
         NEW c, Below(k, c)
  PROVE  Derivable(p, k) \subseteq Derivable(p, c)
<1>1. ASSUME NEW r \in RegsOf(p)
      PROVE  Updates(p, r, k[r]) \subseteq Updates(p, r, c[r])
  BY UpdatesMonotone DEF Below
<1>2. QED
  BY <1>1 DEF Derivable, SweepUpdates

(* What is derivable types registers of the program. *)
LEMMA DerivableTyped ==
  ASSUME NEW p \in Programs, NEW k
  PROVE  Derivable(p, k) \subseteq RegsOf(p) \X ConcreteType
  BY SeedsTyped, UpdatesTyped DEF Derivable, SweepUpdates

-----------------------------------------------------------------------------

UpdatesDerivable == updates \subseteq Derivable(prog, Known)

SoundInv == \A c \in Assignments(prog) : Closed(prog, c) => Below(Known, c)

SeedsInv ==
  \A u \in Seeds(prog) : Holds(Known, u) \/ (pc = "seed" /\ u \in updates)

SweepInv ==
  pc = "sweep" /\ ~changed =>
    \A u \in SweepUpdates(prog, Known) : Holds(Known, u) \/ u \in updates

ClosedInv == pc \in {"detect_psi", "done"} => Closed(prog, Known)

IInv ==
  /\ TypeOK
  /\ UnknownIsAlone
  /\ UpdatesDerivable
  /\ SoundInv
  /\ SeedsInv
  /\ SweepInv
  /\ ClosedInv

(* The known classes are an assignment. *)
LEMMA KnownTyped ==
  ASSUME TypeOK
  PROVE  Known \in Assignments(prog)
  BY DEF TypeOK, Known, Get, Assignments, TypeClass

(* Applying an update adds its class to its register, and nothing else. *)
LEMMA ApplyAdds ==
  ASSUME TypeOK, NEW u \in updates, types' = Applied(u), prog' = prog
  PROVE  /\ types' \in [RegsOf(prog) -> SUBSET TypeClass]
         /\ Known' = [Known EXCEPT ![u[1]] = @ \cup {u[2]}]
         /\ Below(Known, Known')
         /\ Holds(Known', u)
         /\ \A v \in RegsOf(prog) \X ConcreteType :
              Holds(Known', v) <=> Holds(Known, v) \/ v = u
<1>1. u \in RegsOf(prog) \X ConcreteType /\ u = <<u[1], u[2]>>
  BY DEF TypeOK
<1>2. u[2] # "Unknown"
  BY <1>1 DEF ConcreteType
<1>3. types' \in [RegsOf(prog) -> SUBSET TypeClass]
  BY <1>1 DEF TypeOK, Applied, TypeClass
<1>4. \A r \in RegsOf(prog) :
        Get(types', r) = IF r = u[1] THEN Get(types, r) \cup {u[2]} ELSE Get(types, r)
  BY <1>1, <1>2 DEF TypeOK, Applied, Get
<1>5. Known' = [r \in RegsOf(prog) |->
                  IF r = u[1] THEN Known[r] \cup {u[2]} ELSE Known[r]]
  BY <1>4 DEF Known
<1>6. Known' = [Known EXCEPT ![u[1]] = @ \cup {u[2]}]
  BY <1>5 DEF Known
<1>7. Below(Known, Known') /\ Holds(Known', u)
  BY <1>1, <1>5 DEF Below, Known, Holds
<1>8. \A v \in RegsOf(prog) \X ConcreteType :
        Holds(Known', v) <=> Holds(Known, v) \/ v = u
  BY <1>1, <1>5 DEF Holds
<1>9. QED
  BY <1>3, <1>6, <1>7, <1>8

(* An update that changes nothing leaves the sets as they are. *)
LEMMA UnchangedByApply ==
  ASSUME TypeOK, NEW u \in updates, ~Changes(u)
  PROVE  Applied(u) = types
  BY DEF TypeOK, Changes, Applied

(***************************************************************************)
(* The invariant holds initially ...                                       *)
(***************************************************************************)
LEMMA InitIInv == Init => IInv
<1> SUFFICES ASSUME Init PROVE IInv
  OBVIOUS
<1>1. TypeOK
  BY SeedsTyped DEF Init, TypeOK, TypeClass, Phase
<1>2. Known = [r \in RegsOf(prog) |-> {}]
  BY DEF Init, Known, Get
<1>3. UpdatesDerivable /\ SeedsInv
  BY DEF Init, UpdatesDerivable, SeedsInv, Derivable
<1>4. SoundInv
  BY <1>2 DEF SoundInv, Below
<1>5. UnknownIsAlone /\ SweepInv /\ ClosedInv
  BY DEF Init, UnknownIsAlone, SweepInv, ClosedInv
<1>6. QED
  BY <1>1, <1>3, <1>4, <1>5 DEF IInv

(***************************************************************************)
(* ... every application of an update keeps it ...                         *)
(***************************************************************************)
LEMMA ApplyKeeps ==
  ASSUME IInv, NEW u \in updates,
         types' = Applied(u), prog' = prog, updates' = updates \ {u}
  PROVE  /\ UpdatesDerivable'
         /\ UnknownIsAlone'
         /\ SoundInv'
<1>1. TypeOK /\ prog \in Programs /\ u \in RegsOf(prog) \X ConcreteType
  BY DEF IInv, TypeOK
<1>2. Below(Known, Known') /\ DOMAIN Known = RegsOf(prog)
  BY <1>1, ApplyAdds DEF Known
<1>3. UpdatesDerivable'
  <2>1. Derivable(prog, Known) \subseteq Derivable(prog, Known')
    BY <1>2, DerivableMonotone
  <2>2. QED
    BY <2>1 DEF IInv, UpdatesDerivable
<1>4. UnknownIsAlone'
  <2>1. \A r \in RegsOf(prog) :
          types'[r] = IF r = u[1] THEN (types[r] \ {"Unknown"}) \cup {u[2]} ELSE types[r]
    BY <1>1 DEF TypeOK, Applied
  <2>2. u[2] # "Unknown"
    BY <1>1 DEF ConcreteType
  <2>3. ASSUME NEW r \in RegsOf(prog), "Unknown" \in types'[r]
        PROVE  types'[r] = {"Unknown"}
    <3>1. r # u[1]
      BY <2>1, <2>2, <2>3
    <3>2. types'[r] = types[r]
      BY <2>1, <3>1, Zenon
    <3>3. QED
      BY <2>3, <3>2, Zenon DEF IInv, UnknownIsAlone
  <2>4. QED
    BY <2>3, Zenon DEF UnknownIsAlone
<1>5. SoundInv'
  <2> SUFFICES ASSUME NEW c \in Assignments(prog), Closed(prog, c)
               PROVE  Below(Known', c)
    BY DEF SoundInv
  <2>1. Below(Known, c)
    BY DEF IInv, SoundInv
  <2>2. Holds(c, u)
    BY <1>2, <2>1, DerivableMonotone DEF IInv, UpdatesDerivable, Closed
  <2>3. Known' = [Known EXCEPT ![u[1]] = @ \cup {u[2]}]
    BY <1>1, ApplyAdds
  <2>4. QED
    BY <1>2, <2>1, <2>2, <2>3 DEF Below, Holds
<1>6. QED
  BY <1>3, <1>4, <1>5

(***************************************************************************)
(* ... and so does every step.                                             *)
(***************************************************************************)
LEMMA NextIInv == IInv /\ [Next]_vars => IInv'
<1> SUFFICES ASSUME IInv, [Next]_vars PROVE IInv'
  OBVIOUS
<1>1. TypeOK /\ prog \in Programs
  BY DEF IInv, TypeOK
<1>2. Known \in Assignments(prog) /\ DOMAIN Known = RegsOf(prog)
  BY <1>1, KnownTyped DEF Known
<1>3. ASSUME ApplyAndQueue PROVE IInv'
  <2>1. PICK u \in updates :
          /\ types' = Applied(u)
          /\ worklist' = IF Changes(u) THEN Append(worklist, u[1]) ELSE worklist
          /\ updates' = updates \ {u}
    BY <1>3 DEF ApplyAndQueue
  <2>2. /\ pc \in {"seed", "propagate"}
        /\ prog' = prog /\ changed' = changed /\ iteration' = iteration
        /\ psi' = psi /\ pc' = pc
    BY <1>3 DEF ApplyAndQueue
  <2>3. u \in RegsOf(prog) \X ConcreteType
    BY <1>1 DEF TypeOK
  <2>4. TypeOK'
    BY <1>1, <2>1, <2>2, <2>3, ApplyAdds DEF TypeOK
  <2>5. UpdatesDerivable' /\ UnknownIsAlone' /\ SoundInv'
    BY <2>1, <2>2, ApplyKeeps
  <2>6. SeedsInv'
    BY <1>1, <2>1, <2>2, ApplyAdds, SeedsTyped DEF IInv, SeedsInv
  <2>7. SweepInv' /\ ClosedInv'
    BY <2>2 DEF SweepInv, ClosedInv
  <2>8. QED
    BY <2>4, <2>5, <2>6, <2>7 DEF IInv
<1>4. ASSUME SeedsApplied PROVE IInv'
  BY <1>4 DEF SeedsApplied, IInv, TypeOK, Phase, UnknownIsAlone, UpdatesDerivable,
              SoundInv, SeedsInv, SweepInv, ClosedInv, Known, Get
<1>5. ASSUME PopRegister PROVE IInv'
  <2> DEFINE r == Head(worklist)
  <2>1. r \in RegsOf(prog) /\ Tail(worklist) \in Seq(RegsOf(prog))
    BY <1>1, <1>5 DEF PopRegister, TypeOK
  <2>2. updates' = Updates(prog, r, Known[r]) /\ Known' = Known
    BY <1>5, <2>1 DEF PopRegister, Known, Get
  <2>3. TypeOK'
    BY <1>1, <1>5, <2>1, <2>2, UpdatesTyped DEF PopRegister, TypeOK
  <2>4. UpdatesDerivable'
    BY <1>5, <2>1, <2>2 DEF PopRegister, UpdatesDerivable, Derivable, SweepUpdates
  <2>5. SeedsInv' /\ SoundInv' /\ SweepInv' /\ ClosedInv' /\ UnknownIsAlone'
    BY <1>5, <2>2 DEF PopRegister, IInv, SeedsInv, SoundInv, SweepInv, ClosedInv,
                      UnknownIsAlone
  <2>6. QED
    BY <2>3, <2>4, <2>5 DEF IInv
<1>6. ASSUME WorklistEmpty PROVE IInv'
  BY <1>6 DEF WorklistEmpty, IInv, TypeOK, Phase, UnknownIsAlone, UpdatesDerivable,
              SoundInv, SeedsInv, SweepInv, ClosedInv, Known, Get
<1>7. ASSUME Collect PROVE IInv'
  <2>1. updates' = SweepUpdates(prog, Known) /\ Known' = Known
    BY <1>7 DEF Collect, Known, Get
  <2>2. TypeOK'
    <3>1. SweepUpdates(prog, Known) \subseteq RegsOf(prog) \X ConcreteType
      BY UpdatesTyped DEF SweepUpdates
    <3>2. updates' \in SUBSET (RegsOf(prog') \X ConcreteType)
      BY <1>7, <2>1, <3>1 DEF Collect
    <3>3. changed' = FALSE /\ iteration' = iteration + 1 /\ pc' = "sweep"
      BY <1>7, Zenon DEF Collect
    <3>4. prog' = prog /\ types' = types /\ worklist' = worklist /\ psi' = psi
      BY <1>7 DEF Collect
    <3>5. iteration' \in Nat
      BY <1>1, <3>3 DEF TypeOK
    <3>6. changed' \in BOOLEAN /\ pc' \in Phase
      BY <3>3 DEF Phase
    <3>7. QED
      BY <1>1, <3>2, <3>4, <3>5, <3>6, Zenon DEF TypeOK
  <2>3. UpdatesDerivable' /\ SweepInv'
    BY <1>7, <2>1 DEF Collect, UpdatesDerivable, SweepInv, Derivable
  <2>4. SeedsInv' /\ SoundInv' /\ ClosedInv' /\ UnknownIsAlone'
    BY <1>7, <2>1 DEF Collect, IInv, SeedsInv, SoundInv, ClosedInv, UnknownIsAlone
  <2>5. QED
    BY <2>2, <2>3, <2>4 DEF IInv
<1>8. ASSUME ApplyInSweep PROVE IInv'
  <2>1. PICK u \in updates :
          /\ types' = Applied(u)
          /\ changed' = (changed \/ Changes(u))
          /\ updates' = updates \ {u}
    BY <1>8 DEF ApplyInSweep
  <2>2. /\ pc = "sweep" /\ prog' = prog /\ worklist' = worklist
        /\ iteration' = iteration /\ psi' = psi /\ pc' = pc
    BY <1>8 DEF ApplyInSweep
  <2>3. TypeOK'
    <3>1. changed' \in BOOLEAN
      BY <1>1, <2>1, Zenon DEF TypeOK, Changes
    <3>2. QED
      BY <1>1, <2>1, <2>2, <3>1, ApplyAdds DEF TypeOK
  <2>4. UpdatesDerivable' /\ UnknownIsAlone' /\ SoundInv'
    BY <2>1, <2>2, ApplyKeeps
  <2>5. SeedsInv'
    BY <1>1, <2>1, <2>2, ApplyAdds, SeedsTyped DEF IInv, SeedsInv
  <2>6. SweepInv'
    <3> SUFFICES ASSUME ~changed'
                 PROVE  \A v \in SweepUpdates(prog, Known') :
                          Holds(Known', v) \/ v \in updates'
      BY <2>2 DEF SweepInv
    <3>1. ~changed /\ ~Changes(u)
      BY <2>1
    <3>2. types' = types
      BY <1>1, <2>1, <3>1, UnchangedByApply
    <3>3. Known' = Known
      BY <2>2, <3>2 DEF Known, Get
    <3>4. Holds(Known, u)
      BY <1>1, <2>1, <2>2, <3>3, ApplyAdds
    <3>5. QED
      BY <2>1, <2>2, <3>1, <3>3, <3>4 DEF IInv, SweepInv
  <2>7. ClosedInv'
    BY <2>2 DEF ClosedInv
  <2>8. QED
    BY <2>3, <2>4, <2>5, <2>6, <2>7 DEF IInv
<1>9. ASSUME SweepDone PROVE IInv'
  <2>1. Known' = Known
    BY <1>9 DEF SweepDone, Known, Get
  <2>2. TypeOK'
    BY <1>1, <1>9 DEF SweepDone, TypeOK, Phase
  <2>3. ClosedInv'
    <3> SUFFICES ASSUME ~changed PROVE Closed(prog, Known)
      BY <1>9, <2>1 DEF SweepDone, ClosedInv
    <3>1. \A u \in SweepUpdates(prog, Known) : Holds(Known, u)
      BY <1>9 DEF SweepDone, IInv, SweepInv
    <3>2. \A u \in Seeds(prog) : Holds(Known, u)
      BY <1>9 DEF SweepDone, IInv, SeedsInv
    <3>3. QED
      BY <3>1, <3>2 DEF Closed, Derivable
  <2>4. UpdatesDerivable' /\ SeedsInv' /\ SoundInv' /\ UnknownIsAlone' /\ SweepInv'
    BY <1>9, <2>1 DEF SweepDone, IInv, UpdatesDerivable, SeedsInv, SoundInv,
                      UnknownIsAlone, SweepInv
  <2>5. QED
    BY <2>2, <2>3, <2>4 DEF IInv
<1>10. ASSUME DetectPsi PROVE IInv'
  <2>1. Known' = Known
    BY <1>10 DEF DetectPsi, Known, Get
  <2>2. TypeOK'
    BY <1>1, <1>10 DEF DetectPsi, TypeOK, Phase, PsiRegs
  <2>3. /\ UpdatesDerivable' /\ SeedsInv' /\ SoundInv' /\ UnknownIsAlone'
        /\ SweepInv' /\ ClosedInv'
    BY <1>10, <2>1 DEF DetectPsi, IInv, UpdatesDerivable, SeedsInv, SoundInv,
                       UnknownIsAlone, SweepInv, ClosedInv
  <2>4. QED
    BY <2>2, <2>3 DEF IInv
<1>11. ASSUME UNCHANGED vars PROVE IInv'
  BY <1>11 DEF vars, IInv, TypeOK, UnknownIsAlone, UpdatesDerivable,
               SoundInv, SeedsInv, SweepInv, ClosedInv, Known, Get
<1>12. QED
  BY <1>3, <1>4, <1>5, <1>6, <1>7, <1>8, <1>9, <1>10, <1>11 DEF Next, Returned

(***************************************************************************)
(* The invariant holds throughout.                                         *)
(***************************************************************************)
THEOREM Invariance == Spec => []IInv
<1>1. QED
  BY InitIInv, NextIInv, PTL DEF Spec

(***************************************************************************)
(* Type correctness of the stage.                                          *)
(***************************************************************************)
THEOREM TypeCorrectness == Spec => []TypeOK
<1>1. IInv => TypeOK
  BY DEF IInv
<1>2. QED
  BY <1>1, Invariance, PTL

(***************************************************************************)
(* No set ever holds Unknown beside a concrete class.                      *)
(***************************************************************************)
THEOREM UnknownNeverMixed == Spec => []UnknownIsAlone
<1>1. IInv => UnknownIsAlone
  BY DEF IInv
<1>2. QED
  BY <1>1, Invariance, PTL

(***************************************************************************)
(* The operators of the instantiated abstract module are those of          *)
(* TypeConstraints.                                                        *)
(***************************************************************************)
LEMMA SameOperators ==
  /\ \A p : Closure!RegsOf(p) = RegsOf(p)
  /\ \A p : Closure!Assignments(p) = Assignments(p)
  /\ \A p, k : Closure!Derivable(p, k) = Derivable(p, k)
  /\ \A p, k : Closure!Closed(p, k) <=> Closed(p, k)
<1>1. ASSUME NEW regs, NEW r PROVE Closure!Occurs(regs, r) <=> Occurs(regs, r)
  BY DEF Closure!Occurs, Occurs
<1>2. ASSUME NEW p PROVE Closure!RegsOf(p) = RegsOf(p)
  BY <1>1 DEF Closure!RegsOf, RegsOf
<1>3. ASSUME NEW p PROVE Closure!Assignments(p) = Assignments(p)
  BY <1>2 DEF Closure!Assignments, Assignments, Closure!ConcreteType, ConcreteType
<1>4. ASSUME NEW op, NEW mods PROVE Closure!seed_constraint(op, mods) = seed_constraint(op, mods)
  BY DEF Closure!seed_constraint, seed_constraint, Closure!Constraint, Constraint,
         Closure!FloatOp, FloatOp, Closure!DoubleOp, DoubleOp, Closure!IntOp, IntOp,
         Closure!IntUnaryOp, IntUnaryOp, Closure!TransparentOp, TransparentOp,
         Closure!IntSourceOp, IntSourceOp, Closure!FloatType, FloatType,
         Closure!IntType, IntType, Closure!has_mod, has_mod, Closure!HasAny, HasAny,
         Closure!ModAt, ModAt
<1>5. ASSUME NEW p PROVE Closure!Seeds(p) = Seeds(p)
  BY <1>4 DEF Closure!Seeds, Seeds, Closure!Zipped, Zipped
<1>6. ASSUME NEW inst, NEW r, NEW cur
      PROVE  Closure!Pushes(inst, r, cur) = Pushes(inst, r, cur)
  BY <1>1, <1>4 DEF Closure!Pushes, Pushes, Closure!Propagated, Propagated,
                    Closure!ConcreteType, ConcreteType
<1>7. ASSUME NEW p, NEW r, NEW cur
      PROVE  Closure!Updates(p, r, cur) = Updates(p, r, cur)
  BY <1>6 DEF Closure!Updates, Updates
<1>8. ASSUME NEW p, NEW k PROVE Closure!Derivable(p, k) = Derivable(p, k)
  BY <1>2, <1>5, <1>7 DEF Closure!Derivable, Derivable, Closure!SweepUpdates, SweepUpdates
<1>9. ASSUME NEW p, NEW k PROVE Closure!Closed(p, k) <=> Closed(p, k)
  BY <1>8 DEF Closure!Closed, Closed, Closure!Holds, Holds
<1>10. QED
  BY <1>2, <1>3, <1>8, <1>9

(***************************************************************************)
(* What the stage returns solves the constraints, and no class in it can   *)
(* be left out (the property of the TypeInferRefines run).                 *)
(***************************************************************************)
THEOREM ReturnsLeastSolution == Spec => []LeastSolution
<1>1. IInv => LeastSolution
  <2> SUFFICES ASSUME IInv, pc \in {"detect_psi", "done"} PROVE
        /\ Closed(prog, Known)
        /\ \A S \in SUBSET Closure!Pairs(Known) :
             Closed(prog, Closure!FromPairs(prog, S)) => S = Closure!Pairs(Known)
    BY SameOperators DEF LeastSolution, Closure!LeastSolution
  <2>1. Closed(prog, Known)
    BY DEF IInv, ClosedInv
  <2>2. ASSUME NEW S \in SUBSET Closure!Pairs(Known),
               Closed(prog, Closure!FromPairs(prog, S))
        PROVE  Closure!Pairs(Known) \subseteq S
    <3> DEFINE c == Closure!FromPairs(prog, S)
    <3>1. c = [r \in RegsOf(prog) |-> {t \in ConcreteType : <<r, t>> \in S}]
      BY SameOperators DEF Closure!FromPairs, Closure!ConcreteType, ConcreteType
    <3>2. c \in Assignments(prog)
      BY <3>1 DEF Assignments
    <3>3. Below(Known, c)
      BY <2>2, <3>2 DEF IInv, SoundInv
    <3>4. ASSUME NEW r \in RegsOf(prog), NEW t \in Known[r]
          PROVE  <<r, t>> \in S
      BY <3>1, <3>3, <3>4 DEF Below, Known
    <3>5. QED
      BY <3>4 DEF Closure!Pairs, Known
  <2>3. QED
    BY <2>1, <2>2
<1>2. QED
  BY <1>1, Invariance, PTL

(***************************************************************************)
(* The worklist and the sweeps implement the abstract closure: a step      *)
(* derives a class, announces a closed result, or is not visible.          *)
(***************************************************************************)
THEOREM Implements == Spec => ImplementsClosure
<1> DEFINE fin == pc \in {"detect_psi", "done"}
<1>1. Init => Closure!Init
  BY SameOperators DEF Init, Closure!Init, Known, Get
<1>2. IInv /\ [Next]_vars => [Closure!Next]_<<prog, Known, fin>>
  <2> SUFFICES ASSUME IInv, [Next]_vars
               PROVE  [Closure!Next]_<<prog, Known, fin>>
    OBVIOUS
  <2>1. ASSUME NEW u \in updates, types' = Applied(u), prog' = prog, pc' = pc,
               pc \in {"seed", "propagate", "sweep"}
        PROVE  Closure!Derive \/ UNCHANGED <<prog, Known, fin>>
    <3>1. Known' = [Known EXCEPT ![u[1]] = @ \cup {u[2]}]
      BY <2>1, ApplyAdds DEF IInv
    <3>2. u \in Closure!Derivable(prog, Known)
      BY SameOperators DEF IInv, UpdatesDerivable
    <3>3. QED
      BY <2>1, <3>1, <3>2 DEF Closure!Derive
  <2>2. CASE ApplyAndQueue
    BY <2>1, <2>2 DEF ApplyAndQueue, Closure!Next
  <2>3. CASE ApplyInSweep
    BY <2>1, <2>3 DEF ApplyInSweep, Closure!Next
  <2>4. ASSUME prog' = prog, types' = types PROVE Known' = Known
    BY <2>4 DEF Known, Get
  <2>5. CASE SeedsApplied \/ PopRegister \/ WorklistEmpty \/ Collect
    BY <2>4, <2>5 DEF SeedsApplied, PopRegister, WorklistEmpty, Collect
  <2>6. CASE SweepDone
    <3>1. Known' = Known /\ prog' = prog /\ ~fin
      BY <2>4, <2>6 DEF SweepDone
    <3>2. CASE changed
      BY <2>6, <3>1, <3>2 DEF SweepDone
    <3>3. CASE ~changed
      <4>1. IInv'
        BY NextIInv
      <4>2. fin' /\ Closed(prog, Known)
        BY <2>6, <3>1, <3>3, <4>1 DEF SweepDone, IInv, ClosedInv
      <4>3. QED
        BY <3>1, <4>2, SameOperators DEF Closure!Next, Closure!Finish
    <3>4. QED
      BY <3>2, <3>3
  <2>7. CASE DetectPsi
    BY <2>4, <2>7 DEF DetectPsi
  <2>8. CASE UNCHANGED vars
    BY <2>4, <2>8 DEF vars
  <2>9. QED
    BY <2>2, <2>3, <2>5, <2>6, <2>7, <2>8 DEF Next, Returned
<1>3. QED
  BY <1>1, <1>2, Invariance, PTL
    DEF Spec, ImplementsClosure, Closure!Spec, Closure!vars

-----------------------------------------------------------------------------
(***************************************************************************)
(* The RPO sweep after the worklist changes nothing.                       *)
(*                                                                         *)
(* The worklist's own invariant: a register with classes is queued, or     *)
(* everything it pushes has been applied or is about to be.  When the      *)
(* worklist is empty the sets are therefore closed under the pushes of     *)
(* registers with classes, and for instructions of at most one destination *)
(* the seeds cover the pushes of the others.                               *)
(***************************************************************************)
SingleDestination(p) == \A i \in DOMAIN p : DOMAIN p[i].dsts \subseteq {1}

Queued(r) == \E n \in DOMAIN worklist : worklist[n] = r

Settled(r) ==
  \A u \in Updates(prog, r, Known[r]) :
    Holds(Known, u) \/ (pc = "propagate" /\ u \in updates)

WorklistInv ==
  pc \in {"seed", "propagate"} =>
    \A r \in RegsOf(prog) : Known[r] # {} => Queued(r) \/ Settled(r)

IterationInv ==
  /\ pc \in {"seed", "propagate", "collect"} => iteration = 0 
  /\ pc \in {"sweep", "detect_psi", "done"} => iteration = 1

NothingLeft ==
  /\ pc = "collect" => \A u \in SweepUpdates(prog, Known) : Holds(Known, u)
  /\ pc = "sweep" => ~changed /\ \A u \in updates : Holds(Known, u)

IdleInv == WorklistInv /\ IterationInv /\ NothingLeft

(* An update that is already known changes nothing. *)
LEMMA KnownChangesNothing ==
  ASSUME IInv, NEW u \in updates, Holds(Known, u)
  PROVE  ~Changes(u)
<1>1. u \in RegsOf(prog) \X ConcreteType
  BY DEF IInv, TypeOK
<1>2. u[2] \in types[u[1]] /\ u[2] # "Unknown"
  BY <1>1 DEF Holds, Known, Get
<1>3. QED
  BY <1>1, <1>2 DEF IInv, UnknownIsAlone, Changes

(* Where only registers with classes have been processed, the seeds cover *)
(* what the others would push.                                            *)
LEMMA SeedsCover ==
  ASSUME NEW p \in Programs, SingleDestination(p),
         NEW k \in Assignments(p),
         \A u \in Seeds(p) : Holds(k, u),
         NEW r \in RegsOf(p), k[r] = {},
         NEW u \in Updates(p, r, {})
  PROVE  Holds(k, u)
<1>1. PICK i \in DOMAIN p : u \in Pushes(p[i], r, {})
  BY DEF Updates
<1> DEFINE c == seed_constraint(p[i].op, p[i].modifiers)
<1>2. Zipped(p[i].dsts, c.dst_types) \subseteq Seeds(p)
  BY DEF Seeds
<1>3. ~c.transparent
  BY <1>1, RowsUniform DEF Pushes, Propagated
<1>4. ASSUME 1 \in DOMAIN c.dst_types, NEW d, Occurs(p[i].dsts, d)
      PROVE  <<d, c.dst_types[1]>> \in Seeds(p)
  BY <1>2, <1>4 DEF SingleDestination, Occurs, Zipped
<1>5. CASE /\ Occurs(p[i].dsts, u[1])
           /\ u[2] \in Propagated(c.transparent, {}, c.dst_types)
  <2>1. 1 \in DOMAIN c.dst_types /\ u[2] = c.dst_types[1]
    BY <1>3, <1>5, RowsUniform DEF Propagated
  <2>2. <<u[1], u[2]>> \in Seeds(p)
    BY <1>4, <1>5, <2>1
  <2>3. QED
    BY <2>2 DEF Holds
<1>6. CASE /\ Occurs(p[i].dsts, r)
           /\ u[2] \in Propagated(c.transparent, {}, c.src_types)
  <2>1. 1 \in DOMAIN c.dst_types
    BY <1>3, <1>6, RowsUniform DEF Propagated
  <2>2. <<r, c.dst_types[1]>> \in Seeds(p)
    BY <1>4, <1>6, <2>1
  <2>3. c.dst_types[1] \in k[r]
    BY <2>2 DEF Holds
  <2>4. QED
    BY <2>3
<1>7. QED
  BY <1>1, <1>5, <1>6 DEF Pushes

(* The worklist invariant survives the application of an update, ... *)
LEMMA ApplyKeepsWorklist ==
  ASSUME IInv, WorklistInv, ApplyAndQueue
  PROVE  WorklistInv'
<1>1. PICK u \in updates :
        /\ types' = Applied(u)
        /\ worklist' = IF Changes(u) THEN Append(worklist, u[1]) ELSE worklist
        /\ updates' = updates \ {u}
  BY DEF ApplyAndQueue
<1>2. /\ TypeOK /\ u \in RegsOf(prog) \X ConcreteType /\ worklist \in Seq(RegsOf(prog))
      /\ prog' = prog /\ pc' = pc /\ pc \in {"seed", "propagate"}
  BY DEF IInv, TypeOK, ApplyAndQueue
<1>3. \A q \in RegsOf(prog) : Queued(q) => Queued(q)'
  BY <1>1, <1>2 DEF Queued
<1>4. \A v \in RegsOf(prog) \X ConcreteType :
        Holds(Known', v) <=> Holds(Known, v) \/ v = u
  BY <1>1, <1>2, ApplyAdds
<1>5. CASE Changes(u)
  <2> SUFFICES ASSUME NEW r \in RegsOf(prog), Known'[r] # {}
               PROVE  Queued(r)' \/ Settled(r)'
    BY <1>2 DEF WorklistInv
  <2>1. CASE r = u[1]
    <3>1. worklist' = Append(worklist, r)
      BY <1>1, <1>5, <2>1
    <3>2. QED
      BY <1>2, <3>1 DEF Queued
  <2>2. CASE r # u[1]
    <3>1. Known'[r] = Known[r]
      BY <1>1, <1>2, <2>2, ApplyAdds DEF Known
    <3>2. Queued(r) \/ Settled(r)
      BY <1>2, <3>1 DEF WorklistInv
    <3>3. Settled(r) => Settled(r)'
      BY <1>1, <1>2, <1>4, <3>1, UpdatesTyped DEF Settled
    <3>4. QED
      BY <1>3, <3>2, <3>3
  <2>3. QED
    BY <2>1, <2>2
<1>6. CASE ~Changes(u)
  <2>1. Known' = Known
    BY <1>1, <1>2, <1>6, UnchangedByApply DEF Known, Get
  <2>2. ASSUME NEW r \in RegsOf(prog), Settled(r) PROVE Settled(r)'
    BY <1>1, <1>2, <1>4, <2>1, <2>2, UpdatesTyped DEF Settled
  <2>3. QED
    BY <1>2, <1>3, <2>1, <2>2 DEF WorklistInv
<1>7. QED
  BY <1>5, <1>6

(* ... and a pop, which settles the register it takes out. *)
LEMMA PopKeepsWorklist ==
  ASSUME IInv, WorklistInv, PopRegister
  PROVE  WorklistInv'
<1> DEFINE h == Head(worklist)
<1>1. /\ TypeOK /\ worklist \in Seq(RegsOf(prog)) /\ worklist # <<>>
      /\ h \in RegsOf(prog)
      /\ prog' = prog /\ pc' = pc /\ pc = "propagate" /\ updates = {}
      /\ worklist' = Tail(worklist)
  BY DEF IInv, TypeOK, PopRegister
<1>2. Known' = Known /\ updates' = Updates(prog, h, Known[h])
  BY <1>1 DEF PopRegister, Known, Get
<1> SUFFICES ASSUME NEW r \in RegsOf(prog), Known[r] # {}
             PROVE  Queued(r)' \/ Settled(r)'
  BY <1>1, <1>2 DEF WorklistInv
<1>3. CASE r = h
  BY <1>1, <1>2, <1>3 DEF Settled
<1>4. CASE r # h
  <2>1. CASE Queued(r)
    <3>1. PICK n \in DOMAIN worklist : worklist[n] = r
      BY <2>1 DEF Queued
    <3>2. n # 1 /\ n \in 1..Len(worklist)
      BY <1>1, <1>4, <3>1
    <3>3. n - 1 \in DOMAIN Tail(worklist) /\ Tail(worklist)[n - 1] = r
      BY <1>1, <3>1, <3>2
    <3>4. QED
      BY <1>1, <3>3 DEF Queued
  <2>2. CASE Settled(r)
    BY <1>1, <1>2, <2>2 DEF Settled
  <2>3. QED
    BY <1>1, <2>1, <2>2 DEF WorklistInv
<1>5. QED
  BY <1>3, <1>4

(* Every step keeps the idle invariant. *)
LEMMA NextIdleInv ==
  ASSUME \A p \in Programs : SingleDestination(p),
         IInv, IdleInv, [Next]_vars
  PROVE  IdleInv'
<1>1. TypeOK /\ prog \in Programs
  BY DEF IInv, TypeOK
<1>2. CASE ApplyAndQueue
  <2>1. WorklistInv'
    BY <1>2, ApplyKeepsWorklist DEF IdleInv
  <2>2. IterationInv' /\ NothingLeft'
    BY <1>2 DEF ApplyAndQueue, IdleInv, IterationInv, NothingLeft
  <2>3. QED
    BY <2>1, <2>2 DEF IdleInv
<1>3. CASE SeedsApplied
  <2>1. Known' = Known
    BY <1>3 DEF SeedsApplied, Known, Get
  <2>2. WorklistInv'
    BY <1>3, <2>1 DEF SeedsApplied, IdleInv, WorklistInv, Queued, Settled
  <2>3. QED
    BY <1>3, <2>2 DEF SeedsApplied, IdleInv, IterationInv, NothingLeft
<1>4. CASE PopRegister
  <2>1. WorklistInv'
    BY <1>4, PopKeepsWorklist DEF IdleInv
  <2>2. IterationInv' /\ NothingLeft'
    BY <1>4 DEF PopRegister, IdleInv, IterationInv, NothingLeft
  <2>3. QED
    BY <2>1, <2>2 DEF IdleInv
<1>5. CASE WorklistEmpty
  <2>1. Known' = Known /\ Known \in Assignments(prog)
    BY <1>1, <1>5, KnownTyped DEF WorklistEmpty, Known, Get
  <2>2. ASSUME NEW r \in RegsOf(prog), NEW u \in Updates(prog, r, Known[r])
        PROVE  Holds(Known, u)
    <3>1. CASE Known[r] # {}
      BY <1>5, <3>1 DEF WorklistEmpty, IdleInv, WorklistInv, Queued, Settled
    <3>2. CASE Known[r] = {}
      <4>1. \A v \in Seeds(prog) : Holds(Known, v)
        BY <1>5 DEF WorklistEmpty, IInv, SeedsInv
      <4>2. QED
        BY <1>1, <2>1, <3>2, <4>1, SeedsCover
    <3>3. QED
      BY <3>1, <3>2
  <2>3. \A u \in SweepUpdates(prog, Known) : Holds(Known, u)
    BY <2>2 DEF SweepUpdates
  <2>4. NothingLeft'
    BY <1>5, <2>1, <2>3 DEF WorklistEmpty, NothingLeft
  <2>5. WorklistInv' /\ IterationInv'
    BY <1>5 DEF WorklistEmpty, IdleInv, WorklistInv, IterationInv
  <2>6. QED
    BY <2>4, <2>5 DEF IdleInv
<1>6. CASE Collect
  <2>1. Known' = Known
    BY <1>6 DEF Collect, Known, Get
  <2>2. /\ pc = "collect" /\ pc' = "sweep" /\ changed' = FALSE
        /\ iteration' = iteration + 1 /\ updates' = SweepUpdates(prog, Known)
    BY <1>6, Zenon DEF Collect
  <2>3. NothingLeft'
    BY <2>1, <2>2 DEF IdleInv, NothingLeft
  <2>4. iteration' = 1
    BY <2>2 DEF IdleInv, IterationInv
  <2>5. WorklistInv' /\ IterationInv'
    BY <2>2, <2>4 DEF WorklistInv, IterationInv
  <2>6. QED
    BY <2>3, <2>5 DEF IdleInv
<1>7. CASE ApplyInSweep
  <2>1. PICK u \in updates :
          /\ types' = Applied(u)
          /\ changed' = (changed \/ Changes(u))
          /\ updates' = updates \ {u}
    BY <1>7 DEF ApplyInSweep
  <2>2. pc = "sweep" /\ pc' = pc /\ prog' = prog /\ iteration' = iteration
    BY <1>7 DEF ApplyInSweep
  <2>3. ~changed /\ Holds(Known, u)
    BY <2>2 DEF IdleInv, NothingLeft
  <2>4. ~Changes(u)
    BY <2>3, KnownChangesNothing
  <2>5. ~changed' /\ Known' = Known
    BY <1>1, <2>1, <2>2, <2>3, <2>4, UnchangedByApply DEF Known, Get
  <2>6. NothingLeft'
    BY <2>1, <2>2, <2>5 DEF IdleInv, NothingLeft
  <2>7. WorklistInv' /\ IterationInv'
    BY <2>2 DEF IdleInv, WorklistInv, IterationInv
  <2>8. QED
    BY <2>6, <2>7 DEF IdleInv
<1>8. CASE SweepDone
  <2>1. pc = "sweep" /\ pc' = "detect_psi" /\ iteration' = iteration
    BY <1>8 DEF SweepDone, IdleInv, NothingLeft
  <2>2. QED
    BY <2>1 DEF IdleInv, WorklistInv, IterationInv, NothingLeft
<1>9. CASE DetectPsi
  BY <1>9 DEF DetectPsi, IdleInv, WorklistInv, IterationInv, NothingLeft
<1>10. CASE UNCHANGED vars
  <2>1. Known' = Known
    BY <1>10 DEF vars, Known, Get
  <2>2. QED
    BY <1>10, <2>1 DEF vars, IdleInv, WorklistInv, IterationInv, NothingLeft, Queued, Settled
<1>11. QED
  BY <1>2, <1>3, <1>4, <1>5, <1>6, <1>7, <1>8, <1>9, <1>10 DEF Next, Returned

(***************************************************************************)
(* For every program whose instructions have at most one destination, as   *)
(* the parser's do, propagate_rpo makes one sweep and it changes nothing.  *)
(***************************************************************************)
THEOREM SweepIsIdle ==
  ASSUME \A p \in Programs : SingleDestination(p)
  PROVE  Spec => []OneIdleSweep
<1>1. Init => IdleInv
  <2> SUFFICES ASSUME Init PROVE IdleInv
    OBVIOUS
  <2>1. \A r \in RegsOf(prog) : Known[r] = {}
    BY DEF Init, Known, Get
  <2>2. QED
    BY <2>1 DEF Init, IdleInv, WorklistInv, IterationInv, NothingLeft
<1>2. IInv /\ IdleInv /\ [Next]_vars => IdleInv'
  BY NextIdleInv
<1>3. IdleInv => OneIdleSweep
  BY DEF IdleInv, IterationInv, OneIdleSweep
<1>4. QED
  BY <1>1, <1>2, <1>3, Invariance, PTL DEF Spec

-----------------------------------------------------------------------------
(***************************************************************************)
(* The result as a function of the program.  The reference is a solution,  *)
(* so the sets, which are in every solution, are in it; and a solution     *)
(* gives each register its direct classes and those of its cluster.        *)
(***************************************************************************)
(* The set of a cluster's definition: joined registers are both in or both out. *)
JoinClosed(p, S) == \A a, b \in RegsOf(p) : Linked(p, a, b) => (a \in S <=> b \in S)

LEMMA ClusterMeets ==
  ASSUME NEW p, NEW r \in RegsOf(p)
  PROVE  /\ r \in Cluster(p, r)
         /\ \A q \in Cluster(p, r) : \A S \in SUBSET RegsOf(p) :
              r \in S /\ JoinClosed(p, S) => q \in S
  BY DEF Cluster, JoinClosed

(* Joined registers are of one cluster. *)
LEMMA LinkedShare ==
  ASSUME NEW p, NEW a \in RegsOf(p), NEW b \in RegsOf(p), Linked(p, a, b)
  PROVE  Cluster(p, a) = Cluster(p, b)
<1>1. \A S \in SUBSET RegsOf(p) : JoinClosed(p, S) => (a \in S <=> b \in S)
  BY DEF JoinClosed
<1>2. \A r \in RegsOf(p) :
        Cluster(p, r) = {q \in RegsOf(p) : \A S \in SUBSET RegsOf(p) :
                                             r \in S /\ JoinClosed(p, S) => q \in S}
  BY Zenon DEF Cluster, JoinClosed
<1>3. QED
  BY <1>1, <1>2

(* A register has the direct classes of its cluster, its own among them. *)
LEMMA ResolvedHas ==
  ASSUME NEW p, NEW r \in RegsOf(p)
  PROVE  DirectClasses(p, r) \subseteq Resolved(p, r)
  BY ClusterMeets DEF Resolved

Reference(p) == [r \in RegsOf(p) |-> Resolved(p, r)]

(* The two sides of a row give their classes directly. *)
LEMMA DirectOfDestination ==
  ASSUME NEW p, NEW i \in DOMAIN p, NEW r, Occurs(p[i].dsts, r),
         NEW n \in DOMAIN seed_constraint(p[i].op, p[i].modifiers).dst_types
  PROVE  seed_constraint(p[i].op, p[i].modifiers).dst_types[n] \in DirectClasses(p, r)
<1>1. i \in DefsOf(p, r)
  BY DEF DefsOf
<1>2. seed_constraint(p[i].op, p[i].modifiers).dst_types[n] \in RowClasses(seed_constraint(p[i].op, p[i].modifiers).dst_types)
  BY DEF RowClasses
<1>3. QED
  BY <1>1, <1>2 DEF DirectClasses

LEMMA DirectOfSource ==
  ASSUME NEW p, NEW i \in DOMAIN p, NEW r, Occurs(p[i].srcs, r), p[i].dsts # <<>>,
         NEW n \in DOMAIN seed_constraint(p[i].op, p[i].modifiers).src_types
  PROVE  seed_constraint(p[i].op, p[i].modifiers).src_types[n] \in DirectClasses(p, r)
<1>1. seed_constraint(p[i].op, p[i].modifiers).src_types[n] \in RowClasses(seed_constraint(p[i].op, p[i].modifiers).src_types)
  BY DEF RowClasses
<1>2. QED
  BY <1>1 DEF DirectClasses

LEMMA DirectOfPlace ==
  ASSUME NEW p, NEW i \in DOMAIN p, p[i].dsts = <<>>,
         NEW n \in DOMAIN seed_constraint(p[i].op, p[i].modifiers).src_types \cap DOMAIN p[i].srcs
  PROVE  seed_constraint(p[i].op, p[i].modifiers).src_types[n] \in DirectClasses(p, p[i].srcs[n])
<1> DEFINE r == p[i].srcs[n]
           c == seed_constraint(p[i].op, p[i].modifiers)
           row(j) == seed_constraint(p[j].op, p[j].modifiers)
           placed(j) == {row(j).src_types[m] : m \in {k \in DOMAIN row(j).src_types
                                                          \cap DOMAIN p[j].srcs : p[j].srcs[k] = r}}
           given(j) == IF p[j].dsts # <<>> THEN RowClasses(row(j).src_types) ELSE placed(j)
           reading == {j \in DOMAIN p : Occurs(p[j].srcs, r)}
<1>1. i \in reading
  BY DEF Occurs
<1>2. c.src_types[n] \in placed(i)
  OBVIOUS
<1>3. DirectClasses(p, r)
        = UNION ({RowClasses(row(j).dst_types) : j \in DefsOf(p, r)} \cup {given(j) : j \in reading})
  BY Zenon DEF DirectClasses
<1> HIDE DEF placed, row, reading, c
<1>4. given(i) = placed(i)
  OBVIOUS
<1> HIDE DEF given
<1>5. QED
  BY <1>1, <1>2, <1>3, <1>4 DEF c

(* The direct classes of a register, by the instruction they come from. *)
LEMMA DirectSources ==
  ASSUME NEW p, NEW r, NEW t \in DirectClasses(p, r)
  PROVE  \E i \in DOMAIN p :
           LET c == seed_constraint(p[i].op, p[i].modifiers)
           IN  \/ /\ Occurs(p[i].dsts, r)
                  /\ \E n \in DOMAIN c.dst_types : t = c.dst_types[n]
               \/ /\ Occurs(p[i].srcs, r) /\ p[i].dsts # <<>>
                  /\ \E n \in DOMAIN c.src_types : t = c.src_types[n]
               \/ /\ p[i].dsts = <<>>
                  /\ \E n \in DOMAIN c.src_types \cap DOMAIN p[i].srcs :
                       p[i].srcs[n] = r /\ t = c.src_types[n]
<1>1. CASE \E i \in DefsOf(p, r) : t \in RowClasses(seed_constraint(p[i].op, p[i].modifiers).dst_types)
  BY <1>1 DEF DefsOf, RowClasses
<1>2. CASE \E i \in {j \in DOMAIN p : Occurs(p[j].srcs, r)} :
             p[i].dsts # <<>> /\ t \in RowClasses(seed_constraint(p[i].op, p[i].modifiers).src_types)
  BY <1>2 DEF RowClasses
<1>3. CASE \E i \in {j \in DOMAIN p : Occurs(p[j].srcs, r)} :
             /\ p[i].dsts = <<>>
             /\ \E n \in DOMAIN seed_constraint(p[i].op, p[i].modifiers).src_types \cap DOMAIN p[i].srcs :
                  p[i].srcs[n] = r /\ t = seed_constraint(p[i].op, p[i].modifiers).src_types[n]
  BY <1>3
<1>4. QED
  BY <1>1, <1>2, <1>3 DEF DirectClasses

(* Every class is concrete, so the reference is an assignment. *)
LEMMA ReferenceTyped ==
  ASSUME NEW p
  PROVE  Reference(p) \in Assignments(p)
<1>1. ASSUME NEW r, NEW t \in DirectClasses(p, r)
      PROVE  t \in ConcreteType
  BY <1>1, DirectSources, RowsConcrete
<1>2. QED
  BY <1>1 DEF Reference, Resolved, Assignments

(* It solves the constraints, whatever the shapes of the instructions. *)
LEMMA ReferenceCloses ==
  ASSUME NEW p \in Programs
  PROVE  Closed(p, Reference(p))
<1>1. ASSUME NEW r \in RegsOf(p), NEW t \in DirectClasses(p, r)
      PROVE  t \in Reference(p)[r]
  BY <1>1, ResolvedHas DEF Reference
<1>2. ASSUME NEW i \in DOMAIN p
      PROVE  /\ p[i].dsts \in Seq(RegId) /\ p[i].srcs \in Seq(RegId)
             /\ \A r : Occurs(p[i].dsts, r) => r \in RegsOf(p) /\ p[i].dsts # <<>>
             /\ \A r : Occurs(p[i].srcs, r) => r \in RegsOf(p)
  BY ProgramsAssumption DEF RegsOf, Occurs
<1>3. ASSUME NEW u \in Seeds(p)
      PROVE  u[2] \in Reference(p)[u[1]]
  <2>1. PICK i \in DOMAIN p :
          \/ u \in Zipped(p[i].dsts, seed_constraint(p[i].op, p[i].modifiers).dst_types)
          \/ u \in Zipped(p[i].srcs, seed_constraint(p[i].op, p[i].modifiers).src_types)
    BY DEF Seeds
  <2> DEFINE c == seed_constraint(p[i].op, p[i].modifiers)
  <2>2. CASE u \in Zipped(p[i].dsts, c.dst_types)
    <3>1. PICK n \in DOMAIN p[i].dsts \cap DOMAIN c.dst_types :
            u = <<p[i].dsts[n], c.dst_types[n]>>
      BY <2>2 DEF Zipped
    <3>2. Occurs(p[i].dsts, u[1]) /\ u[2] = c.dst_types[n]
      BY <3>1 DEF Occurs
    <3>3. QED
      BY <1>1, <1>2, <3>1, <3>2, DirectOfDestination
  <2>3. CASE u \in Zipped(p[i].srcs, c.src_types)
    <3>1. PICK n \in DOMAIN p[i].srcs \cap DOMAIN c.src_types :
            u = <<p[i].srcs[n], c.src_types[n]>>
      BY <2>3 DEF Zipped
    <3>2. Occurs(p[i].srcs, u[1]) /\ u[1] = p[i].srcs[n] /\ u[2] = c.src_types[n]
      BY <3>1 DEF Occurs
    <3>3. u[2] \in DirectClasses(p, u[1])
      BY <3>1, <3>2, DirectOfSource, DirectOfPlace
    <3>4. QED
      BY <1>1, <1>2, <3>2, <3>3
  <2>4. QED
    BY <2>1, <2>2, <2>3
<1>4. ASSUME NEW i \in DOMAIN p, NEW r \in RegsOf(p), NEW u \in Pushes(p[i], r, Reference(p)[r])
      PROVE  u[2] \in Reference(p)[u[1]]
  <2> DEFINE c == seed_constraint(p[i].op, p[i].modifiers)
  <2>1. CASE /\ Occurs(p[i].srcs, r) /\ Occurs(p[i].dsts, u[1])
             /\ u[2] \in Propagated(c.transparent, Reference(p)[r], c.dst_types)
    <3>1. CASE c.transparent
      <4>1. u[2] \in Resolved(p, r) /\ u[1] \in RegsOf(p)
        BY <1>2, <2>1, <3>1 DEF Propagated, Reference
      <4>2. Linked(p, u[1], r)
        BY <2>1, <3>1 DEF Linked, Transparent
      <4>3. Cluster(p, u[1]) = Cluster(p, r)
        BY <4>1, <4>2, LinkedShare
      <4>4. QED
        BY <4>1, <4>3 DEF Resolved, Reference
    <3>2. CASE ~c.transparent
      <4>1. PICK n \in DOMAIN c.dst_types : u[2] = c.dst_types[n]
        BY <2>1, <3>2 DEF Propagated
      <4>2. QED
        BY <1>1, <1>2, <2>1, <4>1, DirectOfDestination
    <3>3. QED
      BY <3>1, <3>2
  <2>2. CASE /\ Occurs(p[i].dsts, r) /\ Occurs(p[i].srcs, u[1])
             /\ u[2] \in Propagated(c.transparent, Reference(p)[r], c.src_types)
    <3>1. CASE c.transparent
      <4>1. u[2] \in Resolved(p, r) /\ u[1] \in RegsOf(p)
        BY <1>2, <2>2, <3>1 DEF Propagated, Reference
      <4>2. Linked(p, r, u[1])
        BY <2>2, <3>1 DEF Linked, Transparent
      <4>3. Cluster(p, u[1]) = Cluster(p, r)
        BY <4>1, <4>2, LinkedShare
      <4>4. QED
        BY <4>1, <4>3 DEF Resolved, Reference
    <3>2. CASE ~c.transparent
      <4>1. PICK n \in DOMAIN c.src_types : u[2] = c.src_types[n]
        BY <2>2, <3>2 DEF Propagated
      <4>2. QED
        BY <1>1, <1>2, <2>2, <4>1, DirectOfSource
    <3>3. QED
      BY <3>1, <3>2
  <2>3. QED
    BY <2>1, <2>2 DEF Pushes
<1>5. QED
  BY <1>3, <1>4 DEF Closed, Derivable, SweepUpdates, Updates, Holds

(* In a solution, joined registers have the same classes, ... *)
LEMMA SolutionJoins ==
  ASSUME NEW p \in Programs, NEW k \in Assignments(p), Closed(p, k),
         NEW a \in RegsOf(p), NEW b \in RegsOf(p), Linked(p, a, b)
  PROVE  k[a] = k[b]
<1>1. PICK i \in DOMAIN p : /\ seed_constraint(p[i].op, p[i].modifiers).transparent
                            /\ Occurs(p[i].dsts, a) /\ Occurs(p[i].srcs, b)
  BY DEF Linked, Transparent
<1>2. a \in RegId /\ b \in RegId /\ k[a] \subseteq ConcreteType /\ k[b] \subseteq ConcreteType
  BY DEF RegsOf, Assignments
<1>3. ASSUME NEW t \in k[b] PROVE t \in k[a]
  <2>1. <<a, t>> \in Pushes(p[i], b, k[b])
    BY <1>1, <1>2, <1>3 DEF Pushes, Propagated
  <2>2. QED
    BY <2>1 DEF Closed, Derivable, SweepUpdates, Updates, Holds
<1>4. ASSUME NEW t \in k[a] PROVE t \in k[b]
  <2>1. <<b, t>> \in Pushes(p[i], a, k[a])
    BY <1>1, <1>2, <1>4 DEF Pushes, Propagated
  <2>2. QED
    BY <2>1 DEF Closed, Derivable, SweepUpdates, Updates, Holds
<1>5. QED
  BY <1>3, <1>4

(* ... and a register has its direct classes, where an instruction has one destination. *)
LEMMA SolutionHasDirect ==
  ASSUME NEW p \in Programs, SingleDestination(p), NEW k \in Assignments(p), Closed(p, k),
         NEW r \in RegsOf(p), NEW t \in DirectClasses(p, r)
  PROVE  t \in k[r]
<1>1. PICK i \in DOMAIN p :
         LET c == seed_constraint(p[i].op, p[i].modifiers)
         IN  \/ /\ Occurs(p[i].dsts, r)
                /\ \E n \in DOMAIN c.dst_types : t = c.dst_types[n]
             \/ /\ Occurs(p[i].srcs, r) /\ p[i].dsts # <<>>
                /\ \E n \in DOMAIN c.src_types : t = c.src_types[n]
             \/ /\ p[i].dsts = <<>>
                /\ \E n \in DOMAIN c.src_types \cap DOMAIN p[i].srcs :
                     p[i].srcs[n] = r /\ t = c.src_types[n]
  BY DirectSources
<1> DEFINE c == seed_constraint(p[i].op, p[i].modifiers)
<1>2. ASSUME NEW u \in Seeds(p) PROVE u[2] \in k[u[1]]
  BY <1>2 DEF Closed, Derivable, Holds
<1>3. CASE Occurs(p[i].dsts, r) /\ \E n \in DOMAIN c.dst_types : t = c.dst_types[n]
  <2>1. 1 \in DOMAIN c.dst_types /\ t = c.dst_types[1]
    BY <1>3, RowsUniform
  <2>2. 1 \in DOMAIN p[i].dsts /\ p[i].dsts[1] = r
    BY <1>3 DEF Occurs, SingleDestination
  <2>3. <<r, t>> \in Seeds(p)
    BY <2>1, <2>2 DEF Seeds, Zipped
  <2>4. QED
    BY <1>2, <2>3
<1>4. CASE /\ Occurs(p[i].srcs, r) /\ p[i].dsts # <<>>
           /\ \E n \in DOMAIN c.src_types : t = c.src_types[n]
  <2>1. p[i].dsts \in Seq(RegId)
    BY ProgramsAssumption
  <2>2. PICK d : Occurs(p[i].dsts, d) /\ d \in RegsOf(p)
    BY <1>4, <2>1 DEF Occurs, RegsOf
  <2>3. t \in ConcreteType /\ r \in RegId
    BY <1>4, RowsConcrete DEF RegsOf
  <2>4. ~c.transparent
    BY <1>4, TransparentRows
  <2>5. <<r, t>> \in Pushes(p[i], d, k[d])
    BY <1>4, <2>2, <2>3, <2>4 DEF Pushes, Propagated
  <2>6. QED
    BY <2>2, <2>5 DEF Closed, Derivable, SweepUpdates, Updates, Holds
<1>5. CASE /\ p[i].dsts = <<>>
           /\ \E n \in DOMAIN c.src_types \cap DOMAIN p[i].srcs :
                p[i].srcs[n] = r /\ t = c.src_types[n]
  <2>1. <<r, t>> \in Seeds(p)
    BY <1>5 DEF Seeds, Zipped
  <2>2. QED
    BY <1>2, <2>1
<1>6. QED
  BY <1>1, <1>3, <1>4, <1>5

(* Hence the reference is below every solution. *)
LEMMA ReferenceIsBelow ==
  ASSUME NEW p \in Programs, SingleDestination(p), NEW k \in Assignments(p), Closed(p, k)
  PROVE  Below(Reference(p), k)
<1> SUFFICES ASSUME NEW r \in RegsOf(p), NEW q \in Cluster(p, r), NEW t \in DirectClasses(p, q)
             PROVE  t \in k[r]
  BY DEF Below, Reference, Resolved
<1> DEFINE S == {s \in RegsOf(p) : t \in k[s] <=> t \in k[r]}
<1>1. q \in RegsOf(p)
  BY DEF Cluster
<1>2. JoinClosed(p, S)
  BY SolutionJoins DEF JoinClosed
<1>3. q \in S
  BY <1>2, ClusterMeets
<1>4. t \in k[q]
  BY <1>1, SolutionHasDirect
<1>5. QED
  BY <1>3, <1>4

(* What detect_psi found is kept. *)
PsiInv == pc = "done" => psi = PsiRegs(prog, types)

LEMMA PsiKept == Spec => []PsiInv
<1>1. Init => PsiInv
  BY DEF Init, PsiInv
<1>2. PsiInv /\ [Next]_vars => PsiInv'
  BY DEF PsiInv, Next, vars, ApplyAndQueue, SeedsApplied, PopRegister, WorklistEmpty, Collect,
         ApplyInSweep, SweepDone, DetectPsi, Returned, PsiRegs, DefinedTwice, DefsOf
<1>3. QED
  BY <1>1, <1>2, PTL DEF Spec

(***************************************************************************)
(* The classes the stage returns are those of the registers that           *)
(* transparent instructions join, taken from the rows of the table, and    *)
(* the psi set is computed of those: for every program whose instructions  *)
(* have at most one destination, whatever the order of the hash containers *)
(* (type_infer/stage_type_infer.rs:93-300).                                *)
(***************************************************************************)
THEOREM ReturnsReference ==
  ASSUME \A p \in Programs : SingleDestination(p)
  PROVE  Spec => []ResultIsReference
<1>1. IInv /\ PsiInv => ResultIsReference
  <2> SUFFICES ASSUME IInv, PsiInv, pc = "done"
               PROVE  /\ \A r \in RegsOf(prog) : Get(types, r) = Resolved(prog, r)
                      /\ psi = PsiRegs(prog, Reference(prog))
    BY DEF ResultIsReference, Reference
  <2>1. TypeOK /\ prog \in Programs /\ Closed(prog, Known) /\ SoundInv
    BY DEF IInv, TypeOK, ClosedInv
  <2>2. Below(Known, Reference(prog))
    BY <2>1, ReferenceTyped, ReferenceCloses DEF SoundInv
  <2>3. Below(Reference(prog), Known)
    BY <2>1, KnownTyped, ReferenceIsBelow
  <2>4. \A r \in RegsOf(prog) : Get(types, r) = Resolved(prog, r)
    BY <2>2, <2>3 DEF Below, Reference, Known
  <2>5. \A r \in RegsOf(prog) : MixedFamilies(types[r]) <=> MixedFamilies(Reference(prog)[r])
    BY <2>4 DEF Get, Reference, MixedFamilies
  <2>6. psi = PsiRegs(prog, types)
    BY DEF PsiInv
  <2>7. QED
    BY <2>4, <2>5, <2>6 DEF PsiRegs
<1>2. QED
  BY <1>1, Invariance, PsiKept, PTL

-----------------------------------------------------------------------------
(***************************************************************************)
(* The order the sweeps take (RpoOrder): compute_rpo returns every         *)
(* register once, and in programs without cycles a destination before its  *)
(* sources.                                                                *)
(*                                                                         *)
(* What DestinationsFirst says is of the returned order.  While the search *)
(* runs, a register whose search has started is in the list or on the      *)
(* stack, once (Placed); one that has not is still a root (Reached); the   *)
(* registers of the stack lie on a path (Path), so that in a program       *)
(* without cycles no edge leads from the innermost one back into the       *)
(* stack; each source of a frame is left, listed, or searched by the next  *)
(* frame (Accounted); and what is listed has its sources listed before it  *)
(* (Finished), the reverse of what the list has after the reversal.        *)
(***************************************************************************)
DestinationsFirst ==
  done => /\ EveryRegisterOnce
          /\ Acyclic(program) =>
               \A d \in RegsOf(program) : \A s \in Succ(program, d) : Precedes(d, s)

Frame == [reg : RegId, left : SUBSET RegId]

Listed == {order[n] : n \in DOMAIN order}
Searched == {stack[n].reg : n \in DOMAIN stack}

RpoTypeOK ==
  /\ program \in Programs
  /\ roots \subseteq RegsOf(program)
  /\ visited \subseteq RegsOf(program)
  /\ stack \in Seq(Frame)
  /\ \A n \in DOMAIN stack : stack[n].left \subseteq Succ(program, stack[n].reg)
  /\ order \in Seq(RegId)
  /\ done \in BOOLEAN

Placed ==
  /\ visited = Listed \cup Searched
  /\ Listed \cap Searched = {}
  /\ \A m, n \in DOMAIN order : order[m] = order[n] => m = n
  /\ \A m, n \in DOMAIN stack : stack[m].reg = stack[n].reg => m = n

Reached == RegsOf(program) \subseteq roots \cup visited

ClosedUnder(S) == \A q \in S : Succ(program, q) \subseteq S

Path ==
  \A n \in DOMAIN stack : \A m \in 1 .. (n - 1) : \A S \in SUBSET RegsOf(program) :
    Succ(program, stack[m].reg) \subseteq S /\ ClosedUnder(S) => stack[n].reg \in S

Accounted ==
  \A n \in DOMAIN stack : \A s \in Succ(program, stack[n].reg) :
    \/ s \in stack[n].left
    \/ s \in Listed
    \/ n < Len(stack) /\ stack[n + 1].reg = s

Finished ==
  \A n \in DOMAIN order : \A s \in Succ(program, order[n]) :
    \E m \in 1 .. (n - 1) : order[m] = s

Searching ==
  /\ Placed
  /\ Reached
  /\ Path
  /\ Acyclic(program) => Accounted /\ Finished

RpoInv ==
  /\ RpoTypeOK
  /\ ~done => Searching
  /\ done => roots = {} /\ stack = <<>> /\ DestinationsFirst

-----------------------------------------------------------------------------
(* Edges lead to registers of the program. *)
LEMMA SuccessorsAreRegisters ==
  ASSUME NEW p, NEW r
  PROVE  Succ(p, r) \subseteq RegsOf(p) /\ RegsOf(p) \subseteq RegId
  BY DEF Succ, RegsOf

(* The stack without its innermost frame. *)
LEMMA FrameDropped ==
  ASSUME NEW st \in Seq(Frame), st # <<>>
  PROVE  /\ Front(st) \in Seq(Frame)
         /\ Len(st) \in Nat \ {0}
         /\ Len(Front(st)) = Len(st) - 1
         /\ \A k \in 1 .. (Len(st) - 1) : Front(st)[k] = st[k]
         /\ Last(st) = st[Len(st)]
         /\ Last(st) \in Frame
<1>1. Len(st) \in Nat \ {0} /\ \A k \in 1 .. Len(st) : st[k] \in Frame
  BY LenProperties, ElementOfSeq, EmptySeq
<1> DEFINE last == Len(st) - 1
<1>2. last \in Int /\ last >= 0 /\ \A k \in 1 .. last : st[k] \in Frame
  BY <1>1
<1> HIDE DEF last
<1>3. /\ SubSeq(st, 1, last) \in Seq(Frame)
      /\ Len(SubSeq(st, 1, last)) = IF 1 <= last THEN last - 1 + 1 ELSE 0
      /\ \A k \in 1 .. last - 1 + 1 : SubSeq(st, 1, last)[k] = st[1 + k - 1]
  BY <1>2, SubSeqProperties
<1>4. /\ Len(SubSeq(st, 1, last)) = last
      /\ \A k \in 1 .. last : SubSeq(st, 1, last)[k] = st[k]
  BY <1>2, <1>3
<1>5. QED
  BY <1>1, <1>3, <1>4 DEF Front, Last, last

(* What a frame loses of what is left: the stack keeps its length and its registers. *)
LEMMA FrameAdvanced ==
  ASSUME NEW st \in Seq(Frame), st # <<>>, NEW n
  PROVE  LET rest == Append(Front(st), [Last(st) EXCEPT !.left = @ \ {n}])
         IN  /\ rest \in Seq(Frame)
             /\ Len(rest) = Len(st)
             /\ \A k \in 1 .. Len(st) : rest[k].reg = st[k].reg
             /\ \A k \in 1 .. Len(st) :
                  rest[k].left = IF k = Len(st) THEN st[k].left \ {n} ELSE st[k].left
<1> DEFINE top == [Last(st) EXCEPT !.left = @ \ {n}]
           front == Front(st)
           rest == Append(front, top)
<1>1. /\ top \in Frame
      /\ top.reg = st[Len(st)].reg
      /\ top.left = st[Len(st)].left \ {n}
  <2> DEFINE t == Last(st)
  <2>1. t \in Frame /\ t = st[Len(st)]
    BY FrameDropped
  <2> HIDE DEF t
  <2>2. /\ [t EXCEPT !.left = @ \ {n}] \in Frame
        /\ [t EXCEPT !.left = @ \ {n}].reg = t.reg
        /\ [t EXCEPT !.left = @ \ {n}].left = t.left \ {n}
    BY <2>1 DEF Frame
  <2>3. QED
    BY <2>1, <2>2, Zenon DEF t
<1>2. /\ front \in Seq(Frame)
      /\ Len(st) \in Nat \ {0}
      /\ Len(front) = Len(st) - 1
      /\ \A k \in 1 .. (Len(st) - 1) : front[k] = st[k]
  BY FrameDropped
<1> HIDE DEF top, front
<1>3. /\ rest \in Seq(Frame)
      /\ Len(rest) = Len(front) + 1
      /\ \A k \in 1 .. Len(front) : rest[k] = front[k]
      /\ rest[Len(front) + 1] = top
  BY <1>1, <1>2, AppendProperties
<1> HIDE DEF rest
<1>4. /\ \A k \in 1 .. Len(st) : k # Len(st) => rest[k] = st[k]
      /\ rest[Len(st)] = top
      /\ Len(rest) = Len(st)
  BY <1>2, <1>3
<1>5. /\ \A k \in 1 .. Len(st) : rest[k].reg = st[k].reg
      /\ \A k \in 1 .. Len(st) :
           rest[k].left = IF k = Len(st) THEN st[k].left \ {n} ELSE st[k].left
  BY <1>1, <1>2, <1>4
<1>6. QED
  BY <1>3, <1>4, <1>5 DEF rest, top, front

(* A new frame on the stack. *)
LEMMA FramePushed ==
  ASSUME NEW rest \in Seq(Frame), NEW r \in RegId
  PROVE  /\ Append(rest, NewFrame(r)) \in Seq(Frame)
         /\ Len(rest) \in Nat
         /\ Len(Append(rest, NewFrame(r))) = Len(rest) + 1
         /\ \A k \in 1 .. Len(rest) : Append(rest, NewFrame(r))[k] = rest[k]
         /\ Append(rest, NewFrame(r))[Len(rest) + 1].reg = r
         /\ Append(rest, NewFrame(r))[Len(rest) + 1].left = Succ(program, r)
<1>1. NewFrame(r) \in Frame /\ NewFrame(r).reg = r /\ NewFrame(r).left = Succ(program, r)
  BY SuccessorsAreRegisters DEF NewFrame, Frame
<1>2. QED
  BY <1>1, AppendProperties, LenProperties

LEMMA RpoInitTyped == RpoInit => RpoTypeOK
<1> SUFFICES ASSUME RpoInit PROVE RpoTypeOK
  OBVIOUS
<1>1. stack \in Seq(Frame) /\ order \in Seq(RegId)
  BY EmptySeq DEF RpoInit
<1>2. \A n \in DOMAIN stack : FALSE
  BY DEF RpoInit
<1>3. QED
  BY <1>1, <1>2 DEF RpoInit, RpoTypeOK

(* The search keeps its types. *)
LEMMA RpoStepTyped ==
  ASSUME RpoTypeOK, [RpoNext]_rpo_vars
  PROVE  RpoTypeOK'
<1>1. CASE StartRoot
  <2>1. PICK r \in roots : Search(r, <<>>) /\ roots' = roots \ {r}
    BY <1>1 DEF StartRoot
  <2>2. r \in RegsOf(program) /\ r \in RegId
    BY SuccessorsAreRegisters DEF RpoTypeOK
  <2>3. CASE r \in visited
    BY <1>1, <2>1, <2>3, EmptySeq DEF StartRoot, Search, RpoTypeOK
  <2>4. CASE r \notin visited
    <3>1. stack' = Append(<<>>, NewFrame(r)) /\ visited' = visited \cup {r}
      BY <2>1, <2>4 DEF Search
    <3>2. /\ Append(<<>>, NewFrame(r)) \in Seq(Frame)
          /\ Len(Append(<<>>, NewFrame(r))) = Len(<<>>) + 1
          /\ Append(<<>>, NewFrame(r))[Len(<<>>) + 1].reg = r
          /\ Append(<<>>, NewFrame(r))[Len(<<>>) + 1].left = Succ(program, r)
      BY <2>2, EmptySeq, FramePushed
    <3>3. /\ stack' \in Seq(Frame) /\ Len(stack') = 1
          /\ stack'[1].reg = r /\ stack'[1].left = Succ(program, r)
      BY <3>1, <3>2, Len(<<>>) = 0, 0 + 1 = 1
    <3>4. \A k \in DOMAIN stack' : k = 1
      BY <3>3, LenProperties
    <3>5. QED
      BY <1>1, <2>1, <2>2, <3>1, <3>3, <3>4 DEF StartRoot, RpoTypeOK
  <2>5. QED
    BY <2>3, <2>4
<1>2. CASE VisitSuccessor
  <2> DEFINE rest(n) == Append(Front(stack), [Last(stack) EXCEPT !.left = @ \ {n}])
  <2>1. PICK n \in Last(stack).left : Search(n, rest(n))
    BY <1>2 DEF VisitSuccessor
  <2>2. stack # <<>> /\ stack \in Seq(Frame)
    BY <1>2 DEF VisitSuccessor, RpoTypeOK
  <2>3. n \in Succ(program, stack[Len(stack)].reg) /\ n \in RegsOf(program) /\ n \in RegId
    BY <2>1, <2>2, FrameDropped, LenProperties, SuccessorsAreRegisters DEF RpoTypeOK
  <2> HIDE DEF rest
  <2>4. /\ rest(n) \in Seq(Frame)
        /\ Len(rest(n)) = Len(stack)
        /\ \A k \in 1 .. Len(stack) : rest(n)[k].reg = stack[k].reg
        /\ \A k \in 1 .. Len(stack) : rest(n)[k].left \subseteq stack[k].left
    <3>1. /\ rest(n) \in Seq(Frame)
          /\ Len(rest(n)) = Len(stack)
          /\ \A k \in 1 .. Len(stack) : rest(n)[k].reg = stack[k].reg
          /\ \A k \in 1 .. Len(stack) :
               rest(n)[k].left = IF k = Len(stack) THEN stack[k].left \ {n} ELSE stack[k].left
      BY <2>2, FrameAdvanced, Zenon DEF rest
    <3>2. QED
      BY <3>1
  <2>5. \A k \in 1 .. Len(rest(n)) : rest(n)[k].left \subseteq Succ(program, rest(n)[k].reg)
    BY <2>2, <2>4, LenProperties DEF RpoTypeOK
  <2>6. CASE n \in visited
    BY <1>2, <2>1, <2>4, <2>5, <2>6, LenProperties DEF Search, VisitSuccessor, RpoTypeOK
  <2>7. CASE n \notin visited
    <3>1. stack' = Append(rest(n), NewFrame(n)) /\ visited' = visited \cup {n}
      BY <2>1, <2>7 DEF Search
    <3>2. /\ stack' \in Seq(Frame)
          /\ Len(rest(n)) \in Nat
          /\ Len(stack') = Len(rest(n)) + 1
          /\ \A k \in 1 .. Len(rest(n)) : stack'[k] = rest(n)[k]
          /\ stack'[Len(rest(n)) + 1].reg = n
          /\ stack'[Len(rest(n)) + 1].left = Succ(program, n)
      BY <2>3, <2>4, <3>1, FramePushed
    <3>3. \A k \in 1 .. Len(stack') : stack'[k].left \subseteq Succ(program, stack'[k].reg)
      BY <2>5, <3>2
    <3>4. QED
      BY <1>2, <2>3, <3>1, <3>2, <3>3, LenProperties DEF VisitSuccessor, RpoTypeOK
  <2>8. QED
    BY <2>6, <2>7
<1>3. CASE EndSearch
  <2>1. stack # <<>> /\ stack \in Seq(Frame) /\ order \in Seq(RegId)
    BY <1>3 DEF EndSearch, RpoTypeOK
  <2>2. Last(stack).reg \in RegId /\ Front(stack) \in Seq(Frame)
    BY <2>1, FrameDropped DEF Frame
  <2>3. order' \in Seq(RegId)
    BY <1>3, <2>1, <2>2, AppendProperties DEF EndSearch
  <2>4. \A k \in DOMAIN Front(stack) : k \in DOMAIN stack /\ Front(stack)[k] = stack[k]
    <3>1. /\ Front(stack) \in Seq(Frame)
          /\ Len(stack) \in Nat \ {0}
          /\ Len(Front(stack)) = Len(stack) - 1
          /\ \A k \in 1 .. (Len(stack) - 1) : Front(stack)[k] = stack[k]
      BY <2>1, FrameDropped
    <3>2. DOMAIN Front(stack) = 1 .. (Len(stack) - 1) /\ DOMAIN stack = 1 .. Len(stack)
      BY <2>1, <3>1, LenProperties
    <3>3. QED
      BY <3>1, <3>2
  <2>5. QED
    BY <1>3, <2>2, <2>3, <2>4 DEF EndSearch, RpoTypeOK
<1>4. CASE ReverseOrder
  <2>1. order \in Seq(RegId)
    BY DEF RpoTypeOK
  <2>2. Len(order) \in Nat /\ \A k \in 1 .. Len(order) : order[Len(order) - k + 1] \in RegId
    BY <2>1, ElementOfSeq, LenProperties
  <2>3. Reverse(order) \in Seq(RegId)
    BY <2>2, IsASeq DEF Reverse
  <2>4. QED
    BY <1>4, <2>3 DEF ReverseOrder, RpoTypeOK
<1>5. CASE UNCHANGED rpo_vars
  BY <1>5 DEF rpo_vars, RpoTypeOK
<1>6. QED
  BY <1>1, <1>2, <1>3, <1>4, <1>5 DEF RpoNext, rpo_vars

-----------------------------------------------------------------------------
(* A frame whose register is searched for the first time keeps what holds while searching. *)
LEMMA NewSearch ==
  ASSUME RpoTypeOK, Searching,
         NEW L \in Nat, L = Len(stack),
         NEW r \in RegsOf(program), r \notin visited,
         L > 0 => r \in Succ(program, stack[L].reg),
         DOMAIN stack = 1 .. L,
         DOMAIN stack' = 1 .. (L + 1), Len(stack') = L + 1,
         \A k \in 1 .. L : stack'[k].reg = stack[k].reg,
         \A k \in 1 .. L :
           stack'[k].left = IF k = L THEN stack[k].left \ {r} ELSE stack[k].left,
         stack'[L + 1].reg = r, stack'[L + 1].left = Succ(program, r),
         visited' = visited \cup {r},
         roots \ {r} \subseteq roots',
         program' = program, order' = order
  PROVE  Searching'
<1>1. Listed' = Listed
  BY DEF Listed
<1>2. Searched' = Searched \cup {r}
  <2>1. ASSUME NEW x \in Searched' PROVE x \in Searched \cup {r}
    <3>1. PICK k \in 1 .. (L + 1) : x = stack'[k].reg
      BY <2>1 DEF Searched
    <3>2. k \in 1 .. L \/ k = L + 1
      OBVIOUS
    <3>3. QED
      BY <3>1, <3>2 DEF Searched
  <2>2. ASSUME NEW k \in 1 .. L PROVE stack[k].reg \in Searched'
    BY stack'[k].reg = stack[k].reg, k \in 1 .. (L + 1) DEF Searched
  <2>3. r \in Searched'
    BY L + 1 \in 1 .. (L + 1) DEF Searched
  <2>4. QED
    BY <2>1, <2>2, <2>3 DEF Searched
<1>3. Placed'
  <2>1. /\ visited = Listed \cup Searched
        /\ Listed \cap Searched = {}
        /\ \A m, n \in DOMAIN order : order[m] = order[n] => m = n
        /\ \A m, n \in 1 .. L : stack[m].reg = stack[n].reg => m = n
    BY DEF Searching, Placed
  <2>2. \A n \in 1 .. L : stack'[n].reg # r
    BY <2>1 DEF Searched
  <2>3. ASSUME NEW m \in 1 .. (L + 1), NEW n \in 1 .. (L + 1), stack'[m].reg = stack'[n].reg
        PROVE  m = n
    <3>1. (m \in 1 .. L \/ m = L + 1) /\ (n \in 1 .. L \/ n = L + 1)
      OBVIOUS
    <3>2. QED
      BY <2>1, <2>2, <2>3, <3>1
  <2>4. QED
    BY <1>1, <1>2, <2>1, <2>3 DEF Placed
<1>4. Reached'
  BY DEF Searching, Reached
<1>5. Path'
  <2> SUFFICES ASSUME NEW n \in 1 .. (L + 1), NEW m \in 1 .. (n - 1),
                      NEW S \in SUBSET RegsOf(program),
                      Succ(program, stack'[m].reg) \subseteq S, ClosedUnder(S)
               PROVE  stack'[n].reg \in S
    BY DEF Path, ClosedUnder
  <2>1. m \in 1 .. L /\ Succ(program, stack[m].reg) \subseteq S
    OBVIOUS
  <2>2. \A k \in 1 .. L : m \in 1 .. (k - 1) => stack[k].reg \in S
    BY <2>1 DEF Searching, Path
  <2>3. CASE n \in 1 .. L
    BY <2>2, <2>3
  <2>4. CASE n = L + 1
    <3>1. Succ(program, stack[L].reg) \subseteq S
      <4>1. m = L \/ m \in 1 .. (L - 1)
        BY <2>1
      <4>2. QED
        BY <2>1, <2>2, <4>1, L \in 1 .. L DEF ClosedUnder
    <3>2. QED
      BY <2>1, <2>4, <3>1
  <2>5. QED
    BY <2>3, <2>4
<1>6. ASSUME Acyclic(program)
      PROVE  Accounted' /\ Finished'
  <2>1. Accounted /\ Finished
    BY <1>6 DEF Searching
  <2>2. Finished'
    BY <2>1 DEF Finished
  <2>3. ASSUME NEW n \in 1 .. (L + 1), NEW s \in Succ(program, stack'[n].reg)
        PROVE  \/ s \in stack'[n].left
               \/ s \in Listed
               \/ n < L + 1 /\ stack'[n + 1].reg = s
    <3>1. CASE n = L + 1
      BY <2>3, <3>1
    <3>2. CASE n = L
      <4> L \in 1 .. L /\ L < L + 1
        BY <3>2
      <4>1. s \in Succ(program, stack[L].reg)
        BY <2>3, <3>2
      <4>2. s \in stack[L].left \/ s \in Listed
        BY <2>1, <4>1 DEF Accounted
      <4>3. stack'[L].left = stack[L].left \ {r} /\ stack'[L + 1].reg = r
        OBVIOUS
      <4>4. QED
        BY <3>2, <4>2, <4>3
    <3>3. CASE n \in 1 .. L /\ n # L
      <4>1. \/ s \in stack[n].left
            \/ s \in Listed
            \/ n < L /\ stack[n + 1].reg = s
        BY <2>1, <2>3, <3>3 DEF Accounted
      <4>2. n + 1 \in 1 .. L /\ n < L + 1
        BY <3>3
      <4>3. stack'[n].left = stack[n].left /\ stack'[n + 1].reg = stack[n + 1].reg
        BY <3>3, <4>2
      <4>4. QED
        BY <4>1, <4>2, <4>3
    <3>4. QED
      BY <3>1, <3>2, <3>3
  <2>4. Accounted'
    BY <1>1, <2>3 DEF Accounted
  <2>5. QED
    BY <2>2, <2>4
<1>7. Acyclic(program') <=> Acyclic(program)
  OBVIOUS
<1>8. QED
  BY <1>3, <1>4, <1>5, <1>6, <1>7 DEF Searching

(* So does leaving out a register that has been searched: where there is no cycle, it is listed. *)
LEMMA SearchedAlready ==
  ASSUME RpoTypeOK, Searching,
         NEW L \in Nat \ {0}, L = Len(stack),
         NEW r \in RegsOf(program), r \in visited, r \in Succ(program, stack[L].reg),
         DOMAIN stack = 1 .. L, DOMAIN stack' = 1 .. L, Len(stack') = L,
         \A k \in 1 .. L : stack'[k].reg = stack[k].reg,
         \A k \in 1 .. L :
           stack'[k].left = IF k = L THEN stack[k].left \ {r} ELSE stack[k].left,
         visited' = visited, roots' = roots, program' = program, order' = order
  PROVE  Searching'
<1>1. Listed' = Listed /\ Searched' = Searched
  BY DEF Listed, Searched
<1>2. Placed'
  BY <1>1 DEF Searching, Placed
<1>3. Reached'
  BY DEF Searching, Reached
<1>4. Path'
  <2> SUFFICES ASSUME NEW n \in 1 .. L, NEW m \in 1 .. (n - 1),
                      NEW S \in SUBSET RegsOf(program),
                      Succ(program, stack'[m].reg) \subseteq S, ClosedUnder(S)
               PROVE  stack'[n].reg \in S
    BY DEF Path, ClosedUnder
  <2>1. m \in 1 .. L
    OBVIOUS
  <2>2. QED
    BY <2>1 DEF Searching, Path
<1>5. ASSUME Acyclic(program)
      PROVE  Accounted' /\ Finished'
  <2>1. Accounted /\ Finished
    BY <1>5 DEF Searching
  <2>2. Finished'
    BY <2>1 DEF Finished
  <2>3. r \in Listed
    <3>1. SUFFICES ASSUME NEW m \in 1 .. L, r = stack[m].reg
                   PROVE  FALSE
      BY DEF Searching, Placed, Searched
    <3>2. PICK S \in SUBSET RegsOf(program) :
            r \notin S /\ Succ(program, r) \subseteq S /\ ClosedUnder(S)
      BY <1>5 DEF Acyclic, ClosedUnder
    <3>3. Succ(program, stack[L].reg) \subseteq S
      <4>1. m = L \/ (m \in 1 .. (L - 1) /\ L \in 1 .. L)
        OBVIOUS
      <4>2. m \in 1 .. (L - 1) => stack[L].reg \in S
        BY <3>1, <3>2, <4>1 DEF Searching, Path
      <4>3. QED
        BY <3>1, <3>2, <4>1, <4>2 DEF ClosedUnder
    <3>4. QED
      BY <3>2, <3>3
  <2>4. ASSUME NEW n \in 1 .. L, NEW s \in Succ(program, stack'[n].reg)
        PROVE  \/ s \in stack'[n].left
               \/ s \in Listed
               \/ n < L /\ stack'[n + 1].reg = s
    <3>1. \/ s \in stack[n].left
          \/ s \in Listed
          \/ n < L /\ stack[n + 1].reg = s
      BY <2>1, <2>4 DEF Accounted
    <3>2. n < L => n + 1 \in 1 .. L
      OBVIOUS
    <3>3. QED
      BY <2>3, <3>1, <3>2
  <2>5. Accounted'
    BY <1>1, <2>4 DEF Accounted
  <2>6. QED
    BY <2>2, <2>5
<1>6. Acyclic(program') <=> Acyclic(program)
  OBVIOUS
<1>7. QED
  BY <1>2, <1>3, <1>4, <1>5, <1>6 DEF Searching

(* And so does the end of a search. *)
LEMMA SearchEnded ==
  ASSUME RpoTypeOK, Searching,
         NEW L \in Nat \ {0}, L = Len(stack),
         NEW K \in Nat, K = Len(order),
         stack[L].left = {},
         DOMAIN stack = 1 .. L, DOMAIN stack' = 1 .. (L - 1), Len(stack') = L - 1,
         \A k \in 1 .. (L - 1) : stack'[k] = stack[k],
         DOMAIN order = 1 .. K, DOMAIN order' = 1 .. (K + 1),
         \A k \in 1 .. K : order'[k] = order[k],
         order'[K + 1] = stack[L].reg,
         visited' = visited, roots' = roots, program' = program
  PROVE  Searching'
<1> DEFINE r == stack[L].reg
<1>1. /\ visited = Listed \cup Searched
      /\ Listed \cap Searched = {}
      /\ \A m, n \in 1 .. K : order[m] = order[n] => m = n
      /\ \A m, n \in 1 .. L : stack[m].reg = stack[n].reg => m = n
  BY DEF Searching, Placed
<1>2. L \in 1 .. L /\ r \in Searched /\ r \notin Listed
  <2>1. L \in 1 .. L
    OBVIOUS
  <2>2. r \in Searched
    BY <2>1, Zenon DEF Searched
  <2>3. QED
    BY <1>1, <2>1, <2>2, Zenon
<1>3. Listed' = Listed \cup {r}
  <2>1. \A k \in 1 .. (K + 1) : k \in 1 .. K \/ k = K + 1
    OBVIOUS
  <2>2. K + 1 \in 1 .. (K + 1) /\ \A k \in 1 .. K : k \in 1 .. (K + 1)
    OBVIOUS
  <2>3. QED
    BY <2>1, <2>2 DEF Listed
<1>4. Searched' = Searched \ {r}
  <2>1. \A k \in 1 .. L : k \in 1 .. (L - 1) \/ k = L
    OBVIOUS
  <2>2. \A k \in 1 .. (L - 1) : k \in 1 .. L /\ k # L
    OBVIOUS
  <2>3. \A k \in 1 .. (L - 1) : stack[k].reg # r
    BY <1>1, <1>2, <2>2
  <2>4. Searched = {stack[k].reg : k \in 1 .. L}
    BY Zenon DEF Searched
  <2>5. Searched' = {stack[k].reg : k \in 1 .. (L - 1)}
    <3>1. Searched' = {stack'[k].reg : k \in 1 .. (L - 1)}
      BY Zenon DEF Searched
    <3>2. \A k \in 1 .. (L - 1) : stack'[k].reg = stack[k].reg
      OBVIOUS
    <3> DEFINE now(k) == stack'[k].reg
               was(k) == stack[k].reg
    <3>3. {now(k) : k \in 1 .. (L - 1)} = {was(k) : k \in 1 .. (L - 1)}
      <4>1. \A k \in 1 .. (L - 1) : now(k) = was(k)
        BY <3>2
      <4> HIDE DEF now, was
      <4>2. QED
        BY <4>1
    <3>4. QED
      BY <3>1, <3>3
  <2>6. ASSUME NEW x \in Searched \ {r}
        PROVE  x \in Searched'
    BY <2>1, <2>4, <2>5, <2>6
  <2>7. ASSUME NEW x \in Searched'
        PROVE  x \in Searched \ {r}
    <3>1. PICK k \in 1 .. (L - 1) : x = stack[k].reg
      BY <2>5, <2>7, Zenon
    <3>2. k \in 1 .. L
      BY <2>2, Zenon
    <3>3. QED
      BY <2>3, <2>4, <3>1, <3>2, Zenon
  <2>8. QED
    BY <2>6, <2>7, Zenon
<1>5. Placed'
  <2>1. ASSUME NEW m \in 1 .. (L - 1), NEW n \in 1 .. (L - 1), stack'[m].reg = stack'[n].reg
        PROVE  m = n
    <3>1. m \in 1 .. L /\ n \in 1 .. L
      OBVIOUS
    <3>2. stack[m].reg = stack[n].reg
      BY <2>1
    <3>3. QED
      BY <1>1, <3>1, <3>2, Zenon
  <2>2. ASSUME NEW m \in 1 .. (K + 1), NEW n \in 1 .. (K + 1), order'[m] = order'[n]
        PROVE  m = n
    <3>1. (m \in 1 .. K \/ m = K + 1) /\ (n \in 1 .. K \/ n = K + 1)
      OBVIOUS
    <3>2. \A k \in 1 .. K : order[k] # r
      BY <1>2 DEF Listed
    <3>3. QED
      BY <1>1, <2>2, <3>1, <3>2
  <2>3. QED
    BY <1>1, <1>2, <1>3, <1>4, <2>1, <2>2 DEF Placed
<1>6. Reached'
  BY DEF Searching, Reached
<1>7. Path'
  <2> SUFFICES ASSUME NEW n \in 1 .. (L - 1), NEW m \in 1 .. (n - 1),
                      NEW S \in SUBSET RegsOf(program),
                      Succ(program, stack'[m].reg) \subseteq S, ClosedUnder(S)
               PROVE  stack'[n].reg \in S
    BY DEF Path, ClosedUnder
  <2>1. m \in 1 .. (L - 1) /\ n \in 1 .. L
    OBVIOUS
  <2>2. QED
    BY <2>1 DEF Searching, Path
<1>8. ASSUME Acyclic(program)
      PROVE  Accounted' /\ Finished'
  <2>1. Accounted /\ Finished
    BY <1>8 DEF Searching
  <2>2. Succ(program, r) \subseteq Listed
    BY <2>1, <1>2 DEF Accounted
  <2>3. ASSUME NEW n \in 1 .. (K + 1), NEW s \in Succ(program, order'[n])
        PROVE  \E m \in 1 .. (n - 1) : order'[m] = s
    <3>1. CASE n \in 1 .. K
      <4>1. PICK m \in 1 .. (n - 1) : order[m] = s
        BY <2>1, <2>3, <3>1 DEF Finished
      <4>2. m \in 1 .. K
        BY <3>1
      <4>3. QED
        BY <4>1, <4>2
    <3>2. CASE n = K + 1
      <4>1. PICK m \in 1 .. K : order[m] = s
        BY <2>2, <2>3, <3>2 DEF Listed
      <4>2. m \in 1 .. (n - 1)
        BY <3>2
      <4>3. QED
        BY <4>1, <4>2
    <3>3. QED
      BY <3>1, <3>2
  <2>4. Finished'
    BY <2>3 DEF Finished
  <2>5. ASSUME NEW n \in 1 .. (L - 1), NEW s \in Succ(program, stack'[n].reg)
        PROVE  \/ s \in stack'[n].left
               \/ s \in Listed'
               \/ n < L - 1 /\ stack'[n + 1].reg = s
    <3>1. \/ s \in stack[n].left
          \/ s \in Listed
          \/ n < L /\ stack[n + 1].reg = s
      <4>1. n \in DOMAIN stack /\ stack'[n] = stack[n]
        OBVIOUS
      <4>2. s \in Succ(program, stack[n].reg)
        BY <2>5, <4>1, Zenon
      <4>3. QED
        BY <2>1, <4>1, <4>2, Zenon DEF Accounted
    <3>2. n + 1 = L \/ (n < L - 1 /\ n + 1 \in 1 .. (L - 1))
      OBVIOUS
    <3>3. CASE n < L - 1 /\ n + 1 \in 1 .. (L - 1)
      <4>1. stack'[n] = stack[n] /\ stack'[n + 1] = stack[n + 1]
        BY <3>3
      <4>2. QED
        BY <1>3, <3>1, <3>3, <4>1
    <3>4. CASE n + 1 = L
      <4>1. stack'[n] = stack[n]
        OBVIOUS
      <4>2. QED
        BY <1>3, <3>1, <3>4, <4>1
    <3>5. QED
      BY <3>2, <3>3, <3>4
  <2>6. Accounted'
    <3>1. DOMAIN stack' = 1 .. (L - 1) /\ Len(stack') = L - 1 /\ program' = program
      OBVIOUS
    <3>2. ASSUME NEW n \in DOMAIN stack', NEW s \in Succ(program', stack'[n].reg)
          PROVE  \/ s \in stack'[n].left
                 \/ s \in Listed'
                 \/ n < Len(stack') /\ stack'[n + 1].reg = s
      <4>1. n \in 1 .. (L - 1) /\ s \in Succ(program, stack'[n].reg)
        BY <3>1, Zenon
      <4>2. QED
        BY <2>5, <3>1, <4>1, Zenon
    <3>3. QED
      BY <3>2, Zenon DEF Accounted
  <2>7. QED
    BY <2>4, <2>6
<1>9. Acyclic(program') <=> Acyclic(program)
  OBVIOUS
<1>10. QED
  BY <1>5, <1>6, <1>7, <1>8, <1>9 DEF Searching

(* The reversal at the end turns what is finished into what is returned. *)
LEMMA OrderReversed ==
  ASSUME RpoTypeOK, Searching, stack = <<>>, roots = {},
         NEW K \in Nat, K = Len(order),
         DOMAIN order = 1 .. K,
         order' = [k \in 1 .. K |-> order[(K - k) + 1]],
         done', program' = program
  PROVE  DestinationsFirst'
<1>1. /\ visited = Listed \cup Searched
      /\ \A m, n \in 1 .. K : order[m] = order[n] => m = n
  BY DEF Searching, Placed
<1>2. Searched = {}
  BY DEF Searched
<1>3. Listed = RegsOf(program)
  BY <1>1, <1>2 DEF Searching, Reached, RpoTypeOK
<1>4. \A k \in 1 .. K : (K - k) + 1 \in 1 .. K /\ order'[k] = order[(K - k) + 1]
  OBVIOUS
<1>5. \A k \in 1 .. K : order'[(K - k) + 1] = order[k]
  BY <1>4
<1>6. DOMAIN order' = 1 .. K
  OBVIOUS
<1>7. EveryRegisterOnce'
  <2>1. {order'[n] : n \in 1 .. K} = Listed
    <3> DEFINE back(k) == (K - k) + 1
               v == order'
    <3>1. \A k \in 1 .. K : back(k) \in 1 .. K /\ v[k] = order[back(k)] /\ v[back(k)] = order[k]
      BY <1>4, <1>5
    <3> HIDE DEF back, v
    <3>2. ASSUME NEW n \in 1 .. K
          PROVE  v[n] \in {order[m] : m \in 1 .. K} /\ order[n] \in {v[m] : m \in 1 .. K}
      BY <3>1, Zenon
    <3>3. {v[n] : n \in 1 .. K} = {order[n] : n \in 1 .. K}
      BY <3>2, Zenon
    <3>4. QED
      BY <3>3 DEF Listed, v
  <2>2. ASSUME NEW m \in 1 .. K, NEW n \in 1 .. K, order'[m] = order'[n]
        PROVE  m = n
    <3>1. (K - m) + 1 = (K - n) + 1
      BY <1>1, <1>4, <2>2
    <3>2. QED
      BY <3>1
  <2>3. program' = program
    OBVIOUS
  <2>4. {order'[n] : n \in DOMAIN order'} = RegsOf(program')
    BY <1>3, <1>6, <2>1, <2>3, Zenon
  <2>5. \A m, n \in DOMAIN order' : order'[m] = order'[n] => m = n
    BY <1>6, <2>2, Zenon
  <2>6. QED
    BY <2>4, <2>5, Zenon DEF EveryRegisterOnce
<1>8. ASSUME Acyclic(program), NEW d \in RegsOf(program), NEW s \in Succ(program, d)
      PROVE  Precedes(d, s)'
  <2>1. PICK n \in 1 .. K : order[n] = d
    BY <1>3 DEF Listed
  <2>2. PICK m \in 1 .. (n - 1) : order[m] = s
    BY <1>8, <2>1 DEF Searching, Finished
  <2>3. /\ (K - n) + 1 \in 1 .. K /\ (K - m) + 1 \in 1 .. K /\ (K - n) + 1 < (K - m) + 1
        /\ m \in 1 .. K
    OBVIOUS
  <2>4. order'[(K - n) + 1] = d /\ order'[(K - m) + 1] = s
    BY <1>5, <2>1, <2>2, <2>3
  <2>5. QED
    BY <1>6, <2>3, <2>4 DEF Precedes
<1>9. QED
  BY <1>7, <1>8 DEF DestinationsFirst

(* The search starts and goes on as the invariant says. *)
LEMMA RpoStarts == RpoInit => RpoInv
<1> SUFFICES ASSUME RpoInit, RpoTypeOK PROVE RpoInv
  BY RpoInitTyped
<1>1. ~done /\ stack = <<>> /\ order = <<>> /\ visited = {} /\ roots = RegsOf(program)
  BY DEF RpoInit
<1>2. (\A n \in DOMAIN stack : FALSE) /\ (\A n \in DOMAIN order : FALSE)
  BY <1>1
<1>3. Listed = {} /\ Searched = {}
  BY <1>2 DEF Listed, Searched
<1>4. Placed /\ Reached /\ Path /\ Accounted /\ Finished
  BY <1>1, <1>2, <1>3 DEF Placed, Reached, Path, Accounted, Finished
<1>5. QED
  BY <1>1, <1>4 DEF RpoInv, Searching

LEMMA RpoStep ==
  ASSUME RpoInv, [RpoNext]_rpo_vars
  PROVE  RpoInv'
<1>0. RpoTypeOK'
  BY RpoStepTyped DEF RpoInv
<1> USE <1>0
<1> DEFINE L == Len(stack)
           K == Len(order)
<1>1. /\ L \in Nat /\ DOMAIN stack = 1 .. L /\ (stack # <<>> <=> L > 0)
      /\ K \in Nat /\ DOMAIN order = 1 .. K
      /\ DOMAIN stack' = 1 .. Len(stack')
  BY LenProperties, EmptySeq DEF RpoInv, RpoTypeOK
<1>2. RpoTypeOK
  BY DEF RpoInv
<1>3. CASE StartRoot
  <2>1. PICK r \in roots : Search(r, <<>>) /\ roots' = roots \ {r}
    BY <1>3 DEF StartRoot
  <2>2. ~done /\ ~done' /\ Searching /\ stack = <<>> /\ L = 0
    BY <1>1, <1>3, <2>1 DEF RpoInv, StartRoot
  <2>3. r \in RegsOf(program) /\ r \in RegId
    BY <1>2, SuccessorsAreRegisters DEF RpoTypeOK
  <2>4. CASE r \in visited
    <3>1. UNCHANGED <<program, stack, order, visited>>
      BY <1>3, <2>1, <2>2, <2>4 DEF StartRoot, Search
    <3>2. (Placed <=> Placed') /\ (Path <=> Path') /\ (Accounted <=> Accounted')
          /\ (Finished <=> Finished') /\ (Acyclic(program) <=> Acyclic(program)')
      BY <3>1 DEF Placed, Path, Accounted, Finished, Listed, Searched, ClosedUnder
    <3>3. Reached'
      BY <2>1, <2>2, <2>4, <3>1 DEF Searching, Reached
    <3>4. QED
      BY <2>2, <3>2, <3>3 DEF RpoInv, Searching
  <2>5. CASE r \notin visited
    <3>1. stack' = Append(<<>>, NewFrame(r)) /\ visited' = visited \cup {r}
      BY <2>1, <2>5 DEF Search
    <3>2. /\ Len(Append(<<>>, NewFrame(r))) = Len(<<>>) + 1
          /\ Append(<<>>, NewFrame(r))[Len(<<>>) + 1].reg = r
          /\ Append(<<>>, NewFrame(r))[Len(<<>>) + 1].left = Succ(program, r)
      BY <2>3, EmptySeq, FramePushed
    <3>3. /\ Len(stack') = 0 + 1 /\ stack'[0 + 1].reg = r /\ stack'[0 + 1].left = Succ(program, r)
      BY <3>1, <3>2, Len(<<>>) = 0
    <3>4. DOMAIN stack' = 1 .. (L + 1) /\ Len(stack') = L + 1
          /\ stack'[L + 1].reg = r /\ stack'[L + 1].left = Succ(program, r)
      BY <1>1, <2>2, <3>3
    <3>5. program' = program /\ order' = order /\ roots \ {r} \subseteq roots'
      BY <1>3, <2>1 DEF StartRoot
    <3>6. \A k \in 1 .. L : FALSE
      BY <2>2
    <3> HIDE DEF L
    <3>7. Searching'
      BY <1>1, <1>2, <2>2, <2>3, <2>5, <3>1, <3>4, <3>5, <3>6, NewSearch DEF L
    <3>8. QED
      BY <2>2, <3>7 DEF RpoInv
  <2>6. QED
    BY <2>4, <2>5
<1>4. CASE VisitSuccessor
  <2> DEFINE rest(n) == Append(Front(stack), [Last(stack) EXCEPT !.left = @ \ {n}])
  <2>1. PICK n \in Last(stack).left : Search(n, rest(n))
    BY <1>4 DEF VisitSuccessor
  <2> HIDE DEF rest
  <2>2. /\ stack # <<>> /\ stack \in Seq(Frame) /\ L \in Nat \ {0}
        /\ ~done /\ ~done' /\ Searching
        /\ UNCHANGED <<program, roots, order>>
    BY <1>1, <1>2, <1>4 DEF RpoInv, VisitSuccessor, RpoTypeOK
  <2>3. n \in Succ(program, stack[L].reg) /\ n \in RegsOf(program) /\ n \in RegId
    BY <1>2, <2>1, <2>2, FrameDropped, LenProperties, SuccessorsAreRegisters DEF RpoTypeOK
  <2>4. /\ rest(n) \in Seq(Frame)
        /\ Len(rest(n)) = L
        /\ \A k \in 1 .. L : rest(n)[k].reg = stack[k].reg
        /\ \A k \in 1 .. L :
             rest(n)[k].left = IF k = L THEN stack[k].left \ {n} ELSE stack[k].left
    <3>1. /\ rest(n) \in Seq(Frame)
          /\ Len(rest(n)) = Len(stack)
          /\ \A k \in 1 .. Len(stack) : rest(n)[k].reg = stack[k].reg
          /\ \A k \in 1 .. Len(stack) :
               rest(n)[k].left = IF k = Len(stack) THEN stack[k].left \ {n} ELSE stack[k].left
      BY <2>2, FrameAdvanced, Zenon DEF rest
    <3>2. QED
      BY <3>1
  <2>5. CASE n \in visited
    <3>1. stack' = rest(n) /\ visited' = visited
      BY <2>1, <2>5 DEF Search
    <3>2. DOMAIN stack' = 1 .. L /\ Len(stack') = L
      BY <1>1, <2>4, <3>1
    <3> HIDE DEF L
    <3>3. Searching'
      BY <1>1, <1>2, <2>2, <2>3, <2>4, <2>5, <3>1, <3>2, SearchedAlready DEF L
    <3>4. QED
      BY <2>2, <3>3 DEF RpoInv
  <2>6. CASE n \notin visited
    <3>1. stack' = Append(rest(n), NewFrame(n)) /\ visited' = visited \cup {n}
      BY <2>1, <2>6 DEF Search
    <3>2. /\ Len(stack') = Len(rest(n)) + 1
          /\ \A k \in 1 .. Len(rest(n)) : stack'[k] = rest(n)[k]
          /\ stack'[Len(rest(n)) + 1].reg = n
          /\ stack'[Len(rest(n)) + 1].left = Succ(program, n)
      BY <2>3, <2>4, <3>1, FramePushed
    <3>3. /\ DOMAIN stack' = 1 .. (L + 1) /\ Len(stack') = L + 1
          /\ stack'[L + 1].reg = n /\ stack'[L + 1].left = Succ(program, n)
          /\ \A k \in 1 .. L : stack'[k].reg = stack[k].reg
          /\ \A k \in 1 .. L :
               stack'[k].left = IF k = L THEN stack[k].left \ {n} ELSE stack[k].left
      BY <1>1, <2>4, <3>2
    <3> HIDE DEF L
    <3>4. Searching'
      BY <1>1, <1>2, <2>2, <2>3, <2>6, <3>1, <3>3, NewSearch DEF L
    <3>5. QED
      BY <2>2, <3>4 DEF RpoInv
  <2>7. QED
    BY <2>5, <2>6
<1>5. CASE EndSearch
  <2>1. /\ stack # <<>> /\ stack \in Seq(Frame) /\ L \in Nat \ {0} /\ order \in Seq(RegId)
        /\ ~done /\ ~done' /\ Searching
        /\ UNCHANGED <<program, roots, visited>>
    BY <1>1, <1>2, <1>5 DEF RpoInv, EndSearch, RpoTypeOK
  <2>2. /\ stack' = Front(stack) /\ order' = Append(order, stack[L].reg)
        /\ stack[L].left = {}
    BY <1>5, <2>1, FrameDropped DEF EndSearch
  <2>3. stack[L].reg \in RegId
    BY <2>1, FrameDropped DEF Frame
  <2>4. /\ DOMAIN stack' = 1 .. (L - 1) /\ Len(stack') = L - 1
        /\ \A k \in 1 .. (L - 1) : stack'[k] = stack[k]
    BY <1>1, <2>1, <2>2, FrameDropped
  <2>5. /\ order' \in Seq(RegId) /\ Len(order') = K + 1
        /\ \A k \in 1 .. K : order'[k] = order[k]
        /\ order'[K + 1] = stack[L].reg
    BY <2>1, <2>2, <2>3, AppendProperties
  <2>6. DOMAIN order' = 1 .. (K + 1)
    BY <2>5, LenProperties
  <2> HIDE DEF L, K
  <2>7. Searching'
    BY <1>1, <1>2, <2>1, <2>2, <2>4, <2>5, <2>6, SearchEnded DEF L, K
  <2>8. QED
    BY <2>1, <2>7 DEF RpoInv
<1>6. CASE ReverseOrder
  <2>1. /\ Searching /\ stack = <<>> /\ roots = {} /\ done' /\ program' = program
        /\ UNCHANGED <<stack, roots>>
    BY <1>6 DEF RpoInv, ReverseOrder
  <2>2. order' = [k \in 1 .. K |-> order[(K - k) + 1]]
    BY <1>6 DEF ReverseOrder, Reverse
  <2> HIDE DEF K
  <2>3. DestinationsFirst'
    BY <1>1, <1>2, <2>1, <2>2, OrderReversed DEF K
  <2>4. QED
    BY <2>1, <2>3 DEF RpoInv
<1>7. CASE UNCHANGED rpo_vars
  <2>1. (Searching <=> Searching') /\ (DestinationsFirst <=> DestinationsFirst')
    BY <1>7 DEF rpo_vars, Searching, Placed, Reached, Path, Accounted, Finished, Listed, Searched,
       ClosedUnder, DestinationsFirst, EveryRegisterOnce, Precedes
  <2>2. QED
    BY <1>7, <2>1 DEF rpo_vars, RpoInv
<1>8. QED
  BY <1>3, <1>4, <1>5, <1>6, <1>7 DEF RpoNext, rpo_vars

LEMMA SearchKeeps == StageSpec => [](~built => RpoInv)
<1> DEFINE Inv == ~built => RpoInv
<1>1. StageInit => Inv
  BY RpoStarts DEF StageInit
<1>2. Inv /\ [StageNext]_stage_vars => Inv'
  <2> SUFFICES ASSUME Inv, [StageNext]_stage_vars, ~built' PROVE RpoInv'
    OBVIOUS
  <2>1. ~built /\ [RpoNext]_rpo_vars
    BY DEF StageNext, OrderRegisters, EngineBuilt, Infer, stage_vars
  <2>2. QED
    BY <2>1, RpoStep
<1>3. QED
  BY <1>1, <1>2, PTL DEF StageSpec

(***************************************************************************)
(* SweepsCoverProgram, for every instruction stream, whatever order the    *)
(* roots and the sources are taken in: the order that propagate_rpo goes   *)
(* over has each register of the program once.                             *)
(***************************************************************************)
THEOREM SweepOrder == StageSpec => []SweepsCoverProgram
<1>1. (~built => RpoInv) => SweepsCoverProgram
  BY DEF SweepsCoverProgram, OrderIsComplete, RpoInv, DestinationsFirst
<1>2. QED
  BY <1>1, SearchKeeps, PTL

(***************************************************************************)
(* The comment on compute_rpo (stage_type_infer.rs:196-198) is wrong of    *)
(* every program without cycles, not of some orders only: a register that  *)
(* an instruction reads stands behind the one it computes, never before.   *)
(***************************************************************************)
DefinitionsLast ==
  done /\ Acyclic(program) =>
    \A d \in RegsOf(program) : \A s \in Succ(program, d) :
      Precedes(d, s) /\ ~Precedes(s, d)

THEOREM OrderIsOpposite == StageSpec => [](~built => DefinitionsLast)
<1>1. RpoInv => DefinitionsLast
  <2> SUFFICES ASSUME RpoInv, done, Acyclic(program),
                      NEW d \in RegsOf(program), NEW s \in Succ(program, d)
               PROVE  Precedes(d, s) /\ ~Precedes(s, d)
    BY DEF DefinitionsLast
  <2>1. Precedes(d, s) /\ EveryRegisterOnce
    BY DEF RpoInv, DestinationsFirst
  <2>2. PICK m, n \in DOMAIN order : m < n /\ order[m] = d /\ order[n] = s
    BY <2>1 DEF Precedes
  <2>3. ASSUME NEW k \in DOMAIN order, NEW l \in DOMAIN order, order[k] = s, order[l] = d
        PROVE  ~(k < l)
    <3>1. k = n /\ l = m
      BY <2>1, <2>2, <2>3 DEF EveryRegisterOnce
    <3>2. DOMAIN order \subseteq Nat
      BY LenProperties DEF RpoInv, RpoTypeOK
    <3>3. QED
      BY <2>2, <3>1, <3>2
  <2>4. QED
    BY <2>1, <2>3 DEF Precedes
<1>2. (~built => RpoInv) => (~built => DefinitionsLast)
  BY <1>1
<1>3. QED
  BY <1>2, SearchKeeps, PTL

(***************************************************************************)
(* The stage runs the inference and nothing else that its variables see:   *)
(* what is proved of Spec holds of the stage.                              *)
(***************************************************************************)
THEOREM StageInfers == StageSpec => Spec
<1>1. StageInit => Init
  BY DEF StageInit
<1>2. [StageNext]_stage_vars => [Next]_vars
  BY DEF StageNext, OrderRegisters, EngineBuilt, Infer, stage_vars
<1>3. QED
  BY <1>1, <1>2, PTL DEF StageSpec, Spec
=============================================================================
