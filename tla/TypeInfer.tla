------------------------------ MODULE TypeInfer ------------------------------
(***************************************************************************)
(* The type_infer stage, TypeInferEngine::infer, one iteration of its      *)
(* loops per step:                                                         *)
(*                                                                         *)
(*   seed           applies every seed and queues the registers it changes *)
(*   propagate_from pops a register, collects its updates, applies them    *)
(*   propagate_rpo  collects the updates of every register, applies the    *)
(*                  batch, and repeats while the batch changed anything    *)
(*   detect_psi     marks the registers with mixed type families           *)
(*                                                                         *)
(* A batch of updates is a set and is applied in any order: the code's     *)
(* order depends on the iteration order of its HashMaps and HashSets (the  *)
(* classes of a register, and the registers of rpo_order).                 *)
(***************************************************************************)
EXTENDS TypeConstraints

VARIABLES
  prog,       \* self.instructions with self.def_use
  types,      \* self.types
  worklist,   \* propagate_from's VecDeque
  updates,    \* the updates (in seed: the seeds) still to be applied
  changed,    \* propagate_rpo's flag
  iteration,  \* propagate_rpo's counter
  psi,        \* self.psi_regs
  pc          \* where infer() is

vars == <<prog, types, worklist, updates, changed, iteration, psi, pc>>

Phase == {"seed", "propagate", "collect", "sweep", "detect_psi", "done"}

(* TypeInferEngine::get on a map t: the classes of r other than Unknown. *)
Get(t, r) == t[r] \ {"Unknown"}

Known == [r \in RegsOf(prog) |-> Get(types, r)]

(***************************************************************************)
(* apply: a concrete class replaces Unknown; the result says whether the   *)
(* set changed.                                                            *)
(***************************************************************************)
(* Mutants: Unknown stays in the set; the class replaces the others. *)
Applied_keeps_unknown(u) == [types EXCEPT ![u[1]] = @ \cup {u[2]}]
Applied_replaces(u) == [types EXCEPT ![u[1]] = {u[2]}]

Applied(u) == [types EXCEPT ![u[1]] = (@ \ {"Unknown"}) \cup {u[2]}]

Changes(u) == u[2] \notin types[u[1]] \/ "Unknown" \in types[u[1]]

(***************************************************************************)
(* detect_psi: two definitions or more, and both Int and a float class in  *)
(* the register's set.                                                     *)
(***************************************************************************)
MixedFamilies(classes) == "Int" \in classes /\ classes \cap {"F32", "F64"} # {}

DefinedTwice(p, r) == \E i, j \in DefsOf(p, r) : i # j

PsiRegs(p, t) == {r \in RegsOf(p) : DefinedTwice(p, r) /\ MixedFamilies(t[r])}

-----------------------------------------------------------------------------
TypeOK ==
  /\ prog \in Programs
  /\ types \in [RegsOf(prog) -> SUBSET TypeClass]
  /\ worklist \in Seq(RegsOf(prog))
  /\ updates \in SUBSET (RegsOf(prog) \X ConcreteType)
  /\ changed \in BOOLEAN
  /\ iteration \in Nat
  /\ psi \in SUBSET RegsOf(prog)
  /\ pc \in Phase

(* Mutant: only the destinations are entered. *)
Init_destinations_only ==
  /\ prog \in Programs
  /\ types = [r \in {q \in RegsOf(prog) : DefsOf(prog, q) # {}} |-> {"Unknown"}]
  /\ worklist = <<>>
  /\ updates = Seeds(prog)
  /\ changed = TRUE
  /\ iteration = 0
  /\ psi = {}
  /\ pc = "seed"

Init ==
  /\ prog \in Programs
  /\ types = [r \in RegsOf(prog) |-> {"Unknown"}]
  /\ worklist = <<>>
  /\ updates = Seeds(prog)
  /\ changed = TRUE
  /\ iteration = 0
  /\ psi = {}
  /\ pc = "seed"

(* One turn of `for (reg, ty) in seeds` or of `for (target, ty) in updates`
   under a worklist: a register whose set changed is queued. *)
ApplyAndQueue ==
  /\ pc \in {"seed", "propagate"}
  /\ \E u \in updates :
       /\ types' = Applied(u)
       /\ worklist' = IF Changes(u) THEN Append(worklist, u[1]) ELSE worklist
       /\ updates' = updates \ {u}
  /\ UNCHANGED <<prog, changed, iteration, psi, pc>>

(* Mutant: the worklist run is skipped as superseded by the sweeps. *)
SeedsApplied_no_worklist ==
  /\ pc = "seed"
  /\ updates = {}
  /\ pc' = "collect"
  /\ UNCHANGED <<prog, types, worklist, updates, changed, iteration, psi>>

SeedsApplied ==
  /\ pc = "seed"
  /\ updates = {}
  /\ pc' = "propagate"
  /\ UNCHANGED <<prog, types, worklist, updates, changed, iteration, psi>>

(* Mutant: the register's classes go to every register, connected or not. *)
PopRegister_pushes_to_all ==
  /\ pc = "propagate"
  /\ updates = {}
  /\ worklist # <<>>
  /\ updates' = RegsOf(prog) \X Get(types, Head(worklist))
  /\ worklist' = Tail(worklist)
  /\ UNCHANGED <<prog, types, changed, iteration, psi, pc>>

PopRegister ==
  /\ pc = "propagate"
  /\ updates = {}
  /\ worklist # <<>>
  /\ updates' = Updates(prog, Head(worklist), Get(types, Head(worklist)))
  /\ worklist' = Tail(worklist)
  /\ UNCHANGED <<prog, types, changed, iteration, psi, pc>>

WorklistEmpty ==
  /\ pc = "propagate"
  /\ updates = {}
  /\ worklist = <<>>
  /\ pc' = "collect"
  /\ UNCHANGED <<prog, types, worklist, updates, changed, iteration, psi>>

(* The body of `while changed` up to the application of the batch. *)
Collect ==
  /\ pc = "collect"
  /\ changed
  /\ changed' = FALSE
  /\ iteration' = iteration + 1
  /\ updates' = SweepUpdates(prog, Known)
  /\ pc' = "sweep"
  /\ UNCHANGED <<prog, types, worklist, psi>>

ApplyInSweep ==
  /\ pc = "sweep"
  /\ \E u \in updates :
       /\ types' = Applied(u)
       /\ changed' = (changed \/ Changes(u))
       /\ updates' = updates \ {u}
  /\ UNCHANGED <<prog, worklist, iteration, psi, pc>>

SweepDone ==
  /\ pc = "sweep"
  /\ updates = {}
  /\ pc' = IF changed THEN "collect" ELSE "detect_psi"
  /\ UNCHANGED <<prog, types, worklist, updates, changed, iteration, psi>>

DetectPsi ==
  /\ pc = "detect_psi"
  /\ psi' = PsiRegs(prog, types)
  /\ pc' = "done"
  /\ UNCHANGED <<prog, types, worklist, updates, changed, iteration>>

Returned == pc = "done" /\ UNCHANGED vars

Next ==
  \/ ApplyAndQueue
  \/ SeedsApplied
  \/ PopRegister
  \/ WorklistEmpty
  \/ Collect
  \/ ApplyInSweep
  \/ SweepDone
  \/ DetectPsi
  \/ Returned

Spec == Init /\ [][Next]_vars

(* The stage is one sequential call: it runs until it returns. *)
FairSpec == Spec /\ WF_vars(Next)

-----------------------------------------------------------------------------
(***************************************************************************)
(* A register's set is {Unknown} or holds concrete classes only: what the  *)
(* bridge reads from ctx.type_constraints never mixes `unconstrained' with *)
(* a class (apply removes Unknown before it inserts).                      *)
(***************************************************************************)
UnknownIsAlone ==
  \A r \in RegsOf(prog) : "Unknown" \in types[r] => types[r] = {"Unknown"}

(***************************************************************************)
(* The stage implements the abstract closure: every set it builds is built *)
(* by derivations, and it leaves the fixpoint loops only when the sets are *)
(* closed under the constraints.                                           *)
(***************************************************************************)
Closure == INSTANCE TypeClosure WITH
  known <- Known, finished <- (pc \in {"detect_psi", "done"})

ImplementsClosure == Closure!Spec

(***************************************************************************)
(* When the loops end the sets are the least solution of the constraints,  *)
(* whatever order the hash containers were iterated in.                    *)
(***************************************************************************)
LeastSolution == Closure!LeastSolution

(***************************************************************************)
(* A reference for the result that runs no fixpoint: registers joined by   *)
(* transparent instructions share their classes, and the others receive    *)
(* the classes of the table rows of the instructions they occur in.        *)
(***************************************************************************)
Transparent(inst) == seed_constraint(inst.op, inst.modifiers).transparent

Linked(p, a, b) ==
  \E i \in DOMAIN p : /\ Transparent(p[i])
                     /\ Occurs(p[i].dsts, a)
                     /\ Occurs(p[i].srcs, b)

Cluster(p, r) ==
  {q \in RegsOf(p) :
     \A S \in SUBSET RegsOf(p) :
       /\ r \in S
       /\ \A a, b \in RegsOf(p) : Linked(p, a, b) => (a \in S <=> b \in S)
       => q \in S}

RowClasses(types_of_row) == {types_of_row[n] : n \in DOMAIN types_of_row}

DirectClasses(p, r) ==
  LET row(i) == seed_constraint(p[i].op, p[i].modifiers)
  IN  UNION ({RowClasses(row(i).dst_types) : i \in DefsOf(p, r)}
             \cup {IF p[i].dsts # <<>>
                   THEN RowClasses(row(i).src_types)
                   ELSE {row(i).src_types[n] :
                           n \in {m \in DOMAIN row(i).src_types \cap DOMAIN p[i].srcs :
                                    p[i].srcs[m] = r}} :
                   i \in {j \in DOMAIN p : Occurs(p[j].srcs, r)}})

Resolved(p, r) == UNION {DirectClasses(p, q) : q \in Cluster(p, r)}

(***************************************************************************)
(* The classes and the psi set the stage returns are those of the          *)
(* reference, so both are functions of the program (the psi set drives     *)
(* the bridge's choice between integer and float immediates).              *)
(***************************************************************************)
ResultIsReference ==
  pc = "done" =>
    /\ \A r \in RegsOf(prog) : Get(types, r) = Resolved(prog, r)
    /\ psi = PsiRegs(prog, [r \in RegsOf(prog) |-> Resolved(prog, r)])

(***************************************************************************)
(* propagate_rpo "converges in 1-2 iterations" (stage_type_infer.rs:136):  *)
(* for the instruction shapes the parser makes, the worklist run after     *)
(* seeding has already closed the sets, so its only sweep changes nothing. *)
(***************************************************************************)
OneIdleSweep == pc \in {"detect_psi", "done"} => iteration = 1

(***************************************************************************)
(* infer() returns: the sets grow within a finite lattice, and a register  *)
(* is queued, or a sweep repeated, only when one of them grew.             *)
(***************************************************************************)
Terminates == <>(pc = "done")
=============================================================================
