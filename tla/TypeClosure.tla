----------------------------- MODULE TypeClosure -----------------------------
(***************************************************************************)
(* What type inference promises, without its worklist, its sweeps or its   *)
(* iteration orders: classes are only ever added when a constraint of the  *)
(* program derives them, and the result is announced only when nothing     *)
(* more can be derived.  Such a result is the least closed assignment, so  *)
(* it depends on the program alone.                                        *)
(***************************************************************************)
EXTENDS TypeConstraints

VARIABLES
  prog,      \* the instruction stream
  known,     \* register -> concrete classes derived so far
  finished   \* has the result been announced?

vars == <<prog, known, finished>>

TypeOK ==
  /\ prog \in Programs
  /\ known \in Assignments(prog)
  /\ finished \in BOOLEAN

Init ==
  /\ prog \in Programs
  /\ known = [r \in RegsOf(prog) |-> {}]
  /\ finished = FALSE

Derive ==
  /\ ~finished /\ known' # known
  /\ \E u \in Derivable(prog, known) :
       known' = [known EXCEPT ![u[1]] = @ \cup {u[2]}]
  /\ UNCHANGED <<prog, finished>>

Finish ==
  /\ ~finished /\ finished' = TRUE
  /\ Closed(prog, known)
  /\ UNCHANGED <<prog, known>>

Next == Derive \/ Finish

Spec == Init /\ [][Next]_vars

-----------------------------------------------------------------------------
(***************************************************************************)
(* The announced result solves the constraints, and no part of it can be   *)
(* left out: dropping any of its (register, class) pairs breaks one.       *)
(***************************************************************************)
Pairs(k) == UNION {{r} \X k[r] : r \in DOMAIN k}

FromPairs(p, S) == [r \in RegsOf(p) |-> {t \in ConcreteType : <<r, t>> \in S}]

LeastSolution ==
  finished =>
    /\ Closed(prog, known)
    /\ \A S \in SUBSET Pairs(known) :
         Closed(prog, FromPairs(prog, S)) => S = Pairs(known)
=============================================================================
