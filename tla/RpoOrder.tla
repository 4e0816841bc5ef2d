------------------------------ MODULE RpoOrder ------------------------------
(***************************************************************************)
(* compute_rpo (lifter/src/sass/type_infer/stage_type_infer.rs): a depth-  *)
(* first search over the registers of a program along the edges from a     *)
(* destination to the sources of the same instruction; registers are       *)
(* pushed when their search ends and the list is reversed at the end.      *)
(*                                                                         *)
(* The recursion is a stack of frames.  The roots come in any order, as    *)
(* `types.keys()` of a HashMap does, and the successors of a register in   *)
(* any order.                                                              *)
(***************************************************************************)
EXTENDS TypeConstraints, SequencesExt

VARIABLES
  program,  \* the instruction stream
  roots,    \* keys of `types` the outer loop has not reached
  visited,  \* registers whose dfs call has started
  stack,    \* dfs frames, innermost last: the register and its successors left
  order,    \* the result
  done      \* has compute_rpo returned?

rpo_vars == <<program, roots, visited, stack, order, done>>

(* succ: where each destination's edges lead. *)
Succ(p, r) ==
  {s \in RegsOf(p) : \E i \in DOMAIN p : Occurs(p[i].dsts, r) /\ Occurs(p[i].srcs, s)}

NewFrame(r) == [reg |-> r, left |-> Succ(program, r)]

(* Mutant: the search starts from the registers that have edges only. *)
RpoInit_from_edges ==
  /\ program \in Programs
  /\ roots = {r \in RegsOf(program) : Succ(program, r) # {}}
  /\ visited = {}
  /\ stack = <<>>
  /\ order = <<>>
  /\ done = FALSE

RpoInit ==
  /\ program \in Programs
  /\ roots = RegsOf(program)
  /\ visited = {}
  /\ stack = <<>>
  /\ order = <<>>
  /\ done = FALSE

(* Mutant: a register is searched again each time it is met.  The frames   *)
(* of its endless descent are not told apart beyond the fourth.            *)
Search_ignores_visited(r, rest) ==
  /\ stack' = Append(SubSeq(rest, 1, IF Len(rest) < 4 THEN Len(rest) ELSE 4), NewFrame(r))
  /\ visited' = visited \cup {r}

(* The test at the head of dfs: a visited register is not searched again. *)
Search(r, rest) ==
  IF r \in visited
  THEN stack' = rest /\ visited' = visited
  ELSE stack' = Append(rest, NewFrame(r)) /\ visited' = visited \cup {r}

StartRoot ==
  /\ stack = <<>>
  /\ \E r \in roots :
       /\ Search(r, <<>>)
       /\ roots' = roots \ {r}
  /\ UNCHANGED <<program, order, done>>

VisitSuccessor ==
  /\ stack # <<>>
  /\ \E n \in Last(stack).left :
       Search(n, Append(Front(stack),
                        [Last(stack) EXCEPT !.left = @ \ {n}]))
  /\ UNCHANGED <<program, roots, order, done>>

EndSearch ==
  /\ stack # <<>>
  /\ Last(stack).left = {}
  /\ order' = Append(order, Last(stack).reg)
  /\ stack' = Front(stack)
  /\ UNCHANGED <<program, roots, visited, done>>

ReverseOrder ==
  /\ ~done
  /\ stack = <<>>
  /\ roots = {}
  /\ order' = Reverse(order)
  /\ done' = TRUE
  /\ UNCHANGED <<program, roots, visited, stack>>

RpoNext == StartRoot \/ VisitSuccessor \/ EndSearch \/ ReverseOrder

-----------------------------------------------------------------------------
(***************************************************************************)
(* rpo_order: the registers that propagate_rpo goes over are those of the  *)
(* program, each once, whatever cycles the program has and whatever order  *)
(* the search takes its roots and edges in.                                *)
(***************************************************************************)
EveryRegisterOnce ==
  /\ {order[n] : n \in DOMAIN order} = RegsOf(program)
  /\ \A m, n \in DOMAIN order : order[m] = order[n] => m = n

OrderIsComplete == done => EveryRegisterOnce

(***************************************************************************)
(* The recursion ends on cyclic def-use graphs too.                        *)
(***************************************************************************)
SearchEnds == <>done

-----------------------------------------------------------------------------
Precedes(a, b) ==
  \E m, n \in DOMAIN order : m < n /\ order[m] = a /\ order[n] = b

(* Does no path lead from r back to r?  (S is closed under the edges.) *)
Acyclic(p) ==
  \A r \in RegsOf(p) :
    \E S \in SUBSET RegsOf(p) :
      /\ r \notin S
      /\ Succ(p, r) \subseteq S
      /\ \A q \in S : Succ(p, q) \subseteq S

(***************************************************************************)
(* The comment on compute_rpo (stage_type_infer.rs:196-198), "definitions  *)
(* first, then consumers ... a def always precedes all instructions that   *)
(* use it": where there is no cycle, what an instruction reads stands      *)
(* before what it computes.  The code does not do this: its edges lead     *)
(* from a destination to the sources, so that the reversed post-order      *)
(* lists the destination first.                                            *)
(***************************************************************************)
DefinitionsFirst ==
  done /\ Acyclic(program) =>
    \A d \in RegsOf(program) : \A s \in Succ(program, d) : Precedes(s, d)
=============================================================================
