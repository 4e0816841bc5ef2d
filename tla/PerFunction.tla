----------------------------- MODULE PerFunction -----------------------------
(***************************************************************************)
(* What a lift promises: it returns one kernel after another, each lifted  *)
(* from exactly the instructions of one function that was asked for, and   *)
(* returns only when every function asked for has its kernel; or it fails, *)
(* and returns no kernel.                                                  *)
(***************************************************************************)
EXTENDS Sequences, FiniteSets

VARIABLES
  program,  \* the instructions of each function, once the input is known
  wanted,   \* the functions asked for
  known,    \* whether the input is known
  kernels,  \* the kernels made: the function's name and its instructions
  outcome   \* "running", "returned" or "failed"

vars == <<program, wanted, known, kernels, outcome>>

Made == {kernels[n].name : n \in DOMAIN kernels}

Init ==
  /\ program = <<>> /\ wanted = {} /\ known = FALSE
  /\ kernels = <<>> /\ outcome = "running"

Receive ==
  /\ outcome = "running" /\ ~known
  /\ known' = TRUE
  /\ wanted' # {} /\ wanted' \subseteq DOMAIN program'
  /\ \A f \in wanted' : program'[f] # <<>>
  /\ UNCHANGED <<kernels, outcome>>

Make(f) ==
  /\ outcome = "running" /\ known
  /\ f \in wanted \ Made
  /\ kernels' = Append(kernels, [name |-> f, instructions |-> program[f]])
  /\ UNCHANGED <<program, wanted, known, outcome>>

Return ==
  /\ outcome = "running" /\ known /\ Made = wanted
  /\ outcome' = "returned"
  /\ UNCHANGED <<program, wanted, known, kernels>>

Fail ==
  /\ outcome = "running" /\ kernels = <<>>
  /\ outcome' = "failed"
  /\ UNCHANGED <<program, wanted, known, kernels>>

Next == Receive \/ (\E f \in wanted : Make(f)) \/ Return \/ Fail

Spec == Init /\ [][Next]_vars
=============================================================================
