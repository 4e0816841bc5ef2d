---------------------------- MODULE ControlFlow ----------------------------
(***************************************************************************)
(* A thread of the SASS kernel and a thread of the emitted PTX, run in     *)
(* step: the question is whether they pass the same instructions.  The     *)
(* predicates that guard instructions are free at every step.              *)
(*                                                                         *)
(* SASS: a branch goes to the first instruction of its address; BSSY       *)
(* writes its target into its barrier, and a thread that passes a BSYNC    *)
(* goes on where its barrier says.  PTX: a branch goes to its label.       *)
(***************************************************************************)
EXTENDS EmitLabels

VARIABLES
  sass,      \* the next SASS instruction; beyond the kernel once it has ended
  ptx,       \* the next PTX line
  barriers   \* what the barriers hold: an address, or Unset

machine == <<sass, ptx, barriers>>
vars == <<kernel, types, stage, i, branch_targets, stacks, bsync_rewrite,
          emitted_labels, left, out, sass, ptx, barriers>>

Unset == -1
Ended == Len(kernel) + 1

FlowInit ==
  /\ Init
  /\ sass = 1 /\ ptx = 1
  /\ barriers = [b \in Barrier |-> Unset]

-----------------------------------------------------------------------------
Holds(guard, true) ==
  CASE guard = "none" -> TRUE [] guard = "never" -> FALSE [] OTHER -> guard \in true

(* The first instruction from n on that has an effect: not @!PT. *)
From(n) ==
  LET rest == {m \in n..Len(kernel) : kernel[m].guard # "never"}
  IN  IF rest = {} THEN Ended ELSE First(rest)

At(a) ==
  LET places == {n \in DOMAIN kernel : kernel[n].address = a}
  IN  IF places = {} THEN Ended ELSE From(First(places))

SassNext(inst, true) ==
  IF ~Holds(inst.guard, true) THEN From(sass + 1)
  ELSE CASE inst.op = "EXIT"           -> Ended
         [] inst.op \in {"BRA", "JMP"} -> At(branch_addr(inst))
         [] inst.op = "BSYNC"          -> At(barriers[inst.barrier])
         [] OTHER                      -> From(sass + 1)

PtxNext(line, true) ==
  IF ~Holds(line.guard, true) THEN ptx + 1
  ELSE CASE line.what = "ret" -> Len(out) + 1
         [] line.what = "bra" -> First(LabelsAt(line.to))
         [] OTHER             -> ptx + 1

(* The instruction whose line the PTX thread comes to. *)
Coming ==
  LET lines == {m \in ptx..Len(out) : out[m].what # "label"}
  IN  IF lines = {} THEN Ended ELSE out[First(lines)].of

(* Passing a BSYNC whose barrier no BSSY has written has no meaning. *)
Meaningful == kernel[sass].op = "BSYNC" => barriers[kernel[sass].barrier] # Unset

Launch ==
  /\ Closed
  /\ sass' = From(1)
  /\ UNCHANGED <<ptx, barriers>>

PassLabel ==
  /\ stage = "done" /\ ptx <= Len(out)
  /\ out[ptx].what = "label"
  /\ ptx' = ptx + 1
  /\ UNCHANGED <<emitVars, sass, barriers>>

PassInstruction(true) ==
  /\ stage = "done" /\ ptx <= Len(out)
  /\ out[ptx].what # "label"
  /\ sass = out[ptx].of /\ Meaningful
  /\ LET inst == kernel[sass]
     IN  /\ sass' = SassNext(inst, true)
         /\ ptx' = PtxNext(out[ptx], true)
         /\ barriers' = IF IsOpening(inst) /\ Holds(inst.guard, true)
                        THEN [barriers EXCEPT ![inst.barrier] = branch_addr(inst)]
                        ELSE barriers
  /\ UNCHANGED emitVars

(* Both have ended, or they have parted, or the kernel has no meaning. *)
Stopped ==
  /\ stage = "done"
  /\ \/ sass # Coming
     \/ sass = Ended /\ ptx > Len(out)
     \/ sass <= Len(kernel) /\ ~Meaningful
  /\ UNCHANGED vars

Emission == EmitStep /\ UNCHANGED machine

Next ==
  \/ Emission \/ Launch \/ PassLabel \/ Stopped
  \/ \E true \in SUBSET Predicate : PassInstruction(true)

FlowSpec == FlowInit /\ [][Next]_vars

-----------------------------------------------------------------------------
(***************************************************************************)
(* In a kernel of one function, with targets that are instructions not     *)
(* skipped, whose branches the bridge does not retype, and whose barriers  *)
(* are used in brackets that no branch enters, nor the end of another      *)
(* bracket, the PTX thread comes to the instruction the SASS thread is at, *)
(* along every path: labels stand before their instruction, guards are     *)
(* kept, and the text's pairing of BSYNC and BSSY is that of the run.      *)
(***************************************************************************)
Effective == {n \in DOMAIN kernel : kernel[n].guard # "never"}
Jumps == {n \in Effective : kernel[n].op \in {"BRA", "JMP", "BSSY"}}
Places(a) == {n \in DOMAIN kernel : kernel[n].address = a}

TargetsAreKept ==
  /\ \A n \in Jumps : HasTarget(kernel[n]) /\ Places(branch_addr(kernel[n])) \cap Effective # {}
  /\ \A n \in Jumps : HasDst(kernel[n]) =>
       LET classes == types[dst_reg(kernel[n])]
       IN  classes \cap {"F32", "F64"} = {} \/ classes \cap {"Int", "I64"} # {}

(* Where a jump is made from: one through a barrier, from the BSYNC. *)
Leaves(k) ==
  IF kernel[k].op = "BSSY" THEN {m \in DOMAIN kernel : Bracket(k, m)} ELSE {k}

(* n to m is a bracket, and a jump into it comes from it. *)
Region(n, m) ==
  /\ n \in Effective /\ Bracket(n, m)
  /\ kernel[n].guard = "none"
  /\ \A k \in Jumps : Places(branch_addr(kernel[k])) \cap (n + 1)..m # {} =>
       Leaves(k) \subseteq n..m

Bracketed ==
  /\ \A m \in DOMAIN kernel : kernel[m].op = "BSYNC" => \E n \in 1..m : Region(n, m)
  /\ \A n, m \in DOMAIN kernel : IsOpening(kernel[n]) /\ IsOpening(kernel[m]) /\ n < m
       /\ kernel[n].barrier = kernel[m].barrier => ClosedIn(kernel[n].barrier, n, m) > 0

Structured ==
  /\ UniqueAddresses /\ TargetsAreKept /\ Bracketed
  /\ \A n \in DOMAIN kernel :
       /\ kernel[n].guard \notin {"UP0", "UP1"}
       /\ kernel[n].op \notin {"CALL", "CAL", "RET", "BRX", "JMX", "BRXU", "JMXU", "BREAK"}

SameInstruction == stage = "done" /\ Structured => Coming = sass

(***************************************************************************)
(* emit/mod.rs:95: "BSYNC: rewrite to explicit branch to convergence       *)
(* point".  A BSYNC that a thread reaches, and from which its barrier      *)
(* takes it neither to the next instruction nor back to the BSYNC itself,  *)
(* is a branch in the text.  The code does not do this: it pairs BSYNCs    *)
(* with BSSYs in the order of the text, so that of the two sides of a      *)
(* branch the one whose BSYNC comes second loses it.                       *)
(***************************************************************************)
BsyncsBranch ==
  stage = "done" /\ sass <= Len(kernel) /\ kernel[sass].op = "BSYNC"
    /\ Meaningful /\ Coming = sass
    /\ At(barriers[kernel[sass].barrier]) \notin {sass, From(sass + 1)}
      => \E n \in DOMAIN out : out[n].of = sass /\ out[n].what = "bra"
=============================================================================
