-------------------------------- MODULE Lifter --------------------------------
(***************************************************************************)
(* One lift, from the call to its result, through each of its entries:     *)
(*                                                                         *)
(*   text   lift_sass_text_to_ptx                                          *)
(*   cubin  lift_cubin_to_ptx, which is `tool' when the environment names  *)
(*          a cuobjdump                                                    *)
(*   tool   lift_cubin_to_ptx_with_cuobjdump                               *)
(*   cli_text, cli_cubin   sass_lift, whose pipeline starts with parse     *)
(*                                                                         *)
(* The question is which functions become kernels, from which              *)
(* instructions, for which architecture and with whose parameters; what    *)
(* the stages after parse make of a kernel is in the other modules.  None  *)
(* of those stages fails.                                                  *)
(***************************************************************************)
EXTENDS Listing

CONSTANTS
  Unspecified,   \* the names that are empty or begin with `unknown'
  Calls,         \* the calls considered
  Modules        \* the modules considered: a cubin, and its listing

NoInfo == "no info"
DefaultName == "kernel"
Entry == {"text", "cubin", "tool", "cli_text", "cli_cubin"}
FromText == {"text", "cli_text"}
FromCli == {"cli_text", "cli_cubin"}

(***************************************************************************)
(* infos are the kernels .nv.info describes; an nvinfo is the name of the  *)
(* kernel it describes.  env tells whether HETGPU_SASS_LIFTER_CUOBJDUMP is *)
(* set.                                                                    *)
(***************************************************************************)
Functions(lines) == {lines[n].name : n \in {m \in DOMAIN lines : lines[m].kind = "function"}}

(* infer_sm_version_from_cuobjdump_text: the first target named. *)
Targets(lines) ==
  {n \in DOMAIN lines : lines[n].kind = "other" /\ lines[n].number # 0}
FirstTarget(lines) ==
  lines[CHOOSE n \in Targets(lines) : \A m \in Targets(lines) : n <= m].number

Options == [kernel_name: Name \cup Unspecified, sm_version: Nat, nvinfo: Name \cup {NoInfo}]

ASSUME LifterAssumption ==
  /\ NoInfo \notin Name /\ DefaultName \in Name
  /\ \A c \in Calls : /\ c.entry \in Entry /\ c.env \in BOOLEAN /\ c.options \in Options
  /\ \A m \in Modules : /\ m.kernels \subseteq Name /\ m.infos \subseteq m.kernels
                        /\ m.sm \in Nat /\ m.lines \in Listings

(* The architecture that cuobjdump names first is that of the cubin. *)
ASSUME TargetAssumption ==
  \A m \in Modules : Targets(m.lines) # {} => FirstTarget(m.lines) = m.sm

(* Instructions stand above the first header only in a listing without a function `kernel'. *)
ASSUME HeaderAssumption ==
  \A m \in Modules : DefaultName \in Functions(m.lines) =>
    \A n \in DOMAIN m.lines : m.lines[n].kind = "instruction" =>
      \E h \in 1..(n - 1) : m.lines[h].kind = "function"

VARIABLES
  call, module,
  phase,        \* where the call is
  options,      \* SassLiftOptions
  ctx_nvinfo,   \* ctx.nvinfo
  groups,       \* the kernels still to lift: name and instructions
  grouped,      \* the instructions put into groups
  kernels       \* the kernels of the result

vars == <<listing, reading, call, module, phase, options, ctx_nvinfo, groups, grouped,
          kernels>>

is_unspecified_kernel_name(name) == name \in Unspecified

(* A cubin's listing shows its kernels. *)
Init ==
  /\ call \in Calls
  /\ module \in {m \in Modules : call.entry \notin FromText => Functions(m.lines) = m.kernels}
  /\ listing = <<>> /\ StartReading
  /\ phase = "start"
  /\ options = call.options
  /\ ctx_nvinfo = NoInfo
  /\ groups = <<>> /\ grouped = 0
  /\ kernels = <<>>

ByTool == call.entry = "tool" \/ (call.entry = "cubin" /\ call.env)
Failed == phase' = "failed"

-----------------------------------------------------------------------------
(* Input. *)

OpenText ==
  /\ phase = "start" /\ call.entry \in FromText
  /\ listing' = module.lines
  /\ phase' = "read"
  /\ UNCHANGED <<reading, call, module, options, ctx_nvinfo, groups, grouped, kernels>>

(* The kernel's entry of the map, if the sections can be read. *)
Info(name) == {NoInfo} \cup (module.infos \cap {name})

(* Mutant: the architecture of the options is used. *)
OpenCubin_keeps_sm ==
  /\ phase = "start" /\ call.entry = "cubin" /\ ~ByTool
  /\ IF is_unspecified_kernel_name(options.kernel_name)
     THEN \E k \in module.kernels : options' = [options EXCEPT !.kernel_name = k]
     ELSE /\ options.kernel_name \in module.kernels
          /\ options' = options
  /\ phase' = "dump"
  /\ UNCHANGED <<listing, reading, call, module, ctx_nvinfo, groups, grouped, kernels>>

(***************************************************************************)
(* lift_cubin_to_ptx: the kernel asked for, or the first one in the order  *)
(* of a HashMap; its architecture; and its parameters, unless given.       *)
(***************************************************************************)
OpenCubin ==
  /\ phase = "start" /\ call.entry = "cubin" /\ ~ByTool
  /\ \E k \in module.kernels :
       /\ is_unspecified_kernel_name(options.kernel_name) \/ k = options.kernel_name
       /\ \E info \in Info(k) :
            options' = [kernel_name |-> k, sm_version |-> module.sm,
                        nvinfo |-> IF options.nvinfo = NoInfo THEN info ELSE options.nvinfo]
  /\ phase' = "dump"
  /\ UNCHANGED <<listing, reading, call, module, ctx_nvinfo, groups, grouped, kernels>>

OpenWithTool ==
  /\ phase = "start" /\ ByTool
  /\ \E info \in Info(options.kernel_name) :
       options' = [options EXCEPT !.nvinfo = IF @ = NoInfo THEN info ELSE @]
  /\ phase' = "dump"
  /\ UNCHANGED <<listing, reading, call, module, ctx_nvinfo, groups, grouped, kernels>>

(* parse_cubin *)
OpenInPipeline ==
  /\ phase = "start" /\ call.entry = "cli_cubin"
  /\ ctx_nvinfo' \in Info(options.kernel_name)
  /\ phase' = "dump"
  /\ UNCHANGED <<listing, reading, call, module, options, groups, grouped, kernels>>

(* The cubin cannot be read or has no such kernel, or cuobjdump fails. *)
InputFails ==
  /\ phase \in {"start", "dump"} /\ call.entry \notin FromText
  /\ Failed
  /\ UNCHANGED <<listing, reading, call, module, options, ctx_nvinfo, groups, grouped, kernels>>

Dump ==
  /\ phase = "dump"
  /\ IF ByTool /\ options.sm_version = 0
     THEN /\ Targets(module.lines) # {}
          /\ options' = [options EXCEPT !.sm_version = FirstTarget(module.lines)]
     ELSE options' = options
  /\ listing' = module.lines
  /\ phase' = "read"
  /\ UNCHANGED <<reading, call, module, ctx_nvinfo, groups, grouped, kernels>>

Read ==
  /\ phase = "read" /\ ReadLine
  /\ UNCHANGED <<call, module, phase, options, ctx_nvinfo, groups, grouped, kernels>>

-----------------------------------------------------------------------------
(* Selection. *)

Group(name, insts) == [name |-> name, instructions |-> insts]
ReadingDone == phase = "read" /\ at > Len(listing)

(* The instructions at some places, of those up to each one. *)
Selection(insts, places) ==
  LET upto[n \in 0..Len(insts)] ==
        IF n = 0 THEN <<>>
        ELSE IF n \in places THEN Append(upto[n - 1], insts[n]) ELSE upto[n - 1]
  IN  upto

InstructionsOf(f) ==
  Selection(instructions, {n \in DOMAIN instructions : instructions[n].function_name = f})
    [Len(instructions)]

NothingRead ==
  /\ ReadingDone /\ instructions = <<>>
  /\ Failed
  /\ UNCHANGED <<listing, reading, call, module, options, ctx_nvinfo, groups, grouped, kernels>>

(* sass_lift: no selection. *)
TakeAll ==
  /\ ReadingDone /\ instructions # <<>> /\ call.entry \in FromCli
  /\ groups' = <<Group(options.kernel_name, instructions)>>
  /\ phase' = "lift"
  /\ UNCHANGED <<listing, reading, call, module, options, ctx_nvinfo, grouped, kernels>>

(* select_sass_text_instructions, of a name. *)
TakeNamed ==
  /\ ReadingDone /\ instructions # <<>> /\ call.entry \notin FromCli
  /\ ~is_unspecified_kernel_name(options.kernel_name)
  /\ IF InstructionsOf(options.kernel_name) = <<>>
     THEN Failed /\ UNCHANGED groups
     ELSE /\ groups' = <<Group(options.kernel_name, InstructionsOf(options.kernel_name))>>
          /\ phase' = "lift"
  /\ UNCHANGED <<listing, reading, call, module, options, ctx_nvinfo, grouped, kernels>>

TakeGroups ==
  /\ ReadingDone /\ instructions # <<>> /\ call.entry \notin FromCli
  /\ is_unspecified_kernel_name(options.kernel_name)
  /\ phase' = "group"
  /\ UNCHANGED <<listing, reading, call, module, options, ctx_nvinfo, groups, grouped, kernels>>

(* group_sass_text_functions, one instruction. *)
GroupName(inst) ==
  IF inst.function_name = NoFunction THEN DefaultName ELSE inst.function_name

(* Mutant: only the last group is looked at. *)
GroupInstruction_last ==
  /\ phase = "group" /\ grouped < Len(instructions)
  /\ LET inst == instructions[grouped + 1]
         same == {n \in DOMAIN groups : n = Len(groups) /\ groups[n].name = GroupName(inst)}
     IN  groups' = IF same = {}
                   THEN Append(groups, Group(GroupName(inst), <<inst>>))
                   ELSE [n \in DOMAIN groups |->
                           IF n \in same
                           THEN [groups[n] EXCEPT !.instructions = Append(@, inst)]
                           ELSE groups[n]]
  /\ grouped' = grouped + 1
  /\ UNCHANGED <<listing, reading, call, module, phase, options, ctx_nvinfo, kernels>>

GroupInstruction ==
  /\ phase = "group" /\ grouped < Len(instructions)
  /\ LET inst == instructions[grouped + 1]
         same == {n \in DOMAIN groups : groups[n].name = GroupName(inst)}
     IN  groups' = IF same = {}
                   THEN Append(groups, Group(GroupName(inst), <<inst>>))
                   ELSE [n \in DOMAIN groups |->
                           IF n \in same
                           THEN [groups[n] EXCEPT !.instructions = Append(@, inst)]
                           ELSE groups[n]]
  /\ grouped' = grouped + 1
  /\ UNCHANGED <<listing, reading, call, module, phase, options, ctx_nvinfo, kernels>>

(***************************************************************************)
(* More than one group: each is lifted.  Otherwise, what                   *)
(* select_sass_text_instructions does with the set of functions that       *)
(* occur.  The options a kernel is lifted with hold the name of its group. *)
(***************************************************************************)
NamesRead == {instructions[n].function_name : n \in DOMAIN instructions} \ {NoFunction}

Grouped ==
  /\ phase = "group" /\ grouped = Len(instructions)
  /\ CASE Len(groups) > 1 -> groups' = groups /\ phase' = "lift"
       [] Len(groups) <= 1 /\ NamesRead = {} ->
            groups' = <<Group(DefaultName, instructions)>> /\ phase' = "lift"
       [] Len(groups) <= 1 /\ Cardinality(NamesRead) = 1 ->
            \E f \in NamesRead : groups' = <<Group(f, InstructionsOf(f))>> /\ phase' = "lift"
       [] OTHER -> groups' = groups /\ Failed
  /\ UNCHANGED <<listing, reading, call, module, options, ctx_nvinfo, grouped, kernels>>

-----------------------------------------------------------------------------
(* lift_instructions_to_ptx, or the stages of sass_lift after parse. *)
LiftKernel ==
  /\ phase = "lift" /\ groups # <<>>
  /\ kernels' = Append(kernels,
       [name |-> Head(groups).name, instructions |-> Head(groups).instructions,
        sm_version |-> options.sm_version, nvinfo |-> ctx_nvinfo])
  /\ groups' = Tail(groups)
  /\ UNCHANGED <<listing, reading, call, module, phase, options, ctx_nvinfo, grouped>>

Return ==
  /\ phase = "lift" /\ groups = <<>>
  /\ phase' = "returned"
  /\ UNCHANGED <<listing, reading, call, module, options, ctx_nvinfo, groups, grouped, kernels>>

Finished ==
  /\ phase \in {"returned", "failed"}
  /\ UNCHANGED vars

Next ==
  \/ OpenText \/ OpenCubin \/ OpenWithTool \/ OpenInPipeline \/ InputFails \/ Dump
  \/ Read \/ NothingRead \/ TakeAll \/ TakeNamed \/ TakeGroups
  \/ GroupInstruction \/ Grouped \/ LiftKernel \/ Return \/ Finished

Spec == Init /\ [][Next]_vars

-----------------------------------------------------------------------------
(***************************************************************************)
(* lifter.rs: the kernels of a result are those of the functions asked     *)
(* for, every one, once, each lifted from its own instructions in their    *)
(* order, whichever way the call came to the listing (PerFunction).        *)
(* Instructions above the first header are those of a function `kernel'    *)
(* when no function is asked for.  sass_lift asks for everything at once.  *)
(***************************************************************************)
Known == phase \in {"lift", "returned"}
All == call.entry \notin FromCli /\ is_unspecified_kernel_name(options.kernel_name)

Program ==
  CASE ~Known -> <<>>
    [] Known /\ call.entry \in FromCli -> [f \in {options.kernel_name} |-> instructions]
    [] Known /\ All ->
         [f \in {GroupName(instructions[n]) : n \in DOMAIN instructions} |->
            Selection(instructions,
                      {n \in DOMAIN instructions : GroupName(instructions[n]) = f})
              [Len(instructions)]]
    [] OTHER -> [f \in NamesRead |-> InstructionsOf(f)]

Wanted == IF ~Known THEN {} ELSE IF All THEN DOMAIN Program ELSE {options.kernel_name}

Promise == INSTANCE PerFunction WITH
  program <- Program, wanted <- Wanted, known <- Known,
  kernels <- [n \in DOMAIN kernels |->
                [name |-> kernels[n].name, instructions |-> kernels[n].instructions]],
  outcome <- IF phase \in {"returned", "failed"} THEN phase ELSE "running"

ImplementsPerFunction == Promise!Spec

(***************************************************************************)
(* Every kernel is lifted for the architecture of the cubin it comes from, *)
(* read from its header or from its listing, unless the call names another *)
(* to cuobjdump: the bases of the parameters depend on it.                 *)
(***************************************************************************)
TargetArchitecture ==
  \A n \in DOMAIN kernels :
    kernels[n].sm_version =
      IF (call.entry = "cubin" /\ ~ByTool)
           \/ (ByTool /\ call.options.sm_version = 0)
      THEN module.sm ELSE call.options.sm_version
=============================================================================
