------------------------------ MODULE MCLifter ------------------------------
(***************************************************************************)
(* Calls and listings for TLC.  Instructions above the first header occur  *)
(* only in listings without a function named `kernel'.                     *)
(***************************************************************************)
EXTENDS Lifter

MCName == {"kernel", "f", "unknown_g"}
MCUnspecified == {"", "unknown_g"}
MCFile == {"kernel.ptx", "a.ptx"}

Plain == InstructionLine(7, TRUE)
Unread == InstructionLine(7, FALSE)

(* Bodies of functions. *)
Bodies ==
  { <<>>, <<Plain>>, <<Unread, HexLine(9)>>, <<Plain, HexLine(8), Plain>>,
    <<FileLine("a.ptx", 3), OtherLine, Plain, HexLine(0), FileNameLine("kernel.ptx"), Plain,
      NumberLine(5), Unread, HexLine(9), Plain>> }

Section(f, body) == <<FunctionLine(f)>> \o body
Short == {Section(f, b) : f \in MCName, b \in {<<>>, <<Plain, HexLine(8)>>, <<Plain>>}}
Of(names, infos, sm, lines) ==
  [kernels |-> names, infos |-> infos, sm |-> sm, lines |-> <<TargetLine(sm)>> \o lines]

MCModules ==
  {Of(Functions(l), infos, 120, l) :
     infos \in {{}}, l \in {a \o b \o c : a, b, c \in Short}} \cup
  {Of({"f"}, {"f"}, sm, Section("f", b)) : sm \in {89, 120}, b \in Bodies} \cup
  {Of({"f", "unknown_g"}, {"f", "unknown_g"}, 120,
      Section("f", b) \o Section("unknown_g", <<Plain>>)) : b \in Bodies} \cup
  {Of({"f"}, {}, 89, a \o Section("f", b)) : a, b \in Bodies} \cup
  {Of({}, {}, 89, b) : b \in Bodies}

MCListings == {m.lines : m \in MCModules}

MCCalls ==
  [entry: Entry, env: {FALSE},
   options: [kernel_name: MCName \cup MCUnspecified, sm_version: {0, 89}, nvinfo: {NoInfo}]] \cup
  [entry: {"cubin"}, env: {TRUE},
   options: [kernel_name: {"", "f"}, sm_version: {0, 89}, nvinfo: {NoInfo}]] \cup
  [entry: {"text"}, env: {FALSE},
   options: [kernel_name: {"", "f"}, sm_version: {120}, nvinfo: {"f"}]]
=============================================================================
