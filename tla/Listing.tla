------------------------------- MODULE Listing -------------------------------
(***************************************************************************)
(* cuobjdump's listing of a module, read line by line (parse/text.rs): the *)
(* headers and markers set the function and the source line that the       *)
(* instructions after them carry, and a line of hexadecimal digits alone   *)
(* holds the upper half of the encoding of the instruction before it.      *)
(*                                                                         *)
(* A line is what the parser's conditions tell apart, not its characters.  *)
(***************************************************************************)
EXTENDS Integers, Sequences, FiniteSets

CONSTANTS
  Name,      \* the functions
  File,      \* the source files
  Listings   \* the listings considered

NoFunction == "no function"
NoFile == "kernel.ptx"

(***************************************************************************)
(* Lines.  number is a source line, an architecture, or what               *)
(* extract_hex_encoding finds, 0 for nothing; complete tells whether the   *)
(* guard, if any, and the opcode of an instruction can be read (the        *)
(* register of @!UPT cannot: it has no digit).  A marker of a file whose   *)
(* line cannot be read is of a kind of its own, "name".                    *)
(***************************************************************************)
Line(kind, name, number) ==
  [kind |-> kind, name |-> name, number |-> number, complete |-> FALSE]
FunctionLine(f) == Line("function", f, 0)
FileLine(f, n) == Line("file", f, n)
FileNameLine(f) == Line("name", f, 0)
NumberLine(n) == Line("line", NoFile, n)
HexLine(v) == Line("encoding", NoFile, v)
OtherLine == Line("other", NoFile, 0)
TargetLine(sm) == Line("other", NoFile, sm)   \* a line that names sm_NN
InstructionLine(v, complete) ==
  [kind |-> "instruction", name |-> NoFile, number |-> v, complete |-> complete]

LineKind == {"function", "file", "name", "line", "encoding", "instruction", "other"}
ListingLine == [kind: LineKind, name: Name \cup File, number: Nat, complete: BOOLEAN]

ASSUME ListingAssumption ==
  /\ NoFunction \notin Name /\ NoFile \in File
  /\ Listings \subseteq Seq(ListingLine)
  /\ \A l \in Listings : \A n \in DOMAIN l :
       /\ l[n].kind = "function" => l[n].name \in Name
       /\ l[n].kind \in {"file", "name"} => l[n].name \in File

-----------------------------------------------------------------------------
VARIABLES
  listing,           \* the output of cuobjdump
  at,                \* the line the loop is at
  current_function, current_file, current_line,
  instructions

reading == <<at, current_function, current_file, current_line, instructions>>

(* of is the line an instruction was read from, for its address and text. *)
Instruction ==
  [of: Nat, function_name: Name \cup {NoFunction}, ptx_file: File, ptx_line: Nat,
   encoding_hi: Nat]

StartReading ==
  /\ at = 1
  /\ current_function = NoFunction
  /\ current_file = NoFile
  /\ current_line = 0
  /\ instructions = <<>>

Reading == at <= Len(listing)
ThisLine == listing[at]

FunctionHeader ==
  /\ Reading /\ ThisLine.kind = "function"
  /\ current_function' = ThisLine.name
  /\ at' = at + 1
  /\ UNCHANGED <<current_file, current_line, instructions>>

(* Mutant: the line number of the marker is not read. *)
FileMarker_name_only ==
  /\ Reading /\ ThisLine.kind \in {"file", "name"}
  /\ current_file' = ThisLine.name
  /\ at' = at + 1
  /\ UNCHANGED <<current_function, current_line, instructions>>

(* Without a line that can be read, the line of the markers above stays. *)
FileMarker ==
  /\ Reading /\ ThisLine.kind \in {"file", "name"}
  /\ current_file' = ThisLine.name
  /\ current_line' = IF ThisLine.kind = "file" THEN ThisLine.number ELSE current_line
  /\ at' = at + 1
  /\ UNCHANGED <<current_function, instructions>>

LineMarker ==
  /\ Reading /\ ThisLine.kind = "line"
  /\ current_line' = ThisLine.number
  /\ at' = at + 1
  /\ UNCHANGED <<current_function, current_file, instructions>>

ParseInstruction ==
  /\ Reading /\ ThisLine.kind = "instruction" /\ ThisLine.complete
  /\ instructions' = Append(instructions,
       [of |-> at, function_name |-> current_function, ptx_file |-> current_file,
        ptx_line |-> current_line, encoding_hi |-> 0])
  /\ at' = at + 1
  /\ UNCHANGED <<current_function, current_file, current_line>>

(* Mutant: the encoding goes to the first instruction. *)
AttachEncoding_first ==
  /\ Reading
  /\ \/ ThisLine.kind = "encoding"
     \/ ThisLine.kind = "instruction" /\ ~ThisLine.complete
  /\ instructions' =
       IF ThisLine.number = 0 \/ instructions = <<>> THEN instructions
       ELSE [instructions EXCEPT ![1].encoding_hi = ThisLine.number]
  /\ at' = at + 1
  /\ UNCHANGED <<current_function, current_file, current_line>>

(* A line that starts as an instruction does and is none: what it has for  *)
(* an encoding goes to the last instruction, if it has one.                *)
AttachEncoding ==
  /\ Reading
  /\ \/ ThisLine.kind = "encoding"
     \/ ThisLine.kind = "instruction" /\ ~ThisLine.complete
  /\ instructions' =
       IF ThisLine.number = 0 \/ instructions = <<>> THEN instructions
       ELSE [instructions EXCEPT ![Len(instructions)].encoding_hi = ThisLine.number]
  /\ at' = at + 1
  /\ UNCHANGED <<current_function, current_file, current_line>>

OtherText ==
  /\ Reading /\ ThisLine.kind = "other"
  /\ at' = at + 1
  /\ UNCHANGED <<current_function, current_file, current_line, instructions>>

ReadLine ==
  /\ \/ FunctionHeader \/ FileMarker \/ LineMarker
     \/ ParseInstruction \/ AttachEncoding \/ OtherText
  /\ UNCHANGED listing

-----------------------------------------------------------------------------
(***************************************************************************)
(* What a reader of the listing sees: the instruction on line n belongs to *)
(* the last header and the last markers above it, and its encoding is      *)
(* continued on the lines below, up to the next instruction.               *)
(***************************************************************************)
Latest(n, kinds) ==
  {m \in 1..(n - 1) : listing[m].kind \in kinds
                      /\ \A k \in (m + 1)..(n - 1) : listing[k].kind \notin kinds}

InstructionLines == {n \in 1..(at - 1) : listing[n].kind = "instruction"}
CompleteLines == {n \in InstructionLines : listing[n].complete}

FunctionOf(n) ==
  LET above == Latest(n, {"function"})
  IN  IF above = {} THEN NoFunction ELSE listing[CHOOSE m \in above : TRUE].name

LineOf(n) ==
  LET above == Latest(n, {"file", "line"})
  IN  IF above = {} THEN 0 ELSE listing[CHOOSE m \in above : TRUE].number

(***************************************************************************)
(* text.rs: the instructions read so far are those of the lines read so    *)
(* far that can be read, in their order, each attributed to the function   *)
(* and the source line it stands under, whatever markers, other text and   *)
(* unreadable lines stand between.                                         *)
(***************************************************************************)
ReadInOrder ==
  /\ {instructions[n].of : n \in DOMAIN instructions} = CompleteLines
  /\ \A n, m \in DOMAIN instructions : n < m => instructions[n].of < instructions[m].of
  /\ \A n \in DOMAIN instructions :
       /\ instructions[n].function_name = FunctionOf(instructions[n].of)
       /\ instructions[n].ptx_line = LineOf(instructions[n].of)

(***************************************************************************)
(* text.rs:187, "Attach to previous instruction's encoding_hi": where  *)
(* every instruction line can be read, an instruction holds an encoding    *)
(* that stands between it and the next instruction, and holds one if one   *)
(* stands there.                                                           *)
(***************************************************************************)
EncodingsBelong ==
  CompleteLines = InstructionLines =>
    \A n \in DOMAIN instructions :
      LET next == IF n = Len(instructions) THEN at ELSE instructions[n + 1].of
          here == {listing[m].number : m \in {k \in (instructions[n].of + 1)..(next - 1) :
                       listing[k].kind = "encoding" /\ listing[k].number # 0}}
      IN  IF here = {} THEN instructions[n].encoding_hi = 0
          ELSE instructions[n].encoding_hi \in here
=============================================================================
