# Formal models of the SASS-to-PTX lifter

The repository is `sass_toolkit`, a Rust program that lifts NVIDIA machine code (SASS, as `cuobjdump` prints
it, alone or out of a CUBIN) to PTX. This directory holds TLA+ models of its stages, the TLC configurations
that check them on small instances, and theorems about them that TLAPS checks for every instance. The
charter of the program (`PLAN.md`) is that the PTX computes what the SASS computes; the properties here are
what that needs of each stage.

Paths below are relative to `src/lifter/src/sass/` unless they begin with `src/`.

- [The system](#the-system)
- [The modules](#the-modules)
- [The runs](#the-runs)
- [What is proved](#what-is-proved)
- [Divergences](#divergences)
- [What is not modelled](#what-is-not-modelled)
- [Plan](#plan)

## The system

A lift is one sequential call. Nothing runs concurrently and nothing is persisted; the only
nondeterminism inside the program is the iteration order of `HashMap` and `HashSet`, and from outside there
are the answers of `cuobjdump` and of the file system. What makes the code hard is its data flow: seven
passes communicate through the fields of one context, each pass recomputes part of what another has decided,
and none of the passes after parsing can report an error. A disagreement between two passes is silent and
becomes a wrong kernel. The readers of binary formats have the same trouble in another form: one byte taken
for another length, and everything after it is read wrong without any complaint.

| component | source | state | operations | modules |
|---|---|---|---|---|
| lift entries, selection | `lifter.rs`, `parse/stage_parse.rs`, `pipeline.rs`, `src/lifter/src/bin/sass_lift.rs` | `SassLiftOptions`, `LiftPipelineCtx` | `lift_sass_text_to_ptx`, `lift_cubin_to_ptx`, `lift_cubin_to_ptx_with_cuobjdump`, the command; `group_sass_text_functions`, `select_sass_text_instructions` | `Lifter`, `PerFunction` |
| listing parser | `parse/text.rs` | the current function, file and line; the instructions | `parse_cuobjdump_output`, line by line | `Listing` |
| instruction and operand parser | `parse/text.rs`, `parse/instruction.rs` | none | `parse_instruction_line`, `SassRegister::parse`, `SassOperand::parse`, the tables over opcodes | `InstructionText` |
| analysis of a listing | `ControlFlowAnalyzer` in `parse/text.rs` | branch targets, the current block, the last writers | `find_basic_blocks`, `analyze_data_flow` | `FlowAnalysis` |
| one-line PTX | `generate_ptx` in `parse/instruction.rs`, `PtxReconstructor` in `ptx_recovery.rs` | none | the templates; `reconstruct_instruction` | `Reconstruct`, `Readings` |
| nvinfo | `parse/nvinfo.rs` | the position in a payload, the kernels found | `parse_cubin_nvinfo`: header, sections, attributes, defaults | `CubinImage`, `NvInfo` |
| cubin | `parse/cubin.rs` | sections, symbols, kernels, constants | `CubinParser::parse`, the builder | `CubinImage`, `CubinParse` |
| DWARF | `parse/dwarf.rs` | the registers of the line machine, files, rows; functions, variables | `.debug_line` byte by byte, `process_die` | `Dwarf` |
| PTX recovery | `ptx_recovery.rs` | the engine's caches, the maps of a recovered function | `PtxRecoveryEngine`: creation, sources, recovery of a function and of all | `Recovery` |
| lowering | `lower/stage_lower.rs` | `cbank_offsets`, `cbank_special_map`, `cbank_reg_map`, `gpr_counter` | `build_cbank_maps`, `resolve_cbank`, rewriting | `Cbank` |
| type inference | `type_infer/stage_type_infer.rs` | `types`, `rpo_order`, `psi_regs` | `seed`, `propagate_from`, `compute_rpo`, `propagate_rpo`, `detect_psi` | `TypeConstraints`, `TypeInfer`, `RpoOrder`, `TypeStage` |
| bridge | `bridge/translate.rs` | none | `to_rule_inst_from` (operands, literals, promotion, flags), `translate_one` (dispatch, guard) | `Bridge` |
| rules | `rules/**` (some 130 files) | `Scratch` registers | one `translate` per opcode | `FloatLift`, `IntRules`, `MemRules` |
| emitter | `emit/mod.rs` | branch targets, barrier stacks, emitted labels, counts of registers | entry declaration, register declarations, preamble, labels and instructions | `EmitLabels`, `Cbank`, `MemRules` |
| corpus | `corpus/` | | data | |

How they interact: parse → lower → type_infer → emit, in that order, on one `LiftPipelineCtx`. Lowering
replaces each constant of bank 0 by a register and leaves maps from which the emitter writes the preamble
that loads those registers. Type inference leaves for each register a set of classes and the set of psi
registers (several definitions, mixed families); the bridge reads both to decide how a literal is encoded.
The emitter collects branch targets from the operands as parsed, while the rules make branches from operands
after the bridge; it counts registers on those operands too, before the rules choose theirs. Beside the
lift, the readers of a cubin share its bytes: `nvinfo.rs` and `cubin.rs` walk the same sections by different
rules, `dwarf.rs` reads its debug sections, and `ptx_recovery.rs` puts what they find together.

What makes each component correct, and what is hard about it:

- **Entries.** One kernel for each function asked for, from its own instructions, for the architecture of
  its cubin, with its parameters. Five ways lead into the lift; sections of a function may come apart in a
  listing; names may be empty or `unknown`; the order of a cubin's kernels is a `HashMap`'s.
- **Listing.** Every instruction that can be read is read once, in order, under the right function and
  source line, and the upper half of an encoding goes to the instruction it belongs to.
- **Instructions and operands.** An operand keeps every part its text has; the first operand is the
  destination whatever the opcode; dependencies are the data flow.
- **nvinfo, cubin, DWARF.** A reader is where the next entry begins after each entry, an entry it cannot read
  costs no earlier one, registers of one unit do not leak into the next, and the order of sections does not matter.
- **Lowering and preamble.** No two constants share a register, every occurrence is replaced by the register
  its offset is loaded into, every load is declared. Two passes and three maps must agree.
- **Type inference.** The result is the least solution of the constraints, hence a function of the program
  and not of the order of a hash table; the loops end.
- **Bridge and rules.** The lines computed for an instruction compute what the instruction computes: flags
  of operands reach a rule that looks for them, literals have the encoding the line reads, the width and the
  address of an access are those of the instruction, and a value is read from the PTX register it is in.
- **Emitter.** Labels are unique and defined, registers are declared, barriers are paired as the hardware
  pairs them, and a thread of the PTX passes the instructions that the thread of the SASS passes.

## The modules

### Listing, Lifter, PerFunction

`Listing` is the loop of `parse_cuobjdump_output`. A line is a record of what the conditions of the parser
tell apart: a function header, a file or line marker, a line of hexadecimal digits, an instruction (whose
guard can or cannot be read), other text. Each branch of the loop is an action: `FunctionHeader`,
`FileMarker`, `LineMarker`, `ParseInstruction`, `AttachEncoding`, `OtherText`.

`Lifter` extends it with the call around it. `call.entry` is one of `text`, `cubin`, `tool` (the three
library entries) and `cli_text`, `cli_cubin` (the command); `call.env` says whether the environment names a
`cuobjdump`, which turns `cubin` into `tool`. `OpenText`, `OpenCubin`, `OpenWithTool`, `OpenInPipeline` take
the input and set the options the code sets there; `Dump` runs `cuobjdump` (and infers the architecture from
its output where the code does); `NothingRead`, `TakeAll`, `TakeNamed`, `TakeGroups`, `GroupInstruction`,
`Grouped` are selection and grouping; `LiftKernel` makes one kernel with the context the code makes for it;
`InputFails` is any of the errors of the input. A result kernel records the name, the instructions, the
architecture and the parameter information it was lifted with.

`PerFunction` is the promise, without listings or groups: from the moment the input is known, kernels are
made one after another, each from exactly the instructions of one function asked for, and the call returns
when every such function has its kernel, or fails with none. `Lifter` implements it
(`ImplementsPerFunction`); the mapping takes the program to be known when the instructions have been
selected.

### TypeConstraints, TypeClosure, TypeInfer, RpoOrder, TypeStage

`TypeConstraints` is the constraint system: the rows of `seed_constraint`, the operands the engine tracks,
what a register's classes derive for the registers its instructions connect it with (`Pushes`), and when an
assignment is closed. `TypeClosure` is the abstract specification: classes are added only when derived, and
the result is announced only when closed. `TypeInfer` is the engine, one turn of one of its loops per step:
`ApplyAndQueue` (seeds, and updates of the worklist), `PopRegister`, `Collect` and `ApplyInSweep` (a sweep's
batch), `DetectPsi`. A batch is a set applied in any order, which covers every order of the hash tables.
`RpoOrder` is `compute_rpo`, the recursive search as a stack of frames, with roots and successors in any order.
`TypeStage` composes the two as `TypeInferStage::run` does: `OrderRegisters` until `EngineBuilt`, then `Infer`.

### Cbank

Lowering and preamble over one kernel: `SkipOperand`, `MapOffset`, `NextInstruction`, `ScanDone` are
`build_cbank_maps`; `LowerInstruction` is the rewriting of one instruction (`resolve_cbank`, `strip_desc`,
the `LDC` to `MOV` rewrite); `EmitEntryDecl` decides the parameter labels and `EmitPreamble` writes the lines
of one offset, with and without nvinfo. Operands are abstract but for constants of bank 0, other banks,
registers, memory and immediates. Offsets are numbers below `Word` (2^32 in the code): `Relative` wraps as
`wrapping_sub` does.

### Bridge, FloatLift

`Bridge` is `to_rule_inst_from`: `resolve_imm_type`, `base_op`, `promote`, `raw_flag_mods`. A bit pattern is a
record of the form (integer, single, double) and the number it encodes in that form, so that "the integer 1
read as a single" is a different thing from 1.0 without any floating-point arithmetic; the numbers are
quarters and all sums and products of those used are exact. `FloatLift` takes one instruction through the
bridge (`ToRuleInst`), its rule (`Translate`: FADD, FMUL, FFMA, FMNMX, DADD, DMUL, DFMA, MOV, the comparisons FSETP
and DSETP, FSET, FSEL, FABS, FNEG) and then executes the PTX lines on a file of registers and predicates
(`Execute`) beside the value the SASS instruction has. `NaN` is a content like any other, for the comparisons;
it also stands for what comes of reading a pattern in another form than it was written in.

### EmitLabels, ControlFlow

`EmitLabels` is the emitter's control flow: `CollectBranchTarget` (`collect_branch_targets`), `Open`, `Close`
and `PassBy` (`build_bssy_map`), `EmitInstruction` and `SkipInstruction` (the loop of the emitter, with labels
and guards), `EmitMissingLabel` (targets without an instruction, in the order of a `HashSet`). It uses
`Bridge` for the operands that `bra`, `jmp` and `call` look at. `ControlFlow` adds two threads, one of the SASS
kernel and one of the emitted lines, that run in step with arbitrary predicates: barriers hold what `BSSY`
wrote, branches go to addresses and to labels.

### Words, SassMachine, IntRules, IntLift

`IntRules` holds the integer, bit and predicate rules: IADD3 with its six variants, IMAD, LEA, ISETP, SEL, IMNMX,
VIMNMX, VIADD, VIADDMNMX, IABS, BMSK, LOP3, SHF, POPC, BREV, FLO, SGXT, PLOP3, the uniform UMOV, UIADD3, UIMAD, ULEA, UISETP,
UBMSK, UPLOP3, the moves R2UR, UP2UR, UR2UP, and the opcodes that the dispatch sends to a general rule (ULOP3, USHF,
USGXT, USEL) or answers itself (UFLO, P2R, R2P, UCLEA). Each takes what `Bridge` makes of an instruction and returns
PTX lines, with the scratch registers the code numbers and the guard that `translate_one` puts in front of the
first line. `IntLift` lifts a kernel instruction by instruction (`TranslateInstruction`) and executes the lines
(`Execute`, `Retire`) on files of words and predicates and the carry flag; `Words` is arithmetic modulo `2^W` and
the operations on bits. `SassMachine` is the abstract specification: the same kernel on the machine the SASS
instructions are written for, one step per instruction, each of which changes its destinations only. What an
instruction computes there is what the heads of the rule files say of it; where one is silent (the carry of a
negated term) it is the borrow their proofs use, and the order of SHF's operands is the one
`rules/bit/shf.rs:47-52` gives for SM 120. An instruction that is not `Lossless` may leave anything in its
destinations, and in the registers `Spilled` names, but nothing anywhere else.

### MemRules, MemLift

`MemRules` holds the rules of the memory instructions (`rules/mem`, `rules/sync/red.rs`: LDG, STG, LD, ST, LDS, STS, LDL,
STL, LDGSTS, ATOMG, ATOMS, RED) with the helpers that build an address, the two
instructions that make one (LDC.64, which lowering turns into MOV, and IMAD.WIDE), and the declarations of the emitter:
`scan_registers`, the scratch bases above what it counted, `emit_regdecls`. One SASS register n has two PTX registers,
`%rn` and `%rdn` for the pair Rn, Rn+1, and each rule reads one or the other.

`MemLift` executes a kernel twice: as SASS, an instruction at a time (`Retire`), and as PTX, a line at a time
(`Execute`), each on its own memory, in which an access leaves its space, address, bytes and value. `words` and `pairs`
say in which of its two PTX registers each SASS register's value is; nothing in the lifter keeps the two in step, so
the model does the bookkeeping that the code lacks. A kernel is `disciplined` while every rule reads a register where
its value is, the access is one of those the rule handles (`Reads`), and its registers are counted (`AllCounted`);
undisciplined kernels run too and simply promise nothing. `Accepted` is what ptxas asks of a line: registers declared,
of the width the instruction takes; a kernel with another line stops (`rejected`).

### InstructionText, FlowAnalysis

`InstructionText` begins with the tables of `parse/instruction.rs` over opcodes and type modifiers, each kept apart
from the others as in the code: the class, the memory space, the PTX template, the PTX type. Then come
`SassRegister::parse` and `SassOperand::parse`: the text of an operand is given by what the forms tell apart (sign,
bars, name, number, suffix, index, bank, offset, descriptor), and read by the first form it fits, with what each
form keeps; then `parse_instruction_line`: the guard, the opcode, the modifiers, and the rest of the line as
pieces that are operands or end the operands (an encoding, a scheduling hint). `WellWritten` says which operands
`cuobjdump` prints (a special register has no sign, a descriptor is uniform); the listings are assumed to hold no other.
`FlowAnalysis` is a state machine over a listing: `ParseLine`, then the walks of `ControlFlowAnalyzer`, one
instruction per step: `find_basic_blocks` for the targets and for the blocks, `analyze_data_flow` for the dependencies.

### Reconstruct, Readings

`Reconstruct` has the two ways from one instruction to one line of PTX that are not the lift: the templates of
`EnhancedSassInstruction::generate_ptx` and `PtxReconstructor`. `Readings` says in the same terms what an
instruction of the listing means and what a PTX line means (guard, operation with its types, values with their
signs and parts), and which instructions each way keeps.

### CubinImage, NvInfo, CubinParse, CubinReaders

`CubinImage` is what the readers see of a file: section headers, names split as the code splits them, bytes.
`NvInfo` is `parse_cubin_nvinfo`: `ReadHeader`, `NextSection`, one action for each kind of attribute at the position
of the walk, `Truncated`, and `ApplyDefaults` after it. A section also carries the entries the compiler wrote in it,
which only the properties look at. `CubinParse` is `CubinParser::parse` over what the ELF library returns: sections
into a map by name, symbols, kernels, constant banks, and what is reported of each kernel. `CubinReaders` gives one
file to both, as `elf_header_64` and as the ELF library see it: first the walk (`ReadParameters`), then the parser and the recovery
on it (`RecoverLines`); they share the bytes and nothing else.

### Dwarf, Recovery

The first half of `Dwarf` is the abstract side: the operations a compiler puts in a line program, the bytes it writes
for them, and the rows the machine of the DWARF standard makes of them with each header's own parameters. The second is the code:
the units, headers and programs of `.debug_line` walked byte by byte, one action for each opcode, with the
parameters the code fixes; then `process_die` for compile units, functions and variables, over attributes as
the `gimli` library decodes them. `Recovery` composes both with `CubinParse` into `PtxRecoveryEngine`: one request
goes from the file to the lines of the recovered function; requests include the sources given to the engine, in
order, and the addresses of the function's instructions.

Modules named `MC*` give the constants their values; modules named `*Proofs` hold the proofs. Operators with a
comment `Mutant:` are the plausible mistakes that each property is known to catch.

## The runs

Every model is checked exhaustively over the instances its `MC` module enumerates. No state constraint is used
and deadlock is always checked: terminal states have a stuttering action. The numbers are distinct states.

| run | instances | what is checked |
|---|---|---|
| `lifter` (533,526) | five entries, with and without the environment's tool, four names (given, `kernel`, empty, `unknown`), two architectures; listings of up to three sections of three functions (so that sections of one function come apart and repeat), and bodies with markers, unreadable lines and continued encodings | `ReadInOrder`, `EncodingsBelong`, `TargetArchitecture`, the refinement `ImplementsPerFunction` |
| `type_infer` (189,511) | all streams of up to two instructions of a menu with one instruction of each kind of row (typed, transparent, two destinations' worth of types, no destination, no source), and of three over the frequent ones; three general registers and one predicate; every order of the search | `UnknownIsAlone`, `OneIdleSweep`, `ResultIsReference` (a definition of the result without a fixpoint), `LeastSolution`, `SweepsCoverProgram`, the refinement `ImplementsClosure`, `Terminates`, `SearchEnds` |
| `rpo_order` | as `type_infer`, programs of one instruction | `SweepsDefinitionsFirst`, the comment on `compute_rpo`, which the code contradicts, see [Divergences](#divergences) |
| `cbank` | all kernels of one or two instructions over nine offsets (two special registers, the launch information, the bases of both families, upper halves), three architectures, four nvinfos | `DistinctRegisters`, `EveryOccurrenceResolved`, `PreambleInitialises`, `LoadsAreDeclared` |
| `float_lift` (310,464) | each of fourteen rules with plain, flagged, uniform, zero and literal operands, destinations that are sources, chains, second destinations and predicates; five sets of classes, psi or not; a source of 6, -6 or NaN | `SupportedIsExact` (and no register but the destination changed) |
| `int_lift` (859,380) | 2328 kernels of one instruction of thirty-six opcodes: registers, negated and inverted registers, literals, zero and uniform registers as operands, both layouts of IADD3's predicates, all comparisons, modes and chains of ISETP, ten tables of PLOP3, destinations that are sources, guards; 70 kernels of two in which the second uses the carry, predicate or scratch register the first one left; sixteen fillings of the registers, four of the predicates | the refinement `ImplementsSass`, `PairAddsWide` |
| `mem_lift` (781,752) | every modelled access with each kind of address, value, width and guard, alone, after the instructions that make addresses, and in pairs; kernels of one to five instructions | `MemoryAgrees`, `DisciplinedIsAccepted` |
| `control_flow` (215,089) | all kernels of four instructions of six kinds and of three of twelve kinds, and twelve longer ones with nested, reused and overlapping barriers, calls, and repeated addresses; every choice of predicates at every step | `LabelsAreUnique`, `BranchesAreDefined`, `PairsAreBrackets`, `SameInstruction` |
| `flow_bsync` | as `control_flow` | `BsyncsBranch`, a sentence of a comment which the code contradicts, see [Divergences](#divergences) |
| `readings` (58,209) | every form of operand in every place of the instructions that occur, and kernels of up to four instructions that write and read a few registers | `OperandsAreRead`, `DependenciesAreLastWrites`, `ReconstructedExactly`, `TemplatesExactly` |
| `recovery` (109,147) | for the walk over .nv.info: sections of up to three entries of twelve forms, kernel's and module's sections in turn, two kernels, payloads cut one, six and thirteen bytes short, wrong headers; for the parser and the engine: cubins of two kernels with up to four sections, repeated, nameless, cut and in several orders; line tables of one to three units with every standard and extended opcode and special ones, of two sets of parameters, whole and cut; recoveries of a function from up to three sources, some of one base name | `KernelsAsDescribed`, `EarlierEntriesSurvive`, `KernelsAsCompiled`, `RowsAsProgrammed`, `SourcesAsMapped` |
| `nvinfo` | as `recovery` | `GlobalDefaultsApply`, the comment on the defaults of nvinfo, which the code contradicts, see [Divergences](#divergences) |

A type invariant is part of the runs `type_infer`, `cbank` and `control_flow`, whose proofs rest on it.

Why these bounds are enough. In `type_infer` a class travels along chains of connected registers; a chain
through three registers passes the worklist, a second visit and the sweep, and longer chains repeat the same
turns (the proofs cover every length). In `cbank` two instructions suffice for an offset to be met a second
time, first as a source and then as a destination, in both orders; the maps and the counter are covered for
every length by the proofs. In `lifter`, three sections are the fewest in which a function comes apart around
another. In `control_flow`, two barriers in eight instructions nest, follow each other and overlap. In
`float_lift` one instruction is lifted at a time, as the code does. In `int_lift` words have three bits: the rules
depend on the width only through `W - 1` and `W`, three bits give each operand a sign, a value with and one without
a carry into each position, and the fillings (0, 3, 4, 7) are the bounds of both orders. An instruction reads at
most three words and two predicates, so one or two instructions show what it can find in the registers.
In `mem_lift` words have four bits (a byte of memory holds one), registers go from 0 to 7 and the first constant gets
register 6: an access of any width fits in a pair. Five instructions are two that make an address, one that uses it, and
two after which every register of the kernel is counted; without those two, a kernel alone is counted short. In `recovery` three entries of .nv.info are one before,
one at and one after the entry at fault, a second unit is what the registers or files of the first can
leak into, a skipped one between them is one whose length matters, and two sources of one base name can be confused. In `readings` an operand is
read without regard to the others, so one operand varies at a time; four instructions of six kinds that write and read
two registers, RZ and a uniform one, overwrite a register between two readers.

Fairness. `type_infer` assumes weak fairness of the whole next-state relation (`StageSpec`) and nothing more: the
call is one thread's, so some step is taken while one is possible, and nothing is assumed of which: the orders of
the hash tables stay free. The other runs check safety and assume nothing.

### Conditions of the conditional properties

Each condition was found by taking it away and looking at the counterexample; the counterexamples are under
[Divergences](#divergences).

- `SupportedIsExact` speaks of operands nothing of which is lost on the way: no flags but on an addend R of
  FFMA and the selector of FMNMX, no uniform sources, FMNMX by `PT` or `!PT`, FSEL by a plain predicate, and (`ChainKept`)
  comparisons that the rule's table has, without a chain, AND, and for FSETP not into P0. Literals (`LiteralsKept`) must be
  in the context the rule reads them in: integers for a double; in float context numbers, printed as integers or
  with a point; in integer context patterns of a single and the integers from -128 to 255, which are those that `imm_f32`
  takes for numbers; and for MOV a pattern, into a register whose classes name an integer or nothing. That no other
  register is written is demanded of every instruction.
- `SameInstruction` speaks of kernels of one function without uniform guards, with barriers used in brackets that no
  branch enters, nor the BSYNC of another bracket; no target is skipped, and no branch retyped by float classes; about seven hundred of the kernels of `control_flow` are such. `PairsAreBrackets` speaks of
  kernels whose addresses do not repeat, `LabelsAreUnique` and `BranchesAreDefined` of all.
- `EncodingsBelong` speaks of listings every instruction of which can be read: the code does give the encoding of
  an unreadable line to the instruction before it.
- `ImplementsSass` demands the effect of an instruction only where it is `Lossless`, which 1068 of the 2328 are. It
  excludes: flags that IADD3 looks for at the place of another layout; a carry compared with a term that the
  destination has overwritten; flags of factors; a chain that is P0 or `PT` where the rule confuses them; operands
  zero that the rule skips, so that the next one takes their place (LEA, BMSK, LOP3, UIADD3, where three operands
  become a comment); LEA.HI.X with a shift by zero, whose carry is lost; negated carries-in; bits of a whole
  register tested as one (`KeepsBits`); tables of PLOP3 over anything but three plain predicates, odd ones, and those
  printed in another syntax (`KeepsTable`); and guarded instructions of several lines, of which only the first is
  guarded. Without one of these TLC finds a wrong result in nine of ten of the instructions that it excludes; the
  others (a comparison `F` or `T` with a chain, a mask of no bits, FLO without U32, of whose sign no head speaks) come out right by
  accident.
- `MemoryAgrees` and `DisciplinedIsAccepted` speak of disciplined kernels, as said above.
- `OperandsAreRead` demands all parts of an operand unless its form is one of those listed beside it as losing one, of
  which it says nothing.
  `DependenciesAreLastWrites` speaks of listings whose readable lines compute on general registers (`Plainly`): the walk
  takes the first operand of every opcode for its destination, and no register of a memory operand for a source.
  `ReconstructedExactly` and `TemplatesExactly` are equivalences: the listed cases are kept and all others are not.
- `KernelsAsDescribed` speaks of kernels whose sections hold only entries after which the walk is in step (`Clean`); of
  the offset of a kernel without a PARAM_CBANK it says something only where the module has none either (the other case is
  `GlobalDefaultsApply`, of the run `nvinfo`);
  `EarlierEntriesSurvive` of the entries before the first that puts it out of step, in any section.
- `RowsAsProgrammed` speaks of tables whose headers say what the code takes every header to say (`Readable`);
  `SourcesAsMapped` asks that an instruction own its line number (`OwnsItsLine`) and that the file can be told.

## What is proved

TLAPS checks these for every value of the constants, from the named assumptions of the modules. Most are typing
assumptions. The others say what the outside world may hand in:

| assumption | says | why |
|---|---|---|
| `KernelsAssumption`, `NvInfoAssumption` (`Cbank`) | offsets of constants, and the ends of nvinfo's parameters, are below `Word` | they are 32-bit numbers of the encoding |
| `ProgramsAssumption` (`TypeConstraints`) | the operands of an instruction are sequences of registers | what `operands_to_regs` returns |
| `KernelAssumption` (`CubinImage`) | no kernel's name is empty | an empty name is what the code takes for the module's section |
| `EmitAssumption` (`EmitLabels`) | no branch has a floating-point operand | no SASS branch has one |
| `FormAssumption` (`FloatLift`) | an instruction has the operands its opcode takes, in their places, and at most one comparison among its modifiers | the formats of the instructions; the code indexes operands by them |
| `TargetAssumption`, `HeaderAssumption` (`Lifter`) | the first target line of a dump names the architecture of its cubin; instructions stand above the first function header only in a listing that has no function called `kernel` | `cuobjdump` prints a target line per cubin, and a header before each function; `kernel` is the name the code gives what has none |
| `ListingsAssumption` (`FlowAnalysis`) | the operands of a line are `WellWritten` | the syntax of `cuobjdump` |

Every proof has the same shape: an inductive invariant made of named parts, one lemma for the initial states, one
step per action, and the property from the invariant. What a recursive function computes (a selection from a
sequence, a count of brackets, a group of instructions) is proved by induction on a set of naturals: if
0 is in it and n + 1 with every n, it is all of them (`Induction` and its like at the heads of the modules).

**LifterProofs.** `ReadSoFar` says that the function, line and encodings in hand are those of the lines above; it
gives `ReadInOrder`. `EncodingsBelong` needs more than it says: each upper half comes from a line between its
instruction and the next, and the last instruction's may still change (`EncodingFits`). `ArchitectureInv` follows the
option from entry to kernel, along five ways, to `TargetArchitecture`. The refinement `ImplementsPerFunction`
(`LiftsPerFunction`) rests on `LiftInv`: while grouping, each group is what a function of one recursion (`GroupOf`) makes of the
instructions so far and no name has two groups; while lifting, the names still to do and the names done are disjoint and
together are the wanted ones. So grouping is a partition of the instructions in order, and each kernel is one
`MakeKernel` of the abstract specification.

**FlowAnalysisProofs.** `ReadInv` says that the instructions are those of the readable lines so far, in order, and
that no later pass touches their operands; `OperandsAreRead` follows by what `Filtered` keeps of a sequence
(`SelectionIs`) and what an operand becomes, form by form (`OperandRead`). `FlowInv` says that `last_writer` has exactly
the registers written above, each with the address of the last line to write it. With
it a dependency recorded is a last write, and every last write is recorded (`DependenciesAreLastWrites`).

**TypeInferProofs.** The invariant says that a queued update is derivable from what is known, that nothing
known or queued is missing from any solution, that each seed is applied or still queued, and that in a sweep
that has changed nothing each consequence of the sets is known or still queued. `LeastSolution` by itself is not
inductive: it says nothing until the loops end, and a sweep may only end them because of the last part. From the
invariant follow `TypeCorrectness`, `UnknownNeverMixed`, `ReturnsLeastSolution` (no proper part of the result is a
solution, whatever the order of updates), `Implements` (every step is a step of `TypeClosure` or invisible to
it). `SweepIsIdle` is proved for programs whose instructions have at most one
destination, with a second invariant about the worklist: a register that has been popped and is not queued has
nothing to push. The lemmas at its head are facts about the constraint system itself: derivation is
monotone and stays within the classes, and each row of the table is uniform.

`ReturnsReference` is for the same programs. That the result is a solution and below every other (`IInv`) leaves open what it
is: the reference (`Resolved`) has no fixpoint in it, and the lemmas show it to be closed under the constraints
(`ReferenceCloses`), hence above the result, and each of its classes to be in every solution (`ReferenceIsBelow`): a
row's class is seeded or derived, and what joins two registers carries it from one to the other. `PsiInv` adds that
psi is computed of those sets.

`SweepOrder` and `OrderIsOpposite` are about `compute_rpo`. While the search runs, a register whose
search has begun is in the list or on the stack, once; hence `SweepsCoverProgram`. The stack is a path, so that in a
program without cycles no edge leads from its end back into it; each source of a frame is left, listed, or searched by
the next frame; and what is listed has its sources listed before it. The reversal at the end turns the last part into
`DefinitionsLast`, the opposite of what the comment says, for every program without cycles. `StageInfers` says that a
behaviour of `StageSpec` is one of `TypeInfer`'s `Spec`, so that the theorems about `Spec` hold of what the run checks.

**CbankProofs.** The invariant adds to the types that the three maps agree (the same registers for the same
offsets, below the counter), that everything the scan has passed is mapped, that the lowered instructions are
the lowering of a prefix of the kernel, and that the preamble has treated the offsets no longer pending. From it
follow `RegistersAreDistinct`, `OccurrencesAreResolved`, `PreambleIsComplete` and `LoadsHaveDeclarations`.

**FloatLiftProofs.** `SupportedIsExact` for every instruction of the fourteen rules, every set of classes and every content.
The lemmas go the way of an operand: what the bridge keeps of it (`GeneralSource`, `ZeroSource`, `PredicateSource`,
`LiteralSource`, `LiteralTypes`), what argument a rule prints for it and what that argument holds (`SingleKept`, `DoubleKept`,
`FlaggedKept`), and for each rule the line it prints and what the line computes (`FaddLine` to `FsetSelects`). The invariant
`LiftInv` then says that the lines are the rule's (`StageInv`), that nothing but the destination and the scratch
registers has changed (`CellsInv`), and what a supported instruction's first line has left for the
second (`LinesInv`). The proof made `Supported` narrower, where it had let through instructions that the instances checked did not
show: integers that `imm_f32` takes for patterns, patterns in float context, a class F64 alone, a negated RZ as the addend of FFMA, a
MOV of a float, FMNMX by another predicate than `PT`.

**ControlFlowProofs.** For the labels, the invariant `IInv` says that labels in the output are the emitted ones, each
once, that the targets of the instructions passed are collected, that what barriers hold and what is rewritten
are collected targets, and that every branch in the output goes to a collected target; when the last pass ends,
all of those have labels. Its core are the lemmas that relate the operands as parsed to the operands
after the bridge (`BridgeKeepsAddresses`, `AddressesAreKept`, `BraIsCollected`, `CallIsCollected`): a rule finds the
address that `collect_branch_targets` found, or none at all and branches to the entry, which has a label. Hence
`LabelsDefinedOnce` and `BranchesHaveLabels`, also for kernels whose addresses repeat. `FlowImplementsEmission`
carries both over to the system with the two threads.

For the pairing, `PairInv` says that the stack of a barrier holds the targets of the openings still open, each at the
height that counting openings and closings from it gives (`Depth`), and that what has been rewritten was so closed; hence
`PairsAreBrackets`. For the run, `TextInv` says that the output is the lines of the instructions written, in order,
each label just before its instruction, and `RunInv` that the text comes to the instruction the thread is at and that
within a bracket its barrier holds what the BSSY wrote (`HeldAt`); hence `SameInstruction`. That property was false as
first stated, which the failing proof showed: the BSYNC of one bracket may lead into another, behind its BSSY, and
a register of class F64, as one of class F32, makes the bridge lose a branch's address. `Structured` now excludes both, and
the run has the kernel and the class that show it.

**NvInfoProofs.** For every file: any number of sections, payloads of any length, whether or not they are what the compiler
wrote. The first half is about the bytes: where each entry begins (`Offsets`) and what stands there (`EntryAt`), what a list of
entries describes (`GatheredSteps`, `DescriptorsSteps`), and that sorting keeps each descriptor (`SortedKeeps`). The second is about
the walk: what one turn does to the table (`TurnEffect`), and that a turn that begins at an entry reads that entry and ends at the
next (`EntryTaken`). Neither property is inductive. `SurviveInv` says that of the entries in step each is in the table
already or the walk stands before it at the beginning of an entry; that survives the turns after the walk has lost its
step, of which nothing else is known, because no turn takes a descriptor from the table. `DescInv` says that for a kernel
whose sections keep the walk in step the table tells what the sections passed, and the entries passed of this one,
describe, in that order, and nothing else.

**RecoveryProofs.** `ptx_lines` is keyed by line numbers alone, so that two rows can meet in one entry and the first is kept.
`RecoverInv` therefore speaks of the rows reached so far in both directions: each entry comes from one of them, and each
of them with a text has an entry of its number; `SourcesAsMapped` follows for every cubin, line table and set of sources.
For `KernelsAsCompiled` there are two arguments. `parse_nv_info` is a recursive function over any bytes; by induction on the
entries read (`ReadsAll`, on the facts about bytes of `NvInfoProofs`), after j turns on sized, padded entries the offset is a multiple
of four and where entry j + 1 begins (`TurnPasses`), and each field has the last word the first j entries give for it. `CompiledInv` is
about the parse: the map has the last of each name among the sections read (`Kept`), and then every kernel is what the sections of
its name give, each name once, in whatever order they are taken. Its sections are typed by `RequestsAssumption`.

Only model-checked:

- `Terminates`, `SearchEnds`: liveness is out of the prover's reach.
- `ImplementsSass` and `PairAddsWide`, `MemoryAgrees` and `DisciplinedIsAccepted`, `ReconstructedExactly` and `TemplatesExactly`: they compare
  tables of instructions case by case, on words of a few bits (`Words` computes them with operators that recur). What
  could be proved is next in the [plan](#plan).
- `RowsAsProgrammed`: the walk over a line table, against the rows the compiler meant, as for the properties of `NvInfo` but
  for sixteen kinds of opcode. What a row's operands read back as (`Uleb`, `Sleb` of `UlebBytes`, `SlebBytes`) is the first lemma to make.

## Divergences

Where the code and its comments, or the code and the machine it lifts, disagree. Three have a run whose counterexample
TLC finds:

- `flow_bsync`: a BSSY, a branch to a side behind the kernel's EXIT, and both sides ending in BSYNC. `build_bssy_map` pops the
  stack at each BSYNC, so the second one is emitted as a comment, and its thread runs off the end of the kernel, where
  `emit/mod.rs:95` says that a BSYNC becomes a branch to the convergence point.
- `rpo_order`: of `MOV R3, R1`, `compute_rpo` lists R3 before R1, where `type_infer/stage_type_infer.rs:196-198` says that a
  definition precedes the instructions that use it. Its edges lead from a destination to its sources, so it is the
  other way round in every program without cycles (`OrderIsOpposite`). The result does not depend on the order.
- `nvinfo`: the module's PARAM_CBANK gives offset 0x380, a kernel with a KPARAM_INFO and no PARAM_CBANK keeps 0x160, where
  `parse/nvinfo.rs:302` says that a global default is applied to such kernels.

Counterexamples of the passing runs without one of their conditions, or read off the code while modelling. **Entries
and parsing:**

- `lift_instructions_to_ptx` makes a context without nvinfo and nothing copies the one in the options there
  (`lifter.rs:95`), so a library lift of a cubin guesses the parameters that `lifter.rs:32-34` calls authoritative.
- `sass_lift` makes one kernel of all functions of a listing; the error "Multiple SASS functions parsed" cannot
  occur; `HETGPU_SASS_LIFTER_CUOBJDUMP` changes which kernels of a cubin are lifted (with it all of them, without
  it the first of a hash table).
- Operands: `c[0x0][R4+8]` is dropped and the later operands move up; `[0x10]` loses its address, `[R2.64+UR4]` and
  `[R0+R1]` their index (`parse/instruction.rs:634-643`; the comment at 621-625 lists the form), `-c[0x0][8]` its sign (the
  comment at 507 lists that form); `-|R2|` becomes a label; UPT, SRZ and `RZ.reuse` become labels.
- HMMA.16816 gets the vector width 13 (525 modulo 256) and MOVM.16 the width 0, where the documentation of the field
  says 1, 2, 4 or 16.
- `find_basic_blocks` collects branch targets and never splits a block at one.
- The templates: the arguments of PRMT are in another order than PTX's; `mul.s32` and `mad.s32` are no PTX.
  `PtxReconstructor` takes PT for the first source of a comparison, looks for a branch's target among the sources only
  ("bra ?"), makes `bar.sync` of WARPSYNC and reads `%tid.x` for CS2R of SRZ.

**nvinfo, cubin, DWARF, recovery:**

- `cubin.rs` takes the bytes (04, 0a) for the size of local memory where `nvinfo.rs` reads the same entry as the region of the
  parameters; the documentation of `SHT_CUDA_INFO` in `parse/nvinfo.rs` gives another number than the constant.
- The builder's `is_cubin` reads bytes 18 and 19 of a file of which it has checked only 16.
- A special opcode subtracts 13 whatever the header's `opcode_base`, so the standard opcodes 10 to 12 underflow;
  `line_base`, `line_range` and the minimal instruction length are read past as well. After `end_sequence` the
  registers are kept and the walk of the unit stops.
- `ptx_lines` is keyed by the line number alone; a file is found by its last component in the order of a `HashMap`;
  line 0 underflows; `recover_all` always fails.

**Type inference and lowering:**

- A psi register is said to have definitions that exclude each other (`type_infer/stage_type_infer.rs:93-95`);
  the test (107-110) is two definitions and mixed families.
- The parameter base is a table of architectures (`lower/stage_lower.rs:95`) where `parse/nvinfo.rs:10-13` says it
  is read from nvinfo. The register of an unknown constant is read and never written; `pipeline.rs:119` says it is
  zero.
- Without nvinfo, the upper half of a 64-bit parameter loads the lower half (`emit/mod.rs:411`); with nvinfo
  `ld.param.u64` is used whatever the parameter's width (417).

**Bridge:**

- A float literal is truncated to an integer where the destination is also used as one (`bridge/translate.rs:256`,
  412); a literal double becomes `as u64` (305) where `rules/types.rs:34` means a bit pattern.
- A uniform register in a float instruction becomes the general register of its number
  (`bridge/translate.rs:327`, `rules/arith/ffma.rs:207`); a uniform guard is printed `%p`
  (`bridge/translate.rs:474`, `rules/types.rs:48`). Constants of banks other than 0 become zero (312).
- The target of `BRA.DIV UR4, t` is encoded after the classes of R4 (`bridge/translate.rs:410`); where those
  are float, the branch goes to the entry label (`rules/ctrl/bra.rs:30`). So is a literal of `FSETP P1`, after those of R1.
- The guard stands before the first line only (`bridge/translate.rs:471`): an unguarded rest follows in every rule of several lines.
- `usgxt.rs`, `ushf.rs`, `ulop3.rs`, `uflo.rs`, `vabsdiff.rs`, `vabsdiff4.rs` and `bmov.rs` are not what the dispatch calls;
  UFLO becomes a constant line (218), FCHK and UCLEA comments.

**Floating point:**

- `FADD Rd, Ra, -Rb` and DADD become `add` (`bridge/translate.rs:333`), not the `sub` of `rules/arith/fadd.rs:22` and
  `dadd.rs:37`; a negated factor of FFMA replaces the addend (`rules/arith/ffma.rs:119`), for all that the comment at 114 says.
- MOV of a literal into a register used as a float writes the float of its value (`bridge/translate.rs:278`), where
  `rules/pred/mov.rs:23` says a bitwise copy.
- FSETP takes the chain from its second destination, so the chain is ignored (`rules/pred/fsetp.rs:47` against 14-20); into
  P0 it emits `and.pred %p0, %p0, tmp`. Comparisons that FSETP's and DSETP's tables lack (NEU, GTU, and FSETP.NAN, which
  the corpus has) become EQ and LT. DSETP ignores chain and mode, FSET its chain; second destinations are never written.
- FSEL negates by subtracting the pattern from zero and drops the negation of its predicate (`rules/bit/fsel.rs:38`,
  49); its tests expect `selp.b32` where it prints `selp.f32`.

**Integers, bits, predicates:**

- ISETP.AND with the chain P0 ignores it, because `PT` and P0 are both printed `%p0` (`rules/pred/isetp.rs:69`, against
  11); with the chain `PT`, ISETP.OR and ISETP.XOR combine with whatever P0 holds (`rules/helpers.rs:97`); IMNMX reads
  `!PT`, which the bridge makes zero, as `PT` (`rules/bit/imnmx.rs:47`).
- `rules/uniform/ulea.rs:11` says "same as LEA" of a formula that shifts the first operand; `rules/arith/lea.rs:13`
  shifts the second. Each rule does what its own head says.
- PLOP3: `PT` and negated operands are filtered out, so the usual `PLOP3 P0, PT, P1, P2, PT, 0x80, 0x8` becomes a
  comment (`rules/pred/plop3.rs:86`, 105); some tables are printed as `pd = pa;` (60-68), which is no PTX; a table
  whose lowest bit is set is always true, where the comment at 71 says that any table works. UPLOP3 takes the first two only.
- UR2UP with bit 0 tests the whole register (`rules/sys/ur2up.rs:72`). USEL and UBMSK write `%rn` for URn, USGXT, ULOP3 and
  UFLO `%r0`; `bmsk.b32` lacks its mode; FLO without U32 is lifted as unsigned; VIADDMNMX takes an unsigned maximum.
- The two formulas at `rules/convert/sgxt.rs:28-29` differ.

**Memory:**

- LDL always reads `[%r0]`, as does LDC with an index; ATOMS takes the register of its value for the address. A base
  RZ reads register 0, and a value RZ stores R0 (STG, ST, RED, ATOMG; the corpus has `ST.E [R.64], RZ`); a load into RZ
  writes R0.
- LDG.64 and .128, LD.E.64, ST.E.64 and .128 access four bytes; STG.U8 and .U16 write four. ATOMG.INC becomes `add`, ATOMG
  ignores S32 and 64, and the bitwise operations are printed with `.u32`, where PTX wants `.b32`.
- LDG reads `%rdn` and RED builds its address from `%rn` and `%rn+1`, so after IMAD.WIDE or LDC.64 one of the two is
  stale; pairs of MOV from constants never set `%rdn`. IMAD.WIDE, which is signed, becomes `mul.wide.u32`.
- LDC.64 loses its 64 in lowering, so the upper register is not counted; the base of `[UR1]` is not counted either and `%ur` is
  declared without a reserve (`emit/mod.rs:285`).
- The test of LDGSTS expects a comment that the code does not print; ATOM is a comment.

## What is not modelled

- The ELF and DWARF libraries (`object`, `gimli`): `CubinParse` and `Dwarf` begin with what they return, and with
  their failing.
- Rounding, FTZ and saturation: the numbers of `FloatLift` are exact. MUFU and FRND print one approximate instruction each
  whose result these numbers cannot state; FSWZADD exchanges values between threads.
- Conversions, half floats, tensor instructions (`rules/convert`, `rules/hf`, `rules/tensor`) and the comparisons of halves:
  formatting of a suffix from modifiers, opcode by opcode, on values that no word of the models has.
- PRMT and UPRMT (bytes of a word), MOVM, LDSM and LDTRAM (matrices between threads), and instructions
  between threads: BAR, DEPBAR, LDGDEPBAR, MEMBAR, SHFL, VOTE, REDUX, WARPSYNC. One thread is executed.
- ISETP.EX and FSETP.EX, S2R, CS2R, LEPC, IDP and the rule of LDC (lowering replaces the constants of bank 0).
- Rules that no opcode is dispatched to, listed under [Divergences](#divergences).
- The declarations of `%p`, `%up` and `%fd`; the C++ types of parameters; the header and the version of the PTX
  (`find_ptx_version`); wording, comments and diagnostics.
- `corpus/` is data; it was used to choose operands, offsets and modifiers that occur.

## Plan

The models cover the path of a lift and the readers of a cubin. What is ahead are theorems, the first most worth having:

1. Lemmas about the integer rules, as those of `FloatLiftProofs`: the lines of a rule write its destinations and
   scratch registers only, for every operand; with them, half of `ImplementsSass` for every kernel.
2. `MemLift`: that `words` and `pairs` are what PTX holds is inductive on its own; `MemoryAgrees` follows.
