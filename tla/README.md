# A TLA+ development for the Xtensa LLVM backend

The repository is a preliminary LLVM 3.8 code generator for the Tensilica
Xtensa LX6 (ESP32, ESP8266): call0 ABI, no register windows, no floating
point. It is a set of hooks that LLVM's passes call, one function at a time,
in one thread, with nothing persistent. So nothing in it is hard because of
concurrency or crashes. What is hard is that the hooks are called by passes
that are elsewhere, in an order that is theirs, and that several hooks,
written apart, have to agree: on where an object lies, on which register is
whose, on what an operand list means. A disagreement is no failed assertion
but a wrong program, and the repository has no tests.

The models therefore put the hooks under the passes that drive them
("external" below: LLVM 3.8's, modelled from how the code uses them), and most
of them then *run* the code that comes out, with everything the rest of the
program, its callees and interrupts may do to it.

## Inventory

| Component | State it keeps or changes | Operations | What makes it correct |
|---|---|---|---|
| Frame lowering (`XtensaFrameLowering`, `XtensaMachineFunctionInfo`) | the block's instructions, `SavedRegs`, the scavenging slot | `hasFP`, `hasReservedCallFrame`, `determineCalleeSaves`, `spillCalleeSavedRegisters`, `emitPrologue`, `emitEpilogue`, `eliminateCallFramePseudoInstr` | the caller's registers come back; nothing in the frame overlaps; the unwinder's directives are true |
| Register info (`XtensaRegisterInfo`) | frame-index operands | `getReservedRegs`, `getCalleeSavedRegs`, `getFrameRegister`, `eliminateFrameIndex` | an index reaches its object wherever sp is |
| Instruction info, branches (`XtensaInstrInfo`) | a block's terminators | `AnalyzeBranch`, `RemoveBranch`, `InsertBranch`, `ReverseBranchCondition`, `isBranch` | every block keeps its destinations and conditions through any relayout |
| Instruction info, stack (`XtensaInstrInfo`) | instructions | `adjustStackPtr`, `loadImmediate`, `store/loadRegToStackSlot` | the immediate fits the form chosen |
| Calling convention (`XtensaISelLowering`, `XtensaCallingConv.td`) | locations, copies, the variadic save area | `LowerCall`, `LowerFormalArguments`, `LowerReturn`, `CanLowerReturn`, `lowerVASTART`, `lowerVAARG` | both sides agree; what a callee may change is what the caller takes for changed |
| Operation lowering (`XtensaISelLowering`) | the DAG, blocks for selects, what `MachineFrameInfo` is told | the table of actions, `LowerOperation`, `emitSelectCC` | every operation ends in a pattern, in finitely many steps; the expansion computes the operation; edges, layout and phis stay consistent |
| Instruction selection (`XtensaISelDAGToDAG`) | addressing-mode operands | `selectMemRegAddr`, `Select` | no part of an address is lost between base and offset |
| Instruction patterns (`*.td`) | none | patterns, mnemonics, encodings | what is printed and encoded computes the pattern |
| Assembly printing, MC lowering (`XtensaMCInstLower`, `XtensaInstPrinter`, `XtensaAsmPrinter`) | operands | `lowerOperand`, `printMemOperand`, immediate printers | operands in the order their definitions say |
| Branch selector | none: its body is a comment | | |
| Machine-code layer (`MCTargetDesc`) | bytes, fixups, relocations | `getMachineOpValue`, `applyFixup`, `getRelocType` | each fixup kind has its bits and its relocation |
| Constant-pool values (`XtensaConstantPoolValue`) | none: nothing builds one | | |
| Object-file sections | section choice | `IsInSmallSection`, `SelectSectionForGlobal` | small data is where its addressing expects it |
| Subtarget, target machine, parser stub, registration | tables | | |

How they interact: selection lowers calls, arguments and returns separately
for the caller and the callee; branch hooks are used by block placement and
folding; after register allocation the prologue/epilogue inserter (PEI) calls
frame lowering and register info in a fixed order and lays the frame out
between the calls; the printing and machine-code layers see the result.

`PROJECT.json` lists the hazards at their lines; the behaviours they come
from are: insertion points found by counting instructions, addresses computed
for one value of sp and used at another, conditions that outlive the
instruction they were read from, and locations computed twice.

## Plan

1. *(done)* `XtensaFrameLayout`, `XtensaFrame`: layout and run-time protocol of
   a frame, proved. The central one: every function goes through it.
2. *(done)* `XtensaPEI`: the same hooks as insertions into a block, shown to
   implement `XtensaFrame`.
3. *(done)* `XtensaCC`, `XtensaBranch`: condition codes and branch hooks under
   relayout, both proved.
4. *(done)* `XtensaCallConv`: both sides of a call.
5. *(done)* `XtensaSelect`: the expansion of `SELECT_CC` into blocks; edges, phis,
   the scan and the meaning proved.
6. *(in part)* What the patterns of `XtensaInstrInfo.td` compute against what
   their mnemonics do. Done: `XtensaISel`, an address from the DAG to text, and
   `XtensaShift`, sums, differences and shifts with the shift amount register,
   both proved.
   Left: multiplication, division and logic, one pattern each, where there is
   nothing to disagree but a mnemonic.
7. *(done)* `XtensaLegalize`: the table of actions, `LowerOperation` and the
   patterns against each other; safety proved, termination checked.
8. *(done)* The agreement of both sides of a call, proved (`XtensaCallConv_proofs`).
9. *(dropped)* Modules of fixups, of sections and of constant-pool values: see "Not modelled".
10. *(done)* What the code computes proved twice: `MeaningPreserved` of the addresses
    in `XtensaISel` for every offset, object and layout, hook by hook;
    `DiamondsComputeSelects` of the selects in `XtensaSelect`, by a simulation.
11. The proof that is left: the step simulation from `XtensaPEI` to `XtensaFrame`.

## Modules

**`XtensaFrameLayout`** (constant operators). A function is a record of what the
hooks consult: frame-pointer reasons, call amounts, sizes of the variadic area
and the locals, saved registers in slot order. `hasFP`, `hasReservedCallFrame`,
`SavedRegs`, `ScavSize`, `FrameBase`, `FinalOffset` are the code's;
`StackSize`, `CSROffset`, `LocalOffset`, `AlignFrame` are PEI's layout. `FnOK`
says what PEI hands over.

**`XtensaFrame`**. One activation: allocate, spill, set fp, body, restore sp,
reload, free. The body is *any* sequence of register writes, frame accesses,
dynamic allocas, stack save/restore, call sequences; a callee and an interrupt
may overwrite everything below what they are entitled to. `shadow` is a history
variable: what the program last stored where, against which memory is compared.
This is also the abstract specification of the next module.

**`XtensaPEI`**. A block of instructions; each phase inserts or rewrites as the
hook does, at the place the hook finds by counting; then the block runs one
instruction a step, interrupts included. `at` is history: the stage of
`XtensaFrame` it is in. `FrameSpec` is `F!Spec` under
`F == INSTANCE XtensaFrame WITH ...`.

**`XtensaCC`**, **`XtensaBranch`**. Condition-code masks, their reversal, the
opcode inserted for each and what the printed instruction compares; then a
function's blocks under block placement, terminator updates, reordering and
folding (external drivers, following `updateTerminator` and
`OptimizeBlock`), all of which act through the target's hooks.
`Destination` evaluates a block's terminators for given register values.
`AnalyzeBranch` is the code's loop over the block from its end, as a function of
the number of rounds; `AnalyzeInstr` is what one round does with one instruction.
`Folded` is what branch folding makes of a block it has analysed. `Stop` is the end of
the compiler in `isBranch`'s assertion, which a call at a block's end fails.

**`XtensaCallConv`**. One call from `CALLSEQ_START` to the last result copy, the
stores and loads that are independent in the DAG in every order, the variadic
save area, `va_start`/`va_arg`, hidden result buffer.

**`XtensaISel`**. One address, wanted as a value, by a load or store or by
inline assembly, through the hooks in the order LLVM calls them: `Legalize`
(`LowerOperation`), `Select` (`selectMemRegAddr`, patterns; every alternative
where two match alike), `ExpandPseudos`, `ReplaceFrameIndices`, `Lower`,
`EmitText`. `CannotSelect` and `PrintFails` are its two ends in an error: no
pattern, a failed assertion (`PrintAsserts`). A block address is lowered to a target
node, which no pattern takes for a value and any takes for a register operand
(`LeafOperand`): an access through it reaches the printer, which asks the symbol for
its register, and a sum with it is printed. `Encodable` says which operands the
instruction set encodes: memory offsets in the ranges of their operand types
(`MemoryOffsets`), a symbol in a move alone, and no `LA`. The constants place the program: `EntryValue` and
`FrameValue` are what the two base registers hold, `SymbolAddr` and `PoolAddr` where a
symbol and a constant's pool entry are; `LayoutAssumption` asks only that entries are
distinct and where the program has no address of its own. `DAGValue` and `Run` say
what a DAG and a list of instructions are worth; `code` keeps operands in the order
of the definitions, and in printing order once printed, so that hooks which disagree
on an operand's place yield another address. `Answers` is the access a use asks for:
address, width, extension, direction.

**`XtensaSelect`**. A function of blocks with selects. `Select` matches one node
(`SelectPattern`), `ExpandNext` does what `emitSelectCC` does: two new blocks,
the rest of the block moved, successors and phis transferred, a phi in place of
the pseudo. `Running` is the machine after n steps (`Do`), phis read all at once on
`Enter`; `Meaning` is what it has put out after `Steps`, and `meaning` is history:
the `Meaning` of the DAG. The walk of `ExpandISelPseudos` over a block cut under it is
`FirstPending`. `BNE` has the operands `emitSelectCC` gives it, a register and a
block, where the instruction's class has the target and two registers. The parameter
`bne` says how it is read: `"class"`, the machine ends as bad at an instruction with such
operands (`MeaningPreserved`, refuted); `"built"`, it is the branch on not zero that the
code's comment asks for (`DiamondsComputeSelects`), which shows that nothing else in
the expansion is wrong.

**`XtensaShift`**. A block's DAG of shifts, sums and differences; `Select` picks
among the patterns that match by TableGen's order, `Emit` schedules the nodes in
any order that respects their operands, with the amount copied into `sarl0` or
`sarr0` next to its shift, `ExpandCopies` applies `copyPhysReg`. `Values` is the
DAG's meaning (`Computed` that of one operation, `NodeValue` of one node), `Do` the
printed instruction's, on words of `W` bits and one hardware shift amount
register; `Run` runs the code from `Start`.

**`XtensaLegalize`**. A set of statements, each a set of DAG nodes, on its way
through LLVM's combiner, type legalizer and operation legalizer to selection. A
node is its opcode, its type and what more decides its fate; operands are left
out. The table of the constructor is one set per paragraph of it
(`ComparisonExpand` ... `FenceCustom`), `getOperationAction` the lookup, `Split` and
`Expansion` what LLVM rewrites into, `LowerOperation` what the backend does, `Record`
what it notes about the function on the way, `Selectable` what has a pattern.
`status` is the phase, or why the compiler stopped: `cannot select`,
`unexpected node`, `no ReplaceNodeResults`, and the assertions on depth and TLS model.
Any node may be next.

The `MC*` modules give the constants. Definitions named in a comment as
mutants are faulty variants of the definition after them; no specification uses
them.

## Runs

Most runs finish in seconds; `frame`, `select`, `shift` and `legalize` take up to a minute.

| Run | Shows |
|---|---|
| `frame` | `TypeOK`, `CalleeSavedPreserved`, `ProgramDataIntact`, `OutgoingArgsIntact`, `UnwindCorrect`, `SPAlignedAtCalls` on functions with and without frame pointer, allocas, calls, reserved call frame, leaf and empty frames; about 693,000 states |
| `pei` | `ReturnsToCaller` and the refinement `FrameSpec`; blocks with large and small frames, with and without frame pointer, calls and allocas; 3,600 states |
| `branch` | `BranchesPreserved`, `StaysAnalyzable`, `OnlyCallsUnknown` over all placements of four blocks, calls at a block's end included; 8,064 states |
| `callconv` | `FormalsAreActuals`, `ResultsArrive`, `VaWalkContiguous`, `LiveAcrossCallIntact`; 0 to 10 argument words, 0 to 5 results; 3,400 states |
| `isel` | `MeaningPreserved`, `PrintedComputesNode`: seven kinds of base, eleven uses, nineteen offsets, four distances of the frame object; 54,480 states |
| `select` | `DiamondsComputeSelects`, `SuccessorsAreDestinations`, `PhisMatchPredecessors`: one and two selects in a chain, a triangle, a diamond and a loop; 648 states |
| `shift` | `RootsComputed`: two shifts and a node that uses them, every schedule, every pair of operands; 46,426 states |
| `legalize` | `NoUnexpectedNode`, `FrameAddressHasFP`, `Ends`, `SupportedCompiles`, and by `TypeOK` that legal types stay legal: seventy-odd statements, alone and in pairs, static and PIC; 171,904 states |
| `branch_imm`, `callconv_varargs`, `callconv_live`, `select_bne` | one disagreement each, below |

Bounds and why they are enough. `frame`: two values (one entry value, one to
scribble with: the properties compare words for equality only), allocas of 16
bytes and `MaxDyn` = 16 (one alive at a time is the closest to the frame and to
the outgoing arguments; the proofs remove this bound). `branch`:
`HalfRange` = 2 gives registers of two bits, with both signs and both extremes;
four blocks, the first in place, make every relation of taken and fall-through successors;
`XtensaBranch_proofs` removes the width. `callconv`: six words fill the registers, seven
or more reach the stack, ten with one named let `va_arg` walk from the save area
into the stack arguments, five results force the hidden buffer. `isel`: offsets
on both sides of every limit the hooks test (`immn`, `imm7n`, `imm8`, `imm12`,
`isInt<12>`), frame objects near the frame register, just inside and past
`imm12`; an address has at most one base and one offset when it is matched;
the proofs remove the bounds on offsets, objects and layout.
`select`: 210 functions of up to four blocks, which have every relation a block
with a select can have to its successors (none, one, two, itself), two selects
in one block or two, one feeding the other; they are run for at most `Steps` = 60
steps on inputs 0 to 2, at least three times what the longest takes as a DAG
(`StepsAssumption`, which TLC evaluates); the proofs remove all of these. `shift`: `W` = 4 has zero, the width and both signs among
the amounts and operands and leaves room for the scales 2, 4 and 8; two shifts of
any direction are what it takes to overwrite an amount. `legalize`: every operation
the table names and every one its expansions reach occurs; nodes meet only through
`info`, so that pairs are enough, each statement with a frame address, with a library call
and with an error.

What the inputs leave out on purpose, because the code does something else
there: `pei` has no call next to the return (see "Also noticed"); `branch`
compares registers only (`branch_imm` compares others); `callconv` keeps values across calls only in saved registers
(`callconv_live` in others) and passes by value only in registers (by-value
arguments on the stack are a TODO of `LowerCall`: the model skips their store as
the code does); `isel` has no byte load that extends the sign, which `l8ui`
answers with zeros, and `PrintedComputesNode` says nothing of text whose operands
are not `Encodable`.
`legalize` compiles the statements of `NotCompiled` and `NotPrinted` too, but
`SupportedCompiles` promises nothing of them: each of the first ends in an error of the
compiler, listed below, and the second, a load through a block address, in one of the
printer.

No run checks deadlock: an activation, a block of code, a call, an address, the
expansion of a function's selects, the selection of a block and the compilation of a
statement all end, and the passes over branches stop in a failed assertion.

### Disagreements between the code and what it says of itself

- `branch_imm`: immediate and zero branches are rebuilt as register branches.
- `callconv_varargs`: the variadic save area begins with `a0` and `sp`, and
  `va_start` points at it.
- `callconv_live`: calls do not clobber a6..a11 in the eyes of the register
  allocator, and nobody saves them.
- `select_bne`: the `BNE` of `emitSelectCC` (`XtensaISelLowering.cpp:1337`) has a register
  and the target behind it, where the class (`XtensaInstrInfo.td:235`) has the target
  first and two registers; the diamond does not compute the select.

Also noticed, without a run (each is so for every input, or needs what is not
modelled):

- frames: `eliminateFrameIndex` ignores `SPAdj` (`XtensaRegisterInfo.cpp:152`): with no
  frame pointer and a call frame too large to reserve (past 2031 bytes), a local
  accessed inside a call sequence is addressed `NumBytes` too low, which is why the
  invariants of `frame` are conditioned on `FrameRegStable`: without the condition
  (`DataIntact` alone) TLC refutes them on those functions. Calls are terminators
  (`XtensaInstrInfo.td:312`): when the last call is next to `ret.n` the reloads are
  inserted ahead of it, and the count back from the return
  (`XtensaFrameLowering.cpp:168`, "Find the first instruction that restores a
  callee-saved register") puts `mov sp, a15` ahead of another instruction. The
  CFA is declared 72 bytes above the incoming stack pointer
  (`XtensaMCTargetDesc.h:52`), the prologue places it at the incoming stack
  pointer (`XtensaFrameLowering.cpp:105`); `XtensaInstrInfo.cpp:509` passes the
  frame index where `getLoadStoreOpcodes` (`XtensaInstrInfo.h:110`) has an
  offset, so the narrow access, whose operand reaches 60 (`XtensaOperands.td:76`),
  is chosen by the index; `isLoadFromStackSlot` asks for an operand 3 that loads
  do not have.
- branches: `CALL0` is declared a branch and a terminator and is an `Unknown
  branch opcode` to `isBranch` (`XtensaInstrInfo.cpp:638`): a call last in its block, or
  next to its jump, stops the compiler as soon as the block is analysed (action `Stop` in run
  `branch`, and `OnlyCallsUnknown` that nothing else does); conditional branches
  are declared barriers (`XtensaInstrInfo.td:233`); `BNEI` prints `beqi`
  (`XtensaInstrInfo.td:286`).
- addresses: `LA` is never expanded (`XtensaISelLowering.cpp:1370`) and printed as
  the comment `# LA PSEUDO!` (`XtensaInstrInfo.td:225`); block addresses become
  bare target nodes, which cannot be put in a register, but are accepted as the base of
  a load or store (`getReg` then asserts in `printMemOperand`) and as the operand of a sum
  (printed with the symbol in a register's place); thread-local ones become `Hi` and
  `Lo`, which no pattern matches and which the enumeration of the header does not have;
  no pattern extends a byte by zeros; memory operands declare 0..255, 0..510,
  0..1020 and 0..60 (`XtensaOperands.td:58-80`) and are given -2048..2047: the operand types
  print through `printMemOperand` (`XtensaOperands.td:89`), so that the assertions of
  `printOffset8m8_AsmOperand` and its kin (`XtensaInstPrinter.cpp:239`) are never reached
  and the text comes out; their predicates of alignment, `(Imm & 0x1 == 0)`, parse as
  `Imm & 0`; a memory operand of inline assembly
  always fails an assertion in `PrintAsmMemoryOperand`.
- shifts: no pattern for a logical right shift; `SRAI`, `SRLI` and `SRL` carry
  patterns of `shl` and `sra`; `sarl0` and `sarr0` are one hardware register under
  two unrelated names, safe as long as each copy stays next to its shift;
  `copyPhysReg` cannot copy them back.
- operations without a pattern, each a compilation that fails: a logical right shift
  (hence rotates and signed division by a power of two), population count, count of
  leading or trailing zeros, byte swap, a byte load extended by zeros, atomic loads and stores, traps
  (declared Legal, `XtensaISelLowering.cpp:157`); a comparison used as a value, or by a
  select for anything but equality with zero, and with them 64-bit sums,
  differences and orderings, which are split into such comparisons; 64-bit and
  double constants, which are Custom (`XtensaISelLowering.cpp:83`) where only
  `ReplaceNodeResults`, not overridden, is asked; frame and return addresses of an
  outer frame.
- others: an atomic fence is lowered as a stack save; `ManipulatesSP` is set and never
  read; a library call of static code becomes a `CALLX0`, whose operand is a register, of
  a symbol (`XtensaInstrInfo.td:355`); `setMinFunctionAlignment(1)` asks for two bytes
  where `call0` reaches words; `hasF` is read before the feature string is parsed; comments speak of 8-byte
  stack slots (`XtensaCallingConv.td:44`), the code assigns 4-byte ones; `REMS`
  prints `quos` and `REMU` `quou`; `a8` is numbered 7.

### Fairness and liveness

`XtensaLegalize` alone states fairness, `WF_vars(Next)`: LLVM legalizes a function in
one thread, in a loop that goes on while a node is left, so that a step that can be
taken is taken; in which order the nodes come is LLVM's business and left open
(no fairness on any one node). Under it `Ends` is the termination of
legalization: the legalizer has no bound of its own on how often a node may be
rewritten, and an `Expand` too many in the table (the mutant sets `SETCC` on i32) makes it
exchange two nodes for ever. `SupportedCompiles` is that such a compilation ends with code.

The others state none. A hook runs to its end when called, and generated code is
sequential: there is no scheduler whose fairness could be assumed, and no
other property of the form "eventually" that a hook promises.

## Proofs

`XtensaFrame_proofs`: for every set of functions satisfying `FnOK`, any
entry registers with an aligned sp, any values, any positive multiples of 16 as
alloca sizes, and any `MaxDyn`, `Spec` implies each of the six invariants of run
`frame`. The inductive invariant `XFInv` adds to `TypeOK`: where sp and the
frame register are at each stage; that every spill slot holds the caller's
value from its spill to its reload, which needs that the slots lie above
anything the body, a callee or an interrupt writes; that live
allocas, saved stack pointers and stored arguments lie between sp and the frame;
that memory agrees with `shadow`. Without these, `CalleeSavedPreserved` is not
inductive: a state with the right registers in the body but a wrong word in a
slot satisfies it. Lemma `Areas` states once that the areas of a frame do not
overlap; `NextInv` has one lemma per action.

`XtensaBranch_proofs`, first part: for every register width, the reversed condition holds
exactly when the condition does not; reversal is an involution; the inserted
opcode, as printed, jumps exactly when its condition holds; `isBranch` reads
back what `InsertBranchAtInst` wrote.

`XtensaBranch_proofs`, second part: for every number of blocks, any code above the branches and any
sequence of `Place`, `Update`, `Reorder` and `Fold`, the four properties of run
`branch`. The theorems assume `AllWellFormed`, that every program satisfies `WellFormed`:
a block ends in a return, an indirect jump, a jump, a comparison of two registers alone or
ahead of a jump, or falls through; calls may be anywhere. The restriction to registers is
the code's: without it `BranchesPreserved` is false (run `branch_imm`); that programs satisfy
`AllWellFormed` is evaluated in run `branch`. `OnlyCallsUnknown` is about the failing of
`isBranch`'s assertion, not its absence: when a block is found to fail, the block as it was
selected ended in a call, with at most branches to blocks behind it, however its
branches have been rewritten since. None of the properties is inductive. The invariant `BranchInv` says that
each block is its straight part and one of the *forms* of the branch it was selected
with: as written, reversed with its ways exchanged, cut to one way where the other is
the next block, or gone; and that a settled block has a form that is right for the block
behind it *now*. `AnalyzeBranch` reads each form as the branch it came from: its loop
is a recursive function, and what it returns is found by induction over its rounds
(`RoundsExist`, `AnalyzeByRounds`). Then what `RemoveBranch` and `InsertBranch` make of a form
is a form again; the first part gives that it goes where the original goes.

`XtensaShift_proofs`: for every block of sums, differences, negations and shifts and every
schedule, `TypeOK` and `RootsComputed`, for all operands. `SelectionCovers` says that what
TableGen's order selects for a node computes that node: the wrong patterns of `SRAI`, `SRLI`
and `SRL` never win, as `SLLI` and `SRA` match whenever they do, are as rich, and are
defined earlier. The invariant `ShiftInv` says of the code that each instruction is
the one of a node, behind those of its operands, and a shift right behind its amount;
appending or scheduling otherwise cannot part the two. `RootsComputed` says nothing until
the code is finished, so it is no invariant to induct on; it follows from `ShiftInv`
by induction over the instructions (`RunRight`): after each, the registers written so far hold
the values of their nodes, and SAR the amount of the shift that is next.

`XtensaSelect_proofs`: for every set of functions, with any number of blocks and selects,
`TypeOK`, `SuccessorsAreDestinations` and `PhisMatchPredecessors`. The theorems assume
`GraphsAssumption`, that a function is well formed when it comes to selection: its edges are
where its code goes, its phis come first and match its edges, and no branch is ahead of a
select; TLC evaluates it on the functions of run `select`. The last part is what keeps the expansion
right: `emitSelectCC` takes all that is ahead of the pseudo into the block that ends in its
`BNE`. None of the three is inductive. `SelectInv` adds that the layout is a permutation
and that no branch is ahead of a pseudo that is left (`Ordered`), without which an
expansion would bury one; and that no pseudo is left in a block laid out ahead of the one
the scan goes on in (`Scanned`), which gives `TypeOK` at the end: `FirstPending` is then the
first pseudo of the whole layout (`ExpandedPseudo`), and `emitSelectCC` returns a block
behind it with only the new, empty one between. `EmittedCode`, `EmittedEdges` and
`EmittedLayout` say block by block what an expansion leaves; `ChosenOrigins` where each
instruction came from. The phis elsewhere are renamed exactly where `succ` of the cut block says, a phi
of the cut block itself, in a loop, among them, so `ChosenPredecessors` and `Renamed` agree.

`DiamondsComputeSelects` is proved for the same functions and all inputs, under the reading of
`BNE` its definition states (`"built"`); under the other the run `select_bne` refutes it. It assumes
`StepsAssumption` besides: `Steps` is any number such that every function has ended after
a third of it. The bound is what makes the property a state predicate; a function that
does not end has no outcome to compare. The proof is a simulation. `Alike` relates the
machine on the code before an expansion to the one on the code after it: the same registers
and output, and the same instruction, which is in `sinkMBB` when it was behind the pseudo
(`AtB`, `AtI`). They enter a block alike (its phis read for the new predecessor what they
read for the old one), fall and take any other instruction alike; for the pseudo's one step
there are two, the branch into `sinkMBB`, or three, the branch and two falls (the diamond).
So runs grow, and `Steps` is compared not with their length but with their cost: a step
costs 1, at a select 3 (`Weight`), and no run costs more after an expansion. `Kept`, that from every
input the code runs to the end the DAG ran to at a cost within `Steps`, is the invariant. A run
falls into a recorded successor only, as it is never behind a jump (`Sane`), which is where
the edges of `SelectInv` are needed.

`XtensaISel_proofs`: for every set of uses, bases, offsets, frame objects and every layout,
`TypeOK`, `MeaningPreserved` and `PrintedComputesNode` (of text that is `Encodable`), the last two but for the use `load8s`,
which the code gets wrong (the run leaves it out too: with it both are false). The properties speak of what a
list of instructions does and not of its form, so none of them is inductive. `ISelInv` says that
at each stage the code is what the hooks so far make of one of the selections of the
legalized DAG, and the hooks are then taken one by one. *Selection:* each list `Selections`
can yield is run symbolically, from `LeafCode` (one leaf put in a register) over `SumCode` and
`ValueCode` to `AccessCode`, which gives `SelectionComputes`: the register or the access is the
node's, whichever of the alternatives was taken. *Frame indices:* `eliminateFI` makes three
instructions of one and needs a register the selected code never names; `Simulate` carries
`AlikeStates`, machines that agree on all but the scratch register, through the whole list,
whether the distance fits or not. *MC lowering and printing:* `lower` keeps every value, and
`printMemOperand` exchanges the operands that the machine, once it reads text, reads exchanged
(`Agree`). `Run` is a recursive function; that running two lists is running one after the
other (`RunConcat`, and `SimulateFlat` for what one instruction becomes) is by induction on
their length.

The inductions these proofs use, over the natural numbers and up to a bound, are stated at
the head of each module, in terms of sets instead of predicates, which is what lets the
prover apply them.

`XtensaLegalize_proofs`: for every set of statements, `TypeOK` (once the types are legal
they stay so), `NoUnexpectedNode` and `FrameAddressHasFP`. The last two are not
inductive by themselves. A node LowerOperation does not know must not be met *later*
either, so the invariant says that every node at work in phase `ops` has a type with
registers, and that each operation the table calls Custom on such a type has a case; a read
of a15 among the legal nodes must have been noted in `info` when it was made, which
holds because no expansion makes one but the lowering that notes it. The proof goes
through the expansions one by one, as the table decides which of them apply.

`XtensaCallConv_proofs`: for every set of calls, with any number of arguments, results and
live registers, the five properties of run `callconv`. The theorems assume `CallsSettled`:
no by-value argument has a stack location, which `LowerCall` does not store (a TODO in the
code), and live values are in registers of `CSR_Xtensa`, without which
`LiveAcrossCallIntact` is false (run `callconv_live`). The invariant
`CCInv` follows a word: argument k up to the sixth is in register k + 1 until entry, then in
the live-in copy of that register; later ones are at `4 * (k - 7)`, or still to be stored;
saved live-ins are at `4 * (r - 8)`, below every stack argument, so that saves, stores and
loads commute; results fill `a2..a5` in order, or a buffer whose number of filled words
equals the count, hence is full at the return. `VaWalkContiguous` splits at the end of the
save area (`VAARGReads`): before it va_arg reads a saved register, after it a stack word.

The assumptions are those named in the modules (`CallsAssumption`, `FunctionsAssumption`,
`EntryAssumption`, `ValuesAssumption`, `AllocaAssumption`, `MaxDynAssumption`,
`HalfRangeAssumption`, `StatementsAssumption`,
`BlocksAssumption`, `GraphsAssumption`, `StepsAssumption`, `ISelAssumption`, `LayoutAssumption`,
`ShiftAssumption`); TLC evaluates them in the runs. `ShiftAssumption` has
operands come before their users and shifts of 4, 8, 16 or 32 bit words; the target's have 32.
Numbers in `XtensaISel` are not reduced to words: an address that wraps is left out.

Model-checked only:

- `TypeOK`, `ReturnsToCaller` and the refinement `FrameSpec` of `XtensaPEI`. Its block is made
  by insertions found by counting and then run, and a theorem for every function would be a
  simulation of the whole block by `XtensaFrame`, for which the bodies would have to be
  restricted: `FnOK` says nothing of the instructions a function is selected into. What the
  refinement refines to, `XtensaFrame`, is proved.
- `Ends` and `SupportedCompiles`: liveness is out of the prover's reach.

## Not modelled

- The machine-code layer (`MCTargetDesc`), because its output is a failure for
  nearly every function and a model would have nothing to state but that: a jump's
  block operand ends in "Jump with no immediate field"; a call's fixup has a kind the
  backend's table has no entry for and the object writer no relocation; a branch's fixup
  is or-ed into byte 0, the opcode; the `LA` pseudo is encoded as two zero bytes; 16-bit
  instructions are declared 3 bytes long; `CALL_Inst` sets bits 23-20 where the opcode
  is in bits 3-0; the ELF writer is set up for 64 bits.
- `XtensaConstantPoolValue`: nothing in this version builds one, and the constructors of
  the header and of the source file differ, so no program reaches its code.
- Object-file sections: `useSmallSection()` is false at this commit
  (`XtensaSubtarget.cpp:48`), so every choice is LLVM's.
- `XtensaBranchSelector` (its body is commented out), the assembler parser (a
  stub), constraints of inline assembly (`getRegForInlineAsmConstraint` and
  `LowerAsmOperandForConstraint` are commented out), the address matcher of
  `XtensaISelDAGToDAG` with base, displacement and index (called by nothing),
  `emitCALL` (its body is a comment), `InsertConstBranchAtInst` (no caller).
- Formatting and directives of the printers, subtarget and target-machine set-up, build
  files.
- Register scavenging and debug values inside the frame hooks; shrink-wrapping (an
  assertion excludes it); register allocation and machine scheduling between
  `XtensaShift`'s phases.
