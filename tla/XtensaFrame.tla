------------------------------ MODULE XtensaFrame ------------------------------
(***************************************************************************)
(* One activation of a compiled function: the instructions XtensaFrame-    *)
(* Lowering emits around a body, executed on registers and memory, with    *)
(* the call-frame directives the prologue emits for the unwinder.          *)
(*                                                                         *)
(*   alloc -> spill 1..n (then mov a15, sp) -> body <-> call -> called     *)
(*         -> (mov sp, a15 then) restore n..1 (then sp += StackSize)       *)
(*         -> done                                                         *)
(*                                                                         *)
(* The body is any sequence of what selected code does to the frame:       *)
(* register writes, accesses to frame objects, allocas, stack save and     *)
(* restore, call sequences.  An interrupt may overwrite the memory below   *)
(* sp between any two instructions.                                        *)
(***************************************************************************)
EXTENDS XtensaFrameLayout

CONSTANTS
  Functions,    (* the functions that may be activated                     *)
  EntryRegs,    (* the caller's register values                            *)
  Values,       (* the values a body, a callee or an interrupt may write   *)
  AllocaSizes,  (* the sizes of variable-sized allocas                     *)
  MaxDyn        (* bound: bytes of variable-sized allocas alive at once    *)

ASSUME FunctionsAssumption == \A f \in Functions : FnOK(f)
ASSUME EntryAssumption ==
  EntryRegs \in [Regs -> Int] /\ EntryRegs["sp"] % StackAlignment = 0
ASSUME ValuesAssumption == Values \subseteq Int
ASSUME AllocaAssumption ==
  \A n \in AllocaSizes : n \in Nat \ {0} /\ n % StackAlignment = 0
ASSUME MaxDynAssumption == MaxDyn \in Nat

VARIABLES
  fn,      (* the function                                                 *)
  pc,      (* the stage of the activation                                  *)
  idx,     (* next spill slot to store (spill) or to reload (restore)      *)
  regs,    (* sp and the callee-saved registers                            *)
  mem,     (* the words written so far                                     *)
  amt,     (* NumBytes of the call sequence in progress                    *)
  args,    (* the outgoing arguments it has stored, by offset              *)
  dyn,     (* the words of live allocas the body uses                      *)
  saves,   (* the values llvm.stacksave returned and that are still valid  *)
  shadow,  (* the program's data: intended address -> last value stored    *)
  cfa      (* the rule for the canonical frame address: register + offset  *)

vars == <<fn, pc, idx, regs, mem, amt, args, dyn, saves, shadow, cfa>>

--------------------------------------------------------------------------------
EmptyMap == [a \in {} |-> 0]

Store(m, a, v) == [x \in DOMAIN m \cup {a} |-> IF x = a THEN v ELSE m[x]]

(* Memory below the address limit takes the value v; the rest is kept.     *)
Scribble(m, limit, v) == [x \in DOMAIN m |-> IF x < limit THEN v ELSE m[x]]

KeepFrom(m, limit) == [x \in {y \in DOMAIN m : y >= limit} |-> m[x]]

IsMap(m) ==
  /\ m = [x \in DOMAIN m |-> m[x]]
  /\ DOMAIN m \subseteq Int
  /\ \A x \in DOMAIN m : m[x] \in Int

sp     == regs["sp"]
NumCSI == Len(fn.csi)

(* The frame's bottom once it is allocated, and the place of an object.    *)
FrameBottom == EntryRegs["sp"] - StackSize(fn)
LocalAt(o)  == EntryRegs["sp"] + LocalOffset(fn) + o
SlotAt(k)   == EntryRegs["sp"] + CSROffset(fn, k)

(* The address an eliminated frame index reaches.                          *)
SlotAddr(k) ==
  regs[FrameBase(fn, TRUE)] + FinalOffset(fn, CSROffset(fn, k), 0)
LocalAddr(o) ==
  regs[FrameBase(fn, FALSE)] + FinalOffset(fn, LocalOffset(fn), o)

(* Mutants: the pseudos never move sp; they always do.                     *)
CallAdjustNever(a) == 0
CallAdjustAlways(a) == a

(* By how much the call-frame pseudos of this function move sp.            *)
CallAdjust(a) == IF hasReservedCallFrame(fn) THEN 0 ELSE a

CFAOffsetFromInitialSP == 72

--------------------------------------------------------------------------------
Init ==
  /\ fn \in Functions
  /\ pc = "alloc"
  /\ idx = 1
  /\ regs = EntryRegs
  /\ mem = EmptyMap
  /\ amt = 0
  /\ args = EmptyMap
  /\ dyn = {}
  /\ saves = {}
  /\ shadow = EmptyMap
  /\ cfa = [reg |-> "sp", off |-> CFAOffsetFromInitialSP]

bodyVars == <<amt, args, dyn, saves, shadow>>

(* emitPrologue returns early, emitting nothing, for an empty frame.       *)
PrologueEmitted == ~(StackSize(fn) = 0 /\ ~fn.adjustsStack)

(* MCCFIInstruction::createDefCfaOffset negates its argument.              *)
DefCfaOffset(offset) == -offset

(* Mutant: the size is passed as the directive will print it.              *)
CFAOperandPositive == StackSize(fn)

(* What emitPrologue passes it.                                            *)
CFAOperand == -StackSize(fn)

(* sp -= StackSize, ahead of the spills; .cfi_def_cfa_offset StackSize.    *)
AllocFrame ==
  /\ pc = "alloc"
  /\ pc' = "spill"
  /\ IF PrologueEmitted
       THEN /\ regs' = [regs EXCEPT !["sp"] = @ - StackSize(fn)]
            /\ cfa' = [cfa EXCEPT !.off = DefCfaOffset(CFAOperand)]
       ELSE UNCHANGED <<regs, cfa>>
  /\ UNCHANGED <<fn, idx, mem, bodyVars>>

(* One store of spillCalleeSavedRegisters.                                 *)
SpillCSR ==
  /\ pc = "spill"
  /\ idx <= NumCSI
  /\ mem' = Store(mem, SlotAddr(idx), regs[fn.csi[idx]])
  /\ idx' = idx + 1
  /\ UNCHANGED <<fn, pc, regs, bodyVars, cfa>>

(* mov.n a15, sp; .cfi_def_cfa_register a15.                               *)
SetFP ==
  /\ pc = "spill"
  /\ idx > NumCSI
  /\ pc' = "body"
  /\ IF PrologueEmitted /\ hasFP(fn)
       THEN /\ regs' = [regs EXCEPT !["a15"] = sp]
            /\ cfa' = [cfa EXCEPT !.reg = "a15"]
       ELSE UNCHANGED <<regs, cfa>>
  /\ UNCHANGED <<fn, idx, mem, bodyVars>>

--------------------------------------------------------------------------------
(* The body writes a callee-saved register it was allocated.               *)
WriteReg(r, v) ==
  /\ pc = "body"
  /\ r \in fn.modified \ Reserved(fn)
  /\ regs' = [regs EXCEPT ![r] = v]
  /\ UNCHANGED <<fn, pc, idx, mem, bodyVars, cfa>>

(* A store to a local object through its frame index; argument lowering    *)
(* may place one inside a call sequence.                                   *)
StoreLocal(o, v) ==
  /\ pc \in {"body", "call"}
  /\ o \in fn.probes
  /\ mem' = Store(mem, LocalAddr(o), v)
  /\ shadow' = Store(shadow, LocalAt(o), v)
  /\ UNCHANGED <<fn, pc, idx, regs, amt, args, dyn, saves, cfa>>

(* DYNAMIC_STACKALLOC: sp -= n; the body will use both ends of the block.  *)
Alloca(n) ==
  /\ pc = "body"
  /\ fn.varSized
  /\ sp - n >= FrameBottom - MaxDyn
  /\ regs' = [regs EXCEPT !["sp"] = @ - n]
  /\ dyn' = dyn \cup {sp - n, sp - SlotSize}
  /\ UNCHANGED <<fn, pc, idx, mem, amt, args, saves, shadow, cfa>>

StoreDyn(a, v) ==
  /\ pc \in {"body", "call"}
  /\ a \in dyn
  /\ mem' = Store(mem, a, v)
  /\ shadow' = Store(shadow, a, v)
  /\ UNCHANGED <<fn, pc, idx, regs, amt, args, dyn, saves, cfa>>

(* lowerSTACKSAVE, lowerSTACKRESTORE: copies from and to sp.               *)
StackSave ==
  /\ pc = "body"
  /\ saves' = saves \cup {sp}
  /\ UNCHANGED <<fn, pc, idx, regs, mem, amt, args, dyn, shadow, cfa>>

StackRestore(s) ==
  /\ pc = "body"
  /\ s \in saves
  /\ regs' = [regs EXCEPT !["sp"] = s]
  /\ saves' = {t \in saves : t >= s}
  /\ dyn' = {a \in dyn : a >= s}
  /\ shadow' = KeepFrom(shadow, s)
  /\ UNCHANGED <<fn, pc, idx, mem, amt, args, cfa>>

--------------------------------------------------------------------------------
(* ADJCALLSTACKDOWN, as eliminateCallFramePseudoInstr replaces it.         *)
CallDown(a) ==
  /\ pc = "body"
  /\ a \in fn.callAmts
  /\ pc' = "call"
  /\ amt' = a
  /\ regs' = [regs EXCEPT !["sp"] = @ - CallAdjust(a)]
  /\ UNCHANGED <<fn, idx, mem, args, dyn, saves, shadow, cfa>>

(* LowerCall stores a stack argument at sp + its offset.                   *)
StoreArg(o, v) ==
  /\ pc = "call"
  /\ o \in {0, amt - SlotSize}
  /\ amt > 0
  /\ mem' = Store(mem, sp + o, v)
  /\ args' = Store(args, o, v)
  /\ UNCHANGED <<fn, pc, idx, regs, amt, dyn, saves, shadow, cfa>>

(* The call itself: CALL0 defines a0, and the callee owns its incoming     *)
(* arguments and all that lies below.                                      *)
Call(v) ==
  /\ pc = "call"
  /\ pc' = "called"
  /\ regs' = [regs EXCEPT !["a0"] = v]
  /\ mem' = Scribble(mem, sp + amt, v)
  /\ args' = EmptyMap
  /\ UNCHANGED <<fn, idx, amt, dyn, saves, shadow, cfa>>

(* ADJCALLSTACKUP.                                                         *)
CallUp ==
  /\ pc = "called"
  /\ pc' = "body"
  /\ regs' = [regs EXCEPT !["sp"] = @ + CallAdjust(amt)]
  /\ amt' = 0
  /\ UNCHANGED <<fn, idx, mem, args, dyn, saves, shadow, cfa>>

Body ==
  \/ \E r \in CSRegs, v \in Values : WriteReg(r, v)
  \/ \E o \in fn.probes, v \in Values : StoreLocal(o, v)
  \/ \E n \in AllocaSizes : Alloca(n)
  \/ \E a \in dyn, v \in Values : StoreDyn(a, v)
  \/ StackSave
  \/ \E s \in saves : StackRestore(s)
  \/ \E a \in fn.callAmts : CallDown(a)
  \/ \E o \in {0, amt - SlotSize}, v \in Values : StoreArg(o, v)
  \/ \E v \in Values : Call(v)
  \/ CallUp

--------------------------------------------------------------------------------
(* mov.n sp, a15, ahead of the reloads.  The program's data ends here.     *)
RestoreSP ==
  /\ pc = "body"
  /\ pc' = "restore"
  /\ idx' = NumCSI
  /\ regs' = IF hasFP(fn) THEN [regs EXCEPT !["sp"] = regs["a15"]] ELSE regs
  /\ dyn' = {}
  /\ saves' = {}
  /\ shadow' = EmptyMap
  /\ UNCHANGED <<fn, mem, amt, args, cfa>>

(* The inserter's reloads, in the reverse of the spills' order.            *)
RestoreCSR ==
  /\ pc = "restore"
  /\ idx >= 1
  /\ regs' = [regs EXCEPT ![fn.csi[idx]] = mem[SlotAddr(idx)]]
  /\ idx' = idx - 1
  /\ UNCHANGED <<fn, pc, mem, bodyVars, cfa>>

(* sp += StackSize, then ret.n.                                            *)
FreeFrame ==
  /\ pc = "restore"
  /\ idx = 0
  /\ pc' = "done"
  /\ regs' = IF StackSize(fn) = 0 THEN regs
             ELSE [regs EXCEPT !["sp"] = @ + StackSize(fn)]
  /\ UNCHANGED <<fn, idx, mem, bodyVars, cfa>>

Interrupt(v) ==
  /\ mem' = Scribble(mem, sp, v)
  /\ UNCHANGED <<fn, pc, idx, regs, bodyVars, cfa>>

Next ==
  \/ AllocFrame \/ SpillCSR \/ SetFP
  \/ Body
  \/ RestoreSP \/ RestoreCSR \/ FreeFrame
  \/ \E v \in Values : Interrupt(v)

Spec == Init /\ [][Next]_vars

--------------------------------------------------------------------------------
(* Type invariant.                                                         *)
TypeOK ==
  /\ fn \in Functions
  /\ pc \in {"alloc", "spill", "body", "call", "called", "restore", "done"}
  /\ idx \in 0 .. NumCSI + 1
  /\ regs \in [Regs -> Int]
  /\ IsMap(mem)
  /\ amt \in Nat
  /\ IsMap(args)
  /\ dyn \subseteq Int
  /\ saves \subseteq Int
  /\ IsMap(shadow)
  /\ cfa \in [reg : {"sp", "a15"}, off : Nat]

(* The frame register keeps its distance from the frame: every function    *)
(* but one with neither a frame pointer nor a reserved call frame.         *)
FrameRegStable == hasFP(fn) \/ hasReservedCallFrame(fn)

(* On return sp, the return address and every callee-saved register hold   *)
(* what the caller left in them, whatever the body, its callees and the    *)
(* interrupts did (emitPrologue, emitEpilogue, spillCalleeSavedRegisters,  *)
(* determineCalleeSaves).                                                  *)
CalleeSavedPreserved == pc = "done" => regs = EntryRegs

(* Every local object and every live alloca reads back the value last      *)
(* stored in it: eliminateFI reaches the object itself, and no spill slot, *)
(* outgoing argument, callee or interrupt overlaps it.                     *)
DataIntact ==
  pc \in {"body", "call", "called"} =>
    \A a \in DOMAIN shadow : a \in DOMAIN mem /\ mem[a] = shadow[a]

ProgramDataIntact == FrameRegStable => DataIntact

(* The stack arguments stored in a call sequence are in place when the     *)
(* call is made: the outgoing area eliminateCallFramePseudoInstr or the    *)
(* reserved call frame provides is shared with nothing else.               *)
OutgoingArgsIntact ==
  pc = "call" /\ FrameRegStable =>
    \A o \in DOMAIN args : sp + o \in DOMAIN mem /\ mem[sp + o] = args[o]

(* At a call the directives of the prologue lead an unwinder to the        *)
(* caller's stack pointer and to the saved registers' values.              *)
CFAValue == regs[cfa.reg] + cfa.off

UnwindCorrect ==
  pc \in {"call", "called"} /\ FrameRegStable =>
    /\ CFAValue = EntryRegs["sp"]
    /\ \A k \in 1 .. NumCSI :
         /\ CFAValue + CSROffset(fn, k) \in DOMAIN mem
         /\ mem[CFAValue + CSROffset(fn, k)] = EntryRegs[fn.csi[k]]

(* With a reserved call frame sp is 16-byte aligned at every call, as the  *)
(* constructor of XtensaFrameLowering declares.                            *)
SPAlignedAtCalls ==
  pc = "call" /\ hasReservedCallFrame(fn) => sp % StackAlignment = 0
================================================================================
