--------------------------- MODULE XtensaFrameLayout ---------------------------
(***************************************************************************)
(* The frame of one machine function: what XtensaFrameLowering decides     *)
(* before it emits an instruction (frame pointer, saved registers, whether *)
(* the outgoing-argument area is part of the frame), where the external    *)
(* prologue/epilogue inserter (PEI, LLVM 3.8) then puts each object, and   *)
(* how XtensaRegisterInfo rewrites a frame index into a register and an    *)
(* immediate.                                                              *)
(*                                                                         *)
(* A function f is a record:                                               *)
(*   disableFPElim   -fno-omit-frame-pointer                               *)
(*   varSized        has allocas of a variable size                        *)
(*   frameAddrTaken  uses llvm.frameaddress (lowerFRAMEADDR sets it)       *)
(*   adjustsStack    contains call-frame pseudos (calls, expanded allocas) *)
(*   hasCalls        contains a CALL0/CALLX0, which defines a0             *)
(*   callAmts        the NumBytes of its call sequences                    *)
(*   fixed           bytes of the varargs save area below the incoming sp  *)
(*   local           bytes of its local objects, one block                 *)
(*   probes          the offsets in that block the body accesses           *)
(*   incomingArgSize XtensaFunctionInfo::IncomingArgSize, which no code    *)
(*                   ever sets: any natural number                         *)
(*   modified        the callee-saved registers its body writes            *)
(*   csi             CalleeSavedInfo, the spilled registers in slot order  *)
(* Offsets are in bytes and relative to the incoming stack pointer.        *)
(***************************************************************************)
EXTENDS Integers, Sequences

(* CSR_Xtensa: the callee-saved registers; sp is callee-saved by contract. *)
CSRegs == {"a0", "a12", "a13", "a14", "a15"}
Regs   == CSRegs \cup {"sp"}

StackAlignment == 16
SlotSize       == 4

isInt12(x) == x \in -2048 .. 2047

RoundUp(x) == ((x + (StackAlignment - 1)) \div StackAlignment) * StackAlignment

hasFP(f) == f.disableFPElim \/ f.varSized \/ f.frameAddrTaken

getFrameRegister(f) == IF hasFP(f) THEN "a15" ELSE "sp"

(* getReservedRegs: what the register allocator never hands to the body.   *)
Reserved(f) == {"sp"} \cup (IF hasFP(f) THEN {"a15"} ELSE {})

(* MachineFrameInfo::getMaxCallFrameSize, as PEI computes it.              *)
MaxCallFrame(f) ==
  IF f.callAmts = {} THEN 0
  ELSE CHOOSE m \in f.callAmts : \A a \in f.callAmts : a <= m

(* Mutant: the reserved call frame of a function with allocas.             *)
hasReservedCallFrameAlways(f) == isInt12(MaxCallFrame(f) + StackAlignment)

hasReservedCallFrame(f) ==
  isInt12(MaxCallFrame(f) + StackAlignment) /\ ~f.varSized

OutgoingArea(f) ==
  IF f.adjustsStack /\ hasReservedCallFrame(f) THEN MaxCallFrame(f) ELSE 0

(* Mutant: the frame pointer's own register is not saved.                  *)
SavedRegsModified(f) == f.modified

(* determineCalleeSaves: the modified callee-saved registers, and a15 when *)
(* it is to hold the frame pointer.                                        *)
SavedRegs(f) == f.modified \cup (IF hasFP(f) THEN {"a15"} ELSE {})

AlignFrame(f, size) ==
  IF f.adjustsStack \/ f.varSized THEN RoundUp(size) ELSE size

(* A scavenging slot exists when the estimated frame is out of imm12's     *)
(* reach.  The estimate is made before the spill slots exist.              *)
estimateStackSize(f) == AlignFrame(f, f.fixed + f.local + OutgoingArea(f))

ScavSize(f) ==
  IF isInt12(f.incomingArgSize + estimateStackSize(f)) THEN 0 ELSE SlotSize

(***************************************************************************)
(* calculateFrameObjectOffsets: fixed objects, spill slots in csi order,   *)
(* then locals.  The scavenging slot goes first when there is a frame      *)
(* pointer (Xtensa keeps the defaults of isFPCloseToIncomingSP and         *)
(* useFPForScavengingIndex) and last otherwise.                            *)
(***************************************************************************)
CSRArea(f) == SlotSize * Len(f.csi)

StackSize(f) ==
  AlignFrame(f, f.fixed + CSRArea(f) + f.local + ScavSize(f) + OutgoingArea(f))

CSROffset(f, k) == -(f.fixed + SlotSize * k)

LocalOffset(f) ==
  -(f.fixed + CSRArea(f) + (IF hasFP(f) THEN ScavSize(f) ELSE 0) + f.local)

(***************************************************************************)
(* eliminateFI: the register a frame index is replaced by, and the final   *)
(* offset.  A spill slot is always addressed from sp.  An offset outside   *)
(* imm12 is first added to the register, which changes the instructions    *)
(* but not the address they reach.                                         *)
(***************************************************************************)
FrameBase(f, isCSR) == IF isCSR THEN "sp" ELSE getFrameRegister(f)

FinalOffset(f, objectOffset, imm) == objectOffset + StackSize(f) + imm

(***************************************************************************)
(* What PEI hands to this target: csi lists SavedRegs(f) once each, a call *)
(* defines a0, sizes are whole words.                                      *)
(***************************************************************************)
Words == {n \in Nat : n % SlotSize = 0}

FnOK(f) ==
  /\ f.disableFPElim \in BOOLEAN
  /\ f.varSized \in BOOLEAN
  /\ f.frameAddrTaken \in BOOLEAN
  /\ f.adjustsStack \in BOOLEAN
  /\ f.hasCalls \in BOOLEAN
  /\ f.callAmts \subseteq Words
  /\ \A a \in f.callAmts : a <= MaxCallFrame(f)
  /\ MaxCallFrame(f) \in Words
  /\ f.fixed \in Words
  /\ f.local \in Words
  /\ f.probes \subseteq {o \in Words : o < f.local}
  /\ f.incomingArgSize \in Nat
  /\ f.modified \subseteq CSRegs
  /\ f.csi \in Seq(CSRegs)
  /\ {f.csi[k] : k \in 1 .. Len(f.csi)} = SavedRegs(f)
  /\ \A j, k \in 1 .. Len(f.csi) : f.csi[j] = f.csi[k] => j = k
  /\ f.hasCalls => f.adjustsStack /\ "a0" \in f.modified
  /\ f.callAmts # {} => f.hasCalls
  /\ f.varSized => f.adjustsStack
================================================================================
