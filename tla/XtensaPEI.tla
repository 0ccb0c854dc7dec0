------------------------------- MODULE XtensaPEI -------------------------------
(***************************************************************************)
(* The frame code of a one-block function, as instructions: where each is  *)
(* inserted, and what the finished block does when it runs.                *)
(*                                                                         *)
(* The external prologue/epilogue inserter calls this target in a fixed    *)
(* order (phase): call-frame pseudos, spills, reloads, prologue, epilogue, *)
(* frame indices.  Every insertion point is a count of instructions from   *)
(* an end of the block.  Then the block runs, one instruction a step.      *)
(*                                                                         *)
(* An instruction: op; dst; src, the base register of an access; imm; fi,  *)
(* the frame object it names; part, what it is for; amt, the NumBytes of   *)
(* its call sequence.  The selected body is the field body of a function.  *)
(*                                                                         *)
(* The variable at is history: it says where in the protocol of            *)
(* XtensaFrame the run is, and FrameSpec that the run follows it.          *)
(***************************************************************************)
EXTENDS XtensaFrameLayout, SequencesExt

CONSTANTS
  Functions,    (* the functions, with their selected bodies               *)
  EntryRegs,    (* the caller's register values                            *)
  Values,       (* the values a body, a callee or an interrupt may write   *)
  AllocaSizes,  (* the sizes of the bodies' allocas                        *)
  MaxDyn        (* bound: bytes of allocas alive at once                   *)

ASSUME PEIFunctionsAssumption == \A f \in Functions : FnOK(f)

VARIABLES
  fn,      (* the function                                                 *)
  phase,   (* what the inserter does next; "run" once the code is final    *)
  code,    (* the block                                                    *)
  ip,      (* the next instruction to run                                  *)
  tmp,     (* the virtual register that materialises a large immediate     *)
  regs, mem, cfa,  (* sp and the saved registers; memory; the CFA rule     *)
  at       (* the protocol's stage and bookkeeping                         *)

machine == <<ip, tmp, regs, mem, cfa>>
vars    == <<fn, phase, code, machine, at>>

F == INSTANCE XtensaFrame
       WITH pc <- at.stage, idx <- at.idx, amt <- at.amt, args <- at.args,
            dyn <- at.dyn, saves <- {}, shadow <- at.shadow

NumCSI == Len(fn.csi)

--------------------------------------------------------------------------------
(***************************************************************************)
(* Instructions.                                                           *)
(***************************************************************************)
NoFI == <<"none", 0>>

Ins(op, dst, src, imm, part) ==
  [op |-> op, dst |-> dst, src |-> src, imm |-> imm, fi |-> NoFI,
   part |-> part, amt |-> 0]

(* storeRegToStackSlot, loadRegFromStackSlot: the frame index, 0 or more,  *)
(* is what getLoadStoreOpcodes takes for the offset; the first 61 get the  *)
(* narrow form.                                                            *)
FrameIdx(f, k) ==
  (IF f.local = 0 THEN 0 ELSE 1) + (IF ScavSize(f) = 0 THEN 0 ELSE 1) + k - 1

getLoadStoreOpcode(wide, narrow, offset) ==
  IF offset \in 0 .. 60 THEN narrow ELSE wide

(* The immediate, zero, and the index of slot k.                           *)
addFrameReference(i, k) == [i EXCEPT !.imm = 0, !.src = "FI", !.fi = <<"csr", k>>]

SlotAccess(f, wide, narrow, k, part) ==
  addFrameReference(
    Ins(getLoadStoreOpcode(wide, narrow, FrameIdx(f, k)), f.csi[k], "none", 0, part), k)

(* loadImmediate into the temporary, then add.                             *)
AddLarge(dst, src, imm, part) ==
  <<Ins("LI", "tmp", "none", imm, part), Ins("ADD", dst, src, 0, part)>>

adjustStackPtr(amount, part) ==
  IF amount \in 2 .. 15 THEN <<Ins("ADDI_N", "sp", "sp", amount, part)>>
  ELSE IF amount \in -128 .. 127 THEN <<Ins("ADDI", "sp", "sp", amount, part)>>
  ELSE AddLarge("sp", "sp", amount, part)

isTerminator(i) == i.op \in {"CALL0", "RET_N"}

(* Mutant: the closing pseudo of a call sequence is forgotten.             *)
isCallPseudoDown(i) == i.op = "ADJCALLSTACKDOWN"

isCallPseudo(i) == i.op \in {"ADJCALLSTACKDOWN", "ADJCALLSTACKUP"}

eliminateCallFramePseudoInstr(f, i) ==
  IF hasReservedCallFrame(f) THEN <<>>
  ELSE LET Amount == IF i.op = "ADJCALLSTACKDOWN" THEN -i.imm ELSE i.imm
       IN  [j \in DOMAIN adjustStackPtr(Amount, i.part) |->
              [adjustStackPtr(Amount, i.part)[j] EXCEPT !.amt = i.imm]]

(* Mutant: an offset out of reach loses the displacement into the object.  *)
eliminateFIDropsImm(f, i) ==
  LET isCSR  == i.fi[1] = "csr"
      object == IF isCSR THEN CSROffset(f, i.fi[2]) ELSE LocalOffset(f)
      Offset == FinalOffset(f, object, i.imm)
      FrameReg == FrameBase(f, isCSR)
  IN  IF isInt12(Offset) THEN <<[i EXCEPT !.src = FrameReg, !.imm = Offset]>>
      ELSE AddLarge("tmp", FrameReg, Offset - i.imm, i.part)
             \o <<[i EXCEPT !.src = "tmp", !.imm = 0]>>

eliminateFI(f, i) ==
  LET isCSR  == i.fi[1] = "csr"
      object == IF isCSR THEN CSROffset(f, i.fi[2]) ELSE LocalOffset(f)
      Offset == FinalOffset(f, object, i.imm)
      FrameReg == FrameBase(f, isCSR)
  IN  IF isInt12(Offset) THEN <<[i EXCEPT !.src = FrameReg, !.imm = Offset]>>
      ELSE AddLarge("tmp", FrameReg, Offset, i.part)
             \o <<[i EXCEPT !.src = "tmp", !.imm = 0]>>

(* Every instruction i of s replaced by the sequence New(i).               *)
Rewrite(s, New(_)) == FlattenSeq([j \in DOMAIN s |-> New(s[j])])

InsertBefore(s, p, new) == SubSeq(s, 1, p - 1) \o new \o SubSeq(s, p, Len(s))

--------------------------------------------------------------------------------
(***************************************************************************)
(* The inserter.                                                           *)
(***************************************************************************)
Init ==
  /\ fn \in Functions
  /\ phase = "calls"
  /\ code = fn.body
  /\ ip = 1 /\ tmp = 0
  /\ regs = EntryRegs
  /\ mem = F!EmptyMap
  /\ cfa = [reg |-> "sp", off |-> F!CFAOffsetFromInitialSP]
  /\ at = [stage |-> "alloc", idx |-> 1, amt |-> 0, args |-> F!EmptyMap,
            dyn |-> {}, shadow |-> F!EmptyMap]

(* calculateCallsInformation: the pseudos go early when sp-relative        *)
(* addresses do not depend on them.                                        *)
SimplifyCallFrame ==
  /\ phase = "calls"
  /\ phase' = "spills"
  /\ code' = IF hasReservedCallFrame(fn) \/ hasFP(fn)
             THEN Rewrite(code, LAMBDA i :
                    IF isCallPseudo(i) THEN eliminateCallFramePseudoInstr(fn, i)
                    ELSE <<i>>)
             ELSE code
  /\ UNCHANGED <<fn, machine, at>>

(* At the start of the entry block.                                        *)
spillCalleeSavedRegisters ==
  /\ phase = "spills"
  /\ phase' = "reloads"
  /\ code' = [k \in 1 .. NumCSI |-> SlotAccess(fn, "S32I", "S32I_N", k, "spill")]
             \o code
  /\ UNCHANGED <<fn, machine, at>>

(* Ahead of the terminators that end the block, in reverse order.          *)
insertRestores ==
  /\ phase = "reloads"
  /\ phase' = "prologue"
  /\ LET isTail(q) == \A j \in q .. Len(code) : isTerminator(code[j])
         p == CHOOSE q \in 1 .. Len(code) + 1 :
                isTail(q) /\ \A r \in 1 .. q - 1 : ~isTail(r)
         reload(k) == SlotAccess(fn, "L32I", "L32I_N", NumCSI + 1 - k, "reload")
     IN  code' = InsertBefore(code, p, [k \in 1 .. NumCSI |-> reload(k)])
  /\ UNCHANGED <<fn, machine, at>>

(* The adjustment goes first, the directives and the frame pointer past as *)
(* many instructions as there are saved registers.                         *)
emitPrologue ==
  /\ phase = "prologue"
  /\ phase' = "epilogue"
  /\ IF F!PrologueEmitted
     THEN code' =
            adjustStackPtr(-StackSize(fn), "alloc")
            \o <<Ins("cfi_def_cfa_offset", "none", "none",
                     F!DefCfaOffset(F!CFAOperand), "cfi")>>
            \o SubSeq(code, 1, NumCSI)
            \o [k \in 1 .. NumCSI |->
                  Ins("cfi_offset", fn.csi[k], "none", CSROffset(fn, k), "cfi")]
            \o (IF hasFP(fn)
                THEN <<Ins("MOV_N", "a15", "sp", 0, "setfp"),
                       Ins("cfi_def_cfa_register", "a15", "none", 0, "cfi")>>
                ELSE <<>>)
            \o SubSeq(code, NumCSI + 1, Len(code))
     ELSE UNCHANGED code
  /\ UNCHANGED <<fn, machine, at>>

(* Mutant: the walk back from the return stops one reload short.           *)
RestoreSPAfterFirst(f, last) == last - Len(f.csi) + 1

(* Where emitEpilogue puts mov sp, a15: as many instructions ahead of the  *)
(* last one as there are saved registers.                                  *)
RestoreSPAt(f, last) == last - Len(f.csi)

emitEpilogue ==
  /\ phase = "epilogue"
  /\ phase' = "frameindices"
  /\ LET MBBI == Len(code)
         restoreSP == IF hasFP(fn)
                      THEN <<Ins("MOV_N", "sp", "a15", 0, "restoresp")>>
                      ELSE <<>>
         freeFrame == IF StackSize(fn) = 0 THEN <<>>
                      ELSE adjustStackPtr(StackSize(fn), "free")
     IN  code' = InsertBefore(InsertBefore(code, MBBI, freeFrame),
                              RestoreSPAt(fn, MBBI), restoreSP)
  /\ UNCHANGED <<fn, machine, at>>

(* replaceFrameIndices: what is left of the pseudos and of the indices.    *)
replaceFrameIndices ==
  /\ phase = "frameindices"
  /\ phase' = "run"
  /\ code' = Rewrite(code, LAMBDA i :
               IF isCallPseudo(i) THEN eliminateCallFramePseudoInstr(fn, i)
               ELSE IF i.fi # NoFI THEN eliminateFI(fn, i)
               ELSE <<i>>)
  /\ UNCHANGED <<fn, machine, at>>

--------------------------------------------------------------------------------
(***************************************************************************)
(* The run.  A directive takes no space: it applies with the instruction   *)
(* it follows.                                                             *)
(***************************************************************************)
i0     == code[ip]
Val(r) == IF r = "tmp" THEN tmp ELSE regs[r]
Addr   == Val(i0.src) + i0.imm

isDirective(i) == i.part = "cfi"

ApplyCFI(rule, i) ==
  CASE i.op = "cfi_def_cfa_offset"   -> [rule EXCEPT !.off = i.imm]
    [] i.op = "cfi_def_cfa_register" -> [rule EXCEPT !.reg = i.dst]
    [] OTHER                         -> rule

Advance ==
  LET q == CHOOSE p \in ip + 1 .. Len(code) + 1 :
             /\ \A j \in ip + 1 .. p - 1 : isDirective(code[j])
             /\ p <= Len(code) => ~isDirective(code[p])
  IN  /\ ip' = q
      /\ cfa' = FoldLeft(ApplyCFI, cfa, SubSeq(code, ip + 1, q - 1))

Set(r, v) ==
  IF r = "tmp" THEN tmp' = v /\ UNCHANGED regs
               ELSE regs' = [regs EXCEPT ![r] = v] /\ UNCHANGED tmp

(* What one instruction does to registers and memory.  v is the value of a *)
(* register the model does not follow, of memory nothing was stored in, or *)
(* a callee's doing.                                                       *)
Execute(v) ==
  LET op == i0.op IN
  \/ /\ op \in {"ADDI", "ADDI_N"}
     /\ Set(i0.dst, Val(i0.src) + i0.imm) /\ UNCHANGED mem
  \/ /\ op = "ADD"
     /\ Set(i0.dst, Val(i0.src) + tmp) /\ UNCHANGED mem
  \/ /\ op = "LI"
     /\ Set(i0.dst, i0.imm) /\ UNCHANGED mem
  \/ /\ op = "MOV_N"
     /\ Set(i0.dst, Val(i0.src)) /\ UNCHANGED mem
  \/ /\ op = "DEF"
     /\ Set(i0.dst, v) /\ UNCHANGED mem
  \/ /\ op \in {"S32I", "S32I_N"}
     /\ mem' = F!Store(mem, Addr, IF i0.dst \in Regs THEN regs[i0.dst] ELSE v)
     /\ UNCHANGED <<regs, tmp>>
  \/ /\ op \in {"L32I", "L32I_N"}
     /\ Set(i0.dst, IF Addr \in DOMAIN mem THEN mem[Addr] ELSE v)
     /\ UNCHANGED mem
  \/ /\ op = "CALL0"
     /\ Set("a0", v) /\ mem' = F!Scribble(mem, regs["sp"] + i0.amt, v)
  \/ /\ op \in {"COPY", "RET_N"}
     /\ UNCHANGED <<regs, tmp, mem>>

Leave(h) ==
  [h EXCEPT !.stage = "restore", !.idx = NumCSI, !.dyn = {}, !.shadow = F!EmptyMap]

(* The protocol once instruction i has run.  The two that materialise a    *)
(* large immediate are internal to it.                                     *)
After(h, i, v) ==
  IF i.op = "LI" \/ i.dst = "tmp" THEN h ELSE
  CASE i.part = "alloc"     -> [h EXCEPT !.stage = "spill"]
    [] i.part = "spill"     -> [h EXCEPT !.idx = @ + 1]
    [] i.part = "setfp"     -> [h EXCEPT !.stage = "body"]
    [] i.part = "local"     -> [h EXCEPT !.shadow = F!Store(@, F!LocalAt(i.fi[2]), v)]
    [] i.part = "dyn"       -> [h EXCEPT !.shadow = F!Store(@, Addr, v)]
    [] i.part = "alloca"    -> [h EXCEPT !.dyn = @ \cup {Addr, regs["sp"] - SlotSize}]
    [] i.part = "down"      -> [h EXCEPT !.stage = "call", !.amt = i.amt]
    [] i.part = "arg"       -> [h EXCEPT !.args = F!Store(@, i.imm, v)]
    [] i.part = "call"      -> [h EXCEPT !.stage = "called", !.args = F!EmptyMap]
    [] i.part = "up"        -> [h EXCEPT !.stage = "body", !.amt = 0]
    [] i.part = "restoresp" -> Leave(h)
    [] i.part = "reload"    -> [h EXCEPT !.idx = @ - 1]
    [] i.part = "free"      -> [h EXCEPT !.stage = "done"]
    [] i.part = "ret"       -> [h EXCEPT !.stage = "done"]
    [] OTHER                -> h

(* A stage the block has no instruction for is entered on its own: an      *)
(* empty prologue, a body without a frame pointer, a call sequence whose   *)
(* pseudos are gone, an epilogue without mov sp, a15.                      *)
Enter(h, i) ==
  CASE h.stage = "alloc" /\ i.part # "alloc" -> [h EXCEPT !.stage = "spill"]
    [] h.stage = "spill" /\ i.part \notin {"spill", "setfp"} ->
         [h EXCEPT !.stage = "body"]
    [] h.stage = "body" /\ i.part \in {"arg", "call"} ->
         [h EXCEPT !.stage = "call", !.amt = i.amt]
    [] h.stage = "called" /\ i.part # "up" ->
         [h EXCEPT !.stage = "body", !.amt = 0]
    [] h.stage = "body" /\ i.part \in {"reload", "free", "ret"} -> Leave(h)
    [] OTHER -> h

EnterStage ==
  /\ phase = "run" /\ ip <= Len(code)
  /\ Enter(at, i0) # at
  /\ at' = Enter(at, i0)
  /\ UNCHANGED <<fn, phase, code, machine>>

Run(v) ==
  /\ phase = "run" /\ ip <= Len(code)
  /\ Enter(at, i0) = at
  /\ Execute(v)
  /\ Advance
  /\ at' = After(at, i0, v)
  /\ UNCHANGED <<fn, phase, code>>

Interrupt(v) ==
  /\ phase = "run"
  /\ mem' = F!Scribble(mem, regs["sp"], v)
  /\ UNCHANGED <<fn, phase, code, ip, tmp, regs, cfa, at>>

Next ==
  \/ SimplifyCallFrame \/ spillCalleeSavedRegisters \/ insertRestores
  \/ emitPrologue \/ emitEpilogue \/ replaceFrameIndices
  \/ EnterStage
  \/ \E v \in Values : Run(v) \/ Interrupt(v)

Spec == Init /\ [][Next]_vars

--------------------------------------------------------------------------------
(* Type invariant.                                                         *)
TypeOK ==
  /\ fn \in Functions
  /\ phase \in {"calls", "spills", "reloads", "prologue", "epilogue",
                "frameindices", "run"}
  /\ ip \in 1 .. Len(code) + 1
  /\ tmp \in Int
  /\ regs \in [Regs -> Int]
  /\ F!IsMap(mem)
  /\ phase = "run" =>
       \A j \in DOMAIN code :
         /\ code[j].src # "FI"
         /\ code[j].op \notin {"ADJCALLSTACKDOWN", "ADJCALLSTACKUP"}

(* The block the inserter builds follows the protocol of XtensaFrame: every*)
(* instruction is the step the protocol takes next, and the registers, the *)
(* memory and the unwind rule are the protocol's.                          *)
FrameSpec == F!Spec

(* What runs returns with the caller's sp, return address and callee-saved *)
(* registers.                                                              *)
ReturnsToCaller == ip > Len(code) => regs = EntryRegs
================================================================================
