-------------------------- MODULE XtensaFrame_proofs ---------------------------
(***************************************************************************)
(* The safety properties of XtensaFrame, for every set of functions, every *)
(* entry state and every value the body, the callees and the interrupts    *)
(* may write.  XFInv is the inductive invariant.                           *)
(***************************************************************************)
EXTENDS XtensaFrame, TLAPS

--------------------------------------------------------------------------------
(***************************************************************************)
(* Arithmetic of the layout.                                               *)
(***************************************************************************)

(* Rounding a frame up never shrinks it and yields a multiple of 16.       *)
LEMMA RoundUpFacts ==
  ASSUME NEW x \in Nat
  PROVE  /\ RoundUp(x) \in Nat
         /\ RoundUp(x) >= x
         /\ RoundUp(x) % StackAlignment = 0
<1> DEFINE q == (x + 15) \div 16
<1>1. q \in Nat /\ q * 16 >= x
  BY Z3
<1>2. (q * 16) % 16 = 0
  BY <1>1, Z3
<1>3. RoundUp(x) = q * 16
  BY DEF RoundUp, StackAlignment
<1> QED
  BY <1>1, <1>2, <1>3 DEF StackAlignment

LEMMA SumOfFive ==
  ASSUME NEW a \in Nat, NEW b \in Nat, NEW c \in Nat, NEW d \in Nat,
         NEW e \in Nat
  PROVE  a + b + c + d + e \in Nat
OBVIOUS

LEMMA ModDifference ==
  ASSUME NEW x \in Int, NEW y \in Int, x % 16 = 0, y % 16 = 0
  PROVE  (x - y) % 16 = 0
BY Z3

(* What the proofs use of a layout: the frame holds its five areas, it is  *)
(* empty only when nothing is saved, a frame pointer implies a saved       *)
(* register, and the reserved area holds every call's arguments.           *)
LayoutOK(f) ==
  /\ Len(f.csi) \in Nat
  /\ ScavSize(f) \in Nat
  /\ OutgoingArea(f) \in Nat
  /\ f.fixed \in Nat
  /\ f.local \in Nat
  /\ StackSize(f) \in Nat
  /\ StackSize(f) >=
       f.fixed + 4 * Len(f.csi) + f.local + ScavSize(f) + OutgoingArea(f)
  /\ hasFP(f) => StackSize(f) # 0
  /\ f.adjustsStack => StackSize(f) % StackAlignment = 0
  /\ \A a \in f.callAmts :
       a \in Nat /\ (hasReservedCallFrame(f) => a <= OutgoingArea(f))

(* The locals lie below the spill slots and above the outgoing area.       *)
LocalsOK(f) ==
  /\ LocalOffset(f) \in Int
  /\ LocalOffset(f) + f.local <= 0 - (f.fixed + 4 * Len(f.csi))
  /\ OutgoingArea(f) - StackSize(f) <= LocalOffset(f)

LEMMA LayoutFacts ==
  ASSUME NEW f, FnOK(f)
  PROVE  LayoutOK(f)
<1> USE FnOK(f)
<1>1. Len(f.csi) \in Nat /\ f.fixed \in Nat /\ f.local \in Nat
  BY DEF FnOK, Words
<1>2. ScavSize(f) \in Nat
  BY DEF ScavSize, SlotSize
<1>3. MaxCallFrame(f) \in Nat /\ OutgoingArea(f) \in Nat
  BY DEF FnOK, Words, OutgoingArea
<1> DEFINE raw == f.fixed + CSRArea(f) + f.local + ScavSize(f) + OutgoingArea(f)
<1>4. raw \in Nat /\ CSRArea(f) = 4 * Len(f.csi)
  <2>1. CSRArea(f) = 4 * Len(f.csi)
    BY DEF CSRArea, SlotSize
  <2>2. CSRArea(f) \in Nat
    BY <1>1, <2>1
  <2>3. f.local \in Nat
    BY DEF FnOK, Words
  <2>4. raw \in Nat
    BY <1>1, <1>2, <1>3, <2>2, <2>3, SumOfFive
  <2> QED
    BY <2>1, <2>4
<1>5. StackSize(f) = AlignFrame(f, raw)
  BY DEF StackSize
<1> HIDE DEF raw
<1>6. /\ AlignFrame(f, raw) \in Nat
      /\ AlignFrame(f, raw) >= raw
      /\ f.adjustsStack => AlignFrame(f, raw) % StackAlignment = 0
  BY <1>4, RoundUpFacts DEF AlignFrame
<1>7. StackSize(f) >=
        f.fixed + 4 * Len(f.csi) + f.local + ScavSize(f) + OutgoingArea(f)
  BY <1>1, <1>2, <1>3, <1>4, <1>5, <1>6 DEF raw
<1>8. hasFP(f) => StackSize(f) # 0
  <2> SUFFICES ASSUME hasFP(f)
               PROVE  StackSize(f) # 0
    OBVIOUS
  <2>0. "a15" \in {f.csi[k] : k \in 1 .. Len(f.csi)}
    BY DEF FnOK, SavedRegs
  <2>1. PICK k \in 1 .. Len(f.csi) : f.csi[k] = "a15"
    BY <2>0
  <2>2. Len(f.csi) >= 1
    BY <1>1, <2>1
  <2> QED
    BY <1>1, <1>2, <1>3, <1>5, <1>6, <1>7, <2>2
<1>9. ASSUME NEW a \in f.callAmts
      PROVE  a \in Nat /\ (hasReservedCallFrame(f) => a <= OutgoingArea(f))
  BY DEF FnOK, Words, OutgoingArea
<1> QED
  BY <1>1, <1>2, <1>3, <1>5, <1>6, <1>7, <1>8, <1>9 DEF LayoutOK

LEMMA LocalsFacts ==
  ASSUME NEW f, LayoutOK(f)
  PROVE  LocalsOK(f)
<1>1. /\ Len(f.csi) \in Nat /\ ScavSize(f) \in Nat /\ OutgoingArea(f) \in Nat
      /\ f.fixed \in Nat /\ f.local \in Nat /\ StackSize(f) \in Nat
      /\ StackSize(f) >=
           f.fixed + 4 * Len(f.csi) + f.local + ScavSize(f) + OutgoingArea(f)
  BY DEF LayoutOK
<1>2. CSRArea(f) = 4 * Len(f.csi)
  BY DEF CSRArea, SlotSize
<1>3. CASE hasFP(f)
  <2>1. LocalOffset(f)
          = -(f.fixed + 4 * Len(f.csi) + ScavSize(f) + f.local)
    BY <1>2, <1>3 DEF LocalOffset
  <2> QED BY <1>1, <2>1 DEF LocalsOK
<1>4. CASE ~hasFP(f)
  <2>1. LocalOffset(f) = -(f.fixed + 4 * Len(f.csi) + 0 + f.local)
    BY <1>2, <1>4 DEF LocalOffset
  <2> QED BY <1>1, <2>1 DEF LocalsOK
<1> QED BY <1>3, <1>4

--------------------------------------------------------------------------------
(***************************************************************************)
(* The inductive invariant.                                                *)
(***************************************************************************)
InBody == pc \in {"body", "call", "called"}

(* Slot k holds the caller's value of the register it was assigned to.     *)
Saved(k) == SlotAt(k) \in DOMAIN mem /\ mem[SlotAt(k)] = EntryRegs[fn.csi[k]]

StagePart ==
  /\ pc = "alloc" => idx = 1 /\ regs = EntryRegs
  /\ pc = "spill" =>
       /\ idx \in 1 .. NumCSI + 1
       /\ regs = [EntryRegs EXCEPT !["sp"] = FrameBottom]
       /\ \A k \in 1 .. idx - 1 : Saved(k)
  /\ InBody =>
       /\ \A k \in 1 .. NumCSI : Saved(k)
       /\ \A r \in CSRegs \ SavedRegs(fn) : regs[r] = EntryRegs[r]
       /\ hasFP(fn) => regs["a15"] = FrameBottom
       /\ sp + CallAdjust(amt) <= FrameBottom
       /\ ~fn.varSized => sp + CallAdjust(amt) = FrameBottom
  /\ pc = "restore" =>
       /\ idx \in 0 .. NumCSI
       /\ sp = FrameBottom
       /\ \A k \in 1 .. idx : Saved(k)
       /\ \A r \in CSRegs \ {fn.csi[k] : k \in 1 .. idx} :
            regs[r] = EntryRegs[r]
  /\ pc = "done" => regs = EntryRegs

CallPart ==
  /\ pc \in {"call", "called"} => amt \in fn.callAmts
  /\ pc \notin {"call", "called"} => amt = 0
  /\ pc # "call" => args = EmptyMap

(* Live allocas and valid stacksave values lie between sp and the frame.   *)
DynPart ==
  /\ ~InBody => dyn = {} /\ saves = {} /\ shadow = EmptyMap
  /\ \A a \in dyn : sp + CallAdjust(amt) <= a /\ a < FrameBottom
  /\ \A s \in saves :
       /\ sp + CallAdjust(amt) <= s /\ s <= FrameBottom
       /\ ~fn.varSized => s = FrameBottom

DataPart ==
  InBody =>
    /\ \A a \in DOMAIN shadow :
         a \in dyn \/ (LocalAt(0) <= a /\ a < LocalAt(0) + fn.local)
    /\ FrameRegStable => DataIntact
    /\ FrameRegStable =>
         \A o \in DOMAIN args :
           /\ 0 <= o /\ o < amt
           /\ sp + o \in DOMAIN mem /\ mem[sp + o] = args[o]

CFAPart ==
  /\ pc = "alloc" => cfa.reg = "sp"
  /\ pc = "spill" /\ PrologueEmitted =>
       cfa = [reg |-> "sp", off |-> StackSize(fn)]
  /\ InBody /\ PrologueEmitted =>
       cfa = [reg |-> getFrameRegister(fn), off |-> StackSize(fn)]

XFInv ==
  /\ TypeOK
  /\ StagePart
  /\ CallPart
  /\ DynPart
  /\ DataPart
  /\ CFAPart

--------------------------------------------------------------------------------
(***************************************************************************)
(* Geometry: where the areas of the frame lie, and which addresses the     *)
(* accesses of a body reach.                                               *)
(***************************************************************************)

(* From the frame's bottom upwards: the outgoing area, the locals, the     *)
(* spill slots; with sp at the bottom a spill slot is reached exactly.     *)
LEMMA Areas ==
  ASSUME TypeOK
  PROVE  /\ LayoutOK(fn)
         /\ NumCSI \in Nat /\ StackSize(fn) \in Nat
         /\ EntryRegs["sp"] \in Int /\ FrameBottom \in Int
         /\ FrameBottom + StackSize(fn) = EntryRegs["sp"]
         /\ LocalAt(0) \in Int
         /\ FrameBottom + OutgoingArea(fn) <= LocalAt(0)
         /\ \A k \in 1 .. NumCSI :
              /\ SlotAt(k) \in Int
              /\ LocalAt(0) + fn.local <= SlotAt(k)
              /\ FrameBottom <= SlotAt(k)
              /\ fn.csi[k] \in CSRegs
              /\ sp = FrameBottom => SlotAddr(k) = SlotAt(k)
         /\ \A j, k \in 1 .. NumCSI : SlotAt(j) = SlotAt(k) => j = k
<1>1. FnOK(fn) /\ LayoutOK(fn) /\ LocalsOK(fn)
  BY FunctionsAssumption, LayoutFacts, LocalsFacts DEF TypeOK
<1>2. EntryRegs["sp"] \in Int
  BY EntryAssumption DEF Regs
<1>a. /\ NumCSI \in Nat /\ fn.fixed \in Nat /\ fn.local \in Nat
      /\ OutgoingArea(fn) \in Nat /\ ScavSize(fn) \in Nat
      /\ StackSize(fn) \in Nat
      /\ StackSize(fn) >= fn.fixed + 4 * NumCSI + fn.local
                            + ScavSize(fn) + OutgoingArea(fn)
  BY <1>1 DEF LayoutOK, NumCSI
<1>b. FrameBottom = EntryRegs["sp"] - StackSize(fn)
  BY DEF FrameBottom
<1>c. LocalAt(0) = EntryRegs["sp"] + LocalOffset(fn) + 0
  BY DEF LocalAt
<1>d. /\ LocalOffset(fn) \in Int
      /\ LocalOffset(fn) + fn.local <= 0 - (fn.fixed + 4 * NumCSI)
      /\ OutgoingArea(fn) - StackSize(fn) <= LocalOffset(fn)
  BY <1>1 DEF LocalsOK, NumCSI
<1>3. /\ LocalAt(0) \in Int
      /\ FrameBottom \in Int
      /\ FrameBottom + StackSize(fn) = EntryRegs["sp"]
      /\ FrameBottom + OutgoingArea(fn) <= LocalAt(0)
      /\ LocalAt(0) + fn.local
           <= EntryRegs["sp"] - (fn.fixed + 4 * NumCSI)
  BY <1>2, <1>a, <1>b, <1>c, <1>d
<1>4. ASSUME NEW k \in 1 .. NumCSI
      PROVE  /\ SlotAt(k) = EntryRegs["sp"] - (fn.fixed + 4 * k)
             /\ SlotAt(k) \in Int
             /\ LocalAt(0) + fn.local <= SlotAt(k)
             /\ FrameBottom <= SlotAt(k)
             /\ sp = FrameBottom => SlotAddr(k) = SlotAt(k)
  <2>1. k \in Nat /\ k <= NumCSI
    BY <1>a
  <2> DEFINE co == CSROffset(fn, k)
  <2>2. co = -(fn.fixed + 4 * k)
    BY DEF CSROffset, SlotSize
  <2>3. SlotAt(k) = EntryRegs["sp"] + co
    BY DEF SlotAt
  <2>4. SlotAddr(k) = sp + (co + StackSize(fn) + 0)
    BY DEF SlotAddr, FrameBase, FinalOffset, sp
  <2> HIDE DEF co
  <2>5. co \in Int /\ co = 0 - (fn.fixed + 4 * k)
    BY <1>a, <2>1, <2>2
  <2>6. SlotAt(k) = EntryRegs["sp"] - (fn.fixed + 4 * k) /\ SlotAt(k) \in Int
    BY <1>2, <1>a, <2>1, <2>3, <2>5
  <2>7. LocalAt(0) + fn.local <= SlotAt(k)
    BY <1>2, <1>3, <1>a, <2>1, <2>6
  <2>8. FrameBottom <= SlotAt(k)
    BY <1>2, <1>3, <1>a, <2>1, <2>6
  <2>9. sp = FrameBottom => SlotAddr(k) = SlotAt(k)
    BY <1>2, <1>3, <1>a, <2>3, <2>4, <2>5
  <2> QED BY <2>6, <2>7, <2>8, <2>9
<1>5. ASSUME NEW k \in 1 .. NumCSI
      PROVE  fn.csi[k] \in CSRegs
  BY <1>1 DEF FnOK, NumCSI
<1>6. ASSUME NEW j \in 1 .. NumCSI, NEW k \in 1 .. NumCSI,
             SlotAt(j) = SlotAt(k)
      PROVE  j = k
  <2>1. /\ SlotAt(j) = EntryRegs["sp"] - (fn.fixed + 4 * j)
        /\ SlotAt(k) = EntryRegs["sp"] - (fn.fixed + 4 * k)
    BY <1>4
  <2>2. j \in Nat /\ k \in Nat
    BY <1>a
  <2>3. EntryRegs["sp"] - (fn.fixed + 4 * j)
          = EntryRegs["sp"] - (fn.fixed + 4 * k)
    BY <1>6, <2>1
  <2>4. fn.fixed \in Nat
    BY <1>a
  <2> QED BY <1>2, <2>2, <2>3, <2>4
<1>7. NumCSI \in Nat /\ StackSize(fn) \in Nat
  BY <1>a
<1> QED
  BY <1>1, <1>2, <1>3, <1>4, <1>5, <1>6, <1>7

(* In the body: sp, and in a call sequence the whole argument area, stay   *)
(* below the locals; a local is reached exactly when the frame register is *)
(* stable, and never lands in a spill slot.                                *)
LEMMA Reach ==
  ASSUME XFInv, InBody
  PROVE  /\ sp \in Int /\ amt \in Nat /\ CallAdjust(amt) \in Nat
         /\ sp <= FrameBottom
         /\ sp + amt <= LocalAt(0)
         /\ \A a \in dyn : sp + amt <= a /\ a < FrameBottom
         /\ \A o \in fn.probes :
              /\ o \in Nat /\ o < fn.local
              /\ LocalAt(o) = LocalAt(0) + o
              /\ LocalAddr(o) \in Int
              /\ LocalAddr(o) <= LocalAt(o)
              /\ FrameRegStable => LocalAddr(o) = LocalAt(o)
<1> USE Areas DEF XFInv
<1>0. TypeOK /\ FnOK(fn)
  BY FunctionsAssumption DEF TypeOK
<1>1. sp \in Int /\ amt \in Nat /\ CallAdjust(amt) \in Nat
  BY DEF TypeOK, Regs, sp, CallAdjust
<1>2. sp <= FrameBottom
  BY <1>1 DEF StagePart
<1>3. amt # 0 => amt \in fn.callAmts
  BY DEF CallPart
<1>4. hasReservedCallFrame(fn) => ~fn.varSized /\ amt <= OutgoingArea(fn)
  BY <1>1, <1>3 DEF LayoutOK, hasReservedCallFrame
<1>5. sp + amt <= LocalAt(0)
  <2>1. CASE hasReservedCallFrame(fn)
    BY <1>1, <1>2, <1>4, <2>1 DEF LayoutOK
  <2>2. CASE ~hasReservedCallFrame(fn)
    BY <1>1, <2>2 DEF LayoutOK, StagePart, CallAdjust
  <2> QED BY <2>1, <2>2
<1>6. ASSUME NEW a \in dyn
      PROVE  sp + amt <= a /\ a < FrameBottom
  <2>1. sp + CallAdjust(amt) <= a /\ a < FrameBottom /\ a \in Int
    BY DEF DynPart, TypeOK
  <2>2. ~hasReservedCallFrame(fn)
    BY <1>1, <1>4, <2>1 DEF StagePart
  <2> QED BY <2>1, <2>2 DEF CallAdjust
<1>7. ASSUME NEW o \in fn.probes
      PROVE  /\ o \in Nat /\ o < fn.local
             /\ LocalAt(o) = LocalAt(0) + o
             /\ LocalAddr(o) \in Int
             /\ LocalAddr(o) <= LocalAt(o)
             /\ FrameRegStable => LocalAddr(o) = LocalAt(o)
  <2>1. o \in Nat /\ o < fn.local
    BY <1>0 DEF FnOK, Words
  <2>2. LocalOffset(fn) \in Int
    BY LocalsFacts DEF LocalsOK
  <2>3. LocalAt(o) = LocalAt(0) + o
    BY <2>1, <2>2 DEF LocalAt
  <2>4. CASE hasFP(fn)
    <3>1. LocalAddr(o) = FrameBottom + (LocalOffset(fn) + StackSize(fn) + o)
      BY <2>4 DEF StagePart, LocalAddr, FrameBase, getFrameRegister, FinalOffset
    <3>2. LocalAddr(o) = LocalAt(o)
      BY <2>1, <2>2, <3>1 DEF LocalAt
    <3> QED BY <2>1, <2>2, <2>3, <3>2 DEF LocalAt
  <2>5. CASE ~hasFP(fn)
    <3>1. LocalAddr(o) = sp + (LocalOffset(fn) + StackSize(fn) + o)
      BY <2>5 DEF LocalAddr, FrameBase, getFrameRegister, FinalOffset, sp
    <3>2. sp + CallAdjust(amt) = FrameBottom
      BY <2>5 DEF StagePart, hasFP
    <3>3. FrameRegStable => CallAdjust(amt) = 0
      BY <2>5 DEF FrameRegStable, CallAdjust
    <3> QED BY <1>1, <2>1, <2>2, <2>3, <3>1, <3>2, <3>3 DEF LocalAt
  <2> QED BY <2>4, <2>5
<1> QED
  BY <1>1, <1>2, <1>5, <1>6, <1>7
--------------------------------------------------------------------------------
(***************************************************************************)
(* Memory: what the operators on maps do.                                  *)
(***************************************************************************)
LEMMA EmptyMapFacts ==
  IsMap(EmptyMap) /\ DOMAIN EmptyMap = {}
BY DEF IsMap, EmptyMap

LEMMA StoreFacts ==
  ASSUME NEW m, NEW n, NEW a, NEW v,
         IsMap(m), a \in Int, v \in Int, n = Store(m, a, v)
  PROVE  /\ IsMap(n)
         /\ DOMAIN n = DOMAIN m \cup {a}
         /\ n[a] = v
         /\ \A x \in DOMAIN m : x # a => n[x] = m[x]
BY DEF IsMap, Store

LEMMA ScribbleFacts ==
  ASSUME NEW m, NEW n, NEW limit, NEW v,
         IsMap(m), limit \in Int, v \in Int, n = Scribble(m, limit, v)
  PROVE  /\ IsMap(n)
         /\ DOMAIN n = DOMAIN m
         /\ \A x \in DOMAIN m : x >= limit => n[x] = m[x]
BY DEF IsMap, Scribble

LEMMA KeepFacts ==
  ASSUME NEW m, NEW n, NEW limit,
         IsMap(m), limit \in Int, n = KeepFrom(m, limit)
  PROVE  /\ IsMap(n)
         /\ DOMAIN n = {x \in DOMAIN m : x >= limit}
         /\ \A x \in DOMAIN n : n[x] = m[x]
BY DEF IsMap, KeepFrom

(* A step that keeps the function keeps the layout of its frame.           *)
LEMMA SameLayout ==
  ASSUME fn' = fn
  PROVE  /\ FrameBottom' = FrameBottom
         /\ NumCSI' = NumCSI
         /\ PrologueEmitted' = PrologueEmitted
         /\ FrameRegStable' = FrameRegStable
         /\ LocalAt(0)' = LocalAt(0)
         /\ \A k : SlotAt(k)' = SlotAt(k)
BY DEF FrameBottom, NumCSI, PrologueEmitted, FrameRegStable, LocalAt, SlotAt

--------------------------------------------------------------------------------
(***************************************************************************)
(* One lemma per action: it preserves the invariant.                       *)
(***************************************************************************)
LEMMA InitInv ==
  ASSUME Init
  PROVE  XFInv
<1> USE DEF Init
<1>1. TypeOK
  <2>1. /\ fn \in Functions /\ FnOK(fn)
    BY FunctionsAssumption
  <2>2. idx \in 0 .. NumCSI + 1
    BY <2>1 DEF FnOK, NumCSI
  <2> QED
    BY <2>1, <2>2, EmptyMapFacts, EntryAssumption
    DEF TypeOK, CFAOffsetFromInitialSP
<1>2. StagePart
  BY DEF StagePart, InBody
<1>3. CallPart /\ DynPart /\ DataPart /\ CFAPart
  BY DEF CallPart, DynPart, DataPart, CFAPart, InBody
<1> QED BY <1>1, <1>2, <1>3 DEF XFInv

LEMMA AllocFrameInv ==
  ASSUME XFInv, AllocFrame
  PROVE  XFInv'
<1> USE DEF AllocFrame, bodyVars
<1>0. TypeOK /\ pc = "alloc" /\ fn' = fn
  BY DEF XFInv
<1>1. StackSize(fn) \in Nat /\ NumCSI \in Nat
  BY <1>0, Areas
<1>2. regs = EntryRegs /\ idx = 1 /\ cfa.reg = "sp"
  BY <1>0 DEF XFInv, StagePart, CFAPart
<1>3. regs' = [EntryRegs EXCEPT !["sp"] = FrameBottom]
  <2>1. CASE PrologueEmitted
    BY <1>2, <2>1 DEF FrameBottom
  <2>2. CASE ~PrologueEmitted
    BY <1>2, <2>2, EntryAssumption DEF PrologueEmitted, FrameBottom, Regs
  <2> QED BY <2>1, <2>2
<1>c. DefCfaOffset(CFAOperand) = StackSize(fn)
  BY <1>1 DEF DefCfaOffset, CFAOperand
<1>4. TypeOK'
  <2>1. FrameBottom \in Int
    BY <1>0, Areas
  <2>2. regs' \in [Regs -> Int]
    BY <1>3, <2>1, EntryAssumption
  <2>3. cfa' \in [reg : {"sp", "a15"}, off : Nat]
    BY <1>0, <1>1, <1>c DEF TypeOK
  <2> QED BY <1>0, <1>1, <2>2, <2>3, SameLayout DEF TypeOK
<1>5. StagePart'
  BY <1>0, <1>1, <1>2, <1>3, SameLayout DEF StagePart, InBody
<1>6. CallPart' /\ DynPart' /\ DataPart'
  BY <1>0 DEF XFInv, CallPart, DynPart, DataPart, InBody
<1>7. CFAPart'
  BY <1>0, <1>1, <1>2, <1>c, SameLayout DEF CFAPart, InBody, TypeOK
<1> QED BY <1>4, <1>5, <1>6, <1>7 DEF XFInv

LEMMA SpillCSRInv ==
  ASSUME XFInv, SpillCSR
  PROVE  XFInv'
<1> USE DEF SpillCSR, bodyVars
<1>0. TypeOK /\ pc = "spill" /\ fn' = fn
  BY DEF XFInv
<1>1. /\ idx \in 1 .. NumCSI
      /\ regs = [EntryRegs EXCEPT !["sp"] = FrameBottom]
      /\ \A k \in 1 .. idx - 1 : Saved(k)
      /\ NumCSI \in Nat
  BY <1>0, Areas DEF XFInv, StagePart
<1>2. sp = FrameBottom
  BY <1>1, EntryAssumption DEF sp, Regs
<1>3. /\ SlotAddr(idx) = SlotAt(idx) /\ SlotAt(idx) \in Int
      /\ fn.csi[idx] \in CSRegs
  BY <1>0, <1>1, <1>2, Areas
<1>4. regs[fn.csi[idx]] = EntryRegs[fn.csi[idx]] /\ EntryRegs[fn.csi[idx]] \in Int
  BY <1>1, <1>3, EntryAssumption DEF Regs, CSRegs
<1>5. mem' = Store(mem, SlotAt(idx), EntryRegs[fn.csi[idx]])
  BY <1>3, <1>4
<1>6. /\ IsMap(mem')
      /\ DOMAIN mem' = DOMAIN mem \cup {SlotAt(idx)}
      /\ mem'[SlotAt(idx)] = EntryRegs[fn.csi[idx]]
      /\ \A x \in DOMAIN mem : x # SlotAt(idx) => mem'[x] = mem[x]
  <2> HIDE DEF SpillCSR
  <2>1. IsMap(mem)
    BY <1>0 DEF TypeOK
  <2> DEFINE a == SlotAt(idx)
             v == EntryRegs[fn.csi[idx]]
  <2>2. a \in Int /\ v \in Int /\ mem' = Store(mem, a, v)
    BY <1>3, <1>4, <1>5
  <2> HIDE DEF a, v
  <2>3. /\ IsMap(mem')
        /\ DOMAIN mem' = DOMAIN mem \cup {a}
        /\ mem'[a] = v
        /\ \A x \in DOMAIN mem : x # a => mem'[x] = mem[x]
    BY <2>1, <2>2, StoreFacts
  <2> QED BY <2>3 DEF a, v
<1>7. TypeOK'
  <2>1. idx' \in 0 .. NumCSI + 1
    BY <1>1
  <2> QED BY <1>0, <1>6, <2>1, SameLayout DEF TypeOK
<1>8. \A k \in 1 .. idx : Saved(k)'
  <2> SUFFICES ASSUME NEW k \in 1 .. idx
               PROVE  /\ SlotAt(k) \in DOMAIN mem'
                      /\ mem'[SlotAt(k)] = EntryRegs[fn.csi[k]]
    BY <1>0, SameLayout DEF Saved
  <2>1. k \in 1 .. NumCSI
    BY <1>1
  <2>2. CASE k = idx
    BY <1>6, <2>2
  <2>3. CASE k # idx
    <3>1. Saved(k)
      BY <1>1, <2>3
    <3>2. SlotAt(k) # SlotAt(idx)
      BY <1>0, <1>1, <2>1, <2>3, Areas
    <3> QED
      BY <1>6, <3>1, <3>2 DEF Saved
  <2> QED BY <2>2, <2>3
<1>9. StagePart'
  <2>1. idx' \in 1 .. NumCSI + 1 /\ idx' - 1 = idx
    BY <1>1
  <2> QED BY <1>0, <1>1, <1>8, <2>1, SameLayout DEF StagePart, InBody
<1>10. CallPart' /\ DynPart' /\ DataPart'
  BY <1>0 DEF XFInv, CallPart, DynPart, DataPart, InBody
<1>11. CFAPart'
  BY <1>0, SameLayout DEF XFInv, CFAPart, InBody
<1> QED BY <1>7, <1>9, <1>10, <1>11 DEF XFInv

LEMMA SetFPInv ==
  ASSUME XFInv, SetFP
  PROVE  XFInv'
<1>0. /\ TypeOK /\ pc = "spill" /\ pc' = "body" /\ idx > NumCSI
      /\ UNCHANGED <<fn, idx, mem, amt, args, dyn, saves, shadow>>
  BY DEF XFInv, SetFP, bodyVars
<1>1. /\ idx \in 1 .. NumCSI + 1
      /\ regs = [EntryRegs EXCEPT !["sp"] = FrameBottom]
      /\ \A k \in 1 .. idx - 1 : Saved(k)
      /\ PrologueEmitted => cfa = [reg |-> "sp", off |-> StackSize(fn)]
  BY <1>0 DEF XFInv, StagePart, CFAPart
<1>2. /\ NumCSI \in Nat /\ FrameBottom \in Int /\ StackSize(fn) \in Nat
      /\ LayoutOK(fn) /\ EntryRegs \in [Regs -> Int]
  BY <1>0, Areas, EntryAssumption
<1>3. sp = FrameBottom
  BY <1>1, <1>2 DEF sp, Regs
<1>4. hasFP(fn) => PrologueEmitted
  BY <1>2 DEF LayoutOK, PrologueEmitted
<1>5. regs' = IF hasFP(fn)
                THEN [EntryRegs EXCEPT !["sp"] = FrameBottom, !["a15"] = FrameBottom]
                ELSE [EntryRegs EXCEPT !["sp"] = FrameBottom]
  BY <1>1, <1>3, <1>4 DEF SetFP
<1>6. TypeOK'
  <2>1. regs' \in [Regs -> Int]
    BY <1>2, <1>5
  <2>2. cfa' \in [reg : {"sp", "a15"}, off : Nat]
    BY <1>0, <1>2 DEF TypeOK, SetFP
  <2> QED BY <1>0, <2>1, <2>2, SameLayout DEF TypeOK
<1>7. StagePart'
  <2>1. amt = 0
    BY <1>0 DEF XFInv, CallPart
  <2>2. \A k \in 1 .. NumCSI : Saved(k)'
    BY <1>0, <1>1, <1>2, SameLayout DEF Saved
  <2>3. /\ regs'["sp"] = FrameBottom
        /\ hasFP(fn) => regs'["a15"] = FrameBottom
        /\ \A r \in CSRegs \ SavedRegs(fn) : regs'[r] = EntryRegs[r]
    BY <1>2, <1>5 DEF Regs, CSRegs, SavedRegs
  <2>4. sp' + CallAdjust(amt)' = FrameBottom'
    BY <1>0, <1>2, <2>1, <2>3, SameLayout DEF sp, CallAdjust
  <2> QED BY <1>0, <1>2, <2>2, <2>3, <2>4, SameLayout DEF StagePart, InBody
<1>8. CallPart'
  BY <1>0 DEF XFInv, CallPart
<1>9. DynPart' /\ DataPart'
  <2>1. dyn = {} /\ saves = {} /\ shadow = EmptyMap /\ args = EmptyMap
    BY <1>0 DEF XFInv, DynPart, CallPart, InBody
  <2> QED
    BY <1>0, <2>1, EmptyMapFacts DEF DynPart, DataPart, DataIntact, InBody
<1>10. CFAPart'
  BY <1>0, <1>1, SameLayout DEF CFAPart, SetFP, InBody, getFrameRegister
<1> QED BY <1>6, <1>7, <1>8, <1>9, <1>10 DEF XFInv

--------------------------------------------------------------------------------
(* What a step leaves in memory from an address up.                        *)
MemKept(limit) ==
  \A x \in DOMAIN mem : x >= limit => x \in DOMAIN mem' /\ mem'[x] = mem[x]

LEMMA SavedKept ==
  ASSUME TypeOK, fn' = fn, MemKept(LocalAt(0) + fn.local),
         NEW k \in 1 .. NumCSI, Saved(k)
  PROVE  Saved(k)'
<1>1. SlotAt(k) >= LocalAt(0) + fn.local
  <2>1. /\ SlotAt(k) \in Int /\ LocalAt(0) + fn.local <= SlotAt(k)
        /\ LayoutOK(fn) /\ LocalAt(0) \in Int
    BY Areas
  <2>2. fn.local \in Nat
    BY <2>1 DEF LayoutOK
  <2> QED BY <2>1, <2>2
<1>2. SlotAt(k) \in DOMAIN mem' /\ mem'[SlotAt(k)] = EntryRegs[fn.csi[k]]
  BY <1>1 DEF Saved, MemKept
<1> QED BY <1>2, SameLayout DEF Saved

(* A body step that writes memory only below the spill slots and no        *)
(* register preserves the stage's facts.                                   *)
LEMMA StoreStage ==
  ASSUME XFInv, InBody, UNCHANGED <<fn, pc, regs, amt>>,
         MemKept(LocalAt(0) + fn.local)
  PROVE  StagePart'
<1>1. TypeOK /\ \A k \in 1 .. NumCSI : Saved(k)
  BY DEF XFInv, StagePart
<1>2. \A k \in 1 .. NumCSI : Saved(k)'
  BY <1>1, SavedKept
<1>3. sp' = sp /\ CallAdjust(amt)' = CallAdjust(amt)
  BY DEF sp, CallAdjust
<1>4. /\ \A r \in CSRegs \ SavedRegs(fn) : regs[r] = EntryRegs[r]
      /\ hasFP(fn) => regs["a15"] = FrameBottom
      /\ sp + CallAdjust(amt) <= FrameBottom
      /\ ~fn.varSized => sp + CallAdjust(amt) = FrameBottom
  BY DEF XFInv, StagePart
<1> QED
  BY <1>2, <1>3, <1>4, SameLayout DEF StagePart, InBody

LEMMA WriteRegInv ==
  ASSUME XFInv, NEW r \in CSRegs, NEW v \in Values, WriteReg(r, v)
  PROVE  XFInv'
<1>0. /\ TypeOK /\ pc = "body" /\ r \in fn.modified \ Reserved(fn)
      /\ regs' = [regs EXCEPT ![r] = v]
      /\ UNCHANGED <<fn, pc, idx, mem, amt, args, dyn, saves, shadow, cfa>>
  BY DEF XFInv, WriteReg, bodyVars
<1>1. regs \in [Regs -> Int] /\ v \in Int
  BY <1>0, ValuesAssumption DEF TypeOK
<1>2. /\ regs' \in [Regs -> Int] /\ regs'["sp"] = regs["sp"]
      /\ hasFP(fn) => regs'["a15"] = regs["a15"]
      /\ \A q \in CSRegs \ SavedRegs(fn) : regs'[q] = regs[q]
  BY <1>0, <1>1 DEF Regs, CSRegs, Reserved, SavedRegs
<1>3. TypeOK'
  BY <1>0, <1>2, SameLayout DEF TypeOK
<1>4. sp' = sp /\ CallAdjust(amt)' = CallAdjust(amt)
  BY <1>0, <1>2 DEF sp, CallAdjust
<1>5. StagePart'
  <2>1. \A k \in 1 .. NumCSI : Saved(k)'
    BY <1>0, SameLayout DEF XFInv, StagePart, InBody, Saved
  <2>2. /\ \A q \in CSRegs \ SavedRegs(fn) : regs[q] = EntryRegs[q]
        /\ hasFP(fn) => regs["a15"] = FrameBottom
        /\ sp + CallAdjust(amt) <= FrameBottom
        /\ ~fn.varSized => sp + CallAdjust(amt) = FrameBottom
    BY <1>0 DEF XFInv, StagePart, InBody
  <2> QED
    BY <1>0, <1>2, <1>4, <2>1, <2>2, SameLayout DEF StagePart, InBody
<1>6. CallPart' /\ CFAPart'
  BY <1>0, SameLayout DEF XFInv, CallPart, CFAPart, InBody
<1>7. DynPart' /\ DataPart'
  BY <1>0, <1>4, SameLayout
  DEF XFInv, DynPart, DataPart, DataIntact, InBody
<1> QED BY <1>3, <1>5, <1>6, <1>7 DEF XFInv

(* A store below the spill slots keeps the spill slots.                    *)
LEMMA StoreKept ==
  ASSUME TypeOK, fn' = fn, NEW a \in Int, a < LocalAt(0) + fn.local,
         NEW v \in Int, mem' = Store(mem, a, v)
  PROVE  /\ MemKept(LocalAt(0) + fn.local)
         /\ IsMap(mem')
         /\ DOMAIN mem' = DOMAIN mem \cup {a}
         /\ mem'[a] = v
         /\ \A x \in DOMAIN mem : x # a => mem'[x] = mem[x]
<1>1. IsMap(mem)
  BY DEF TypeOK
<1>2. /\ IsMap(mem')
      /\ DOMAIN mem' = DOMAIN mem \cup {a}
      /\ mem'[a] = v
      /\ \A x \in DOMAIN mem : x # a => mem'[x] = mem[x]
  BY <1>1 DEF IsMap, Store
<1>3. LocalAt(0) \in Int /\ fn.local \in Nat
  BY Areas DEF LayoutOK
<1>4. DOMAIN mem \subseteq Int
  BY <1>1 DEF IsMap
<1>5. MemKept(LocalAt(0) + fn.local)
  BY <1>2, <1>3, <1>4 DEF MemKept
<1> QED BY <1>2, <1>5

(* The same for the program's data.                                        *)
LEMMA ShadowStore ==
  ASSUME TypeOK, NEW a \in Int, NEW v \in Int, shadow' = Store(shadow, a, v)
  PROVE  /\ IsMap(shadow')
         /\ DOMAIN shadow' = DOMAIN shadow \cup {a}
         /\ shadow'[a] = v
         /\ \A x \in DOMAIN shadow : x # a => shadow'[x] = shadow[x]
<1>1. IsMap(shadow)
  BY DEF TypeOK
<1> QED BY <1>1 DEF IsMap, Store

LEMMA StoreLocalInv ==
  ASSUME XFInv, NEW o \in fn.probes, NEW v \in Values, StoreLocal(o, v)
  PROVE  XFInv'
<1>0. /\ TypeOK /\ InBody /\ v \in Int
      /\ mem' = Store(mem, LocalAddr(o), v)
      /\ shadow' = Store(shadow, LocalAt(o), v)
      /\ UNCHANGED <<fn, pc, idx, regs, amt, args, dyn, saves, cfa>>
  BY ValuesAssumption DEF XFInv, StoreLocal, InBody
<1> DEFINE at == LocalAt(o)
           ad == LocalAddr(o)
<1>1. /\ o \in Nat /\ o < fn.local /\ at = LocalAt(0) + o
      /\ ad \in Int /\ ad <= at
      /\ FrameRegStable => ad = at
      /\ sp \in Int /\ amt \in Nat /\ sp + amt <= LocalAt(0)
  BY <1>0, Reach
<1>2. LocalAt(0) \in Int /\ fn.local \in Nat
  BY <1>0, Areas DEF LayoutOK
<1>3. mem' = Store(mem, ad, v) /\ shadow' = Store(shadow, at, v)
  BY <1>0
<1> HIDE DEF at, ad
<1>4. at \in Int /\ ad < LocalAt(0) + fn.local
  BY <1>1, <1>2
<1>5. /\ MemKept(LocalAt(0) + fn.local) /\ IsMap(mem')
      /\ DOMAIN mem' = DOMAIN mem \cup {ad} /\ mem'[ad] = v
      /\ \A x \in DOMAIN mem : x # ad => mem'[x] = mem[x]
  BY <1>0, <1>1, <1>3, <1>4, StoreKept
<1>6. /\ IsMap(shadow')
      /\ DOMAIN shadow' = DOMAIN shadow \cup {at} /\ shadow'[at] = v
      /\ \A x \in DOMAIN shadow : x # at => shadow'[x] = shadow[x]
  BY <1>0, <1>3, <1>4, ShadowStore
<1>7. TypeOK'
  BY <1>0, <1>5, <1>6, SameLayout DEF TypeOK
<1>8. StagePart'
  BY <1>0, <1>5, StoreStage
<1>9. sp' = sp /\ CallAdjust(amt)' = CallAdjust(amt)
  BY <1>0 DEF sp, CallAdjust
<1>10. CallPart' /\ CFAPart' /\ DynPart'
  BY <1>0, <1>9, SameLayout DEF XFInv, CallPart, CFAPart, DynPart, InBody
<1>11. DataPart'
  <2>1. \A x \in DOMAIN shadow' :
          x \in dyn \/ (LocalAt(0) <= x /\ x < LocalAt(0) + fn.local)
    BY <1>0, <1>1, <1>2, <1>6 DEF XFInv, DataPart
  <2>2. ASSUME FrameRegStable, NEW x \in DOMAIN shadow'
        PROVE  x \in DOMAIN mem' /\ mem'[x] = shadow'[x]
    BY <1>0, <1>1, <1>5, <1>6, <2>2 DEF XFInv, DataPart, DataIntact, InBody
  <2>3. ASSUME FrameRegStable, NEW x \in DOMAIN args
        PROVE  /\ 0 <= x /\ x < amt
               /\ sp + x \in DOMAIN mem' /\ mem'[sp + x] = args[x]
    <3>1. /\ 0 <= x /\ x < amt
          /\ sp + x \in DOMAIN mem /\ mem[sp + x] = args[x]
      BY <1>0, <2>3 DEF XFInv, DataPart
    <3>2. x \in Int
      BY <1>0 DEF TypeOK, IsMap
    <3>3. sp + x # ad
      BY <1>1, <1>2, <2>3, <3>1, <3>2
    <3> QED BY <1>5, <3>1, <3>3
  <2> QED
    BY <1>0, <1>9, <2>1, <2>2, <2>3, SameLayout DEF DataPart, DataIntact
<1> QED BY <1>7, <1>8, <1>10, <1>11 DEF XFInv

LEMMA StoreDynInv ==
  ASSUME XFInv, NEW a \in dyn, NEW v \in Values, StoreDyn(a, v)
  PROVE  XFInv'
<1>0. /\ TypeOK /\ InBody /\ v \in Int /\ a \in Int
      /\ mem' = Store(mem, a, v)
      /\ shadow' = Store(shadow, a, v)
      /\ UNCHANGED <<fn, pc, idx, regs, amt, args, dyn, saves, cfa>>
  BY ValuesAssumption DEF XFInv, StoreDyn, InBody, TypeOK
<1>1. /\ sp + amt <= a /\ a < FrameBottom
      /\ sp \in Int /\ amt \in Nat
  BY <1>0, Reach
<1>2. /\ LocalAt(0) \in Int /\ fn.local \in Nat /\ OutgoingArea(fn) \in Nat
      /\ FrameBottom \in Int /\ FrameBottom + OutgoingArea(fn) <= LocalAt(0)
  BY <1>0, Areas DEF LayoutOK
<1>3. a < LocalAt(0) + fn.local
  BY <1>0, <1>1, <1>2
<1>5. /\ MemKept(LocalAt(0) + fn.local) /\ IsMap(mem')
      /\ DOMAIN mem' = DOMAIN mem \cup {a} /\ mem'[a] = v
      /\ \A x \in DOMAIN mem : x # a => mem'[x] = mem[x]
  BY <1>0, <1>3, StoreKept
<1>6. /\ IsMap(shadow')
      /\ DOMAIN shadow' = DOMAIN shadow \cup {a} /\ shadow'[a] = v
      /\ \A x \in DOMAIN shadow : x # a => shadow'[x] = shadow[x]
  BY <1>0, ShadowStore
<1>7. TypeOK'
  BY <1>0, <1>5, <1>6, SameLayout DEF TypeOK
<1>8. StagePart'
  BY <1>0, <1>5, StoreStage
<1>9. sp' = sp /\ CallAdjust(amt)' = CallAdjust(amt)
  BY <1>0 DEF sp, CallAdjust
<1>10. CallPart' /\ CFAPart' /\ DynPart'
  BY <1>0, <1>9, SameLayout DEF XFInv, CallPart, CFAPart, DynPart, InBody
<1>11. DataPart'
  <2>1. \A x \in DOMAIN shadow' :
          x \in dyn \/ (LocalAt(0) <= x /\ x < LocalAt(0) + fn.local)
    BY <1>0, <1>6 DEF XFInv, DataPart
  <2>2. ASSUME FrameRegStable, NEW x \in DOMAIN shadow'
        PROVE  x \in DOMAIN mem' /\ mem'[x] = shadow'[x]
    BY <1>0, <1>5, <1>6, <2>2 DEF XFInv, DataPart, DataIntact, InBody
  <2>3. ASSUME FrameRegStable, NEW x \in DOMAIN args
        PROVE  /\ 0 <= x /\ x < amt
               /\ sp + x \in DOMAIN mem' /\ mem'[sp + x] = args[x]
    <3>1. /\ 0 <= x /\ x < amt
          /\ sp + x \in DOMAIN mem /\ mem[sp + x] = args[x]
      BY <1>0, <2>3 DEF XFInv, DataPart
    <3>2. x \in Int
      BY <1>0 DEF TypeOK, IsMap
    <3>3. sp + x # a
      BY <1>0, <1>1, <3>1, <3>2
    <3> QED BY <1>5, <3>1, <3>3
  <2> QED
    BY <1>0, <1>9, <2>1, <2>2, <2>3, SameLayout DEF DataPart, DataIntact
<1> QED BY <1>7, <1>8, <1>10, <1>11 DEF XFInv

--------------------------------------------------------------------------------
(* A body step that moves sp and changes no other callee-saved register    *)
(* nor memory: the stage's facts follow from where sp then is.             *)
LEMMA MoveStage ==
  ASSUME XFInv, InBody, InBody', UNCHANGED <<fn, mem>>,
         NEW n, n \in Int, regs' = [regs EXCEPT !["sp"] = n],
         n + CallAdjust(amt)' <= FrameBottom,
         ~fn.varSized => n + CallAdjust(amt)' = FrameBottom
  PROVE  regs' \in [Regs -> Int] /\ sp' = n /\ StagePart'
<1>1. regs \in [Regs -> Int]
  BY DEF XFInv, TypeOK
<1>2. /\ regs' \in [Regs -> Int] /\ regs'["sp"] = n
      /\ \A r \in CSRegs : regs'[r] = regs[r]
  BY <1>1 DEF Regs, CSRegs
<1>3. \A k \in 1 .. NumCSI : Saved(k)'
  BY SameLayout DEF XFInv, StagePart, Saved
<1>4. /\ \A r \in CSRegs \ SavedRegs(fn) : regs[r] = EntryRegs[r]
      /\ hasFP(fn) => regs["a15"] = FrameBottom
  BY DEF XFInv, StagePart
<1>5. /\ \A r \in CSRegs \ SavedRegs(fn) : regs'[r] = EntryRegs[r]
      /\ hasFP(fn) => regs'["a15"] = FrameBottom
  BY <1>2, <1>4 DEF CSRegs
<1>6. sp' = n
  BY <1>2 DEF sp
<1>7. pc' \notin {"alloc", "spill", "restore", "done"}
  BY DEF InBody
<1> QED
  BY <1>2, <1>3, <1>5, <1>6, <1>7, SameLayout DEF StagePart, InBody

LEMMA AllocaInv ==
  ASSUME XFInv, NEW n \in AllocaSizes, Alloca(n)
  PROVE  XFInv'
<1>0. /\ TypeOK /\ InBody /\ InBody' /\ fn.varSized /\ pc = "body"
      /\ regs' = [regs EXCEPT !["sp"] = sp - n]
      /\ dyn' = dyn \cup {sp - n, sp - 4}
      /\ UNCHANGED <<fn, pc, idx, mem, amt, args, saves, shadow, cfa>>
  BY DEF XFInv, Alloca, InBody, sp, SlotSize
<1>1. n \in Nat /\ n >= 16
  BY AllocaAssumption DEF StackAlignment
<1>2. amt = 0 /\ CallAdjust(amt) = 0 /\ CallAdjust(amt)' = 0 /\ args = EmptyMap
  BY <1>0 DEF XFInv, CallPart, CallAdjust
<1>3. sp \in Int /\ sp <= FrameBottom /\ FrameBottom \in Int
  BY <1>0, Reach, Areas
<1>4. regs' \in [Regs -> Int] /\ sp' = sp - n /\ StagePart'
  <2>1. sp - n \in Int /\ sp - n + CallAdjust(amt)' <= FrameBottom
    BY <1>1, <1>2, <1>3
  <2> QED BY <1>0, <2>1, MoveStage
<1>5. TypeOK'
  <2>1. dyn' \subseteq Int
    BY <1>0, <1>1, <1>3 DEF TypeOK
  <2> QED BY <1>0, <1>4, <2>1, SameLayout DEF TypeOK
<1>6. CallPart' /\ CFAPart'
  BY <1>0, SameLayout DEF XFInv, CallPart, CFAPart, InBody
<1>7. DynPart'
  <2>1. \A a \in dyn' : sp - n <= a /\ a < FrameBottom
    BY <1>0, <1>1, <1>2, <1>3 DEF XFInv, DynPart, TypeOK
  <2>2. \A s \in saves : sp - n <= s /\ s <= FrameBottom
    BY <1>0, <1>1, <1>2, <1>3 DEF XFInv, DynPart, TypeOK
  <2>3. sp' + CallAdjust(amt)' = sp - n
    BY <1>1, <1>2, <1>3, <1>4
  <2> QED BY <1>0, <2>1, <2>2, <2>3, SameLayout DEF DynPart
<1>8. DataPart'
  BY <1>0, <1>2, EmptyMapFacts, SameLayout
  DEF XFInv, DataPart, DataIntact, InBody
<1> QED BY <1>4, <1>5, <1>6, <1>7, <1>8 DEF XFInv

LEMMA StackSaveInv ==
  ASSUME XFInv, StackSave
  PROVE  XFInv'
<1>0. /\ TypeOK /\ InBody /\ InBody' /\ pc = "body" /\ saves' = saves \cup {sp}
      /\ UNCHANGED <<fn, pc, idx, regs, mem, amt, args, dyn, shadow, cfa>>
  BY DEF XFInv, StackSave, InBody
<1>1. sp \in Int /\ sp <= FrameBottom
  BY <1>0, Reach
<1>2. amt = 0 /\ CallAdjust(amt) = 0
  BY <1>0 DEF XFInv, CallPart, CallAdjust
<1>3. ~fn.varSized => sp = FrameBottom
  BY <1>0, <1>1, <1>2 DEF XFInv, StagePart
<1>4. sp' = sp /\ CallAdjust(amt)' = CallAdjust(amt)
  BY <1>0 DEF sp, CallAdjust
<1>5. TypeOK'
  BY <1>0, <1>1, SameLayout DEF TypeOK
<1>6. StagePart'
  <2>1. MemKept(LocalAt(0) + fn.local)
    BY <1>0 DEF MemKept
  <2> QED BY <1>0, <2>1, StoreStage
<1>7. CallPart' /\ CFAPart'
  BY <1>0, SameLayout DEF XFInv, CallPart, CFAPart, InBody
<1>8. DynPart'
  <2>1. \A s \in saves' :
          /\ sp <= s /\ s <= FrameBottom
          /\ ~fn.varSized => s = FrameBottom
    BY <1>0, <1>1, <1>2, <1>3 DEF XFInv, DynPart
  <2>2. \A a \in dyn : sp + CallAdjust(amt) <= a /\ a < FrameBottom
    BY <1>0 DEF XFInv, DynPart
  <2>3. sp + CallAdjust(amt) = sp
    BY <1>1, <1>2
  <2> QED BY <1>0, <1>4, <2>1, <2>2, <2>3, SameLayout DEF DynPart
<1>9. DataPart'
  BY <1>0, <1>4, SameLayout DEF XFInv, DataPart, DataIntact, InBody
<1> QED BY <1>5, <1>6, <1>7, <1>8, <1>9 DEF XFInv

LEMMA StackRestoreInv ==
  ASSUME XFInv, NEW s \in saves, StackRestore(s)
  PROVE  XFInv'
<1>0. /\ TypeOK /\ InBody /\ InBody' /\ pc = "body" /\ s \in Int
      /\ regs' = [regs EXCEPT !["sp"] = s]
      /\ saves' = {t \in saves : t >= s}
      /\ dyn' = {a \in dyn : a >= s}
      /\ shadow' = KeepFrom(shadow, s)
      /\ UNCHANGED <<fn, pc, idx, mem, amt, args, cfa>>
  BY DEF XFInv, StackRestore, InBody, TypeOK
<1>1. /\ amt = 0 /\ CallAdjust(amt) = 0 /\ CallAdjust(amt)' = 0
      /\ args = EmptyMap /\ args' = EmptyMap
  BY <1>0 DEF XFInv, CallPart, CallAdjust
<1>2. /\ s <= FrameBottom /\ FrameBottom \in Int
      /\ ~fn.varSized => s = FrameBottom
  BY <1>0, Areas DEF XFInv, DynPart
<1>3. regs' \in [Regs -> Int] /\ sp' = s /\ StagePart'
  <2>1. /\ s + CallAdjust(amt)' <= FrameBottom
        /\ ~fn.varSized => s + CallAdjust(amt)' = FrameBottom
    BY <1>0, <1>1, <1>2
  <2> QED BY <1>0, <2>1, MoveStage
<1>4. /\ IsMap(shadow')
      /\ DOMAIN shadow' = {x \in DOMAIN shadow : x >= s}
      /\ \A x \in DOMAIN shadow' : shadow'[x] = shadow[x]
  <2>1. IsMap(shadow)
    BY <1>0 DEF TypeOK
  <2> QED BY <1>0, <2>1 DEF IsMap, KeepFrom
<1>5. TypeOK'
  BY <1>0, <1>3, <1>4, SameLayout DEF TypeOK
<1>6. CallPart' /\ CFAPart'
  BY <1>0, SameLayout DEF XFInv, CallPart, CFAPart, InBody
<1>7. DynPart'
  <2>1. \A a \in dyn' : s <= a /\ a < FrameBottom
    BY <1>0 DEF XFInv, DynPart, TypeOK
  <2>2. \A t \in saves' :
          /\ s <= t /\ t <= FrameBottom
          /\ ~fn.varSized => t = FrameBottom
    BY <1>0 DEF XFInv, DynPart, TypeOK
  <2>3. sp' + CallAdjust(amt)' = s
    BY <1>0, <1>1, <1>3
  <2> QED BY <1>0, <2>1, <2>2, <2>3, SameLayout DEF DynPart
<1>8. DataPart'
  BY <1>0, <1>1, <1>4, EmptyMapFacts, SameLayout
  DEF XFInv, DataPart, DataIntact, InBody
<1> QED BY <1>3, <1>5, <1>6, <1>7, <1>8 DEF XFInv

--------------------------------------------------------------------------------
LEMMA CallDownInv ==
  ASSUME XFInv, NEW a \in fn.callAmts, CallDown(a)
  PROVE  XFInv'
<1>0. /\ TypeOK /\ InBody /\ InBody' /\ pc = "body" /\ pc' = "call" /\ amt' = a
      /\ regs' = [regs EXCEPT !["sp"] = sp - CallAdjust(a)]
      /\ UNCHANGED <<fn, idx, mem, args, dyn, saves, shadow, cfa>>
  BY DEF XFInv, CallDown, InBody, sp
<1>1. /\ a \in Nat /\ CallAdjust(a) \in Nat /\ CallAdjust(amt)' = CallAdjust(a)
      /\ amt = 0 /\ CallAdjust(amt) = 0 /\ args = EmptyMap
  <2>1. LayoutOK(fn)
    BY <1>0, Areas
  <2>2. a \in Nat
    BY <2>1 DEF LayoutOK
  <2> QED BY <1>0, <2>2 DEF XFInv, CallPart, CallAdjust
<1>2. sp \in Int /\ FrameBottom \in Int
  BY <1>0, Reach, Areas
<1>3. /\ sp <= FrameBottom
      /\ ~fn.varSized => sp = FrameBottom
  BY <1>0, <1>1, <1>2 DEF XFInv, StagePart
<1>4. regs' \in [Regs -> Int] /\ sp' = sp - CallAdjust(a) /\ StagePart'
  <2>1. /\ sp - CallAdjust(a) \in Int
        /\ sp - CallAdjust(a) + CallAdjust(amt)' <= FrameBottom
        /\ ~fn.varSized => sp - CallAdjust(a) + CallAdjust(amt)' = FrameBottom
    BY <1>1, <1>2, <1>3
  <2> QED BY <1>0, <2>1, MoveStage
<1>5. TypeOK'
  BY <1>0, <1>1, <1>4, SameLayout DEF TypeOK
<1>6. CallPart' /\ CFAPart'
  BY <1>0, SameLayout DEF XFInv, CallPart, CFAPart, InBody
<1>7. sp' + CallAdjust(amt)' = sp /\ sp + CallAdjust(amt) = sp
  BY <1>1, <1>2, <1>4
<1>8. DynPart'
  BY <1>0, <1>7, SameLayout DEF XFInv, DynPart
<1>9. DataPart'
  BY <1>0, <1>1, EmptyMapFacts, SameLayout
  DEF XFInv, DataPart, DataIntact, InBody
<1> QED BY <1>4, <1>5, <1>6, <1>8, <1>9 DEF XFInv

LEMMA StoreArgInv ==
  ASSUME XFInv, NEW o \in {0, amt - SlotSize}, NEW v \in Values, StoreArg(o, v)
  PROVE  XFInv'
<1>0. /\ TypeOK /\ InBody /\ pc = "call" /\ amt > 0 /\ v \in Int
      /\ mem' = Store(mem, sp + o, v)
      /\ args' = Store(args, o, v)
      /\ UNCHANGED <<fn, pc, idx, regs, amt, dyn, saves, shadow, cfa>>
  BY ValuesAssumption DEF XFInv, StoreArg, InBody
<1>1. /\ sp \in Int /\ amt \in Nat /\ sp + amt <= LocalAt(0)
      /\ \A a \in dyn : sp + amt <= a
  BY <1>0, Reach
<1>2. LocalAt(0) \in Int /\ fn.local \in Nat
  BY <1>0, Areas DEF LayoutOK
<1>3. o \in Nat /\ o < amt
  <2>1. amt \in Words
    BY <1>0, FunctionsAssumption DEF XFInv, CallPart, TypeOK, FnOK
  <2>2. amt >= 4
    BY <1>0, <2>1 DEF Words, SlotSize
  <2> QED BY <1>1, <2>2 DEF SlotSize
<1> DEFINE ad == sp + o
<1>4. ad \in Int /\ ad < LocalAt(0) + fn.local /\ mem' = Store(mem, ad, v)
  BY <1>0, <1>1, <1>2, <1>3
<1> HIDE DEF ad
<1>5. /\ MemKept(LocalAt(0) + fn.local) /\ IsMap(mem')
      /\ DOMAIN mem' = DOMAIN mem \cup {ad} /\ mem'[ad] = v
      /\ \A x \in DOMAIN mem : x # ad => mem'[x] = mem[x]
  BY <1>0, <1>4, StoreKept
<1>6. /\ IsMap(args')
      /\ DOMAIN args' = DOMAIN args \cup {o} /\ args'[o] = v
      /\ \A x \in DOMAIN args : x # o => args'[x] = args[x]
  <2>1. IsMap(args) /\ args' = Store(args, o, v) /\ o \in Int /\ v \in Int
    BY <1>0, <1>3 DEF TypeOK
  <2> QED BY <2>1 DEF IsMap, Store
<1>7. TypeOK'
  BY <1>0, <1>5, <1>6, SameLayout DEF TypeOK
<1>8. StagePart'
  BY <1>0, <1>5, StoreStage
<1>9. sp' = sp /\ CallAdjust(amt)' = CallAdjust(amt)
  BY <1>0 DEF sp, CallAdjust
<1>10. CallPart' /\ CFAPart' /\ DynPart'
  BY <1>0, <1>9, SameLayout DEF XFInv, CallPart, CFAPart, DynPart, InBody
<1>11. DataPart'
  <2>1. ASSUME FrameRegStable, NEW x \in DOMAIN shadow
        PROVE  x \in DOMAIN mem' /\ mem'[x] = shadow[x]
    <3>1. x \in DOMAIN mem /\ mem[x] = shadow[x]
      BY <1>0, <2>1 DEF XFInv, DataPart, DataIntact, InBody
    <3>2. x \in dyn \/ LocalAt(0) <= x
      BY <1>0 DEF XFInv, DataPart
    <3>3. x \in Int
      BY <1>0 DEF TypeOK, IsMap
    <3>4. sp + amt <= x
      BY <1>1, <1>2, <3>2, <3>3
    <3>5. x # ad
      BY <1>1, <1>3, <3>3, <3>4 DEF ad
    <3> QED BY <1>5, <3>1, <3>5
  <2>2. ASSUME FrameRegStable, NEW x \in DOMAIN args'
        PROVE  /\ 0 <= x /\ x < amt
               /\ sp + x \in DOMAIN mem' /\ mem'[sp + x] = args'[x]
    <3>1. CASE x = o
      BY <1>3, <1>5, <1>6, <3>1 DEF ad
    <3>2. CASE x # o
      <4>1. /\ x \in DOMAIN args /\ args'[x] = args[x]
            /\ 0 <= x /\ x < amt
            /\ sp + x \in DOMAIN mem /\ mem[sp + x] = args[x]
        BY <1>0, <1>6, <2>2, <3>2 DEF XFInv, DataPart
      <4>2. x \in Int
        BY <1>0, <4>1 DEF TypeOK, IsMap
      <4>3. sp + x # ad
        BY <1>1, <1>3, <3>2, <4>2 DEF ad
      <4> QED BY <1>5, <4>1, <4>3
    <3> QED BY <3>1, <3>2
  <2>3. \A x \in DOMAIN shadow :
          x \in dyn \/ (LocalAt(0) <= x /\ x < LocalAt(0) + fn.local)
    BY <1>0 DEF XFInv, DataPart
  <2> QED
    BY <1>0, <1>9, <2>1, <2>2, <2>3, SameLayout DEF DataPart, DataIntact
<1> QED BY <1>7, <1>8, <1>10, <1>11 DEF XFInv

LEMMA CallInv ==
  ASSUME XFInv, NEW v \in Values, Call(v)
  PROVE  XFInv'
<1>0. /\ TypeOK /\ InBody /\ InBody' /\ pc = "call" /\ pc' = "called"
      /\ v \in Int
      /\ regs' = [regs EXCEPT !["a0"] = v]
      /\ mem' = Scribble(mem, sp + amt, v)
      /\ args' = EmptyMap
      /\ UNCHANGED <<fn, idx, amt, dyn, saves, shadow, cfa>>
  BY ValuesAssumption DEF XFInv, Call, InBody
<1>1. /\ sp \in Int /\ amt \in Nat /\ sp + amt <= LocalAt(0)
      /\ \A a \in dyn : sp + amt <= a
  BY <1>0, Reach
<1>2. LocalAt(0) \in Int /\ fn.local \in Nat
  BY <1>0, Areas DEF LayoutOK
<1>3. /\ IsMap(mem') /\ DOMAIN mem' = DOMAIN mem
      /\ \A x \in DOMAIN mem : x >= sp + amt => mem'[x] = mem[x]
      /\ DOMAIN mem \subseteq Int
  <2>1. IsMap(mem) /\ sp + amt \in Int
    BY <1>0, <1>1 DEF TypeOK
  <2> QED BY <1>0, <2>1 DEF IsMap, Scribble
<1>4. MemKept(LocalAt(0) + fn.local)
  BY <1>1, <1>2, <1>3 DEF MemKept
<1>5. /\ regs' \in [Regs -> Int] /\ regs'["sp"] = regs["sp"]
      /\ hasFP(fn) => regs'["a15"] = regs["a15"]
      /\ \A q \in CSRegs \ SavedRegs(fn) : regs'[q] = regs[q]
  <2>1. "a0" \in SavedRegs(fn)
    BY <1>0, FunctionsAssumption
    DEF XFInv, CallPart, TypeOK, FnOK, SavedRegs
  <2> QED BY <1>0, <2>1 DEF TypeOK, Regs, CSRegs
<1>6. TypeOK'
  BY <1>0, <1>3, <1>5, EmptyMapFacts, SameLayout DEF TypeOK
<1>7. sp' = sp /\ CallAdjust(amt)' = CallAdjust(amt)
  BY <1>0, <1>5 DEF sp, CallAdjust
<1>8. StagePart'
  <2>1. \A k \in 1 .. NumCSI : Saved(k)'
    BY <1>0, <1>4, SavedKept DEF XFInv, StagePart
  <2>2. /\ \A q \in CSRegs \ SavedRegs(fn) : regs[q] = EntryRegs[q]
        /\ hasFP(fn) => regs["a15"] = FrameBottom
        /\ sp + CallAdjust(amt) <= FrameBottom
        /\ ~fn.varSized => sp + CallAdjust(amt) = FrameBottom
    BY <1>0 DEF XFInv, StagePart
  <2> QED
    BY <1>0, <1>5, <1>7, <2>1, <2>2, SameLayout DEF StagePart, InBody
<1>9. CallPart' /\ CFAPart'
  BY <1>0, SameLayout DEF XFInv, CallPart, CFAPart, InBody
<1>10. DynPart'
  BY <1>0, <1>7, SameLayout DEF XFInv, DynPart
<1>11. DataPart'
  <2>1. \A x \in DOMAIN shadow :
          x \in dyn \/ (LocalAt(0) <= x /\ x < LocalAt(0) + fn.local)
    BY <1>0 DEF XFInv, DataPart
  <2>2. ASSUME FrameRegStable, NEW x \in DOMAIN shadow
        PROVE  x \in DOMAIN mem' /\ mem'[x] = shadow[x]
    <3>1. x \in DOMAIN mem /\ mem[x] = shadow[x]
      BY <1>0, <2>2 DEF XFInv, DataPart, DataIntact, InBody
    <3>2. x \in Int
      BY <1>0 DEF TypeOK, IsMap
    <3>3. x >= sp + amt
      BY <1>1, <1>2, <2>1, <3>2
    <3> QED BY <1>3, <3>1, <3>3
  <2> QED
    BY <1>0, <2>1, <2>2, EmptyMapFacts, SameLayout DEF DataPart, DataIntact
<1> QED BY <1>6, <1>8, <1>9, <1>10, <1>11 DEF XFInv

LEMMA CallUpInv ==
  ASSUME XFInv, CallUp
  PROVE  XFInv'
<1>0. /\ TypeOK /\ InBody /\ InBody' /\ pc = "called" /\ pc' = "body" /\ amt' = 0
      /\ regs' = [regs EXCEPT !["sp"] = sp + CallAdjust(amt)]
      /\ UNCHANGED <<fn, idx, mem, args, dyn, saves, shadow, cfa>>
  BY DEF XFInv, CallUp, InBody, sp
<1>1. CallAdjust(amt)' = 0 /\ CallAdjust(amt) \in Nat /\ args = EmptyMap
  BY <1>0, Reach DEF XFInv, CallPart, CallAdjust
<1>2. sp \in Int /\ FrameBottom \in Int
  BY <1>0, Reach, Areas
<1>3. /\ sp + CallAdjust(amt) <= FrameBottom
      /\ ~fn.varSized => sp + CallAdjust(amt) = FrameBottom
  BY <1>0 DEF XFInv, StagePart
<1>4. regs' \in [Regs -> Int] /\ sp' = sp + CallAdjust(amt) /\ StagePart'
  <2>1. /\ sp + CallAdjust(amt) \in Int
        /\ sp + CallAdjust(amt) + CallAdjust(amt)' = sp + CallAdjust(amt)
    BY <1>1, <1>2
  <2> QED BY <1>0, <1>3, <2>1, MoveStage
<1>5. TypeOK'
  BY <1>0, <1>4, SameLayout DEF TypeOK
<1>6. CallPart' /\ CFAPart'
  BY <1>0, SameLayout DEF XFInv, CallPart, CFAPart, InBody
<1>7. sp' + CallAdjust(amt)' = sp + CallAdjust(amt)
  BY <1>1, <1>2, <1>4
<1>8. DynPart'
  BY <1>0, <1>7, SameLayout DEF XFInv, DynPart
<1>9. DataPart'
  BY <1>0, <1>1, EmptyMapFacts, SameLayout
  DEF XFInv, DataPart, DataIntact, InBody
<1> QED BY <1>4, <1>5, <1>6, <1>8, <1>9 DEF XFInv

--------------------------------------------------------------------------------
LEMMA RestoreSPInv ==
  ASSUME XFInv, RestoreSP
  PROVE  XFInv'
<1>0. /\ TypeOK /\ InBody /\ pc = "body" /\ pc' = "restore" /\ idx' = NumCSI
      /\ regs' = IF hasFP(fn) THEN [regs EXCEPT !["sp"] = regs["a15"]] ELSE regs
      /\ dyn' = {} /\ saves' = {} /\ shadow' = EmptyMap
      /\ UNCHANGED <<fn, mem, amt, args, cfa>>
  BY DEF XFInv, RestoreSP, InBody
<1>1. /\ NumCSI \in Nat /\ FrameBottom \in Int /\ sp \in Int
      /\ amt = 0 /\ CallAdjust(amt) = 0 /\ regs \in [Regs -> Int]
  BY <1>0, Areas, Reach DEF XFInv, CallPart, CallAdjust, TypeOK
<1>2. /\ hasFP(fn) => regs["a15"] = FrameBottom
      /\ ~hasFP(fn) => sp = FrameBottom
      /\ \A r \in CSRegs \ SavedRegs(fn) : regs[r] = EntryRegs[r]
      /\ \A k \in 1 .. NumCSI : Saved(k)
  BY <1>0, <1>1 DEF XFInv, StagePart, hasFP
<1>3. regs' \in [Regs -> Int] /\ \A r \in CSRegs : regs'[r] = regs[r]
  BY <1>0, <1>1 DEF Regs, CSRegs
<1>4. sp' = FrameBottom
  BY <1>0, <1>1, <1>2 DEF sp, Regs
<1>5. TypeOK'
  BY <1>0, <1>1, <1>3, EmptyMapFacts, SameLayout DEF TypeOK
<1>6. StagePart'
  <2>1. \A k \in 1 .. NumCSI : Saved(k)'
    BY <1>0, <1>2, SameLayout DEF Saved
  <2>2. {fn.csi[k] : k \in 1 .. NumCSI} = SavedRegs(fn)
    BY <1>0, FunctionsAssumption DEF TypeOK, FnOK, NumCSI
  <2>3. /\ idx' \in 0 .. NumCSI
        /\ \A r \in CSRegs \ {fn.csi[k] : k \in 1 .. NumCSI} :
             regs'[r] = EntryRegs[r]
    BY <1>0, <1>1, <1>2, <1>3, <2>2
  <2> QED
    BY <1>0, <1>4, <2>1, <2>3, SameLayout DEF StagePart, InBody
<1>7. CallPart' /\ DynPart' /\ DataPart' /\ CFAPart'
  BY <1>0 DEF XFInv, CallPart, DynPart, DataPart, CFAPart, InBody
<1> QED BY <1>5, <1>6, <1>7 DEF XFInv

LEMMA RestoreCSRInv ==
  ASSUME XFInv, RestoreCSR
  PROVE  XFInv'
<1>0. /\ TypeOK /\ pc = "restore" /\ pc' = "restore" /\ idx >= 1
      /\ idx' = idx - 1
      /\ regs' = [regs EXCEPT ![fn.csi[idx]] = mem[SlotAddr(idx)]]
      /\ UNCHANGED <<fn, mem, amt, args, dyn, saves, shadow, cfa>>
  BY DEF XFInv, RestoreCSR, bodyVars
<1>1. /\ idx \in 1 .. NumCSI /\ NumCSI \in Nat /\ sp = FrameBottom
      /\ \A k \in 1 .. idx : Saved(k)
      /\ \A r \in CSRegs \ {fn.csi[k] : k \in 1 .. idx} : regs[r] = EntryRegs[r]
  BY <1>0, Areas DEF XFInv, StagePart
<1> DEFINE r0 == fn.csi[idx]
<1>2. r0 \in CSRegs /\ mem[SlotAddr(idx)] = EntryRegs[r0]
  <2>1. SlotAddr(idx) = SlotAt(idx) /\ r0 \in CSRegs
    BY <1>0, <1>1, Areas
  <2>2. Saved(idx)
    BY <1>1
  <2> QED BY <2>1, <2>2 DEF Saved
<1>3. regs' = [regs EXCEPT ![r0] = EntryRegs[r0]]
  BY <1>0, <1>2
<1>4. \A r \in CSRegs \ {fn.csi[k] : k \in 1 .. idx - 1} : regs'[r] = EntryRegs[r]
  <2> SUFFICES ASSUME NEW r \in CSRegs, r \notin {fn.csi[k] : k \in 1 .. idx - 1}
               PROVE  regs'[r] = EntryRegs[r]
    OBVIOUS
  <2>1. r \in DOMAIN regs
    BY <1>0 DEF TypeOK, Regs
  <2>2. CASE r = r0
    BY <1>3, <2>1, <2>2
  <2>3. CASE r # r0
    <3>1. r \notin {fn.csi[k] : k \in 1 .. idx}
      BY <1>1, <2>3
    <3>2. regs[r] = EntryRegs[r]
      BY <1>1, <3>1
    <3> QED BY <1>3, <2>1, <2>3, <3>2
  <2> QED BY <2>2, <2>3
<1> HIDE DEF r0
<1>5. /\ regs' \in [Regs -> Int] /\ regs'["sp"] = regs["sp"]
      /\ idx' \in 0 .. NumCSI
  <2>1. r0 \in CSRegs /\ EntryRegs[r0] \in Int /\ regs \in [Regs -> Int]
    BY <1>0, <1>2, EntryAssumption DEF TypeOK, Regs
  <2>2. regs' \in [Regs -> Int] /\ regs'["sp"] = regs["sp"]
    BY <1>3, <2>1 DEF Regs, CSRegs
  <2>3. idx' \in 0 .. NumCSI
    BY <1>0, <1>1
  <2> QED BY <2>2, <2>3
<1>6. TypeOK'
  BY <1>0, <1>1, <1>5, SameLayout DEF TypeOK
<1>7. StagePart'
  <2>1. \A k \in 1 .. idx - 1 : Saved(k)'
    BY <1>0, <1>1, SameLayout DEF Saved
  <2>2. sp' = FrameBottom'
    BY <1>0, <1>1, <1>5, SameLayout DEF sp
  <2> QED
    BY <1>0, <1>4, <1>5, <2>1, <2>2, SameLayout DEF StagePart, InBody
<1>8. CallPart' /\ DynPart' /\ DataPart' /\ CFAPart'
  BY <1>0 DEF XFInv, CallPart, DynPart, DataPart, CFAPart, InBody
<1> QED BY <1>6, <1>7, <1>8 DEF XFInv

LEMMA FreeFrameInv ==
  ASSUME XFInv, FreeFrame
  PROVE  XFInv'
<1>0. /\ TypeOK /\ pc = "restore" /\ pc' = "done" /\ idx = 0
      /\ regs' = IF StackSize(fn) = 0 THEN regs
                 ELSE [regs EXCEPT !["sp"] = sp + StackSize(fn)]
      /\ UNCHANGED <<fn, idx, mem, amt, args, dyn, saves, shadow, cfa>>
  BY DEF XFInv, FreeFrame, bodyVars, sp
<1>1. /\ FrameBottom + StackSize(fn) = EntryRegs["sp"]
      /\ FrameBottom \in Int /\ regs \in [Regs -> Int]
      /\ EntryRegs \in [Regs -> Int]
  BY <1>0, Areas, EntryAssumption DEF TypeOK
<1>2. sp = FrameBottom /\ \A r \in CSRegs : regs[r] = EntryRegs[r]
  BY <1>0 DEF XFInv, StagePart, InBody
<1>3. regs' \in [Regs -> Int] /\ \A r \in CSRegs : regs'[r] = regs[r]
  BY <1>0, <1>1, <1>2, Areas DEF Regs, CSRegs
<1>4. regs'["sp"] = EntryRegs["sp"]
  BY <1>0, <1>1, <1>2 DEF sp, Regs
<1>5. regs' = EntryRegs
  BY <1>1, <1>2, <1>3, <1>4 DEF Regs
<1>6. TypeOK'
  BY <1>0, <1>3, SameLayout DEF TypeOK
<1>7. StagePart' /\ CallPart' /\ DynPart' /\ DataPart' /\ CFAPart'
  BY <1>0, <1>5
  DEF XFInv, StagePart, CallPart, DynPart, DataPart, CFAPart, InBody
<1> QED BY <1>6, <1>7 DEF XFInv

LEMMA InterruptInv ==
  ASSUME XFInv, NEW v \in Values, Interrupt(v)
  PROVE  XFInv'
<1>0. /\ TypeOK /\ v \in Int
      /\ mem' = Scribble(mem, sp, v)
      /\ UNCHANGED <<fn, pc, idx, regs, amt, args, dyn, saves, shadow, cfa>>
  BY ValuesAssumption DEF XFInv, Interrupt, bodyVars
<1>1. sp \in Int
  BY <1>0 DEF TypeOK, sp, Regs
<1>2. /\ IsMap(mem') /\ DOMAIN mem' = DOMAIN mem
      /\ \A x \in DOMAIN mem : x >= sp => mem'[x] = mem[x]
      /\ DOMAIN mem \subseteq Int
  <2>1. IsMap(mem)
    BY <1>0 DEF TypeOK
  <2> QED BY <1>0, <1>1, <2>1 DEF IsMap, Scribble
<1>3. /\ LocalAt(0) \in Int /\ fn.local \in Nat /\ OutgoingArea(fn) \in Nat
      /\ FrameBottom \in Int /\ FrameBottom + OutgoingArea(fn) <= LocalAt(0)
  BY <1>0, Areas DEF LayoutOK
<1>4. TypeOK'
  BY <1>0, <1>2, SameLayout DEF TypeOK
<1>5. CallPart' /\ CFAPart'
  BY <1>0, SameLayout DEF XFInv, CallPart, CFAPart, InBody
<1>6. sp' = sp /\ CallAdjust(amt)' = CallAdjust(amt)
  BY <1>0 DEF sp, CallAdjust
<1>7. DynPart'
  BY <1>0, <1>6, SameLayout DEF XFInv, DynPart, InBody
<1>8. pc \in {"spill", "restore"} \/ InBody => sp <= FrameBottom
  <2>1. pc = "spill" => sp = FrameBottom
    BY EntryAssumption DEF XFInv, StagePart, sp, Regs
  <2>2. pc = "restore" => sp = FrameBottom
    BY DEF XFInv, StagePart
  <2>3. InBody => sp <= FrameBottom
    BY Reach
  <2> QED BY <1>1, <1>3, <2>1, <2>2, <2>3
<1>9. pc \in {"spill", "restore"} \/ InBody => MemKept(LocalAt(0) + fn.local)
  BY <1>1, <1>2, <1>3, <1>8 DEF MemKept
<1>10. StagePart'
  <2>1. CASE InBody
    BY <1>0, <1>9, <2>1, StoreStage
  <2>2. CASE pc \in {"spill", "restore"}
    <3>1. MemKept(LocalAt(0) + fn.local) /\ NumCSI \in Nat
      BY <1>0, <1>9, <2>2, Areas
    <3>2. CASE pc = "spill"
      <4>1. /\ idx \in 1 .. NumCSI + 1
            /\ regs = [EntryRegs EXCEPT !["sp"] = FrameBottom]
            /\ \A k \in 1 .. idx - 1 : Saved(k)
        BY <3>2 DEF XFInv, StagePart
      <4>2. \A k \in 1 .. idx - 1 : Saved(k)'
        BY <1>0, <3>1, <4>1, SavedKept
      <4> QED
        BY <1>0, <3>2, <4>1, <4>2, SameLayout DEF StagePart, InBody
    <3>3. CASE pc = "restore"
      <4>1. /\ idx \in 0 .. NumCSI /\ sp = FrameBottom
            /\ \A k \in 1 .. idx : Saved(k)
            /\ \A r \in CSRegs \ {fn.csi[k] : k \in 1 .. idx} :
                 regs[r] = EntryRegs[r]
        BY <3>3 DEF XFInv, StagePart
      <4>2. \A k \in 1 .. idx : Saved(k)'
        BY <1>0, <3>1, <4>1, SavedKept
      <4> QED
        BY <1>0, <1>6, <3>3, <4>1, <4>2, SameLayout DEF StagePart, InBody
    <3> QED BY <2>2, <3>2, <3>3
  <2>3. CASE pc \in {"alloc", "done"}
    BY <1>0, <2>3 DEF XFInv, StagePart, InBody
  <2> QED BY <1>0, <2>1, <2>2, <2>3 DEF TypeOK, InBody
<1>11. DataPart'
  <2> SUFFICES ASSUME InBody
               PROVE  DataPart'
    BY <1>0 DEF DataPart, InBody
  <2>0. /\ amt \in Nat /\ sp + amt <= LocalAt(0)
        /\ \A a \in dyn : sp + amt <= a
    BY Reach
  <2>1. \A x \in DOMAIN shadow :
          x \in dyn \/ (LocalAt(0) <= x /\ x < LocalAt(0) + fn.local)
    BY DEF XFInv, DataPart
  <2>2. ASSUME FrameRegStable, NEW x \in DOMAIN shadow
        PROVE  x \in DOMAIN mem' /\ mem'[x] = shadow[x]
    <3>1. x \in DOMAIN mem /\ mem[x] = shadow[x]
      BY <2>2 DEF XFInv, DataPart, DataIntact, InBody
    <3>2. x \in Int
      BY <1>0 DEF TypeOK, IsMap
    <3>3. x >= sp
      BY <1>1, <1>3, <2>0, <2>1, <3>2
    <3> QED BY <1>2, <3>1, <3>3
  <2>3. ASSUME FrameRegStable, NEW x \in DOMAIN args
        PROVE  /\ 0 <= x /\ x < amt
               /\ sp + x \in DOMAIN mem' /\ mem'[sp + x] = args[x]
    <3>1. /\ 0 <= x /\ x < amt
          /\ sp + x \in DOMAIN mem /\ mem[sp + x] = args[x]
      BY <2>3 DEF XFInv, DataPart
    <3>2. x \in Int
      BY <1>0 DEF TypeOK, IsMap
    <3>3. sp + x >= sp
      BY <1>1, <3>1, <3>2
    <3> QED BY <1>2, <3>1, <3>3
  <2> QED
    BY <1>0, <1>6, <2>1, <2>2, <2>3, SameLayout DEF DataPart, DataIntact
<1> QED BY <1>4, <1>5, <1>7, <1>10, <1>11 DEF XFInv

LEMMA StutterInv ==
  ASSUME XFInv, UNCHANGED vars
  PROVE  XFInv'
<1>0. UNCHANGED <<fn, pc, idx, regs, mem, amt, args, dyn, saves, shadow, cfa>>
  BY DEF vars
<1>1. sp' = sp /\ CallAdjust(amt)' = CallAdjust(amt)
  BY <1>0 DEF sp, CallAdjust
<1>2. TypeOK' /\ CallPart' /\ CFAPart'
  BY <1>0, SameLayout DEF XFInv, TypeOK, CallPart, CFAPart, InBody
<1>3. DynPart' /\ DataPart'
  BY <1>0, <1>1, SameLayout DEF XFInv, DynPart, DataPart, DataIntact, InBody
<1>4. StagePart'
  BY <1>0, <1>1, SameLayout DEF XFInv, StagePart, InBody, Saved
<1> QED BY <1>2, <1>3, <1>4 DEF XFInv

--------------------------------------------------------------------------------
LEMMA NextInv ==
  ASSUME XFInv, [Next]_vars
  PROVE  XFInv'
<1>1. CASE AllocFrame
  BY <1>1, AllocFrameInv
<1>2. CASE SpillCSR
  BY <1>2, SpillCSRInv
<1>3. CASE SetFP
  BY <1>3, SetFPInv
<1>4. CASE Body
  <2>1. CASE \E r \in CSRegs, v \in Values : WriteReg(r, v)
    BY <2>1, WriteRegInv
  <2>2. CASE \E o \in fn.probes, v \in Values : StoreLocal(o, v)
    BY <2>2, StoreLocalInv
  <2>3. CASE \E n \in AllocaSizes : Alloca(n)
    BY <2>3, AllocaInv
  <2>4. CASE \E a \in dyn, v \in Values : StoreDyn(a, v)
    BY <2>4, StoreDynInv
  <2>5. CASE StackSave
    BY <2>5, StackSaveInv
  <2>6. CASE \E s \in saves : StackRestore(s)
    BY <2>6, StackRestoreInv
  <2>7. CASE \E a \in fn.callAmts : CallDown(a)
    BY <2>7, CallDownInv
  <2>8. CASE \E o \in {0, amt - SlotSize}, v \in Values : StoreArg(o, v)
    BY <2>8, StoreArgInv
  <2>9. CASE \E v \in Values : Call(v)
    BY <2>9, CallInv
  <2>10. CASE CallUp
    BY <2>10, CallUpInv
  <2> QED
    BY <1>4, <2>1, <2>2, <2>3, <2>4, <2>5, <2>6, <2>7, <2>8, <2>9, <2>10 DEF Body
<1>5. CASE RestoreSP
  BY <1>5, RestoreSPInv
<1>6. CASE RestoreCSR
  BY <1>6, RestoreCSRInv
<1>7. CASE FreeFrame
  BY <1>7, FreeFrameInv
<1>8. CASE \E v \in Values : Interrupt(v)
  BY <1>8, InterruptInv
<1>9. CASE UNCHANGED vars
  BY <1>9, StutterInv
<1> QED
  BY <1>1, <1>2, <1>3, <1>4, <1>5, <1>6, <1>7, <1>8, <1>9 DEF Next

(* XFInv holds in every reachable state.                                   *)
THEOREM Inductive == Spec => []XFInv
<1>1. Init => XFInv
  BY InitInv
<1>2. XFInv /\ [Next]_vars => XFInv'
  BY NextInv
<1> QED BY <1>1, <1>2, PTL DEF Spec

--------------------------------------------------------------------------------
(***************************************************************************)
(* The properties.                                                         *)
(***************************************************************************)

(* Every variable keeps its type, for every function and entry state.      *)
THEOREM TypeCorrect == Spec => []TypeOK
<1>1. XFInv => TypeOK
  BY DEF XFInv
<1> QED BY <1>1, Inductive, PTL

(* A returned function leaves sp, the return address and every callee-     *)
(* saved register as its caller left them, whatever frame it had and       *)
(* whatever its body, its callees and the interrupts did.                  *)
THEOREM CalleeSaved == Spec => []CalleeSavedPreserved
<1>1. XFInv => CalleeSavedPreserved
  BY DEF XFInv, StagePart, CalleeSavedPreserved
<1> QED BY <1>1, Inductive, PTL

(* Locals and allocas read back what was last stored in them, in every     *)
(* function with a frame pointer or a reserved call frame.                 *)
THEOREM ProgramData == Spec => []ProgramDataIntact
<1>1. XFInv => ProgramDataIntact
  BY DEF XFInv, DataPart, InBody, ProgramDataIntact, DataIntact
<1> QED BY <1>1, Inductive, PTL

(* The stack arguments of a call are in place when it is made.             *)
THEOREM OutgoingArgs == Spec => []OutgoingArgsIntact
<1>1. XFInv => OutgoingArgsIntact
  BY DEF XFInv, DataPart, InBody, OutgoingArgsIntact
<1> QED BY <1>1, Inductive, PTL

(* The prologue's directives describe the frame at every call.             *)
THEOREM Unwind == Spec => []UnwindCorrect
<1>1. ASSUME XFInv, pc \in {"call", "called"}, FrameRegStable
      PROVE  /\ CFAValue = EntryRegs["sp"]
             /\ \A k \in 1 .. NumCSI :
                  /\ CFAValue + CSROffset(fn, k) \in DOMAIN mem
                  /\ mem[CFAValue + CSROffset(fn, k)] = EntryRegs[fn.csi[k]]
  <2>1. TypeOK /\ InBody /\ amt \in fn.callAmts /\ FnOK(fn)
    BY <1>1, FunctionsAssumption DEF XFInv, InBody, CallPart, TypeOK
  <2>2. fn.adjustsStack
    BY <2>1 DEF FnOK
  <2>3. cfa = [reg |-> getFrameRegister(fn), off |-> StackSize(fn)]
    <3>1. PrologueEmitted
      BY <2>2 DEF PrologueEmitted
    <3>2. InBody /\ CFAPart
      BY <1>1, <2>1 DEF XFInv
    <3> QED BY <3>1, <3>2 DEF CFAPart
  <2>4. regs[getFrameRegister(fn)] = FrameBottom
    <3>1. CASE hasFP(fn)
      BY <1>1, <2>1, <3>1 DEF XFInv, StagePart, getFrameRegister
    <3>2. CASE ~hasFP(fn)
      <4>1. sp + CallAdjust(amt) = FrameBottom /\ CallAdjust(amt) = 0
        BY <1>1, <2>1, <3>2
        DEF XFInv, StagePart, hasFP, FrameRegStable, CallAdjust
      <4>2. sp \in Int
        BY <2>1 DEF TypeOK, sp, Regs
      <4> QED BY <3>2, <4>1, <4>2 DEF getFrameRegister, sp
    <3> QED BY <3>1, <3>2
  <2>5. CFAValue = EntryRegs["sp"]
    <3>1. FrameBottom + StackSize(fn) = EntryRegs["sp"]
      BY <2>1, Areas
    <3> QED BY <2>3, <2>4, <3>1 DEF CFAValue
  <2>6. \A k \in 1 .. NumCSI : Saved(k)
    BY <1>1, <2>1 DEF XFInv, StagePart
  <2> QED BY <2>5, <2>6 DEF Saved, SlotAt
<1>2. XFInv => UnwindCorrect
  BY <1>1 DEF UnwindCorrect
<1> QED BY <1>2, Inductive, PTL

(* sp is 16-byte aligned at every call of a function whose call frame is   *)
(* reserved.                                                               *)
THEOREM SPAligned == Spec => []SPAlignedAtCalls
<1>1. ASSUME XFInv, pc = "call", hasReservedCallFrame(fn)
      PROVE  sp % StackAlignment = 0
  <2>1. TypeOK /\ InBody /\ amt \in fn.callAmts /\ FnOK(fn) /\ LayoutOK(fn)
    BY <1>1, FunctionsAssumption, Areas DEF XFInv, InBody, CallPart, TypeOK
  <2>2. fn.adjustsStack /\ ~fn.varSized
    BY <1>1, <2>1 DEF FnOK, hasReservedCallFrame
  <2>3. StackSize(fn) \in Nat /\ StackSize(fn) % 16 = 0
    BY <2>1, <2>2 DEF LayoutOK, StackAlignment
  <2>4. EntryRegs["sp"] \in Int /\ EntryRegs["sp"] % 16 = 0
    BY EntryAssumption DEF Regs, StackAlignment
  <2>5. sp = EntryRegs["sp"] - StackSize(fn)
    <3>1. sp + CallAdjust(amt) = FrameBottom /\ CallAdjust(amt) = 0
      BY <1>1, <2>1, <2>2 DEF XFInv, StagePart, CallAdjust
    <3>2. sp \in Int
      BY <2>1 DEF TypeOK, sp, Regs
    <3> QED BY <3>1, <3>2 DEF FrameBottom
  <2> DEFINE e == EntryRegs["sp"]
             s == StackSize(fn)
  <2>6. e \in Int /\ s \in Int
    BY <2>3, <2>4
  <2>7. e % 16 = 0 /\ s % 16 = 0
    BY <2>3, <2>4
  <2>8. sp = e - s
    BY <2>5
  <2> HIDE DEF e, s
  <2>9. (e - s) % 16 = 0
    BY <2>6, <2>7, ModDifference
  <2> QED BY <2>8, <2>9 DEF StackAlignment
<1>2. XFInv => SPAlignedAtCalls
  BY <1>1 DEF SPAlignedAtCalls
<1> QED BY <1>2, Inductive, PTL
================================================================================
