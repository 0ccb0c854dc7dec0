------------------------- MODULE XtensaCallConv_proofs -------------------------
(***************************************************************************)
(* Both sides of a call agree, for every call that passes by value in      *)
(* registers only and keeps its live values in registers the callee saves. *)
(*                                                                         *)
(* The invariant follows a word from the caller's store or copy to the     *)
(* callee's load or live-in copy: where it is at each stage, and that      *)
(* neither a save nor another store is at its place.                       *)
(***************************************************************************)
EXTENDS XtensaCallConv, FiniteSetTheorems, TLAPS

(* LowerCall does not store a by-value argument with a stack location (a   *)
(* TODO of the code), and the call does not define a6 .. a11.              *)
CallsSettled ==
  \A c \in Calls :
    /\ \A k \in 1 .. NumArgs(c) : isByVal(c, k) => inReg(k)
    /\ c.live \subseteq CSRegs

InCaller == pc \in {"start", "args", "entry"}
InCallee == pc \in {"body", "varargs"}
Returned == pc \in {"returned", "done"}

Typed ==
  /\ TypeOK
  /\ mem \in [DOMAIN mem -> Words]
  /\ ~InCaller => livein \in [0 .. 7 -> Words]
  /\ got \in Seq(Words)
  /\ results \in Seq(Words)

(* The stack arguments, once stored, stay in place.                        *)
StackPart ==
  /\ pc = "args" => todo \subseteq 7 .. NumArgs(call)
  /\ pc = "entry" => todo = {}
  /\ \A k \in 7 .. NumArgs(call) :
       pc # "start" /\ (pc = "args" => k \notin todo)
         => 4 * (k - 7) \in DOMAIN mem /\ mem[4 * (k - 7)] = Actual(call, k)

(* Argument k goes through register k + 1 into the callee's live-ins.      *)
RegPart ==
  /\ pc = "start" => n = 0
  /\ pc = "args" =>
       n <= NumRegArgs(call) /\ \A k \in 1 .. n : regs[k + 1] = Actual(call, k)
  /\ pc = "entry" =>
       n = 0 /\ \A k \in 1 .. NumRegArgs(call) : regs[k + 1] = Actual(call, k)
  /\ ~InCaller =>
       \A k \in 1 .. NumRegArgs(call) : livein[k + 1] = Actual(call, k)

(* The save area is below the stack arguments and holds the live-ins.      *)
SavePart ==
  /\ InCallee => \A t \in todo : t > 0 => t \in 7 .. NumFormals(call)
  /\ pc = "varargs" => call.variadic /\ \A t \in todo : t > 0
  /\ InCallee /\ call.variadic =>
       \A r \in 0 .. 7 :
         -1 - r \notin todo
           => 4 * (r - 8) \in DOMAIN mem /\ mem[4 * (r - 8)] = livein[r]

WalkPart ==
  /\ InCaller \/ pc = "body" => got = <<>>
  /\ pc = "varargs" => va = 4 * Len(got) - 32
  /\ VaWalkContiguous

ResultPart ==
  /\ InCaller => DOMAIN retbuf = {}
  /\ ~InCaller /\ CanLowerReturn(call) =>
       n <= call.results /\ \A i \in 1 .. n : regs[i + 1] = Result(i)
  /\ ~InCaller /\ ~CanLowerReturn(call) =>
       IsFiniteSet(DOMAIN retbuf) /\ Cardinality(DOMAIN retbuf) = n
  /\ \A i \in DOMAIN retbuf : retbuf[i] = Result(i)
  /\ Returned => n = call.results
  /\ Len(results) <= call.results
  /\ \A i \in 1 .. Len(results) : results[i] = Result(i)
  /\ pc = "done" => Len(results) = call.results

LivePart == \A r \in call.live : regs[r] = <<"live", r>>

CCInv ==
  /\ Typed
  /\ StackPart
  /\ RegPart
  /\ SavePart
  /\ FormalsAreActuals
  /\ WalkPart
  /\ ResultPart
  /\ LivePart

--------------------------------------------------------------------------------
(* The conventions in numbers.                                             *)
LEMMA Conventions ==
  /\ Len(ArgRegs) = 6 /\ \A k \in 1 .. 6 : ArgRegs[k] = k + 1
  /\ Len(RetRegs) = 4 /\ \A i \in 1 .. 4 : RetRegs[i] = i + 1
  /\ \A k \in Int : (inReg(k) <=> k <= 6) /\ LocMemOffset(k) = 4 * (k - 7)
  /\ \A k \in Int : FormalOffset(k) = 4 * (k - 7)
  /\ \A r \in Int : VaArgOffset(r) = 4 * (r - 8)
  /\ NumArgGPRs = 8
<1>1. Len(ArgRegs) = 6 /\ \A k \in 1 .. 6 : ArgRegs[k] = k + 1
  BY DEF ArgRegs
<1>2. Len(RetRegs) = 4 /\ \A i \in 1 .. 4 : RetRegs[i] = i + 1
  BY DEF RetRegs
<1> QED
  BY <1>1, <1>2 DEF inReg, LocMemOffset, FormalOffset, VaArgOffset, NumArgGPRs

(* How many words go where.                                                *)
LEMMA Counts ==
  ASSUME NEW c \in Calls
  PROVE  /\ c.results \in Nat /\ c.fixed \in Nat /\ Len(c.args) \in Nat
         /\ c.fixed <= Len(c.args) /\ c.variadic \in BOOLEAN
         /\ CanLowerReturn(c) <=> c.results <= 4
         /\ Hidden(c) = IF c.results <= 4 THEN 0 ELSE 1
         /\ NumArgs(c) = Hidden(c) + Len(c.args)
         /\ NumFormals(c) = Hidden(c) + c.fixed
         /\ NumRegArgs(c) = IF NumArgs(c) <= 6 THEN NumArgs(c) ELSE 6
<1>1. CallOK(c)
  BY CallsAssumption
<1>2. c.args \in Seq(BOOLEAN) /\ c.fixed \in 0 .. Len(c.args)
      /\ c.variadic \in BOOLEAN /\ c.results \in Nat
  BY <1>1 DEF CallOK
<1>3. Len(c.args) \in Nat
  BY <1>2
<1>4. CanLowerReturn(c) <=> c.results <= 4
  BY Conventions DEF CanLowerReturn
<1>5. Hidden(c) = IF c.results <= 4 THEN 0 ELSE 1
  BY <1>4 DEF Hidden
<1>6. NumArgs(c) = Hidden(c) + Len(c.args) /\ NumFormals(c) = Hidden(c) + c.fixed
  BY DEF NumArgs, NumFormals
<1>7. NumArgs(c) \in Int
  BY <1>2, <1>3, <1>5, <1>6
<1>8. NumRegArgs(c) = IF NumArgs(c) <= 6 THEN NumArgs(c) ELSE 6
  BY <1>7, Conventions DEF NumRegArgs
<1> QED
  BY <1>2, <1>3, <1>4, <1>5, <1>6, <1>8

LEMMA LiveSaved ==
  ASSUME CallsSettled, NEW c \in Calls
  PROVE  c.live \subseteq 12 .. 15
<1>1. c.live \subseteq CSRegs
  BY DEF CallsSettled
<1>2. c.live \cap CallDefs = {}
  BY CallsAssumption DEF CallOK
<1> QED
  BY <1>1, <1>2 DEF CSRegs, CallDefs

(* What is passed is a word.                                               *)
LEMMA ActualIsWord ==
  ASSUME call \in Calls, NEW k \in 1 .. NumArgs(call)
  PROVE  Actual(call, k) \in Words
<1>1. CASE k <= Hidden(call)
  BY <1>1 DEF Actual, Words
<1>2. CASE ~(k <= Hidden(call))
  <2>1. k - Hidden(call) \in 1 .. Len(call.args)
    BY <1>2, Counts
  <2> QED
    BY <1>2, <2>1 DEF Actual, Words
<1> QED
  BY <1>1, <1>2

(* Stores put what they put and leave the rest.                            *)
LEMMA PutFacts ==
  ASSUME NEW m, NEW a, NEW v
  PROVE  /\ DOMAIN Put(m, a, v) = DOMAIN m \cup {a}
         /\ Put(m, a, v)[a] = v
         /\ \A x \in DOMAIN m : x # a => Put(m, a, v)[x] = m[x]
  BY DEF Put

LEMMA PutType ==
  ASSUME NEW S, NEW D, NEW m \in [D -> S], NEW a, NEW v \in S
  PROVE  Put(m, a, v) \in [DOMAIN Put(m, a, v) -> S]
  BY DEF Put
--------------------------------------------------------------------------------
LEMMA InitInv ==
  ASSUME CallsSettled, Init
  PROVE  CCInv
<1> USE DEF Init
<1>1. call \in Calls /\ pc = "start" /\ InCaller /\ ~InCallee /\ ~Returned
  BY DEF InCaller, InCallee, Returned
<1>2. regs \in [ARs -> Words]
  BY DEF Words
<1>3. mem \in [DOMAIN mem -> Words] /\ DOMAIN mem = {} /\ DOMAIN formals = {}
      /\ DOMAIN retbuf = {}
  BY DEF Empty
<1>4. Typed
  BY <1>1, <1>2, <1>3, Counts DEF Typed, TypeOK
<1>5. StackPart /\ RegPart /\ SavePart
  BY <1>1 DEF StackPart, RegPart, SavePart
<1>6. FormalsAreActuals /\ WalkPart
  BY <1>1, <1>3 DEF FormalsAreActuals, WalkPart, VaWalkContiguous
<1>7. ResultPart
  BY <1>1, <1>3, Counts DEF ResultPart
<1>8. LivePart
  BY <1>1, LiveSaved DEF LivePart, ARs
<1> QED
  BY <1>4, <1>5, <1>6, <1>7, <1>8 DEF CCInv

LEMMA SameWords ==
  ASSUME call' = call
  PROVE  Words' = Words
  BY DEF Words

(* What the invariant says of every state.                                 *)
LEMMA Basics ==
  ASSUME CCInv
  PROVE  /\ call \in Calls /\ n \in Nat
         /\ regs \in [ARs -> Words] /\ mem \in [DOMAIN mem -> Words]
         /\ NumArgs(call) \in Nat /\ NumFormals(call) \in Nat
         /\ NumFormals(call) <= NumArgs(call)
         /\ NumRegArgs(call) \in 0 .. 6 /\ NumRegArgs(call) <= NumArgs(call)
         /\ call.results \in Nat
<1>1. call \in Calls /\ regs \in [ARs -> Words] /\ mem \in [DOMAIN mem -> Words]
      /\ n \in 0 .. 6 + call.results
  BY DEF CCInv, Typed, TypeOK
<1>2. /\ call.results \in Nat /\ call.fixed \in Nat /\ Len(call.args) \in Nat
      /\ call.fixed <= Len(call.args) /\ Hidden(call) \in 0 .. 1
      /\ NumArgs(call) = Hidden(call) + Len(call.args)
      /\ NumFormals(call) = Hidden(call) + call.fixed
      /\ NumRegArgs(call) = IF NumArgs(call) <= 6 THEN NumArgs(call) ELSE 6
  BY <1>1, Counts
<1>3. NumArgs(call) \in Nat /\ NumFormals(call) \in Nat
      /\ NumFormals(call) <= NumArgs(call)
  BY <1>2
<1>4. NumRegArgs(call) \in 0 .. 6 /\ NumRegArgs(call) <= NumArgs(call)
  BY <1>2, <1>3
<1>5. n \in Nat
  BY <1>1, <1>2
<1> QED
  BY <1>1, <1>2, <1>3, <1>4, <1>5
--------------------------------------------------------------------------------
(* The caller.                                                             *)
LEMMA CallSeqStartInv ==
  ASSUME CallsSettled, CCInv, CallSeqStart
  PROVE  CCInv'
<1>1. /\ pc = "start" /\ pc' = "args"
      /\ todo' = {k \in 1 .. NumArgs(call) : ~inReg(k) /\ ~isByVal(call, k)}
      /\ UNCHANGED <<call, regs, mem, n, livein, formals, va, got, retbuf, results>>
  BY DEF CallSeqStart
<1>2. Words' = Words
  BY <1>1, SameWords
<1>3. todo' = 7 .. NumArgs(call)
  BY <1>1, Basics, Conventions DEF CallsSettled
<1>4. InCaller /\ InCaller' /\ ~InCallee' /\ ~Returned'
  BY <1>1 DEF InCaller, InCallee, Returned
<1>5. Typed'
  BY <1>1, <1>2, <1>3, <1>4, Basics DEF CCInv, Typed, TypeOK, NumArgGPRs
<1>6. StackPart'
  BY <1>1, <1>3 DEF StackPart
<1>7. RegPart'
  BY <1>1, <1>4, Basics DEF CCInv, RegPart
<1>8. SavePart' /\ FormalsAreActuals' /\ LivePart'
  BY <1>1, <1>4 DEF CCInv, SavePart, FormalsAreActuals, LivePart
<1>9. WalkPart' /\ ResultPart'
  BY <1>1, <1>4 DEF CCInv, WalkPart, VaWalkContiguous, ResultPart, Returned
<1> QED
  BY <1>5, <1>6, <1>7, <1>8, <1>9 DEF CCInv

LEMMA StoreStackArgInv ==
  ASSUME CallsSettled, CCInv, NEW k \in todo, StoreStackArg(k)
  PROVE  CCInv'
<1>1. /\ pc = "args" /\ mem' = Put(mem, LocMemOffset(k), Actual(call, k))
      /\ todo' = todo \ {k}
      /\ UNCHANGED <<call, pc, regs, n, livein, formals, va, got, retbuf, results>>
  BY DEF StoreStackArg
<1>2. Words' = Words
  BY <1>1, SameWords
<1>3. k \in 7 .. NumArgs(call) /\ todo \subseteq 7 .. NumArgs(call)
  BY <1>1 DEF CCInv, StackPart
<1>4. LocMemOffset(k) = 4 * (k - 7)
  BY <1>3, Conventions
<1>5. Actual(call, k) \in Words
  BY <1>3, Basics, ActualIsWord
<1>6. InCaller /\ InCaller' /\ ~InCallee' /\ ~Returned'
  BY <1>1 DEF InCaller, InCallee, Returned
<1>7. /\ DOMAIN mem' = DOMAIN mem \cup {4 * (k - 7)}
      /\ mem'[4 * (k - 7)] = Actual(call, k)
      /\ \A x \in DOMAIN mem : x # 4 * (k - 7) => mem'[x] = mem[x]
  <2>1. mem' = Put(mem, 4 * (k - 7), Actual(call, k))
    BY <1>1, <1>4
  <2> QED
    BY <2>1 DEF Put
<1>8. mem' \in [DOMAIN mem' -> Words]
  BY <1>1, <1>5, Basics, PutType
<1>9. Typed'
  <2>1. 4 * (k - 7) \in {4 * j : j \in -8 .. NumArgs(call)}
    BY <1>3, Basics
  <2>2. TypeOK'
    BY <1>1, <1>2, <1>7, <2>1 DEF CCInv, Typed, TypeOK, NumArgGPRs
  <2> QED
    BY <1>1, <1>2, <1>6, <1>8, <2>2 DEF CCInv, Typed
<1>10. StackPart'
  <2> SUFFICES ASSUME NEW j \in 7 .. NumArgs(call), j \notin todo'
               PROVE  4 * (j - 7) \in DOMAIN mem' /\ mem'[4 * (j - 7)] = Actual(call, j)
    BY <1>1, <1>3 DEF StackPart
  <2>1. CASE j = k
    BY <2>1, <1>7
  <2>2. CASE j # k
    <3>1. 4 * (j - 7) \in DOMAIN mem /\ mem[4 * (j - 7)] = Actual(call, j)
      BY <1>1, <2>2 DEF CCInv, StackPart
    <3>2. 4 * (j - 7) # 4 * (k - 7)
      BY <1>3, <2>2
    <3> QED
      BY <1>7, <3>1, <3>2
  <2> QED
    BY <2>1, <2>2
<1>11. RegPart'
  BY <1>1, <1>6 DEF CCInv, RegPart
<1>12. SavePart' /\ FormalsAreActuals' /\ LivePart'
  BY <1>1, <1>6 DEF CCInv, SavePart, FormalsAreActuals, LivePart
<1>13. WalkPart' /\ ResultPart'
  BY <1>1, <1>6 DEF CCInv, WalkPart, VaWalkContiguous, ResultPart, Returned
<1> QED
  BY <1>9, <1>10, <1>11, <1>12, <1>13 DEF CCInv

LEMMA CopyRegArgInv ==
  ASSUME CallsSettled, CCInv, CopyRegArg
  PROVE  CCInv'
<1>1. /\ pc = "args" /\ n < NumRegArgs(call) /\ n' = n + 1
      /\ regs' = [regs EXCEPT ![ArgRegs[n + 1]] = Actual(call, n + 1)]
      /\ UNCHANGED <<call, pc, mem, todo, livein, formals, va, got, retbuf, results>>
  BY DEF CopyRegArg
<1>2. Words' = Words
  BY <1>1, SameWords
<1>3. n + 1 \in 1 .. NumRegArgs(call) /\ n + 1 \in 1 .. 6 /\ n + 1 \in 1 .. NumArgs(call)
  BY <1>1, Basics
<1>4. Actual(call, n + 1) \in Words
  BY <1>3, Basics, ActualIsWord
<1>5. regs' = [regs EXCEPT ![n + 2] = Actual(call, n + 1)]
  <2>1. ArgRegs[n + 1] = n + 2
    BY <1>3, Basics, Conventions
  <2> QED
    BY <1>1, <2>1
<1>6. InCaller /\ InCaller' /\ ~InCallee' /\ ~Returned'
  BY <1>1 DEF InCaller, InCallee, Returned
<1>7. n + 2 \in ARs /\ n + 2 \in 2 .. 7
  BY <1>3, Basics DEF ARs
<1>8. regs' \in [ARs -> Words]
  BY <1>4, <1>5, Basics
<1>9. Typed'
  <2>1. n' \in 0 .. 6 + call.results
    BY <1>1, <1>3, Basics
  <2> QED
    BY <1>1, <1>2, <1>6, <1>8, <2>1 DEF CCInv, Typed, TypeOK
<1>10. RegPart'
  <2>1. ASSUME NEW k \in 1 .. n + 1 PROVE regs'[k + 1] = Actual(call, k)
    <3>1. k + 1 \in ARs
      BY <1>3, Basics DEF ARs
    <3>2. CASE k = n + 1
      BY <3>1, <3>2, <1>5, Basics
    <3>3. CASE k # n + 1
      <4>1. k \in 1 .. n /\ k + 1 # n + 2
        BY <3>3, Basics
      <4>2. regs[k + 1] = Actual(call, k)
        BY <1>1, <4>1 DEF CCInv, RegPart
      <4> QED
        BY <3>1, <4>1, <4>2, <1>5, Basics
    <3> QED
      BY <3>2, <3>3
  <2> QED
    BY <1>1, <1>3, <1>6, <2>1 DEF RegPart
<1>11. LivePart'
  <2> SUFFICES ASSUME NEW r \in call.live PROVE regs'[r] = <<"live", r>>
    BY <1>1 DEF LivePart
  <2>1. r \in 12 .. 15
    BY Basics, LiveSaved
  <2>2. regs[r] = <<"live", r>> /\ r \in ARs /\ r # n + 2
    BY <2>1, <1>7 DEF CCInv, LivePart, ARs
  <2> QED
    BY <2>2, <1>5, Basics
<1>12. StackPart' /\ SavePart' /\ FormalsAreActuals'
  BY <1>1, <1>6 DEF CCInv, StackPart, SavePart, FormalsAreActuals
<1>13. WalkPart' /\ ResultPart'
  BY <1>1, <1>6 DEF CCInv, WalkPart, VaWalkContiguous, ResultPart, Returned
<1> QED
  BY <1>9, <1>10, <1>11, <1>12, <1>13 DEF CCInv

LEMMA CALL0Inv ==
  ASSUME CallsSettled, CCInv, CALL0
  PROVE  CCInv'
<1>1. /\ pc = "args" /\ pc' = "entry" /\ n = NumRegArgs(call) /\ n' = 0
      /\ todo = {}
      /\ regs' = [regs EXCEPT ![0] = <<"ra", 0>>]
      /\ UNCHANGED <<call, mem, todo, livein, formals, va, got, retbuf, results>>
  BY DEF CALL0
<1>2. Words' = Words
  BY <1>1, SameWords
<1>3. InCaller /\ InCaller' /\ ~InCallee' /\ ~Returned'
  BY <1>1 DEF InCaller, InCallee, Returned
<1>4. regs' \in [ARs -> Words]
  BY <1>1, Basics DEF Words
<1>5. Typed'
  BY <1>1, <1>2, <1>3, <1>4, Basics DEF CCInv, Typed, TypeOK
<1>6. RegPart'
  <2>1. ASSUME NEW k \in 1 .. NumRegArgs(call) PROVE regs'[k + 1] = Actual(call, k)
    <3>1. k + 1 \in ARs /\ k + 1 # 0
      BY Basics DEF ARs
    <3>2. regs[k + 1] = Actual(call, k)
      BY <1>1 DEF CCInv, RegPart
    <3> QED
      BY <1>1, <3>1, <3>2, Basics
  <2> QED
    BY <1>1, <1>3, <2>1 DEF RegPart
<1>7. LivePart'
  <2> SUFFICES ASSUME NEW r \in call.live PROVE regs'[r] = <<"live", r>>
    BY <1>1 DEF LivePart
  <2>1. r \in 12 .. 15
    BY Basics, LiveSaved
  <2>2. regs[r] = <<"live", r>> /\ r \in ARs /\ r # 0
    BY <2>1 DEF CCInv, LivePart, ARs
  <2> QED
    BY <1>1, <2>2, Basics
<1>8. StackPart'
  BY <1>1 DEF CCInv, StackPart
<1>9. SavePart' /\ FormalsAreActuals'
  BY <1>1, <1>3 DEF CCInv, SavePart, FormalsAreActuals
<1>10. WalkPart' /\ ResultPart'
  BY <1>1, <1>3 DEF CCInv, WalkPart, VaWalkContiguous, ResultPart, Returned
<1> QED
  BY <1>5, <1>6, <1>7, <1>8, <1>9, <1>10 DEF CCInv

--------------------------------------------------------------------------------
(* The callee.                                                             *)
LEMMA EntryInv ==
  ASSUME CallsSettled, CCInv, Entry
  PROVE  CCInv'
<1>1. /\ pc = "entry" /\ pc' = "body"
      /\ livein' = [r \in 0 .. 7 |-> regs[r]]
      /\ formals' = [k \in {j \in 1 .. NumFormals(call) : inReg(j)} |-> regs[ArgRegs[k]]]
      /\ regs' = [r \in ARs |-> IF r \in CSRegs \cup {sp} THEN regs[r] ELSE Junk]
      /\ todo' = {k \in 1 .. NumFormals(call) : ~inReg(k)}
                   \cup (IF call.variadic THEN {-1 - r : r \in 0 .. 7} ELSE {})
      /\ UNCHANGED <<call, mem, n, va, got, retbuf, results>>
  BY DEF Entry, NumArgGPRs
<1>2. Words' = Words
  BY <1>1, SameWords
<1>3. InCaller /\ ~InCaller' /\ InCallee' /\ ~Returned'
  BY <1>1 DEF InCaller, InCallee, Returned
<1>4. regs' \in [ARs -> Words]
  BY <1>1, Basics DEF Words
<1>5. livein' \in [0 .. 7 -> Words]
  BY <1>1, Basics DEF ARs
<1>6. /\ todo' \subseteq 7 .. NumFormals(call) \cup -8 .. -1
      /\ \A t \in todo' : t > 0 => t \in 7 .. NumFormals(call)
  BY <1>1, Basics, Conventions
<1>7. n = 0 /\ \A k \in 1 .. NumRegArgs(call) : regs[k + 1] = Actual(call, k)
  BY <1>1 DEF CCInv, RegPart
<1>8. Typed'
  <2>1. todo' \subseteq (-8 .. NumArgs(call)) \ {0}
    BY <1>6, Basics
  <2>2. DOMAIN formals' \subseteq 1 .. NumFormals(call)
    BY <1>1
  <2>3. TypeOK'
    BY <1>1, <1>2, <1>4, <2>1, <2>2 DEF CCInv, Typed, TypeOK, NumArgGPRs
  <2> QED
    BY <1>1, <1>2, <1>5, <2>3 DEF CCInv, Typed
<1>9. StackPart'
  BY <1>1 DEF CCInv, StackPart
<1>10. RegPart'
  <2>1. ASSUME NEW k \in 1 .. NumRegArgs(call) PROVE livein'[k + 1] = Actual(call, k)
    <3>1. k + 1 \in 0 .. 7
      BY Basics
    <3> QED
      BY <1>1, <1>7, <3>1
  <2> QED
    BY <1>1, <1>3, <2>1 DEF RegPart
<1>11. SavePart'
  <2>1. ASSUME call.variadic, NEW r \in 0 .. 7 PROVE -1 - r \in todo'
    BY <1>1, <2>1
  <2> QED
    BY <1>1, <1>6, <2>1 DEF SavePart
<1>12. FormalsAreActuals'
  <2> SUFFICES ASSUME NEW k \in 1 .. NumFormals(call), inReg(k)
               PROVE  formals'[k] = Actual(call, k)
    BY <1>1 DEF FormalsAreActuals
  <2>1. k \in 1 .. 6
    BY Basics, Conventions
  <2>2. k \in 1 .. NumRegArgs(call)
    <3>1. k <= NumArgs(call)
      BY <2>1, Basics
    <3> QED
      BY <2>1, <3>1, Basics, Counts
  <2>3. ArgRegs[k] = k + 1
    BY <2>1, Conventions
  <2> QED
    BY <1>1, <1>7, <2>2, <2>3
<1>13. LivePart'
  <2> SUFFICES ASSUME NEW r \in call.live PROVE regs'[r] = <<"live", r>>
    BY <1>1 DEF LivePart
  <2>1. r \in CSRegs /\ r \in ARs /\ regs[r] = <<"live", r>>
    <3>1. r \in 12 .. 15
      BY Basics, LiveSaved
    <3> QED
      BY <3>1 DEF CCInv, LivePart, CSRegs, ARs
  <2> QED
    BY <1>1, <2>1
<1>14. WalkPart'
  BY <1>1, <1>3 DEF CCInv, WalkPart, VaWalkContiguous
<1>15. ResultPart'
  <2>1. DOMAIN retbuf = {} /\ IsFiniteSet(DOMAIN retbuf) /\ Cardinality(DOMAIN retbuf) = 0
    BY <1>3, FS_EmptySet DEF CCInv, ResultPart
  <2> QED
    BY <1>1, <1>3, <1>7, <2>1, Basics DEF CCInv, ResultPart, Returned
<1> QED
  BY <1>8, <1>9, <1>10, <1>11, <1>12, <1>13, <1>14, <1>15 DEF CCInv

LEMMA LoadFormalInv ==
  ASSUME CallsSettled, CCInv, NEW k \in todo, LoadFormal(k)
  PROVE  CCInv'
<1>1. /\ InCallee /\ k > 0
      /\ formals' = Put(formals, k, Read(FormalOffset(k)))
      /\ todo' = todo \ {k}
      /\ UNCHANGED <<call, pc, regs, mem, n, livein, va, got, retbuf, results>>
  BY DEF LoadFormal, InCallee
<1>2. Words' = Words
  BY <1>1, SameWords
<1>3. k \in 7 .. NumFormals(call) /\ k \in 7 .. NumArgs(call)
  <2>1. k \in 7 .. NumFormals(call)
    BY <1>1 DEF CCInv, SavePart
  <2> QED
    BY <2>1, Basics
<1>4. Read(FormalOffset(k)) = Actual(call, k)
  <2>1. FormalOffset(k) = 4 * (k - 7)
    BY <1>3, Conventions
  <2>2. 4 * (k - 7) \in DOMAIN mem /\ mem[4 * (k - 7)] = Actual(call, k)
    BY <1>1, <1>3 DEF CCInv, StackPart, InCallee
  <2> QED
    BY <2>1, <2>2 DEF Read
<1>5. formals' = Put(formals, k, Actual(call, k))
  BY <1>1, <1>4
<1>6. DOMAIN formals' = DOMAIN formals \cup {k}
  BY <1>5 DEF Put
<1>7. Typed'
  <2>1. DOMAIN formals' \subseteq 1 .. NumFormals(call)
    BY <1>3, <1>6, Basics DEF CCInv, Typed, TypeOK
  <2>2. TypeOK'
    BY <1>1, <1>2, <2>1 DEF CCInv, Typed, TypeOK
  <2> QED
    BY <1>1, <1>2, <2>2 DEF CCInv, Typed, InCaller
<1>8. FormalsAreActuals'
  <2> SUFFICES ASSUME NEW j \in DOMAIN formals' PROVE formals'[j] = Actual(call, j)
    BY <1>1 DEF FormalsAreActuals, Actual, Hidden, CanLowerReturn
  <2>1. CASE j = k
    BY <1>5, <2>1 DEF Put
  <2>2. CASE j # k
    BY <1>5, <1>6, <2>2 DEF Put, CCInv, FormalsAreActuals
  <2> QED
    BY <2>1, <2>2
<1>9. SavePart'
  <2>1. ASSUME NEW r \in 0 .. 7, -1 - r \notin todo' PROVE -1 - r \notin todo
    BY <1>1, <1>3, <2>1, Basics
  <2> QED
    BY <1>1, <2>1 DEF CCInv, SavePart, InCallee
<1>10. StackPart' /\ RegPart' /\ LivePart'
  BY <1>1 DEF CCInv, StackPart, RegPart, LivePart, InCaller, InCallee
<1>11. WalkPart' /\ ResultPart'
  BY <1>1 DEF CCInv, WalkPart, VaWalkContiguous, ResultPart, Returned, InCaller, InCallee
<1> QED
  BY <1>7, <1>8, <1>9, <1>10, <1>11 DEF CCInv

LEMMA SaveVarArgRegInv ==
  ASSUME CallsSettled, CCInv, NEW r \in 0 .. 7, SaveVarArgReg(r)
  PROVE  CCInv'
<1>1. /\ pc = "body" /\ -1 - r \in todo
      /\ mem' = Put(mem, VaArgOffset(r), livein[r])
      /\ todo' = todo \ {-1 - r}
      /\ UNCHANGED <<call, pc, regs, n, livein, formals, va, got, retbuf, results>>
  BY DEF SaveVarArgReg
<1>2. Words' = Words
  BY <1>1, SameWords
<1>3. ~InCaller /\ ~InCaller' /\ InCallee /\ InCallee' /\ ~Returned'
  BY <1>1 DEF InCaller, InCallee, Returned
<1>4. mem' = Put(mem, 4 * (r - 8), livein[r])
  BY <1>1, Conventions
<1>5. /\ DOMAIN mem' = DOMAIN mem \cup {4 * (r - 8)}
      /\ mem'[4 * (r - 8)] = livein[r]
      /\ \A x \in DOMAIN mem : x # 4 * (r - 8) => mem'[x] = mem[x]
  BY <1>4 DEF Put
<1>6. livein[r] \in Words
  BY <1>3 DEF CCInv, Typed
<1>7. mem' \in [DOMAIN mem' -> Words]
  BY <1>4, <1>6, Basics, PutType
<1>8. Typed'
  <2>1. 4 * (r - 8) \in {4 * j : j \in -8 .. NumArgs(call)}
    BY Basics
  <2>2. TypeOK'
    BY <1>1, <1>2, <1>5, <2>1 DEF CCInv, Typed, TypeOK, NumArgGPRs
  <2> QED
    BY <1>1, <1>2, <1>3, <1>7, <2>2 DEF CCInv, Typed
<1>9. StackPart'
  <2> SUFFICES ASSUME NEW j \in 7 .. NumArgs(call)
               PROVE  4 * (j - 7) \in DOMAIN mem' /\ mem'[4 * (j - 7)] = Actual(call, j)
    BY <1>1 DEF StackPart
  <2>1. 4 * (j - 7) \in DOMAIN mem /\ mem[4 * (j - 7)] = Actual(call, j)
    BY <1>1 DEF CCInv, StackPart
  <2>2. 4 * (j - 7) # 4 * (r - 8)
    OBVIOUS
  <2> QED
    BY <1>5, <2>1, <2>2
<1>10. SavePart'
  <2>1. ASSUME call.variadic, NEW q \in 0 .. 7, -1 - q \notin todo'
        PROVE  4 * (q - 8) \in DOMAIN mem' /\ mem'[4 * (q - 8)] = livein[q]
    <3>1. CASE q = r
      BY <1>5, <3>1
    <3>2. CASE q # r
      <4>1. -1 - q \notin todo
        BY <1>1, <2>1, <3>2
      <4>2. 4 * (q - 8) \in DOMAIN mem /\ mem[4 * (q - 8)] = livein[q]
        BY <1>3, <2>1, <4>1 DEF CCInv, SavePart
      <4>3. 4 * (q - 8) # 4 * (r - 8)
        BY <3>2
      <4> QED
        BY <1>5, <4>2, <4>3
    <3> QED
      BY <3>1, <3>2
  <2>2. \A t \in todo' : t > 0 => t \in 7 .. NumFormals(call)
    BY <1>1, <1>3 DEF CCInv, SavePart
  <2> QED
    BY <1>1, <1>3, <2>1, <2>2 DEF SavePart
<1>11. RegPart' /\ FormalsAreActuals' /\ LivePart'
  BY <1>1, <1>3 DEF CCInv, RegPart, FormalsAreActuals, LivePart
<1>12. WalkPart' /\ ResultPart'
  BY <1>1, <1>3 DEF CCInv, WalkPart, VaWalkContiguous, ResultPart, Returned
<1> QED
  BY <1>8, <1>9, <1>10, <1>11, <1>12 DEF CCInv

LEMMA VASTARTInv ==
  ASSUME CallsSettled, CCInv, VASTART
  PROVE  CCInv'
<1>1. /\ pc = "body" /\ pc' = "varargs" /\ call.variadic
      /\ \A t \in todo : t > 0
      /\ va' = VaArgOffset(0)
      /\ UNCHANGED <<call, regs, mem, todo, n, livein, formals, got, retbuf, results>>
  BY DEF VASTART
<1>2. Words' = Words
  BY <1>1, SameWords
<1>3. ~InCaller /\ ~InCaller' /\ InCallee /\ InCallee' /\ ~Returned'
  BY <1>1 DEF InCaller, InCallee, Returned
<1>4. Typed'
  BY <1>1, <1>2, <1>3 DEF CCInv, Typed, TypeOK
<1>5. WalkPart'
  <2>1. got = <<>> /\ Len(got) = 0
    BY <1>1 DEF CCInv, WalkPart
  <2>2. va' = 4 * Len(got) - 32
    BY <1>1, <2>1, Conventions
  <2> QED
    BY <1>1, <1>3, <2>2 DEF CCInv, WalkPart, VaWalkContiguous
<1>6. StackPart' /\ RegPart' /\ SavePart'
  BY <1>1, <1>3 DEF CCInv, StackPart, RegPart, SavePart
<1>7. FormalsAreActuals' /\ LivePart'
  BY <1>1 DEF CCInv, FormalsAreActuals, LivePart
<1>8. ResultPart'
  BY <1>1, <1>3 DEF CCInv, ResultPart, Returned
<1> QED
  BY <1>4, <1>5, <1>6, <1>7, <1>8 DEF CCInv

(* The word va_arg reads: a saved register, or past the area an argument   *)
(* on the stack.                                                           *)
LEMMA VAARGReads ==
  ASSUME CCInv, VAARG, Len(got) + 1 >= 3
  PROVE  Read(va) = Actual(call, Len(got) - 1)
<1>0. PICK L \in Nat : L = Len(got)
  BY DEF CCInv, Typed
<1>1. pc = "varargs" /\ L < Len(call.args) - call.fixed /\ InCallee /\ ~InCaller
  BY <1>0 DEF VAARG, InCallee, InCaller
<1>2. va = 4 * L - 32 /\ L >= 2
  BY <1>0, <1>1 DEF CCInv, WalkPart
<1>3. L - 1 \in 1 .. NumArgs(call)
      /\ NumRegArgs(call) = IF NumArgs(call) <= 6 THEN NumArgs(call) ELSE 6
  <2>1. call \in Calls /\ NumArgs(call) \in Nat
    BY Basics
  <2>2. /\ call.fixed \in Nat /\ Len(call.args) \in Nat
        /\ NumArgs(call) = Hidden(call) + Len(call.args)
        /\ Hidden(call) \in 0 .. 1
        /\ NumRegArgs(call) = IF NumArgs(call) <= 6 THEN NumArgs(call) ELSE 6
    BY <2>1, Counts
  <2>3. L < Len(call.args)
    BY <1>1, <2>2
  <2>4. L - 1 <= NumArgs(call)
    BY <2>1, <2>2, <2>3
  <2>5. L - 1 \in Nat /\ L - 1 >= 1
    BY <1>2
  <2> QED
    BY <2>1, <2>2, <2>4, <2>5
<1>4. CASE L <= 7
  <2>1. L \in 0 .. 7 /\ -1 - L \notin todo
    <3>1. \A t \in todo : t > 0
      BY <1>1 DEF CCInv, SavePart
    <3>2. L \in 0 .. 7 /\ ~(-1 - L > 0)
      BY <1>2, <1>4
    <3> QED
      BY <3>1, <3>2
  <2>2. 4 * (L - 8) \in DOMAIN mem /\ mem[4 * (L - 8)] = livein[L]
    BY <1>1, <2>1 DEF CCInv, SavePart
  <2>3. livein[L] = Actual(call, L - 1)
    <3>1. L - 1 \in 1 .. NumRegArgs(call) /\ (L - 1) + 1 = L
      <4>1. L - 1 <= 6 /\ L - 1 >= 1 /\ L - 1 \in Int /\ (L - 1) + 1 = L
        BY <1>2, <1>4
      <4>2. L - 1 <= NumArgs(call) /\ NumArgs(call) \in Nat
        BY <1>3, Basics
      <4> QED
        BY <1>3, <4>1, <4>2
    <3> QED
      BY <1>1, <3>1 DEF CCInv, RegPart
  <2>4. va = 4 * (L - 8)
    BY <1>2
  <2> QED
    BY <1>0, <2>2, <2>3, <2>4 DEF Read
<1>5. CASE L > 7
  <2>1. L - 1 \in 7 .. NumArgs(call)
    BY <1>2, <1>3, <1>5
  <2>2. 4 * ((L - 1) - 7) \in DOMAIN mem /\ mem[4 * ((L - 1) - 7)] = Actual(call, L - 1)
    BY <1>1, <2>1 DEF CCInv, StackPart
  <2>3. va = 4 * ((L - 1) - 7)
    BY <1>2
  <2> QED
    BY <1>0, <2>2, <2>3 DEF Read
<1> QED
  BY <1>0, <1>4, <1>5

LEMMA VAARGInv ==
  ASSUME CallsSettled, CCInv, VAARG
  PROVE  CCInv'
<1>1. /\ pc = "varargs" /\ Len(got) < Len(call.args) - call.fixed
      /\ got' = Append(got, Read(va)) /\ va' = va + 4
      /\ UNCHANGED <<call, pc, regs, mem, todo, n, livein, formals, retbuf, results>>
  BY DEF VAARG
<1>2. Words' = Words
  BY <1>1, SameWords
<1>3. ~InCaller /\ ~InCaller' /\ InCallee /\ InCallee' /\ ~Returned'
  BY <1>1 DEF InCaller, InCallee, Returned
<1>4. Read(va) \in Words
  BY Basics DEF Read, Words
<1>5. got \in Seq(Words) /\ Len(got) \in Nat
  BY DEF CCInv, Typed
<1>6. got' \in Seq(Words) /\ Len(got') = Len(got) + 1
      /\ \A j \in 1 .. Len(got) : got'[j] = got[j]
      /\ got'[Len(got) + 1] = Read(va)
  BY <1>1, <1>4, <1>5
<1>7. Typed'
  <2>1. Len(got') <= Len(call.args)
    BY <1>1, <1>5, <1>6, Basics, Counts
  <2>2. TypeOK'
    BY <1>1, <1>2, <2>1 DEF CCInv, Typed, TypeOK
  <2> QED
    BY <1>1, <1>2, <1>3, <1>6, <2>2 DEF CCInv, Typed
<1>8. VaWalkContiguous'
  <2> SUFFICES ASSUME NEW j \in 3 .. Len(got) + 1 PROVE got'[j] = Actual(call, j - 2)
    BY <1>1, <1>6 DEF VaWalkContiguous, Actual, Hidden, CanLowerReturn
  <2>1. CASE j <= Len(got)
    BY <2>1, <1>5, <1>6 DEF CCInv, WalkPart, VaWalkContiguous
  <2>2. CASE j > Len(got)
    <3>1. j = Len(got) + 1 /\ j - 2 = Len(got) - 1 /\ Len(got) + 1 >= 3
      BY <2>2, <1>5
    <3> QED
      BY <1>6, <3>1, VAARGReads
  <2> QED
    BY <2>1, <2>2, <1>5
<1>9. WalkPart'
  <2>1. va = 4 * Len(got) - 32
    BY <1>1 DEF CCInv, WalkPart
  <2>2. va' = 4 * Len(got') - 32
    BY <1>1, <1>5, <1>6, <2>1
  <2> QED
    BY <1>1, <1>3, <1>8, <2>2 DEF WalkPart
<1>10. StackPart' /\ RegPart' /\ SavePart'
  BY <1>1, <1>3 DEF CCInv, StackPart, RegPart, SavePart
<1>11. FormalsAreActuals' /\ LivePart'
  BY <1>1 DEF CCInv, FormalsAreActuals, LivePart
<1>12. ResultPart'
  BY <1>1, <1>3 DEF CCInv, ResultPart, Returned
<1> QED
  BY <1>7, <1>9, <1>10, <1>11, <1>12 DEF CCInv

--------------------------------------------------------------------------------
(* The results.                                                            *)
LEMMA FirstNumbers ==
  ASSUME NEW N \in Nat
  PROVE  IsFiniteSet(1 .. N) /\ Cardinality(1 .. N) = N
<1>1. IsFiniteSet(1 .. N) /\ Cardinality(1 .. N) = IF 1 > N THEN 0 ELSE N - 1 + 1
  BY FS_Interval
<1> QED
  BY <1>1

LEMMA CopyResultInv ==
  ASSUME CallsSettled, CCInv, CopyResult
  PROVE  CCInv'
<1>1. /\ InCallee /\ ~InCaller /\ CanLowerReturn(call) /\ n < call.results
      /\ regs' = [regs EXCEPT ![ReturnReg(call, n + 1)] = Result(n + 1)]
      /\ n' = n + 1
      /\ UNCHANGED <<call, pc, mem, todo, livein, formals, va, got, retbuf, results>>
  BY DEF CopyResult, InCallee, InCaller
<1>2. Words' = Words
  BY <1>1, SameWords
<1>3. InCallee' /\ ~InCaller' /\ ~Returned /\ ~Returned'
  BY <1>1 DEF InCaller, InCallee, Returned
<1>4. n + 1 \in 1 .. 4 /\ n + 1 \in 1 .. call.results
  BY <1>1, Basics, Counts
<1>5. regs' = [regs EXCEPT ![n + 2] = Result(n + 1)]
  <2>1. RetRegs[n + 1] = n + 2
    BY <1>4, Basics, Conventions
  <2> QED
    BY <1>1, <2>1 DEF ReturnReg
<1>6. n + 2 \in ARs /\ n + 2 \in 2 .. 5
  BY <1>4, Basics DEF ARs
<1>7. regs' \in [ARs -> Words]
  BY <1>4, <1>5, Basics DEF Words
<1>8. Typed'
  <2>1. n' \in 0 .. 6 + call.results
    BY <1>1, <1>4, Basics
  <2>2. TypeOK'
    BY <1>1, <1>2, <1>7, <2>1 DEF CCInv, Typed, TypeOK
  <2> QED
    BY <1>1, <1>2, <1>3, <2>2 DEF CCInv, Typed
<1>9. ResultPart'
  <2>1. ASSUME NEW i \in 1 .. n + 1 PROVE regs'[i + 1] = Result(i)
    <3>1. i + 1 \in ARs
      BY <1>4, Basics DEF ARs
    <3>2. CASE i = n + 1
      BY <3>1, <3>2, <1>5, Basics
    <3>3. CASE i # n + 1
      <4>1. i \in 1 .. n /\ i + 1 # n + 2
        BY <3>3, Basics
      <4>2. regs[i + 1] = Result(i)
        BY <1>1, <4>1 DEF CCInv, ResultPart
      <4> QED
        BY <3>1, <4>1, <4>2, <1>5, Basics
    <3> QED
      BY <3>2, <3>3
  <2>2. n' <= call.results
    BY <1>1, <1>4
  <2>3. CanLowerReturn(call)'
    BY <1>1 DEF CanLowerReturn
  <2> QED
    BY <1>1, <1>3, <2>1, <2>2, <2>3 DEF CCInv, ResultPart, Returned
<1>10. LivePart'
  <2> SUFFICES ASSUME NEW r \in call.live PROVE regs'[r] = <<"live", r>>
    BY <1>1 DEF LivePart
  <2>1. r \in 12 .. 15
    BY Basics, LiveSaved
  <2>2. regs[r] = <<"live", r>> /\ r \in ARs /\ r # n + 2
    BY <2>1, <1>6 DEF CCInv, LivePart, ARs
  <2> QED
    BY <2>2, <1>5, Basics
<1>11. StackPart' /\ SavePart' /\ FormalsAreActuals'
  BY <1>1, <1>3 DEF CCInv, StackPart, SavePart, FormalsAreActuals
<1>12. RegPart' /\ WalkPart'
  BY <1>1, <1>3 DEF CCInv, RegPart, WalkPart, VaWalkContiguous, InCaller
<1> QED
  BY <1>8, <1>9, <1>10, <1>11, <1>12 DEF CCInv

LEMMA StoreResultInv ==
  ASSUME CallsSettled, CCInv, NEW i \in 1 .. call.results, StoreResult(i)
  PROVE  CCInv'
<1>1. /\ InCallee /\ ~InCaller /\ ~CanLowerReturn(call) /\ i \notin DOMAIN retbuf
      /\ retbuf' = Put(retbuf, i, Result(i)) /\ n' = n + 1
      /\ UNCHANGED <<call, pc, regs, mem, todo, livein, formals, va, got, results>>
  BY DEF StoreResult, InCallee, InCaller
<1>2. Words' = Words
  BY <1>1, SameWords
<1>3. InCallee' /\ ~InCaller' /\ ~Returned /\ ~Returned'
  BY <1>1 DEF InCaller, InCallee, Returned
<1>4. /\ DOMAIN retbuf' = DOMAIN retbuf \cup {i}
      /\ \A j \in DOMAIN retbuf' : retbuf'[j] = IF j = i THEN Result(i) ELSE retbuf[j]
  BY <1>1 DEF Put
<1>5. DOMAIN retbuf' \subseteq 1 .. call.results
  BY <1>4 DEF CCInv, Typed, TypeOK
<1>6. IsFiniteSet(DOMAIN retbuf) /\ Cardinality(DOMAIN retbuf) = n
  BY <1>1 DEF CCInv, ResultPart
<1>7. IsFiniteSet(DOMAIN retbuf') /\ Cardinality(DOMAIN retbuf') = n + 1
  BY <1>1, <1>4, <1>6, FS_AddElement
<1>8. n + 1 <= call.results
  <2>1. /\ IsFiniteSet(1 .. call.results)
        /\ Cardinality(1 .. call.results) = call.results
    BY Basics, FirstNumbers
  <2> QED
    BY <1>5, <1>7, <2>1, FS_Subset
<1>9. Typed'
  <2>1. n' \in 0 .. 6 + call.results
    BY <1>1, <1>8, Basics
  <2>2. TypeOK'
    BY <1>1, <1>2, <1>5, <2>1 DEF CCInv, Typed, TypeOK
  <2> QED
    BY <1>1, <1>2, <1>3, <2>2 DEF CCInv, Typed
<1>10. ResultPart'
  <2>1. \A j \in DOMAIN retbuf' : retbuf'[j] = Result(j)
    BY <1>4 DEF CCInv, ResultPart
  <2>2. ~CanLowerReturn(call)'
    BY <1>1 DEF CanLowerReturn
  <2> QED
    BY <1>1, <1>3, <1>7, <2>1, <2>2 DEF CCInv, ResultPart, Returned
<1>11. StackPart' /\ SavePart' /\ FormalsAreActuals' /\ LivePart'
  BY <1>1, <1>3 DEF CCInv, StackPart, SavePart, FormalsAreActuals, LivePart
<1>12. RegPart' /\ WalkPart'
  BY <1>1, <1>3 DEF CCInv, RegPart, WalkPart, VaWalkContiguous, InCaller
<1> QED
  BY <1>9, <1>10, <1>11, <1>12 DEF CCInv

LEMMA RETInv ==
  ASSUME CallsSettled, CCInv, RET
  PROVE  CCInv'
<1>1. /\ InCallee /\ ~InCaller /\ pc # "args" /\ n = call.results
      /\ pc' = "returned"
      /\ UNCHANGED <<call, regs, mem, todo, n, livein, formals, va, got, retbuf, results>>
  BY DEF RET, InCallee, InCaller
<1>2. Words' = Words
  BY <1>1, SameWords
<1>3. ~InCallee' /\ ~InCaller'
  BY <1>1 DEF InCaller, InCallee
<1>4. Typed'
  BY <1>1, <1>2, <1>3 DEF CCInv, Typed, TypeOK
<1>5. StackPart' /\ SavePart'
  BY <1>1, <1>3 DEF CCInv, StackPart, SavePart, InCaller, InCallee
<1>6. RegPart' /\ WalkPart'
  BY <1>1, <1>3 DEF CCInv, RegPart, WalkPart, VaWalkContiguous, InCaller, InCallee
<1>7. FormalsAreActuals' /\ LivePart'
  BY <1>1 DEF CCInv, FormalsAreActuals, LivePart
<1>8. ResultPart'
  BY <1>1, <1>3 DEF CCInv, ResultPart, CanLowerReturn
<1> QED
  BY <1>4, <1>5, <1>6, <1>7, <1>8 DEF CCInv

LEMMA CopyResultOutInv ==
  ASSUME CallsSettled, CCInv, CopyResultOut
  PROVE  CCInv'
<1> DEFINE v == IF CanLowerReturn(call) THEN regs[RetRegs[Len(results) + 1]]
                ELSE retbuf[Len(results) + 1]
<1>1. /\ pc = "returned" /\ Len(results) < call.results
      /\ results' = Append(results, v)
      /\ UNCHANGED <<call, pc, regs, mem, todo, n, livein, formals, va, got, retbuf>>
  BY DEF CopyResultOut
<1>2. Words' = Words
  BY <1>1, SameWords
<1>3. /\ Returned /\ Returned' /\ ~InCaller /\ ~InCaller' /\ ~InCallee /\ ~InCallee'
      /\ n = call.results
  BY <1>1 DEF CCInv, ResultPart, Returned, InCaller, InCallee
<1>4. PICK L \in Nat : L = Len(results)
  BY DEF CCInv, Typed
<1>5. L + 1 \in 1 .. call.results
  BY <1>1, <1>4, Basics
<1>6. v = Result(L + 1)
  <2>1. CASE CanLowerReturn(call)
    <3>1. L + 1 \in 1 .. 4
      BY <2>1, <1>5, Basics, Counts
    <3>2. RetRegs[L + 1] = (L + 1) + 1
      BY <3>1, Conventions
    <3>3. regs[(L + 1) + 1] = Result(L + 1)
      BY <2>1, <1>3, <1>5 DEF CCInv, ResultPart
    <3> QED
      BY <2>1, <1>4, <3>2, <3>3
  <2>2. CASE ~CanLowerReturn(call)
    <3>1. DOMAIN retbuf \subseteq 1 .. call.results
      BY DEF CCInv, Typed, TypeOK
    <3>2. Cardinality(DOMAIN retbuf) = call.results
      BY <2>2, <1>3 DEF CCInv, ResultPart
    <3>3. /\ IsFiniteSet(1 .. call.results)
          /\ Cardinality(1 .. call.results) = call.results
      BY Basics, FirstNumbers
    <3>4. 1 .. call.results = DOMAIN retbuf
      BY <3>1, <3>2, <3>3, FS_Subset
    <3>5. retbuf[L + 1] = Result(L + 1)
      BY <1>5, <3>4 DEF CCInv, ResultPart
    <3> QED
      BY <2>2, <1>4, <3>5
  <2> QED
    BY <2>1, <2>2
<1>7. v \in Words
  BY <1>5, <1>6 DEF Words
<1>8. /\ results' \in Seq(Words) /\ Len(results') = L + 1
      /\ \A i \in 1 .. L : results'[i] = results[i]
      /\ results'[L + 1] = v
  <2>1. results \in Seq(Words)
    BY DEF CCInv, Typed
  <2> HIDE DEF v
  <2> QED
    BY <1>1, <1>4, <1>7, <2>1
<1>9. Typed'
  BY <1>1, <1>2, <1>3, <1>8 DEF CCInv, Typed, TypeOK
<1>10. ResultPart'
  <2>1. \A i \in 1 .. L : results[i] = Result(i)
    BY <1>4 DEF CCInv, ResultPart
  <2>2. \A i \in 1 .. L + 1 : results'[i] = Result(i)
    <3> SUFFICES ASSUME NEW i \in 1 .. L + 1 PROVE results'[i] = Result(i)
      OBVIOUS
    <3>1. CASE i = L + 1
      BY <1>6, <1>8, <3>1
    <3>2. CASE i # L + 1
      BY <1>8, <2>1, <3>2
    <3> QED
      BY <3>1, <3>2
  <2>3. L + 1 <= call.results
    BY <1>5
  <2>4. CanLowerReturn(call)' = CanLowerReturn(call)
    BY <1>1 DEF CanLowerReturn
  <2> HIDE DEF v
  <2> QED
    BY <1>1, <1>3, <1>8, <2>2, <2>3, <2>4 DEF CCInv, ResultPart
<1>11. StackPart' /\ SavePart' /\ FormalsAreActuals' /\ LivePart'
  BY <1>1, <1>3 DEF CCInv, StackPart, SavePart, FormalsAreActuals, LivePart
<1>12. RegPart' /\ WalkPart'
  BY <1>1, <1>3 DEF CCInv, RegPart, WalkPart, VaWalkContiguous, InCaller
<1> QED
  BY <1>9, <1>10, <1>11, <1>12 DEF CCInv

LEMMA DoneInv ==
  ASSUME CallsSettled, CCInv, Done
  PROVE  CCInv'
<1>1. /\ pc = "returned" /\ pc' = "done" /\ Len(results) = call.results
      /\ UNCHANGED <<call, regs, mem, todo, n, livein, formals, va, got, retbuf, results>>
  BY DEF Done
<1>2. Words' = Words
  BY <1>1, SameWords
<1>3. Returned /\ Returned' /\ ~InCaller /\ ~InCaller' /\ ~InCallee /\ ~InCallee'
  BY <1>1 DEF Returned, InCaller, InCallee
<1>4. Typed'
  BY <1>1, <1>2, <1>3 DEF CCInv, Typed, TypeOK
<1>5. StackPart' /\ SavePart' /\ FormalsAreActuals' /\ LivePart'
  BY <1>1, <1>3 DEF CCInv, StackPart, SavePart, FormalsAreActuals, LivePart
<1>6. RegPart' /\ WalkPart'
  BY <1>1, <1>3 DEF CCInv, RegPart, WalkPart, VaWalkContiguous
<1>7. ResultPart'
  BY <1>1, <1>3 DEF CCInv, ResultPart, CanLowerReturn
<1> QED
  BY <1>4, <1>5, <1>6, <1>7 DEF CCInv

--------------------------------------------------------------------------------
LEMMA StutterInv ==
  ASSUME CCInv, UNCHANGED vars
  PROVE  CCInv'
<1>1. UNCHANGED <<call, pc, regs, mem, todo, n, livein, formals, va, got, retbuf, results>>
  BY DEF vars
<1>2. Words' = Words
  BY <1>1, SameWords
<1>3. Typed' /\ StackPart' /\ LivePart'
  BY <1>1, <1>2 DEF CCInv, Typed, TypeOK, StackPart, LivePart, InCaller
<1>4. RegPart' /\ SavePart' /\ FormalsAreActuals'
  BY <1>1 DEF CCInv, RegPart, SavePart, FormalsAreActuals, InCaller, InCallee
<1>5. WalkPart' /\ ResultPart'
  BY <1>1 DEF CCInv, WalkPart, VaWalkContiguous, ResultPart, InCaller, InCallee,
              Returned, CanLowerReturn
<1> QED
  BY <1>3, <1>4, <1>5 DEF CCInv

(* Every step of either side preserves the invariant.                      *)
LEMMA NextInv ==
  ASSUME CallsSettled, CCInv, [Next]_vars
  PROVE  CCInv'
<1>1. CASE CallSeqStart
  BY <1>1, CallSeqStartInv
<1>2. CASE \E k \in todo : StoreStackArg(k)
  BY <1>2, StoreStackArgInv
<1>3. CASE CopyRegArg
  BY <1>3, CopyRegArgInv
<1>4. CASE CALL0
  BY <1>4, CALL0Inv
<1>5. CASE Entry
  BY <1>5, EntryInv
<1>6. CASE \E k \in todo : LoadFormal(k)
  BY <1>6, LoadFormalInv
<1>7. CASE \E r \in 0 .. NumArgGPRs - 1 : SaveVarArgReg(r)
  <2>1. NumArgGPRs - 1 = 7
    BY DEF NumArgGPRs
  <2> QED
    BY <1>7, <2>1, SaveVarArgRegInv
<1>8. CASE VASTART
  BY <1>8, VASTARTInv
<1>9. CASE VAARG
  BY <1>9, VAARGInv
<1>10. CASE CopyResult
  BY <1>10, CopyResultInv
<1>11. CASE \E i \in 1 .. call.results : StoreResult(i)
  BY <1>11, StoreResultInv
<1>12. CASE RET
  BY <1>12, RETInv
<1>13. CASE CopyResultOut
  BY <1>13, CopyResultOutInv
<1>14. CASE Done
  BY <1>14, DoneInv
<1>15. CASE UNCHANGED vars
  BY <1>15, StutterInv
<1> QED
  BY <1>1, <1>2, <1>3, <1>4, <1>5, <1>6, <1>7, <1>8, <1>9, <1>10, <1>11, <1>12,
     <1>13, <1>14, <1>15 DEF Next

(* The word followed from caller to callee is at every stage where the     *)
(* invariant says (LowerCall, LowerFormalArguments, LowerReturn).          *)
THEOREM Inductive ==
  ASSUME CallsSettled
  PROVE  Spec => []CCInv
<1>1. Init => CCInv
  BY InitInv
<1>2. CCInv /\ [Next]_vars => CCInv'
  BY NextInv
<1> QED
  BY <1>1, <1>2, PTL DEF Spec

(* Registers and memory hold words of the call, in the places LowerCall    *)
(* and LowerFormalArguments can name.                                      *)
THEOREM TypeCorrect ==
  ASSUME CallsSettled
  PROVE  Spec => []TypeOK
<1>1. CCInv => TypeOK
  BY DEF CCInv, Typed
<1> QED
  BY <1>1, Inductive, PTL

(* A callee gets in every named argument the word the caller passed.       *)
THEOREM Formals ==
  ASSUME CallsSettled
  PROVE  Spec => []FormalsAreActuals
<1>1. CCInv => FormalsAreActuals
  BY DEF CCInv
<1> QED
  BY <1>1, Inductive, PTL

(* The caller reads back the words the callee returned, in registers or    *)
(* through the hidden buffer.                                              *)
THEOREM ResultsReadBack ==
  ASSUME CallsSettled
  PROVE  Spec => []ResultsArrive
<1>1. CCInv => ResultsArrive
  <2> SUFFICES ASSUME CCInv, pc = "done"
               PROVE  results = [i \in 1 .. call.results |-> Result(i)]
    BY DEF ResultsArrive
  <2>1. /\ results \in Seq(Words) /\ Len(results) = call.results
        /\ \A i \in 1 .. Len(results) : results[i] = Result(i)
    BY DEF CCInv, Typed, ResultPart
  <2>2. DOMAIN results = 1 .. call.results
    BY <2>1
  <2> QED
    BY <2>1, <2>2
<1> QED
  BY <1>1, Inductive, PTL

(* From the third va_arg on a variadic callee reads the words of the call  *)
(* in order, across the end of the save area.                              *)
THEOREM VaWalk ==
  ASSUME CallsSettled
  PROVE  Spec => []VaWalkContiguous
<1>1. CCInv => VaWalkContiguous
  BY DEF CCInv, WalkPart
<1> QED
  BY <1>1, Inductive, PTL

(* What the caller keeps in a register CSR_Xtensa lists is there when the  *)
(* call returns.                                                           *)
THEOREM LiveKept ==
  ASSUME CallsSettled
  PROVE  Spec => []LiveAcrossCallIntact
<1>1. CCInv => LiveAcrossCallIntact
  BY DEF CCInv, LivePart, LiveAcrossCallIntact
<1> QED
  BY <1>1, Inductive, PTL
================================================================================
