---------------------------- MODULE XtensaCallConv ----------------------------
(***************************************************************************)
(* One call, both sides: what XtensaISelLowering makes a caller do with    *)
(* the arguments and results (LowerCall) and a callee (LowerFormal-        *)
(* Arguments, LowerReturn, lowerVASTART, lowerVAARG).  The two are lowered *)
(* apart and have to agree on every location.                              *)
(*                                                                         *)
(*   start -> store, copy -> call -> entry -> load, save -> va_start,      *)
(*   va_arg -> results -> return -> results copied -> done                 *)
(*                                                                         *)
(* Type legalisation leaves i32 only, so an argument here is one word, and *)
(* an i64 is two.  A call c is a record:                                   *)
(*   args      for each word passed, whether it is a byval pointer         *)
(*   fixed     how many of them the callee names                           *)
(*   variadic  whether the callee takes more                               *)
(*   results   the number of words returned                                *)
(*   live      the registers holding the caller's values across the call   *)
(* Memory is by offset from the stack pointer at the call.                 *)
(***************************************************************************)
EXTENDS Integers, Sequences

CONSTANT Calls

VARIABLES
  call,      (* the call                                                   *)
  pc,        (* its stage                                                  *)
  regs,      (* a0 .. a15                                                  *)
  mem,       (* the words written so far                                   *)
  todo,      (* stack arguments, saves or loads not yet done               *)
  n,         (* the register copies done, of arguments or results          *)
  livein,    (* the callee's copies of a0 .. a7                            *)
  formals,   (* the callee's named arguments, as far as it has them        *)
  va,        (* the callee's va_list: the address of the next argument     *)
  got,       (* what va_arg has returned                                   *)
  retbuf,    (* the caller's buffer for results too many for registers     *)
  results    (* the results as the caller reads them                       *)

vars == <<call, pc, regs, mem, todo, n, livein, formals, va, got, retbuf, results>>

--------------------------------------------------------------------------------
(* The conventions: CC_Xtensa and CC_Xtensa_VAR assign alike once every    *)
(* type is i32; the call instructions define CallDefs.                     *)
ARs      == 0 .. 15
sp       == 1
ArgRegs  == <<2, 3, 4, 5, 6, 7>>
RetRegs  == <<2, 3, 4, 5>>
CallDefs == {0, 2, 3, 4, 5}

(* Mutant: the frame pointer and the return address alone are saved.       *)
CSRegsFrameOnly == {0, 15}

(* CSR_Xtensa: what a callee saves if it writes it.                        *)
CSRegs == {0, 12, 13, 14, 15}

inReg(k)        == k <= Len(ArgRegs)
LocMemOffset(k) == 4 * (k - Len(ArgRegs) - 1)

(* Mutant: the offset counts every argument, in registers or not.          *)
FormalOffsetFromFirst(k) == 4 * (k - 1)

(* The fixed object a formal is loaded from.                               *)
FormalOffset(k) == LocMemOffset(k)

(* CheckReturn against RetCC_Xtensa; if not, the caller passes a hidden    *)
(* first argument, the address of a buffer.                                *)
CanLowerReturn(c) == c.results <= Len(RetRegs)

(* Mutant: the callee assigns result registers from the last one down.     *)
ReturnRegReversed(c, i) == RetRegs[c.results + 1 - i]

(* The register LowerReturn copies result i to.                            *)
ReturnReg(c, i) == RetRegs[i]

Junk      == <<"junk", 0>>
Buffer    == <<"buffer", 0>>
Result(i) == <<"result", i>>
Hidden(c) == IF CanLowerReturn(c) THEN 0 ELSE 1

(* The words passed, and how many the callee names.                        *)
NumArgs(c)    == Hidden(c) + Len(c.args)
NumFormals(c) == Hidden(c) + c.fixed
Actual(c, k)  == IF k <= Hidden(c) THEN Buffer ELSE <<"arg", k - Hidden(c)>>
isByVal(c, k) == k > Hidden(c) /\ c.args[k - Hidden(c)]

NumRegArgs(c) == IF inReg(NumArgs(c)) THEN NumArgs(c) ELSE Len(ArgRegs)

(* The register save area of a variadic callee.  Its registers start at    *)
(* a0, which no argument is ever assigned, so all eight are saved.         *)
NumArgGPRs == 8

(* Mutant: the area ends one word below the stack arguments.               *)
VaArgOffsetGap(r) == 4 * (r - NumArgGPRs) - 4

VaArgOffset(r) == 4 * (r - NumArgGPRs)

Put(m, a, v) == [x \in DOMAIN m \cup {a} |-> IF x = a THEN v ELSE m[x]]
Read(a)      == IF a \in DOMAIN mem THEN mem[a] ELSE Junk
Empty        == [x \in {} |-> Junk]

(* What the lowering is given: at least the named arguments, no more than  *)
(* those unless variadic; live values only where neither the call's        *)
(* definitions nor its argument copies interfere.                          *)
CallOK(c) ==
  /\ c.args \in Seq(BOOLEAN)
  /\ c.fixed \in 0 .. Len(c.args)
  /\ c.variadic \in BOOLEAN
  /\ ~c.variadic => c.fixed = Len(c.args)
  /\ c.results \in Nat
  /\ c.live \subseteq ARs \ ({sp} \cup CallDefs \cup
                             {ArgRegs[k] : k \in 1 .. NumRegArgs(c)})

ASSUME CallsAssumption == \A c \in Calls : CallOK(c)

--------------------------------------------------------------------------------
Init ==
  /\ call \in Calls
  /\ pc = "start"
  /\ regs = [r \in ARs |-> IF r \in call.live THEN <<"live", r>>
                           ELSE IF r = sp THEN <<"sp", 0>> ELSE Junk]
  /\ mem = Empty
  /\ todo = {}
  /\ n = 0
  /\ livein = Empty
  /\ formals = Empty
  /\ va = 0
  /\ got = <<>>
  /\ retbuf = Empty
  /\ results = <<>>

(* LowerCall.  A byval argument that gets a stack location is not stored.  *)
CallSeqStart ==
  /\ pc = "start"
  /\ pc' = "args"
  /\ todo' = {k \in 1 .. NumArgs(call) : ~inReg(k) /\ ~isByVal(call, k)}
  /\ UNCHANGED <<call, regs, mem, n, livein, formals, va, got, retbuf, results>>

(* The stores are independent of one another.                              *)
StoreStackArg(k) ==
  /\ pc = "args"
  /\ k \in todo
  /\ mem' = Put(mem, LocMemOffset(k), Actual(call, k))
  /\ todo' = todo \ {k}
  /\ UNCHANGED <<call, pc, regs, n, livein, formals, va, got, retbuf, results>>

(* The copies follow the stores and are glued in order.                    *)
CopyRegArg ==
  /\ pc = "args"
  /\ todo = {}
  /\ n < NumRegArgs(call)
  /\ regs' = [regs EXCEPT ![ArgRegs[n + 1]] = Actual(call, n + 1)]
  /\ n' = n + 1
  /\ UNCHANGED <<call, pc, mem, todo, livein, formals, va, got, retbuf, results>>

CALL0 ==
  /\ pc = "args"
  /\ todo = {}
  /\ n = NumRegArgs(call)
  /\ pc' = "entry"
  /\ regs' = [regs EXCEPT ![0] = <<"ra", 0>>]
  /\ n' = 0
  /\ UNCHANGED <<call, mem, todo, livein, formals, va, got, retbuf, results>>

--------------------------------------------------------------------------------
(* LowerFormalArguments: the copies of live-in registers come first in the *)
(* entry block.  From here the callee's body owns the registers it need    *)
(* not save.  The loads and, if variadic, the saves remain (as -1 - r).    *)
Entry ==
  /\ pc = "entry"
  /\ pc' = "body"
  /\ livein' = [r \in 0 .. NumArgGPRs - 1 |-> regs[r]]
  /\ formals' = [k \in {j \in 1 .. NumFormals(call) : inReg(j)} |-> regs[ArgRegs[k]]]
  /\ regs' = [r \in ARs |-> IF r \in CSRegs \cup {sp} THEN regs[r] ELSE Junk]
  /\ todo' = {k \in 1 .. NumFormals(call) : ~inReg(k)}
             \cup (IF call.variadic THEN {-1 - r : r \in 0 .. NumArgGPRs - 1} ELSE {})
  /\ UNCHANGED <<call, mem, n, va, got, retbuf, results>>

(* Loads hang on the entry chain alone: they may come as late as the use.  *)
LoadFormal(k) ==
  /\ pc \in {"body", "varargs"}
  /\ k \in todo
  /\ k > 0
  /\ formals' = Put(formals, k, Read(FormalOffset(k)))
  /\ todo' = todo \ {k}
  /\ UNCHANGED <<call, pc, regs, mem, n, livein, va, got, retbuf, results>>

SaveVarArgReg(r) ==
  /\ pc = "body"
  /\ -1 - r \in todo
  /\ mem' = Put(mem, VaArgOffset(r), livein[r])
  /\ todo' = todo \ {-1 - r}
  /\ UNCHANGED <<call, pc, regs, n, livein, formals, va, got, retbuf, results>>

(* lowerVASTART, past the saves: the frame index of the first one.         *)
VASTART ==
  /\ pc = "body"
  /\ call.variadic
  /\ \A t \in todo : t > 0
  /\ pc' = "varargs"
  /\ va' = VaArgOffset(0)
  /\ UNCHANGED <<call, regs, mem, todo, n, livein, formals, got, retbuf, results>>

(* lowerVAARG.  A correct program asks for no more than was passed.        *)
VAARG ==
  /\ pc = "varargs"
  /\ Len(got) < Len(call.args) - call.fixed
  /\ got' = Append(got, Read(va))
  /\ va' = va + 4
  /\ UNCHANGED <<call, pc, regs, mem, todo, n, livein, formals, retbuf, results>>

--------------------------------------------------------------------------------
(* LowerReturn: results to registers in order, or through the hidden       *)
(* argument.                                                               *)
CopyResult ==
  /\ pc \in {"body", "varargs"}
  /\ todo = {}
  /\ CanLowerReturn(call)
  /\ n < call.results
  /\ regs' = [regs EXCEPT ![ReturnReg(call, n + 1)] = Result(n + 1)]
  /\ n' = n + 1
  /\ UNCHANGED <<call, pc, mem, todo, livein, formals, va, got, retbuf, results>>

StoreResult(i) ==
  /\ pc \in {"body", "varargs"}
  /\ todo = {}
  /\ ~CanLowerReturn(call)
  /\ i \in 1 .. call.results /\ i \notin DOMAIN retbuf
  /\ formals[1] = Buffer
  /\ retbuf' = Put(retbuf, i, Result(i))
  /\ n' = n + 1
  /\ UNCHANGED <<call, pc, regs, mem, todo, livein, formals, va, got, results>>

RET ==
  /\ pc \in {"body", "varargs"}
  /\ todo = {}
  /\ n = call.results
  /\ pc' = "returned"
  /\ UNCHANGED <<call, regs, mem, todo, n, livein, formals, va, got, retbuf, results>>

(* The caller reads the results back.                                      *)
CopyResultOut ==
  /\ pc = "returned"
  /\ Len(results) < call.results
  /\ LET i == Len(results) + 1
     IN  results' = Append(results, IF CanLowerReturn(call) THEN regs[RetRegs[i]]
                                    ELSE retbuf[i])
  /\ UNCHANGED <<call, pc, regs, mem, todo, n, livein, formals, va, got, retbuf>>

Done ==
  /\ pc = "returned"
  /\ Len(results) = call.results
  /\ pc' = "done"
  /\ UNCHANGED <<call, regs, mem, todo, n, livein, formals, va, got, retbuf, results>>

Next ==
  \/ CallSeqStart \/ (\E k \in todo : StoreStackArg(k)) \/ CopyRegArg \/ CALL0
  \/ Entry \/ (\E k \in todo : LoadFormal(k))
  \/ (\E r \in 0 .. NumArgGPRs - 1 : SaveVarArgReg(r)) \/ VASTART \/ VAARG
  \/ CopyResult \/ (\E i \in 1 .. call.results : StoreResult(i)) \/ RET
  \/ CopyResultOut \/ Done

Spec == Init /\ [][Next]_vars

--------------------------------------------------------------------------------
Words ==
  {Junk, Buffer, <<"sp", 0>>, <<"ra", 0>>}
    \cup {<<"live", r>> : r \in ARs}
    \cup {<<"arg", k>> : k \in 1 .. Len(call.args)}
    \cup {Result(i) : i \in 1 .. call.results}

(* Type invariant.                                                         *)
TypeOK ==
  /\ call \in Calls
  /\ pc \in {"start", "args", "entry", "body", "varargs", "returned", "done"}
  /\ regs \in [ARs -> Words]
  /\ DOMAIN mem \subseteq {4 * k : k \in -NumArgGPRs .. NumArgs(call)}
  /\ todo \subseteq (-NumArgGPRs .. NumArgs(call)) \ {0}
  /\ n \in 0 .. 6 + call.results
  /\ DOMAIN formals \subseteq 1 .. NumFormals(call)
  /\ Len(got) <= Len(call.args)
  /\ DOMAIN retbuf \subseteq 1 .. call.results

(* Every named argument the callee has is the word the caller passed, in   *)
(* whatever order stores, copies and loads ran: LowerCall and LowerFormal- *)
(* Arguments place it at the same location, and nothing else is put there. *)
FormalsAreActuals ==
  \A k \in DOMAIN formals : formals[k] = Actual(call, k)

(* The caller reads back the words the callee returned, from registers or, *)
(* past four, from the buffer whose address it passed ahead of the rest    *)
(* (CanLowerReturn, LowerReturn, the result copies of LowerCall).          *)
ResultsArrive ==
  pc = "done" => results = [i \in 1 .. call.results |-> Result(i)]

(* A callee walks from the saved registers straight into the stack         *)
(* arguments: from the third va_arg on, each returns the next word of the  *)
(* call, the named ones included (the save area of LowerFormalArguments    *)
(* begins with a0 and sp).                                                 *)
VaWalkContiguous ==
  \A j \in 3 .. Len(got) : got[j] = Actual(call, j - 2)

(* va_arg returns the variadic arguments, first to last:                   *)
(* VarArgsFrameIndex is the first variable argument, as LowerFormal-       *)
(* Arguments says where it records it.                                     *)
VaArgsAreVariadic ==
  \A j \in DOMAIN got : got[j] = Actual(call, NumFormals(call) + j)

(* A value the caller keeps in a register across the call is still there   *)
(* when the call returns: what the callee may overwrite is among what the  *)
(* call instruction is said to define.                                     *)
LiveAcrossCallIntact ==
  pc \in {"returned", "done"} => \A r \in call.live : regs[r] = <<"live", r>>
================================================================================
