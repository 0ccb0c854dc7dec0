----------------------------- MODULE MCXtensaFrame -----------------------------
(* Finite instances of XtensaFrame.                                        *)
EXTENDS XtensaFrame

MCEntryRegs ==
  [r \in Regs |-> CASE r = "sp"  -> 16000
                    [] r = "a0"  -> 100
                    [] r = "a12" -> 112
                    [] r = "a13" -> 113
                    [] r = "a14" -> 114
                    [] r = "a15" -> 115]

(* CalleeSavedInfo in the order of CSR_Xtensa.                             *)
CSROrder == <<"a0", "a12", "a13", "a14", "a15">>

WithCSI(f) ==
  [f EXCEPT !.csi = SelectSeq(CSROrder, LAMBDA r : r \in SavedRegs(f))]

Make(flags, local, calls, amts, modified, fixed, incoming) ==
  WithCSI([disableFPElim   |-> flags = "fpelim",
           varSized        |-> flags = "var",
           frameAddrTaken  |-> flags = "frameaddr",
           adjustsStack    |-> calls \/ flags = "var",
           hasCalls        |-> calls,
           callAmts        |-> amts,
           fixed           |-> fixed,
           local           |-> local,
           probes          |-> IF local = 0 THEN {} ELSE {0, local - SlotSize},
           incomingArgSize |-> incoming,
           modified        |-> modified \cup (IF calls THEN {"a0"} ELSE {}),
           csi             |-> <<>>])

AllFlags == {"none", "fpelim", "var", "frameaddr"}

(* Leaf functions: every shape of frame, empty ones included.              *)
Leaves ==
  {Make(fl, lo, FALSE, {}, mo, fi, in) :
     fl \in AllFlags, lo \in {0, 8}, mo \in {{}, {"a12"}, {"a13", "a15"}},
     fi \in {0, 32}, in \in {0, 4096}}

(* Callers, with and without stack arguments.                              *)
Callers ==
  {Make(fl, lo, TRUE, am, mo, fi, 0) :
     fl \in AllFlags, lo \in {0, 4}, am \in {{0}, {8}},
     mo \in {{}, {"a15"}}, fi \in {0, 32}}

(* A call frame past imm12 is not reserved: 2032 + 16 > 2047.              *)
BigCallers ==
  {Make(fl, 4, TRUE, {am}, {"a12"}, 0, 0) :
     fl \in AllFlags, am \in {2028, 2032}}

MCFunctions    == Leaves \cup Callers \cup BigCallers
MCValues       == {0, 1}
MCAllocaSizes  == {16}
================================================================================
