------------------------------ MODULE MCXtensaPEI ------------------------------
(* Finite instances of XtensaPEI: selected bodies and their functions.     *)
EXTENDS XtensaPEI

MCEntryRegs ==
  [r \in Regs |-> CASE r = "sp"  -> 16000
                    [] r = "a0"  -> 100
                    [] r = "a12" -> 112
                    [] r = "a13" -> 113
                    [] r = "a14" -> 114
                    [] r = "a15" -> 115]

(* What selection puts in a block.                                         *)
Def(r)      == <<Ins("DEF", r, "none", 0, "def")>>
Local(o)    == <<[Ins("S32I", "a2", "FI", o, "local") EXCEPT !.fi = <<"local", o>>]>>
AllocaOf(n) == <<Ins("ADDI", "sp", "sp", -n, "alloca")>>
Dyn(o)      == <<Ins("S32I", "a2", "sp", o, "dyn")>>
Copy        == <<Ins("COPY", "a2", "none", 0, "copy")>>
Ret         == <<Ins("RET_N", "none", "none", 0, "ret")>>
In(s, a)    == [j \in DOMAIN s |-> [s[j] EXCEPT !.amt = a]]
CallOf(a, inside) ==
  LET arguments == IF a = 0 THEN <<>> ELSE <<Ins("S32I", "a2", "sp", 0, "arg")>>
  IN  In(<<Ins("ADJCALLSTACKDOWN", "none", "none", a, "down")>>
         \o arguments \o inside
         \o <<Ins("CALL0", "a0", "none", 0, "call"),
              Ins("ADJCALLSTACKUP", "none", "none", a, "up")>>, a)

CSROrder == <<"a0", "a12", "a13", "a14", "a15">>

Make(flags, local, amts, modified, fixed, body) ==
  LET f == [disableFPElim   |-> flags = "fpelim",
            varSized        |-> flags = "var",
            frameAddrTaken  |-> flags = "frameaddr",
            adjustsStack    |-> amts # {} \/ flags = "var",
            hasCalls        |-> amts # {},
            callAmts        |-> amts,
            fixed           |-> fixed,
            local           |-> local,
            probes          |-> IF local = 0 THEN {} ELSE {0, local - SlotSize},
            incomingArgSize |-> 0,
            modified        |-> modified \cup (IF amts # {} THEN {"a0"} ELSE {}),
            csi             |-> <<>>,
            body            |-> body]
  IN [f EXCEPT !.csi = SelectSeq(CSROrder, LAMBDA r : r \in SavedRegs(f))]

AllFlags == {"none", "fpelim", "frameaddr"}

Leaves ==
  {Make(fl, 0, {}, {}, 0, Copy \o Ret) : fl \in AllFlags}
  \cup {Make(fl, lo, {}, {"a12"}, fi, Def("a12") \o Local(lo - 4) \o Ret) :
          fl \in AllFlags, lo \in {8, 160, 3000}, fi \in {0, 32}}

Callers ==
  {Make(fl, lo, {a}, {"a12", "a15"} \ (IF fl = "none" THEN {} ELSE {"a15"}), 0,
        Local(0) \o Def("a12") \o CallOf(a, <<>>) \o Copy \o Ret) :
     fl \in AllFlags, lo \in {4, 160}, a \in {0, 8, 2028}}

(* A call frame that is not reserved, with and without a frame pointer.    *)
BigCallers ==
  {Make(fl, 4, {2032}, {"a12"}, 0,
        Def("a12") \o CallOf(2032, <<>>) \o Local(0) \o Ret) : fl \in AllFlags}

Allocas ==
  {Make("var", 8, {a}, {}, fi,
        AllocaOf(16) \o Dyn(12) \o Local(4) \o CallOf(a, Local(0)) \o Copy \o Ret) :
     a \in {0, 8}, fi \in {0, 32}}

MCFunctions == Leaves \cup Callers \cup BigCallers \cup Allocas

MCValues      == {0, 1}
MCAllocaSizes == {16}
================================================================================
