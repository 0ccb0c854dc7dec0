----------------------------- MODULE MCXtensaBranch -----------------------------
(* Finite instances of XtensaBranch: registers of two bits, four blocks.   *)
EXTENDS XtensaBranch

MCBlocks    == {"b0", "b1", "b2", "b3"}
MCRegisters == {"x", "y"}

mbb(B) == <<"mbb", B>>
x      == <<"reg", "x">>
y      == <<"reg", "y">>
I(op, ops) == [op |-> op, ops |-> ops]
Copy == I("COPY", <<>>)
Call == I("CALL0", <<>>)
J(B) == I("J", <<mbb(B)>>)
JX   == I("JX", <<x>>)
Ret  == I("RET_N", <<>>)

Natural == <<"b0", "b1", "b2", "b3">>

Fn(c0, c1, c2) ==
  [layout |-> Natural,
   code   |-> [b \in MCBlocks |-> CASE b = "b0" -> c0 [] b = "b1" -> c1
                                    [] b = "b2" -> c2 [] b = "b3" -> <<Ret>>]]

(* A diamond and a loop, on every comparison, and an indirect jump; and    *)
(* calls at the ends of blocks: the last instruction of one that falls     *)
(* through, ahead of a jump, of both branches, and of a return.            *)
MCPrograms ==
  {Fn(<<Copy, I(op, <<mbb("b2"), x, y>>), J("b1")>>, <<Copy, J("b3")>>, <<>>) :
     op \in BranchRR}
  \cup {Fn(<<Call, Copy>>, <<I(op, <<mbb("b1"), y, x>>)>>, <<Copy, JX>>) :
     op \in BranchRR}
  \cup {Fn(<<Call>>, <<I("BLT", <<mbb("b1"), y, x>>)>>, <<Call, Ret>>),
        Fn(<<Copy, I("BGE", <<mbb("b2"), x, y>>)>>, <<Call, J("b3")>>, <<>>),
        Fn(<<Call, I("BNE", <<mbb("b2"), x, y>>), J("b3")>>, <<Copy>>, <<J("b0")>>)}

ASSUME \A p \in MCPrograms : WellFormed(p)

(* The comparisons with an immediate and with zero.                        *)
MCImmediates ==
  {Fn(<<Copy, I("BEQI", <<mbb("b2"), x, <<"imm", 1>>>>), J("b1")>>, <<J("b3")>>, <<>>),
   Fn(<<Copy, I("BEQZ", <<mbb("b2"), x>>), J("b1")>>, <<J("b3")>>, <<>>)}
================================================================================
