----------------------------- MODULE MCXtensaShift ----------------------------
(* Finite instances of XtensaShift: two shifts in any combination of       *)
(* direction and amount, and a node that uses them.                        *)
EXTENDS XtensaShift

N(op, a, b) == [op |-> op, a |-> a, b |-> b]

(* Nodes 1 and 2 are the arguments, 3 to 5 the constants 1 to 3.           *)
Leaves == <<N("x", 1, 1), N("y", 1, 1), N("const", 1, 1), N("const", 2, 1),
            N("const", 3, 1)>>

First  == {N(op, 1, b) : op \in {"shl", "sra"}, b \in 2 .. 5} \cup {N("srl", 1, 2)}
Second == {N(op, a, b) : op \in {"shl", "sra"}, a \in {2, 6}, b \in {1, 2, 4}}
Third  == {N(op, a, b) : op \in {"add", "sub"}, a \in {6, 7}, b \in {1, 6, 7}}
            \cup {N("shl", 7, 6), N("sra", 6, 7), N("neg", 6, 6)}

MCBlocks ==
  {[nodes |-> Leaves \o <<f, s, t>>, roots |-> r] :
     f \in First, s \in Second, t \in Third, r \in {{8}, {6, 7, 8}}}
================================================================================
