---------------------------- MODULE MCXtensaCallConv ----------------------------
(***************************************************************************)
(* Calls for TLC: with up to ten words of arguments, fixed and      *)
(* variadic with none, some and all of the named arguments in registers,   *)
(* no result, four and five, values live in the saved registers.           *)
(***************************************************************************)
EXTENDS XtensaCallConv

PlainWords(k) == [i \in 1 .. k |-> FALSE]

MCCall(k, fixed, res) ==
  [args |-> PlainWords(k), fixed |-> fixed, variadic |-> fixed # k,
   results |-> res, live |-> {12, 14, 15}]

MCCalls ==
  {MCCall(k, k, res) : k \in {0, 5, 6, 9}, res \in {0, 2, 4, 5}}
    \cup {MCCall(10, fixed, 1) : fixed \in {1, 8}}
    \cup {MCCall(7, fixed, 5) : fixed \in {1, 6}}
    \cup {[MCCall(4, 4, 5) EXCEPT !.args[2] = TRUE],
           [MCCall(3, 1, 0) EXCEPT !.variadic = TRUE]}

(* A printf-like call: one named argument, two more.                       *)
MCVariadic == {MCCall(3, 1, 1)}

(* A value the register allocator may keep in a6, and two arguments.       *)
MCLiveInA6 == {[MCCall(2, 2, 1) EXCEPT !.live = {6}]}
================================================================================
