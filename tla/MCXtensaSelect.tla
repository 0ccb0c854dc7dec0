----------------------------- MODULE MCXtensaSelect ----------------------------
(* Finite instances of XtensaSelect: a chain, a triangle, a diamond and a  *)
(* loop, with up to two selects in each block.                             *)
EXTENDS XtensaSelect

MCSteps == 60
MCRegs  == 1 .. 44

(* Registers 1 and 2 are arguments; block b's own are 10 b + 1 ..          *)
MCInputs == [{1, 2} -> 0 .. 2]

Sel(d, form, lhs, t, f) ==
  [op |-> "select", d |-> d, form |-> form, lhs |-> lhs, t |-> t, f |-> f]
UseOf(s) == [op |-> "use", s |-> s]
BNEZ(s, b) == [op |-> "BNEZ", ops |-> <<s, b>>]
J(b) == [op |-> "J", ops |-> <<b>>]
Ret == [op |-> "RET_N", ops |-> <<>>]

(* What a block computes in register 10 b + 2 from x and y: one select, or *)
(* two of which the second takes the first as condition, or as a value.    *)
Two(b, g, h, x, y) ==
  LET d == 10 * b IN
  { <<Sel(d + 2, g, x, y, 1)>>,
    <<Sel(d + 1, g, x, y, 1), Sel(d + 2, h, d + 1, x, 2)>>,
    <<Sel(d + 1, g, x, 2, y), UseOf(d + 1), Sel(d + 2, h, y, d + 1, x)>> }

Bodies(b, x, y) == UNION {Two(b, g, h, x, y) : g, h \in Forms}

Fn(c, s) == [code |-> c, succ |-> s, layout |-> [b \in DOMAIN c |-> b]]

Chain ==
  {Fn(<<A \o <<UseOf(12)>>, B \o <<UseOf(22), Ret>>>>, <<{2}, {}>>) :
     A \in Bodies(1, 1, 2), B \in Two(2, "eq0", "val", 12, 1)}

Triangle ==
  {Fn(<<A \o <<BNEZ(2, 3)>>, B, <<PHI(31, 1 :> 12 @@ 2 :> 22), UseOf(31), Ret>>>>,
      <<{2, 3}, {3}, {}>>) :
     A \in Bodies(1, 1, 2), B \in Two(2, "ne0", "eq0", 12, 1)}

Diamond ==
  {Fn(<<<<BNEZ(1, 3)>>, A \o <<J(4)>>, B,
        <<PHI(41, 2 :> 22 @@ 3 :> 32), PHI(42, 2 :> 1 @@ 3 :> 2), UseOf(41),
          UseOf(42), Ret>>>>, <<{2, 3}, {4}, {4}, {}>>) :
     A \in Bodies(2, 1, 2), B \in Two(3, "val", "eq0", 2, 1)}

(* Block 2 is its own successor while the count 23 is not zero; 24 is the  *)
(* value the last round left, and the last select decides on another.      *)
Loop ==
  {Fn(<<<<>>,
        <<PHI(23, 1 :> 1 @@ 2 :> 25), PHI(24, 1 :> 2 @@ 2 :> 22),
          [op |-> "dec", d |-> 25, s |-> 23]>>
          \o A \o <<Sel(26, "val", 23, 25, 23), BNEZ(26, 2)>>,
        <<PHI(31, 2 :> 24), UseOf(31), UseOf(22), Ret>>>>,
      <<{2}, {2, 3}, {}>>) :
     A \in Bodies(2, 24, 23)}

MCFunctions == Chain \cup Triangle \cup Diamond \cup Loop
================================================================================
