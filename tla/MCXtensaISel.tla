------------------------------ MODULE MCXtensaISel -----------------------------
(* A finite instance of XtensaISel.                                         *)
EXTENDS XtensaISel

(* Every use but load8s, which l8ui answers with a zero extension.          *)
MCUses == ({"value", "asm"} \cup Loads \cup Stores) \ {"load8s"}

MCBases == {"none", "reg", "fi", "global", "jumptable", "blockaddress", "tls"}

(* Both sides of every boundary: immn, imm7n, imm8, imm12.                  *)
MCOffsets ==
  {-2049, -2048, -2047, -129, -128, -33, -32, -2, -1, 0, 1, 15, 16, 95, 96, 127,
   128, 2047, 2048}

(* Near the frame register, near and past what imm12 reaches.               *)
MCObjects == {16, 120, 2040, 4096}

(* A layout: sections well apart, the pool behind them.                     *)
MCEntryValue == 7000
MCFrameValue == 20000
MCSymbolAddr(b) ==
  CASE b = "global" -> 40000 [] b = "jumptable" -> 44000 [] b = "tls" -> 46000
    [] OTHER -> 48000
MCPoolAddr(c) == 100000 + 4 * c
================================================================================
