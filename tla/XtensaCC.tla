-------------------------------- MODULE XtensaCC --------------------------------
(***************************************************************************)
(* The condition codes of conditional branches: the masks of Xtensa.h, the *)
(* opcodes isBranch and InsertBranchAtInst translate from and to, and what *)
(* the assembler syntax of each opcode makes the hardware compare.         *)
(***************************************************************************)
EXTENDS Integers

CONSTANT HalfRange   (* 2^31: half the values of a register                *)

ASSUME HalfRangeAssumption == HalfRange \in Nat \ {0}

Words     == 0 .. 2 * HalfRange - 1
Signed(w) == IF w < HalfRange THEN w ELSE w - 2 * HalfRange

(* Masks are sums of distinct bits.                                        *)
CCMASK_CMP_EQ == 8
CCMASK_CMP_LT == 4
CCMASK_CMP_GT == 2
CCMASK_CMP_UO == 1
CCMASK_CMP_NE == CCMASK_CMP_LT + CCMASK_CMP_GT
CCMASK_CMP_LE == CCMASK_CMP_EQ + CCMASK_CMP_LT
CCMASK_CMP_GE == CCMASK_CMP_EQ + CCMASK_CMP_GT
CCMASK_ANY    == 15

Unsigned(cc) == cc + CCMASK_CMP_UO

(* The condition codes of the conditional branches.                        *)
CCs ==
  {CCMASK_CMP_EQ, CCMASK_CMP_NE,
   CCMASK_CMP_LT, CCMASK_CMP_GE, CCMASK_CMP_GT, CCMASK_CMP_LE,
   Unsigned(CCMASK_CMP_LT), Unsigned(CCMASK_CMP_GE),
   Unsigned(CCMASK_CMP_GT), Unsigned(CCMASK_CMP_LE)}

(* The comparison a condition code stands for.                             *)
Holds(cc, a, b) ==
  \/ cc = CCMASK_CMP_EQ           /\ a = b
  \/ cc = CCMASK_CMP_NE           /\ a # b
  \/ cc = CCMASK_CMP_LT           /\ Signed(a) < Signed(b)
  \/ cc = CCMASK_CMP_GE           /\ Signed(a) >= Signed(b)
  \/ cc = CCMASK_CMP_GT           /\ Signed(a) > Signed(b)
  \/ cc = CCMASK_CMP_LE           /\ Signed(a) <= Signed(b)
  \/ cc = Unsigned(CCMASK_CMP_LT) /\ a < b
  \/ cc = Unsigned(CCMASK_CMP_GE) /\ a >= b
  \/ cc = Unsigned(CCMASK_CMP_GT) /\ a > b
  \/ cc = Unsigned(CCMASK_CMP_LE) /\ a <= b

(* Mutant: less-than is reversed to greater-than.                          *)
ReverseCCSwap(cc) ==
  CASE cc = CCMASK_CMP_EQ           -> CCMASK_CMP_NE
    [] cc = CCMASK_CMP_NE           -> CCMASK_CMP_EQ
    [] cc = CCMASK_CMP_LT           -> CCMASK_CMP_GT
    [] cc = CCMASK_CMP_GE           -> CCMASK_CMP_LT
    [] cc = CCMASK_CMP_GT           -> CCMASK_CMP_LE
    [] cc = CCMASK_CMP_LE           -> CCMASK_CMP_GT
    [] cc = Unsigned(CCMASK_CMP_LT) -> Unsigned(CCMASK_CMP_GE)
    [] cc = Unsigned(CCMASK_CMP_GE) -> Unsigned(CCMASK_CMP_LT)
    [] cc = Unsigned(CCMASK_CMP_GT) -> Unsigned(CCMASK_CMP_LE)
    [] cc = Unsigned(CCMASK_CMP_LE) -> Unsigned(CCMASK_CMP_GT)

(* ReverseBranchCondition's switch.                                        *)
ReverseCC(cc) ==
  CASE cc = CCMASK_CMP_EQ           -> CCMASK_CMP_NE
    [] cc = CCMASK_CMP_NE           -> CCMASK_CMP_EQ
    [] cc = CCMASK_CMP_LT           -> CCMASK_CMP_GE
    [] cc = CCMASK_CMP_GE           -> CCMASK_CMP_LT
    [] cc = CCMASK_CMP_GT           -> CCMASK_CMP_LE
    [] cc = CCMASK_CMP_LE           -> CCMASK_CMP_GT
    [] cc = Unsigned(CCMASK_CMP_LT) -> Unsigned(CCMASK_CMP_GE)
    [] cc = Unsigned(CCMASK_CMP_GE) -> Unsigned(CCMASK_CMP_LT)
    [] cc = Unsigned(CCMASK_CMP_GT) -> Unsigned(CCMASK_CMP_LE)
    [] cc = Unsigned(CCMASK_CMP_LE) -> Unsigned(CCMASK_CMP_GT)

(***************************************************************************)
(* Opcodes, by the form of their operands after the target: two registers, *)
(* a register and an immediate, a register compared with zero.             *)
(***************************************************************************)
BranchRR == {"BEQ", "BNE", "BLT", "BGE", "BLTU", "BGEU",
             "BGT", "BLE", "BGTU", "BLEU"}
BranchRI == {"BEQI", "BNEI", "BLTI", "BGEI", "BLTUI", "BGEUI"}
BranchRZ == {"BEQZ", "BNEZ", "BLTZ", "BGEZ"}

ConditionalBranches == BranchRR \cup BranchRI \cup BranchRZ

(* isBranch's switch.                                                      *)
BranchCC(op) ==
  CASE op \in {"BEQ", "BEQI", "BEQZ"} -> CCMASK_CMP_EQ
    [] op \in {"BNE", "BNEI", "BNEZ"} -> CCMASK_CMP_NE
    [] op \in {"BLT", "BLTI", "BLTZ"} -> CCMASK_CMP_LT
    [] op \in {"BGE", "BGEI", "BGEZ"} -> CCMASK_CMP_GE
    [] op \in {"BLTU", "BLTUI"}       -> Unsigned(CCMASK_CMP_LT)
    [] op \in {"BGEU", "BGEUI"}       -> Unsigned(CCMASK_CMP_GE)
    [] op = "BGT"                     -> CCMASK_CMP_GT
    [] op = "BGTU"                    -> Unsigned(CCMASK_CMP_GT)
    [] op = "BLE"                     -> CCMASK_CMP_LE
    [] op = "BLEU"                    -> Unsigned(CCMASK_CMP_LE)
    [] op \in {"J", "JX"}             -> CCMASK_ANY

(* InsertBranchAtInst's switch.                                            *)
InsertedOpcode(cc) ==
  CASE cc = CCMASK_CMP_EQ           -> "BEQ"
    [] cc = CCMASK_CMP_NE           -> "BNE"
    [] cc = CCMASK_CMP_LT           -> "BLT"
    [] cc = Unsigned(CCMASK_CMP_LT) -> "BLTU"
    [] cc = CCMASK_CMP_GE           -> "BGE"
    [] cc = Unsigned(CCMASK_CMP_GE) -> "BGEU"
    [] cc = CCMASK_CMP_GT           -> "BGT"
    [] cc = CCMASK_CMP_LE           -> "BLE"
    [] cc = Unsigned(CCMASK_CMP_GT) -> "BGTU"
    [] cc = Unsigned(CCMASK_CMP_LE) -> "BLEU"

(* What is printed for an opcode with the operands a and b, as a relation  *)
(* on their values: the rev forms swap them, the z forms compare with 0.   *)
AsmTaken(op, a, b) ==
  \/ op \in {"BEQ", "BEQI", "BNEI"} /\ a = b
  \/ op = "BNE"                     /\ a # b
  \/ op \in {"BGE", "BGEI"}         /\ Signed(a) >= Signed(b)
  \/ op \in {"BLT", "BLTI"}         /\ Signed(a) < Signed(b)
  \/ op \in {"BGEU", "BGEUI"}       /\ a >= b
  \/ op \in {"BLTU", "BLTUI"}       /\ a < b
  \/ op = "BGT"                     /\ Signed(b) < Signed(a)
  \/ op = "BGTU"                    /\ b < a
  \/ op = "BLE"                     /\ Signed(b) >= Signed(a)
  \/ op = "BLEU"                    /\ b >= a
  \/ op = "BEQZ"                    /\ a = 0
  \/ op = "BNEZ"                    /\ a # 0
  \/ op = "BGEZ"                    /\ Signed(a) >= 0
  \/ op = "BLTZ"                    /\ Signed(a) < 0
================================================================================
