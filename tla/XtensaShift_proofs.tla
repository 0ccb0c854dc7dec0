--------------------------- MODULE XtensaShift_proofs ---------------------------
(***************************************************************************)
(* Proofs about XtensaShift: whatever is selected for a node computes it,  *)
(* every instruction is emitted behind its operands and every shift right  *)
(* behind its amount, and so the code leaves in the register of each root  *)
(* what the root is worth.  ShiftInv is the inductive invariant; that the  *)
(* run of finished code is right follows from it by induction over the     *)
(* instructions.                                                           *)
(***************************************************************************)
EXTENDS XtensaShift, SequenceTheorems, WellFoundedInduction, TLAPS

--------------------------------------------------------------------------------
(***************************************************************************)
(* Induction over the natural numbers, and the least of them, for what is  *)
(* defined by recursion: over a set instead of a predicate.                *)
(***************************************************************************)
(* A set of natural numbers that contains 0 and every successor of its     *)
(* elements contains them all.                                             *)
LEMMA NatSetInduction ==
  ASSUME NEW T \in SUBSET Nat, 0 \in T, \A n \in T : n + 1 \in T
  PROVE  T = Nat
<1> DEFINE Less == {ss \in Nat \X Nat : ss[1] < ss[2]}
<1>1. IsWellFoundedOn(Less, Nat)
  BY NatLessThanWellFounded DEF OpToRel
<1>2. SUFFICES ASSUME Nat \ T # {}
               PROVE  FALSE
  OBVIOUS
<1> HIDE DEF Less
<1>3. PICK x \in Nat \ T : \A y \in Nat \ T : ~(<<y, x>> \in Less)
  <2>1. Nat \ T \subseteq Nat
    OBVIOUS
  <2> QED
    BY <1>1, <1>2, <2>1, WFMin
<1>4. x - 1 \in Nat \ T /\ (x - 1) + 1 = x
  BY <1>3
<1>5. <<x - 1, x>> \in Less
  BY <1>4, <1>3 DEF Less
<1> QED
  BY <1>3, <1>4, <1>5

(* The same up to a bound.                                                 *)
LEMMA BoundedInduction ==
  ASSUME NEW N \in Nat, NEW T, 0 \in T, \A n \in 0 .. N - 1 : n \in T => n + 1 \in T
  PROVE  0 .. N \subseteq T
<1> DEFINE U == {n \in Nat : n <= N => n \in T}
<1>1. 0 \in U
  OBVIOUS
<1>2. ASSUME NEW n \in U PROVE n + 1 \in U
  <2>1. n \in Nat /\ (n <= N => n \in T)
    OBVIOUS
  <2>2. n + 1 <= N => n \in 0 .. N - 1 /\ n <= N
    BY <2>1
  <2> QED
    BY <2>1, <2>2
<1> HIDE DEF U
<1>3. U = Nat
  <2>1. U \in SUBSET Nat
    BY DEF U
  <2> QED
    BY <1>1, <1>2, <2>1, NatSetInduction
<1> QED
  BY <1>3 DEF U

(* Natural numbers have a least one.                                       *)
LEMMA LeastOne ==
  ASSUME NEW T \in SUBSET Nat, T # {}
  PROVE  \E x \in T : \A y \in T : x <= y
<1> DEFINE Less == {ss \in Nat \X Nat : ss[1] < ss[2]}
<1>1. IsWellFoundedOn(Less, Nat)
  BY NatLessThanWellFounded DEF OpToRel
<1> HIDE DEF Less
<1>2. PICK x \in T : \A y \in T : ~(<<y, x>> \in Less)
  BY <1>1, WFMin
<1>3. ASSUME NEW y \in T PROVE x <= y
  <2>1. ~(y < x)
    BY <1>2 DEF Less
  <2> QED
    BY <2>1
<1> QED
  BY <1>3

(* And up to a bound a greatest one.                                       *)
LEMMA GreatestOne ==
  ASSUME NEW N \in Nat, NEW T \in SUBSET (0 .. N), T # {}
  PROVE  \E x \in T : \A y \in T : x >= y
<1> DEFINE U == {n \in Nat : \A y \in T : n >= y}
<1>1. N \in U
  OBVIOUS
<1>2. PICK n \in U : \A m \in U : n <= m
  BY <1>1, LeastOne
<1>3. n \in T
  <2> SUFFICES ASSUME n \notin T PROVE FALSE
    OBVIOUS
  <2>1. \A y \in T : y \in Nat /\ n >= y /\ n # y
    OBVIOUS
  <2>2. n \in Nat /\ n # 0
    <3>1. PICK z \in T : TRUE
      OBVIOUS
    <3> QED
      BY <2>1, <3>1
  <2>3. n - 1 \in Nat /\ \A y \in T : n - 1 >= y
    BY <2>1, <2>2
  <2>4. n - 1 \in U
    BY <2>3
  <2> HIDE DEF U
  <2> QED
    BY <1>2, <2>2, <2>4
<1> QED
  BY <1>2, <1>3

--------------------------------------------------------------------------------
Power(c) == 2 ^ c

(* Powers of two are positive: the exponents the code uses, one by one.    *)
LEMMA PowersOfTwo ==
  \A c \in 0 .. 32 : Power(c) \in Nat \ {0}
<1>1. /\ Power(0) = 1 /\ Power(1) = 2 /\ Power(2) = 4 /\ Power(3) = 8
      /\ Power(4) = 16 /\ Power(5) = 32 /\ Power(6) = 64 /\ Power(7) = 128
      /\ Power(8) = 256 /\ Power(9) = 512 /\ Power(10) = 1024
  BY DEF Power
<1>2. /\ Power(11) = 2048 /\ Power(12) = 4096 /\ Power(13) = 8192 /\ Power(14) = 16384
      /\ Power(15) = 32768 /\ Power(16) = 65536 /\ Power(17) = 131072 /\ Power(18) = 262144
      /\ Power(19) = 524288 /\ Power(20) = 1048576 /\ Power(21) = 2097152
  BY DEF Power
<1>3. /\ Power(22) = 4194304 /\ Power(23) = 8388608 /\ Power(24) = 16777216 /\ Power(25) = 33554432
      /\ Power(26) = 67108864 /\ Power(27) = 134217728 /\ Power(28) = 268435456 /\ Power(29) = 536870912
      /\ Power(30) = 1073741824 /\ Power(31) = 2147483648 /\ Power(32) = 4294967296
  BY DEF Power
<1>4. ASSUME NEW c \in 0 .. 10 PROVE Power(c) \in Nat \ {0}
  <2>1. c \in {0, 1, 2, 3, 4, 5, 6, 7, 8, 9, 10}
    OBVIOUS
  <2> QED
    BY <1>1, <2>1
<1>5. ASSUME NEW c \in 11 .. 21 PROVE Power(c) \in Nat \ {0}
  <2>1. c \in {11, 12, 13, 14, 15, 16, 17, 18, 19, 20, 21}
    OBVIOUS
  <2> QED
    BY <1>2, <2>1
<1>6. ASSUME NEW c \in 22 .. 32 PROVE Power(c) \in Nat \ {0}
  <2>1. c \in {22, 23, 24, 25, 26, 27, 28, 29, 30, 31, 32}
    OBVIOUS
  <2> QED
    BY <1>3, <2>1
<1>7. \A c \in 0 .. 32 : c \in 0 .. 10 \/ c \in 11 .. 21 \/ c \in 22 .. 32
  OBVIOUS
<1> QED
  BY <1>4, <1>5, <1>6, <1>7

(* What is put into a register is a natural number.                        *)
LEMMA WordNat ==
  /\ W \in 4 .. 32
  /\ \A v \in Int : Word(v) \in Nat
  /\ Words \subseteq Nat
<1>1. W \in 4 .. 32
  BY ShiftAssumption
<1>2. 2 ^ W \in Nat \ {0}
  <2>1. W \in 0 .. 32
    BY <1>1
  <2> QED
    BY <2>1, PowersOfTwo DEF Power
<1> DEFINE M == 2 ^ W
<1>3. /\ \A v \in Int : v % M \in Nat
      /\ 0 .. M - 1 \subseteq Nat
  <2>1. M \in Nat \ {0}
    BY <1>2
  <2> HIDE DEF M
  <2> QED
    BY <2>1
<1> QED
  BY <1>1, <1>3 DEF Word, Words

(* A shift of a natural number by less than the width is one.              *)
LEMMA ShiftsNat ==
  ASSUME NEW v \in Nat, NEW c \in 0 .. W - 1
  PROVE  Shl(v, c) \in Nat /\ Sra(v, c) \in Nat /\ Srl(v, c) \in Nat
<1> DEFINE P == 2 ^ c
           M == 2 ^ W
<1>1. P \in Nat \ {0} /\ M \in Nat \ {0}
  <2>1. W \in 0 .. 32 /\ c \in 0 .. 32
    BY WordNat
  <2> QED
    BY <2>1, PowersOfTwo DEF Power
<1> HIDE DEF P, M
<1>2. v * P \in Int /\ v \div P \in Nat
  BY <1>1
<1>3. Signed(v) \in Int
  BY <1>1 DEF Signed, M
<1>4. Signed(v) \div P \in Int
  BY <1>1, <1>3
<1> QED
  BY <1>2, <1>4, WordNat DEF Shl, Sra, Srl, P
--------------------------------------------------------------------------------
(* The blocks' nodes.                                                      *)
LEMMA NodeFacts ==
  ASSUME block \in Blocks
  PROVE  /\ dag \in Seq(Nodes) /\ Len(dag) \in Nat
         /\ DOMAIN dag = AR /\ AR \subseteq Nat
         /\ block.roots \subseteq AR
         /\ \A n \in AR :
              /\ dag[n] \in Nodes
              /\ isConst(n) => dag[n].a \in Words
              /\ ~Leaf(n) /\ ~isConst(n) =>
                   dag[n].a \in 1 .. n - 1 /\ dag[n].b \in 1 .. n - 1
<1>1. dag \in Seq(Nodes)
  BY ShiftAssumption DEF dag
<1>2. Len(dag) \in Nat /\ DOMAIN dag = AR /\ \A n \in AR : dag[n] \in Nodes
  BY <1>1, LenProperties, ElementOfSeq DEF AR
<1>3. AR \subseteq Nat
  BY <1>2 DEF AR
<1> QED
  BY <1>1, <1>2, <1>3, ShiftAssumption DEF dag, Leaf, isConst

(* The instructions that compute a node, m's registers being nodes.        *)
Sum(m, d)        == \E op \in {"ADD_N", "ADD"} : m = Machine(op, <<d.a, d.b>>, 0)
ScaledSum(m, s, t) ==
  \E op \in {"ADDX2", "ADDX4", "ADDX8"} :
    ShlBy(t, Scale(op)) /\ m = Machine(op, <<s, dag[t].a>>, 0)
ScaledDifference(m, d) ==
  \E op \in {"SUBX2", "SUBX4", "SUBX8"} :
    ShlBy(d.a, Scale(op)) /\ m = Machine(op, <<dag[d.a].a, d.b>>, 0)

Covers(m, d) ==
  \/ d.op = "const" /\ m = Machine("MOVI_N", <<>>, d.a)
  \/ d.op = "add" /\ (Sum(m, d) \/ ScaledSum(m, d.a, d.b) \/ ScaledSum(m, d.b, d.a))
  \/ d.op = "sub" /\ (m = Machine("SUB", <<d.a, d.b>>, 0) \/ ScaledDifference(m, d))
  \/ d.op = "neg" /\ m = Machine("NEG", <<d.a>>, 0)
  \/ d.op = "shl" /\ \/ m = Machine("SLL", <<d.a, d.b>>, 0)
                     \/ isConst(d.b) /\ m = Machine("SLLI", <<d.a>>, dag[d.b].a)
  \/ d.op = "sra" /\ m = Machine("SRA", <<d.a, d.b>>, 0)

(* An instruction selected is the first of the richest that match.         *)
LEMMA SelectedMatches ==
  ASSUME NEW n, NEW m \in Selections(n)
  PROVE  \E k \in 1 .. 17 :
           /\ m \in PatternMatches(Defined[k], n)
           /\ \A j \in 1 .. 17 : PatternMatches(Defined[j], n) # {} =>
                /\ Complexity(Defined[j]) <= Complexity(Defined[k])
                /\ Complexity(Defined[j]) = Complexity(Defined[k]) => k <= j
<1> DEFINE c(k) == Complexity(Defined[k])
<1>1. DOMAIN Defined = 1 .. 17
  BY DEF Defined
<1>2. Matching(n) # {} /\ Matching(n) \subseteq 1 .. 17
      /\ m \in PatternMatches(Defined[Min(Richest(n))], n)
  BY <1>1 DEF Selections, Matching
<1>3. \A k : c(k) \in {1, 2, 3}
  BY DEF Complexity
<1> HIDE DEF c
<1>4. \E k \in Matching(n) : \A j \in Matching(n) : c(j) <= c(k)
  <2>1. CASE \E k \in Matching(n) : c(k) = 3
    BY <1>3, <2>1
  <2>2. CASE (\A k \in Matching(n) : c(k) # 3) /\ \E k \in Matching(n) : c(k) = 2
    BY <1>3, <2>2
  <2>3. CASE \A k \in Matching(n) : c(k) = 1
    BY <1>2, <2>3
  <2> QED
    BY <1>3, <2>1, <2>2, <2>3
<1>5. Richest(n) = {k \in Matching(n) : \A j \in Matching(n) : c(j) <= c(k)}
  BY DEF Richest, c
<1>6. Richest(n) # {} /\ Richest(n) \subseteq 1 .. 17
  BY <1>2, <1>4, <1>5
<1> DEFINE k == Min(Richest(n))
<1>7. k \in Richest(n) /\ \A j \in Richest(n) : k <= j
  <2>1. Richest(n) \in SUBSET Nat
    BY <1>6
  <2>2. \E h \in Richest(n) : \A j \in Richest(n) : h <= j
    BY <1>6, <2>1, LeastOne
  <2> QED
    BY <2>2 DEF Min
<1> HIDE DEF k
<1>8. ASSUME NEW j \in 1 .. 17, PatternMatches(Defined[j], n) # {}
      PROVE  c(j) <= c(k) /\ (c(j) = c(k) => k <= j)
  <2>1. j \in Matching(n)
    BY <1>1, <1>8 DEF Matching
  <2>2. c(j) <= c(k)
    BY <1>5, <1>7, <2>1
  <2>3. ASSUME c(j) = c(k) PROVE j \in Richest(n)
    BY <1>5, <1>7, <2>1, <2>3
  <2> QED
    BY <1>7, <2>2, <2>3
<1> QED
  BY <1>2, <1>6, <1>7, <1>8 DEF c, k

(* A match covers the node, but for the patterns of SRAI, SRLI and SRL,    *)
(* which match what an earlier instruction does.                           *)
LEMMA MatchCovers ==
  ASSUME NEW n, NEW k \in 1 .. 17, NEW m \in PatternMatches(Defined[k], n)
  PROVE  \/ Covers(m, dag[n])
         \/ k \in {15, 16} /\ PatternMatches(Defined[14], n) # {}
         \/ k = 13 /\ PatternMatches(Defined[12], n) # {}
<1> DEFINE d == dag[n]
<1>1. ASSUME NEW op \in {"ADD_N", "ADD"}, m \in PatternMatches(op, n)
      PROVE  Covers(m, d)
  <2>1. d.op = "add" /\ m \in {Machine(op, <<d.a, d.b>>, 0)}
    BY <1>1 DEF PatternMatches
  <2> QED
    BY <2>1 DEF Covers, Sum
<1>2. ASSUME NEW op \in {"ADDX2", "ADDX4", "ADDX8"}, m \in PatternMatches(op, n)
      PROVE  Covers(m, d)
  <2>1. /\ d.op = "add"
        /\ m \in (IF ShlBy(d.b, Scale(op)) THEN {Machine(op, <<d.a, dag[d.b].a>>, 0)} ELSE {})
             \cup (IF ShlBy(d.a, Scale(op)) THEN {Machine(op, <<d.b, dag[d.a].a>>, 0)} ELSE {})
    BY <1>2 DEF PatternMatches
  <2>2. ScaledSum(m, d.a, d.b) \/ ScaledSum(m, d.b, d.a)
    BY <2>1 DEF ScaledSum
  <2> QED
    BY <2>1, <2>2 DEF Covers
<1>3. ASSUME m \in PatternMatches("SUB", n)
      PROVE  Covers(m, d)
  <2>1. d.op = "sub" /\ m \in {Machine("SUB", <<d.a, d.b>>, 0)}
    BY <1>3 DEF PatternMatches
  <2> QED
    BY <2>1 DEF Covers
<1>4. ASSUME NEW op \in {"SUBX2", "SUBX4", "SUBX8"}, m \in PatternMatches(op, n)
      PROVE  Covers(m, d)
  <2> DEFINE S == IF ShlBy(d.a, Scale(op)) THEN {Machine(op, <<d.b, dag[d.a].a>>, 0)} ELSE {}
  <2>1. d.op = "sub" /\ m \in {Machine(op, <<h.regs[2], h.regs[1]>>, 0) : h \in S}
    BY <1>4 DEF PatternMatches
  <2>2. ShlBy(d.a, Scale(op)) /\ m = Machine(op, <<dag[d.a].a, d.b>>, 0)
    BY <2>1 DEF Machine
  <2> QED
    BY <2>1, <2>2 DEF Covers, ScaledDifference
<1>5. ASSUME m \in PatternMatches("NEG", n)
      PROVE  Covers(m, d)
  <2>1. d.op = "neg" /\ m \in {Machine("NEG", <<d.a>>, 0)}
    BY <1>5 DEF PatternMatches
  <2> QED
    BY <2>1 DEF Covers
<1>6. ASSUME m \in PatternMatches("SLL", n)
      PROVE  Covers(m, d)
  <2>1. d.op = "shl" /\ m \in {Machine("SLL", <<d.a, d.b>>, 0)}
    BY <1>6 DEF PatternMatches
  <2> QED
    BY <2>1 DEF Covers
<1>7. ASSUME m \in PatternMatches("SRA", n)
      PROVE  Covers(m, d)
  <2>1. d.op = "sra" /\ m \in {Machine("SRA", <<d.a, d.b>>, 0)}
    BY <1>7 DEF PatternMatches
  <2> QED
    BY <2>1 DEF Covers
<1>8. ASSUME m \in PatternMatches("SRL", n)
      PROVE  PatternMatches("SRA", n) # {}
  <2>1. d.op = "sra"
    BY <1>8 DEF PatternMatches
  <2>2. PatternMatches("SRA", n) = {Machine("SRA", <<d.a, d.b>>, 0)}
    BY <2>1 DEF PatternMatches
  <2> QED
    BY <2>2
<1>9. ASSUME m \in PatternMatches("SLLI", n)
      PROVE  Covers(m, d)
  <2>1. d.op = "shl" /\ isConst(d.b) /\ m = Machine("SLLI", <<d.a>>, dag[d.b].a)
    BY <1>9 DEF PatternMatches
  <2> QED
    BY <2>1 DEF Covers
<1>10. ASSUME NEW op \in {"SRAI", "SRLI"}, m \in PatternMatches(op, n)
       PROVE  PatternMatches("SLLI", n) # {}
  <2>1. d.op = "shl" /\ isConst(d.b) /\ dag[d.b].a \in shimm5
    <3>1. shimm4 \subseteq shimm5
      BY DEF shimm4, shimm5
    <3> QED
      BY <1>10, <3>1 DEF PatternMatches
  <2>2. PatternMatches("SLLI", n) = {Machine("SLLI", <<d.a>>, dag[d.b].a)}
    BY <2>1 DEF PatternMatches
  <2> QED
    BY <2>2
<1>11. ASSUME m \in PatternMatches("MOVI_N", n)
       PROVE  Covers(m, d)
  <2>1. d.op = "const" /\ m \in {Machine("MOVI_N", <<>>, d.a)}
    BY <1>11 DEF PatternMatches
  <2> QED
    BY <2>1 DEF Covers
<1>12. /\ Defined[1] = "ADD_N" /\ Defined[2] = "ADD" /\ Defined[3] = "SUB"
       /\ Defined[4] = "ADDX2" /\ Defined[5] = "ADDX4" /\ Defined[6] = "ADDX8"
       /\ Defined[7] = "SUBX2" /\ Defined[8] = "SUBX4" /\ Defined[9] = "SUBX8"
       /\ Defined[10] = "NEG" /\ Defined[11] = "SLL" /\ Defined[12] = "SRA"
       /\ Defined[13] = "SRL" /\ Defined[14] = "SLLI" /\ Defined[15] = "SRAI"
       /\ Defined[16] = "SRLI" /\ Defined[17] = "MOVI_N"
  BY DEF Defined
<1>13. \/ k \in {1, 2} \/ k = 3 \/ k \in {4, 5, 6} \/ k \in {7, 8, 9} \/ k = 10 \/ k = 11
       \/ k = 12 \/ k = 13 \/ k = 14 \/ k \in {15, 16} \/ k = 17
  OBVIOUS
<1> HIDE DEF d
<1>14. CASE k \in {1, 2} \/ k = 3 \/ k \in {4, 5, 6} \/ k \in {7, 8, 9}
  BY <1>1, <1>2, <1>3, <1>4, <1>12, <1>14 DEF d
<1>15. CASE k = 10 \/ k = 11 \/ k = 12 \/ k = 14 \/ k = 17
  BY <1>5, <1>6, <1>7, <1>9, <1>11, <1>12, <1>15 DEF d
<1>16. CASE k = 13 \/ k \in {15, 16}
  BY <1>8, <1>10, <1>12, <1>16
<1> QED
  BY <1>13, <1>14, <1>15, <1>16

(* Whatever is selected for a node computes it.                            *)
LEMMA SelectionCovers ==
  ASSUME NEW n, NEW m \in Selections(n)
  PROVE  Covers(m, dag[n])
<1>1. PICK k \in 1 .. 17 :
        /\ m \in PatternMatches(Defined[k], n)
        /\ \A j \in 1 .. 17 : PatternMatches(Defined[j], n) # {} =>
             /\ Complexity(Defined[j]) <= Complexity(Defined[k])
             /\ Complexity(Defined[j]) = Complexity(Defined[k]) => k <= j
  BY SelectedMatches
<1>2. /\ Complexity(Defined[14]) = 2 /\ Complexity(Defined[15]) = 2
      /\ Complexity(Defined[16]) = 2
      /\ Complexity(Defined[12]) = 1 /\ Complexity(Defined[13]) = 1
  BY DEF Complexity, Defined
<1>3. ~(k \in {15, 16} /\ PatternMatches(Defined[14], n) # {})
  <2>1. 14 \in 1 .. 17 /\ ~(15 <= 14) /\ ~(16 <= 14)
    OBVIOUS
  <2> QED
    BY <1>1, <1>2, <2>1
<1>4. ~(k = 13 /\ PatternMatches(Defined[12], n) # {})
  <2>1. 12 \in 1 .. 17 /\ ~(13 <= 12)
    OBVIOUS
  <2> QED
    BY <1>1, <1>2, <2>1
<1> QED
  BY <1>1, <1>3, <1>4, MatchCovers
--------------------------------------------------------------------------------
Selectable ==
  {"ADD_N", "ADD", "ADDX2", "ADDX4", "ADDX8", "SUB", "SUBX2", "SUBX4", "SUBX8", "NEG",
   "SLL", "SLLI", "SRA", "MOVI_N"}

Machines == [op : Selectable, regs : Seq(AR), imm : Nat]

(* The nodes a selected instruction reads are operands below its own.      *)
LEMMA CoversFacts ==
  ASSUME block \in Blocks, NEW n \in AR, NEW m, Covers(m, dag[n])
  PROVE  /\ ~Leaf(n)
         /\ m \in Machines
         /\ \A k \in ToSet(m.regs) : k \in 1 .. n - 1
         /\ UsesAmount(m.op) =>
              /\ m.regs = <<dag[n].a, dag[n].b>> /\ dag[n].a \in AR /\ dag[n].b \in AR
              /\ dag[n].op = (IF m.op = "SLL" THEN "shl" ELSE "sra")
              /\ m.op \in {"SLL", "SRA"}
<1> DEFINE d == dag[n]
<1>1. ~Leaf(n)
  BY DEF Covers, Leaf
<1>2. AR \subseteq Nat /\ d \in Nodes /\ (isConst(n) => d.a \in Words) /\ Words \subseteq Nat
      /\ (~isConst(n) => d.a \in 1 .. n - 1 /\ d.b \in 1 .. n - 1)
  BY <1>1, NodeFacts, WordNat
<1>3. \A k \in 1 .. n - 1 : k \in AR
  BY NodeFacts DEF AR
<1>4. ASSUME NEW op \in Selectable, NEW k \in 1 .. n - 1, NEW h \in 1 .. n - 1,
             m = Machine(op, <<k, h>>, 0)
      PROVE  m \in Machines /\ ToSet(m.regs) = {k, h}
  <2>1. <<k, h>> \in Seq(AR) /\ ToSet(<<k, h>>) = {k, h}
    BY <1>3 DEF ToSet
  <2> QED
    BY <1>4, <2>1 DEF Machine, Machines
<1>5. ASSUME NEW op \in Selectable, NEW k \in 1 .. n - 1, NEW i \in Nat,
             m = Machine(op, <<k>>, i)
      PROVE  m \in Machines /\ ToSet(m.regs) = {k}
  <2>1. <<k>> \in Seq(AR) /\ ToSet(<<k>>) = {k}
    BY <1>3 DEF ToSet
  <2> QED
    BY <1>5, <2>1 DEF Machine, Machines
<1>6. ASSUME NEW t \in 1 .. n - 1, NEW c, ShlBy(t, c)
      PROVE  dag[t].a \in 1 .. n - 1
  <2>1. ~Leaf(t) /\ ~isConst(t) /\ t \in AR
    BY <1>3, <1>6 DEF ShlBy, Leaf, isConst
  <2>2. dag[t].a \in 1 .. t - 1
    BY <2>1, NodeFacts
  <2> QED
    BY <1>2, <2>2
<1> DEFINE Goal == /\ m \in Machines
                   /\ \A k \in ToSet(m.regs) : k \in 1 .. n - 1
                   /\ ~UsesAmount(m.op)
<1> HIDE DEF d
<1>7. CASE d.op = "const" /\ m = Machine("MOVI_N", <<>>, d.a)
  <2>1. d.a \in Nat
    BY <1>2, <1>7 DEF isConst, d
  <2>2. m.regs = <<>> /\ m.op = "MOVI_N" /\ m.imm = d.a
    BY <1>7 DEF Machine
  <2>3. DOMAIN m.regs = {}
    BY <2>2
  <2>4. ToSet(m.regs) = {}
    BY <2>3 DEF ToSet
  <2>5. <<>> \in Seq(AR)
    OBVIOUS
  <2>6. m \in Machines
    BY <1>7, <2>1, <2>5 DEF Machine, Machines, Selectable
  <2>7. Goal
    BY <2>2, <2>4, <2>6 DEF UsesAmount
  <2>8. ~UsesAmount(m.op)
    BY <2>7
  <2> HIDE DEF Goal
  <2> QED
    BY <1>1, <2>4, <2>6, <2>8
<1>8. ASSUME NEW op \in Selectable \ {"SLL", "SRA"},
             NEW k \in 1 .. n - 1, NEW h \in 1 .. n - 1, m = Machine(op, <<k, h>>, 0)
      PROVE  Goal
  <2>1. m.op = op
    BY <1>8 DEF Machine
  <2>2. m \in Machines /\ ToSet(m.regs) = {k, h}
    BY <1>4, <1>8
  <2> QED
    BY <2>1, <2>2 DEF UsesAmount, Selectable
<1>9. CASE d.op \in {"add", "sub"}
  <2>1. ~isConst(n) /\ d.a \in 1 .. n - 1 /\ d.b \in 1 .. n - 1
    BY <1>2, <1>9 DEF isConst, d
  <2>0. {"ADD_N", "ADD", "ADDX2", "ADDX4", "ADDX8", "SUB", "SUBX2", "SUBX4", "SUBX8"}
          \subseteq Selectable \ {"SLL", "SRA"}
    BY DEF Selectable
  <2> HIDE DEF Goal
  <2>2. ASSUME Sum(m, d) PROVE Goal
    <3>1. PICK op \in {"ADD_N", "ADD"} : m = Machine(op, <<d.a, d.b>>, 0)
      BY <2>2 DEF Sum
    <3> QED
      BY <1>8, <2>0, <2>1, <3>1
  <2>3. ASSUME NEW s \in 1 .. n - 1, NEW t \in 1 .. n - 1, ScaledSum(m, s, t) PROVE Goal
    <3>1. PICK op \in {"ADDX2", "ADDX4", "ADDX8"} :
            ShlBy(t, Scale(op)) /\ m = Machine(op, <<s, dag[t].a>>, 0)
      BY <2>3 DEF ScaledSum
    <3>2. dag[t].a \in 1 .. n - 1
      BY <1>6, <3>1
    <3> QED
      BY <1>8, <2>0, <3>1, <3>2
  <2>4. ASSUME m = Machine("SUB", <<d.a, d.b>>, 0) PROVE Goal
    BY <1>8, <2>0, <2>1, <2>4
  <2>5. ASSUME ScaledDifference(m, d) PROVE Goal
    <3>1. PICK op \in {"SUBX2", "SUBX4", "SUBX8"} :
            ShlBy(d.a, Scale(op)) /\ m = Machine(op, <<dag[d.a].a, d.b>>, 0)
      BY <2>5 DEF ScaledDifference
    <3>2. dag[d.a].a \in 1 .. n - 1
      BY <1>6, <2>1, <3>1
    <3> QED
      BY <1>8, <2>0, <2>1, <3>1, <3>2
  <2>6. \/ Sum(m, d) \/ ScaledSum(m, d.a, d.b) \/ ScaledSum(m, d.b, d.a)
        \/ m = Machine("SUB", <<d.a, d.b>>, 0) \/ ScaledDifference(m, d)
    BY <1>9 DEF Covers, d
  <2>7. Goal
    BY <2>1, <2>2, <2>3, <2>4, <2>5, <2>6
  <2> QED
    BY <1>1, <2>7 DEF Goal
<1>10. CASE d.op = "neg" /\ m = Machine("NEG", <<d.a>>, 0)
  <2>1. d.a \in 1 .. n - 1
    BY <1>2, <1>10 DEF isConst, d
  <2>2. m.op = "NEG"
    BY <1>10 DEF Machine
  <2>3. Goal
    BY <1>5, <1>10, <2>1, <2>2 DEF UsesAmount, Selectable
  <2> QED
    BY <1>1, <2>3
<1>11. CASE d.op = "shl" /\ isConst(d.b) /\ m = Machine("SLLI", <<d.a>>, dag[d.b].a)
  <2>1. d.a \in 1 .. n - 1 /\ d.b \in 1 .. n - 1
    BY <1>2, <1>11 DEF isConst, d
  <2>2. dag[d.b].a \in Nat
    BY <1>3, <1>11, <2>1, NodeFacts, WordNat
  <2>3. m.op = "SLLI"
    BY <1>11 DEF Machine
  <2>4. Goal
    BY <1>5, <1>11, <2>1, <2>2, <2>3 DEF UsesAmount, Selectable
  <2> QED
    BY <1>1, <2>4
<1>12. CASE \/ d.op = "shl" /\ m = Machine("SLL", <<d.a, d.b>>, 0)
            \/ d.op = "sra" /\ m = Machine("SRA", <<d.a, d.b>>, 0)
  <2>1. d.a \in 1 .. n - 1 /\ d.b \in 1 .. n - 1
    BY <1>2, <1>12 DEF isConst, d
  <2>2. m \in Machines /\ ToSet(m.regs) = {d.a, d.b}
    BY <1>4, <1>12, <2>1 DEF Selectable
  <2>3. m.op = (IF d.op = "shl" THEN "SLL" ELSE "SRA") /\ m.regs = <<d.a, d.b>>
    BY <1>12 DEF Machine
  <2> QED
    BY <1>1, <1>3, <1>12, <2>1, <2>2, <2>3 DEF d
<1> QED
  BY <1>7, <1>9, <1>10, <1>11, <1>12 DEF Covers, d
--------------------------------------------------------------------------------
(***************************************************************************)
(* The invariant.                                                          *)
(***************************************************************************)
SARs == {sarl0, sarr0}

Instructions ==
  [op : Selectable \cup {"COPY", "SSL", "SSR"}, d : AR \cup SARs, s : Seq(Int), imm : Nat]

(* The instruction a selected one becomes, and the copy in front of it.    *)
MainIns(m, n) ==
  IF UsesAmount(m.op) THEN Ins(m.op, n, <<m.regs[1], AmountRegister(m.op)>>, 0)
  ELSE Ins(m.op, n, m.regs, m.imm)

CopyOp(st, m) ==
  IF st = "done" THEN (IF m.op = "SLL" THEN "SSL" ELSE "SSR") ELSE "COPY"

AmountIns(st, m) == Ins(CopyOp(st, m), AmountRegister(m.op), <<m.regs[2]>>, 0)

(* The first j - 1 instructions leave in k's register what node k computes. *)
Holds(c, k, j) == Leaf(k) \/ \E i \in 1 .. j - 1 : c[i].d = k

(* Instruction j of c is what some node selects, or the amount for it.  A  *)
(* shift has its amount right in front of it.                              *)
PlacedMain(c, st, j, n) ==
  /\ c[j] = MainIns(sel[n], n)
  /\ UsesAmount(sel[n].op) => j - 1 \in 1 .. j /\ c[j - 1] = AmountIns(st, sel[n])

PlacedAmount(c, st, j, n) ==
  UsesAmount(sel[n].op) /\ c[j] = AmountIns(st, sel[n])

Placed(c, st, j) ==
  \E n \in DOMAIN sel :
    /\ \A k \in ToSet(sel[n].regs) : Holds(c, k, j)
    /\ PlacedMain(c, st, j, n) \/ PlacedAmount(c, st, j, n)

Reached == DOMAIN sel \cup todo

SelectionInv ==
  /\ block \in Blocks
  /\ stage \in {"select", "emit", "copies", "done", "failed"}
  /\ Reached \subseteq AR
  /\ \A n \in todo : ~Leaf(n)
  /\ \A n \in DOMAIN sel : Covers(sel[n], dag[n])
  /\ \A n \in DOMAIN sel : \A k \in ToSet(sel[n].regs) : Leaf(k) \/ k \in Reached
  /\ \A n \in block.roots : Leaf(n) \/ n \in Reached

EmissionInv ==
  /\ code \in Seq(Instructions)
  /\ stage \in {"select", "failed"} => code = <<>>
  /\ stage \notin {"select", "failed"} => todo \subseteq DOMAIN sel
  /\ stage \in {"copies", "done"} => todo = {}
  /\ stage \notin {"select", "failed"} =>
       \A n \in DOMAIN sel \ todo : Holds(code, n, Len(code) + 1)
  /\ \A j \in 1 .. Len(code) : Placed(code, stage, j)

ShiftInv == SelectionInv /\ EmissionInv

(* The empty sequence is a sequence of instructions, of length 0.          *)
LEMMA NoCode ==
  /\ <<>> \in Seq(Instructions)
  /\ \A j \in 1 .. Len(<<>>) : Placed(<<>>, stage, j)
<1>1. Len(<<>>) = 0
  OBVIOUS
<1>2. 1 .. Len(<<>>) = {}
  BY <1>1
<1> QED
  BY <1>2

(* Nothing is selected or emitted at first.                                *)
LEMMA InitShift ==
  Init => ShiftInv
<1> SUFFICES ASSUME Init PROVE ShiftInv
  OBVIOUS
<1>1. DOMAIN sel = {} /\ Reached = todo
  BY DEF Init, Reached
<1>2. block \in Blocks /\ stage = "select" /\ code = <<>>
      /\ todo = {n \in block.roots : ~Leaf(n)}
  BY DEF Init
<1>3. SelectionInv
  BY <1>1, <1>2, NodeFacts DEF SelectionInv
<1>4. EmissionInv
  BY <1>2, NoCode DEF EmissionInv
<1> QED
  BY <1>3, <1>4 DEF ShiftInv

(* The block stays, and with it what is said of its nodes.                 *)
LEMMA BlockStays ==
  ASSUME block' = block
  PROVE  /\ dag' = dag /\ AR' = AR
         /\ \A n : Leaf(n)' <=> Leaf(n)
         /\ \A m, d : Covers(m, d)' <=> Covers(m, d)
         /\ \A c, k, j : Holds(c, k, j)' <=> Holds(c, k, j)
         /\ Instructions' = Instructions
<1>1. dag' = dag
  BY DEF dag
<1>2. AR' = AR /\ \A n : Leaf(n)' <=> Leaf(n)
  BY <1>1 DEF AR, Leaf
<1>3. \A m, s, t : ScaledSum(m, s, t)' <=> ScaledSum(m, s, t)
  BY <1>1 DEF ScaledSum, ShlBy, isConst
<1>4. \A m, d : (Sum(m, d)' <=> Sum(m, d)) /\ (ScaledDifference(m, d)' <=> ScaledDifference(m, d))
  BY <1>1 DEF ScaledDifference, ShlBy, isConst, Sum
<1>5. \A m, d : Covers(m, d)' <=> Covers(m, d)
  BY <1>1, <1>3, <1>4 DEF Covers, isConst
<1>6. \A c, k, j : Holds(c, k, j)' <=> Holds(c, k, j)
  BY <1>2 DEF Holds
<1>7. Instructions' = Instructions
  BY <1>2 DEF Instructions
<1> QED
  BY <1>1, <1>2, <1>5, <1>6, <1>7

(* A placed instruction stays one as code is appended.                     *)
LEMMA PlacedKept ==
  ASSUME NEW c, NEW h, NEW st, NEW L \in Nat, NEW j \in 1 .. L,
         \A i \in 1 .. L : h[i] = c[i],
         Placed(c, st, j)
  PROVE  Placed(h, st, j)
<1>1. \A k : Holds(c, k, j) => Holds(h, k, j)
  BY DEF Holds
<1>2. h[j] = c[j] /\ (j - 1 \in 1 .. j => h[j - 1] = c[j - 1])
  OBVIOUS
<1>3. \A n : /\ PlacedMain(c, st, j, n) => PlacedMain(h, st, j, n)
             /\ PlacedAmount(c, st, j, n) => PlacedAmount(h, st, j, n)
  BY <1>2 DEF PlacedMain, PlacedAmount
<1> QED
  BY <1>1, <1>3 DEF Placed

(* The node selected next is the last of those to be selected.             *)
LEMMA LastToSelect ==
  ASSUME SelectionInv, todo # {}
  PROVE  Max(todo) \in todo
<1>1. Len(dag) \in Nat /\ todo \in SUBSET (0 .. Len(dag))
  BY NodeFacts DEF SelectionInv, Reached, AR
<1>2. \E x \in todo : \A y \in todo : x >= y
  BY <1>1, GreatestOne
<1> QED
  BY <1>2 DEF Max

(* A node selected computes its value from operands that are arguments or  *)
(* wanted from then on.                                                    *)
LEMMA SelectStep ==
  ASSUME ShiftInv, Select
  PROVE  ShiftInv'
<1> DEFINE n == Max(todo)
<1>1. n \in todo /\ n \in AR /\ ~Leaf(n) /\ block \in Blocks
  BY LastToSelect DEF Select, ShiftInv, SelectionInv, Reached
<1>2. PICK m \in Selections(n) :
        /\ sel' = [k \in DOMAIN sel \cup {n} |-> IF k = n THEN m ELSE sel[k]]
        /\ todo' = (todo \ {n}) \cup {k \in ToSet(m.regs) : ~Leaf(k)}
  BY DEF Select
<1> HIDE DEF n
<1>3. Covers(m, dag[n])
  BY SelectionCovers
<1>4. \A k \in ToSet(m.regs) : k \in AR
  <2>1. \A k \in 1 .. n - 1 : k \in AR
    BY <1>1, NodeFacts DEF AR
  <2> QED
    BY <1>1, <1>3, <2>1, CoversFacts
<1>5. /\ DOMAIN sel' = DOMAIN sel \cup {n} /\ sel'[n] = m
      /\ \A k \in DOMAIN sel \ {n} : sel'[k] = sel[k]
  BY <1>2
<1>6. /\ Reached' = Reached \cup {k \in ToSet(m.regs) : ~Leaf(k)}
      /\ Reached \subseteq Reached'
  BY <1>1, <1>2, <1>5 DEF Reached
<1>7. block' = block /\ stage = "select" /\ stage' = stage /\ code' = code
  BY DEF Select
<1>8. SelectionInv'
  <2>1. Reached' \subseteq AR /\ \A k \in todo' : ~Leaf(k)
    BY <1>2, <1>4, <1>6 DEF ShiftInv, SelectionInv
  <2>2. \A k \in DOMAIN sel' : Covers(sel'[k], dag[k])
    BY <1>3, <1>5 DEF ShiftInv, SelectionInv
  <2>3. ASSUME NEW k \in DOMAIN sel', NEW r \in ToSet(sel'[k].regs)
        PROVE  Leaf(r) \/ r \in Reached'
    BY <1>5, <1>6 DEF ShiftInv, SelectionInv
  <2>4. \A r \in block.roots : Leaf(r) \/ r \in Reached'
    BY <1>6 DEF ShiftInv, SelectionInv
  <2>5. ShiftInv => stage \in {"select", "emit", "copies", "done", "failed"}
    BY DEF ShiftInv, SelectionInv
  <2> QED
    BY <1>1, <1>7, <2>1, <2>2, <2>3, <2>4, <2>5, BlockStays DEF SelectionInv
<1>9. EmissionInv'
  <2>1. code' = <<>> /\ 1 .. Len(<<>>) = {}
    BY <1>7 DEF ShiftInv, EmissionInv
  <2>2. code' \in Seq(Instructions')
    BY <1>7, BlockStays DEF ShiftInv, EmissionInv
  <2> QED
    BY <1>7, <2>1, <2>2 DEF EmissionInv
<1> QED
  BY <1>8, <1>9 DEF ShiftInv

(* What an instruction's place says is the same after a step that changes  *)
(* neither the block nor what is selected.                                 *)
LEMMA PlacedStays ==
  ASSUME block' = block, sel' = sel, NEW j, Placed(code', stage', j)
  PROVE  Placed(code, stage, j)'
<1>1. \A k : Holds(code, k, j)' <=> Holds(code', k, j)
  BY BlockStays DEF Holds
<1>2. \A st, m : AmountIns(st, m)' = AmountIns(st, m)
  BY DEF AmountIns, CopyOp
<1> QED
  BY <1>1, <1>2 DEF Placed, PlacedMain, PlacedAmount

(* What is selected stays after selection.                                 *)
LEMMA SelectionStays ==
  ASSUME SelectionInv, block' = block, sel' = sel,
         stage' \in {"select", "emit", "copies", "done", "failed"},
         todo' \subseteq Reached, Reached \subseteq Reached'
  PROVE  SelectionInv'
<1>1. Reached' = Reached
  BY DEF Reached
<1>2. dag' = dag /\ AR' = AR
  BY BlockStays
<1>3. \A k \in todo' : ~Leaf(k)
  <2>1. \A k \in DOMAIN sel : ~Leaf(k)
    BY CoversFacts DEF SelectionInv, Reached
  <2> QED
    BY <2>1 DEF SelectionInv, Reached
<1>4. \A k \in DOMAIN sel' : Covers(sel'[k], dag[k])
  BY DEF SelectionInv
<1> QED
  BY <1>1, <1>2, <1>3, <1>4, BlockStays DEF SelectionInv

(* The steps that only change the stage.                                   *)
LEMMA StageSteps ==
  ASSUME ShiftInv, CannotSelect \/ Selected \/ Emitted \/ UNCHANGED vars
  PROVE  ShiftInv'
<1>1. block' = block /\ sel' = sel /\ code' = code
  BY DEF CannotSelect, Selected, Emitted, vars
<1>2. /\ todo' \subseteq Reached /\ Reached \subseteq Reached'
      /\ stage' \in {"select", "emit", "copies", "done", "failed"}
  BY <1>1 DEF CannotSelect, Selected, Emitted, vars, ShiftInv, SelectionInv, Reached
<1>3. SelectionInv'
  BY <1>1, <1>2, SelectionStays DEF ShiftInv
<1>4. Instructions' = Instructions /\ \A n : Holds(code, n, Len(code) + 1)' <=> Holds(code, n, Len(code) + 1)
  BY <1>1, BlockStays DEF Holds
<1>5. \A j \in 1 .. Len(code) : Placed(code, stage, j)'
  <2>1. \A j \in 1 .. Len(code) : Placed(code, stage', j)
    <3>1. CASE stage \in {"select", "failed"}
      <4>1. 1 .. Len(code) = {}
        BY <3>1 DEF ShiftInv, EmissionInv
      <4> QED
        BY <4>1
    <3>2. CASE stage \notin {"select", "failed"}
      <4>1. stage' = stage \/ (stage = "emit" /\ stage' = "copies")
        BY <3>2 DEF CannotSelect, Selected, Emitted, vars
      <4>2. \A m : CopyOp(stage', m) = CopyOp(stage, m)
        BY <4>1 DEF CopyOp
      <4>3. \A m : AmountIns(stage', m) = AmountIns(stage, m)
        BY <4>2 DEF AmountIns
      <4> QED
        BY <4>3 DEF ShiftInv, EmissionInv, Placed, PlacedMain, PlacedAmount
    <3> QED
      BY <3>1, <3>2
  <2>2. code' = code
    BY <1>1
  <2> QED
    BY <1>1, <2>1, PlacedStays
<1>6. EmissionInv'
  BY <1>1, <1>4, <1>5 DEF EmissionInv, ShiftInv, CannotSelect, Selected, Emitted, vars
<1> QED
  BY <1>3, <1>6 DEF ShiftInv

(* The instructions of a node have operands that are registers.            *)
LEMMA NodeInstructions ==
  ASSUME SelectionInv, NEW n \in DOMAIN sel
  PROVE  /\ MainIns(sel[n], n) \in Instructions
         /\ MainIns(sel[n], n).d = n
         /\ MainIns(sel[n], n).op \in Selectable
         /\ UsesAmount(sel[n].op) => \A st : AmountIns(st, sel[n]) \in Instructions
<1> DEFINE m == sel[n]
<1>1. block \in Blocks /\ n \in AR /\ Covers(m, dag[n])
  BY DEF SelectionInv, Reached
<1>2. m \in Machines /\ AR \subseteq Int
  BY <1>1, CoversFacts, NodeFacts
<1>3. UsesAmount(m.op) => /\ m.regs = <<dag[n].a, dag[n].b>> /\ dag[n].a \in AR /\ dag[n].b \in AR
                          /\ m.op \in {"SLL", "SRA"}
  BY <1>1, CoversFacts
<1> HIDE DEF m
<1>4. CASE UsesAmount(m.op)
  <2> DEFINE a == dag[n].a
             b == dag[n].b
             q == AmountRegister(m.op)
  <2>1. q \in SARs
    BY <1>3, <1>4 DEF AmountRegister, SARs
  <2>2. q \in Int
    BY <2>1 DEF SARs, sarl0, sarr0
  <2>3. m.regs[1] = a /\ m.regs[2] = b /\ a \in AR /\ b \in AR
    BY <1>3, <1>4
  <2> HIDE DEF a, b, q
  <2>4. <<a, q>> \in Seq(Int) /\ <<b>> \in Seq(Int)
    <3>1. a \in Int /\ b \in Int
      BY <1>2, <2>3
    <3>2. <<a, q>> \in Seq(Int)
      BY <2>2, <3>1
    <3>3. <<b>> \in Seq(Int)
      BY <3>1
    <3> QED
      BY <3>2, <3>3
  <2>5. MainIns(m, n) = Ins(m.op, n, <<a, q>>, 0)
    BY <1>4, <2>3 DEF MainIns, q
  <2>6. m.op \in Selectable
    BY <1>2 DEF Machines
  <2>7. Ins(m.op, n, <<a, q>>, 0) \in Instructions
    BY <1>1, <2>4, <2>6 DEF Ins, Instructions
  <2>8. ASSUME NEW st PROVE AmountIns(st, m) \in Instructions
    <3>1. AmountIns(st, m) = Ins(CopyOp(st, m), q, <<b>>, 0)
      BY <2>3 DEF AmountIns, q
    <3>2. CopyOp(st, m) \in {"COPY", "SSL", "SSR"}
      BY DEF CopyOp
    <3> QED
      BY <2>1, <2>4, <3>1, <3>2 DEF Ins, Instructions
  <2> QED
    BY <2>5, <2>6, <2>7, <2>8 DEF m, Ins
<1>5. CASE ~UsesAmount(m.op)
  <2>1. MainIns(m, n) = Ins(m.op, n, m.regs, m.imm)
    BY <1>5 DEF MainIns
  <2>2. m.op \in Selectable /\ m.regs \in Seq(AR) /\ m.imm \in Nat
    BY <1>2 DEF Machines
  <2>3. m.regs \in Seq(Int)
    BY <1>2, <2>2, SeqMonotonic
  <2> QED
    BY <1>1, <1>5, <2>1, <2>2, <2>3 DEF Ins, Instructions, m
<1> QED
  BY <1>4, <1>5

(* A node is emitted behind its operands, and a shift right behind its     *)
(* amount.                                                                 *)
LEMMA EmitStep ==
  ASSUME ShiftInv, NEW n \in todo, Emit(n)
  PROVE  ShiftInv'
<1> DEFINE m == sel[n]
           L == Len(code)
           A == AmountIns("emit", m)
           M == MainIns(m, n)
           K == IF UsesAmount(m.op) THEN L + 2 ELSE L + 1
<1>1. /\ stage = "emit" /\ stage' = "emit" /\ block' = block /\ sel' = sel
      /\ todo' = todo \ {n} /\ code' = code \o EmitNode(n)
      /\ \A k \in ToSet(m.regs) : k \notin todo
  BY DEF Emit
<1>2. n \in DOMAIN sel /\ code \in Seq(Instructions) /\ L \in Nat /\ SelectionInv
  BY <1>1, LenProperties DEF ShiftInv, EmissionInv
<1>3. /\ M \in Instructions /\ M.d = n
      /\ UsesAmount(m.op) => A \in Instructions
  BY <1>2, NodeInstructions
<1>4. EmitNode(n) = IF UsesAmount(m.op) THEN <<A, M>> ELSE <<M>>
  BY DEF EmitNode, MainIns, AmountIns, CopyOp, COPY
<1> HIDE DEF A, M, m
<1>5. /\ code' \in Seq(Instructions) /\ Len(code') = K
      /\ \A i \in 1 .. L : code'[i] = code[i]
      /\ code'[K] = M
      /\ UsesAmount(m.op) => code'[K - 1] = A
  <2>1. CASE UsesAmount(m.op)
    <3> DEFINE e == <<A, M>>
    <3>1. e \in Seq(Instructions) /\ Len(e) = 2 /\ e[1] = A /\ e[2] = M
      BY <1>3, <2>1
    <3>2. code' = code \o e
      BY <1>1, <1>4, <2>1
    <3> HIDE DEF e, L
    <3>3. /\ code' \in Seq(Instructions) /\ Len(code') = Len(code) + 2
          /\ \A i \in 1 .. Len(code) + 2 :
               code'[i] = IF i <= Len(code) THEN code[i] ELSE e[i - Len(code)]
      <4> DEFINE c == code
      <4>1. /\ c \o e \in Seq(Instructions)
            /\ Len(c \o e) = Len(c) + Len(e)
            /\ \A i \in 1 .. Len(c) + Len(e) :
                 (c \o e)[i] = IF i <= Len(c) THEN c[i] ELSE e[i - Len(c)]
        <5>1. c \in Seq(Instructions)
          BY <1>2
        <5> HIDE DEF c
        <5> QED
          BY <3>1, <5>1, ConcatProperties
      <4> QED
        BY <3>1, <3>2, <4>1
    <3>4. L = Len(code) /\ K = L + 2 /\ K - 1 = L + 1
      BY <1>2, <2>1 DEF L
    <3>5. code'[L + 1] = e[1] /\ code'[L + 2] = e[2]
      BY <1>2, <3>3, <3>4
    <3> QED
      BY <1>2, <2>1, <3>1, <3>3, <3>4, <3>5
  <2>2. CASE ~UsesAmount(m.op)
    <3> DEFINE e == <<M>>
    <3>1. e \in Seq(Instructions) /\ Len(e) = 1 /\ e[1] = M
      BY <1>3
    <3>2. code' = code \o e
      BY <1>1, <1>4, <2>2
    <3> HIDE DEF e, L
    <3>3. /\ code' \in Seq(Instructions) /\ Len(code') = Len(code) + 1
          /\ \A i \in 1 .. Len(code) + 1 :
               code'[i] = IF i <= Len(code) THEN code[i] ELSE e[i - Len(code)]
      <4> DEFINE c == code
      <4>1. /\ c \o e \in Seq(Instructions)
            /\ Len(c \o e) = Len(c) + Len(e)
            /\ \A i \in 1 .. Len(c) + Len(e) :
                 (c \o e)[i] = IF i <= Len(c) THEN c[i] ELSE e[i - Len(c)]
        <5>1. c \in Seq(Instructions)
          BY <1>2
        <5> HIDE DEF c
        <5> QED
          BY <3>1, <5>1, ConcatProperties
      <4> QED
        BY <3>1, <3>2, <4>1
    <3>4. L = Len(code) /\ K = L + 1
      BY <2>2 DEF L
    <3>5. code'[L + 1] = e[1]
      BY <1>2, <3>3, <3>4
    <3> QED
      BY <1>2, <2>2, <3>1, <3>3, <3>4, <3>5
  <2> QED
    BY <2>1, <2>2
<1>6. K \in Nat /\ L < K /\ (UsesAmount(m.op) => K - 1 = L + 1 /\ K = L + 2)
      /\ (~UsesAmount(m.op) => K = L + 1)
  BY <1>2
<1>7. SelectionInv'
  <2>1. todo' \subseteq Reached /\ Reached \subseteq Reached'
    BY <1>1, <1>2 DEF Reached
  <2> QED
    BY <1>1, <1>2, <2>1, SelectionStays
<1> HIDE DEF K, L
<1>8. \A k \in ToSet(m.regs) : Holds(code, k, L + 1)
  <2>1. ASSUME NEW k \in ToSet(m.regs) PROVE Holds(code, k, L + 1)
    <3>1. Leaf(k) \/ k \in DOMAIN sel \ todo
      BY <1>1, <1>2 DEF SelectionInv, ShiftInv, EmissionInv, Reached, m
    <3>2. Leaf(k) => Holds(code, k, L + 1)
      BY DEF Holds
    <3> QED
      BY <1>1, <3>1, <3>2 DEF ShiftInv, EmissionInv, L
  <2> QED
    BY <2>1
<1>9. ASSUME NEW k, Holds(code, k, L + 1), NEW j \in Nat, L < j PROVE Holds(code', k, j)
  <2>1. \A i \in 1 .. (L + 1) - 1 : i \in 1 .. j - 1 /\ i \in 1 .. L
    BY <1>2, <1>9
  <2> QED
    BY <1>5, <1>9, <2>1 DEF Holds
<1>10. \A j \in 1 .. K : Placed(code', "emit", j)
  <2>1. ASSUME NEW j \in 1 .. L PROVE Placed(code', "emit", j)
    <3>1. Placed(code, "emit", j)
      BY <1>1 DEF ShiftInv, EmissionInv, L
    <3> QED
      BY <1>2, <1>5, <3>1, PlacedKept
  <2>2. Placed(code', "emit", K)
    <3>1. \A k \in ToSet(sel[n].regs) : Holds(code', k, K)
      BY <1>6, <1>8, <1>9 DEF m
    <3>2. PlacedMain(code', "emit", K, n)
      <4>1. UsesAmount(m.op) => K - 1 \in 1 .. K
        BY <1>2, <1>6
      <4> QED
        BY <1>5, <4>1 DEF PlacedMain, m, A, M
    <3> QED
      BY <1>2, <3>1, <3>2 DEF Placed
  <2>3. ASSUME UsesAmount(m.op) PROVE Placed(code', "emit", L + 1)
    <3>1. \A k \in ToSet(sel[n].regs) : Holds(code', k, L + 1)
      BY <1>2, <1>8, <1>9 DEF m
    <3>2. PlacedAmount(code', "emit", L + 1, n)
      BY <1>5, <1>6, <2>3 DEF PlacedAmount, m, A
    <3> QED
      BY <1>2, <3>1, <3>2 DEF Placed
  <2>4. \A j \in 1 .. K : j \in 1 .. L \/ j = K \/ (UsesAmount(m.op) /\ j = L + 1)
    BY <1>2, <1>6
  <2> QED
    BY <2>1, <2>2, <2>3, <2>4
<1>11. \A k \in DOMAIN sel \ todo' : Holds(code', k, K + 1)
  <2>1. ASSUME NEW k \in DOMAIN sel \ todo PROVE Holds(code', k, K + 1)
    <3>1. Holds(code, k, L + 1)
      BY <1>1 DEF ShiftInv, EmissionInv, L
    <3>2. K + 1 \in Nat /\ L < K + 1
      BY <1>2, <1>6
    <3> QED
      BY <1>9, <3>1, <3>2
  <2>2. Holds(code', n, K + 1)
    <3>1. K \in 1 .. (K + 1) - 1
      BY <1>2, <1>6
    <3> QED
      BY <1>3, <1>5, <3>1 DEF Holds
  <2> QED
    BY <1>1, <2>1, <2>2
<1>12. EmissionInv'
  <2>1. code' \in Seq(Instructions')
    BY <1>1, <1>5, BlockStays
  <2>2. todo' \subseteq DOMAIN sel'
    BY <1>1 DEF ShiftInv, EmissionInv
  <2>3. \A k \in DOMAIN sel' \ todo' : Holds(code, k, Len(code) + 1)'
    <3>1. \A k : Holds(code, k, Len(code) + 1)' <=> Holds(code', k, Len(code') + 1)
      BY <1>1, BlockStays DEF Holds
    <3> QED
      BY <1>1, <1>5, <1>11, <3>1
  <2>4. \A j \in 1 .. Len(code') : Placed(code, stage, j)'
    BY <1>1, <1>5, <1>10, PlacedStays
  <2> QED
    BY <1>1, <2>1, <2>2, <2>3, <2>4 DEF EmissionInv
<1> QED
  BY <1>7, <1>12 DEF ShiftInv

(* A copy becomes the instruction that sets the amount its shift wants.    *)
LEMMA ExpandStep ==
  ASSUME ShiftInv, ExpandCopies
  PROVE  ShiftInv'
<1> DEFINE L == Len(code)
           E(i) == IF i.op = "COPY" THEN [i EXCEPT !.op = copyPhysReg(i.d, i.s[1])] ELSE i
<1>1. /\ stage = "copies" /\ stage' = "done" /\ block' = block /\ sel' = sel /\ todo' = todo
      /\ code' = [j \in DOMAIN code |-> E(code[j])]
  BY DEF ExpandCopies
<1>2. code \in Seq(Instructions) /\ L \in Nat /\ DOMAIN code = 1 .. L /\ SelectionInv
  BY LenProperties DEF ShiftInv, EmissionInv
<1>3. ASSUME NEW n \in DOMAIN sel
      PROVE  /\ E(MainIns(sel[n], n)) = MainIns(sel[n], n)
             /\ UsesAmount(sel[n].op) => E(AmountIns("copies", sel[n])) = AmountIns("done", sel[n])
  <2>1. E(MainIns(sel[n], n)) = MainIns(sel[n], n)
    <3>1. MainIns(sel[n], n).op \in Selectable
      BY <1>2, NodeInstructions
    <3> QED
      BY <3>1 DEF Selectable
  <2>2. ASSUME UsesAmount(sel[n].op)
        PROVE  E(AmountIns("copies", sel[n])) = AmountIns("done", sel[n])
    <3> DEFINE m == sel[n]
               b == m.regs[2]
    <3>1. m.op \in {"SLL", "SRA"} /\ b \in AR /\ AR \subseteq Nat
      <4>1. block \in Blocks /\ n \in AR /\ Covers(m, dag[n])
        BY <1>2 DEF SelectionInv, Reached
      <4>2. m.regs = <<dag[n].a, dag[n].b>> /\ dag[n].b \in AR /\ m.op \in {"SLL", "SRA"}
        BY <2>2, <4>1, CoversFacts
      <4> QED
        BY <4>1, <4>2, NodeFacts
    <3> HIDE DEF m
    <3>2. copyPhysReg(AmountRegister(m.op), b) = CopyOp("done", m)
      <4> HIDE DEF b
      <4>1. CASE m.op = "SLL"
        <5>1. sarl0 \notin AR /\ sarr0 # sarl0
          BY <3>1 DEF sarr0, sarl0
        <5> QED
          BY <3>1, <4>1, <5>1 DEF copyPhysReg, CopyOp, AmountRegister
      <4>2. CASE m.op = "SRA"
        <5>1. sarr0 \notin AR /\ sarr0 # sarl0
          BY <3>1 DEF sarr0, sarl0
        <5> QED
          BY <3>1, <4>2, <5>1 DEF copyPhysReg, CopyOp, AmountRegister
      <4> QED
        BY <3>1, <4>1, <4>2
    <3>3. AmountIns("copies", m) = Ins("COPY", AmountRegister(m.op), <<b>>, 0)
      BY DEF AmountIns, CopyOp
    <3>4. AmountIns("done", m) = Ins(CopyOp("done", m), AmountRegister(m.op), <<b>>, 0)
      BY DEF AmountIns
    <3> HIDE DEF b
    <3>5. E(AmountIns("copies", m)) = AmountIns("done", m)
      BY <3>2, <3>3, <3>4 DEF Ins
    <3> QED
      BY <3>5 DEF m
  <2> QED
    BY <2>1, <2>2
<1>4. ASSUME NEW i \in Instructions PROVE E(i).d = i.d
  BY DEF Instructions
<1> HIDE DEF E
<1>5. \A j \in 1 .. L : code'[j] = E(code[j]) /\ code[j] \in Instructions
  BY <1>1, <1>2, ElementOfSeq
<1>6. \A j \in 1 .. L : code'[j].d = code[j].d
  BY <1>4, <1>5
<1>7. ASSUME NEW k, NEW j \in 1 .. L + 1, Holds(code, k, j) PROVE Holds(code', k, j)
  <2>1. \A i \in 1 .. j - 1 : i \in 1 .. L
    BY <1>2
  <2> QED
    BY <1>6, <1>7, <2>1 DEF Holds
<1>8. ASSUME NEW j \in 1 .. L
      PROVE  Placed(code', "done", j) /\ code'[j] \in Instructions
  <2>1. PICK n \in DOMAIN sel :
          /\ \A k \in ToSet(sel[n].regs) : Holds(code, k, j)
          /\ PlacedMain(code, "copies", j, n) \/ PlacedAmount(code, "copies", j, n)
    BY <1>1 DEF ShiftInv, EmissionInv, Placed
  <2>2. \A k \in ToSet(sel[n].regs) : Holds(code', k, j)
    BY <1>2, <1>7, <2>1
  <2>3. CASE PlacedMain(code, "copies", j, n)
    <3>1. code'[j] = MainIns(sel[n], n)
      BY <1>3, <1>5, <2>3 DEF PlacedMain
    <3>2. ASSUME UsesAmount(sel[n].op)
          PROVE  j - 1 \in 1 .. j /\ code'[j - 1] = AmountIns("done", sel[n])
      <4>1. j - 1 \in 1 .. j /\ code[j - 1] = AmountIns("copies", sel[n])
        BY <2>3, <3>2 DEF PlacedMain
      <4>2. j - 1 \in 1 .. L
        BY <1>2, <4>1
      <4> QED
        BY <1>3, <1>5, <3>2, <4>1, <4>2
    <3>3. PlacedMain(code', "done", j, n)
      BY <3>1, <3>2 DEF PlacedMain
    <3> QED
      BY <1>2, <2>2, <3>1, <3>3, NodeInstructions DEF Placed
  <2>4. CASE PlacedAmount(code, "copies", j, n)
    <3>1. UsesAmount(sel[n].op) /\ code'[j] = AmountIns("done", sel[n])
      BY <1>3, <1>5, <2>4 DEF PlacedAmount
    <3>2. PlacedAmount(code', "done", j, n)
      BY <3>1 DEF PlacedAmount
    <3> QED
      BY <1>2, <2>2, <3>1, <3>2, NodeInstructions DEF Placed
  <2> QED
    BY <2>1, <2>3, <2>4
<1>9. code' \in Seq(Instructions) /\ Len(code') = L
  <2>1. code' \in [1 .. L -> Instructions]
    BY <1>1, <1>2, <1>5, <1>8
  <2> QED
    BY <1>2, <2>1, SeqDef, LenProperties
<1>10. SelectionInv'
  BY <1>1, <1>2, SelectionStays DEF Reached
<1>11. EmissionInv'
  <2>1. \A k \in DOMAIN sel' \ todo' : Holds(code, k, Len(code) + 1)'
    <3>1. \A k : Holds(code, k, Len(code) + 1)' <=> Holds(code', k, Len(code') + 1)
      BY <1>1, BlockStays DEF Holds
    <3>2. L + 1 \in 1 .. L + 1
      BY <1>2
    <3>3. \A k \in DOMAIN sel \ todo : Holds(code, k, L + 1)
      BY <1>1 DEF ShiftInv, EmissionInv
    <3> QED
      BY <1>1, <1>7, <1>9, <3>1, <3>2, <3>3
  <2>2. \A j \in 1 .. Len(code') : Placed(code, stage, j)'
    BY <1>1, <1>8, <1>9, PlacedStays
  <2>3. todo = {}
    BY <1>1 DEF ShiftInv, EmissionInv
  <2> QED
    BY <1>1, <1>9, <2>1, <2>2, <2>3, BlockStays DEF EmissionInv
<1> QED
  BY <1>10, <1>11 DEF ShiftInv

(* ShiftInv is an invariant: every step keeps it.                          *)
THEOREM ShiftInvariant ==
  Spec => []ShiftInv
<1>1. Init => ShiftInv
  BY InitShift
<1>2. ShiftInv /\ [Next]_vars => ShiftInv'
  <2> SUFFICES ASSUME ShiftInv, [Next]_vars PROVE ShiftInv'
    OBVIOUS
  <2>1. CASE Select
    BY <2>1, SelectStep
  <2>2. CASE CannotSelect \/ Selected \/ Emitted \/ UNCHANGED vars
    BY <2>2, StageSteps
  <2>3. ASSUME NEW n \in todo, Emit(n) PROVE ShiftInv'
    BY <2>3, EmitStep
  <2>4. CASE ExpandCopies
    BY <2>4, ExpandStep
  <2> QED
    BY <2>1, <2>2, <2>3, <2>4 DEF Next
<1> QED
  BY <1>1, <1>2, PTL DEF Spec

(* The instructions selected are among those defined.                      *)
LEMMA SelectableDefined ==
  Selectable \subseteq ToSet(Defined)
<1>1. /\ DOMAIN Defined = 1 .. 17
      /\ Defined[1] = "ADD_N" /\ Defined[2] = "ADD" /\ Defined[3] = "SUB"
      /\ Defined[4] = "ADDX2" /\ Defined[5] = "ADDX4" /\ Defined[6] = "ADDX8"
      /\ Defined[7] = "SUBX2" /\ Defined[8] = "SUBX4" /\ Defined[9] = "SUBX8"
      /\ Defined[10] = "NEG" /\ Defined[11] = "SLL" /\ Defined[12] = "SRA"
      /\ Defined[14] = "SLLI" /\ Defined[17] = "MOVI_N"
  BY DEF Defined
<1> DEFINE D == Defined
<1>2. \A k \in 1 .. 17 : D[k] \in ToSet(D)
  BY <1>1 DEF ToSet
<1> HIDE DEF D
<1>3. /\ D[1] \in ToSet(D) /\ D[2] \in ToSet(D) /\ D[3] \in ToSet(D) /\ D[4] \in ToSet(D)
      /\ D[5] \in ToSet(D) /\ D[6] \in ToSet(D) /\ D[7] \in ToSet(D) /\ D[8] \in ToSet(D)
      /\ D[9] \in ToSet(D) /\ D[10] \in ToSet(D) /\ D[11] \in ToSet(D) /\ D[12] \in ToSet(D)
      /\ D[14] \in ToSet(D) /\ D[17] \in ToSet(D)
  BY <1>2
<1> QED
  BY <1>1, <1>3 DEF Selectable, D

(* Only the instructions the target defines for these nodes are selected   *)
(* and emitted, each into a register of a node or, as an amount, into one  *)
(* of the two shift amount registers.                                      *)
THEOREM ShiftTypeCorrect ==
  Spec => []TypeOK
<1>1. ShiftInv => TypeOK
  <2> SUFFICES ASSUME ShiftInv PROVE TypeOK
    OBVIOUS
  <2>1. code \in Seq(Instructions)
    BY DEF ShiftInv, EmissionInv
  <2>2. \A j \in DOMAIN code : code[j] \in Instructions
    BY <2>1, LenProperties, ElementOfSeq
  <2>3. ASSUME NEW i \in Instructions
        PROVE  /\ i.op \in ToSet(Defined) \cup {"COPY", "MOV_N", "SSL", "SSR"}
               /\ i.d \in AR \cup {sarl0, sarr0}
    BY SelectableDefined DEF Instructions, SARs
  <2>4. DOMAIN sel \subseteq AR /\ todo \subseteq AR
    BY DEF ShiftInv, SelectionInv, Reached
  <2> QED
    BY <2>2, <2>3, <2>4 DEF ShiftInv, SelectionInv, TypeOK
<1> QED
  BY <1>1, ShiftInvariant, PTL

--------------------------------------------------------------------------------
(***************************************************************************)
(* What the nodes compute.                                                 *)
(***************************************************************************)

(* Only an operation's value depends on that of its operands.              *)
LEMMA OperandsMatter ==
  ASSUME block \in Blocks, NEW n \in AR, NEW a, NEW b, NEW c, NEW e, NEW x, NEW y,
         ~Leaf(n) /\ ~isConst(n) => a = c /\ b = e
  PROVE  NodeValue(dag[n], a, b, x, y) = NodeValue(dag[n], c, e, x, y)
<1>1. CASE Leaf(n) \/ isConst(n)
  BY <1>1 DEF Leaf, isConst, NodeValue
<1>2. CASE ~Leaf(n) /\ ~isConst(n)
  BY <1>2
<1> QED
  BY <1>1, <1>2

(* g holds the values of the first m nodes.                                *)
ValueIn(g, n, x, y) == NodeValue(dag[n], g[dag[n].a], g[dag[n].b], x, y)

ValuesTo(m, g, x, y) == g = [n \in 1 .. m |-> ValueIn(g, n, x, y)]

(* The recursion that defines the values has a solution, as operands come  *)
(* before their users.                                                     *)
LEMMA ValuesExist ==
  ASSUME block \in Blocks, NEW x, NEW y
  PROVE  \E g : ValuesTo(Len(dag), g, x, y)
<1> DEFINE N == Len(dag)
           V(n, g) == ValueIn(g, n, x, y)
           T == {m \in Nat : m <= N => \E g : ValuesTo(m, g, x, y)}
<1>1. N \in Nat /\ AR = 1 .. N
  BY NodeFacts DEF AR
<1>2. 0 \in T
  <2> DEFINE g == [n \in 1 .. 0 |-> 0]
  <2>1. g = [n \in 1 .. 0 |-> V(n, g)]
    <3> DEFINE S == 1 .. 0
               h == [n \in S |-> 0]
    <3>1. S = {}
      OBVIOUS
    <3> HIDE DEF S
    <3>2. DOMAIN h = S
      OBVIOUS
    <3>3. h = [n \in S |-> h[n]]
      OBVIOUS
    <3> HIDE DEF h
    <3>4. h = [n \in S |-> V(n, h)]
      BY <3>1, <3>3
    <3> QED
      BY <3>4 DEF S, h
  <2>2. ValuesTo(0, g, x, y)
    BY <2>1 DEF ValuesTo
  <2> QED
    BY <2>2
<1>3. ASSUME NEW m \in T PROVE m + 1 \in T
  <2> SUFFICES ASSUME m + 1 <= N PROVE \E h : ValuesTo(m + 1, h, x, y)
    OBVIOUS
  <2>1. m \in Nat /\ m <= N
    BY <1>1
  <2>2. PICK g : g = [n \in 1 .. m |-> V(n, g)]
    <3>1. \E g : ValuesTo(m, g, x, y)
      BY <2>1
    <3> QED
      BY <3>1 DEF ValuesTo
  <2> DEFINE h == [n \in 1 .. m + 1 |-> IF n = m + 1 THEN V(m + 1, g) ELSE g[n]]
  <2>3. ASSUME NEW n \in 1 .. m + 1, NEW k \in 1 .. n - 1 PROVE h[k] = g[k]
    <3>1. k \in 1 .. m + 1 /\ k # m + 1
      BY <2>1
    <3> QED
      BY <3>1
  <2>4. \A n \in 1 .. m : h[n] = V(n, g)
    BY <2>1, <2>2
  <2>5. m + 1 \in 1 .. m + 1 /\ \A n \in 1 .. m + 1 : n \in 1 .. m \/ n = m + 1
    BY <2>1
  <2>6. DOMAIN h = 1 .. m + 1 /\ h[m + 1] = V(m + 1, g)
    BY <2>5
  <2>7. h = [n \in 1 .. m + 1 |-> h[n]]
    OBVIOUS
  <2> HIDE DEF h
  <2>8. ASSUME NEW n \in 1 .. m + 1 PROVE V(n, h) = V(n, g)
    <3>1. n \in AR
      BY <1>1, <2>1
    <3>2. ~Leaf(n) /\ ~isConst(n) => h[dag[n].a] = g[dag[n].a] /\ h[dag[n].b] = g[dag[n].b]
      BY <2>3, <3>1, NodeFacts
    <3> QED
      BY <3>1, <3>2, OperandsMatter DEF ValueIn
  <2>9. \A n \in 1 .. m + 1 : h[n] = V(n, h)
    BY <2>4, <2>5, <2>6, <2>8
  <2>10. h = [n \in 1 .. m + 1 |-> V(n, h)]
    <3> HIDE DEF V
    <3> QED
      BY <2>7, <2>9
  <2> QED
    BY <2>10 DEF ValuesTo
<1>4. T = Nat
  <2>1. T \in SUBSET Nat
    OBVIOUS
  <2> HIDE DEF T
  <2> QED
    BY <1>2, <1>3, <2>1, NatSetInduction
<1> QED
  BY <1>1, <1>4

(* So each node is worth what its operands make it.                        *)
LEMMA ValuesDef ==
  ASSUME block \in Blocks, NEW x, NEW y, NEW n \in AR
  PROVE  Values(x, y)[n] =
           NodeValue(dag[n], Values(x, y)[dag[n].a], Values(x, y)[dag[n].b], x, y)
<1> DEFINE P(g) == g = [k \in DOMAIN dag |-> ValueIn(g, k, x, y)]
<1>1. DOMAIN dag = 1 .. Len(dag) /\ AR = DOMAIN dag
  BY NodeFacts DEF AR
<1>2. \E g : P(g)
  <2>1. PICK g : ValuesTo(Len(dag), g, x, y)
    BY ValuesExist
  <2>2. P(g)
    BY <1>1, <2>1 DEF ValuesTo
  <2> QED
    BY <2>2
<1>3. Values(x, y) = CHOOSE g : P(g)
  BY DEF Values, ValueIn
<1>4. P(Values(x, y))
  <2> HIDE DEF P
  <2> QED
    BY <1>2, <1>3, Zenon
<1> QED
  BY <1>1, <1>4 DEF ValueIn

(* An operation on values that are defined gives a natural number, or is   *)
(* undefined.                                                              *)
LEMMA ComputedNat ==
  ASSUME NEW op \in {"add", "sub", "neg", "shl", "sra", "srl"}, NEW a \in Nat, NEW b \in Nat
  PROVE  Computed(op, a, b) \in Nat \cup {Undefined}
<1>1. a + b \in Int /\ a - b \in Int /\ -a \in Int /\ W \in Int
  BY WordNat
<1>2. Word(a + b) \in Nat /\ Word(a - b) \in Nat /\ Word(-a) \in Nat
  BY <1>1, WordNat
<1>3. CASE op \in {"add", "sub", "neg"}
  BY <1>2, <1>3 DEF Computed
<1>4. CASE op \in {"shl", "sra", "srl"} /\ b >= W
  BY <1>1, <1>4 DEF Computed
<1>5. CASE op \in {"shl", "sra", "srl"} /\ b < W
  <2>1. b \in 0 .. W - 1 /\ ~(b >= W)
    BY <1>1, <1>5
  <2>2. Shl(a, b) \in Nat /\ Sra(a, b) \in Nat /\ Srl(a, b) \in Nat
    BY <2>1, ShiftsNat
  <2>3. Computed(op, a, b) \in {Shl(a, b), Sra(a, b), Srl(a, b)}
    BY <1>5, <2>1 DEF Computed
  <2> QED
    BY <2>2, <2>3
<1> QED
  BY <1>1, <1>3, <1>4, <1>5

(* Every value is a natural number or undefined.                           *)
LEMMA ValuesNat ==
  ASSUME block \in Blocks, NEW x \in Words, NEW y \in Words, NEW n \in AR
  PROVE  Values(x, y)[n] \in Nat \cup {Undefined}
<1> DEFINE val == Values(x, y)
           N == Len(dag)
           T == {m \in Nat : \A k \in AR : k <= m => val[k] \in Nat \cup {Undefined}}
<1>1. N \in Nat /\ AR = 1 .. N /\ x \in Nat /\ y \in Nat
  BY NodeFacts, WordNat DEF AR
<1>2. 0 \in T
  BY <1>1
<1> HIDE DEF val
<1>3. ASSUME NEW m \in 0 .. N - 1, m \in T PROVE m + 1 \in T
  <2> DEFINE k == m + 1
             d == dag[k]
  <2>1. k \in AR /\ m \in Nat
    BY <1>1
  <2>2. val[k] = NodeValue(d, val[d.a], val[d.b], x, y)
    BY <2>1, ValuesDef DEF val
  <2> HIDE DEF k
  <2>3. val[k] \in Nat \cup {Undefined}
    <3>1. CASE Leaf(k)
      BY <1>1, <2>2, <3>1 DEF Leaf, NodeValue
    <3>2. CASE isConst(k)
      <4>1. d.a \in Nat
        BY <2>1, <3>2, NodeFacts, WordNat
      <4> QED
        BY <2>2, <3>2, <4>1 DEF isConst, NodeValue
    <3>3. CASE ~Leaf(k) /\ ~isConst(k)
      <4>1. d.a \in 1 .. k - 1 /\ d.b \in 1 .. k - 1 /\ d \in Nodes
        BY <2>1, <3>3, NodeFacts
      <4>2. d.a \in AR /\ d.a <= m /\ d.b \in AR /\ d.b <= m
        BY <1>1, <2>1, <4>1 DEF k
      <4>3. val[d.a] \in Nat \cup {Undefined} /\ val[d.b] \in Nat \cup {Undefined}
        BY <1>3, <4>2
      <4>4. d.op \in {"add", "sub", "neg", "shl", "sra", "srl"}
        BY <3>3, <4>1 DEF Nodes, Leaf, isConst
      <4>5. val[k] = IF val[d.a] = Undefined \/ val[d.b] = Undefined THEN Undefined
                     ELSE Computed(d.op, val[d.a], val[d.b])
        BY <2>2, <4>4 DEF NodeValue
      <4> QED
        BY <4>3, <4>4, <4>5, ComputedNat
    <3> QED
      BY <3>1, <3>2, <3>3
  <2>4. \A h \in AR : h <= m + 1 => h <= m \/ h = k
    BY <1>1, <2>1 DEF k
  <2> QED
    BY <1>3, <2>1, <2>3, <2>4
<1> HIDE DEF T, N
<1>4. 0 .. N \subseteq T
  BY <1>1, <1>2, <1>3, BoundedInduction
<1>5. n \in 0 .. N /\ n \in Nat /\ n <= n
  BY <1>1
<1>6. n \in T
  BY <1>4, <1>5
<1> QED
  BY <1>5, <1>6 DEF T, val

(* An operation is worth what its operation computes of its operands.      *)
LEMMA OperationValue ==
  ASSUME block \in Blocks, NEW x \in Words, NEW y \in Words, NEW n \in AR,
         dag[n].op \in {"add", "sub", "neg", "shl", "sra", "srl"},
         Values(x, y)[n] # Undefined
  PROVE  /\ dag[n].a \in AR /\ dag[n].b \in AR
         /\ Values(x, y)[dag[n].a] \in Nat /\ Values(x, y)[dag[n].b] \in Nat
         /\ Values(x, y)[n] =
              Computed(dag[n].op, Values(x, y)[dag[n].a], Values(x, y)[dag[n].b])
<1> DEFINE val == Values(x, y)
           d == dag[n]
<1>1. val[n] = NodeValue(d, val[d.a], val[d.b], x, y)
  BY ValuesDef
<1>2. ~Leaf(n) /\ ~isConst(n)
  BY DEF Leaf, isConst
<1>3. d.a \in 1 .. n - 1 /\ d.b \in 1 .. n - 1
  BY <1>2, NodeFacts
<1>4. d.a \in AR /\ d.b \in AR
  BY <1>3, NodeFacts DEF AR
<1>5. val[d.a] \in Nat \cup {Undefined} /\ val[d.b] \in Nat \cup {Undefined}
  BY <1>4, ValuesNat
<1> HIDE DEF val
<1>6. val[n] = IF val[d.a] = Undefined \/ val[d.b] = Undefined THEN Undefined
               ELSE Computed(d.op, val[d.a], val[d.b])
  BY <1>1 DEF NodeValue
<1> QED
  BY <1>4, <1>5, <1>6 DEF val

(* A shift by a constant below the width.                                  *)
LEMMA ScaledValue ==
  ASSUME block \in Blocks, NEW x \in Words, NEW y \in Words, NEW t \in AR,
         NEW c \in 0 .. W - 1, ShlBy(t, c), Values(x, y)[t] # Undefined
  PROVE  /\ dag[t].a \in AR /\ Values(x, y)[dag[t].a] \in Nat
         /\ Values(x, y)[t] = Shl(Values(x, y)[dag[t].a], c)
<1> DEFINE val == Values(x, y)
           d == dag[t]
<1>1. d.op = "shl" /\ isConst(d.b) /\ dag[d.b].a = c
  BY DEF ShlBy
<1>2. /\ d.a \in AR /\ d.b \in AR /\ val[d.a] \in Nat
      /\ val[t] = Computed(d.op, val[d.a], val[d.b])
  BY <1>1, OperationValue
<1>3. val[d.b] = c
  <2>1. val[d.b] = NodeValue(dag[d.b], val[dag[d.b].a], val[dag[d.b].b], x, y)
    BY <1>2, ValuesDef
  <2> HIDE DEF val
  <2> QED
    BY <1>1, <2>1 DEF NodeValue, isConst
<1> HIDE DEF val
<1>4. Computed("shl", val[d.a], c) = Shl(val[d.a], c)
  <2>1. ~(c >= W) /\ c < W
    BY WordNat
  <2> QED
    BY <2>1 DEF Computed
<1> QED
  BY <1>1, <1>2, <1>3, <1>4 DEF val
--------------------------------------------------------------------------------
(***************************************************************************)
(* What the instructions do.                                               *)
(***************************************************************************)
Put(s, d, v) == [r |-> [s.r EXCEPT ![d] = v], sar |-> s.sar]

(* Sums and differences.                                                   *)
LEMMA DoSums ==
  ASSUME NEW s, NEW op, NEW n, NEW q, NEW v
  PROVE  /\ op \in {"ADD_N", "ADD"} =>
              Do(s, Ins(op, n, q, v)) = Put(s, n, Word(s.r[q[1]] + s.r[q[2]]))
         /\ op = "SUB" =>
              Do(s, Ins(op, n, q, v)) = Put(s, n, Word(s.r[q[1]] - s.r[q[2]]))
         /\ op \in {"ADDX2", "ADDX4", "ADDX8"} =>
              Do(s, Ins(op, n, q, v)) =
                Put(s, n, Word(s.r[q[1]] + Shl(s.r[q[2]], Scale(op))))
         /\ op \in {"SUBX2", "SUBX4", "SUBX8"} =>
              Do(s, Ins(op, n, q, v)) =
                Put(s, n, Word(Shl(s.r[q[1]], Scale(op)) - s.r[q[2]]))
<1> DEFINE i == Ins(op, n, q, v)
<1>1. i.op = op /\ i.d = n /\ i.s = q /\ i.imm = v
  BY DEF Ins
<1> HIDE DEF i
<1>2. op \in {"ADD_N", "ADD"} => Do(s, i) = Put(s, n, Word(s.r[q[1]] + s.r[q[2]]))
  BY <1>1 DEF Do, Put
<1>3. op = "SUB" => Do(s, i) = Put(s, n, Word(s.r[q[1]] - s.r[q[2]]))
  BY <1>1 DEF Do, Put
<1>4. op \in {"ADDX2", "ADDX4", "ADDX8"} =>
        Do(s, i) = Put(s, n, Word(s.r[q[1]] + Shl(s.r[q[2]], Scale(op))))
  BY <1>1 DEF Do, Put
<1>5. op \in {"SUBX2", "SUBX4", "SUBX8"} =>
        Do(s, i) = Put(s, n, Word(Shl(s.r[q[1]], Scale(op)) - s.r[q[2]]))
  BY <1>1 DEF Do, Put
<1> QED
  BY <1>2, <1>3, <1>4, <1>5 DEF i

(* The rest of what is selected.                                           *)
LEMMA DoShifts ==
  ASSUME NEW s, NEW op, NEW n, NEW q, NEW v
  PROVE  /\ op = "NEG" => Do(s, Ins(op, n, q, v)) = Put(s, n, Word(-s.r[q[1]]))
         /\ op = "SLLI" => Do(s, Ins(op, n, q, v)) = Put(s, n, Shl(s.r[q[1]], v))
         /\ op = "MOVI_N" => Do(s, Ins(op, n, q, v)) = Put(s, n, v)
         /\ op = "SLL" => Do(s, Ins(op, n, q, v)) = Put(s, n, Shl(s.r[q[1]], W - s.sar))
         /\ op = "SRA" => Do(s, Ins(op, n, q, v)) = Put(s, n, Sra(s.r[q[1]], s.sar))
<1> DEFINE i == Ins(op, n, q, v)
<1>1. i.op = op /\ i.d = n /\ i.s = q /\ i.imm = v
  BY DEF Ins
<1> HIDE DEF i
<1>2. op = "NEG" => Do(s, i) = Put(s, n, Word(-s.r[q[1]]))
  BY <1>1 DEF Do, Put
<1>3. op = "SLLI" => Do(s, i) = Put(s, n, Shl(s.r[q[1]], v))
  BY <1>1 DEF Do, Put
<1>4. op = "MOVI_N" => Do(s, i) = Put(s, n, v)
  BY <1>1 DEF Do, Put
<1>5. op = "SLL" => Do(s, i) = Put(s, n, Shl(s.r[q[1]], W - s.sar))
  BY <1>1 DEF Do, Put
<1>6. op = "SRA" => Do(s, i) = Put(s, n, Sra(s.r[q[1]], s.sar))
  BY <1>1 DEF Do, Put
<1> QED
  BY <1>2, <1>3, <1>4, <1>5, <1>6 DEF i

(* The instruction that sets an amount changes no other register.          *)
LEMMA DoAmounts ==
  ASSUME NEW s, NEW n, NEW q
  PROVE  /\ Do(s, Ins("SSL", n, q, 0)) = [r |-> s.r, sar |-> W - (s.r[q[1]] % W)]
         /\ Do(s, Ins("SSR", n, q, 0)) = [r |-> s.r, sar |-> s.r[q[1]] % W]
<1> DEFINE i == Ins("SSL", n, q, 0)
           j == Ins("SSR", n, q, 0)
<1>1. i.op = "SSL" /\ i.d = n /\ i.s = q /\ j.op = "SSR" /\ j.d = n /\ j.s = q
  BY DEF Ins
<1> HIDE DEF i, j
<1>2. Do(s, i) = [r |-> s.r, sar |-> W - (s.r[q[1]] % W)]
  BY <1>1 DEF Do
<1>3. Do(s, j) = [r |-> s.r, sar |-> s.r[q[1]] % W]
  BY <1>1 DEF Do
<1> QED
  BY <1>2, <1>3 DEF i, j

(* In state s the register of node k holds what it computes.               *)
Right(s, val, k) == val[k] = Undefined \/ s.r[k] = val[k]

(* SAR holds the amount b in the form that op takes it in.                 *)
AmountSet(s, op, b) == s.sar = IF op = "SLL" THEN W - b ELSE b

(* An instruction selected for a node, of operands that are right, makes   *)
(* the node's register right and changes no other.                         *)
LEMMA MainComputes ==
  ASSUME block \in Blocks, NEW x \in Words, NEW y \in Words,
         NEW n \in AR, NEW m, Covers(m, dag[n]),
         NEW s, \A k \in ToSet(m.regs) : Right(s, Values(x, y), k),
         UsesAmount(m.op) /\ Values(x, y)[dag[n].b] \in 0 .. W - 1
           => AmountSet(s, m.op, Values(x, y)[dag[n].b])
  PROVE  \E v : /\ Do(s, MainIns(m, n)) = Put(s, n, v)
                /\ Values(x, y)[n] \in {Undefined, v}
<1> DEFINE val == Values(x, y)
           d == dag[n]
           G == \E v : /\ Do(s, MainIns(m, n)) = Put(s, n, v)
                       /\ val[n] \in {Undefined, v}
           R(k) == s.r[m.regs[k]]
<1>1. \A c \in {1, 2, 3} : c \in 0 .. W - 1
  BY WordNat
<1>2. ASSUME NEW op, NEW regs, NEW imm, m = Machine(op, regs, imm)
      PROVE  m.op = op /\ m.regs = regs /\ m.imm = imm
  BY <1>2 DEF Machine
<1>3. ASSUME ~UsesAmount(m.op)
      PROVE  MainIns(m, n) = Ins(m.op, n, m.regs, m.imm)
  BY <1>3 DEF MainIns
<1>4. ASSUME NEW k, NEW h, m.regs = <<k, h>>, val[k] \in Nat, val[h] \in Nat
      PROVE  R(1) = val[k] /\ R(2) = val[h]
  <2>1. k \in ToSet(m.regs) /\ h \in ToSet(m.regs) /\ m.regs[1] = k /\ m.regs[2] = h
    BY <1>4 DEF ToSet
  <2>2. Right(s, val, k) /\ Right(s, val, h)
    BY <2>1
  <2>3. Undefined \notin Nat
    BY DEF Undefined
  <2> HIDE DEF val
  <2> QED
    BY <1>4, <2>1, <2>2, <2>3 DEF Right
<1>5. ASSUME NEW k, m.regs = <<k>>, val[k] \in Nat
      PROVE  R(1) = val[k]
  <2>1. k \in ToSet(m.regs) /\ m.regs[1] = k
    BY <1>5 DEF ToSet
  <2>2. Right(s, val, k)
    BY <2>1
  <2>3. Undefined \notin Nat
    BY DEF Undefined
  <2> HIDE DEF val
  <2> QED
    BY <1>5, <2>1, <2>2, <2>3 DEF Right
<1>6. ASSUME d.op = "const", m = Machine("MOVI_N", <<>>, d.a) PROVE G
  <2>1. Do(s, MainIns(m, n)) = Put(s, n, d.a)
    BY <1>2, <1>3, <1>6, DoShifts DEF UsesAmount
  <2>2. val[n] = d.a
    <3>1. val[n] = NodeValue(d, val[d.a], val[d.b], x, y)
      BY ValuesDef
    <3> HIDE DEF val
    <3> QED
      BY <1>6, <3>1 DEF NodeValue
  <2> HIDE DEF val
  <2> QED
    BY <2>1, <2>2 DEF val
<1>7. ASSUME d.op = "add", Sum(m, d) PROVE G
  <2>1. PICK op \in {"ADD_N", "ADD"} : m = Machine(op, <<d.a, d.b>>, 0)
    BY <1>7 DEF Sum
  <2>2. m.op = op /\ m.regs = <<d.a, d.b>>
    BY <1>2, <2>1
  <2>3. Do(s, MainIns(m, n)) = Put(s, n, Word(R(1) + R(2)))
    BY <1>3, <2>2, DoSums DEF UsesAmount
  <2>4. ASSUME val[n] # Undefined PROVE val[n] = Word(R(1) + R(2))
    <3>1. val[d.a] \in Nat /\ val[d.b] \in Nat /\ val[n] = Computed("add", val[d.a], val[d.b])
      BY <1>7, <2>4, OperationValue
    <3>2. R(1) = val[d.a] /\ R(2) = val[d.b]
      BY <1>4, <2>2, <3>1
    <3> HIDE DEF val
    <3> QED
      BY <3>1, <3>2 DEF Computed
  <2> HIDE DEF val
  <2> QED
    BY <2>3, <2>4
<1>8. ASSUME d.op = "add", NEW u, NEW t, <<u, t>> \in {<<d.a, d.b>>, <<d.b, d.a>>},
             ScaledSum(m, u, t)
      PROVE  G
  <2>1. PICK op \in {"ADDX2", "ADDX4", "ADDX8"} :
          ShlBy(t, Scale(op)) /\ m = Machine(op, <<u, dag[t].a>>, 0)
    BY <1>8 DEF ScaledSum
  <2> DEFINE c == Scale(op)
  <2>2. c \in 0 .. W - 1
    BY <1>1 DEF Scale
  <2> HIDE DEF c
  <2>3. m.op = op /\ m.regs = <<u, dag[t].a>>
    BY <1>2, <2>1
  <2>4. Do(s, MainIns(m, n)) = Put(s, n, Word(R(1) + Shl(R(2), c)))
    BY <1>3, <2>3, DoSums DEF UsesAmount, c
  <2>5. ASSUME val[n] # Undefined PROVE val[n] = Word(R(1) + Shl(R(2), c))
    <3>1. /\ val[d.a] \in Nat /\ val[d.b] \in Nat /\ d.a \in AR /\ d.b \in AR
          /\ val[n] = Computed("add", val[d.a], val[d.b])
      BY <1>8, <2>5, OperationValue
    <3>2. val[n] = Word(val[d.a] + val[d.b])
      BY <3>1 DEF Computed
    <3>3. val[u] \in Nat /\ val[t] \in Nat /\ t \in AR /\ val[u] + val[t] = val[d.a] + val[d.b]
      <4> HIDE DEF val, d
      <4> QED
        BY <1>8, <3>1
    <3>4. val[dag[t].a] \in Nat /\ val[t] = Shl(val[dag[t].a], c)
      <4>1. val[t] # Undefined
        BY <3>3 DEF Undefined
      <4> QED
        BY <2>1, <2>2, <3>3, <4>1, ScaledValue DEF c
    <3>5. R(1) = val[u] /\ R(2) = val[dag[t].a]
      BY <1>4, <2>3, <3>3, <3>4
    <3> HIDE DEF val
    <3> QED
      BY <3>2, <3>3, <3>4, <3>5
  <2> HIDE DEF val
  <2> QED
    BY <2>4, <2>5
<1>9. ASSUME d.op = "sub", m = Machine("SUB", <<d.a, d.b>>, 0) PROVE G
  <2>2. m.op = "SUB" /\ m.regs = <<d.a, d.b>>
    BY <1>2, <1>9
  <2>3. Do(s, MainIns(m, n)) = Put(s, n, Word(R(1) - R(2)))
    BY <1>3, <2>2, DoSums DEF UsesAmount
  <2>4. ASSUME val[n] # Undefined PROVE val[n] = Word(R(1) - R(2))
    <3>1. val[d.a] \in Nat /\ val[d.b] \in Nat /\ val[n] = Computed("sub", val[d.a], val[d.b])
      BY <1>9, <2>4, OperationValue
    <3>2. R(1) = val[d.a] /\ R(2) = val[d.b]
      BY <1>4, <2>2, <3>1
    <3> HIDE DEF val
    <3> QED
      BY <3>1, <3>2 DEF Computed
  <2> HIDE DEF val
  <2> QED
    BY <2>3, <2>4
<1>10. ASSUME d.op = "sub", ScaledDifference(m, d) PROVE G
  <2> DEFINE t == d.a
  <2>1. PICK op \in {"SUBX2", "SUBX4", "SUBX8"} :
          ShlBy(t, Scale(op)) /\ m = Machine(op, <<dag[t].a, d.b>>, 0)
    BY <1>10 DEF ScaledDifference
  <2> DEFINE c == Scale(op)
  <2>2. c \in 0 .. W - 1
    BY <1>1 DEF Scale
  <2> HIDE DEF c
  <2>3. m.op = op /\ m.regs = <<dag[t].a, d.b>>
    BY <1>2, <2>1
  <2>4. Do(s, MainIns(m, n)) = Put(s, n, Word(Shl(R(1), c) - R(2)))
    BY <1>3, <2>3, DoSums DEF UsesAmount, c
  <2>5. ASSUME val[n] # Undefined PROVE val[n] = Word(Shl(R(1), c) - R(2))
    <3>1. /\ val[t] \in Nat /\ val[d.b] \in Nat /\ t \in AR
          /\ val[n] = Computed("sub", val[t], val[d.b])
      BY <1>10, <2>5, OperationValue
    <3>2. val[n] = Word(val[t] - val[d.b])
      BY <3>1 DEF Computed
    <3>4. val[dag[t].a] \in Nat /\ val[t] = Shl(val[dag[t].a], c)
      <4>1. val[t] # Undefined
        BY <3>1 DEF Undefined
      <4> QED
        BY <2>1, <2>2, <3>1, <4>1, ScaledValue DEF c
    <3>5. R(1) = val[dag[t].a] /\ R(2) = val[d.b]
      BY <1>4, <2>3, <3>1, <3>4
    <3> HIDE DEF val
    <3> QED
      BY <3>2, <3>4, <3>5
  <2> HIDE DEF val
  <2> QED
    BY <2>4, <2>5
<1>11. ASSUME d.op = "neg", m = Machine("NEG", <<d.a>>, 0) PROVE G
  <2>2. m.op = "NEG" /\ m.regs = <<d.a>>
    BY <1>2, <1>11
  <2>3. Do(s, MainIns(m, n)) = Put(s, n, Word(-R(1)))
    BY <1>3, <2>2, DoShifts DEF UsesAmount
  <2>4. ASSUME val[n] # Undefined PROVE val[n] = Word(-R(1))
    <3>1. val[d.a] \in Nat /\ val[n] = Computed("neg", val[d.a], val[d.b])
      BY <1>11, <2>4, OperationValue
    <3>2. R(1) = val[d.a]
      BY <1>5, <2>2, <3>1
    <3> HIDE DEF val
    <3> QED
      BY <3>1, <3>2 DEF Computed
  <2> HIDE DEF val
  <2> QED
    BY <2>3, <2>4
<1>12. ASSUME d.op = "shl", isConst(d.b), m = Machine("SLLI", <<d.a>>, dag[d.b].a) PROVE G
  <2> DEFINE c == dag[d.b].a
  <2>1. m.op = "SLLI" /\ m.regs = <<d.a>> /\ m.imm = c
    BY <1>2, <1>12
  <2>2. Do(s, MainIns(m, n)) = Put(s, n, Shl(R(1), c))
    BY <1>3, <2>1, DoShifts DEF UsesAmount
  <2>3. ASSUME val[n] # Undefined PROVE val[n] = Shl(R(1), c)
    <3>1. /\ val[d.a] \in Nat /\ val[d.b] \in Nat /\ d.b \in AR
          /\ val[n] = Computed("shl", val[d.a], val[d.b])
      BY <1>12, <2>3, OperationValue
    <3>2. val[d.b] = c
      <4>1. val[d.b] = NodeValue(dag[d.b], val[dag[d.b].a], val[dag[d.b].b], x, y)
        BY <3>1, ValuesDef
      <4> HIDE DEF val
      <4> QED
        BY <1>12, <4>1 DEF NodeValue, isConst
    <3>3. R(1) = val[d.a]
      BY <1>5, <2>1, <3>1
    <3> HIDE DEF val, c
    <3>4. val[n] = Undefined \/ (c < W /\ val[n] = Shl(val[d.a], c))
      <4>1. W \in Nat
        BY WordNat
      <4>2. CASE c >= W
        BY <3>1, <3>2, <4>2 DEF Computed
      <4>3. CASE c < W
        <5>1. ~(c >= W)
          BY <3>1, <3>2, <4>1, <4>3
        <5> QED
          BY <3>1, <3>2, <4>3, <5>1 DEF Computed
      <4> QED
        BY <3>1, <3>2, <4>1, <4>2, <4>3
    <3> QED
      BY <2>3, <3>3, <3>4
  <2> HIDE DEF val
  <2> QED
    BY <2>2, <2>3
<1>13. ASSUME NEW op \in {"SLL", "SRA"}, m = Machine(op, <<d.a, d.b>>, 0),
              d.op = IF op = "SLL" THEN "shl" ELSE "sra"
       PROVE  G
  <2> DEFINE D == IF op = "SLL" THEN Shl(R(1), W - s.sar) ELSE Sra(R(1), s.sar)
  <2>1. m.op = op /\ m.regs = <<d.a, d.b>> /\ UsesAmount(op)
    BY <1>2, <1>13 DEF UsesAmount
  <2>2. Do(s, MainIns(m, n)) = Put(s, n, D)
    <3> DEFINE q == <<m.regs[1], AmountRegister(op)>>
    <3>1. MainIns(m, n) = Ins(op, n, q, 0)
      BY <2>1 DEF MainIns
    <3>2. q[1] = m.regs[1]
      OBVIOUS
    <3> HIDE DEF q
    <3> QED
      BY <1>13, <3>1, <3>2, DoShifts
  <2>3. ASSUME val[n] # Undefined PROVE val[n] = D
    <3>1. /\ val[d.a] \in Nat /\ val[d.b] \in Nat
          /\ val[n] = Computed(d.op, val[d.a], val[d.b])
      BY <1>13, <2>3, OperationValue
    <3>2. R(1) = val[d.a]
      BY <1>4, <2>1, <3>1
    <3>3. val[d.b] \in 0 .. W - 1 => AmountSet(s, op, val[d.b])
      BY <2>1
    <3> HIDE DEF val
    <3> DEFINE b == val[d.b]
    <3>4. W \in Nat
      BY WordNat
    <3> HIDE DEF d
    <3>5. CASE b >= W
      <4>1. ~(b < W)
        BY <3>1, <3>4, <3>5
      <4>2. d.op \in {"shl", "sra"}
        BY <1>13
      <4>3. val[n] = Undefined
        BY <3>1, <3>5, <4>1, <4>2 DEF Computed
      <4> QED
        BY <2>3, <4>3
    <3>6. CASE b < W
      <4>1. b \in 0 .. W - 1 /\ ~(b >= W) /\ W - (W - b) = b
        BY <3>1, <3>4, <3>6
      <4>2. IF op = "SLL" THEN W - s.sar = b ELSE s.sar = b
        BY <3>3, <4>1 DEF AmountSet
      <4> HIDE DEF b
      <4>3. CASE op = "SLL"
        BY <1>13, <3>1, <3>2, <3>6, <4>1, <4>2, <4>3 DEF Computed, b
      <4>4. CASE op = "SRA"
        BY <1>13, <3>1, <3>2, <3>6, <4>1, <4>2, <4>4 DEF Computed, b
      <4> QED
        BY <1>13, <4>3, <4>4
    <3> QED
      BY <3>1, <3>4, <3>5, <3>6
  <2> HIDE DEF val, D
  <2> QED
    BY <2>2, <2>3
<1>14. G
  <2> HIDE DEF G, val
  <2>1. CASE d.op = "add"
    BY <1>7, <1>8, <2>1 DEF Covers
  <2>2. CASE d.op = "sub"
    BY <1>9, <1>10, <2>2 DEF Covers
  <2>3. CASE d.op \in {"neg", "const"}
    BY <1>6, <1>11, <2>3 DEF Covers
  <2>4. CASE d.op = "shl"
    <3>1. \/ m = Machine("SLL", <<d.a, d.b>>, 0)
          \/ isConst(d.b) /\ m = Machine("SLLI", <<d.a>>, dag[d.b].a)
      BY <2>4 DEF Covers
    <3>2. CASE m = Machine("SLL", <<d.a, d.b>>, 0)
      BY <1>13, <2>4, <3>2
    <3> QED
      BY <1>12, <2>4, <3>1, <3>2
  <2>5. CASE d.op = "sra"
    <3>1. m = Machine("SRA", <<d.a, d.b>>, 0)
      BY <2>5 DEF Covers
    <3> QED
      BY <1>13, <2>5, <3>1
  <2> QED
    BY <2>1, <2>2, <2>3, <2>4, <2>5 DEF Covers
<1> QED
  BY <1>14
--------------------------------------------------------------------------------
(***************************************************************************)
(* The run of the code.                                                    *)
(***************************************************************************)
StateIn(g, j, x, y) == IF j = 0 THEN Start(x, y) ELSE Do(g[j - 1], code[j])

(* g holds the states after up to m instructions.                          *)
StatesTo(m, g, x, y) == g = [j \in 0 .. m |-> StateIn(g, j, x, y)]

(* And so has the one that defines the states.                             *)
LEMMA StatesExist ==
  ASSUME NEW x, NEW y, NEW N \in Nat
  PROVE  \E g : StatesTo(N, g, x, y)
<1> DEFINE T == {m \in Nat : \E g : StatesTo(m, g, x, y)}
<1>1. 0 \in T
  <2> DEFINE g == [j \in 0 .. 0 |-> Start(x, y)]
  <2>1. g = [j \in 0 .. 0 |-> StateIn(g, j, x, y)]
    BY DEF StateIn
  <2> HIDE DEF g
  <2> QED
    BY <2>1 DEF StatesTo
<1>2. ASSUME NEW m \in Nat, NEW g, g = [j \in 0 .. m |-> StateIn(g, j, x, y)]
      PROVE  \E h : h = [j \in 0 .. m + 1 |-> StateIn(h, j, x, y)]
  <2> DEFINE h == [j \in 0 .. m + 1 |-> StateIn(g, j, x, y)]
  <2>1. \A j \in 0 .. m : h[j] = g[j]
    BY <1>2
  <2> HIDE DEF h
  <2>2. ASSUME NEW j \in 0 .. m + 1
        PROVE  StateIn(h, j, x, y) = StateIn(g, j, x, y)
    <3>1. j = 0 \/ j - 1 \in 0 .. m
      OBVIOUS
    <3>2. j = 0 \/ h[j - 1] = g[j - 1]
      BY <3>1, <2>1
    <3> QED
      BY <3>2 DEF StateIn
  <2>3. h = [j \in 0 .. m + 1 |-> StateIn(h, j, x, y)]
    BY <2>2 DEF h
  <2> QED
    BY <2>3
<1>3. \A m \in T : m + 1 \in T
  BY <1>2 DEF StatesTo
<1>4. T \in SUBSET Nat
  OBVIOUS
<1> HIDE DEF T
<1>5. T = Nat
  BY <1>1, <1>3, <1>4, NatSetInduction
<1> QED
  BY <1>5 DEF T

(* Run ends in the last of these states.                                   *)
LEMMA RunByStates ==
  ASSUME NEW x, NEW y, Len(code) \in Nat
  PROVE  \E g : StatesTo(Len(code), g, x, y) /\ Run(x, y) = g[Len(code)].r
<1> DEFINE P(g) == g = [j \in 0 .. Len(code) |-> StateIn(g, j, x, y)]
           state == CHOOSE g : P(g)
<1>1. \E g : P(g)
  BY StatesExist DEF StatesTo
<1>2. Run(x, y) = state[Len(code)].r
  BY DEF Run, StateIn
<1>3. P(state)
  <2> HIDE DEF P
  <2> QED
    BY <1>1, Zenon
<1> HIDE DEF state
<1> QED
  BY <1>2, <1>3 DEF StatesTo

(* The copy in front of a shift sets the amount the shift takes, if that   *)
(* is below the width.                                                     *)
LEMMA AmountComputes ==
  ASSUME SelectionInv, NEW n \in DOMAIN sel, UsesAmount(sel[n].op), NEW s
  PROVE  /\ Do(s, AmountIns("done", sel[n])).r = s.r
         /\ s.r[dag[n].b] \in 0 .. W - 1 =>
              AmountSet(Do(s, AmountIns("done", sel[n])), sel[n].op, s.r[dag[n].b])
<1> DEFINE m == sel[n]
           b == dag[n].b
           q == <<b>>
           p == AmountRegister(m.op)
<1>1. m.op \in {"SLL", "SRA"} /\ m.regs[2] = b
  <2>1. block \in Blocks /\ n \in AR /\ Covers(m, dag[n])
    BY DEF SelectionInv, Reached
  <2>2. m.regs = <<dag[n].a, dag[n].b>> /\ m.op \in {"SLL", "SRA"}
    BY <2>1, CoversFacts
  <2> QED
    BY <2>2
<1>2. AmountIns("done", m) = Ins(IF m.op = "SLL" THEN "SSL" ELSE "SSR", p, q, 0)
  BY <1>1 DEF AmountIns, CopyOp
<1>3. q[1] = b
  OBVIOUS
<1> HIDE DEF q, p, m
<1>4. Do(s, AmountIns("done", m)) =
        [r |-> s.r, sar |-> IF m.op = "SLL" THEN W - (s.r[b] % W) ELSE s.r[b] % W]
  <2>1. CASE m.op = "SLL"
    BY <1>2, <1>3, <2>1, DoAmounts
  <2>2. CASE m.op = "SRA"
    BY <1>2, <1>3, <2>2, DoAmounts
  <2> QED
    BY <1>1, <2>1, <2>2
<1>5. s.r[b] \in 0 .. W - 1 => s.r[b] % W = s.r[b]
  <2> DEFINE v == s.r[b]
  <2>1. W \in Nat \ {0}
    BY WordNat
  <2> HIDE DEF v
  <2>2. v \in 0 .. W - 1 => v % W = v
    BY <2>1
  <2> QED
    BY <2>2 DEF v
<1> QED
  BY <1>4, <1>5 DEF AmountSet, m

(* Before the first instruction the arguments are in their registers.      *)
LEMMA StartRight ==
  ASSUME block \in Blocks, NEW x, NEW y
  PROVE  /\ DOMAIN Start(x, y).r = AR
         /\ \A k \in AR : Leaf(k) => Start(x, y).r[k] = Values(x, y)[k]
<1>1. Start(x, y).r = [n \in AR |-> CASE dag[n].op = "x" -> x [] dag[n].op = "y" -> y [] OTHER -> 0]
  BY DEF Start
<1>2. ASSUME NEW k \in AR, Leaf(k) PROVE Start(x, y).r[k] = Values(x, y)[k]
  <2> DEFINE val == Values(x, y)
             d == dag[k]
             r == Start(x, y).r
  <2>1. val[k] = NodeValue(d, val[d.a], val[d.b], x, y)
    BY ValuesDef
  <2>2. r[k] = CASE d.op = "x" -> x [] d.op = "y" -> y [] OTHER -> 0
    BY <1>1
  <2> HIDE DEF val, r
  <2>3. val[k] = r[k]
    <3>1. CASE d.op = "x"
      BY <2>1, <2>2, <3>1 DEF NodeValue
    <3>2. CASE d.op = "y"
      BY <2>1, <2>2, <3>2 DEF NodeValue
    <3> QED
      BY <1>2, <3>1, <3>2 DEF Leaf
  <2> QED
    BY <2>3 DEF val, r
<1> QED
  BY <1>1, <1>2

(* Whatever register a node's instruction has been run for is right.       *)
LEMMA RunRight ==
  ASSUME ShiftInv, stage = "done", NEW x \in Words, NEW y \in Words,
         NEW g, StatesTo(Len(code), g, x, y)
  PROVE  \A j \in 0 .. Len(code) :
           /\ DOMAIN g[j].r = AR
           /\ \A k \in AR : Holds(code, k, j + 1) => Right(g[j], Values(x, y), k)
<1> DEFINE N == Len(code)
           val == Values(x, y)
           Ok(j) == /\ DOMAIN g[j].r = AR
                    /\ \A k \in AR : Holds(code, k, j + 1) => Right(g[j], val, k)
           T == {j \in Nat : Ok(j)}
<1>1. /\ N \in Nat /\ SelectionInv /\ block \in Blocks /\ code \in Seq(Instructions)
      /\ \A j \in 1 .. N : Placed(code, "done", j)
  BY LenProperties DEF ShiftInv, EmissionInv, SelectionInv
<1>2. AR \subseteq Nat
  BY <1>1, NodeFacts
<1>3. g[0] = Start(x, y) /\ \A j \in 0 .. N - 1 : g[j + 1] = Do(g[j], code[j + 1])
  <2>1. g = [j \in 0 .. N |-> StateIn(g, j, x, y)]
    BY DEF StatesTo
  <2>2. \A j \in 0 .. N : g[j] = StateIn(g, j, x, y)
    BY <2>1, Zenon
  <2>3. 0 \in 0 .. N
    BY <1>1
  <2>4. ASSUME NEW j \in 0 .. N - 1 PROVE g[j + 1] = Do(g[j], code[j + 1])
    <3>1. j + 1 \in 0 .. N /\ j + 1 # 0 /\ (j + 1) - 1 = j
      BY <1>1
    <3> QED
      BY <2>2, <3>1 DEF StateIn
  <2> QED
    BY <2>2, <2>3, <2>4 DEF StateIn
<1>4. Ok(0)
  <2>1. ASSUME NEW k \in AR, Holds(code, k, 0 + 1) PROVE Right(g[0], val, k)
    <3>1. Leaf(k)
      <4>1. 1 .. (0 + 1) - 1 = {}
        OBVIOUS
      <4> QED
        BY <2>1, <4>1 DEF Holds
    <3>2. g[0].r[k] = val[k]
      BY <1>1, <1>3, <3>1, StartRight
    <3> HIDE DEF val
    <3> QED
      BY <3>2 DEF Right
  <2> QED
    BY <1>1, <1>3, <2>1, StartRight
<1>5. ASSUME NEW j \in 0 .. N - 1, Ok(j) PROVE Ok(j + 1)
  <2> DEFINE p == j + 1
  <2>1. p \in 1 .. N /\ p - 1 = j /\ j \in Nat /\ (p + 1) - 1 = p
    BY <1>1
  <2>2. g[p] = Do(g[j], code[p])
    BY <1>3
  <2>3. \A k \in AR : Holds(code, k, p) => Right(g[j], val, k)
    BY <1>5
  <2> HIDE DEF p, val
  <2>4. PICK n \in DOMAIN sel :
          /\ \A k \in ToSet(sel[n].regs) : Holds(code, k, p)
          /\ PlacedMain(code, "done", p, n) \/ PlacedAmount(code, "done", p, n)
    BY <1>1, <2>1 DEF Placed
  <2> DEFINE m == sel[n]
  <2>5. n \in AR /\ Covers(m, dag[n])
    BY <1>1 DEF SelectionInv, Reached
  <2>6. \A k \in ToSet(m.regs) : k \in AR
    <3>1. \A k \in 1 .. n - 1 : k \in AR
      BY <1>1, <2>5, NodeFacts DEF AR
    <3> QED
      BY <1>1, <2>5, <3>1, CoversFacts
  <2>7. \A k \in ToSet(m.regs) : Right(g[j], val, k)
    BY <2>3, <2>4, <2>6
  <2>8. ASSUME NEW k \in AR, k # code[p].d, Holds(code, k, p + 1)
        PROVE  Holds(code, k, p)
    <3>1. \A i \in 1 .. (p + 1) - 1 : i = p \/ i \in 1 .. p - 1
      BY <2>1
    <3> QED
      BY <2>8, <3>1 DEF Holds
  <2>9. CASE PlacedAmount(code, "done", p, n)
    <3>1. UsesAmount(m.op) /\ code[p] = AmountIns("done", m)
      BY <2>9 DEF PlacedAmount
    <3>2. g[p].r = g[j].r
      BY <1>1, <2>2, <3>1, AmountComputes
    <3>3. code[p].d \notin AR
      <4>1. m.op \in {"SLL", "SRA"}
        BY <1>1, <2>5, <3>1, CoversFacts
      <4>2. code[p].d = AmountRegister(m.op)
        BY <3>1 DEF AmountIns, Ins
      <4>3. code[p].d \in {sarl0, sarr0}
        BY <4>1, <4>2 DEF AmountRegister
      <4> QED
        BY <1>2, <4>3 DEF sarl0, sarr0
    <3>4. \A k \in AR : Holds(code, k, p + 1) => Right(g[p], val, k)
      BY <2>3, <2>8, <3>2, <3>3 DEF Right
    <3> QED
      BY <1>5, <3>2, <3>4 DEF p
  <2>10. CASE PlacedMain(code, "done", p, n)
    <3>1. code[p] = MainIns(m, n) /\ code[p].d = n
      BY <1>1, <2>10, NodeInstructions DEF PlacedMain
    <3>2. ASSUME UsesAmount(m.op), val[dag[n].b] \in 0 .. W - 1
          PROVE  AmountSet(g[j], m.op, val[dag[n].b])
      <4> DEFINE i == j - 1
                 b == dag[n].b
      <4>1. p - 1 \in 1 .. p /\ code[p - 1] = AmountIns("done", m)
        BY <2>10, <3>2 DEF PlacedMain
      <4>2. i \in 0 .. N - 1 /\ i + 1 = j /\ code[j] = AmountIns("done", m)
        BY <1>1, <2>1, <4>1
      <4>3. g[j] = Do(g[i], AmountIns("done", m))
        <5> HIDE DEF i
        <5> QED
          BY <1>3, <4>2
      <4>4. /\ g[j].r = g[i].r
            /\ g[i].r[b] \in 0 .. W - 1 => AmountSet(g[j], m.op, g[i].r[b])
        BY <1>1, <3>2, <4>3, AmountComputes
      <4>5. b \in ToSet(m.regs)
        <5>1. m.regs = <<dag[n].a, b>>
          BY <1>1, <2>5, <3>2, CoversFacts
        <5> HIDE DEF m, b
        <5>2. DOMAIN m.regs = 1 .. 2 /\ m.regs[2] = b
          BY <5>1
        <5> QED
          BY <5>2 DEF ToSet
      <4>6. val[b] # Undefined
        <5>1. \A v \in 0 .. W - 1 : v # Undefined
          BY WordNat DEF Undefined
        <5> QED
          BY <3>2, <5>1
      <4>7. g[j].r[b] = val[b]
        BY <2>7, <4>5, <4>6 DEF Right
      <4> HIDE DEF i
      <4> QED
        BY <3>2, <4>4, <4>7
    <3>3. PICK v : Do(g[j], MainIns(m, n)) = Put(g[j], n, v) /\ val[n] \in {Undefined, v}
      BY <1>1, <2>5, <2>7, <3>2, MainComputes DEF val
    <3>4. g[p] = Put(g[j], n, v)
      BY <2>2, <3>1, <3>3
    <3>5. g[p].r = [g[j].r EXCEPT ![n] = v]
      BY <3>4 DEF Put
    <3>6. DOMAIN g[j].r = AR
      BY <1>5
    <3>7. DOMAIN g[p].r = AR /\ g[p].r[n] = v /\ \A k \in AR \ {n} : g[p].r[k] = g[j].r[k]
      BY <2>5, <3>5, <3>6
    <3>8. Right(g[p], val, n)
      BY <3>3, <3>7 DEF Right
    <3>9. ASSUME NEW k \in AR, Holds(code, k, p + 1) PROVE Right(g[p], val, k)
      <4>1. CASE k = n
        BY <3>8, <4>1
      <4>2. CASE k # n
        <5>1. Right(g[j], val, k)
          BY <2>3, <2>8, <3>1, <3>9, <4>2
        <5> QED
          BY <3>7, <4>2, <5>1 DEF Right
      <4> QED
        BY <4>1, <4>2
    <3> QED
      BY <3>7, <3>9 DEF p
  <2> QED
    BY <2>4, <2>9, <2>10
<1> HIDE DEF Ok
<1>6. 0 \in T /\ \A j \in 0 .. N - 1 : j \in T => j + 1 \in T
  <2>1. ASSUME NEW j \in 0 .. N - 1 PROVE j \in Nat /\ j + 1 \in Nat
    BY <1>1
  <2> QED
    BY <1>4, <1>5, <2>1
<1> HIDE DEF T, N
<1>7. 0 .. N \subseteq T
  BY <1>1, <1>6, BoundedInduction
<1> QED
  BY <1>7 DEF T, Ok, N, val

(* Whatever order the nodes are emitted in, the code leaves in the         *)
(* register of each root the value of the root: every shift finds in SAR   *)
(* the amount set for it, in the form it takes it in, and a shift folded   *)
(* into a sum or a difference is still computed for its other users.       *)
THEOREM RootsAreComputed ==
  Spec => []RootsComputed
<1>1. ShiftInv => RootsComputed
  <2> SUFFICES ASSUME ShiftInv, stage = "done", NEW x \in Words, NEW y \in Words,
                      NEW n \in block.roots
               PROVE  Values(x, y)[n] \in {Undefined, Run(x, y)[n]}
    BY DEF RootsComputed
  <2>1. Len(code) \in Nat /\ block \in Blocks
    BY LenProperties DEF ShiftInv, EmissionInv, SelectionInv
  <2>2. PICK g : StatesTo(Len(code), g, x, y) /\ Run(x, y) = g[Len(code)].r
    BY <2>1, RunByStates
  <2>3. n \in AR /\ Holds(code, n, Len(code) + 1)
    <3>1. todo = {} /\ \A k \in DOMAIN sel \ todo : Holds(code, k, Len(code) + 1)
      BY DEF ShiftInv, EmissionInv
    <3>2. Leaf(n) \/ n \in DOMAIN sel
      BY <3>1 DEF ShiftInv, SelectionInv, Reached
    <3> QED
      BY <2>1, <3>1, <3>2, NodeFacts DEF Holds
  <2>4. Right(g[Len(code)], Values(x, y), n)
    <3>1. Len(code) \in 0 .. Len(code)
      BY <2>1
    <3> QED
      BY <2>2, <2>3, <3>1, RunRight
  <2> QED
    BY <2>2, <2>4 DEF Right
<1> QED
  BY <1>1, ShiftInvariant, PTL
================================================================================
