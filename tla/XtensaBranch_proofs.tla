--------------------------- MODULE XtensaBranch_proofs ---------------------------
(***************************************************************************)
(* Proofs about XtensaBranch: that whatever order of placements, updates,  *)
(* reorderings and foldings this target's branch hooks are called in, the  *)
(* blocks keep going where the selected function goes.                     *)
(*                                                                         *)
(* The analysis is a loop over the block, so the proof begins with what    *)
(* it reads from each of the forms a block can have, by induction over its *)
(* rounds; then what RemoveBranch and InsertBranch make of these forms;    *)
(* then where they go; and last that every step keeps every block in a     *)
(* form of the branch it was selected with.                                *)
(***************************************************************************)
EXTENDS XtensaBranch, SequenceTheorems, WellFoundedInduction, TLAPS

--------------------------------------------------------------------------------
(***************************************************************************)
(* Induction over the natural numbers, for what is defined by recursion:   *)
(* over a set instead of a predicate.                                      *)
(***************************************************************************)
(* A set of natural numbers that contains 0 and every successor of its     *)
(* elements contains them all.                                             *)
LEMMA NatSetInduction ==
  ASSUME NEW T \in SUBSET Nat, 0 \in T, \A n \in T : n + 1 \in T
  PROVE  T = Nat
<1> DEFINE Less == {ss \in Nat \X Nat : ss[1] < ss[2]}
<1>1. IsWellFoundedOn(Less, Nat)
  BY NatLessThanWellFounded DEF OpToRel
<1>2. SUFFICES ASSUME Nat \ T # {}
               PROVE  FALSE
  OBVIOUS
<1> HIDE DEF Less
<1>3. PICK x \in Nat \ T : \A y \in Nat \ T : ~(<<y, x>> \in Less)
  <2>1. Nat \ T \subseteq Nat
    OBVIOUS
  <2> QED
    BY <1>1, <1>2, <2>1, WFMin
<1>4. x - 1 \in Nat \ T /\ (x - 1) + 1 = x
  BY <1>3
<1>5. <<x - 1, x>> \in Less
  BY <1>4, <1>3 DEF Less
<1> QED
  BY <1>3, <1>4, <1>5

(* The same up to a bound.                                                 *)
LEMMA BoundedInduction ==
  ASSUME NEW N \in Nat, NEW T, 0 \in T, \A n \in 0 .. N - 1 : n \in T => n + 1 \in T
  PROVE  0 .. N \subseteq T
<1> DEFINE U == {n \in Nat : n <= N => n \in T}
<1>1. 0 \in U
  OBVIOUS
<1>2. ASSUME NEW n \in U PROVE n + 1 \in U
  <2>1. n \in Nat /\ (n <= N => n \in T)
    OBVIOUS
  <2>2. n + 1 <= N => n \in 0 .. N - 1 /\ n <= N
    BY <2>1
  <2> QED
    BY <2>1, <2>2
<1> HIDE DEF U
<1>3. U = Nat
  <2>1. U \in SUBSET Nat
    BY DEF U
  <2> QED
    BY <1>1, <1>2, <2>1, NatSetInduction
<1> QED
  BY <1>3 DEF U

--------------------------------------------------------------------------------
(***************************************************************************)
(* The condition codes of conditional branches, for every register width.  *)
(***************************************************************************)

(* The ten codes as numbers.                                               *)
LEMMA CCValues ==
  /\ CCMASK_CMP_EQ = 8 /\ CCMASK_CMP_NE = 6
  /\ CCMASK_CMP_LT = 4 /\ CCMASK_CMP_GE = 10
  /\ CCMASK_CMP_GT = 2 /\ CCMASK_CMP_LE = 12
  /\ Unsigned(CCMASK_CMP_LT) = 5 /\ Unsigned(CCMASK_CMP_GE) = 11
  /\ Unsigned(CCMASK_CMP_GT) = 3 /\ Unsigned(CCMASK_CMP_LE) = 13
  BY DEF CCMASK_CMP_EQ, CCMASK_CMP_NE, CCMASK_CMP_LT, CCMASK_CMP_GE,
         CCMASK_CMP_GT, CCMASK_CMP_LE, CCMASK_CMP_UO, Unsigned

(* The three translations, code by code.                                   *)
LEMMA ReverseTable ==
  /\ ReverseCC(8) = 6 /\ ReverseCC(6) = 8
  /\ ReverseCC(4) = 10 /\ ReverseCC(10) = 4
  /\ ReverseCC(2) = 12 /\ ReverseCC(12) = 2
  /\ ReverseCC(5) = 11 /\ ReverseCC(11) = 5
  /\ ReverseCC(3) = 13 /\ ReverseCC(13) = 3
  BY CCValues DEF ReverseCC

LEMMA InsertTable ==
  /\ InsertedOpcode(8) = "BEQ" /\ InsertedOpcode(6) = "BNE"
  /\ InsertedOpcode(4) = "BLT" /\ InsertedOpcode(10) = "BGE"
  /\ InsertedOpcode(2) = "BGT" /\ InsertedOpcode(12) = "BLE"
  /\ InsertedOpcode(5) = "BLTU" /\ InsertedOpcode(11) = "BGEU"
  /\ InsertedOpcode(3) = "BGTU" /\ InsertedOpcode(13) = "BLEU"
  BY CCValues DEF InsertedOpcode

LEMMA BranchTable ==
  /\ BranchCC("BEQ") = 8 /\ BranchCC("BNE") = 6
  /\ BranchCC("BLT") = 4 /\ BranchCC("BGE") = 10
  /\ BranchCC("BGT") = 2 /\ BranchCC("BLE") = 12
  /\ BranchCC("BLTU") = 5 /\ BranchCC("BGEU") = 11
  /\ BranchCC("BGTU") = 3 /\ BranchCC("BLEU") = 13
  BY CCValues DEF BranchCC

LEMMA HoldsTable ==
  ASSUME NEW a, NEW b
  PROVE  /\ Holds(8, a, b) <=> a = b
         /\ Holds(6, a, b) <=> a # b
         /\ Holds(4, a, b) <=> Signed(a) < Signed(b)
         /\ Holds(10, a, b) <=> Signed(a) >= Signed(b)
         /\ Holds(2, a, b) <=> Signed(a) > Signed(b)
         /\ Holds(12, a, b) <=> Signed(a) <= Signed(b)
         /\ Holds(5, a, b) <=> a < b
         /\ Holds(11, a, b) <=> a >= b
         /\ Holds(3, a, b) <=> a > b
         /\ Holds(13, a, b) <=> a <= b
  BY CCValues DEF Holds

LEMMA CCsAreNumbers == CCs = {8, 6, 4, 10, 2, 12, 5, 11, 3, 13}
  BY CCValues DEF CCs

(* A register's signed value is an integer, and the value determines it.   *)
LEMMA SignedFacts ==
  \A a, b \in Words :
    /\ a \in Int /\ Signed(a) \in Int
    /\ Signed(a) = Signed(b) => a = b
  BY HalfRangeAssumption DEF Words, Signed

(* ReverseBranchCondition gives the complement: for every condition code   *)
(* and every two register values the reversed branch is taken exactly when *)
(* the branch is not.                                                      *)
THEOREM ReverseComplements ==
  \A cc \in CCs, a, b \in Words :
    Holds(ReverseCC(cc), a, b) <=> ~Holds(cc, a, b)
<1> SUFFICES ASSUME NEW cc \in CCs, NEW a \in Words, NEW b \in Words
             PROVE  Holds(ReverseCC(cc), a, b) <=> ~Holds(cc, a, b)
  OBVIOUS
<1>1. /\ a \in Int /\ Signed(a) \in Int
      /\ b \in Int /\ Signed(b) \in Int
  BY SignedFacts
<1>2. CASE cc \in {8, 6}
  BY <1>2, HoldsTable, ReverseTable
<1>3. CASE cc \in {4, 10, 2, 12}
  BY <1>1, <1>3, HoldsTable, ReverseTable
<1>4. CASE cc \in {5, 11, 3, 13}
  BY <1>1, <1>4, HoldsTable, ReverseTable
<1>5. QED
  BY <1>2, <1>3, <1>4, CCsAreNumbers

(* Reversing twice is the identity: block placement may reverse a branch   *)
(* as often as it likes.                                                   *)
THEOREM ReverseInvolution ==
  \A cc \in CCs : ReverseCC(cc) \in CCs /\ ReverseCC(ReverseCC(cc)) = cc
  BY CCsAreNumbers, ReverseTable

(* The branch InsertBranchAtInst builds for a condition code is taken, as  *)
(* the assembler reads what is printed for it, exactly when the condition  *)
(* holds of its two operands; the synthesised greater-than and             *)
(* less-or-equal forms included.                                           *)
THEOREM InsertedBranchMeansCondition ==
  \A cc \in CCs, a, b \in Words :
    AsmTaken(InsertedOpcode(cc), a, b) <=> Holds(cc, a, b)
<1> SUFFICES ASSUME NEW cc \in CCs, NEW a \in Words, NEW b \in Words
             PROVE  AsmTaken(InsertedOpcode(cc), a, b) <=> Holds(cc, a, b)
  OBVIOUS
<1>1. /\ a \in Int /\ Signed(a) \in Int
      /\ b \in Int /\ Signed(b) \in Int
  BY SignedFacts
<1>2. CASE cc \in {8, 6}
  BY <1>1, <1>2, HoldsTable, InsertTable DEF AsmTaken
<1>3. CASE cc \in {4, 10, 2, 12}
  BY <1>1, <1>3, HoldsTable, InsertTable DEF AsmTaken
<1>4. CASE cc \in {5, 11, 3, 13}
  BY <1>1, <1>4, HoldsTable, InsertTable DEF AsmTaken
<1>5. QED
  BY <1>2, <1>3, <1>4, CCsAreNumbers

(* isBranch and InsertBranchAtInst are inverse on the branches that        *)
(* compare two registers: what is removed can be put back.                 *)
THEOREM AnalysisInsertionRoundTrip ==
  /\ \A cc \in CCs : InsertedOpcode(cc) \in BranchRR /\ BranchCC(InsertedOpcode(cc)) = cc
  /\ \A op \in BranchRR : BranchCC(op) \in CCs /\ InsertedOpcode(BranchCC(op)) = op
<1>1. \A cc \in CCs : InsertedOpcode(cc) \in BranchRR /\ BranchCC(InsertedOpcode(cc)) = cc
  BY CCsAreNumbers, InsertTable, BranchTable DEF BranchRR
<1>2. \A op \in BranchRR : BranchCC(op) \in CCs /\ InsertedOpcode(BranchCC(op)) = op
  BY CCsAreNumbers, InsertTable, BranchTable DEF BranchRR
<1>3. QED
  BY <1>1, <1>2

--------------------------------------------------------------------------------
Unknown(s) ==
  [state |-> "looking", TBB |-> NoBlock, FBB |-> NoBlock, Cond |-> <<>>, len |-> Len(s)]

(* One round of the analysis, from the results of the round before.        *)
Round(known, s, M, n) ==
  IF n = 0 THEN Unknown(s)
  ELSE IF known[n - 1].state # "looking" THEN known[n - 1]
  ELSE AnalyzeInstr(known[n - 1], s[Len(s) - n + 1], Len(s) - n + 1, M)

(* The rounds define a function: there is one for every number of rounds,  *)
(* by induction on it.                                                     *)
LEMMA RoundsExist ==
  ASSUME NEW s, NEW M, NEW N \in Nat
  PROVE  \E known : known = [n \in 0 .. N |-> Round(known, s, M, n)]
<1> DEFINE T == {m \in Nat : \E g : g = [n \in 0 .. m |-> Round(g, s, M, n)]}
<1>1. 0 \in T
  <2>1. [n \in 0 .. 0 |-> Unknown(s)]
          = [n \in 0 .. 0 |-> Round([k \in 0 .. 0 |-> Unknown(s)], s, M, n)]
    BY DEF Round
  <2> QED
    BY <2>1
<1>2. ASSUME NEW m \in Nat, NEW g, g = [n \in 0 .. m |-> Round(g, s, M, n)]
      PROVE  \E h : h = [n \in 0 .. m + 1 |-> Round(h, s, M, n)]
  <2> DEFINE h == [n \in 0 .. m + 1 |-> Round(g, s, M, n)]
  <2>1. \A n \in 0 .. m : h[n] = g[n]
    BY <1>2
  <2> HIDE DEF h
  <2>2. ASSUME NEW n \in 0 .. m + 1
        PROVE  Round(h, s, M, n) = Round(g, s, M, n)
    <3>1. n = 0 \/ n - 1 \in 0 .. m
      OBVIOUS
    <3>2. n = 0 \/ h[n - 1] = g[n - 1]
      BY <3>1, <2>1
    <3> QED
      BY <3>2 DEF Round
  <2>3. h = [n \in 0 .. m + 1 |-> Round(h, s, M, n)]
    BY <2>2 DEF h
  <2> QED
    BY <2>3
<1>3. \A m \in T : m + 1 \in T
  BY <1>2
<1>4. T \in SUBSET Nat
  OBVIOUS
<1> HIDE DEF T
<1>5. T = Nat
  BY <1>1, <1>3, <1>4, NatSetInduction
<1> QED
  BY <1>5 DEF T

(* AnalyzeBranch is what is known after the last round.                    *)
LEMMA AnalyzeByRounds ==
  ASSUME NEW s, NEW M, Len(s) \in Nat
  PROVE  \E known : /\ known = [n \in 0 .. Len(s) |-> Round(known, s, M, n)]
                    /\ AnalyzeBranch(s, M) = known[Len(s)]
<1> DEFINE known == CHOOSE g : g = [n \in 0 .. Len(s) |-> Round(g, s, M, n)]
<1>1. known = [n \in 0 .. Len(s) |-> Round(known, s, M, n)]
  BY RoundsExist
<1>2. AnalyzeBranch(s, M) = known[Len(s)]
  BY DEF AnalyzeBranch, Round, Unknown
<1> QED
  BY <1>1, <1>2
--------------------------------------------------------------------------------
Known(state, TBB, FBB, Cond, len) ==
  [state |-> state, TBB |-> TBB, FBB |-> FBB, Cond |-> Cond, len |-> len]

Rounds(known, s, M) == known = [n \in 0 .. Len(s) |-> Round(known, s, M, n)]

ByInstr(known, s, M) ==
  \A n \in 1 .. Len(s) :
    known[n] = IF known[n - 1].state # "looking" THEN known[n - 1]
               ELSE AnalyzeInstr(known[n - 1], s[Len(s) - n + 1], Len(s) - n + 1, M)

(* Where the rounds begin, and what each makes of the one before.          *)
LEMMA RoundByRound ==
  ASSUME NEW s \in Seq(Instructions), NEW M, NEW known, Rounds(known, s, M)
  PROVE  /\ known[0] = Known("looking", NoBlock, NoBlock, <<>>, Len(s))
         /\ ByInstr(known, s, M)
<1>1. Len(s) \in Nat
  BY LenProperties
<1>2. \A n \in 0 .. Len(s) : known[n] = Round(known, s, M, n)
  BY DEF Rounds
<1>3. 0 \in 0 .. Len(s) /\ \A n \in 1 .. Len(s) : n \in 0 .. Len(s) /\ n # 0
  BY <1>1
<1>4. known[0] = Known("looking", NoBlock, NoBlock, <<>>, Len(s))
  BY <1>2, <1>3 DEF Round, Unknown, Known
<1>5. ASSUME NEW n \in 1 .. Len(s)
      PROVE  known[n] = IF known[n - 1].state # "looking" THEN known[n - 1]
                        ELSE AnalyzeInstr(known[n - 1], s[Len(s) - n + 1],
                                          Len(s) - n + 1, M)
  BY <1>2, <1>3 DEF Round
<1> QED
  BY <1>4, <1>5 DEF ByInstr

(* What changing one field does to what is known.                          *)
LEMMA KnownState ==
  ASSUME NEW state, NEW TBB, NEW FBB, NEW Cond, NEW len, NEW v
  PROVE  [Known(state, TBB, FBB, Cond, len) EXCEPT !.state = v]
           = Known(v, TBB, FBB, Cond, len)
  BY DEF Known

(* The same for the target.                                                *)
LEMMA KnownTBB ==
  ASSUME NEW state, NEW TBB, NEW FBB, NEW Cond, NEW len, NEW v
  PROVE  [Known(state, TBB, FBB, Cond, len) EXCEPT !.TBB = v]
           = Known(state, v, FBB, Cond, len)
  BY DEF Known

(* The same for the other target.                                          *)
LEMMA KnownFBB ==
  ASSUME NEW state, NEW TBB, NEW FBB, NEW Cond, NEW len, NEW v
  PROVE  [Known(state, TBB, FBB, Cond, len) EXCEPT !.FBB = v]
           = Known(state, TBB, v, Cond, len)
  BY DEF Known

(* The same for the condition.                                             *)
LEMMA KnownCond ==
  ASSUME NEW state, NEW TBB, NEW FBB, NEW Cond, NEW len, NEW v
  PROVE  [Known(state, TBB, FBB, Cond, len) EXCEPT !.Cond = v]
           = Known(state, TBB, FBB, v, len)
  BY DEF Known

(* The same for the length.                                                *)
LEMMA KnownLen ==
  ASSUME NEW state, NEW TBB, NEW FBB, NEW Cond, NEW len, NEW v
  PROVE  [Known(state, TBB, FBB, Cond, len) EXCEPT !.len = v]
           = Known(state, TBB, FBB, Cond, v)
  BY DEF Known

(* Once done, nothing more becomes known.                                  *)
LEMMA DoneStays ==
  ASSUME NEW s \in Seq(Instructions), NEW M, NEW known, Rounds(known, s, M),
         NEW k \in 0 .. Len(s), known[k].state # "looking"
  PROVE  known[Len(s)] = known[k]
<1> DEFINE T == {n \in Nat : known[k + n] = known[k]}
<1>0. ByInstr(known, s, M)
  BY RoundByRound
<1>1. Len(s) \in Nat /\ Len(s) - k \in Nat
  BY LenProperties
<1>2. 0 \in T
  OBVIOUS
<1>3. ASSUME NEW n \in 0 .. Len(s) - k - 1, n \in T PROVE n + 1 \in T
  <2>1. k + n + 1 \in 1 .. Len(s) /\ (k + n + 1) - 1 = k + n /\ n \in Nat
    BY <1>1
  <2>2. known[k + n + 1] = known[k + n]
    <3>1. known[k + n].state # "looking"
      BY <1>3
    <3>2. known[k + n + 1] =
            IF known[(k + n + 1) - 1].state # "looking" THEN known[(k + n + 1) - 1]
            ELSE AnalyzeInstr(known[(k + n + 1) - 1], s[Len(s) - (k + n + 1) + 1],
                              Len(s) - (k + n + 1) + 1, M)
      BY <1>0, <2>1 DEF ByInstr
    <3> QED
      BY <2>1, <3>1, <3>2
  <2>3. k + n + 1 = k + (n + 1)
    BY <2>1
  <2> QED
    BY <1>3, <2>1, <2>2, <2>3
<1> HIDE DEF T
<1> DEFINE N == Len(s) - k
<1>4. N \in T
  <2>1. N \in Nat /\ \A n \in 0 .. N - 1 : n \in T => n + 1 \in T
    BY <1>1, <1>3
  <2> HIDE DEF N
  <2>2. 0 .. N \subseteq T
    BY <1>2, <2>1, BoundedInduction
  <2> QED
    BY <2>1, <2>2
<1> QED
  BY <1>1, <1>4 DEF T

(* What is above the branches of a block that can be analysed: no call     *)
(* next to them.                                                           *)
Bodies == {s \in Seq(Instructions) :
             Straight(s) /\ (s # <<>> => ~isTerminator(s[Len(s)]))}

(* Nothing becomes known of a block above its branches.                    *)
LEMMA BodyAddsNothing ==
  ASSUME NEW s \in Seq(Instructions), NEW M, NEW known, Rounds(known, s, M),
         NEW body \in Bodies, NEW k \in 0 .. Len(s), Len(body) = Len(s) - k,
         \A j \in 1 .. Len(body) : s[j] = body[j],
         NEW TBB, NEW FBB, NEW Cond, NEW len,
         known[k] = Known("looking", TBB, FBB, Cond, len)
  PROVE  known[Len(s)] \in {Known(q, TBB, FBB, Cond, len) : q \in {"looking", "done"}}
<1>0. ByInstr(known, s, M)
  BY RoundByRound
<1>1. Len(s) \in Nat
  BY LenProperties
<1>2. CASE k = Len(s)
  BY <1>2
<1>3. CASE k # Len(s)
  <2>1. body # <<>> /\ Len(s) - (k + 1) + 1 = Len(body) /\ k + 1 \in 1 .. Len(s)
        /\ (k + 1) - 1 = k /\ Len(body) \in 1 .. Len(body)
    BY <1>1, <1>3, EmptySeq
  <2>2. ~isTerminator(s[Len(body)])
    BY <2>1 DEF Bodies, Straight
  <2>3. known[k + 1] = AnalyzeInstr(known[k], s[Len(body)], Len(body), M)
    <3>1. known[k].state = "looking"
      BY DEF Known
    <3>2. known[k + 1] =
            IF known[(k + 1) - 1].state # "looking" THEN known[(k + 1) - 1]
            ELSE AnalyzeInstr(known[(k + 1) - 1], s[Len(s) - (k + 1) + 1],
                              Len(s) - (k + 1) + 1, M)
      BY <1>0, <2>1 DEF ByInstr
    <3> QED
      BY <2>1, <3>1, <3>2
  <2>4. known[k + 1] = [known[k] EXCEPT !.state = "done"]
    BY <2>2, <2>3 DEF AnalyzeInstr, UnknownBranch, isTerminator
  <2>5. known[k + 1] = Known("done", TBB, FBB, Cond, len)
    BY <2>4, KnownState
  <2>6. known[Len(s)] = known[k + 1]
    <3>1. known[k + 1].state # "looking"
      BY <2>5 DEF Known
    <3>2. k + 1 \in 0 .. Len(s)
      BY <2>1, <1>1
    <3> QED
      BY <3>1, <3>2, DoneStays
  <2> QED
    BY <2>5, <2>6
<1> QED
  BY <1>2, <1>3
--------------------------------------------------------------------------------
RegisterOperands == {"reg"} \X Registers

(* The condition of a comparison.                                          *)
CondOf(op, B, l, r) == <<<<"imm", BranchCC(op)>>, <<"mbb", B>>, l, r>>

(* The condition code before a comparison's operands.                      *)
LEMMA FourOperands ==
  ASSUME NEW a, NEW b, NEW c, NEW d
  PROVE  <<a>> \o <<b, c, d>> = <<a, b, c, d>>
<1> DEFINE S == {a, b, c, d}
<1>1. <<a>> \in Seq(S) /\ <<b, c, d>> \in Seq(S) /\ <<a, b, c, d>> \in Seq(S)
  OBVIOUS
<1> DEFINE u == <<a>> \o <<b, c, d>>
<1>2. u \in Seq(S) /\ Len(u) = 4 /\ \A k \in 1 .. 4 :
        u[k] = IF k <= 1 THEN <<a>>[k] ELSE <<b, c, d>>[k - 1]
  <2>1. Len(<<a>>) = 1 /\ Len(<<b, c, d>>) = 3
    OBVIOUS
  <2> HIDE DEF S
  <2> QED
    BY <1>1, <2>1, ConcatProperties
<1>3. \A k \in 1 .. 4 : u[k] = <<a, b, c, d>>[k]
  BY <1>2
<1> QED
  BY <1>1, <1>2, <1>3, SeqEqual

(* The last instruction, a jump.                                           *)
LEMMA MeetsJump ==
  ASSUME NEW len, NEW M \in BOOLEAN, NEW B
  PROVE  AnalyzeInstr(Known("looking", NoBlock, NoBlock, <<>>, len), BranchTo(B), len, M)
           = Known("looking", B, NoBlock, <<>>, len)
<1> DEFINE i == BranchTo(B)
           a == Known("looking", NoBlock, NoBlock, <<>>, len)
           c == Known("looking", B, NoBlock, <<>>, len)
<1>1. /\ i.op = "J" /\ isMBB(i) /\ isTerminator(i) /\ ~UnknownBranch(i)
      /\ isBranch(i) /\ Target(i) = B /\ i.op \notin ConditionalBranches
  BY DEF BranchTo, isMBB, isTerminator, UnknownBranch, isBranch, Target, Calls,
         ConditionalBranches, BranchRR, BranchRI, BranchRZ
<1>2. [a EXCEPT !.TBB = B] = c
  BY KnownTBB
<1>3. [c EXCEPT !.FBB = NoBlock] = c
  BY KnownFBB
<1>4. [c EXCEPT !.Cond = <<>>] = c
  BY KnownCond
<1>5. [c EXCEPT !.len = len] = c
  BY KnownLen
<1>6. AnalyzeInstr(a, i, len, M) =
        IF M THEN [a EXCEPT !.TBB = B, !.FBB = NoBlock, !.Cond = <<>>, !.len = len]
        ELSE [a EXCEPT !.TBB = B]
  <2> HIDE DEF a, i
  <2> QED
    BY <1>1 DEF AnalyzeInstr
<1> HIDE DEF a, c, i
<1>7. AnalyzeInstr(a, i, len, M) = c
  BY <1>2, <1>3, <1>4, <1>5, <1>6
<1> QED
  BY <1>7 DEF a, c, i

(* What a comparison of registers is to the hooks.                         *)
LEMMA IfFacts ==
  ASSUME NEW op \in BranchRR, NEW B, NEW l, NEW r
  PROVE  LET i == BranchIf(op, B, l, r)
         IN  /\ i.op = op /\ op \in ConditionalBranches /\ isMBB(i)
             /\ isTerminator(i) /\ ~UnknownBranch(i) /\ isBranch(i) /\ Target(i) = B
             /\ op \notin {"J", "JX", "RET_N"}
             /\ i.ops = <<<<"mbb", B>>, l, r>>
  BY DEF BranchIf, isMBB, isTerminator, UnknownBranch, isBranch, Target, Calls,
         ConditionalBranches, BranchRR, BranchRI, BranchRZ

(* A comparison of registers, what is below it having left no condition.   *)
LEMMA MeetsIf ==
  ASSUME NEW TBB, NEW FBB, NEW len, NEW j, NEW M,
         NEW op \in BranchRR, NEW B, NEW l, NEW r
  PROVE  AnalyzeInstr(Known("looking", TBB, FBB, <<>>, len), BranchIf(op, B, l, r), j, M)
           = Known("looking", B, TBB, CondOf(op, B, l, r), len)
<1> DEFINE i == BranchIf(op, B, l, r)
           a == Known("looking", TBB, FBB, <<>>, len)
<1>1. /\ i.op = op /\ op \in ConditionalBranches /\ isMBB(i) /\ isTerminator(i)
      /\ ~UnknownBranch(i) /\ isBranch(i) /\ Target(i) = B
      /\ op \notin {"J", "JX", "RET_N"} /\ i.ops = <<<<"mbb", B>>, l, r>>
  BY IfFacts
<1>2. a.Cond = <<>> /\ a.TBB = TBB
  BY DEF Known
<1> HIDE DEF i
<1>3. <<<<"imm", BranchCC(op)>>>> \o i.ops = CondOf(op, B, l, r)
  BY <1>1, FourOperands DEF CondOf
<1>4. AnalyzeInstr(a, i, j, M) = FirstConditional(a, i)
  <2> HIDE DEF a
  <2> QED
    BY <1>1, <1>2 DEF AnalyzeInstr
<1>5. FirstConditional(a, i)
        = [a EXCEPT !.FBB = TBB, !.TBB = B, !.Cond = CondOf(op, B, l, r)]
  <2> HIDE DEF a
  <2> QED
    BY <1>1, <1>2, <1>3 DEF FirstConditional
<1>6. [a EXCEPT !.FBB = TBB, !.TBB = B, !.Cond = CondOf(op, B, l, r)]
        = Known("looking", B, TBB, CondOf(op, B, l, r), len)
  <2>1. [a EXCEPT !.FBB = TBB] = Known("looking", TBB, TBB, <<>>, len)
    BY KnownFBB
  <2>2. [Known("looking", TBB, TBB, <<>>, len) EXCEPT !.TBB = B]
          = Known("looking", B, TBB, <<>>, len)
    BY KnownTBB
  <2>3. [Known("looking", B, TBB, <<>>, len) EXCEPT !.Cond = CondOf(op, B, l, r)]
          = Known("looking", B, TBB, CondOf(op, B, l, r), len)
    BY KnownCond
  <2> QED
    BY <2>1, <2>2, <2>3
<1> QED
  BY <1>4, <1>5, <1>6 DEF i

(* A return or an indirect jump.                                           *)
Leaves(i) == i.op = "RET_N" \/ (i.op = "JX" /\ ~isMBB(i))

(* A return or an indirect jump ends the analysis.                         *)
LEMMA MeetsLeave ==
  ASSUME NEW TBB, NEW FBB, NEW Cond, NEW len, NEW j, NEW M, NEW i, Leaves(i)
  PROVE  AnalyzeInstr(Known("looking", TBB, FBB, Cond, len), i, j, M)
           = Known("cannot", TBB, FBB, Cond, len)
<1>1. isTerminator(i) /\ ~UnknownBranch(i) /\ ~(isBranch(i) /\ isMBB(i))
      /\ i.op \notin ConditionalBranches /\ ~(i.op \in {"J", "JX"} /\ isMBB(i))
  BY DEF Leaves, isTerminator, UnknownBranch, isBranch, Calls, ConditionalBranches,
         BranchRR, BranchRI, BranchRZ
<1> DEFINE a == Known("looking", TBB, FBB, Cond, len)
<1>2. AnalyzeInstr(a, i, j, M) = [a EXCEPT !.state = "cannot"]
  <2> HIDE DEF a
  <2> QED
    BY <1>1 DEF AnalyzeInstr
<1> QED
  BY <1>2, KnownState
--------------------------------------------------------------------------------
(* A sequence with one more element.                                       *)
LEMMA AppendFacts ==
  ASSUME NEW S, NEW s \in Seq(S), NEW x \in S
  PROVE  /\ Append(s, x) \in Seq(S)
         /\ Len(s) \in Nat
         /\ Len(Append(s, x)) = Len(s) + 1
         /\ Append(s, x)[Len(s) + 1] = x
         /\ \A j \in 1 .. Len(s) : Append(s, x)[j] = s[j]
  OBVIOUS

(* The first round meets the last instruction.                             *)
LEMMA FirstRound ==
  ASSUME NEW s \in Seq(Instructions), NEW M, NEW known, Rounds(known, s, M),
         Len(s) # 0
  PROVE  known[1] = AnalyzeInstr(Known("looking", NoBlock, NoBlock, <<>>, Len(s)),
                                 s[Len(s)], Len(s), M)
<1>1. Len(s) \in Nat
  BY LenProperties
<1>2. 1 \in 1 .. Len(s) /\ Len(s) - 1 + 1 = Len(s) /\ 1 - 1 = 0
  BY <1>1
<1>3. known[0] = Known("looking", NoBlock, NoBlock, <<>>, Len(s)) /\ ByInstr(known, s, M)
  BY RoundByRound
<1>4. known[0].state = "looking"
  BY <1>3 DEF Known
<1>5. known[1] = IF known[1 - 1].state # "looking" THEN known[1 - 1]
                 ELSE AnalyzeInstr(known[1 - 1], s[Len(s) - 1 + 1], Len(s) - 1 + 1, M)
  BY <1>2, <1>3 DEF ByInstr
<1> QED
  BY <1>2, <1>3, <1>4, <1>5

(* The second meets the one above it.                                      *)
LEMMA SecondRound ==
  ASSUME NEW s \in Seq(Instructions), NEW M, NEW known, Rounds(known, s, M),
         Len(s) >= 2, known[1].state = "looking"
  PROVE  known[2] = AnalyzeInstr(known[1], s[Len(s) - 1], Len(s) - 1, M)
<1>1. Len(s) \in Nat
  BY LenProperties
<1>2. 2 \in 1 .. Len(s) /\ Len(s) - 2 + 1 = Len(s) - 1 /\ 2 - 1 = 1
  BY <1>1
<1>3. ByInstr(known, s, M)
  BY RoundByRound
<1>5. known[2] = IF known[2 - 1].state # "looking" THEN known[2 - 1]
                 ELSE AnalyzeInstr(known[2 - 1], s[Len(s) - 2 + 1], Len(s) - 2 + 1, M)
  BY <1>2, <1>3 DEF ByInstr
<1> QED
  BY <1>2, <1>5

(* What the analysis says of a block, however it came to its end.          *)
Reads(A, TBB, FBB, Cond, len) ==
  A \in {Known(q, TBB, FBB, Cond, len) : q \in {"looking", "done"}}

(* A block without branches falls through.                                 *)
LEMMA ReadsBody ==
  ASSUME NEW s \in Bodies, NEW M
  PROVE  Reads(AnalyzeBranch(s, M), NoBlock, NoBlock, <<>>, Len(s))
<1>1. s \in Seq(Instructions) /\ Len(s) \in Nat
  BY LenProperties DEF Bodies
<1>2. PICK known : Rounds(known, s, M) /\ AnalyzeBranch(s, M) = known[Len(s)]
  BY <1>1, AnalyzeByRounds DEF Rounds
<1>3. known[0] = Known("looking", NoBlock, NoBlock, <<>>, Len(s))
  BY <1>1, <1>2, RoundByRound
<1>4. known[Len(s)] \in
        {Known(q, NoBlock, NoBlock, <<>>, Len(s)) : q \in {"looking", "done"}}
  <2>1. 0 \in 0 .. Len(s) /\ Len(s) = Len(s) - 0 /\ \A j \in 1 .. Len(s) : s[j] = s[j]
    BY <1>1
  <2> QED
    BY <1>1, <1>2, <1>3, <2>1, BodyAddsNothing
<1> QED
  BY <1>2, <1>4 DEF Reads

(* A block that ends in a jump.                                            *)
LEMMA ReadsJump ==
  ASSUME NEW body \in Bodies, NEW M \in BOOLEAN, NEW B, BranchTo(B) \in Instructions
  PROVE  LET s == Append(body, BranchTo(B))
         IN  Reads(AnalyzeBranch(s, M), B, NoBlock, <<>>, Len(s))
<1> DEFINE s == Append(body, BranchTo(B))
<1>0. body \in Seq(Instructions)
  BY DEF Bodies
<1>1. /\ s \in Seq(Instructions) /\ Len(body) \in Nat /\ Len(s) = Len(body) + 1
      /\ s[Len(body) + 1] = BranchTo(B) /\ \A j \in 1 .. Len(body) : s[j] = body[j]
  BY <1>0, AppendFacts
<1> HIDE DEF s
<1>2. Len(s) \in Nat /\ Len(s) # 0 /\ 1 \in 0 .. Len(s) /\ Len(body) = Len(s) - 1
      /\ s[Len(s)] = BranchTo(B)
  BY <1>1
<1>3. PICK known : Rounds(known, s, M) /\ AnalyzeBranch(s, M) = known[Len(s)]
  BY <1>1, <1>2, AnalyzeByRounds DEF Rounds
<1>4. known[1] = AnalyzeInstr(Known("looking", NoBlock, NoBlock, <<>>, Len(s)),
                              BranchTo(B), Len(s), M)
  BY <1>1, <1>2, <1>3, FirstRound
<1>5. known[1] = Known("looking", B, NoBlock, <<>>, Len(s))
  BY <1>4, MeetsJump
<1>6. known[Len(s)] \in
        {Known(q, B, NoBlock, <<>>, Len(s)) : q \in {"looking", "done"}}
  BY <1>1, <1>2, <1>3, <1>5, BodyAddsNothing
<1> QED
  BY <1>3, <1>6 DEF Reads, s

(* A block that ends in a comparison.                                      *)
LEMMA ReadsIf ==
  ASSUME NEW body \in Bodies, NEW M, NEW op \in BranchRR, NEW B, NEW l, NEW r,
         BranchIf(op, B, l, r) \in Instructions
  PROVE  LET s == Append(body, BranchIf(op, B, l, r))
         IN  Reads(AnalyzeBranch(s, M), B, NoBlock, CondOf(op, B, l, r), Len(s))
<1> DEFINE i == BranchIf(op, B, l, r)
           s == Append(body, i)
<1>0. body \in Seq(Instructions)
  BY DEF Bodies
<1>1. /\ s \in Seq(Instructions) /\ Len(body) \in Nat /\ Len(s) = Len(body) + 1
      /\ s[Len(body) + 1] = i /\ \A j \in 1 .. Len(body) : s[j] = body[j]
  BY <1>0, AppendFacts
<1> HIDE DEF s
<1>2. Len(s) \in Nat /\ Len(s) # 0 /\ 1 \in 0 .. Len(s) /\ Len(body) = Len(s) - 1
      /\ s[Len(s)] = i
  BY <1>1
<1>3. PICK known : Rounds(known, s, M) /\ AnalyzeBranch(s, M) = known[Len(s)]
  BY <1>1, <1>2, AnalyzeByRounds DEF Rounds
<1>4. known[1] = AnalyzeInstr(Known("looking", NoBlock, NoBlock, <<>>, Len(s)),
                              i, Len(s), M)
  BY <1>1, <1>2, <1>3, FirstRound
<1>5. known[1] = Known("looking", B, NoBlock, CondOf(op, B, l, r), Len(s))
  BY <1>4, MeetsIf
<1>6. known[Len(s)] \in
        {Known(q, B, NoBlock, CondOf(op, B, l, r), Len(s)) : q \in {"looking", "done"}}
  BY <1>1, <1>2, <1>3, <1>5, BodyAddsNothing
<1> QED
  BY <1>3, <1>6 DEF Reads, s

(* A block that ends in a comparison and a jump.                           *)
LEMMA ReadsIfJump ==
  ASSUME NEW body \in Bodies, NEW M \in BOOLEAN, NEW op \in BranchRR, NEW B, NEW l, NEW r,
         NEW C, BranchIf(op, B, l, r) \in Instructions, BranchTo(C) \in Instructions
  PROVE  LET s == Append(Append(body, BranchIf(op, B, l, r)), BranchTo(C))
         IN  Reads(AnalyzeBranch(s, M), B, C, CondOf(op, B, l, r), Len(s))
<1> DEFINE i == BranchIf(op, B, l, r)
           t == Append(body, i)
           s == Append(t, BranchTo(C))
<1>0. body \in Seq(Instructions)
  BY DEF Bodies
<1>1. /\ t \in Seq(Instructions) /\ Len(body) \in Nat /\ Len(t) = Len(body) + 1
      /\ t[Len(body) + 1] = i /\ \A j \in 1 .. Len(body) : t[j] = body[j]
  BY <1>0, AppendFacts
<1> HIDE DEF t, i
<1>2. /\ s \in Seq(Instructions) /\ Len(t) \in Nat /\ Len(s) = Len(t) + 1
      /\ s[Len(t) + 1] = BranchTo(C) /\ \A j \in 1 .. Len(t) : s[j] = t[j]
  BY <1>1, AppendFacts
<1> HIDE DEF s
<1>3. /\ Len(s) \in Nat /\ Len(s) >= 2 /\ Len(s) # 0 /\ 2 \in 0 .. Len(s)
      /\ Len(body) = Len(s) - 2 /\ s[Len(s)] = BranchTo(C) /\ s[Len(s) - 1] = i
      /\ \A j \in 1 .. Len(body) : s[j] = body[j]
  <2>1. \A j \in 1 .. Len(t) : j \in 1 .. Len(body) \/ j = Len(body) + 1
    BY <1>1
  <2>2. \A j \in 1 .. Len(body) : j \in 1 .. Len(t)
    BY <1>1
  <2>3. Len(body) + 1 \in 1 .. Len(t) /\ Len(s) - 1 = Len(body) + 1
    BY <1>1, <1>2
  <2> QED
    BY <1>1, <1>2, <2>1, <2>2, <2>3
<1>4. PICK known : Rounds(known, s, M) /\ AnalyzeBranch(s, M) = known[Len(s)]
  BY <1>2, <1>3, AnalyzeByRounds DEF Rounds
<1>5. known[1] = AnalyzeInstr(Known("looking", NoBlock, NoBlock, <<>>, Len(s)),
                              BranchTo(C), Len(s), M)
  BY <1>2, <1>3, <1>4, FirstRound
<1>6. known[1] = Known("looking", C, NoBlock, <<>>, Len(s))
  BY <1>5, MeetsJump
<1>7. known[2] = AnalyzeInstr(known[1], i, Len(s) - 1, M)
  <2>1. known[1].state = "looking"
    BY <1>6 DEF Known
  <2> QED
    BY <1>2, <1>3, <1>4, <2>1, SecondRound
<1>8. known[2] = Known("looking", B, C, CondOf(op, B, l, r), Len(s))
  BY <1>6, <1>7, MeetsIf DEF i
<1>9. known[Len(s)] \in
        {Known(q, B, C, CondOf(op, B, l, r), Len(s)) : q \in {"looking", "done"}}
  BY <1>2, <1>3, <1>4, <1>8, BodyAddsNothing
<1> QED
  BY <1>4, <1>9 DEF Reads, s, t, i

(* A block that ends in a return or an indirect jump.                      *)
LEMMA ReadsLeave ==
  ASSUME NEW s \in Seq(Instructions), NEW M, s # <<>>, Leaves(s[Len(s)])
  PROVE  AnalyzeBranch(s, M) = Known("cannot", NoBlock, NoBlock, <<>>, Len(s))
<1>1. Len(s) \in Nat /\ Len(s) # 0 /\ 1 \in 0 .. Len(s)
  BY LenProperties, EmptySeq
<1>2. PICK known : Rounds(known, s, M) /\ AnalyzeBranch(s, M) = known[Len(s)]
  BY <1>1, AnalyzeByRounds DEF Rounds
<1>3. known[1] = AnalyzeInstr(Known("looking", NoBlock, NoBlock, <<>>, Len(s)),
                              s[Len(s)], Len(s), M)
  BY <1>1, <1>2, FirstRound
<1>4. known[1] = Known("cannot", NoBlock, NoBlock, <<>>, Len(s))
  BY <1>3, MeetsLeave
<1>5. known[1].state # "looking"
  BY <1>4 DEF Known
<1> QED
  BY <1>1, <1>2, <1>4, <1>5, DoneStays

(* A block with a call next to its end: behind the call is nothing, a      *)
(* jump, a comparison, or both.                                            *)
CallEndAt(s, k) ==
  /\ s[k].op \in Calls
  /\ \/ Len(s) = k
     \/ Len(s) = k + 1 /\ \E B : s[k + 1] = BranchTo(B)
     \/ Len(s) = k + 1 /\ \E op \in BranchRR : \E B, l, r : s[k + 1] = BranchIf(op, B, l, r)
     \/ Len(s) = k + 2 /\ \E op \in BranchRR : \E B, C, l, r :
          s[k + 1] = BranchIf(op, B, l, r) /\ s[k + 2] = BranchTo(C)

CallEnd(s) == \E k \in 1 .. Len(s) : CallEndAt(s, k)

(* The analysis fails at a call it comes to.                               *)
LEMMA MeetsCall ==
  ASSUME NEW s \in Seq(Instructions), NEW M, NEW known, Rounds(known, s, M),
         NEW n \in Nat, NEW k \in 1 .. Len(s), Len(s) = k + n, s[k].op \in Calls,
         NEW TBB, NEW FBB, NEW Cond, NEW len,
         known[n] = Known("looking", TBB, FBB, Cond, len)
  PROVE  known[Len(s)].state = "failed"
<1>1. Len(s) \in Nat
  BY LenProperties
<1>2. n + 1 \in 1 .. Len(s) /\ (n + 1) - 1 = n /\ Len(s) - (n + 1) + 1 = k
  BY <1>1
<1>3. ByInstr(known, s, M)
  BY RoundByRound
<1>4. known[n].state = "looking"
  BY DEF Known
<1>5. known[n + 1] =
        IF known[(n + 1) - 1].state # "looking" THEN known[(n + 1) - 1]
        ELSE AnalyzeInstr(known[(n + 1) - 1], s[Len(s) - (n + 1) + 1],
                          Len(s) - (n + 1) + 1, M)
  BY <1>2, <1>3 DEF ByInstr
<1>6. known[n + 1] = AnalyzeInstr(known[n], s[k], k, M)
  BY <1>2, <1>4, <1>5
<1>7. isTerminator(s[k]) /\ UnknownBranch(s[k]) /\ ~isBranch(s[k])
  BY DEF isTerminator, UnknownBranch, isBranch, Calls, ConditionalBranches,
         BranchRR, BranchRI, BranchRZ
<1>8. s[k].op \notin ConditionalBranches \cup {"J", "JX"}
  BY <1>7 DEF isBranch
<1>9. known[n + 1] = [known[n] EXCEPT !.state = "failed"]
  BY <1>6, <1>7, <1>8 DEF AnalyzeInstr
<1>10. known[n + 1] = Known("failed", TBB, FBB, Cond, len)
  BY <1>9, KnownState
<1>11. known[n + 1].state = "failed"
  BY <1>10 DEF Known
<1>12. known[Len(s)] = known[n + 1]
  <2>1. n + 1 \in 0 .. Len(s) /\ known[n + 1].state # "looking"
    BY <1>1, <1>2, <1>11
  <2> QED
    BY <2>1, DoneStays
<1> QED
  BY <1>11, <1>12

(* With a call next to its end a block cannot be analysed: the assertion   *)
(* fails, whether or not the analysis may erase.                           *)
LEMMA CallEndFails ==
  ASSUME NEW s \in Seq(Instructions), CallEnd(s), NEW M \in BOOLEAN
  PROVE  AnalyzeBranch(s, M).state = "failed" /\ CallAtEnd(s)
<1>1. PICK k \in 1 .. Len(s) : CallEndAt(s, k)
  BY DEF CallEnd
<1>2. Len(s) \in Nat /\ Len(s) # 0 /\ k \in DOMAIN s /\ s[k].op \in Calls
  BY <1>1, LenProperties DEF CallEndAt
<1>3. PICK known : Rounds(known, s, M) /\ AnalyzeBranch(s, M) = known[Len(s)]
  BY <1>2, AnalyzeByRounds DEF Rounds
<1>4. known[1] = AnalyzeInstr(Known("looking", NoBlock, NoBlock, <<>>, Len(s)),
                              s[Len(s)], Len(s), M)
  BY <1>2, <1>3, FirstRound
<1>5. CASE Len(s) = k
  <2>1. known[0] = Known("looking", NoBlock, NoBlock, <<>>, Len(s))
    BY <1>3, RoundByRound
  <2>2. Len(s) = k + 0
    BY <1>5
  <2>3. known[Len(s)].state = "failed"
    BY <1>2, <1>3, <2>1, <2>2, MeetsCall
  <2>4. \A j \in k + 1 .. Len(s) : FALSE
    BY <1>2, <1>5
  <2> QED
    BY <1>2, <1>3, <2>3, <2>4 DEF CallAtEnd
<1>6. ASSUME Len(s) = k + 1, NEW B, s[k + 1] = BranchTo(B)
      PROVE  AnalyzeBranch(s, M).state = "failed" /\ CallAtEnd(s)
  <2>1. known[1] = Known("looking", B, NoBlock, <<>>, Len(s))
    BY <1>4, <1>6, MeetsJump
  <2>2. known[Len(s)].state = "failed"
    BY <1>2, <1>3, <1>6, <2>1, MeetsCall
  <2>3. isBranch(s[k + 1]) /\ isMBB(s[k + 1])
    BY <1>6 DEF BranchTo, isBranch, isMBB
  <2>4. \A j \in k + 1 .. Len(s) : isBranch(s[j]) /\ isMBB(s[j])
    <3>1. \A j \in k + 1 .. Len(s) : j = k + 1
      BY <1>2, <1>6
    <3> QED
      BY <2>3, <3>1
  <2> QED
    BY <1>2, <1>3, <2>2, <2>4 DEF CallAtEnd
<1>7. ASSUME Len(s) = k + 1, NEW op \in BranchRR, NEW B, NEW l, NEW r,
             s[k + 1] = BranchIf(op, B, l, r)
      PROVE  AnalyzeBranch(s, M).state = "failed" /\ CallAtEnd(s)
  <2>1. known[1] = Known("looking", B, NoBlock, CondOf(op, B, l, r), Len(s))
    BY <1>4, <1>7, MeetsIf
  <2>2. known[Len(s)].state = "failed"
    BY <1>2, <1>3, <1>7, <2>1, MeetsCall
  <2>3. isBranch(s[k + 1]) /\ isMBB(s[k + 1])
    BY <1>7, IfFacts
  <2>4. \A j \in k + 1 .. Len(s) : isBranch(s[j]) /\ isMBB(s[j])
    <3>1. \A j \in k + 1 .. Len(s) : j = k + 1
      BY <1>2, <1>7
    <3> QED
      BY <2>3, <3>1
  <2> QED
    BY <1>2, <1>3, <2>2, <2>4 DEF CallAtEnd
<1>8. ASSUME Len(s) = k + 2, NEW op \in BranchRR, NEW B, NEW C, NEW l, NEW r,
             s[k + 1] = BranchIf(op, B, l, r), s[k + 2] = BranchTo(C)
      PROVE  AnalyzeBranch(s, M).state = "failed" /\ CallAtEnd(s)
  <2>1. known[1] = Known("looking", C, NoBlock, <<>>, Len(s))
    BY <1>4, <1>8, MeetsJump
  <2>2. known[2] = Known("looking", B, C, CondOf(op, B, l, r), Len(s))
    <3>1. known[1].state = "looking" /\ Len(s) >= 2 /\ Len(s) - 1 = k + 1
      BY <1>2, <1>8, <2>1 DEF Known
    <3>2. known[2] = AnalyzeInstr(known[1], s[Len(s) - 1], Len(s) - 1, M)
      BY <1>3, <3>1, SecondRound
    <3> QED
      BY <1>8, <2>1, <3>1, <3>2, MeetsIf
  <2>3. known[Len(s)].state = "failed"
    BY <1>2, <1>3, <1>8, <2>2, MeetsCall
  <2>4. /\ isBranch(s[k + 1]) /\ isMBB(s[k + 1])
        /\ isBranch(s[k + 2]) /\ isMBB(s[k + 2])
    BY <1>8, IfFacts DEF BranchTo, isBranch, isMBB
  <2>5. \A j \in k + 1 .. Len(s) : isBranch(s[j]) /\ isMBB(s[j])
    <3>1. \A j \in k + 1 .. Len(s) : j = k + 1 \/ j = k + 2
      BY <1>2, <1>8
    <3> QED
      BY <2>4, <3>1
  <2> QED
    BY <1>2, <1>3, <2>3, <2>5 DEF CallAtEnd
<1>9. CASE \E B : Len(s) = k + 1 /\ s[k + 1] = BranchTo(B)
  BY <1>6, <1>9
<1>10. CASE \E op \in BranchRR : \E B, l, r :
              Len(s) = k + 1 /\ s[k + 1] = BranchIf(op, B, l, r)
  BY <1>7, <1>10
<1>11. CASE \E op \in BranchRR : \E B, C, l, r :
              /\ Len(s) = k + 2
              /\ s[k + 1] = BranchIf(op, B, l, r) /\ s[k + 2] = BranchTo(C)
  BY <1>8, <1>11
<1> QED
  BY <1>1, <1>5, <1>9, <1>10, <1>11 DEF CallEndAt
--------------------------------------------------------------------------------
(* RemoveBranch erases all the branches and nothing else.                  *)
LEMMA RemoveLeavesBody ==
  ASSUME NEW s \in Seq(Instructions), NEW body \in Bodies, Len(body) <= Len(s),
         \A j \in 1 .. Len(body) : s[j] = body[j],
         \A j \in Len(body) + 1 .. Len(s) : isBranch(s[j]) /\ isMBB(s[j])
  PROVE  RemoveBranch(s) = body
<1> DEFINE kept == {0} \cup {j \in DOMAIN s : ~(isBranch(s[j]) /\ isMBB(s[j]))}
<1>0. body \in Seq(Instructions)
  BY DEF Bodies
<1>1. Len(body) \in Nat /\ Len(s) \in Nat /\ DOMAIN s = 1 .. Len(s)
  BY <1>0, LenProperties
<1>2. Len(body) \in kept
  <2>1. CASE body = <<>>
    BY <2>1
  <2>2. CASE body # <<>>
    <3>1. Len(body) \in 1 .. Len(body) /\ Len(body) \in 1 .. Len(s)
      BY <1>0, <1>1, <2>2, EmptySeq
    <3>2. ~isTerminator(s[Len(body)])
      BY <2>2, <3>1 DEF Bodies, Straight
    <3>3. ~isBranch(s[Len(body)])
      BY <3>2 DEF isBranch, isTerminator
    <3> QED
      BY <1>1, <3>1, <3>3
  <2> QED
    BY <2>1, <2>2
<1>3. \A k \in kept : k <= Len(body) /\ k \in Nat
  BY <1>1
<1> HIDE DEF kept
<1>4. (CHOOSE j \in kept : \A k \in kept : k <= j) = Len(body)
  BY <1>1, <1>2, <1>3
<1>5. RemoveBranch(s) = SubSeq(s, 1, Len(body))
  BY <1>4 DEF RemoveBranch, kept
<1>6. SubSeq(s, 1, Len(body)) = body
  <2>1. \A j \in 1 .. Len(body) : s[j] \in Instructions
    BY <1>0, ElementOfSeq
  <2>2. /\ SubSeq(s, 1, Len(body)) \in Seq(Instructions)
        /\ Len(SubSeq(s, 1, Len(body))) = Len(body)
        /\ \A j \in 1 .. Len(body) : SubSeq(s, 1, Len(body))[j] = s[j]
    <3>1. 1 \in Int /\ Len(body) \in Int /\ Len(body) - 1 + 1 = Len(body)
          /\ (\A j \in 1 .. Len(body) : 1 + j - 1 = j)
          /\ (1 > Len(body) => Len(body) = 0)
      BY <1>1
    <3>2. /\ SubSeq(s, 1, Len(body)) \in Seq(Instructions)
          /\ Len(SubSeq(s, 1, Len(body)))
               = IF 1 <= Len(body) THEN Len(body) - 1 + 1 ELSE 0
          /\ \A j \in 1 .. Len(body) - 1 + 1 :
               SubSeq(s, 1, Len(body))[j] = s[1 + j - 1]
      BY <2>1, <3>1, SubSeqProperties
    <3> QED
      BY <1>1, <3>1, <3>2
  <2> QED
    BY <1>0, <2>2, SeqEqual
<1> QED
  BY <1>5, <1>6

(* The four ways a block ends that the hooks can analyse.                  *)
JumpEnd(body, B)               == Append(body, BranchTo(B))
IfEnd(body, op, B, l, r)       == Append(body, BranchIf(op, B, l, r))
IfJumpEnd(body, op, B, C, l, r) == Append(IfEnd(body, op, B, l, r), BranchTo(C))

(* The branches InsertBranch builds are instructions.                      *)
LEMMA InstructionsBuilt ==
  /\ \A B \in Blocks : BranchTo(B) \in Instructions
  /\ \A op \in BranchRR, B \in Blocks, l, r \in RegisterOperands :
       BranchIf(op, B, l, r) \in Instructions
<1>1. ASSUME NEW B \in Blocks PROVE BranchTo(B) \in Instructions
  <2>1. <<"mbb", B>> \in Operands
    BY DEF Operands
  <2>2. <<<<"mbb", B>>>> \in Seq(Operands)
    BY <2>1
  <2> QED
    BY <2>2 DEF BranchTo, Instructions, Opcodes
<1>2. ASSUME NEW op \in BranchRR, NEW B \in Blocks, NEW l \in RegisterOperands,
             NEW r \in RegisterOperands
      PROVE  BranchIf(op, B, l, r) \in Instructions
  <2>1. <<"mbb", B>> \in Operands /\ l \in Operands /\ r \in Operands
    BY DEF Operands, RegisterOperands
  <2>2. <<<<"mbb", B>>, l, r>> \in Seq(Operands)
    BY <2>1
  <2>3. op \in Opcodes
    BY DEF Opcodes, ConditionalBranches
  <2> QED
    BY <2>2, <2>3 DEF BranchIf, Instructions
<1> QED
  BY <1>1, <1>2

(* The instructions of the blocks so ended.                                *)
LEMMA EndFacts ==
  ASSUME NEW body \in Bodies, NEW B \in Blocks, NEW C \in Blocks, NEW op \in BranchRR,
         NEW l \in RegisterOperands, NEW r \in RegisterOperands
  PROVE  /\ body \in Seq(Instructions) /\ Len(body) \in Nat
         /\ LET s == JumpEnd(body, B)
            IN  /\ s \in Seq(Instructions) /\ Len(s) = Len(body) + 1
                /\ \A j \in 1 .. Len(body) : s[j] = body[j]
                /\ s[Len(body) + 1] = BranchTo(B)
         /\ LET s == IfEnd(body, op, B, l, r)
            IN  /\ s \in Seq(Instructions) /\ Len(s) = Len(body) + 1
                /\ \A j \in 1 .. Len(body) : s[j] = body[j]
                /\ s[Len(body) + 1] = BranchIf(op, B, l, r)
         /\ LET s == IfJumpEnd(body, op, B, C, l, r)
            IN  /\ s \in Seq(Instructions) /\ Len(s) = Len(body) + 2
                /\ \A j \in 1 .. Len(body) : s[j] = body[j]
                /\ s[Len(body) + 1] = BranchIf(op, B, l, r)
                /\ s[Len(body) + 2] = BranchTo(C)
<1>1. body \in Seq(Instructions) /\ Len(body) \in Nat
  BY LenProperties DEF Bodies
<1>2. BranchTo(B) \in Instructions /\ BranchTo(C) \in Instructions
      /\ BranchIf(op, B, l, r) \in Instructions
  BY InstructionsBuilt
<1> DEFINE s == JumpEnd(body, B)
           t == IfEnd(body, op, B, l, r)
           u == IfJumpEnd(body, op, B, C, l, r)
<1>3. /\ s \in Seq(Instructions) /\ Len(s) = Len(body) + 1
      /\ \A j \in 1 .. Len(body) : s[j] = body[j]
      /\ s[Len(body) + 1] = BranchTo(B)
  BY <1>1, <1>2, AppendFacts DEF JumpEnd
<1>4. /\ t \in Seq(Instructions) /\ Len(t) = Len(body) + 1
      /\ \A j \in 1 .. Len(body) : t[j] = body[j]
      /\ t[Len(body) + 1] = BranchIf(op, B, l, r)
  BY <1>1, <1>2, AppendFacts DEF IfEnd
<1>5. /\ u \in Seq(Instructions) /\ Len(u) = Len(body) + 2
      /\ \A j \in 1 .. Len(body) : u[j] = body[j]
      /\ u[Len(body) + 1] = BranchIf(op, B, l, r)
      /\ u[Len(body) + 2] = BranchTo(C)
  <2> HIDE DEF t
  <2>1. /\ Append(t, BranchTo(C)) \in Seq(Instructions)
        /\ Len(Append(t, BranchTo(C))) = Len(t) + 1
        /\ \A j \in 1 .. Len(t) : Append(t, BranchTo(C))[j] = t[j]
        /\ Append(t, BranchTo(C))[Len(t) + 1] = BranchTo(C)
    BY <1>2, <1>4, AppendFacts
  <2>2. u = Append(t, BranchTo(C))
    BY DEF IfJumpEnd, t
  <2> HIDE DEF u
  <2>3. Len(t) + 1 = Len(body) + 2 /\ Len(body) + 1 \in 1 .. Len(t)
        /\ \A j \in 1 .. Len(body) : j \in 1 .. Len(t)
    BY <1>1, <1>4
  <2> QED
    BY <1>4, <2>1, <2>2, <2>3
<1> QED
  BY <1>1, <1>3, <1>4, <1>5

(* RemoveBranch leaves what is above a jump.                               *)
LEMMA RemoveJump ==
  ASSUME NEW body \in Bodies, NEW B \in Blocks
  PROVE  RemoveBranch(body) = body /\ RemoveBranch(JumpEnd(body, B)) = body
<1>1. isBranch(BranchTo(B)) /\ isMBB(BranchTo(B)) /\ BranchTo(B) \in Instructions
  BY InstructionsBuilt DEF isBranch, isMBB, BranchTo
<1>3. Len(body) \in Nat /\ body \in Seq(Instructions)
  BY LenProperties DEF Bodies
<1>4. RemoveBranch(body) = body
  <2>1. \A j \in Len(body) + 1 .. Len(body) : isBranch(body[j]) /\ isMBB(body[j])
    BY <1>3
  <2> QED
    BY <1>3, <2>1, RemoveLeavesBody
<1>5. RemoveBranch(JumpEnd(body, B)) = body
  <2> DEFINE s == JumpEnd(body, B)
  <2>1. /\ s \in Seq(Instructions) /\ Len(s) = Len(body) + 1
        /\ \A j \in 1 .. Len(body) : s[j] = body[j]
        /\ s[Len(body) + 1] = BranchTo(B)
    BY <1>1, <1>3, AppendFacts DEF JumpEnd
  <2> HIDE DEF s
  <2>2. Len(body) <= Len(s) /\ \A j \in Len(body) + 1 .. Len(s) : j = Len(body) + 1
    BY <1>3, <2>1
  <2>3. \A j \in Len(body) + 1 .. Len(s) : isBranch(s[j]) /\ isMBB(s[j])
    BY <1>1, <2>1, <2>2
  <2>4. RemoveBranch(s) = body
    BY <2>1, <2>2, <2>3, RemoveLeavesBody
  <2> QED
    BY <2>4 DEF s
<1> QED
  BY <1>4, <1>5

(* RemoveBranch leaves what is above a comparison.                         *)
LEMMA RemoveIf ==
  ASSUME NEW body \in Bodies, NEW B \in Blocks, NEW C \in Blocks, NEW op \in BranchRR,
         NEW l \in RegisterOperands, NEW r \in RegisterOperands
  PROVE  /\ RemoveBranch(IfEnd(body, op, B, l, r)) = body
         /\ RemoveBranch(IfJumpEnd(body, op, B, C, l, r)) = body
<1>1. isBranch(BranchTo(C)) /\ isMBB(BranchTo(C))
  BY DEF isBranch, isMBB, BranchTo
<1>2. isBranch(BranchIf(op, B, l, r)) /\ isMBB(BranchIf(op, B, l, r))
  BY IfFacts
<1>3. Len(body) \in Nat /\ body \in Seq(Instructions)
  BY EndFacts
<1>6. RemoveBranch(IfEnd(body, op, B, l, r)) = body
  <2> DEFINE s == IfEnd(body, op, B, l, r)
  <2>1. /\ s \in Seq(Instructions) /\ Len(s) = Len(body) + 1
        /\ \A j \in 1 .. Len(body) : s[j] = body[j]
        /\ s[Len(body) + 1] = BranchIf(op, B, l, r)
    BY EndFacts
  <2> HIDE DEF s
  <2>2. Len(body) <= Len(s) /\ \A j \in Len(body) + 1 .. Len(s) : j = Len(body) + 1
    BY <1>3, <2>1
  <2>3. \A j \in Len(body) + 1 .. Len(s) : isBranch(s[j]) /\ isMBB(s[j])
    BY <1>2, <2>1, <2>2
  <2>4. RemoveBranch(s) = body
    BY <2>1, <2>2, <2>3, RemoveLeavesBody
  <2> QED
    BY <2>4 DEF s
<1>7. RemoveBranch(IfJumpEnd(body, op, B, C, l, r)) = body
  <2> DEFINE s == IfJumpEnd(body, op, B, C, l, r)
  <2>1. /\ s \in Seq(Instructions) /\ Len(s) = Len(body) + 2
        /\ \A j \in 1 .. Len(body) : s[j] = body[j]
        /\ s[Len(body) + 1] = BranchIf(op, B, l, r)
        /\ s[Len(body) + 2] = BranchTo(C)
    BY EndFacts
  <2> HIDE DEF s
  <2>2. /\ Len(body) <= Len(s)
        /\ \A j \in Len(body) + 1 .. Len(s) : j \in {Len(body) + 1, Len(body) + 2}
    BY <1>3, <2>1
  <2>3. \A j \in Len(body) + 1 .. Len(s) : isBranch(s[j]) /\ isMBB(s[j])
    BY <1>1, <1>2, <2>1, <2>2
  <2>4. RemoveBranch(s) = body
    BY <2>1, <2>2, <2>3, RemoveLeavesBody
  <2> QED
    BY <2>4 DEF s
<1> QED
  BY <1>6, <1>7
--------------------------------------------------------------------------------
(* The branch a reversed condition is inserted as.                         *)
Opposite(op) == InsertedOpcode(ReverseCC(BranchCC(op)))

(* Reversing a comparison of registers gives the comparison that is taken  *)
(* when it is not, and reversing that one gives it back.                   *)
LEMMA OppositeFacts ==
  ASSUME NEW op \in BranchRR
  PROVE  /\ Opposite(op) \in BranchRR
         /\ BranchCC(Opposite(op)) = ReverseCC(BranchCC(op))
         /\ InsertedOpcode(BranchCC(op)) = op
         /\ Opposite(Opposite(op)) = op
         /\ \A a, b \in Words : AsmTaken(Opposite(op), a, b) <=> ~AsmTaken(op, a, b)
<1>1. /\ BranchCC(op) \in CCs /\ InsertedOpcode(BranchCC(op)) = op
  BY AnalysisInsertionRoundTrip
<1>2. /\ ReverseCC(BranchCC(op)) \in CCs
      /\ ReverseCC(ReverseCC(BranchCC(op))) = BranchCC(op)
  BY <1>1, ReverseInvolution
<1>3. /\ Opposite(op) \in BranchRR
      /\ BranchCC(Opposite(op)) = ReverseCC(BranchCC(op))
  BY <1>2, AnalysisInsertionRoundTrip DEF Opposite
<1>4. Opposite(Opposite(op)) = op
  BY <1>1, <1>2, <1>3 DEF Opposite
<1>5. ASSUME NEW a \in Words, NEW b \in Words
      PROVE  AsmTaken(Opposite(op), a, b) <=> ~AsmTaken(op, a, b)
  <2>1. AsmTaken(Opposite(op), a, b) <=> Holds(ReverseCC(BranchCC(op)), a, b)
    BY <1>2, InsertedBranchMeansCondition DEF Opposite
  <2>2. AsmTaken(op, a, b) <=> Holds(BranchCC(op), a, b)
    BY <1>1, InsertedBranchMeansCondition
  <2> QED
    BY <1>1, <2>1, <2>2, ReverseComplements
<1> QED
  BY <1>1, <1>3, <1>4, <1>5

(* Inserting the condition of a comparison puts the comparison back.       *)
LEMMA InsertAtEnd ==
  ASSUME NEW body, NEW B, NEW D, NEW op \in BranchRR,
         NEW l \in RegisterOperands, NEW r \in RegisterOperands
  PROVE  InsertBranchAtInst(body, B, CondOf(op, D, l, r)) = {IfEnd(body, op, B, l, r)}
<1> DEFINE Cond == CondOf(op, D, l, r)
<1>1. /\ Cond # <<>> /\ Cond[1][2] = BranchCC(op) /\ DOMAIN Cond = 1 .. 4
      /\ Cond[3] = l /\ Cond[4] = r
  BY DEF CondOf
<1>2. l[1] = "reg" /\ r[1] = "reg"
  BY DEF RegisterOperands
<1> HIDE DEF Cond
<1>3. getReg(Cond, 3) = {l} /\ getReg(Cond, 4) = {r}
  BY <1>1, <1>2 DEF getReg
<1>4. InsertBranchAtInst(body, B, Cond) = {IfEnd(body, op, B, l, r)}
  <2>1. InsertedOpcode(Cond[1][2]) = op
    BY <1>1, OppositeFacts
  <2>2. InsertBranchAtInst(body, B, Cond)
          = {Append(body, BranchIf(InsertedOpcode(Cond[1][2]), B, x, y)) :
               x \in getReg(Cond, 3), y \in getReg(Cond, 4)}
    BY <1>1 DEF InsertBranchAtInst
  <2>3. {Append(body, BranchIf(op, B, x, y)) : x \in {l}, y \in {r}}
          = {Append(body, BranchIf(op, B, l, r))}
    OBVIOUS
  <2> QED
    BY <1>3, <2>1, <2>2, <2>3 DEF IfEnd
<1> QED
  BY <1>4 DEF Cond

(* The same alone at the end of the block.                                 *)
LEMMA InsertIf ==
  ASSUME NEW body, NEW B, NEW D, NEW op \in BranchRR,
         NEW l \in RegisterOperands, NEW r \in RegisterOperands
  PROVE  InsertBranch(body, B, NoBlock, CondOf(op, D, l, r)) = {IfEnd(body, op, B, l, r)}
  BY InsertAtEnd DEF InsertBranch

(* The same with a jump behind it.                                         *)
LEMMA InsertIfJump ==
  ASSUME NEW body, NEW B, NEW C \in Blocks, NEW D, NEW op \in BranchRR,
         NEW l \in RegisterOperands, NEW r \in RegisterOperands
  PROVE  InsertBranch(body, B, C, CondOf(op, D, l, r)) = {IfJumpEnd(body, op, B, C, l, r)}
<1>1. C # NoBlock
  BY BlocksAssumption
<1>2. InsertBranchAtInst(body, B, CondOf(op, D, l, r)) = {IfEnd(body, op, B, l, r)}
  BY InsertAtEnd
<1> QED
  BY <1>1, <1>2 DEF InsertBranch, IfJumpEnd

(* The reversed condition of a comparison is the condition of its          *)
(* opposite, with the same target recorded.                                *)
LEMMA ReverseOfCond ==
  ASSUME NEW op \in BranchRR, NEW B, NEW l, NEW r
  PROVE  ReverseBranchCondition(CondOf(op, B, l, r)) = CondOf(Opposite(op), B, l, r)
<1>1. ASSUME NEW x, NEW y, NEW b
      PROVE  [<<x, b, l, r>> EXCEPT ![1] = y] = <<y, b, l, r>>
  OBVIOUS
<1>2. CondOf(op, B, l, r)[1][2] = BranchCC(op)
  BY DEF CondOf
<1>3. BranchCC(Opposite(op)) = ReverseCC(BranchCC(op))
  BY OppositeFacts
<1> QED
  BY <1>1, <1>2, <1>3 DEF ReverseBranchCondition, CondOf

--------------------------------------------------------------------------------
(* Where a block goes.                                                     *)
LEMMA NoneTaken ==
  ASSUME NEW order, NEW s, NEW b, NEW val, \A j \in DOMAIN s : ~Taken(s[j], val)
  PROVE  Destination(order, s, b, val) = LayoutSucc(order, b)
<1>1. {j \in DOMAIN s : Taken(s[j], val)} = {}
  OBVIOUS
<1> QED
  BY <1>1 DEF Destination

(* Control leaves a block at the first branch that is taken.               *)
LEMMA FirstTaken ==
  ASSUME NEW order, NEW s \in Seq(Instructions), NEW b, NEW val, NEW k \in 1 .. Len(s),
         Taken(s[k], val), \A j \in 1 .. Len(s) : j < k => ~Taken(s[j], val)
  PROVE  Destination(order, s, b, val)
           = CASE s[k].op = "RET_N" -> "return"
               [] s[k].op = "JX"    -> "indirect"
               [] OTHER             -> Target(s[k])
<1> DEFINE taken == {j \in DOMAIN s : Taken(s[j], val)}
           first == CHOOSE j \in taken : \A h \in taken : j <= h
<1>1. Len(s) \in Nat /\ DOMAIN s = 1 .. Len(s)
  BY LenProperties
<1>2. k \in taken /\ \A j \in taken : k <= j /\ j \in Nat
  BY <1>1
<1> HIDE DEF taken
<1>3. first = k
  <2>1. k \in Nat /\ \A j \in taken : (\A h \in taken : j <= h) => j = k
    BY <1>1, <1>2
  <2>2. \A h \in taken : k <= h
    BY <1>2
  <2> QED
    BY <1>2, <2>1, <2>2
<1>4. taken # {}
  BY <1>2
<1> HIDE DEF first
<1>5. Destination(order, s, b, val)
        = CASE taken = {}                              -> LayoutSucc(order, b)
            [] taken # {} /\ s[first].op = "RET_N"     -> "return"
            [] taken # {} /\ s[first].op = "JX"        -> "indirect"
            [] OTHER                                   -> Target(s[first])
  BY DEF Destination, taken, first
<1> QED
  BY <1>3, <1>4, <1>5

(* Nothing above the branches is taken.                                    *)
LEMMA BodyNotTaken ==
  ASSUME NEW body \in Bodies, NEW j \in 1 .. Len(body), NEW val
  PROVE  ~Taken(body[j], val)
<1>1. j \in DOMAIN body
  BY LenProperties DEF Bodies
<1> QED
  BY <1>1 DEF Bodies, Straight, Taken

(* A jump is always taken.                                                 *)
LEMMA JumpTaken ==
  ASSUME NEW B, NEW val
  PROVE  Taken(BranchTo(B), val) /\ Target(BranchTo(B)) = B /\ BranchTo(B).op = "J"
  BY DEF Taken, BranchTo, Target

Compared(op, l, r, val) == AsmTaken(op, val[l[2]], val[r[2]])

(* A comparison is taken when it holds.                                    *)
LEMMA IfTaken ==
  ASSUME NEW op \in BranchRR, NEW B, NEW l \in RegisterOperands,
         NEW r \in RegisterOperands, NEW val
  PROVE  Taken(BranchIf(op, B, l, r), val) <=> Compared(op, l, r, val)
<1> DEFINE i == BranchIf(op, B, l, r)
<1>1. /\ i.op = op /\ op \in ConditionalBranches
      /\ op \notin {"J", "JX", "RET_N"} /\ i.ops = <<<<"mbb", B>>, l, r>>
  BY IfFacts
<1>2. i.ops[2] = l /\ i.ops[3] = r /\ Len(i.ops) = 3
  BY <1>1
<1>3. l[1] = "reg" /\ r[1] = "reg"
  BY DEF RegisterOperands
<1> HIDE DEF i
<1>4. Taken(i, val) <=> Compared(op, l, r, val)
  BY <1>1, <1>2, <1>3 DEF Taken, OperandValue, Compared
<1> QED
  BY <1>4 DEF i

(* Of two opposite comparisons one holds.                                  *)
LEMMA OppositeCompared ==
  ASSUME NEW op \in BranchRR, NEW l \in RegisterOperands, NEW r \in RegisterOperands,
         NEW val \in Valuations
  PROVE  Compared(Opposite(op), l, r, val) <=> ~Compared(op, l, r, val)
<1>1. val[l[2]] \in Words /\ val[r[2]] \in Words
  BY DEF Valuations, RegisterOperands
<1> QED
  BY <1>1, OppositeFacts DEF Compared
--------------------------------------------------------------------------------
(* A block that goes to B, and one that goes to B or else to C, when next  *)
(* is the block behind it.                                                 *)
JumpForm(s, next, body, B) ==
  \/ s = JumpEnd(body, B)
  \/ s = body /\ next = B

IfForm(s, next, body, op, B, C, l, r) ==
  \/ s = IfJumpEnd(body, op, B, C, l, r)
  \/ s = IfEnd(body, op, B, l, r) /\ next = C

(* Either way round.                                                       *)
EitherForm(s, next, body, op, B, C, l, r) ==
  \/ IfForm(s, next, body, op, B, C, l, r)
  \/ IfForm(s, next, body, Opposite(op), C, B, l, r)

(* A block in the form of a jump goes to its target.                       *)
LEMMA JumpDestination ==
  ASSUME NEW order, NEW s, NEW b, NEW val, NEW body \in Bodies, NEW B \in Blocks,
         JumpForm(s, LayoutSucc(order, b), body, B)
  PROVE  Destination(order, s, b, val) = B
<1>1. body \in Seq(Instructions) /\ Len(body) \in Nat /\ DOMAIN body = 1 .. Len(body)
  BY LenProperties DEF Bodies
<1>2. CASE s = body /\ LayoutSucc(order, b) = B
  BY <1>1, <1>2, BodyNotTaken, NoneTaken
<1>3. CASE s = JumpEnd(body, B)
  <2>1. /\ s \in Seq(Instructions) /\ Len(s) = Len(body) + 1
        /\ \A j \in 1 .. Len(body) : s[j] = body[j]
        /\ s[Len(body) + 1] = BranchTo(B)
    <3>1. BranchTo(B) \in Instructions
      BY InstructionsBuilt
    <3> QED
      BY <1>1, <1>3, <3>1, AppendFacts DEF JumpEnd
  <2> DEFINE k == Len(body) + 1
  <2>2. k \in 1 .. Len(s) /\ \A j \in 1 .. Len(s) : j < k => j \in 1 .. Len(body)
    BY <1>1, <2>1
  <2>3. \A j \in 1 .. Len(s) : j < k => ~Taken(s[j], val)
    BY <2>1, <2>2, BodyNotTaken
  <2>4. Taken(s[k], val) /\ Target(s[k]) = B /\ s[k].op = "J"
    BY <2>1, JumpTaken
  <2> HIDE DEF k
  <2> QED
    BY <2>1, <2>2, <2>3, <2>4, FirstTaken
<1> QED
  BY <1>2, <1>3 DEF JumpForm

(* A block in the form of a comparison goes one of two ways.               *)
LEMMA IfDestination ==
  ASSUME NEW order, NEW s, NEW b, NEW val, NEW body \in Bodies, NEW op \in BranchRR,
         NEW B \in Blocks, NEW C \in Blocks,
         NEW l \in RegisterOperands, NEW r \in RegisterOperands,
         IfForm(s, LayoutSucc(order, b), body, op, B, C, l, r)
  PROVE  Destination(order, s, b, val) = IF Compared(op, l, r, val) THEN B ELSE C
<1> DEFINE i == BranchIf(op, B, l, r)
           k == Len(body) + 1
<1>1. body \in Seq(Instructions) /\ Len(body) \in Nat
  BY EndFacts
<1>2. Target(i) = B /\ i.op \notin {"RET_N", "JX"}
  BY IfFacts
<1>3. Taken(i, val) <=> Compared(op, l, r, val)
  BY IfTaken
<1>4. /\ s \in Seq(Instructions) /\ Len(s) \in Nat /\ k \in 1 .. Len(s) /\ s[k] = i
      /\ \A j \in 1 .. Len(body) : s[j] = body[j]
  <2>1. CASE s = IfEnd(body, op, B, l, r)
    <3>1. /\ s \in Seq(Instructions) /\ Len(s) = Len(body) + 1
          /\ \A j \in 1 .. Len(body) : s[j] = body[j]
          /\ s[Len(body) + 1] = i
      BY <2>1, EndFacts
    <3> QED
      BY <1>1, <3>1
  <2>2. CASE s = IfJumpEnd(body, op, B, C, l, r)
    <3>1. /\ s \in Seq(Instructions) /\ Len(s) = Len(body) + 2
          /\ \A j \in 1 .. Len(body) : s[j] = body[j]
          /\ s[Len(body) + 1] = i
      BY <2>2, EndFacts
    <3> QED
      BY <1>1, <3>1
  <2> QED
    BY <2>1, <2>2 DEF IfForm
<1>5. \A j \in 1 .. Len(s) : j < k => ~Taken(s[j], val)
  <2>1. \A j \in 1 .. Len(s) : j < k => j \in 1 .. Len(body)
    BY <1>1, <1>4
  <2> QED
    BY <1>4, <2>1, BodyNotTaken
<1> HIDE DEF i
<1>6. CASE Compared(op, l, r, val)
  <2>1. Taken(s[k], val)
    BY <1>3, <1>4, <1>6
  <2> HIDE DEF k
  <2> QED
    BY <1>2, <1>4, <1>5, <1>6, <2>1, FirstTaken
<1>7. CASE ~Compared(op, l, r, val)
  <2>1. CASE s = IfEnd(body, op, B, l, r) /\ LayoutSucc(order, b) = C
    <3>1. Len(s) = Len(body) + 1
      BY <2>1, EndFacts
    <3>2. \A j \in 1 .. Len(s) : j < k \/ j = k
      BY <1>1, <3>1
    <3>3. \A j \in DOMAIN s : ~Taken(s[j], val)
      BY <1>3, <1>4, <1>5, <1>7, <3>2, LenProperties
    <3> QED
      BY <1>7, <2>1, <3>3, NoneTaken
  <2>2. CASE s = IfJumpEnd(body, op, B, C, l, r)
    <3> DEFINE h == Len(body) + 2
    <3>1. Len(s) = h /\ s[h] = BranchTo(C)
      BY <2>2, EndFacts
    <3>2. h \in 1 .. Len(s) /\ \A j \in 1 .. Len(s) : j < h => j < k \/ j = k
      BY <1>1, <3>1
    <3>3. \A j \in 1 .. Len(s) : j < h => ~Taken(s[j], val)
      BY <1>3, <1>4, <1>5, <1>7, <3>2
    <3>4. Taken(s[h], val) /\ Target(s[h]) = C /\ s[h].op = "J"
      BY <3>1, JumpTaken
    <3> HIDE DEF h
    <3> QED
      BY <1>4, <1>7, <3>2, <3>3, <3>4, FirstTaken
  <2> QED
    BY <2>1, <2>2 DEF IfForm
<1> QED
  BY <1>6, <1>7

(* Whichever way round it is, to the same block on the same values.        *)
LEMMA EitherDestination ==
  ASSUME NEW order, NEW s, NEW b, NEW val \in Valuations, NEW body \in Bodies,
         NEW op \in BranchRR, NEW B \in Blocks, NEW C \in Blocks,
         NEW l \in RegisterOperands, NEW r \in RegisterOperands,
         EitherForm(s, LayoutSucc(order, b), body, op, B, C, l, r)
  PROVE  Destination(order, s, b, val) = IF Compared(op, l, r, val) THEN B ELSE C
<1>1. CASE IfForm(s, LayoutSucc(order, b), body, op, B, C, l, r)
  BY <1>1, IfDestination
<1>2. CASE IfForm(s, LayoutSucc(order, b), body, Opposite(op), C, B, l, r)
  <2>1. Opposite(op) \in BranchRR
    BY OppositeFacts
  <2>2. Destination(order, s, b, val) = IF Compared(Opposite(op), l, r, val) THEN C ELSE B
    BY <1>2, <2>1, IfDestination
  <2> QED
    BY <2>2, OppositeCompared
<1> QED
  BY <1>1, <1>2 DEF EitherForm

(* A block that returns or jumps through a register.                       *)
LeaveEnd(s) ==
  /\ s \in Seq(Instructions) /\ s # <<>>
  /\ Leaves(s[Len(s)])
  /\ \A j \in 1 .. Len(s) :
       j < Len(s) => s[j].op \notin ConditionalBranches \cup {"J", "JX", "RET_N"}

(* A block that leaves the function does so in every layout.               *)
LEMMA LeaveDestination ==
  ASSUME NEW order, NEW old, NEW s, NEW b, NEW val, LeaveEnd(s)
  PROVE  Destination(order, s, b, val) = Destination(old, s, b, val)
<1>1. s \in Seq(Instructions) /\ Len(s) \in Nat \ {0} /\ Len(s) \in 1 .. Len(s)
  BY EmptySeq DEF LeaveEnd
<1>2. Taken(s[Len(s)], val)
  BY DEF LeaveEnd, Leaves, Taken
<1>3. \A j \in 1 .. Len(s) : j < Len(s) => ~Taken(s[j], val)
  BY DEF LeaveEnd, Taken
<1> DEFINE there == CASE s[Len(s)].op = "RET_N" -> "return"
                      [] s[Len(s)].op = "JX"    -> "indirect"
                      [] OTHER                  -> Target(s[Len(s)])
<1>4. \A o : Destination(o, s, b, val) = there
  BY <1>1, <1>2, <1>3, FirstTaken
<1> HIDE DEF there
<1> QED
  BY <1>4
--------------------------------------------------------------------------------
(* The successors of the blocks of the selected program.                   *)
LEMMA BodyBranches ==
  ASSUME NEW body \in Bodies, NEW j \in 1 .. Len(body)
  PROVE  ~isBranch(body[j])
<1>1. j \in DOMAIN body
  BY LenProperties DEF Bodies
<1> QED
  BY <1>1 DEF Bodies, Straight, isBranch

(* A block without branches falls through to the next.                     *)
LEMMA BodyFallsThrough ==
  ASSUME NEW body \in Bodies
  PROVE  FallsThrough(body)
<1>1. CASE body = <<>>
  BY <1>1 DEF FallsThrough
<1>2. CASE body # <<>>
  <2>1. Len(body) \in DOMAIN body
    BY <1>2, EmptySeq, LenProperties DEF Bodies
  <2> QED
    BY <2>1 DEF FallsThrough, Last, Bodies, Straight
<1> QED
  BY <1>1, <1>2

(* The successor of a block that goes to one block.                        *)
LEMMA JumpSuccessors ==
  ASSUME NEW b, NEW body \in Bodies, NEW B \in Blocks,
         JumpForm(prog.code[b], LayoutSucc(prog.layout, b), body, B)
  PROVE  Successors(b) = {B}
<1> DEFINE s == prog.code[b]
           targets == {Target(s[j]) : j \in {k \in DOMAIN s : isBranch(s[k]) /\ isMBB(s[k])}}
<1>0. body \in Seq(Instructions) /\ Len(body) \in Nat /\ DOMAIN body = 1 .. Len(body)
  BY LenProperties DEF Bodies
<1>1. Successors(b) = targets \cup (IF FallsThrough(s) THEN {LayoutSucc(prog.layout, b)} ELSE {})
  BY DEF Successors
<1>2. CASE s = body /\ LayoutSucc(prog.layout, b) = B
  <2>1. targets = {}
    BY <1>0, <1>2, BodyBranches
  <2>2. FallsThrough(s)
    BY <1>2, BodyFallsThrough
  <2> QED
    BY <1>1, <1>2, <2>1, <2>2
<1>3. CASE s = JumpEnd(body, B)
  <2>1. /\ s \in Seq(Instructions) /\ Len(s) = Len(body) + 1
        /\ \A j \in 1 .. Len(body) : s[j] = body[j]
        /\ s[Len(body) + 1] = BranchTo(B)
    <3>1. BranchTo(B) \in Instructions
      BY InstructionsBuilt
    <3> QED
      BY <1>0, <1>3, <3>1, AppendFacts DEF JumpEnd
  <2>2. /\ isBranch(BranchTo(B)) /\ isMBB(BranchTo(B)) /\ Target(BranchTo(B)) = B
        /\ BranchTo(B).op = "J"
    BY DEF isBranch, isMBB, BranchTo, Target
  <2>3. DOMAIN s = 1 .. Len(body) + 1
    BY <2>1, LenProperties
  <2> HIDE DEF s
  <2>4. {k \in DOMAIN s : isBranch(s[k]) /\ isMBB(s[k])} = {Len(body) + 1}
    <3>1. ASSUME NEW k \in DOMAIN s, isBranch(s[k])
          PROVE  k = Len(body) + 1
      <4>1. k \in 1 .. Len(body) \/ k = Len(body) + 1
        BY <1>0, <2>3
      <4> QED
        BY <2>1, <3>1, <4>1, BodyBranches
    <3>2. Len(body) + 1 \in DOMAIN s
      BY <1>0, <2>3
    <3> QED
      BY <2>1, <2>2, <3>1, <3>2
  <2>5. targets = {B}
    BY <2>1, <2>2, <2>4
  <2>6. ~FallsThrough(s)
    <3>1. s # <<>> /\ Last(s) = s[Len(body) + 1]
      BY <1>0, <2>1, EmptySeq DEF Last
    <3> QED
      BY <2>1, <2>2, <3>1 DEF FallsThrough
  <2> HIDE DEF targets
  <2> QED
    BY <1>1, <2>5, <2>6
<1> QED
  BY <1>2, <1>3 DEF JumpForm

(* The successors of a block that goes one of two ways.                    *)
LEMMA IfSuccessors ==
  ASSUME NEW b, NEW body \in Bodies, NEW op \in BranchRR, NEW B \in Blocks, NEW C \in Blocks,
         NEW l \in RegisterOperands, NEW r \in RegisterOperands,
         IfForm(prog.code[b], LayoutSucc(prog.layout, b), body, op, B, C, l, r)
  PROVE  Successors(b) = {B, C}
<1> DEFINE s == prog.code[b]
           i == BranchIf(op, B, l, r)
           branches == {k \in DOMAIN s : isBranch(s[k]) /\ isMBB(s[k])}
           targets == {Target(s[j]) : j \in branches}
<1>0. body \in Seq(Instructions) /\ Len(body) \in Nat
  BY EndFacts
<1>1. Successors(b) = targets \cup (IF FallsThrough(s) THEN {LayoutSucc(prog.layout, b)} ELSE {})
  BY DEF Successors
<1>2. isBranch(i) /\ isMBB(i) /\ Target(i) = B /\ i.op \notin {"J", "JX", "RET_N"}
  BY IfFacts
<1>3. CASE s = IfEnd(body, op, B, l, r) /\ LayoutSucc(prog.layout, b) = C
  <2>1. /\ s \in Seq(Instructions) /\ Len(s) = Len(body) + 1
        /\ \A j \in 1 .. Len(body) : s[j] = body[j]
        /\ s[Len(body) + 1] = i
    BY <1>3, EndFacts
  <2>3. DOMAIN s = 1 .. Len(body) + 1
    BY <2>1, LenProperties
  <2> HIDE DEF s, i
  <2>4. branches = {Len(body) + 1}
    <3>1. ASSUME NEW k \in DOMAIN s, isBranch(s[k])
          PROVE  k = Len(body) + 1
      <4>1. k \in 1 .. Len(body) \/ k = Len(body) + 1
        BY <1>0, <2>3
      <4> QED
        BY <2>1, <3>1, <4>1, BodyBranches
    <3>2. Len(body) + 1 \in DOMAIN s
      BY <1>0, <2>3
    <3> QED
      BY <1>2, <2>1, <3>1, <3>2
  <2> HIDE DEF branches
  <2>5. targets = {B}
    BY <1>2, <2>1, <2>4
  <2>6. FallsThrough(s)
    <3>1. Last(s) = s[Len(body) + 1]
      BY <2>1 DEF Last
    <3> QED
      BY <1>2, <2>1, <3>1 DEF FallsThrough
  <2>7. LayoutSucc(prog.layout, b) = C
    BY <1>3
  <2> HIDE DEF targets
  <2> QED
    BY <1>1, <2>5, <2>6, <2>7
<1>4. CASE s = IfJumpEnd(body, op, B, C, l, r)
  <2>1. /\ s \in Seq(Instructions) /\ Len(s) = Len(body) + 2
        /\ \A j \in 1 .. Len(body) : s[j] = body[j]
        /\ s[Len(body) + 1] = i /\ s[Len(body) + 2] = BranchTo(C)
    BY <1>4, EndFacts
  <2>2. /\ isBranch(BranchTo(C)) /\ isMBB(BranchTo(C)) /\ Target(BranchTo(C)) = C
        /\ BranchTo(C).op = "J"
    BY DEF isBranch, isMBB, BranchTo, Target
  <2>3. DOMAIN s = 1 .. Len(body) + 2
    BY <2>1, LenProperties
  <2> HIDE DEF s, i
  <2>4. branches = {Len(body) + 1, Len(body) + 2}
    <3>1. ASSUME NEW k \in DOMAIN s, isBranch(s[k])
          PROVE  k \in {Len(body) + 1, Len(body) + 2}
      <4>1. k \in 1 .. Len(body) \/ k \in {Len(body) + 1, Len(body) + 2}
        BY <1>0, <2>3
      <4> QED
        BY <2>1, <3>1, <4>1, BodyBranches
    <3>2. Len(body) + 1 \in DOMAIN s /\ Len(body) + 2 \in DOMAIN s
      BY <1>0, <2>3
    <3> QED
      BY <1>2, <2>1, <2>2, <3>1, <3>2
  <2> HIDE DEF branches
  <2>5. targets = {B, C}
    BY <1>2, <2>1, <2>2, <2>4
  <2>6. ~FallsThrough(s)
    <3>1. s # <<>> /\ Last(s) = s[Len(body) + 2]
      BY <1>0, <2>1, EmptySeq DEF Last
    <3> QED
      BY <2>1, <2>2, <3>1 DEF FallsThrough
  <2> HIDE DEF targets
  <2> QED
    BY <1>1, <2>5, <2>6
<1> QED
  BY <1>3, <1>4 DEF IfForm
--------------------------------------------------------------------------------
(* What the analysis reads from a block of either form.                    *)
LEMMA ReadsFields ==
  ASSUME NEW A, NEW TBB, NEW FBB, NEW Cond, NEW len, Reads(A, TBB, FBB, Cond, len)
  PROVE  /\ A.state \notin {"cannot", "failed"} /\ Analyzed(A)
         /\ A.TBB = TBB /\ A.FBB = FBB /\ A.Cond = Cond /\ A.len = len
  BY DEF Reads, Known, Analyzed

ReadsAsJump(A, s, next, body, B) ==
  /\ A.state \notin {"cannot", "failed"} /\ Analyzed(A)
  /\ A.FBB = NoBlock /\ A.Cond = <<>> /\ A.len = Len(s)
  /\ \/ s = JumpEnd(body, B) /\ A.TBB = B
     \/ s = body /\ next = B /\ A.TBB = NoBlock

ReadsAsIf(A, s, next, body, op, B, C, l, r) ==
  /\ A.state \notin {"cannot", "failed"} /\ Analyzed(A)
  /\ A.TBB = B /\ A.Cond = CondOf(op, B, l, r) /\ A.len = Len(s)
  /\ \/ s = IfJumpEnd(body, op, B, C, l, r) /\ A.FBB = C
     \/ s = IfEnd(body, op, B, l, r) /\ next = C /\ A.FBB = NoBlock

(* What the analysis reads from a block in the form of a jump.             *)
LEMMA AnalyzeJumpForm ==
  ASSUME NEW body \in Bodies, NEW B \in Blocks, NEW s, NEW next,
         JumpForm(s, next, body, B)
  PROVE  \A M \in BOOLEAN : ReadsAsJump(AnalyzeBranch(s, M), s, next, body, B)
<1> SUFFICES ASSUME NEW M \in BOOLEAN
             PROVE  ReadsAsJump(AnalyzeBranch(s, M), s, next, body, B)
  OBVIOUS
<1>1. CASE s = body /\ next = B
  <2>1. Reads(AnalyzeBranch(s, M), NoBlock, NoBlock, <<>>, Len(s))
    BY <1>1, ReadsBody
  <2> QED
    BY <1>1, <2>1, ReadsFields DEF ReadsAsJump
<1>2. CASE s = JumpEnd(body, B)
  <2>1. BranchTo(B) \in Instructions
    BY InstructionsBuilt
  <2>2. Reads(AnalyzeBranch(s, M), B, NoBlock, <<>>, Len(s))
    BY <1>2, <2>1, ReadsJump DEF JumpEnd
  <2> QED
    BY <1>2, <2>2, ReadsFields DEF ReadsAsJump
<1> QED
  BY <1>1, <1>2 DEF JumpForm

(* What it reads from a block in the form of a comparison.                 *)
LEMMA AnalyzeIfForm ==
  ASSUME NEW body \in Bodies, NEW op \in BranchRR, NEW B \in Blocks,
         NEW C \in Blocks, NEW l \in RegisterOperands, NEW r \in RegisterOperands,
         NEW s, NEW next, IfForm(s, next, body, op, B, C, l, r)
  PROVE  \A M \in BOOLEAN : ReadsAsIf(AnalyzeBranch(s, M), s, next, body, op, B, C, l, r)
<1> SUFFICES ASSUME NEW M \in BOOLEAN
             PROVE  ReadsAsIf(AnalyzeBranch(s, M), s, next, body, op, B, C, l, r)
  OBVIOUS
<1>0. BranchTo(C) \in Instructions /\ BranchIf(op, B, l, r) \in Instructions
  BY InstructionsBuilt
<1>1. CASE s = IfEnd(body, op, B, l, r) /\ next = C
  <2>1. Reads(AnalyzeBranch(s, M), B, NoBlock, CondOf(op, B, l, r), Len(s))
    BY <1>0, <1>1, ReadsIf DEF IfEnd
  <2> QED
    BY <1>1, <2>1, ReadsFields DEF ReadsAsIf
<1>2. CASE s = IfJumpEnd(body, op, B, C, l, r)
  <2>1. Reads(AnalyzeBranch(s, M), B, C, CondOf(op, B, l, r), Len(s))
    BY <1>0, <1>2, ReadsIfJump DEF IfJumpEnd, IfEnd
  <2> QED
    BY <1>2, <2>1, ReadsFields DEF ReadsAsIf
<1> QED
  BY <1>1, <1>2 DEF IfForm

(* Brought up to date, a block takes the form its place asks for.          *)
LEMMA UpdateJump ==
  ASSUME NEW b, NEW body \in Bodies, NEW B \in Blocks, NEW any,
         JumpForm(prog.code[b], LayoutSucc(prog.layout, b), body, B),
         JumpForm(code[b], any, body, B),
         NEW t \in UpdatedTerminators(b, AnalyzeBranch(code[b], FALSE))
  PROVE  JumpForm(t, LayoutSucc(layout, b), body, B)
<1> DEFINE A    == AnalyzeBranch(code[b], FALSE)
           s    == code[b]
           next == LayoutSucc(layout, b)
           fallthrough == CHOOSE D \in Successors(b) \ {A.TBB} : TRUE
<1>1. /\ A.Cond = <<>>
      /\ \/ s = JumpEnd(body, B) /\ A.TBB = B
         \/ s = body /\ A.TBB = NoBlock
  <2>1. ReadsAsJump(A, s, any, body, B)
    BY AnalyzeJumpForm
  <2> HIDE DEF A, s
  <2> QED
    BY <2>1 DEF ReadsAsJump
<1>2. Successors(b) = {B} /\ B # NoBlock
  BY JumpSuccessors, BlocksAssumption
<1>3. RemoveBranch(s) = body
  BY RemoveJump, <1>1
<1>4. A.TBB = NoBlock => fallthrough = B
  BY <1>2
<1>5. t \in CASE Successors(b) = {} -> {s}
             [] Successors(b) # {} /\ A.Cond = <<>> /\ A.TBB # NoBlock ->
                  IF A.TBB # NoBlock /\ A.TBB = next THEN {RemoveBranch(s)} ELSE {s}
             [] Successors(b) # {} /\ A.Cond = <<>> /\ A.TBB = NoBlock ->
                  IF fallthrough # NoBlock /\ fallthrough = next THEN {s}
                  ELSE InsertBranch(s, fallthrough, NoBlock, <<>>)
             [] OTHER -> {}
  <2> HIDE DEF A
  <2>1. A.Cond = <<>>
    BY <1>1
  <2>2. t \in UpdatedTerminators(b, A)
    BY DEF A
  <2> QED
    BY <1>2, <2>1, <2>2 DEF UpdatedTerminators
<1> HIDE DEF A, next, fallthrough, s
<1>6. CASE s = JumpEnd(body, B) /\ A.TBB = B
  <2>1. t \in IF B = next THEN {body} ELSE {s}
    BY <1>1, <1>2, <1>3, <1>5, <1>6
  <2> QED
    BY <1>6, <2>1 DEF JumpForm, next
<1>7. CASE s = body /\ A.TBB = NoBlock
  <2>1. t \in IF B = next THEN {s} ELSE InsertBranch(s, B, NoBlock, <<>>)
    BY <1>1, <1>2, <1>4, <1>5, <1>7
  <2>2. InsertBranch(s, B, NoBlock, <<>>) = {JumpEnd(body, B)}
    BY <1>7 DEF InsertBranch, InsertBranchAtInst, JumpEnd
  <2> QED
    BY <1>7, <2>1, <2>2 DEF JumpForm, next
<1> QED
  BY <1>1, <1>6, <1>7

(* Removing the branches of a comparison and inserting its condition, or   *)
(* the reversed one.                                                       *)
Rewritings(s, body, op, B, C, l, r) ==
  LET Cond     == CondOf(op, B, l, r)
      reversed == ReverseBranchCondition(Cond)
  IN  /\ Rewritten(s, B, NoBlock, Cond) = {IfEnd(body, op, B, l, r)}
      /\ Rewritten(s, B, C, Cond) = {IfJumpEnd(body, op, B, C, l, r)}
      /\ Rewritten(s, C, NoBlock, reversed) = {IfEnd(body, Opposite(op), C, l, r)}
      /\ Rewritten(s, C, B, reversed) = {IfJumpEnd(body, Opposite(op), C, B, l, r)}

(* What the four rewritings of a comparison leave.                         *)
LEMMA RewriteIf ==
  ASSUME NEW body \in Bodies, NEW op \in BranchRR, NEW B \in Blocks, NEW C \in Blocks,
         NEW l \in RegisterOperands, NEW r \in RegisterOperands, NEW s, NEW any,
         IfForm(s, any, body, op, B, C, l, r)
  PROVE  Rewritings(s, body, op, B, C, l, r)
<1>1. RemoveBranch(s) = body
  BY RemoveIf DEF IfForm
<1>2. Opposite(op) \in BranchRR
  BY OppositeFacts
<1>3. ReverseBranchCondition(CondOf(op, B, l, r)) = CondOf(Opposite(op), B, l, r)
  BY ReverseOfCond
<1>4. InsertBranch(body, B, NoBlock, CondOf(op, B, l, r)) = {IfEnd(body, op, B, l, r)}
  BY InsertIf
<1>5. InsertBranch(body, B, C, CondOf(op, B, l, r)) = {IfJumpEnd(body, op, B, C, l, r)}
  BY InsertIfJump
<1>6. InsertBranch(body, C, NoBlock, CondOf(Opposite(op), B, l, r))
        = {IfEnd(body, Opposite(op), C, l, r)}
  BY <1>2, InsertIf
<1>7. InsertBranch(body, C, B, CondOf(Opposite(op), B, l, r))
        = {IfJumpEnd(body, Opposite(op), C, B, l, r)}
  BY <1>2, InsertIfJump
<1> QED
  BY <1>1, <1>3, <1>4, <1>5, <1>6, <1>7 DEF Rewritings, Rewritten

(* The same of a comparison, which may be turned round.                    *)
LEMMA UpdateIf ==
  ASSUME NEW b, NEW body \in Bodies, NEW op \in BranchRR,
         NEW B \in Blocks, NEW C \in Blocks, B # C, Successors(b) = {B, C},
         NEW l \in RegisterOperands, NEW r \in RegisterOperands, NEW any,
         IfForm(code[b], any, body, op, B, C, l, r),
         NEW t \in UpdatedTerminators(b, AnalyzeBranch(code[b], FALSE))
  PROVE  LET next == LayoutSucc(layout, b)
         IN  \/ IfForm(t, next, body, op, B, C, l, r)
             \/ IfForm(t, next, body, Opposite(op), C, B, l, r)
<1> DEFINE A    == AnalyzeBranch(code[b], FALSE)
           s    == code[b]
           next == LayoutSucc(layout, b)
           Cond == CondOf(op, B, l, r)
           reversed == ReverseBranchCondition(A.Cond)
           fallthrough == CHOOSE D \in Successors(b) \ {A.TBB} : TRUE
<1>1. /\ A.TBB = B /\ A.Cond = Cond
      /\ \/ s = IfJumpEnd(body, op, B, C, l, r) /\ A.FBB = C
         \/ s = IfEnd(body, op, B, l, r) /\ A.FBB = NoBlock
  <2>1. ReadsAsIf(A, s, any, body, op, B, C, l, r)
    BY AnalyzeIfForm
  <2> HIDE DEF A, s
  <2> QED
    BY <2>1 DEF ReadsAsIf
<1>2. B # NoBlock /\ C # NoBlock /\ Cond # <<>>
  BY BlocksAssumption DEF CondOf
<1>3. fallthrough = C
  BY <1>1
<1>4. /\ Rewritten(s, B, NoBlock, Cond) = {IfEnd(body, op, B, l, r)}
      /\ Rewritten(s, B, C, Cond) = {IfJumpEnd(body, op, B, C, l, r)}
      /\ Rewritten(s, C, NoBlock, ReverseBranchCondition(Cond))
           = {IfEnd(body, Opposite(op), C, l, r)}
  <2>1. Rewritings(s, body, op, B, C, l, r)
    BY RewriteIf
  <2> HIDE DEF s
  <2> QED
    BY <2>1 DEF Rewritings
<1> HIDE DEF Cond
<1>5. t \in CASE A.FBB # NoBlock ->
                  IF A.TBB # NoBlock /\ A.TBB = next
                  THEN Rewritten(s, A.FBB, NoBlock, reversed)
                  ELSE IF A.FBB # NoBlock /\ A.FBB = next
                       THEN Rewritten(s, A.TBB, NoBlock, A.Cond) ELSE {s}
             [] A.FBB = NoBlock ->
                  IF A.TBB # NoBlock /\ A.TBB = next
                  THEN Rewritten(s, fallthrough, NoBlock, reversed)
                  ELSE IF fallthrough # NoBlock /\ fallthrough = next THEN {s}
                       ELSE Rewritten(s, A.TBB, fallthrough, A.Cond)
  <2> HIDE DEF A
  <2>1. A.Cond # <<>> /\ Successors(b) # {}
    BY <1>1, <1>2
  <2>2. t \in UpdatedTerminators(b, A)
    BY DEF A
  <2> QED
    BY <2>1, <2>2 DEF UpdatedTerminators
<1> HIDE DEF A, next, fallthrough, s
<1>6. CASE s = IfJumpEnd(body, op, B, C, l, r) /\ A.FBB = C
  <2>1. t \in IF B = next THEN {IfEnd(body, Opposite(op), C, l, r)}
              ELSE IF C = next THEN {IfEnd(body, op, B, l, r)} ELSE {s}
    BY <1>1, <1>2, <1>4, <1>5, <1>6
  <2> QED
    BY <1>6, <2>1 DEF IfForm, next
<1>7. CASE s = IfEnd(body, op, B, l, r) /\ A.FBB = NoBlock
  <2>1. t \in IF B = next THEN {IfEnd(body, Opposite(op), C, l, r)}
              ELSE IF C = next THEN {s} ELSE {IfJumpEnd(body, op, B, C, l, r)}
    BY <1>1, <1>2, <1>3, <1>4, <1>5, <1>7
  <2> QED
    BY <1>7, <2>1 DEF IfForm, next
<1> QED
  BY <1>1, <1>6, <1>7

(* Reordering turns a comparison round.                                    *)
LEMMA ReorderIf ==
  ASSUME NEW b, NEW body \in Bodies, NEW op \in BranchRR, NEW B \in Blocks, NEW C \in Blocks,
         NEW l \in RegisterOperands, NEW r \in RegisterOperands, NEW any, NEW next,
         IfForm(code[b], any, body, op, B, C, l, r),
         AnalyzeBranch(code[b], FALSE).FBB # NoBlock,
         NEW t,
         LET A == AnalyzeBranch(code[b], FALSE)
         IN  t \in Rewritten(code[b], A.FBB, A.TBB, ReverseBranchCondition(A.Cond))
  PROVE  IfForm(t, next, body, Opposite(op), C, B, l, r)
<1> DEFINE A == AnalyzeBranch(code[b], FALSE)
           s == code[b]
           Cond == CondOf(op, B, l, r)
<1>1. A.TBB = B /\ A.Cond = Cond /\ A.FBB = C
  <2>1. ReadsAsIf(A, s, any, body, op, B, C, l, r)
    BY AnalyzeIfForm
  <2>2. A.FBB # NoBlock
    OBVIOUS
  <2> HIDE DEF A, s
  <2> QED
    BY <2>1, <2>2 DEF ReadsAsIf
<1>2. Rewritten(s, C, B, ReverseBranchCondition(Cond))
        = {IfJumpEnd(body, Opposite(op), C, B, l, r)}
  <2>1. Rewritings(s, body, op, B, C, l, r)
    BY RewriteIf
  <2> HIDE DEF s
  <2> QED
    BY <2>1 DEF Rewritings
<1>3. t \in Rewritten(s, A.FBB, A.TBB, ReverseBranchCondition(A.Cond))
  OBVIOUS
<1> HIDE DEF A, s, Cond
<1> QED
  BY <1>1, <1>2, <1>3 DEF IfForm

(* Folding keeps a settled block's form.                                   *)
LEMMA FoldJump ==
  ASSUME NEW body \in Bodies, NEW B \in Blocks, NEW s, NEW next,
         JumpForm(s, next, body, B),
         NEW t \in Folded(s, next, AnalyzeBranch(s, TRUE))
  PROVE  JumpForm(t, next, body, B)
<1> DEFINE A == AnalyzeBranch(s, TRUE)
<1>1. ReadsAsJump(A, s, next, body, B)
  BY AnalyzeJumpForm
<1>2. RemoveBranch(s) = body
  BY RemoveJump DEF JumpForm
<1>3. t \in Folded(s, next, A)
  OBVIOUS
<1> HIDE DEF A
<1>4. A.Cond = <<>> /\ A.TBB \in {B, NoBlock} /\ Analyzed(A)
  BY <1>1 DEF ReadsAsJump
<1>5. t \in IF A.TBB = next /\ A.FBB = NoBlock /\ next # NoBlock THEN {body} ELSE {s}
  BY <1>2, <1>3, <1>4 DEF Folded
<1>6. t = s \/ (t = body /\ next = B)
  BY <1>4, <1>5
<1> QED
  BY <1>6 DEF JumpForm

(* A comparison that is folded may be turned round.                        *)
LEMMA FoldIf ==
  ASSUME NEW body \in Bodies, NEW op \in BranchRR, NEW B \in Blocks, NEW C \in Blocks,
         B # C, NEW l \in RegisterOperands, NEW r \in RegisterOperands, NEW s, NEW next,
         IfForm(s, next, body, op, B, C, l, r),
         NEW t \in Folded(s, next, AnalyzeBranch(s, TRUE))
  PROVE  \/ IfForm(t, next, body, op, B, C, l, r)
         \/ IfForm(t, next, body, Opposite(op), C, B, l, r)
<1> DEFINE A == AnalyzeBranch(s, TRUE)
<1>1. ReadsAsIf(A, s, next, body, op, B, C, l, r)
  BY AnalyzeIfForm
<1>2. Rewritings(s, body, op, B, C, l, r)
  BY RewriteIf
<1>3. t \in Folded(s, next, A)
  OBVIOUS
<1>4. B # NoBlock /\ C # NoBlock
  BY BlocksAssumption
<1> HIDE DEF A
<1>5. /\ Rewritten(s, A.TBB, NoBlock, A.Cond) = {IfEnd(body, op, B, l, r)}
      /\ Rewritten(s, C, NoBlock, ReverseBranchCondition(A.Cond))
           = {IfEnd(body, Opposite(op), C, l, r)}
  BY <1>1, <1>2 DEF ReadsAsIf, Rewritings
<1>6. A.TBB = B
  BY <1>1 DEF ReadsAsIf
<1>7. CASE s = IfJumpEnd(body, op, B, C, l, r) /\ A.FBB = C
  <2>1. \/ t = s
        \/ C = next /\ t = IfEnd(body, op, B, l, r)
        \/ B = next /\ t = IfEnd(body, Opposite(op), C, l, r)
    BY <1>3, <1>4, <1>5, <1>6, <1>7 DEF Folded
  <2> QED
    BY <1>7, <2>1 DEF IfForm
<1>8. CASE s = IfEnd(body, op, B, l, r) /\ next = C /\ A.FBB = NoBlock
  <2>1. t = s
    BY <1>3, <1>4, <1>5, <1>6, <1>8 DEF Folded
  <2> QED
    BY <1>8, <2>1 DEF IfForm
<1> QED
  BY <1>1, <1>7, <1>8 DEF ReadsAsIf
--------------------------------------------------------------------------------
(* A sequence and its last element.                                        *)
LEMMA LastApart ==
  ASSUME NEW S, NEW s \in Seq(S), NEW k \in Nat, Len(s) = k + 1
  PROVE  s = Append(SubSeq(s, 1, k), s[k + 1]) /\ SubSeq(s, 1, k) \in Seq(S)
<1>1. \A j \in 1 .. k + 1 : s[j] \in S
  BY ElementOfSeq
<1>2. /\ SubSeq(s, 1, k) \in Seq(S) /\ Len(SubSeq(s, 1, k)) = k
      /\ \A j \in 1 .. k : SubSeq(s, 1, k)[j] = s[j]
  <2>1. \A j \in 1 .. k : s[j] \in S
    BY <1>1
  <2>2. 1 \in Int /\ k \in Int /\ k - 1 + 1 = k /\ (\A j \in 1 .. k : 1 + j - 1 = j)
        /\ (~(1 <= k) => k = 0)
    OBVIOUS
  <2>3. /\ SubSeq(s, 1, k) \in Seq(S)
        /\ Len(SubSeq(s, 1, k)) = IF 1 <= k THEN k - 1 + 1 ELSE 0
        /\ \A j \in 1 .. k - 1 + 1 : SubSeq(s, 1, k)[j] = s[1 + j - 1]
    BY <2>1, <2>2, SubSeqProperties
  <2> QED
    BY <2>2, <2>3
<1> DEFINE u == SubSeq(s, 1, k)
           v == Append(u, s[k + 1])
<1> HIDE DEF u
<1>3. /\ v \in Seq(S) /\ Len(v) = k + 1 /\ v[k + 1] = s[k + 1]
      /\ \A j \in 1 .. k : v[j] = u[j]
  <2>1. s[k + 1] \in S
    BY <1>1
  <2>2. u \in Seq(S) /\ Len(u) = k
    BY <1>2 DEF u
  <2> QED
    BY <2>1, <2>2, AppendFacts
<1> HIDE DEF v
<1>4. \A j \in 1 .. k + 1 : v[j] = s[j]
  <2>1. \A j \in 1 .. k + 1 : j \in 1 .. k \/ j = k + 1
    OBVIOUS
  <2> QED
    BY <1>2, <1>3, <2>1 DEF u
<1>5. v = s
  BY <1>3, <1>4, SeqEqual
<1> QED
  BY <1>2, <1>5 DEF v, u

(* A sequence and its last two elements.                                   *)
LEMMA LastTwoApart ==
  ASSUME NEW S, NEW s \in Seq(S), NEW k \in Nat, Len(s) = k + 2
  PROVE  s = Append(Append(SubSeq(s, 1, k), s[k + 1]), s[k + 2])
<1> DEFINE u == SubSeq(s, 1, k + 1)
<1>1. s = Append(u, s[k + 2]) /\ u \in Seq(S)
  <2>1. k + 1 \in Nat /\ (k + 1) + 1 = k + 2
    OBVIOUS
  <2> QED
    BY <2>1, LastApart
<1>2. Len(u) = k + 1 /\ \A j \in 1 .. k + 1 : u[j] = s[j]
  <2>1. 1 \in Int /\ k + 1 \in Int /\ 1 <= k + 1 /\ (k + 1) - 1 + 1 = k + 1
        /\ (\A j \in 1 .. k + 1 : 1 + j - 1 = j) /\ (\A j \in 1 .. k + 1 : j \in 1 .. k + 2)
    OBVIOUS
  <2>2. \A j \in 1 .. k + 1 : s[j] \in S
    BY <2>1, ElementOfSeq
  <2>3. /\ Len(u) = IF 1 <= k + 1 THEN (k + 1) - 1 + 1 ELSE 0
        /\ \A j \in 1 .. (k + 1) - 1 + 1 : u[j] = s[1 + j - 1]
    BY <2>1, <2>2, SubSeqProperties
  <2> QED
    BY <2>1, <2>3
<1> HIDE DEF u
<1>3. u = Append(SubSeq(u, 1, k), u[k + 1])
  BY <1>1, <1>2, LastApart
<1>4. SubSeq(u, 1, k) = SubSeq(s, 1, k)
  BY <1>2
<1> QED
  BY <1>1, <1>2, <1>3, <1>4
--------------------------------------------------------------------------------
(* What a block of the function may have become, ps and pnext the block as *)
(* selected and the one then behind it: nexts are the blocks one of which  *)
(* must now be behind it.                                                  *)
JumpShape(ps, pnext, s, nexts) ==
  \E body \in Bodies, B \in Blocks, next \in nexts :
    JumpForm(ps, pnext, body, B) /\ JumpForm(s, next, body, B)

IfShape(ps, pnext, s, nexts) ==
  \E body \in Bodies, op \in BranchRR, B \in Blocks, C \in Blocks,
     l \in RegisterOperands, r \in RegisterOperands, next \in nexts :
    /\ B # C
    /\ IfForm(ps, pnext, body, op, B, C, l, r)
    /\ EitherForm(s, next, body, op, B, C, l, r)

LeaveShape(ps, s) == LeaveEnd(s) /\ s = ps

Shaped(ps, pnext, s, nexts) ==
  JumpShape(ps, pnext, s, nexts) \/ IfShape(ps, pnext, s, nexts) \/ LeaveShape(ps, s)

(* A selected block is of one of these shapes, or has a call next to its   *)
(* end.                                                                    *)
LEMMA WellFormedShaped ==
  ASSUME NEW s \in Seq(Instructions), NEW k \in 0 .. Len(s), NEW next,
         Straight(SubSeq(s, 1, k)), WellFormedEnd(SubSeq(s, k + 1, Len(s)), next)
  PROVE  Shaped(s, next, s, {next}) \/ CallEnd(s)
<1> DEFINE body == SubSeq(s, 1, k)
           t == SubSeq(s, k + 1, Len(s))
<1>1. Len(s) \in Nat /\ k \in Nat /\ k <= Len(s)
  BY LenProperties
<1>2. Len(t) = Len(s) - k /\ \A j \in 1 .. Len(s) - k : t[j] = s[k + j]
  <2> DEFINE m == k + 1
             n == Len(s)
  <2>1. /\ m \in Int /\ n \in Int /\ n - m + 1 = n - k
        /\ (m <= n => n - m + 1 = n - k) /\ (~(m <= n) => n - k = 0)
    BY <1>1
  <2>2. ASSUME NEW j \in m .. n PROVE s[j] \in Instructions
    <3>1. j \in 1 .. Len(s)
      BY <1>1
    <3> QED
      BY <3>1, ElementOfSeq
  <2>4. ASSUME NEW j \in 1 .. n - m + 1 PROVE m + j - 1 = k + j
    BY <1>1
  <2> HIDE DEF m, n
  <2>3. /\ Len(SubSeq(s, m, n)) = IF m <= n THEN n - m + 1 ELSE 0
        /\ \A j \in 1 .. n - m + 1 : SubSeq(s, m, n)[j] = s[m + j - 1]
    BY <2>1, <2>2, SubSeqProperties
  <2>5. /\ Len(SubSeq(s, m, n)) = n - k
        /\ \A j \in 1 .. n - k : SubSeq(s, m, n)[j] = s[k + j]
    BY <2>1, <2>3, <2>4
  <2> QED
    BY <2>5 DEF m, n
<1>3. body \in Seq(Instructions) /\ Straight(body) /\ Len(body) = k
      /\ \A j \in 1 .. k : body[j] = s[j]
  <2>1. \A j \in 1 .. k : j \in 1 .. Len(s)
    BY <1>1
  <2>2. \A j \in 1 .. k : s[j] \in Instructions
    BY <2>1, ElementOfSeq
  <2>3. /\ 1 \in Int /\ k \in Int /\ k - 1 + 1 = k /\ (~(1 <= k) => k = 0)
        /\ \A j \in 1 .. k : 1 + j - 1 = j
    BY <1>1
  <2>4. /\ body \in Seq(Instructions)
        /\ Len(body) = IF 1 <= k THEN k - 1 + 1 ELSE 0
        /\ \A j \in 1 .. k - 1 + 1 : body[j] = s[1 + j - 1]
    BY <2>2, <2>3, SubSeqProperties
  <2> QED
    BY <2>3, <2>4
<1>14. body \in Bodies \/ (k \in 1 .. Len(s) /\ s[k].op \in Calls)
  <2> SUFFICES ASSUME body # <<>>, isTerminator(body[Len(body)])
               PROVE  k \in 1 .. Len(s) /\ s[k].op \in Calls
    <3> HIDE DEF body
    <3> QED
      BY <1>3 DEF Bodies
  <2> HIDE DEF body
  <2>1. k \in 1 .. k /\ k \in DOMAIN body
    BY <1>1, <1>3, EmptySeq, LenProperties
  <2>2. s[k].op \notin ConditionalBranches \cup {"J", "JX", "RET_N"}
    BY <1>3, <2>1 DEF Straight
  <2>3. isTerminator(s[k])
    BY <1>3, <2>1
  <2> QED
    BY <1>1, <2>1, <2>2, <2>3 DEF isTerminator
<1> HIDE DEF t
<1>4. CASE body \in Bodies /\ t = <<>> /\ next \in Blocks
  <2>1. Len(s) = k
    BY <1>1, <1>2, <1>4
  <2>2. s = body
    BY <2>1, SubSeqFull
  <2>3. JumpForm(s, next, body, next)
    BY <2>2 DEF JumpForm
  <2> HIDE DEF body
  <2> QED
    BY <1>4, <2>3 DEF Shaped, JumpShape
<1>5. CASE Len(t) = 1 /\ Leaves(t[1])
  <2>0. Len(s) - k = 1 /\ \A j \in 1 .. Len(s) - k : t[j] = s[k + j]
    <3>1. Len(t) = 1
      BY <1>5
    <3> QED
      BY <1>2, <3>1
  <2>1. Len(s) = k + 1 /\ t[1] = s[k + 1] /\ Len(s) # 0
    BY <1>1, <2>0
  <2>4. \A j \in 1 .. k : s[j].op \notin ConditionalBranches \cup {"J", "JX", "RET_N"}
    <3> HIDE DEF body
    <3>1. DOMAIN body = 1 .. k
      BY <1>3, LenProperties
    <3> QED
      BY <1>3, <3>1 DEF Straight
  <2>5. \A j \in 1 .. Len(s) : j < Len(s) => j \in 1 .. k
    BY <1>1, <2>1
  <2>6. s # <<>> /\ Leaves(s[Len(s)])
    BY <1>5, <2>1, EmptySeq
  <2> QED
    BY <2>4, <2>5, <2>6 DEF Shaped, LeaveShape, LeaveEnd
<1>6. ASSUME body \in Bodies, NEW B \in Blocks, t = <<BranchTo(B)>>
      PROVE  Shaped(s, next, s, {next})
  <2>1. Len(s) = k + 1 /\ s[k + 1] = BranchTo(B)
    BY <1>1, <1>2, <1>6
  <2>2. s = JumpEnd(body, B)
    BY <1>1, <2>1, LastApart DEF JumpEnd
  <2>3. JumpForm(s, next, body, B)
    BY <2>2 DEF JumpForm
  <2> HIDE DEF body
  <2> QED
    BY <1>6, <2>3 DEF Shaped, JumpShape
<1>7. ASSUME body \in Bodies, NEW op \in BranchRR, NEW B \in Blocks, NEW C \in Blocks \ {B},
             NEW l \in RegisterOperands, NEW r \in RegisterOperands,
             IfForm(s, next, body, op, B, C, l, r)
      PROVE  Shaped(s, next, s, {next})
  <2>1. EitherForm(s, next, body, op, B, C, l, r)
    BY <1>7 DEF EitherForm
  <2>2. IfForm(s, next, body, op, B, C, l, r) /\ B # C /\ C \in Blocks
    BY <1>7
  <2> HIDE DEF body
  <2>3. IfShape(s, next, s, {next})
    BY <1>7, <2>1, <2>2 DEF IfShape
  <2> QED
    BY <2>3 DEF Shaped
<1>8. ASSUME body \in Bodies, NEW op \in BranchRR, NEW B \in Blocks,
             NEW l \in RegisterOperands, NEW r \in RegisterOperands,
             t = <<BranchIf(op, B, l, r)>>, next \in Blocks \ {B}
      PROVE  Shaped(s, next, s, {next})
  <2>1. Len(s) = k + 1 /\ s[k + 1] = BranchIf(op, B, l, r)
    BY <1>1, <1>2, <1>8
  <2>2. s = IfEnd(body, op, B, l, r)
    BY <1>1, <2>1, LastApart DEF IfEnd
  <2>3. IfForm(s, next, body, op, B, next, l, r)
    BY <2>2 DEF IfForm
  <2> QED
    BY <1>7, <1>8, <2>3
<1>9. ASSUME body \in Bodies, NEW op \in BranchRR, NEW B \in Blocks, NEW C \in Blocks \ {B},
             NEW l \in RegisterOperands, NEW r \in RegisterOperands,
             t = <<BranchIf(op, B, l, r), BranchTo(C)>>
      PROVE  Shaped(s, next, s, {next})
  <2>1. Len(s) = k + 2 /\ s[k + 1] = BranchIf(op, B, l, r) /\ s[k + 2] = BranchTo(C)
    BY <1>1, <1>2, <1>9
  <2>2. s = IfJumpEnd(body, op, B, C, l, r)
    BY <1>1, <2>1, LastTwoApart DEF IfEnd, IfJumpEnd
  <2>3. IfForm(s, next, body, op, B, C, l, r)
    BY <2>2 DEF IfForm
  <2> QED
    BY <1>7, <1>9, <2>3
<1>10. WellFormedEnd(t, next)
  BY DEF t
<1>11. CASE body \in Bodies /\ \E B \in Blocks : t = <<BranchTo(B)>>
  BY <1>6, <1>11
<1>12. CASE /\ body \in Bodies
            /\ \E op \in BranchRR, B \in Blocks,
                  l \in RegisterOperands, r \in RegisterOperands :
                 \/ t = <<BranchIf(op, B, l, r)>> /\ next \in Blocks \ {B}
                 \/ \E C \in Blocks \ {B} : t = <<BranchIf(op, B, l, r), BranchTo(C)>>
  BY <1>8, <1>9, <1>12
<1>13. \/ t = <<>> /\ next \in Blocks
       \/ Len(t) = 1 /\ Leaves(t[1])
       \/ \E B \in Blocks : t = <<BranchTo(B)>>
       \/ \E op \in BranchRR, B \in Blocks, l \in RegisterOperands, r \in RegisterOperands :
            \/ t = <<BranchIf(op, B, l, r)>> /\ next \in Blocks \ {B}
            \/ \E C \in Blocks \ {B} : t = <<BranchIf(op, B, l, r), BranchTo(C)>>
  BY <1>10 DEF WellFormedEnd, Leaves, RegisterOperands
<1>15. ASSUME k \in 1 .. Len(s), s[k].op \in Calls, ~(Len(t) = 1 /\ Leaves(t[1]))
       PROVE  CallEnd(s)
  <2>1. CASE t = <<>>
    <3>1. Len(s) = k
      BY <1>1, <1>2, <2>1
    <3> QED
      BY <1>15, <3>1 DEF CallEnd, CallEndAt
  <2>2. ASSUME NEW B, t = <<BranchTo(B)>>
        PROVE  CallEnd(s)
    <3>1. Len(s) = k + 1 /\ s[k + 1] = BranchTo(B)
      BY <1>1, <1>2, <2>2
    <3> QED
      BY <1>15, <3>1 DEF CallEnd, CallEndAt
  <2>3. ASSUME NEW op \in BranchRR, NEW B, NEW l, NEW r, t = <<BranchIf(op, B, l, r)>>
        PROVE  CallEnd(s)
    <3>1. Len(s) = k + 1 /\ s[k + 1] = BranchIf(op, B, l, r)
      BY <1>1, <1>2, <2>3
    <3> QED
      BY <1>15, <3>1 DEF CallEnd, CallEndAt
  <2>4. ASSUME NEW op \in BranchRR, NEW B, NEW C, NEW l, NEW r,
               t = <<BranchIf(op, B, l, r), BranchTo(C)>>
        PROVE  CallEnd(s)
    <3>1. Len(s) = k + 2 /\ s[k + 1] = BranchIf(op, B, l, r) /\ s[k + 2] = BranchTo(C)
      BY <1>1, <1>2, <2>4
    <3> QED
      BY <1>15, <3>1 DEF CallEnd, CallEndAt
  <2> HIDE DEF body
  <2> QED
    BY <1>13, <1>15, <2>1, <2>2, <2>3, <2>4
<1>16. CASE body \in Bodies
  <2> HIDE DEF body
  <2> QED
    BY <1>4, <1>5, <1>11, <1>12, <1>13, <1>16
<1> HIDE DEF body
<1> QED
  BY <1>5, <1>14, <1>15, <1>16

--------------------------------------------------------------------------------
(* What is right for one block behind a block may be right for another.    *)
LEMMA ShapedForAny ==
  ASSUME NEW ps, NEW pnext, NEW s, NEW nexts, Shaped(ps, pnext, s, nexts)
  PROVE  Shaped(ps, pnext, s, Blocks)
<1>1. CASE JumpShape(ps, pnext, s, nexts)
  <2>1. PICK body \in Bodies, B \in Blocks, next \in nexts :
          JumpForm(ps, pnext, body, B) /\ JumpForm(s, next, body, B)
    BY <1>1 DEF JumpShape
  <2>2. JumpForm(s, B, body, B)
    BY <2>1 DEF JumpForm
  <2>3. JumpShape(ps, pnext, s, Blocks)
    BY <2>1, <2>2 DEF JumpShape
  <2> QED
    BY <2>3 DEF Shaped
<1>2. CASE IfShape(ps, pnext, s, nexts)
  <2>1. PICK body \in Bodies, op \in BranchRR, B \in Blocks, C \in Blocks,
             l \in RegisterOperands, r \in RegisterOperands, next \in nexts :
          /\ B # C
          /\ IfForm(ps, pnext, body, op, B, C, l, r)
          /\ EitherForm(s, next, body, op, B, C, l, r)
    BY <1>2 DEF IfShape
  <2>2. EitherForm(s, B, body, op, B, C, l, r) \/ EitherForm(s, C, body, op, B, C, l, r)
    BY <2>1 DEF EitherForm, IfForm
  <2>3. IfShape(ps, pnext, s, Blocks)
    BY <2>1, <2>2 DEF IfShape
  <2> QED
    BY <2>3 DEF Shaped
<1> QED
  BY <1>1, <1>2 DEF Shaped

(* A two-way branch turned round is the other form of the same branch.     *)
LEMMA TurnedRound ==
  ASSUME NEW s, NEW next, NEW body, NEW op \in BranchRR, NEW B, NEW C, NEW l, NEW r,
         \/ IfForm(s, next, body, Opposite(op), C, B, l, r)
         \/ IfForm(s, next, body, Opposite(Opposite(op)), B, C, l, r)
  PROVE  EitherForm(s, next, body, op, B, C, l, r)
<1>1. Opposite(Opposite(op)) = op
  BY OppositeFacts
<1> QED
  BY <1>1 DEF EitherForm

(* The instructions of a block are instructions.                           *)
LEMMA ShapedType ==
  ASSUME NEW ps, NEW pnext, NEW s, NEW nexts, Shaped(ps, pnext, s, nexts)
  PROVE  s \in Seq(Instructions)
<1>1. CASE JumpShape(ps, pnext, s, nexts)
  <2>1. PICK body \in Bodies, B \in Blocks : s = JumpEnd(body, B) \/ s = body
    BY <1>1 DEF JumpShape, JumpForm
  <2>2. body \in Seq(Instructions) /\ BranchTo(B) \in Instructions
    BY InstructionsBuilt DEF Bodies
  <2> QED
    BY <2>1, <2>2, AppendFacts DEF JumpEnd
<1>2. CASE IfShape(ps, pnext, s, nexts)
  <2>1. PICK body \in Bodies, op \in BranchRR, B \in Blocks, C \in Blocks,
             l \in RegisterOperands, r \in RegisterOperands, next \in nexts :
          EitherForm(s, next, body, op, B, C, l, r)
    BY <1>2 DEF IfShape
  <2>2. Opposite(op) \in BranchRR
    BY OppositeFacts
  <2>3. \/ s \in {IfEnd(body, op, B, l, r), IfJumpEnd(body, op, B, C, l, r)}
        \/ s \in {IfEnd(body, Opposite(op), C, l, r),
                  IfJumpEnd(body, Opposite(op), C, B, l, r)}
    BY <2>1 DEF EitherForm, IfForm
  <2>4. /\ IfEnd(body, op, B, l, r) \in Seq(Instructions)
        /\ IfJumpEnd(body, op, B, C, l, r) \in Seq(Instructions)
    BY EndFacts
  <2>5. /\ IfEnd(body, Opposite(op), C, l, r) \in Seq(Instructions)
        /\ IfJumpEnd(body, Opposite(op), C, B, l, r) \in Seq(Instructions)
    BY <2>2, EndFacts
  <2> QED
    BY <2>3, <2>4, <2>5
<1>3. CASE LeaveShape(ps, s)
  BY <1>3 DEF LeaveShape, LeaveEnd
<1> QED
  BY <1>1, <1>2, <1>3 DEF Shaped

(* The analysis never fails, and can be done where it could be.            *)
LEMMA ShapedAnalysis ==
  ASSUME NEW ps, NEW pnext, NEW s, NEW nexts, Shaped(ps, pnext, s, nexts)
  PROVE  /\ \A M \in BOOLEAN : AnalyzeBranch(s, M).state # "failed"
         /\ AnalyzeBranch(s, FALSE).state = "cannot" => s = ps
<1>1. CASE JumpShape(ps, pnext, s, nexts)
  <2>1. PICK body \in Bodies, B \in Blocks, next \in nexts : JumpForm(s, next, body, B)
    BY <1>1 DEF JumpShape
  <2>2. \A M \in BOOLEAN : ReadsAsJump(AnalyzeBranch(s, M), s, next, body, B)
    BY <2>1, AnalyzeJumpForm
  <2> QED
    BY <2>2 DEF ReadsAsJump
<1>2. CASE IfShape(ps, pnext, s, nexts)
  <2>1. PICK body \in Bodies, op \in BranchRR, B \in Blocks, C \in Blocks,
             l \in RegisterOperands, r \in RegisterOperands, next \in nexts :
          EitherForm(s, next, body, op, B, C, l, r)
    BY <1>2 DEF IfShape
  <2>2. Opposite(op) \in BranchRR
    BY OppositeFacts
  <2>3. CASE IfForm(s, next, body, op, B, C, l, r)
    <3>1. \A M \in BOOLEAN : ReadsAsIf(AnalyzeBranch(s, M), s, next, body, op, B, C, l, r)
      BY <2>3, AnalyzeIfForm
    <3> QED
      BY <3>1 DEF ReadsAsIf
  <2>4. CASE IfForm(s, next, body, Opposite(op), C, B, l, r)
    <3>1. \A M \in BOOLEAN :
            ReadsAsIf(AnalyzeBranch(s, M), s, next, body, Opposite(op), C, B, l, r)
      BY <2>2, <2>4, AnalyzeIfForm
    <3> QED
      BY <3>1 DEF ReadsAsIf
  <2> QED
    BY <2>1, <2>3, <2>4 DEF EitherForm
<1>3. CASE LeaveShape(ps, s)
  <2>1. \A M \in BOOLEAN : AnalyzeBranch(s, M) = Known("cannot", NoBlock, NoBlock, <<>>, Len(s))
    BY <1>3, ReadsLeave DEF LeaveShape, LeaveEnd
  <2> QED
    BY <1>3, <2>1 DEF Known, LeaveShape
<1> QED
  BY <1>1, <1>2, <1>3 DEF Shaped

(* A settled block goes where the selected one went.                       *)
LEMMA ShapedDestination ==
  ASSUME NEW old, NEW order, NEW ps, NEW s, NEW b, NEW val \in Valuations,
         Shaped(ps, LayoutSucc(old, b), s, {LayoutSucc(order, b)})
  PROVE  Destination(order, s, b, val) = Destination(old, ps, b, val)
<1> DEFINE pnext == LayoutSucc(old, b)
           next  == LayoutSucc(order, b)
<1>1. CASE JumpShape(ps, pnext, s, {next})
  <2>1. PICK body \in Bodies, B \in Blocks :
          JumpForm(ps, pnext, body, B) /\ JumpForm(s, next, body, B)
    BY <1>1 DEF JumpShape
  <2>2. Destination(old, ps, b, val) = B
    BY <2>1, JumpDestination
  <2>3. Destination(order, s, b, val) = B
    BY <2>1, JumpDestination
  <2> QED
    BY <2>2, <2>3
<1>2. CASE IfShape(ps, pnext, s, {next})
  <2>1. PICK body \in Bodies, op \in BranchRR, B \in Blocks, C \in Blocks,
             l \in RegisterOperands, r \in RegisterOperands :
          /\ IfForm(ps, pnext, body, op, B, C, l, r)
          /\ EitherForm(s, next, body, op, B, C, l, r)
    BY <1>2 DEF IfShape
  <2>2. Destination(old, ps, b, val) = IF Compared(op, l, r, val) THEN B ELSE C
    BY <2>1, IfDestination
  <2>3. Destination(order, s, b, val) = IF Compared(op, l, r, val) THEN B ELSE C
    BY <2>1, EitherDestination
  <2> QED
    BY <2>2, <2>3
<1>3. CASE LeaveShape(ps, s)
  BY <1>3, LeaveDestination DEF LeaveShape
<1> QED
  BY <1>1, <1>2, <1>3 DEF Shaped
--------------------------------------------------------------------------------
(* A block that leaves the function cannot be analysed.                    *)
LEMMA LeaveAnalysis ==
  ASSUME NEW s, LeaveEnd(s)
  PROVE  \A M \in BOOLEAN : /\ ~Analyzed(AnalyzeBranch(s, M))
                             /\ AnalyzeBranch(s, M).len = Len(s)
<1> SUFFICES ASSUME NEW M \in BOOLEAN
             PROVE  /\ ~Analyzed(AnalyzeBranch(s, M))
                    /\ AnalyzeBranch(s, M).len = Len(s)
  OBVIOUS
<1> DEFINE A == AnalyzeBranch(s, M)
<1>1. A = Known("cannot", NoBlock, NoBlock, <<>>, Len(s))
  BY ReadsLeave DEF LeaveEnd
<1> HIDE DEF A
<1>2. A.state = "cannot" /\ A.len = Len(s)
  BY <1>1 DEF Known
<1> QED
  BY <1>2 DEF Analyzed, A

(* Each action gives the block it rewrites a shape.                        *)
LEMMA ShapedUpdate ==
  ASSUME NEW b, NEW nexts,
         Shaped(prog.code[b], LayoutSucc(prog.layout, b), code[b], nexts),
         NEW t \in IF Analyzed(AnalyzeBranch(code[b], FALSE))
                   THEN UpdatedTerminators(b, AnalyzeBranch(code[b], FALSE))
                   ELSE {code[b]}
  PROVE  Shaped(prog.code[b], LayoutSucc(prog.layout, b), t, {LayoutSucc(layout, b)})
<1> DEFINE A     == AnalyzeBranch(code[b], FALSE)
           s     == code[b]
           ps    == prog.code[b]
           pnext == LayoutSucc(prog.layout, b)
           next  == LayoutSucc(layout, b)
<1>0. t \in IF Analyzed(A) THEN UpdatedTerminators(b, A) ELSE {s}
  OBVIOUS
<1>1. CASE JumpShape(ps, pnext, s, nexts)
  <2>1. PICK body \in Bodies, B \in Blocks, any \in nexts :
          JumpForm(ps, pnext, body, B) /\ JumpForm(s, any, body, B)
    BY <1>1 DEF JumpShape
  <2>2. Analyzed(A)
    <3>1. ReadsAsJump(A, s, any, body, B)
      BY <2>1, AnalyzeJumpForm
    <3> HIDE DEF A, s
    <3> QED
      BY <3>1 DEF ReadsAsJump
  <2>3. t \in UpdatedTerminators(b, A)
    <3> HIDE DEF A
    <3> QED
      BY <1>0, <2>2
  <2>4. JumpForm(t, next, body, B)
    BY <2>1, <2>3, UpdateJump
  <2> HIDE DEF A, s, ps, pnext, next
  <2>5. JumpShape(ps, pnext, t, {next})
    BY <2>1, <2>4 DEF JumpShape
  <2> QED
    BY <2>5 DEF Shaped, ps, pnext, next
<1>2. CASE IfShape(ps, pnext, s, nexts)
  <2>1. PICK body \in Bodies, op \in BranchRR, B \in Blocks, C \in Blocks,
             l \in RegisterOperands, r \in RegisterOperands, any \in nexts :
          /\ B # C
          /\ IfForm(ps, pnext, body, op, B, C, l, r)
          /\ EitherForm(s, any, body, op, B, C, l, r)
    BY <1>2 DEF IfShape
  <2>2. Opposite(op) \in BranchRR
    BY OppositeFacts
  <2>3. Analyzed(A)
    <3>1. ReadsAsIf(A, s, any, body, op, B, C, l, r)
          \/ ReadsAsIf(A, s, any, body, Opposite(op), C, B, l, r)
      BY <2>1, <2>2, AnalyzeIfForm DEF EitherForm
    <3> HIDE DEF A, s
    <3> QED
      BY <3>1 DEF ReadsAsIf
  <2>4. t \in UpdatedTerminators(b, A)
    <3> HIDE DEF A
    <3> QED
      BY <1>0, <2>3
  <2>5. Successors(b) = {B, C} /\ Successors(b) = {C, B}
    BY <2>1, IfSuccessors
  <2>6. EitherForm(t, next, body, op, B, C, l, r)
    <3>1. CASE IfForm(s, any, body, op, B, C, l, r)
      <4>1. \/ IfForm(t, next, body, op, B, C, l, r)
            \/ IfForm(t, next, body, Opposite(op), C, B, l, r)
        BY <2>1, <2>4, <2>5, <3>1, UpdateIf
      <4> QED
        BY <4>1 DEF EitherForm
    <3>2. CASE IfForm(s, any, body, Opposite(op), C, B, l, r)
      <4>1. \/ IfForm(t, next, body, Opposite(op), C, B, l, r)
            \/ IfForm(t, next, body, Opposite(Opposite(op)), B, C, l, r)
        BY <2>1, <2>2, <2>4, <2>5, <3>2, UpdateIf
      <4> QED
        BY <4>1, TurnedRound
    <3> QED
      BY <2>1, <3>1, <3>2 DEF EitherForm
  <2> HIDE DEF A, s, ps, pnext, next
  <2>7. IfShape(ps, pnext, t, {next})
    BY <2>1, <2>6 DEF IfShape
  <2> QED
    BY <2>7 DEF Shaped, ps, pnext, next
<1>3. CASE LeaveShape(ps, s)
  <2>2. ~Analyzed(A)
    BY <1>3, LeaveAnalysis DEF LeaveShape
  <2>3. t = s
    <3> HIDE DEF A
    <3> QED
      BY <1>0, <2>2
  <2> HIDE DEF A, s
  <2> QED
    BY <1>3, <2>3 DEF Shaped
<1> QED
  BY <1>1, <1>2, <1>3 DEF Shaped

(* Only a two-way branch is reordered, and it stays one.                   *)
LEMMA ShapedReorder ==
  ASSUME NEW ps, NEW pnext, NEW b, NEW nexts, Shaped(ps, pnext, code[b], nexts),
         Analyzed(AnalyzeBranch(code[b], FALSE)),
         AnalyzeBranch(code[b], FALSE).FBB # NoBlock,
         AnalyzeBranch(code[b], FALSE).Cond # <<>>,
         NEW t,
         LET A == AnalyzeBranch(code[b], FALSE)
         IN  t \in Rewritten(code[b], A.FBB, A.TBB, ReverseBranchCondition(A.Cond))
  PROVE  Shaped(ps, pnext, t, nexts)
<1> DEFINE A == AnalyzeBranch(code[b], FALSE)
           s == code[b]
<1>1. ~JumpShape(ps, pnext, s, nexts)
  <2> SUFFICES ASSUME JumpShape(ps, pnext, s, nexts) PROVE FALSE
    OBVIOUS
  <2>1. PICK body \in Bodies, B \in Blocks, any \in nexts : JumpForm(s, any, body, B)
    BY DEF JumpShape
  <2>2. ReadsAsJump(A, s, any, body, B)
    BY <2>1, AnalyzeJumpForm
  <2> QED
    BY <2>2 DEF ReadsAsJump
<1>2. ~LeaveShape(ps, s)
  <2> SUFFICES ASSUME LeaveShape(ps, s) PROVE FALSE
    OBVIOUS
  <2> QED
    BY LeaveAnalysis DEF LeaveShape
<1>3. PICK body \in Bodies, op \in BranchRR, B \in Blocks, C \in Blocks,
           l \in RegisterOperands, r \in RegisterOperands, any \in nexts :
        /\ B # C
        /\ IfForm(ps, pnext, body, op, B, C, l, r)
        /\ EitherForm(s, any, body, op, B, C, l, r)
  <2> HIDE DEF s
  <2>1. IfShape(ps, pnext, s, nexts)
    BY <1>1, <1>2 DEF Shaped, s
  <2> QED
    BY <2>1 DEF IfShape
<1>4. Opposite(op) \in BranchRR
  BY OppositeFacts
<1>5. EitherForm(t, any, body, op, B, C, l, r)
  <2>1. CASE IfForm(s, any, body, op, B, C, l, r)
    <3>1. IfForm(t, any, body, Opposite(op), C, B, l, r)
      BY <2>1, ReorderIf
    <3> QED
      BY <3>1 DEF EitherForm
  <2>2. CASE IfForm(s, any, body, Opposite(op), C, B, l, r)
    <3>1. IfForm(t, any, body, Opposite(Opposite(op)), B, C, l, r)
      BY <1>4, <2>2, ReorderIf
    <3> QED
      BY <3>1, TurnedRound
  <2> HIDE DEF s
  <2> QED
    BY <1>3, <2>1, <2>2 DEF EitherForm
<1> HIDE DEF A, s
<1>6. IfShape(ps, pnext, t, nexts)
  BY <1>3, <1>5 DEF IfShape
<1> QED
  BY <1>6 DEF Shaped

(* A settled block that is folded stays settled, and loses no instruction  *)
(* to the analysis.                                                        *)
LEMMA ShapedFold ==
  ASSUME NEW ps, NEW pnext, NEW s, NEW next, Shaped(ps, pnext, s, {next}),
         NEW t,
         LET A == AnalyzeBranch(s, TRUE) IN t \in Folded(SubSeq(s, 1, A.len), next, A)
  PROVE  Shaped(ps, pnext, t, {next})
<1> DEFINE A == AnalyzeBranch(s, TRUE)
<1>0. s \in Seq(Instructions)
  BY ShapedType
<1>1. A.len = Len(s) => t \in Folded(s, next, A)
  <2>1. t \in Folded(SubSeq(s, 1, A.len), next, A)
    OBVIOUS
  <2> HIDE DEF A
  <2>2. SubSeq(s, 1, Len(s)) = s
    BY <1>0, SubSeqFull
  <2> QED
    BY <2>1, <2>2
<1>2. CASE JumpShape(ps, pnext, s, {next})
  <2>1. PICK body \in Bodies, B \in Blocks :
          JumpForm(ps, pnext, body, B) /\ JumpForm(s, next, body, B)
    BY <1>2 DEF JumpShape
  <2>2. A.len = Len(s)
    <3>1. ReadsAsJump(A, s, next, body, B)
      BY <2>1, AnalyzeJumpForm
    <3> HIDE DEF A
    <3> QED
      BY <3>1 DEF ReadsAsJump
  <2>3. JumpForm(t, next, body, B)
    BY <1>1, <2>1, <2>2, FoldJump
  <2>4. JumpShape(ps, pnext, t, {next})
    BY <2>1, <2>3 DEF JumpShape
  <2> QED
    BY <2>4 DEF Shaped
<1>3. CASE IfShape(ps, pnext, s, {next})
  <2>1. PICK body \in Bodies, op \in BranchRR, B \in Blocks, C \in Blocks,
             l \in RegisterOperands, r \in RegisterOperands :
          /\ B # C
          /\ IfForm(ps, pnext, body, op, B, C, l, r)
          /\ EitherForm(s, next, body, op, B, C, l, r)
    BY <1>3 DEF IfShape
  <2>2. Opposite(op) \in BranchRR
    BY OppositeFacts
  <2>3. A.len = Len(s)
    <3>1. ReadsAsIf(A, s, next, body, op, B, C, l, r)
          \/ ReadsAsIf(A, s, next, body, Opposite(op), C, B, l, r)
      BY <2>1, <2>2, AnalyzeIfForm DEF EitherForm
    <3> HIDE DEF A
    <3> QED
      BY <3>1 DEF ReadsAsIf
  <2>4. EitherForm(t, next, body, op, B, C, l, r)
    <3>1. CASE IfForm(s, next, body, op, B, C, l, r)
      <4>1. \/ IfForm(t, next, body, op, B, C, l, r)
            \/ IfForm(t, next, body, Opposite(op), C, B, l, r)
        BY <1>1, <2>1, <2>3, <3>1, FoldIf
      <4> QED
        BY <4>1 DEF EitherForm
    <3>2. CASE IfForm(s, next, body, Opposite(op), C, B, l, r)
      <4>1. \/ IfForm(t, next, body, Opposite(op), C, B, l, r)
            \/ IfForm(t, next, body, Opposite(Opposite(op)), B, C, l, r)
        BY <1>1, <2>1, <2>2, <2>3, <3>2, FoldIf
      <4> QED
        BY <4>1, TurnedRound
    <3> QED
      BY <2>1, <3>1, <3>2 DEF EitherForm
  <2>5. IfShape(ps, pnext, t, {next})
    BY <2>1, <2>4 DEF IfShape
  <2> QED
    BY <2>5 DEF Shaped
<1>4. CASE LeaveShape(ps, s)
  <2>1. ~Analyzed(A) /\ A.len = Len(s)
    BY <1>4, LeaveAnalysis DEF LeaveShape
  <2>2. t = s
    <3>1. t \in Folded(s, next, A)
      BY <1>1, <2>1
    <3> HIDE DEF A
    <3> QED
      BY <2>1, <3>1 DEF Folded
  <2> QED
    BY <1>4, <2>2 DEF Shaped
<1> QED
  BY <1>2, <1>3, <1>4 DEF Shaped
--------------------------------------------------------------------------------
(* The programs the theorems are about.                                    *)
AllWellFormed == \A p \in Programs : WellFormed(p)

Nexts(b) == IF b \in pending THEN Blocks ELSE {LayoutSucc(layout, b)}

(* A block no hook can touch: nothing was placed yet or it waits for ever. *)
Stuck(b) ==
  /\ CallEnd(prog.code[b])
  /\ code[b] = prog.code[b]
  /\ b \in pending \/ layout = prog.layout

Fits(b) ==
  \/ Shaped(prog.code[b], LayoutSucc(prog.layout, b), code[b], Nexts(b))
  \/ Stuck(b)

(* The inductive invariant: every block is in one of the shapes its        *)
(* selected form allows, a settled one in the shape its place asks for, or *)
(* as it was selected, with a call next to its end, where the compiler     *)
(* stops.                                                                  *)
BranchInv ==
  /\ TypeOK
  /\ OnlyCallsUnknown
  /\ \A b \in Blocks : Fits(b)

(* A selected function has the invariant.                                  *)
LEMMA InitBranchInv == AllWellFormed /\ Init => BranchInv
<1> SUFFICES ASSUME AllWellFormed, Init PROVE BranchInv
  OBVIOUS
<1>1. WellFormed(prog) /\ layout = prog.layout /\ code = prog.code /\ pending = {}
      /\ failed = FALSE /\ prog \in Programs
  BY DEF AllWellFormed, Init
<1>2. TypeOK
  BY <1>1 DEF TypeOK, WellFormed
<1>3. ASSUME NEW b \in Blocks
      PROVE  Fits(b)
  <2> DEFINE s == prog.code[b]
             next == LayoutSucc(prog.layout, b)
  <2>1. s \in Seq(Instructions)
    BY <1>1 DEF WellFormed
  <2>2. PICK k \in 0 .. Len(s) :
          Straight(SubSeq(s, 1, k)) /\ WellFormedEnd(SubSeq(s, k + 1, Len(s)), next)
    BY <1>1 DEF WellFormed
  <2>3. Shaped(s, next, s, {next}) \/ CallEnd(s)
    BY <2>1, <2>2, WellFormedShaped
  <2>4. code[b] = s /\ Nexts(b) = {next}
    BY <1>1 DEF Nexts
  <2> HIDE DEF next
  <2>5. CASE CallEnd(s)
    BY <1>1, <2>4, <2>5 DEF Fits, Stuck
  <2>6. CASE Shaped(s, next, s, {next})
    BY <2>4, <2>6 DEF Fits, next
  <2> QED
    BY <2>3, <2>5, <2>6
<1>4. OnlyCallsUnknown
  BY <1>1 DEF OnlyCallsUnknown
<1> QED
  BY <1>2, <1>3, <1>4 DEF BranchInv

(* A block whose analysis does not fail has one of the shapes, and the     *)
(* other has a call next to its end.                                       *)
LEMMA FitsAnalysis ==
  ASSUME BranchInv, NEW b \in Blocks, NEW M \in BOOLEAN
  PROVE  /\ AnalyzeBranch(code[b], M).state # "failed" =>
              Shaped(prog.code[b], LayoutSucc(prog.layout, b), code[b], Nexts(b))
         /\ AnalyzeBranch(code[b], M).state = "failed" => CallAtEnd(prog.code[b])
<1>1. Fits(b) /\ code[b] \in Seq(Instructions)
  BY DEF BranchInv, TypeOK
<1>2. CASE Shaped(prog.code[b], LayoutSucc(prog.layout, b), code[b], Nexts(b))
  <2>1. AnalyzeBranch(code[b], M).state # "failed"
    BY <1>2, ShapedAnalysis
  <2> QED
    BY <1>2, <2>1
<1>3. CASE Stuck(b)
  <2>1. CallEnd(code[b]) /\ code[b] = prog.code[b]
    BY <1>3 DEF Stuck
  <2>2. AnalyzeBranch(code[b], M).state = "failed" /\ CallAtEnd(code[b])
    BY <1>1, <2>1, CallEndFails
  <2> QED
    BY <2>1, <2>2
<1> QED
  BY <1>1, <1>2, <1>3 DEF Fits

(* A step that rewrites one block, the others staying as settled as they   *)
(* were.                                                                   *)
LEMMA OneBlockStep ==
  ASSUME BranchInv, NEW b \in Blocks, NEW t,
         prog' = prog, layout' = layout, code' = [code EXCEPT ![b] = t],
         pending' \subseteq pending, pending \subseteq pending' \cup {b}, failed' = failed,
         Shaped(prog.code[b], LayoutSucc(prog.layout, b), t, Nexts(b)')
  PROVE  BranchInv'
<1>1. t \in Seq(Instructions)
  BY ShapedType
<1>2. TypeOK'
  BY <1>1 DEF BranchInv, TypeOK
<1>3. ASSUME NEW c \in Blocks
      PROVE  Fits(c)'
  <2>1. code \in [Blocks -> Seq(Instructions)]
    BY DEF BranchInv, TypeOK
  <2>2. CASE c = b
    <3>1. code'[c] = t /\ prog'.code[c] = prog.code[b]
          /\ LayoutSucc(prog'.layout, c) = LayoutSucc(prog.layout, b)
      BY <2>1, <2>2
    <3> QED
      BY <2>2, <3>1 DEF Fits
  <2>3. CASE c # b
    <3>1. code'[c] = code[c] /\ (c \in pending' <=> c \in pending)
      BY <2>1, <2>3
    <3>2. Nexts(c)' = Nexts(c)
      BY <3>1 DEF Nexts
    <3>3. Fits(c)
      BY DEF BranchInv
    <3>4. CASE Stuck(c)
      BY <3>1, <3>4 DEF Fits, Stuck
    <3>5. CASE Shaped(prog.code[c], LayoutSucc(prog.layout, c), code[c], Nexts(c))
      BY <3>1, <3>2, <3>5 DEF Fits
    <3> QED
      BY <3>3, <3>4, <3>5 DEF Fits
  <2> QED
    BY <2>2, <2>3
<1>4. OnlyCallsUnknown'
  BY DEF BranchInv, OnlyCallsUnknown
<1> QED
  BY <1>2, <1>3, <1>4 DEF BranchInv

(* Every step keeps the invariant.                                         *)
LEMMA NextBranchInv == BranchInv /\ [Next]_vars => BranchInv'
<1> SUFFICES ASSUME BranchInv, [Next]_vars PROVE BranchInv'
  OBVIOUS
<1>0. TypeOK /\ \A b \in Blocks : Fits(b)
  BY DEF BranchInv
<1>1. ASSUME NEW order \in SetToSeqs(Blocks), Place(order)
      PROVE  BranchInv'
  <2>1. prog' = prog /\ code' = code /\ layout' = order /\ pending' = Blocks
        /\ failed' = failed
    BY <1>1 DEF Place
  <2>2. TypeOK'
    BY <1>0, <2>1 DEF TypeOK
  <2>3. ASSUME NEW b \in Blocks
        PROVE  Fits(b)'
    <3>1. CASE Stuck(b)
      BY <2>1, <3>1 DEF Fits, Stuck
    <3>2. CASE Shaped(prog.code[b], LayoutSucc(prog.layout, b), code[b], Nexts(b))
      <4>1. Shaped(prog.code[b], LayoutSucc(prog.layout, b), code[b], Blocks)
        BY <3>2, ShapedForAny
      <4>2. Nexts(b)' = Blocks
        BY <2>1 DEF Nexts
      <4> QED
        BY <2>1, <4>1, <4>2 DEF Fits
    <3> QED
      BY <1>0, <3>1, <3>2 DEF Fits
  <2>4. OnlyCallsUnknown'
    BY <2>1 DEF BranchInv, OnlyCallsUnknown
  <2> QED
    BY <2>2, <2>3, <2>4 DEF BranchInv
<1>2. ASSUME NEW b \in Blocks, Update(b)
      PROVE  BranchInv'
  <2> DEFINE A == AnalyzeBranch(code[b], FALSE)
  <2>1. Shaped(prog.code[b], LayoutSucc(prog.layout, b), code[b], Nexts(b))
    <3>1. A.state # "failed"
      BY <1>2 DEF Update
    <3> QED
      BY <3>1, FitsAnalysis
  <2>2. PICK t \in IF Analyzed(A) THEN UpdatedTerminators(b, A) ELSE {code[b]} :
          code' = [code EXCEPT ![b] = t]
    BY <1>2 DEF Update
  <2>3. Shaped(prog.code[b], LayoutSucc(prog.layout, b), t, {LayoutSucc(layout, b)})
    BY <2>1, <2>2, ShapedUpdate
  <2>4. prog' = prog /\ layout' = layout /\ pending' = pending \ {b}
        /\ failed' = failed
    BY <1>2 DEF Update
  <2>6. Nexts(b)' = {LayoutSucc(layout, b)}
    BY <2>4 DEF Nexts
  <2> QED
    BY <2>2, <2>3, <2>4, <2>6, OneBlockStep
<1>3. ASSUME NEW b \in Blocks, Reorder(b)
      PROVE  BranchInv'
  <2> DEFINE A == AnalyzeBranch(code[b], FALSE)
  <2>1. /\ Analyzed(A) /\ A.Cond # <<>> /\ A.FBB # NoBlock
        /\ prog' = prog /\ layout' = layout /\ pending' = pending /\ failed' = failed
    BY <1>3 DEF Reorder
  <2>2. PICK t \in Rewritten(code[b], A.FBB, A.TBB, ReverseBranchCondition(A.Cond)) :
          code' = [code EXCEPT ![b] = t]
    BY <1>3 DEF Reorder
  <2>3. Shaped(prog.code[b], LayoutSucc(prog.layout, b), code[b], Nexts(b))
    <3>1. A.state # "failed"
      BY <2>1 DEF Analyzed
    <3> QED
      BY <3>1, FitsAnalysis
  <2>4. Shaped(prog.code[b], LayoutSucc(prog.layout, b), t, Nexts(b))
    BY <2>1, <2>2, <2>3, ShapedReorder
  <2>5. Nexts(b)' = Nexts(b)
    BY <2>1 DEF Nexts
  <2> HIDE DEF A
  <2> QED
    BY <2>1, <2>2, <2>4, <2>5, OneBlockStep
<1>4. ASSUME NEW b \in Blocks, Fold(b)
      PROVE  BranchInv'
  <2> DEFINE A == AnalyzeBranch(code[b], TRUE)
             next == LayoutSucc(layout, b)
  <2>1. Shaped(prog.code[b], LayoutSucc(prog.layout, b), code[b], Nexts(b))
    <3>1. A.state # "failed"
      BY <1>4 DEF Fold
    <3> QED
      BY <3>1, FitsAnalysis
  <2>2. PICK t \in Folded(SubSeq(code[b], 1, A.len), next, A) :
          code' = [code EXCEPT ![b] = t]
    BY <1>4 DEF Fold
  <2>3. prog' = prog /\ layout' = layout /\ pending' = pending /\ pending = {}
        /\ failed' = failed
    BY <1>4 DEF Fold
  <2>4. Nexts(b) = {next} /\ Nexts(b)' = {next}
    BY <2>3 DEF Nexts
  <2>5. Shaped(prog.code[b], LayoutSucc(prog.layout, b), t, {next})
    <3>1. Shaped(prog.code[b], LayoutSucc(prog.layout, b), code[b], {next})
      BY <2>1, <2>4
    <3> QED
      BY <2>2, <3>1, ShapedFold
  <2> HIDE DEF A, next
  <2> QED
    BY <2>2, <2>3, <2>4, <2>5, OneBlockStep
<1>5. ASSUME NEW b \in Blocks, Stop(b)
      PROVE  BranchInv'
  <2>1. /\ prog' = prog /\ layout' = layout /\ code' = code /\ pending' = pending
        /\ failed' = TRUE
    BY <1>5 DEF Stop
  <2>2. CallAtEnd(prog.code[b])
    <3>1. \E M \in BOOLEAN : AnalyzeBranch(code[b], M).state = "failed"
      BY <1>5 DEF Stop
    <3> QED
      BY <3>1, FitsAnalysis
  <2>3. TypeOK'
    BY <1>0, <2>1 DEF TypeOK
  <2>4. ASSUME NEW c \in Blocks PROVE Fits(c)'
    BY <1>0, <2>1 DEF Fits, Stuck, Nexts
  <2>5. OnlyCallsUnknown'
    BY <2>1, <2>2 DEF OnlyCallsUnknown
  <2> QED
    BY <2>3, <2>4, <2>5 DEF BranchInv
<1>6. CASE UNCHANGED vars
  <2>1. /\ prog' = prog /\ layout' = layout /\ code' = code /\ pending' = pending
        /\ failed' = failed
    BY <1>6 DEF vars
  <2>2. TypeOK'
    BY <1>0, <2>1 DEF TypeOK
  <2>3. ASSUME NEW c \in Blocks PROVE Fits(c)'
    BY <1>0, <2>1 DEF Fits, Stuck, Nexts
  <2>4. OnlyCallsUnknown'
    BY <2>1 DEF BranchInv, OnlyCallsUnknown
  <2> QED
    BY <2>2, <2>3, <2>4 DEF BranchInv
<1> QED
  BY <1>1, <1>2, <1>3, <1>4, <1>5, <1>6 DEF Next

(* The invariant holds in every state of every behaviour.                  *)
LEMMA BranchInvariant == AllWellFormed /\ Spec => []BranchInv
<1>1. AllWellFormed /\ Init => BranchInv
  BY InitBranchInv
<1>2. BranchInv /\ [Next]_vars => BranchInv'
  BY NextBranchInv
<1> QED
  BY <1>1, <1>2, PTL DEF Spec

(* Blocks hold instructions, and the layout is an order of all the blocks, *)
(* through every placement and rewriting.                                  *)
THEOREM BranchTypeCorrect == AllWellFormed /\ Spec => []TypeOK
<1>1. BranchInv => TypeOK
  BY DEF BranchInv
<1> QED
  BY <1>1, BranchInvariant, PTL

(* XtensaInstrInfo's AnalyzeBranch, RemoveBranch, ReverseBranchCondition   *)
(* and InsertBranch never send a settled block anywhere but where the      *)
(* selected function goes, whatever the registers hold: for any number of  *)
(* blocks, any code above the branches and any sequence of placements,     *)
(* updates, reorderings and foldings.                                      *)
THEOREM BranchDestinationsKept == AllWellFormed /\ Spec => []BranchesPreserved
<1>1. BranchInv => BranchesPreserved
  <2> SUFFICES ASSUME BranchInv, NEW b \in Blocks \ pending, NEW val \in Valuations
               PROVE  Destination(layout, code[b], b, val)
                        = Destination(prog.layout, prog.code[b], b, val)
    BY DEF BranchesPreserved
  <2>1. CASE Stuck(b)
    BY <2>1 DEF Stuck
  <2>2. CASE Shaped(prog.code[b], LayoutSucc(prog.layout, b), code[b], Nexts(b))
    <3>1. Nexts(b) = {LayoutSucc(layout, b)}
      BY DEF Nexts
    <3> QED
      BY <2>2, <3>1, ShapedDestination
  <2> QED
    BY <2>1, <2>2 DEF BranchInv, Fits
<1> QED
  BY <1>1, BranchInvariant, PTL

(* What InsertBranch leaves, AnalyzeBranch can read again.                 *)
THEOREM BranchesStayAnalyzable == AllWellFormed /\ Spec => []StaysAnalyzable
<1>1. BranchInv => StaysAnalyzable
  <2> SUFFICES ASSUME BranchInv, NEW b \in Blocks,
                      AnalyzeBranch(code[b], FALSE).state = "cannot"
               PROVE  AnalyzeBranch(prog.code[b], FALSE).state = "cannot"
    BY DEF StaysAnalyzable
  <2>1. Shaped(prog.code[b], LayoutSucc(prog.layout, b), code[b], Nexts(b)) \/ Stuck(b)
    BY DEF BranchInv, Fits
  <2>2. code[b] = prog.code[b]
    BY <2>1, ShapedAnalysis DEF Stuck
  <2> QED
    BY <2>2
<1> QED
  BY <1>1, BranchInvariant, PTL

(* isBranch's assertion fails for nothing but a call next to the end of a  *)
(* selected block: whatever the hooks made of the branches, the analysis   *)
(* meets none that isBranch does not know.                                 *)
THEOREM OnlyCallsAreUnknown == AllWellFormed /\ Spec => []OnlyCallsUnknown
<1>1. BranchInv => OnlyCallsUnknown
  BY DEF BranchInv
<1> QED
  BY <1>1, BranchInvariant, PTL
================================================================================
