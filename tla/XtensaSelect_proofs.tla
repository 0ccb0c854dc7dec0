--------------------------- MODULE XtensaSelect_proofs ---------------------------
(***************************************************************************)
(* Proofs about XtensaSelect: however many selects a function has and      *)
(* wherever they are, every expansion leaves a graph whose recorded edges  *)
(* are those of its code, with phis that match them, the scan, which goes  *)
(* on in the block it made, passes no pseudo by, and the function, with    *)
(* BNEZ for the malformed BNE, does for every input what its DAG did.      *)
(* SelectInv is the inductive invariant of the graph, MeaningInv that with *)
(* the runs, all of them in that reading: the "built" of Execute and Do.   *)
(***************************************************************************)
EXTENDS XtensaSelect, SequenceTheorems, WellFoundedInduction, TLAPS

--------------------------------------------------------------------------------
(***************************************************************************)
(* Induction over the natural numbers, and the least of them, for what is  *)
(* defined by recursion: over a set instead of a predicate.                *)
(***************************************************************************)
(* A set of natural numbers that contains 0 and every successor of its     *)
(* elements contains them all.                                             *)
LEMMA NatSetInduction ==
  ASSUME NEW T \in SUBSET Nat, 0 \in T, \A n \in T : n + 1 \in T
  PROVE  T = Nat
<1> DEFINE Less == {ss \in Nat \X Nat : ss[1] < ss[2]}
<1>1. IsWellFoundedOn(Less, Nat)
  BY NatLessThanWellFounded DEF OpToRel
<1>2. SUFFICES ASSUME Nat \ T # {}
               PROVE  FALSE
  OBVIOUS
<1> HIDE DEF Less
<1>3. PICK x \in Nat \ T : \A y \in Nat \ T : ~(<<y, x>> \in Less)
  <2>1. Nat \ T \subseteq Nat
    OBVIOUS
  <2> QED
    BY <1>1, <1>2, <2>1, WFMin
<1>4. x - 1 \in Nat \ T /\ (x - 1) + 1 = x
  BY <1>3
<1>5. <<x - 1, x>> \in Less
  BY <1>4, <1>3 DEF Less
<1> QED
  BY <1>3, <1>4, <1>5

(* The same up to a bound.                                                 *)
LEMMA BoundedInduction ==
  ASSUME NEW N \in Nat, NEW T, 0 \in T, \A n \in 0 .. N - 1 : n \in T => n + 1 \in T
  PROVE  0 .. N \subseteq T
<1> DEFINE U == {n \in Nat : n <= N => n \in T}
<1>1. 0 \in U
  OBVIOUS
<1>2. ASSUME NEW n \in U PROVE n + 1 \in U
  <2>1. n \in Nat /\ (n <= N => n \in T)
    OBVIOUS
  <2>2. n + 1 <= N => n \in 0 .. N - 1 /\ n <= N
    BY <2>1
  <2> QED
    BY <2>1, <2>2
<1> HIDE DEF U
<1>3. U = Nat
  <2>1. U \in SUBSET Nat
    BY DEF U
  <2> QED
    BY <1>1, <1>2, <2>1, NatSetInduction
<1> QED
  BY <1>3 DEF U

(* Natural numbers have a least one.                                       *)
LEMMA LeastOne ==
  ASSUME NEW T \in SUBSET Nat, T # {}
  PROVE  \E x \in T : \A y \in T : x <= y
<1> DEFINE Less == {ss \in Nat \X Nat : ss[1] < ss[2]}
<1>1. IsWellFoundedOn(Less, Nat)
  BY NatLessThanWellFounded DEF OpToRel
<1> HIDE DEF Less
<1>2. PICK x \in T : \A y \in T : ~(<<y, x>> \in Less)
  BY <1>1, WFMin
<1>3. ASSUME NEW y \in T PROVE x <= y
  <2>1. ~(y < x)
    BY <1>2 DEF Less
  <2> QED
    BY <2>1
<1> QED
  BY <1>3

--------------------------------------------------------------------------------
(* Sequences, of whatever they hold.                                       *)
Sq(s) == s \in Seq(ToSet(s))

LEMMA SqFacts ==
  ASSUME NEW s, Sq(s)
  PROVE  Len(s) \in Nat /\ DOMAIN s = 1 .. Len(s)
  BY LenProperties DEF Sq

LEMMA SqOf ==
  ASSUME NEW X, NEW s \in Seq(X)
  PROVE  Sq(s)
<1>1. Len(s) \in Nat /\ s \in [1 .. Len(s) -> X] /\ DOMAIN s = 1 .. Len(s)
  BY LenProperties
<1>2. s \in [1 .. Len(s) -> ToSet(s)]
  BY <1>1 DEF ToSet
<1> QED
  BY <1>1, <1>2 DEF Sq

(* What a function on 1 .. n is as a sequence.                             *)
LEMMA SqFunction ==
  ASSUME NEW n \in Nat, NEW s, s = [j \in 1 .. n |-> s[j]]
  PROVE  Sq(s) /\ Len(s) = n
<1>1. DOMAIN s = 1 .. n
  OBVIOUS
<1>2. s \in [1 .. n -> ToSet(s)]
  BY <1>1 DEF ToSet
<1>3. s \in Seq(ToSet(s))
  BY <1>2
<1>4. Len(s) \in Nat /\ DOMAIN s = 1 .. Len(s)
  BY <1>3, LenProperties
<1> QED
  BY <1>1, <1>3, <1>4 DEF Sq

LEMMA SqConcat ==
  ASSUME NEW s, NEW t, Sq(s), Sq(t)
  PROVE  /\ Sq(s \o t)
         /\ Len(s \o t) = Len(s) + Len(t)
         /\ \A j \in 1 .. Len(s) + Len(t) :
              (s \o t)[j] = IF j <= Len(s) THEN s[j] ELSE t[j - Len(s)]
<1> DEFINE X == ToSet(s) \cup ToSet(t)
<1>1. s \in Seq(X)
  <2>1. s \in Seq(ToSet(s)) /\ ToSet(s) \subseteq X
    BY DEF Sq
  <2> HIDE DEF X
  <2> QED
    BY <2>1, SeqMonotonic
<1>2. t \in Seq(X)
  <2>1. t \in Seq(ToSet(t)) /\ ToSet(t) \subseteq X
    BY DEF Sq
  <2> HIDE DEF X
  <2> QED
    BY <2>1, SeqMonotonic
<1> HIDE DEF X
<1>3. s \o t \in Seq(X)
  BY <1>1, <1>2, ConcatProperties
<1> QED
  BY <1>1, <1>2, <1>3, SqOf, ConcatProperties

LEMMA SqSub ==
  ASSUME NEW s, Sq(s), NEW m \in 1 .. Len(s) + 1, NEW n \in m - 1 .. Len(s)
  PROVE  /\ Sq(SubSeq(s, m, n))
         /\ Len(SubSeq(s, m, n)) = n - m + 1
         /\ \A j \in 1 .. n - m + 1 : SubSeq(s, m, n)[j] = s[m + j - 1]
<1>1. Len(s) \in Nat /\ DOMAIN s = 1 .. Len(s)
  BY SqFacts
<1>2. m \in Int /\ n \in Int /\ \A j \in m .. n : s[j] \in ToSet(s)
  BY <1>1 DEF ToSet
<1>3. /\ SubSeq(s, m, n) \in Seq(ToSet(s))
      /\ Len(SubSeq(s, m, n)) = IF m <= n THEN n - m + 1 ELSE 0
      /\ \A j \in 1 .. n - m + 1 : SubSeq(s, m, n)[j] = s[m + j - 1]
  BY <1>2, SubSeqProperties
<1>4. Len(SubSeq(s, m, n)) = n - m + 1
  BY <1>1, <1>3
<1> QED
  BY <1>3, <1>4, SqOf

LEMMA SqAppend ==
  ASSUME NEW s, NEW e, Sq(s)
  PROVE  /\ Sq(Append(s, e))
         /\ Len(Append(s, e)) = Len(s) + 1
         /\ \A j \in 1 .. Len(s) : Append(s, e)[j] = s[j]
         /\ Append(s, e)[Len(s) + 1] = e
<1> DEFINE X == ToSet(s) \cup {e}
<1>1. s \in Seq(X) /\ e \in X
  <2>1. s \in Seq(ToSet(s)) /\ ToSet(s) \subseteq X /\ e \in X
    BY DEF Sq
  <2> HIDE DEF X
  <2> QED
    BY <2>1, SeqMonotonic
<1> HIDE DEF X
<1>2. Append(s, e) \in Seq(X)
  BY <1>1, AppendProperties
<1>3. Sq(Append(s, e))
  BY <1>2, SqOf
<1> QED
  BY <1>1, <1>3, AppendProperties

LEMMA SqPairs ==
  ASSUME NEW e, NEW f
  PROVE  /\ Sq(<<e>>) /\ Len(<<e>>) = 1 /\ <<e>>[1] = e
         /\ Sq(<<e, f>>) /\ Len(<<e, f>>) = 2 /\ <<e, f>>[1] = e /\ <<e, f>>[2] = f
         /\ Sq(<<>>) /\ Len(<<>>) = 0
<1>1. <<e>> \in Seq({e})
  OBVIOUS
<1>2. <<e, f>> \in Seq({e, f})
  OBVIOUS
<1>3. <<>> \in Seq({e})
  OBVIOUS
<1> QED
  BY <1>1, <1>2, <1>3, SqOf

--------------------------------------------------------------------------------
(* An instruction of block b after the select of block T is expanded.      *)
After(x, b, T) == IF b \in succ[T] THEN Renamed(x, T, Len(code) + 2) ELSE x

LEMMA AfterOther ==
  \A x, b, T : ~(x.op = "PHI" /\ b \in succ[T] /\ T \in DOMAIN x.in) => After(x, b, T) = x
  BY DEF After, Renamed

LEMMA AfterPhi ==
  ASSUME NEW x, NEW b, NEW T, x.op = "PHI", b \in succ[T], T \in DOMAIN x.in
  PROVE  /\ After(x, b, T).op = "PHI"
         /\ DOMAIN After(x, b, T).in = (DOMAIN x.in \ {T}) \cup {Len(code) + 2}
<1>1. After(x, b, T) =
        PHI(x.d, [p \in (DOMAIN x.in \ {T}) \cup {Len(code) + 2} |->
                    IF p = Len(code) + 2 THEN x.in[T] ELSE x.in[p]])
  BY DEF After, Renamed
<1> QED
  BY <1>1 DEF PHI

LEMMA AfterOp ==
  \A x, b, T : After(x, b, T).op = x.op
  BY AfterOther, AfterPhi

LEMMA AfterDomain ==
  \A x, b, T : x.op = "PHI" =>
    DOMAIN After(x, b, T).in =
      IF b \in succ[T] /\ T \in DOMAIN x.in
      THEN (DOMAIN x.in \ {T}) \cup {Len(code) + 2} ELSE DOMAIN x.in
  BY AfterOther, AfterPhi

(* What emitSelectCC leaves in each block.                                 *)
LEMMA EmittedCode ==
  ASSUME NEW T, NEW i,
         Sq(code), T \in 1 .. Len(code), \A b \in 1 .. Len(code) : Sq(code[b]),
         i \in 1 .. Len(code[T]), succ[T] \subseteq 1 .. Len(code),
         emitSelectCC(T, i)
  PROVE  /\ Sq(code') /\ Len(code') = Len(code) + 2
         /\ \A b \in 1 .. Len(code) : b # T =>
              /\ Sq(code'[b]) /\ Len(code'[b]) = Len(code[b])
              /\ \A j \in 1 .. Len(code[b]) : code'[b][j] = After(code[b][j], b, T)
         /\ Sq(code'[T]) /\ Len(code'[T]) = i
         /\ \A j \in 1 .. i - 1 : code'[T][j] = After(code[T][j], T, T)
         /\ code'[T][i] = BNE(code[T][i].ops[1], Len(code) + 2)
         /\ code'[Len(code) + 1] = <<>>
         /\ Sq(code'[Len(code) + 2])
         /\ Len(code'[Len(code) + 2]) = Len(code[T]) - i + 1
         /\ code'[Len(code) + 2][1] =
              PHI(code[T][i].d, [q \in {T, Len(code) + 1} |->
                                   IF q = T THEN code[T][i].ops[2] ELSE code[T][i].ops[3]])
         /\ code'[Len(code) + 2][1].op = "PHI"
         /\ DOMAIN code'[Len(code) + 2][1].in = {T, Len(code) + 1}
         /\ \A j \in 2 .. Len(code[T]) - i + 1 :
              code'[Len(code) + 2][j] = code[T][i + j - 1]
<1> DEFINE n    == Len(code)
           MI   == code[T][i]
           pre  == SubSeq(code[T], 1, i - 1)
           post == SubSeq(code[T], i + 1, Len(code[T]))
           cut  == [code EXCEPT ![T] = pre]
           spliced == cut \o << <<>>, post >>
           Ren(b) == [j \in DOMAIN spliced[b] |-> Renamed(spliced[b][j], T, n + 2)]
           Moved(b) == IF b \in succ[T] THEN Ren(b) ELSE spliced[b]
           moved == [b \in DOMAIN spliced |-> Moved(b)]
           phi == PHI(MI.d, [p \in {T, n + 1} |-> IF p = T THEN MI.ops[2] ELSE MI.ops[3]])
           bne == BNE(MI.ops[1], n + 2)
<1>1. code' = [moved EXCEPT ![T] = Append(@, bne), ![n + 2] = <<phi>> \o @]
  <2> DEFINE all == transferSuccessorsAndUpdatePHIs(spliced, T, n + 2)
  <2>1. code' = [all EXCEPT ![T] = Append(eraseFromParent(@, MI), bne),
                            ![n + 2] = <<phi>> \o @]
    BY DEF emitSelectCC
  <2>2. all = moved
    BY DEF transferSuccessorsAndUpdatePHIs
  <2> HIDE DEF all, moved, phi, bne, MI
  <2> QED
    BY <2>1, <2>2 DEF eraseFromParent
<1>2. n \in Nat /\ DOMAIN code = 1 .. n /\ T \in 1 .. n /\ T # n + 1 /\ T # n + 2
  BY SqFacts
<1>3. Len(code[T]) \in Nat /\ DOMAIN code[T] = 1 .. Len(code[T]) /\ Sq(code[T])
  BY <1>2, SqFacts
<1>4. /\ Sq(pre) /\ Len(pre) = i - 1
      /\ \A j \in 1 .. i - 1 : pre[j] = code[T][j]
  <2>1. 1 \in 1 .. Len(code[T]) + 1 /\ i - 1 \in 1 - 1 .. Len(code[T])
    BY <1>3
  <2>2. /\ Sq(pre) /\ Len(pre) = (i - 1) - 1 + 1
        /\ \A j \in 1 .. (i - 1) - 1 + 1 : pre[j] = code[T][1 + j - 1]
    BY <1>3, <2>1, SqSub
  <2> HIDE DEF pre
  <2>3. (i - 1) - 1 + 1 = i - 1 /\ \A j \in 1 .. i - 1 : 1 + j - 1 = j
    BY <1>3
  <2> QED
    BY <2>2, <2>3
<1>5. /\ Sq(post) /\ Len(post) = Len(code[T]) - i
      /\ \A j \in 1 .. Len(code[T]) - i : post[j] = code[T][i + j]
  <2>1. i + 1 \in 1 .. Len(code[T]) + 1 /\ Len(code[T]) \in (i + 1) - 1 .. Len(code[T])
    BY <1>3
  <2>2. /\ Sq(post) /\ Len(post) = Len(code[T]) - (i + 1) + 1
        /\ \A j \in 1 .. Len(code[T]) - (i + 1) + 1 : post[j] = code[T][(i + 1) + j - 1]
    BY <1>3, <2>1, SqSub
  <2> HIDE DEF post
  <2>3. /\ Len(code[T]) - (i + 1) + 1 = Len(code[T]) - i
        /\ \A j \in 1 .. Len(code[T]) - i : (i + 1) + j - 1 = i + j
    BY <1>3
  <2> QED
    BY <2>2, <2>3
<1> HIDE DEF pre, post
<1>6. /\ Sq(cut) /\ Len(cut) = n
      /\ cut[T] = pre
      /\ \A b \in 1 .. n : b # T => cut[b] = code[b]
  <2>1. cut = [j \in 1 .. n |-> cut[j]]
    BY <1>2
  <2> QED
    BY <1>2, <2>1, SqFunction
<1>7. /\ Sq(spliced) /\ Len(spliced) = n + 2
      /\ \A b \in 1 .. n : b # T => spliced[b] = code[b]
      /\ spliced[T] = pre /\ spliced[n + 1] = <<>> /\ spliced[n + 2] = post
  <2> DEFINE new == << <<>>, post >>
  <2>1. Sq(new) /\ Len(new) = 2 /\ new[1] = <<>> /\ new[2] = post
    BY SqPairs
  <2> HIDE DEF cut, new
  <2>2. /\ Sq(cut \o new) /\ Len(cut \o new) = n + 2
        /\ \A j \in 1 .. n + 2 : (cut \o new)[j] = IF j <= n THEN cut[j] ELSE new[j - n]
    <3>1. /\ Sq(cut \o new) /\ Len(cut \o new) = Len(cut) + Len(new)
          /\ \A j \in 1 .. Len(cut) + Len(new) :
               (cut \o new)[j] = IF j <= Len(cut) THEN cut[j] ELSE new[j - Len(cut)]
      BY <1>6, <2>1, SqConcat
    <3> QED
      BY <1>6, <2>1, <3>1
  <2>3. spliced = cut \o new
    BY DEF new
  <2> HIDE DEF spliced
  <2>4. (n + 1) - n = 1 /\ (n + 2) - n = 2 /\ ~(n + 1 <= n) /\ ~(n + 2 <= n)
    BY <1>2
  <2>5. n + 1 \in 1 .. n + 2 /\ n + 2 \in 1 .. n + 2 /\ \A b \in 1 .. n : b \in 1 .. n + 2 /\ b <= n
    BY <1>2
  <2> QED
    BY <1>2, <1>6, <2>1, <2>2, <2>3, <2>4, <2>5
<1> HIDE DEF cut, spliced
<1>8. /\ DOMAIN moved = 1 .. n + 2
      /\ \A b \in 1 .. n + 2 : moved[b] = Moved(b)
  BY <1>7, SqFacts
<1>9. n + 1 \notin succ[T] /\ n + 2 \notin succ[T]
  BY <1>2
<1>10. moved[n + 1] = <<>> /\ moved[n + 2] = post
  BY <1>2, <1>7, <1>8, <1>9
<1>11. ASSUME NEW b \in 1 .. n, NEW s, spliced[b] = s, Sq(s)
       PROVE  /\ Sq(moved[b]) /\ Len(moved[b]) = Len(s)
              /\ \A j \in 1 .. Len(s) : moved[b][j] = After(s[j], b, T)
  <2>1. moved[b] = Moved(b)
    BY <1>2, <1>8
  <2>2. Len(s) \in Nat /\ DOMAIN s = 1 .. Len(s)
    BY <1>11, SqFacts
  <2>3. CASE b \in succ[T]
    <3>1. moved[b] = [j \in 1 .. Len(s) |-> Renamed(s[j], T, n + 2)]
      BY <1>11, <2>1, <2>2, <2>3
    <3> HIDE DEF moved
    <3>2. moved[b] = [j \in 1 .. Len(s) |-> moved[b][j]]
      BY <3>1
    <3>3. Sq(moved[b]) /\ Len(moved[b]) = Len(s)
      BY <2>2, <3>2, SqFunction
    <3> QED
      BY <2>3, <3>1, <3>3 DEF After
  <2>4. CASE b \notin succ[T]
    <3>1. moved[b] = s
      BY <1>11, <2>1, <2>4
    <3> HIDE DEF moved
    <3> QED
      BY <1>11, <2>4, <3>1 DEF After
  <2> QED
    BY <2>3, <2>4
<1> HIDE DEF moved, Moved, Ren
<1>12. /\ DOMAIN code' = 1 .. n + 2
       /\ \A b \in 1 .. n + 1 : b # T => code'[b] = moved[b]
       /\ code'[T] = Append(moved[T], bne)
       /\ code'[n + 2] = <<phi>> \o moved[n + 2]
       /\ code' = [b \in 1 .. n + 2 |-> code'[b]]
  <2> HIDE DEF phi, bne
  <2> DEFINE first == Append(moved[T], bne)
             last  == <<phi>> \o moved[n + 2]
  <2>1. code' = [moved EXCEPT ![T] = first, ![n + 2] = last]
    BY <1>1, <1>2, <1>8
  <2>2. DOMAIN moved = 1 .. n + 2 /\ T \in 1 .. n + 2 /\ n + 2 \in 1 .. n + 2
    BY <1>2, <1>8
  <2> HIDE DEF first, last
  <2>3. \A b \in 1 .. n + 1 : b \in 1 .. n + 2 /\ b # n + 2
    BY <1>2
  <2>4. code' = [b \in 1 .. n + 2 |-> IF b = n + 2 THEN last
                                       ELSE IF b = T THEN first ELSE moved[b]]
    BY <1>2, <2>1, <2>2
  <2>5. /\ code'[T] = first /\ code'[n + 2] = last
        /\ \A b \in 1 .. n + 1 : b # T => code'[b] = moved[b]
    BY <1>2, <2>2, <2>3, <2>4
  <2>6. DOMAIN code' = 1 .. n + 2 /\ code' = [b \in 1 .. n + 2 |-> code'[b]]
    BY <2>4
  <2> QED
    BY <2>5, <2>6 DEF first, last
<1>13. Sq(code') /\ Len(code') = n + 2
  <2>1. n + 2 \in Nat /\ code' = [b \in 1 .. n + 2 |-> code'[b]]
    BY <1>2, <1>12
  <2> HIDE DEF n
  <2> QED
    BY <2>1, SqFunction
<1>14. ASSUME NEW b \in 1 .. n, b # T
       PROVE  /\ Sq(code'[b]) /\ Len(code'[b]) = Len(code[b])
              /\ \A j \in 1 .. Len(code[b]) : code'[b][j] = After(code[b][j], b, T)
  <2>1. code'[b] = moved[b]
    BY <1>2, <1>12, <1>14
  <2>2. spliced[b] = code[b] /\ Sq(code[b])
    BY <1>7, <1>14
  <2> QED
    BY <1>11, <2>1, <2>2
<1>15. /\ Sq(code'[T]) /\ Len(code'[T]) = i
       /\ \A j \in 1 .. i - 1 : code'[T][j] = After(code[T][j], T, T)
       /\ code'[T][i] = bne
  <2>1. /\ Sq(moved[T]) /\ Len(moved[T]) = i - 1
        /\ \A j \in 1 .. i - 1 : moved[T][j] = After(code[T][j], T, T)
    <3>1. /\ Sq(moved[T]) /\ Len(moved[T]) = Len(pre)
          /\ \A j \in 1 .. Len(pre) : moved[T][j] = After(pre[j], T, T)
      BY <1>2, <1>4, <1>7, <1>11
    <3> QED
      BY <1>4, <3>1
  <2> HIDE DEF bne
  <2>2. /\ Sq(code'[T]) /\ Len(code'[T]) = (i - 1) + 1
        /\ \A j \in 1 .. i - 1 : code'[T][j] = moved[T][j]
        /\ code'[T][(i - 1) + 1] = bne
    BY <1>12, <2>1, SqAppend
  <2>3. (i - 1) + 1 = i
    BY <1>3
  <2>4. Sq(code'[T]) /\ Len(code'[T]) = i /\ code'[T][i] = bne
    BY <2>2, <2>3
  <2>5. ASSUME NEW j \in 1 .. i - 1 PROVE code'[T][j] = After(code[T][j], T, T)
    BY <2>1, <2>2
  <2> QED
    BY <2>4, <2>5
<1>16. code'[n + 1] = <<>>
  <2>1. n + 1 \in 1 .. n + 1
    BY <1>2
  <2>2. \A b \in 1 .. n + 1 : b # T => code'[b] = moved[b]
    BY <1>12
  <2> QED
    BY <1>2, <1>10, <2>1, <2>2
<1>17. /\ Sq(code'[n + 2]) /\ Len(code'[n + 2]) = Len(code[T]) - i + 1
       /\ code'[n + 2][1] = phi
       /\ \A j \in 2 .. Len(code[T]) - i + 1 : code'[n + 2][j] = code[T][i + j - 1]
  <2> DEFINE one == <<phi>>
  <2>1. Sq(one) /\ Len(one) = 1 /\ one[1] = phi
    BY SqPairs
  <2>2. code'[n + 2] = one \o post
    BY <1>10, <1>12
  <2> HIDE DEF one, phi
  <2>3. /\ Sq(one \o post) /\ Len(one \o post) = 1 + Len(post)
        /\ \A j \in 1 .. 1 + Len(post) :
             (one \o post)[j] = IF j <= 1 THEN one[j] ELSE post[j - 1]
    <3>1. /\ Sq(one \o post) /\ Len(one \o post) = Len(one) + Len(post)
          /\ \A j \in 1 .. Len(one) + Len(post) :
               (one \o post)[j] = IF j <= Len(one) THEN one[j] ELSE post[j - Len(one)]
      BY <1>5, <2>1, SqConcat
    <3> QED
      BY <2>1, <3>1
  <2>4. 1 + Len(post) = Len(code[T]) - i + 1 /\ 1 \in 1 .. 1 + Len(post)
    BY <1>3, <1>5
  <2>5. code'[n + 2][1] = phi
    BY <2>1, <2>2, <2>3, <2>4
  <2>6. ASSUME NEW j \in 2 .. Len(code[T]) - i + 1
        PROVE  code'[n + 2][j] = code[T][i + j - 1]
    <3>1. j \in 1 .. 1 + Len(post) /\ ~(j <= 1) /\ j - 1 \in 1 .. Len(code[T]) - i
      BY <1>3, <2>4
    <3>2. code'[n + 2][j] = post[j - 1]
      BY <2>2, <2>3, <3>1
    <3>3. post[j - 1] = code[T][i + (j - 1)] /\ i + (j - 1) = i + j - 1
      BY <1>3, <1>5, <3>1
    <3> QED
      BY <3>2, <3>3
  <2> QED
    BY <2>2, <2>3, <2>4, <2>5, <2>6
<1>18. phi.op = "PHI" /\ DOMAIN phi.in = {T, n + 1}
  BY DEF PHI
<1> HIDE DEF bne, phi
<1>21. code'[n + 2][1] = PHI(code[T][i].d, [q \in {T, n + 1} |->
                                IF q = T THEN code[T][i].ops[2] ELSE code[T][i].ops[3]])
  BY <1>17 DEF phi
<1> HIDE DEF MI
<1>19. bne = BNE(code[T][i].ops[1], n + 2)
  BY DEF MI, bne
<1>20. /\ code'[n + 2][1].op = "PHI" /\ DOMAIN code'[n + 2][1].in = {T, n + 1}
  BY <1>17, <1>18
<1> HIDE DEF n
<1> QED
  BY <1>13, <1>14, <1>15, <1>16, <1>17, <1>19, <1>20, <1>21 DEF n

(* The edges it records.                                                   *)
LEMMA EmittedEdges ==
  ASSUME NEW T, NEW i,
         Sq(succ), Len(succ) = Len(code), T \in 1 .. Len(code), emitSelectCC(T, i)
  PROVE  /\ Sq(succ') /\ Len(succ') = Len(code) + 2
         /\ \A b \in 1 .. Len(code) : b # T => succ'[b] = succ[b]
         /\ succ'[T] = {Len(code) + 1, Len(code) + 2}
         /\ succ'[Len(code) + 1] = {Len(code) + 2}
         /\ succ'[Len(code) + 2] = succ[T]
<1> DEFINE n   == Len(code)
           cut == [succ EXCEPT ![T] = {n + 1, n + 2}]
           new == << {n + 2}, succ[T] >>
<1>1. succ' = cut \o new
  BY DEF emitSelectCC
<1>2. n \in Nat /\ DOMAIN succ = 1 .. n /\ T \in 1 .. n
  BY SqFacts
<1>3. Sq(cut) /\ Len(cut) = n
  <2>1. cut = [j \in 1 .. n |-> cut[j]]
    BY <1>2
  <2> QED
    BY <1>2, <2>1, SqFunction
<1>4. cut[T] = {n + 1, n + 2} /\ \A b \in 1 .. n : b # T => cut[b] = succ[b]
  BY <1>2
<1>5. Sq(new) /\ Len(new) = 2 /\ new[1] = {n + 2} /\ new[2] = succ[T]
  BY SqPairs
<1> HIDE DEF cut, new
<1>6. /\ Sq(cut \o new) /\ Len(cut \o new) = n + 2
      /\ \A j \in 1 .. n + 2 : (cut \o new)[j] = IF j <= n THEN cut[j] ELSE new[j - n]
  <2>1. /\ Sq(cut \o new) /\ Len(cut \o new) = Len(cut) + Len(new)
        /\ \A j \in 1 .. Len(cut) + Len(new) :
             (cut \o new)[j] = IF j <= Len(cut) THEN cut[j] ELSE new[j - Len(cut)]
    BY <1>3, <1>5, SqConcat
  <2> QED
    BY <1>3, <1>5, <2>1
<1>7. (n + 1) - n = 1 /\ (n + 2) - n = 2 /\ ~(n + 1 <= n) /\ ~(n + 2 <= n)
  BY <1>2
<1>8. n + 1 \in 1 .. n + 2 /\ n + 2 \in 1 .. n + 2 /\ \A b \in 1 .. n : b \in 1 .. n + 2 /\ b <= n
  BY <1>2
<1> DEFINE all == cut \o new
<1>9. succ' = all
  BY <1>1
<1>10. \A j \in 1 .. n + 2 : all[j] = IF j <= n THEN cut[j] ELSE new[j - n]
  BY <1>6
<1>11. Sq(all) /\ Len(all) = n + 2
  BY <1>6
<1> HIDE DEF n, all
<1>12. all[n + 1] = new[1] /\ all[n + 2] = new[2]
  BY <1>7, <1>8, <1>10
<1>13. \A b \in 1 .. n : all[b] = cut[b]
  BY <1>8, <1>10
<1>14. /\ Sq(succ') /\ Len(succ') = n + 2
       /\ \A b \in 1 .. n : b # T => succ'[b] = succ[b]
       /\ succ'[T] = {n + 1, n + 2} /\ succ'[n + 1] = {n + 2} /\ succ'[n + 2] = succ[T]
  BY <1>2, <1>4, <1>5, <1>9, <1>11, <1>12, <1>13
<1> QED
  BY <1>14 DEF n

(* Where the new blocks go.                                                *)
Only(T, p) ==
  p \in 1 .. Len(layout) /\ \A q \in 1 .. Len(layout) : layout[q] = T <=> q = p

LEMMA EmittedLayout ==
  ASSUME NEW T, NEW i, NEW p, Sq(layout), Only(T, p), emitSelectCC(T, i)
  PROVE  /\ Sq(layout') /\ Len(layout') = Len(layout) + 2
         /\ \A q \in 1 .. p : layout'[q] = layout[q]
         /\ layout'[p + 1] = Len(code) + 1 /\ layout'[p + 2] = Len(code) + 2
         /\ \A q \in p + 1 .. Len(layout) : layout'[q + 2] = layout[q]
<1> DEFINE n    == Len(layout)
           pre  == SubSeq(layout, 1, p)
           new  == <<Len(code) + 1, Len(code) + 2>>
           post == SubSeq(layout, p + 1, n)
<1>1. n \in Nat /\ DOMAIN layout = 1 .. n /\ p \in 1 .. n
  BY SqFacts DEF Only
<1>2. layout' = (pre \o new) \o post
  <2>1. p = CHOOSE q \in DOMAIN layout : layout[q] = T
    BY <1>1 DEF Only
  <2>2. layout' = insertBlocks(T, Len(code) + 1, Len(code) + 2)
    BY DEF emitSelectCC
  <2> QED
    BY <2>1, <2>2 DEF insertBlocks
<1>3. /\ Sq(pre) /\ Len(pre) = p
      /\ \A q \in 1 .. p : pre[q] = layout[q]
  <2>1. 1 \in 1 .. n + 1 /\ p \in 1 - 1 .. n
    BY <1>1
  <2>2. /\ Sq(pre) /\ Len(pre) = p - 1 + 1
        /\ \A q \in 1 .. p - 1 + 1 : pre[q] = layout[1 + q - 1]
    BY <2>1, SqSub
  <2> HIDE DEF pre
  <2>3. p - 1 + 1 = p /\ \A q \in 1 .. p : 1 + q - 1 = q
    BY <1>1
  <2> QED
    BY <2>2, <2>3
<1>4. /\ Sq(post) /\ Len(post) = n - p
      /\ \A q \in 1 .. n - p : post[q] = layout[p + q]
  <2>1. p + 1 \in 1 .. n + 1 /\ n \in (p + 1) - 1 .. n
    BY <1>1
  <2>2. /\ Sq(post) /\ Len(post) = n - (p + 1) + 1
        /\ \A q \in 1 .. n - (p + 1) + 1 : post[q] = layout[(p + 1) + q - 1]
    BY <2>1, SqSub
  <2> HIDE DEF post
  <2>3. n - (p + 1) + 1 = n - p /\ \A q \in 1 .. n - p : (p + 1) + q - 1 = p + q
    BY <1>1
  <2> QED
    BY <2>2, <2>3
<1>5. Sq(new) /\ Len(new) = 2 /\ new[1] = Len(code) + 1 /\ new[2] = Len(code) + 2
  BY SqPairs
<1> HIDE DEF pre, new, post
<1>6. /\ Sq(pre \o new) /\ Len(pre \o new) = p + 2
      /\ \A q \in 1 .. p + 2 : (pre \o new)[q] = IF q <= p THEN pre[q] ELSE new[q - p]
  <2>1. /\ Sq(pre \o new) /\ Len(pre \o new) = Len(pre) + Len(new)
        /\ \A q \in 1 .. Len(pre) + Len(new) :
             (pre \o new)[q] = IF q <= Len(pre) THEN pre[q] ELSE new[q - Len(pre)]
    <3>1. Sq(pre) /\ Sq(new)
      BY <1>3, <1>5
    <3> QED
      BY <3>1, SqConcat
  <2> QED
    BY <1>3, <1>5, <2>1
<1> DEFINE front == pre \o new
<1>7. /\ front[p + 1] = Len(code) + 1 /\ front[p + 2] = Len(code) + 2
      /\ \A q \in 1 .. p : front[q] = layout[q]
  <2>1. /\ p + 1 \in 1 .. p + 2 /\ p + 2 \in 1 .. p + 2 /\ ~(p + 1 <= p) /\ ~(p + 2 <= p)
        /\ (p + 1) - p = 1 /\ (p + 2) - p = 2
        /\ \A q \in 1 .. p : q \in 1 .. p + 2 /\ q <= p
    BY <1>1
  <2> QED
    BY <1>3, <1>5, <1>6, <2>1
<1>8. Sq(front) /\ Len(front) = p + 2 /\ layout' = front \o post
  BY <1>2, <1>6
<1> HIDE DEF front
<1>9. /\ Sq(layout') /\ Len(layout') = n + 2
      /\ \A q \in 1 .. n + 2 : layout'[q] = IF q <= p + 2 THEN front[q] ELSE post[q - (p + 2)]
  <2>1. /\ Sq(front \o post) /\ Len(front \o post) = Len(front) + Len(post)
        /\ \A q \in 1 .. Len(front) + Len(post) :
             (front \o post)[q] = IF q <= Len(front) THEN front[q] ELSE post[q - Len(front)]
    BY <1>4, <1>8, SqConcat
  <2>2. Len(front) + Len(post) = n + 2
    BY <1>1, <1>4, <1>8
  <2> QED
    BY <1>8, <2>1, <2>2
<1>10. /\ p + 1 \in 1 .. n + 2 /\ p + 2 \in 1 .. n + 2 /\ p + 1 <= p + 2 /\ p + 2 <= p + 2
       /\ \A q \in 1 .. p : q \in 1 .. n + 2 /\ q <= p + 2
  BY <1>1
<1>11. ASSUME NEW q \in p + 1 .. n PROVE layout'[q + 2] = layout[q]
  <2>1. q + 2 \in 1 .. n + 2 /\ ~(q + 2 <= p + 2) /\ (q + 2) - (p + 2) = q - p
        /\ q - p \in 1 .. n - p /\ p + (q - p) = q
    BY <1>1
  <2>2. layout'[q + 2] = post[q - p]
    BY <1>9, <2>1
  <2> QED
    BY <1>4, <2>1, <2>2
<1>12. \A q \in 1 .. p : layout'[q] = layout[q]
  BY <1>7, <1>9, <1>10
<1>13. layout'[p + 1] = Len(code) + 1 /\ layout'[p + 2] = Len(code) + 2
  BY <1>7, <1>9, <1>10
<1> QED
  BY <1>9, <1>11, <1>12, <1>13

--------------------------------------------------------------------------------
(* Where control goes, position by position.                               *)
LEMMA BehindOf ==
  ASSUME NEW order, Sq(order), NEW p \in 1 .. Len(order),
         \A q \in 1 .. Len(order) : order[q] = order[p] => q = p
  PROVE  Behind(order, order[p]) = IF p < Len(order) THEN {order[p + 1]} ELSE {}
<1>1. Len(order) \in Nat
  BY SqFacts
<1>2. CASE p < Len(order)
  <2>1. {q \in 1 .. Len(order) - 1 : order[q] = order[p]} = {p}
    BY <1>1, <1>2
  <2> QED
    BY <1>2, <2>1 DEF Behind
<1>3. CASE ~(p < Len(order))
  <2>1. {q \in 1 .. Len(order) - 1 : order[q] = order[p]} = {}
    BY <1>1, <1>3
  <2> QED
    BY <1>3, <2>1 DEF Behind
<1> QED
  BY <1>2, <1>3

LEMMA FallsOf ==
  ASSUME NEW s, Sq(s)
  PROVE  Falls(s) <=> (Len(s) = 0 \/ s[Len(s)].op \notin {"J", "RET_N"})
<1>1. s = <<>> <=> Len(s) = 0
  BY EmptySeq DEF Sq
<1>2. Last(s) = s[Len(s)]
  BY DEF Last
<1> QED
  BY <1>1, <1>2 DEF Falls

Jumps == {"BNE", "BNEZ", "J"}
Goes(x) == x.ops[Len(x.ops)]

LEMMA TargetsOf ==
  ASSUME NEW s, Sq(s)
  PROVE  \A b : b \in Targets(s) <=>
                  \E j \in 1 .. Len(s) : s[j].op \in Jumps /\ b = Goes(s[j])
  BY SqFacts DEF Targets, Jumps, Goes

(* Blocks with the same branches in the same places send control the same  *)
(* way.                                                                    *)
LEMMA SameControl ==
  ASSUME NEW s, NEW t, Sq(s), Sq(t), Len(t) = Len(s),
         \A j \in 1 .. Len(s) : s[j].op \in Branches \/ t[j].op \in Branches => t[j] = s[j]
  PROVE  Targets(t) = Targets(s) /\ (Falls(t) <=> Falls(s))
<1>1. Len(s) \in Nat
  BY SqFacts
<1>2. Falls(t) <=> Falls(s)
  <2>1. Len(s) # 0 => Len(s) \in 1 .. Len(s)
    BY <1>1
  <2>2. Len(s) # 0 => (t[Len(t)].op \in {"J", "RET_N"} <=> s[Len(s)].op \in {"J", "RET_N"})
    BY <2>1 DEF Branches
  <2>3. Falls(s) <=> (Len(s) = 0 \/ s[Len(s)].op \notin {"J", "RET_N"})
    BY FallsOf
  <2>4. Falls(t) <=> (Len(t) = 0 \/ t[Len(t)].op \notin {"J", "RET_N"})
    BY FallsOf
  <2> QED
    BY <2>2, <2>3, <2>4
<1>3. Targets(t) = Targets(s)
  <2>1. \A b : b \in Targets(s) <=> \E j \in 1 .. Len(s) : s[j].op \in Jumps /\ b = Goes(s[j])
    BY TargetsOf
  <2>2. \A b : b \in Targets(t) <=> \E j \in 1 .. Len(t) : t[j].op \in Jumps /\ b = Goes(t[j])
    BY TargetsOf
  <2>3. ASSUME NEW j \in 1 .. Len(s)
        PROVE  s[j].op \in Jumps \/ t[j].op \in Jumps => t[j] = s[j]
    BY DEF Jumps, Branches
  <2>4. \A b : b \in Targets(t) <=> b \in Targets(s)
    BY <2>1, <2>2, <2>3
  <2> QED
    BY <2>4
<1> QED
  BY <1>2, <1>3

--------------------------------------------------------------------------------
(***************************************************************************)
(* The inductive invariant.  Shape: the graph is a graph, and its layout a *)
(* permutation.  Coded: the code is that of its stage.  Ordered: phis are  *)
(* first in their block, and no branch is ahead of a select; a select      *)
(* behind a branch would take the branch out of its block's end.  Scanned: *)
(* no pseudo is left in the blocks ahead of the scan.                      *)
(***************************************************************************)
Shape ==
  /\ Sq(code) /\ Len(code) # 0 /\ Sq(succ) /\ Len(succ) = Len(code)
  /\ \A b \in 1 .. Len(code) : Sq(code[b]) /\ succ[b] \subseteq 1 .. Len(code)
  /\ Sq(layout) /\ Len(layout) = Len(code)
  /\ \A p \in 1 .. Len(code) : layout[p] \in 1 .. Len(code)
  /\ \A p, q \in 1 .. Len(code) : layout[p] = layout[q] => p = q
  /\ \A b \in 1 .. Len(code) : \E p \in 1 .. Len(code) : layout[p] = b

Coded ==
  /\ stage \in {"dag", "pseudo", "expanded"}
  /\ mbb \in 0 .. Len(code)
  /\ \A b \in 1 .. Len(code) : \A j \in 1 .. Len(code[b]) :
       /\ code[b][j].op \in Opcodes
       /\ code[b][j].op = "select" => code[b][j].form \in Forms

Selects == {"select", "SELECT_CC"}

Ordered ==
  \A b \in 1 .. Len(code) : \A j \in 1 .. Len(code[b]) : \A k \in 1 .. j - 1 :
    /\ code[b][j].op = "PHI" => code[b][k].op = "PHI"
    /\ code[b][j].op \in Selects => code[b][k].op \notin Branches

Entries ==
  \A b \in 1 .. Len(code) : \A j \in 1 .. Len(code[b]) :
    code[b][j].op = "PHI" => DOMAIN code[b][j].in = Predecessors(succ, b)

Edges ==
  \A b \in 1 .. Len(code) : succ[b] = Destinations(code, layout, b)

Scanned ==
  stage = "pseudo" =>
    /\ mbb \in 1 .. Len(code)
    /\ \A p, q \in 1 .. Len(code) : layout[q] = mbb /\ p < q =>
         \A j \in 1 .. Len(code[layout[p]]) : code[layout[p]][j].op # "SELECT_CC"

SelectInv == Shape /\ Coded /\ Ordered /\ Entries /\ Edges /\ Scanned

LEMMA OpcodesOf ==
  /\ stage = "dag" =>
       Opcodes = {"PHI", "dec", "use", "BNEZ", "J", "RET_N", "select"}
  /\ stage = "pseudo" =>
       Opcodes = {"PHI", "dec", "use", "BNEZ", "J", "RET_N", "SELECT_CC", "BNE"}
  /\ stage = "expanded" =>
       Opcodes = {"PHI", "dec", "use", "BNEZ", "J", "RET_N", "BNE"}
<1>1. CASE stage = "dag"
  BY <1>1 DEF Opcodes
<1>2. CASE stage = "pseudo"
  BY <1>2 DEF Opcodes
<1>3. CASE stage = "expanded"
  BY <1>3 DEF Opcodes
<1> QED
  BY <1>1, <1>2, <1>3

LEMMA ShapeFacts ==
  ASSUME Shape
  PROVE  /\ Len(code) \in Nat \ {0}
         /\ DOMAIN code = 1 .. Len(code) /\ DOMAIN succ = 1 .. Len(code)
         /\ DOMAIN layout = 1 .. Len(code)
         /\ \A b \in 1 .. Len(code) :
              Len(code[b]) \in Nat /\ DOMAIN code[b] = 1 .. Len(code[b])
<1>1. Sq(code) /\ Sq(succ) /\ Sq(layout) /\ \A b \in 1 .. Len(code) : Sq(code[b])
  BY DEF Shape
<1>2. Len(code) \in Nat /\ DOMAIN code = 1 .. Len(code)
  BY <1>1, SqFacts
<1>3. DOMAIN succ = 1 .. Len(succ)
  BY <1>1, SqFacts
<1>4. DOMAIN layout = 1 .. Len(layout)
  BY <1>1, SqFacts
<1>5. ASSUME NEW b \in 1 .. Len(code)
      PROVE  Len(code[b]) \in Nat /\ DOMAIN code[b] = 1 .. Len(code[b])
  BY <1>1, SqFacts
<1> QED
  BY <1>2, <1>3, <1>4, <1>5 DEF Shape

(* The invariant is at least as strong as what the runs check.             *)
LEMMA SelectInvImplies ==
  ASSUME SelectInv
  PROVE  TypeOK /\ SuccessorsAreDestinations /\ PhisMatchPredecessors
<1> USE DEF SelectInv
<1>1. /\ Len(code) \in Nat \ {0}
      /\ DOMAIN code = 1 .. Len(code) /\ DOMAIN succ = 1 .. Len(code)
      /\ DOMAIN layout = 1 .. Len(code)
      /\ \A b \in 1 .. Len(code) :
           Len(code[b]) \in Nat /\ DOMAIN code[b] = 1 .. Len(code[b])
  BY ShapeFacts
<1>2. ToSet(layout) = 1 .. Len(code)
  BY <1>1 DEF Shape, ToSet
<1>3. TypeOK
  <2>1. mbb \in {0} \cup 1 .. Len(code)
    BY <1>1 DEF Coded
  <2> QED
    BY <1>1, <1>2, <2>1 DEF TypeOK, Shape, Coded, Blocks
<1>4. SuccessorsAreDestinations
  BY <1>1 DEF SuccessorsAreDestinations, Edges, Blocks
<1>5. PhisMatchPredecessors
  <2> SUFFICES ASSUME NEW b \in 1 .. Len(code), NEW j \in 1 .. Len(code[b]),
                      code[b][j].op = "PHI"
               PROVE  /\ DOMAIN code[b][j].in = Predecessors(succ, b)
                      /\ j > 1 => code[b][j - 1].op = "PHI"
    BY <1>1 DEF PhisMatchPredecessors, Blocks
  <2>1. j > 1 => j - 1 \in 1 .. j - 1
    BY <1>1
  <2> QED
    BY <2>1 DEF Entries, Ordered
<1> QED
  BY <1>3, <1>4, <1>5

(* A function as selection gets it satisfies it.                           *)
LEMMA SelectInvInit ==
  ASSUME Init
  PROVE  SelectInv
<1>1. PICK f \in Functions : /\ code = f.code /\ succ = f.succ /\ layout = f.layout
                             /\ mbb = 0 /\ stage = "dag"
  BY DEF Init
<1>2. /\ code # <<>>
      /\ code \in Seq(ToSet(code))
      /\ succ \in Seq(ToSet(succ)) /\ Len(succ) = Len(code)
      /\ layout \in Seq(DOMAIN code) /\ Len(layout) = Len(code)
      /\ ToSet(layout) = DOMAIN code
      /\ \A p, q \in DOMAIN layout : layout[p] = layout[q] => p = q
      /\ \A b \in DOMAIN code : WellFormedBlock(f, b)
  BY <1>1, GraphsAssumption DEF WellFormed
<1>3. Sq(code) /\ Sq(succ) /\ Sq(layout) /\ Len(code) # 0
  <2>1. Sq(layout)
    BY <1>2, SqOf
  <2>2. Len(code) # 0
    BY <1>2, EmptySeq
  <2> QED
    BY <1>2, <2>1, <2>2 DEF Sq
<1>4. DOMAIN code = 1 .. Len(code) /\ Len(code) \in Nat
  BY <1>3, SqFacts
<1>5. DOMAIN layout = 1 .. Len(code)
  BY <1>2, <1>3, SqFacts
<1>6. ASSUME NEW b \in 1 .. Len(code)
      PROVE  /\ Sq(code[b])
             /\ DOMAIN code[b] = 1 .. Len(code[b])
             /\ succ[b] \subseteq 1 .. Len(code)
             /\ succ[b] = Destinations(code, layout, b)
             /\ \A j \in DOMAIN code[b] :
                  /\ code[b][j].op \in {"PHI", "select", "dec", "use", "BNEZ", "J", "RET_N"}
                  /\ code[b][j].op = "select" => code[b][j].form \in Forms
                  /\ code[b][j].op = "PHI" => DOMAIN code[b][j].in = Predecessors(succ, b)
                  /\ \A k \in 1 .. j - 1 :
                       /\ code[b][j].op = "PHI" => code[b][k].op = "PHI"
                       /\ code[b][j].op = "select" => code[b][k].op \notin Branches
  <2>1. WellFormedBlock(f, b)
    BY <1>2, <1>4
  <2>2. Sq(code[b])
    BY <1>1, <2>1 DEF WellFormedBlock, Sq
  <2>3. DOMAIN code[b] = 1 .. Len(code[b])
    BY <2>2, SqFacts
  <2> QED
    BY <1>1, <1>4, <2>1, <2>2, <2>3 DEF WellFormedBlock
<1>7. Shape
  <2>1. \A p \in 1 .. Len(code) : layout[p] \in 1 .. Len(code)
    BY <1>2, <1>4, <1>5, ElementOfSeq
  <2>2. \A b \in 1 .. Len(code) : \E p \in 1 .. Len(code) : layout[p] = b
    BY <1>2, <1>4, <1>5 DEF ToSet
  <2> QED
    BY <1>2, <1>3, <1>5, <1>6, <2>1, <2>2 DEF Shape
<1>8. Coded
  <2>1. Opcodes = {"PHI", "dec", "use", "BNEZ", "J", "RET_N", "select"}
    BY <1>1, OpcodesOf
  <2> QED
    BY <1>1, <1>4, <1>6, <2>1 DEF Coded
<1>9. Ordered
  <2> SUFFICES ASSUME NEW b \in 1 .. Len(code), NEW j \in 1 .. Len(code[b]),
                      NEW k \in 1 .. j - 1
               PROVE  /\ code[b][j].op = "PHI" => code[b][k].op = "PHI"
                      /\ code[b][j].op \in Selects => code[b][k].op \notin Branches
    BY DEF Ordered
  <2>1. j \in DOMAIN code[b] /\ code[b][j].op # "SELECT_CC"
    BY <1>6
  <2> QED
    BY <1>6, <2>1 DEF Selects
<1>10. Entries
  BY <1>6 DEF Entries
<1>11. Edges
  BY <1>6 DEF Edges
<1>12. Scanned
  BY <1>1 DEF Scanned
<1> QED
  BY <1>7, <1>8, <1>9, <1>10, <1>11, <1>12 DEF SelectInv

--------------------------------------------------------------------------------
(* Selection replaces the selects and nothing else.                        *)
LEMMA SelectedCode ==
  ASSUME SelectInv, Select
  PROVE  /\ Sq(code') /\ Len(code') = Len(code)
         /\ \A b \in 1 .. Len(code) :
              /\ Sq(code'[b]) /\ Len(code'[b]) = Len(code[b])
              /\ \A j \in 1 .. Len(code[b]) :
                   /\ code[b][j].op = "select" =>
                        code'[b][j] = SelectPattern(code[b][j])
                          /\ code'[b][j].op = "SELECT_CC"
                   /\ code[b][j].op # "select" => code'[b][j] = code[b][j]
<1> DEFINE New(x) == IF x.op = "select" THEN SelectPattern(x) ELSE x
<1>1. Shape /\ Coded
  BY DEF SelectInv
<1>2. /\ Len(code) \in Nat /\ DOMAIN code = 1 .. Len(code)
      /\ \A b \in 1 .. Len(code) :
           Len(code[b]) \in Nat /\ DOMAIN code[b] = 1 .. Len(code[b])
  BY <1>1, ShapeFacts
<1>3. code' = [b \in 1 .. Len(code) |-> [j \in DOMAIN code[b] |-> New(code[b][j])]]
  BY <1>2 DEF Select, Blocks
<1>4. ASSUME NEW b \in 1 .. Len(code), NEW j \in 1 .. Len(code[b])
      PROVE  /\ code[b][j].op = "select" =>
                  New(code[b][j]) = SelectPattern(code[b][j])
                    /\ New(code[b][j]).op = "SELECT_CC"
             /\ code[b][j].op # "select" => New(code[b][j]) = code[b][j]
  <2>1. code[b][j].op = "select" => code[b][j].form \in {"val", "ne0", "eq0"}
    BY <1>1 DEF Coded, Forms
  <2> QED
    BY <2>1 DEF SelectPattern, SELECT_CC
<1> HIDE DEF New
<1>5. Sq(code') /\ Len(code') = Len(code)
  <2>1. code' = [b \in 1 .. Len(code) |-> code'[b]]
    BY <1>3
  <2> QED
    BY <1>2, <2>1, SqFunction
<1>6. ASSUME NEW b \in 1 .. Len(code)
      PROVE  /\ Sq(code'[b]) /\ Len(code'[b]) = Len(code[b])
             /\ \A j \in 1 .. Len(code[b]) :
                  /\ code[b][j].op = "select" =>
                       code'[b][j] = SelectPattern(code[b][j])
                         /\ code'[b][j].op = "SELECT_CC"
                  /\ code[b][j].op # "select" => code'[b][j] = code[b][j]
  <2>1. code'[b] = [j \in 1 .. Len(code[b]) |-> New(code[b][j])]
    BY <1>2, <1>3
  <2>2. code'[b] = [j \in 1 .. Len(code[b]) |-> code'[b][j]]
    BY <2>1
  <2>3. Sq(code'[b]) /\ Len(code'[b]) = Len(code[b])
    BY <1>2, <2>2, SqFunction
  <2>4. \A j \in 1 .. Len(code[b]) : code'[b][j] = New(code[b][j])
    BY <2>1
  <2> QED
    BY <1>4, <2>3, <2>4
<1> QED
  BY <1>5, <1>6

LEMMA SelectInvSelect ==
  ASSUME SelectInv, Select
  PROVE  SelectInv'
<1>1. Shape /\ Coded /\ Ordered /\ Entries /\ Edges
  BY DEF SelectInv
<1>2. /\ stage = "dag" /\ stage' = "pseudo" /\ mbb' = layout[1]
      /\ succ' = succ /\ layout' = layout
  BY DEF Select
<1>3. /\ Sq(code') /\ Len(code') = Len(code)
      /\ \A b \in 1 .. Len(code) :
           /\ Sq(code'[b]) /\ Len(code'[b]) = Len(code[b])
           /\ \A j \in 1 .. Len(code[b]) :
                /\ code[b][j].op = "select" => code'[b][j].op = "SELECT_CC"
                /\ code[b][j].op # "select" => code'[b][j] = code[b][j]
  BY SelectedCode
<1>4. /\ Len(code) \in Nat \ {0}
      /\ \A b \in 1 .. Len(code) : Len(code[b]) \in Nat
  BY <1>1, ShapeFacts
<1>5. layout[1] \in 1 .. Len(code) /\ 1 \in 1 .. Len(code)
  BY <1>1, <1>4 DEF Shape
<1>6. ASSUME NEW b \in 1 .. Len(code), NEW j \in 1 .. Len(code[b])
      PROVE  /\ code[b][j].op \in {"PHI", "dec", "use", "BNEZ", "J", "RET_N", "select"}
             /\ code'[b][j].op \in {"PHI", "dec", "use", "BNEZ", "J", "RET_N", "SELECT_CC"}
             /\ code'[b][j].op \in {"PHI", "dec", "use", "BNEZ", "J", "RET_N"} =>
                  code'[b][j] = code[b][j]
             /\ code'[b][j].op \in Selects => code[b][j].op \in Selects
  <2>1. Opcodes = {"PHI", "dec", "use", "BNEZ", "J", "RET_N", "select"}
    BY <1>2, OpcodesOf
  <2>2. code[b][j].op \in {"PHI", "dec", "use", "BNEZ", "J", "RET_N", "select"}
    BY <1>1, <2>1 DEF Coded
  <2>3. CASE code[b][j].op = "select"
    BY <1>3, <2>2, <2>3 DEF Selects
  <2>4. CASE code[b][j].op # "select"
    BY <1>3, <2>2, <2>4
  <2> QED
    BY <2>3, <2>4
<1>7. Shape'
  BY <1>1, <1>2, <1>3 DEF Shape
<1>8. Coded'
  <2>1. Opcodes' = {"PHI", "dec", "use", "BNEZ", "J", "RET_N", "SELECT_CC", "BNE"}
    BY <1>2 DEF Opcodes
  <2>2. mbb' \in 0 .. Len(code)
    BY <1>2, <1>4, <1>5
  <2>3. ASSUME NEW b \in 1 .. Len(code), NEW j \in 1 .. Len(code[b])
        PROVE  code'[b][j].op \in Opcodes' /\ code'[b][j].op # "select"
    BY <1>6, <2>1
  <2> QED
    BY <1>2, <1>3, <2>2, <2>3 DEF Coded
<1>9. Ordered'
  <2>1. ASSUME NEW b \in 1 .. Len(code), NEW j \in 1 .. Len(code[b]), NEW k \in 1 .. j - 1
        PROVE  /\ code'[b][j].op = "PHI" => code'[b][k].op = "PHI"
               /\ code'[b][j].op \in Selects => code'[b][k].op \notin Branches
    <3>1. k \in 1 .. Len(code[b])
      BY <1>4
    <3>2. /\ code[b][j].op = "PHI" => code[b][k].op = "PHI"
          /\ code[b][j].op \in Selects => code[b][k].op \notin Branches
      BY <1>1 DEF Ordered
    <3>3. code'[b][j].op = "PHI" => code[b][j].op = "PHI"
      BY <1>6
    <3>4. code[b][k].op = "PHI" => code'[b][k].op = "PHI"
      BY <1>3, <3>1
    <3>5. code'[b][k].op \in Branches => code[b][k].op \in Branches
      <4>1. code'[b][k].op \in Branches =>
              code'[b][k].op \in {"PHI", "dec", "use", "BNEZ", "J", "RET_N"}
        BY <1>6, <3>1 DEF Branches
      <4> QED
        BY <1>6, <3>1, <4>1
    <3>6. code'[b][j].op \in Selects => code[b][j].op \in Selects
      BY <1>6
    <3> QED
      BY <3>2, <3>3, <3>4, <3>5, <3>6
  <2> QED
    BY <1>3, <2>1 DEF Ordered
<1>10. Entries'
  <2>1. ASSUME NEW b \in 1 .. Len(code), NEW j \in 1 .. Len(code[b]),
               code'[b][j].op = "PHI"
        PROVE  DOMAIN code'[b][j].in = Predecessors(succ, b)
    <3>1. code'[b][j] = code[b][j]
      BY <1>6, <2>1
    <3> QED
      BY <1>1, <2>1, <3>1 DEF Entries
  <2>2. \A b : Predecessors(succ, b)' = Predecessors(succ, b)
    BY <1>2 DEF Predecessors
  <2> QED
    BY <1>2, <1>3, <2>1 DEF Entries, Predecessors
<1>11. Edges'
  <2>1. ASSUME NEW b \in 1 .. Len(code)
        PROVE  Targets(code'[b]) = Targets(code[b]) /\ (Falls(code'[b]) <=> Falls(code[b]))
    <3>1. Sq(code[b]) /\ Sq(code'[b]) /\ Len(code'[b]) = Len(code[b])
      BY <1>1, <1>3 DEF Shape
    <3>2. ASSUME NEW j \in 1 .. Len(code[b])
          PROVE  code[b][j].op \in Branches \/ code'[b][j].op \in Branches =>
                   code'[b][j] = code[b][j]
      <4>1. code'[b][j].op \in Branches =>
              code'[b][j].op \in {"PHI", "dec", "use", "BNEZ", "J", "RET_N"}
        BY <1>6 DEF Branches
      <4>2. code[b][j].op \in Branches => code[b][j].op # "select"
        BY DEF Branches
      <4> QED
        BY <1>3, <1>6, <4>1, <4>2
    <3> QED
      BY <3>1, <3>2, SameControl
  <2>2. ASSUME NEW b \in 1 .. Len(code)
        PROVE  succ'[b] = Targets(code'[b]) \cup
                            (IF Falls(code'[b]) THEN Behind(layout', b) ELSE {})
    <3>1. succ[b] = Targets(code[b]) \cup (IF Falls(code[b]) THEN Behind(layout, b) ELSE {})
      BY <1>1 DEF Edges, Destinations
    <3> QED
      BY <1>2, <2>1, <3>1
  <2> QED
    BY <1>2, <1>3, <2>2 DEF Edges, Destinations
<1>12. Scanned'
  <2>1. ASSUME NEW p \in 1 .. Len(code), NEW q \in 1 .. Len(code),
               layout[q] = layout[1], p < q
        PROVE  FALSE
    <3>1. q = 1
      BY <1>1, <1>5, <2>1 DEF Shape
    <3> QED
      BY <2>1, <3>1
  <2> QED
    BY <1>2, <1>3, <1>5, <2>1 DEF Scanned
<1> QED
  BY <1>7, <1>8, <1>9, <1>10, <1>11, <1>12 DEF SelectInv

(* The scan ends when no pseudo is left: none is behind it.                *)
LEMMA PendingOf ==
  ASSUME Shape
  PROVE  \A a : a \in Pending <=>
           \E p \in 1 .. Len(code) : \E j \in 1 .. Len(code[layout[p]]) :
             /\ a = <<p, j>> /\ code[layout[p]][j].op = "SELECT_CC"
             /\ \E q \in 1 .. p : layout[q] = mbb
<1>1. /\ Len(code) \in Nat /\ DOMAIN layout = 1 .. Len(code) /\ Sq(layout)
      /\ Len(layout) = Len(code)
      /\ \A b \in 1 .. Len(code) : DOMAIN code[b] = 1 .. Len(code[b])
      /\ \A p \in 1 .. Len(code) : layout[p] \in 1 .. Len(code)
  BY ShapeFacts DEF Shape
<1>2. ASSUME NEW p \in 1 .. Len(code)
      PROVE  mbb \in ToSet(SubSeq(layout, 1, p)) <=> \E q \in 1 .. p : layout[q] = mbb
  <2> DEFINE s == SubSeq(layout, 1, p)
  <2>1. 1 \in 1 .. Len(layout) + 1 /\ p \in 1 - 1 .. Len(layout)
    BY <1>1
  <2>2. /\ Sq(s) /\ Len(s) = p - 1 + 1
        /\ \A q \in 1 .. p - 1 + 1 : s[q] = layout[1 + q - 1]
    BY <1>1, <2>1, SqSub
  <2> HIDE DEF s
  <2>3. p - 1 + 1 = p /\ \A q \in 1 .. p : 1 + q - 1 = q
    BY <1>1
  <2>4. DOMAIN s = 1 .. p /\ \A q \in 1 .. p : s[q] = layout[q]
    BY <2>2, <2>3, SqFacts
  <2>5. mbb \in ToSet(s) <=> \E q \in 1 .. p : layout[q] = mbb
    BY <2>4 DEF ToSet
  <2> QED
    BY <2>5 DEF s
<1> DEFINE At(p) == {<<p, j>> : j \in {k \in DOMAIN code[layout[p]] :
                                        code[layout[p]][k].op = "SELECT_CC"}}
           Ps == {q \in DOMAIN layout : mbb \in ToSet(SubSeq(layout, 1, q))}
<1>3. Pending = UNION {At(p) : p \in Ps}
  BY DEF Pending
<1>4. \A p : p \in Ps <=> p \in 1 .. Len(code) /\ \E q \in 1 .. p : layout[q] = mbb
  BY <1>1, <1>2
<1>5. ASSUME NEW p \in 1 .. Len(code), NEW a
      PROVE  a \in At(p) <=> \E j \in 1 .. Len(code[layout[p]]) :
                               a = <<p, j>> /\ code[layout[p]][j].op = "SELECT_CC"
  BY <1>1
<1> HIDE DEF At, Ps
<1>6. \A a : a \in Pending <=> \E p \in Ps : a \in At(p)
  BY <1>3
<1> QED
  BY <1>4, <1>5, <1>6

(* Every pseudo of the code is pending while the scan runs.                *)
LEMMA AllPending ==
  ASSUME SelectInv, stage = "pseudo", NEW p \in 1 .. Len(code),
         NEW j \in 1 .. Len(code[layout[p]]), code[layout[p]][j].op = "SELECT_CC"
  PROVE  <<p, j>> \in Pending
<1>1. Shape /\ Scanned
  BY DEF SelectInv
<1>2. PICK q \in 1 .. Len(code) : layout[q] = mbb
  BY <1>1 DEF Shape, Scanned
<1>3. ~(p < q)
  BY <1>1, <1>2 DEF Scanned
<1>4. q \in 1 .. p
  <2>1. Len(code) \in Nat
    BY <1>1, ShapeFacts
  <2> QED
    BY <1>3, <2>1
<1> QED
  BY <1>1, <1>2, <1>4, PendingOf

(* The expansion takes the first pseudo of the layout.                     *)
LEMMA ExpandedPseudo ==
  ASSUME SelectInv, ExpandNext
  PROVE  \E T, i, p :
           /\ p \in 1 .. Len(code) /\ T \in 1 .. Len(code) /\ layout[p] = T
           /\ i \in 1 .. Len(code[T]) /\ code[T][i].op = "SELECT_CC"
           /\ \A j \in 1 .. i - 1 : code[T][j].op # "SELECT_CC"
           /\ \A q \in 1 .. p - 1 : \A j \in 1 .. Len(code[layout[q]]) :
                code[layout[q]][j].op # "SELECT_CC"
           /\ emitSelectCC(T, i)
<1>1. Shape /\ stage = "pseudo" /\ Pending # {}
  BY DEF SelectInv, ExpandNext
<1>2. /\ Len(code) \in Nat
      /\ \A b \in 1 .. Len(code) : Len(code[b]) \in Nat
      /\ \A p \in 1 .. Len(code) : layout[p] \in 1 .. Len(code)
  BY <1>1, ShapeFacts DEF Shape
<1>3. ASSUME NEW a \in Pending
      PROVE  /\ a[1] \in 1 .. Len(code) /\ a[2] \in 1 .. Len(code[layout[a[1]]])
             /\ code[layout[a[1]]][a[2]].op = "SELECT_CC"
             /\ a = <<a[1], a[2]>>
  BY <1>1, PendingOf
<1>4. \E a \in Pending : \A b \in Pending : a[1] < b[1] \/ (a[1] = b[1] /\ a[2] <= b[2])
  <2> DEFINE Ps == {a[1] : a \in Pending}
  <2>1. Ps \in SUBSET Nat /\ Ps # {}
    BY <1>1, <1>2, <1>3
  <2>2. PICK p \in Ps : \A q \in Ps : p <= q
    <3> HIDE DEF Ps
    <3> QED
      BY <2>1, LeastOne
  <2> DEFINE Js == {a[2] : a \in {b \in Pending : b[1] = p}}
  <2>3. Js \in SUBSET Nat /\ Js # {}
    <3>1. ASSUME NEW a \in Pending PROVE a[2] \in Nat
      <4>1. layout[a[1]] \in 1 .. Len(code)
        BY <1>2, <1>3
      <4> QED
        BY <1>2, <1>3, <4>1
    <3> QED
      BY <2>2, <3>1
  <2>4. PICK i \in Js : \A j \in Js : i <= j
    <3> HIDE DEF Js
    <3> QED
      BY <2>3, LeastOne
  <2>5. PICK a \in Pending : a[1] = p /\ a[2] = i
    BY <2>4
  <2>6. ASSUME NEW b \in Pending PROVE a[1] < b[1] \/ (a[1] = b[1] /\ a[2] <= b[2])
    <3>1. b[1] \in Ps
      OBVIOUS
    <3>2. p <= b[1]
      BY <2>2, <3>1
    <3>3. b[1] = p => b[2] \in Js
      OBVIOUS
    <3>4. b[1] = p => i <= b[2]
      BY <2>4, <3>3
    <3>5. p \in Int /\ b[1] \in Int
      BY <1>2, <1>3, <2>5
    <3> QED
      BY <2>5, <3>2, <3>4, <3>5
  <2> QED
    BY <2>6
<1>5. /\ FirstPending \in Pending
      /\ \A b \in Pending : \/ FirstPending[1] < b[1]
                            \/ FirstPending[1] = b[1] /\ FirstPending[2] <= b[2]
  BY <1>4, Zenon DEF FirstPending
<1>6. PICK p, i : p = FirstPending[1] /\ i = FirstPending[2]
  OBVIOUS
<1>7. /\ p \in 1 .. Len(code) /\ i \in 1 .. Len(code[layout[p]])
      /\ code[layout[p]][i].op = "SELECT_CC"
  BY <1>3, <1>5, <1>6
<1>8. \A b \in Pending : p < b[1] \/ (p = b[1] /\ i <= b[2])
  BY <1>5, <1>6
<1>9. PICK T : T = layout[p]
  OBVIOUS
<1>10. T \in 1 .. Len(code) /\ i \in Int /\ p \in Int
  BY <1>2, <1>7, <1>9
<1>11. ASSUME NEW j \in 1 .. i - 1, code[T][j].op = "SELECT_CC" PROVE FALSE
  <2>1. j \in 1 .. Len(code[layout[p]])
    BY <1>2, <1>7, <1>9, <1>10
  <2>2. <<p, j>> \in Pending
    BY <1>1, <1>7, <1>9, <1>11, <2>1, AllPending
  <2>3. p < p \/ i <= j
    BY <1>8, <2>2
  <2> QED
    BY <1>10, <2>3
<1>12. ASSUME NEW q \in 1 .. p - 1, NEW j \in 1 .. Len(code[layout[q]]),
              code[layout[q]][j].op = "SELECT_CC"
       PROVE  FALSE
  <2>1. q \in 1 .. Len(code)
    BY <1>2, <1>7
  <2>2. <<q, j>> \in Pending
    BY <1>1, <1>12, <2>1, AllPending
  <2>3. p < q \/ p = q
    BY <1>8, <2>2
  <2> QED
    BY <1>10, <2>3
<1>13. emitSelectCC(T, i)
  <2>1. layout[FirstPending[1]] = T /\ FirstPending[2] = i
    BY <1>6, <1>9
  <2>2. emitSelectCC(layout[FirstPending[1]], FirstPending[2])
    BY DEF ExpandNext
  <2> QED
    BY <2>1, <2>2
<1> QED
  BY <1>7, <1>9, <1>10, <1>11, <1>12, <1>13

LEMMA SelectInvFinish ==
  ASSUME SelectInv, Finish
  PROVE  SelectInv'
<1>1. Shape /\ Coded /\ Ordered /\ Entries /\ Edges
  BY DEF SelectInv
<1>2. /\ stage = "pseudo" /\ Pending = {} /\ stage' = "expanded"
      /\ UNCHANGED <<code, succ, layout, mbb>>
  BY DEF Finish
<1>3. ASSUME NEW b \in 1 .. Len(code), NEW j \in 1 .. Len(code[b])
      PROVE  code[b][j].op # "SELECT_CC"
  <2>1. PICK p \in 1 .. Len(code) : layout[p] = b
    BY <1>1 DEF Shape
  <2> QED
    BY <1>2, <2>1, AllPending
<1>4. Coded'
  <2>1. Opcodes = {"PHI", "dec", "use", "BNEZ", "J", "RET_N", "SELECT_CC", "BNE"}
    BY <1>2, OpcodesOf
  <2>2. Opcodes' = {"PHI", "dec", "use", "BNEZ", "J", "RET_N", "BNE"}
    BY <1>2 DEF Opcodes
  <2>3. \A b \in 1 .. Len(code) : \A j \in 1 .. Len(code[b]) : code[b][j].op \in Opcodes'
    BY <1>1, <1>3, <2>1, <2>2 DEF Coded
  <2> QED
    BY <1>1, <1>2, <2>3 DEF Coded
<1>5. Shape'
  BY <1>1, <1>2 DEF Shape
<1>6. Ordered'
  BY <1>1, <1>2 DEF Ordered
<1>7. Entries'
  BY <1>1, <1>2 DEF Entries, Predecessors
<1>8. Edges'
  BY <1>1, <1>2 DEF Edges, Destinations
<1>9. Scanned'
  BY <1>2 DEF Scanned
<1> QED
  BY <1>4, <1>5, <1>6, <1>7, <1>8, <1>9 DEF SelectInv

LEMMA SelectInvStutter ==
  ASSUME SelectInv, UNCHANGED vars
  PROVE  SelectInv'
<1>1. UNCHANGED <<code, succ, layout, mbb, stage>>
  BY DEF vars
<1>2. Shape /\ Coded /\ Ordered /\ Entries /\ Edges /\ Scanned
  BY DEF SelectInv
<1>3. Shape'
  BY <1>1, <1>2 DEF Shape
<1>4. Coded'
  BY <1>1, <1>2 DEF Coded, Opcodes
<1>5. Ordered'
  BY <1>1, <1>2 DEF Ordered
<1>6. Entries'
  BY <1>1, <1>2 DEF Entries, Predecessors
<1>7. Edges'
  BY <1>1, <1>2 DEF Edges, Destinations
<1>8. Scanned'
  BY <1>1, <1>2 DEF Scanned
<1> QED
  BY <1>3, <1>4, <1>5, <1>6, <1>7, <1>8 DEF SelectInv

--------------------------------------------------------------------------------
(***************************************************************************)
(* One expansion: of the pseudo i of block T, at p in the layout.          *)
(***************************************************************************)
Chosen(T, i, p) ==
  /\ p \in 1 .. Len(code) /\ T \in 1 .. Len(code) /\ layout[p] = T
  /\ i \in 1 .. Len(code[T]) /\ code[T][i].op = "SELECT_CC"
  /\ \A j \in 1 .. i - 1 : code[T][j].op # "SELECT_CC"
  /\ \A q \in 1 .. p - 1 : \A j \in 1 .. Len(code[layout[q]]) :
       code[layout[q]][j].op # "SELECT_CC"
  /\ emitSelectCC(T, i)
  /\ stage = "pseudo" /\ UNCHANGED stage

LEMMA ChosenCode ==
  ASSUME SelectInv, NEW T, NEW i, NEW p, Chosen(T, i, p)
  PROVE  /\ Sq(code') /\ Len(code') = Len(code) + 2
         /\ \A b \in 1 .. Len(code) : b # T =>
              /\ Sq(code'[b]) /\ Len(code'[b]) = Len(code[b])
              /\ \A j \in 1 .. Len(code[b]) : code'[b][j] = After(code[b][j], b, T)
         /\ Sq(code'[T]) /\ Len(code'[T]) = i
         /\ \A j \in 1 .. i - 1 : code'[T][j] = After(code[T][j], T, T)
         /\ code'[T][i] = BNE(code[T][i].ops[1], Len(code) + 2)
         /\ code'[Len(code) + 1] = <<>>
         /\ Sq(code'[Len(code) + 2])
         /\ Len(code'[Len(code) + 2]) = Len(code[T]) - i + 1
         /\ code'[Len(code) + 2][1].op = "PHI"
         /\ DOMAIN code'[Len(code) + 2][1].in = {T, Len(code) + 1}
         /\ \A j \in 2 .. Len(code[T]) - i + 1 :
              code'[Len(code) + 2][j] = code[T][i + j - 1]
<1>1. Sq(code) /\ \A b \in 1 .. Len(code) : Sq(code[b])
  BY DEF SelectInv, Shape
<1>2. /\ T \in 1 .. Len(code) /\ i \in 1 .. Len(code[T]) /\ emitSelectCC(T, i)
  BY DEF Chosen
<1>3. succ[T] \subseteq 1 .. Len(code)
  BY <1>2 DEF SelectInv, Shape
<1> QED
  BY <1>1, <1>2, <1>3, EmittedCode

LEMMA ChosenPhi ==
  ASSUME SelectInv, NEW T, NEW i, NEW p, Chosen(T, i, p)
  PROVE  code'[Len(code) + 2][1] =
           PHI(code[T][i].d, [q \in {T, Len(code) + 1} |->
                                IF q = T THEN code[T][i].ops[2] ELSE code[T][i].ops[3]])
<1>1. Sq(code) /\ \A b \in 1 .. Len(code) : Sq(code[b])
  BY DEF SelectInv, Shape
<1>2. /\ T \in 1 .. Len(code) /\ i \in 1 .. Len(code[T]) /\ emitSelectCC(T, i)
  BY DEF Chosen
<1>3. succ[T] \subseteq 1 .. Len(code)
  BY <1>2 DEF SelectInv, Shape
<1> QED
  BY <1>1, <1>2, <1>3, EmittedCode

LEMMA ChosenEdges ==
  ASSUME SelectInv, NEW T, NEW i, NEW p, Chosen(T, i, p)
  PROVE  /\ Sq(succ') /\ Len(succ') = Len(code) + 2
         /\ \A b \in 1 .. Len(code) : b # T => succ'[b] = succ[b]
         /\ succ'[T] = {Len(code) + 1, Len(code) + 2}
         /\ succ'[Len(code) + 1] = {Len(code) + 2}
         /\ succ'[Len(code) + 2] = succ[T]
<1>1. Sq(succ) /\ Len(succ) = Len(code)
  BY DEF SelectInv, Shape
<1>2. T \in 1 .. Len(code) /\ emitSelectCC(T, i)
  BY DEF Chosen
<1> QED
  BY <1>1, <1>2, EmittedEdges

LEMMA ChosenLayout ==
  ASSUME SelectInv, NEW T, NEW i, NEW p, Chosen(T, i, p)
  PROVE  /\ Sq(layout') /\ Len(layout') = Len(code) + 2
         /\ \A q \in 1 .. p : layout'[q] = layout[q]
         /\ layout'[p + 1] = Len(code) + 1 /\ layout'[p + 2] = Len(code) + 2
         /\ \A q \in p + 1 .. Len(code) : layout'[q + 2] = layout[q]
<1>1. Sq(layout) /\ Len(layout) = Len(code)
  BY DEF SelectInv, Shape
<1>2. p \in 1 .. Len(layout) /\ layout[p] = T /\ emitSelectCC(T, i)
  BY <1>1 DEF Chosen
<1>3. Only(T, p)
  BY <1>1, <1>2 DEF SelectInv, Shape, Only
<1>4. /\ Sq(layout') /\ Len(layout') = Len(layout) + 2
      /\ \A q \in 1 .. p : layout'[q] = layout[q]
      /\ layout'[p + 1] = Len(code) + 1 /\ layout'[p + 2] = Len(code) + 2
      /\ \A q \in p + 1 .. Len(layout) : layout'[q + 2] = layout[q]
  <2>1. Sq(layout)
    BY <1>1
  <2> QED
    BY <1>2, <1>3, <2>1, EmittedLayout
<1> QED
  BY <1>1, <1>4

(* What stands at each place of the new layout.                            *)
Place(r, p) ==
  \/ r \in 1 .. p /\ layout'[r] = layout[r] /\ layout[r] \in 1 .. Len(code)
  \/ r = p + 1 /\ layout'[r] = Len(code) + 1
  \/ r = p + 2 /\ layout'[r] = Len(code) + 2
  \/ /\ r - 2 \in p + 1 .. Len(code) /\ layout'[r] = layout[r - 2]
     /\ layout[r - 2] \in 1 .. Len(code)

LEMMA ChosenPlaces ==
  ASSUME SelectInv, NEW T, NEW i, NEW p, Chosen(T, i, p)
  PROVE  \A r \in 1 .. Len(code) + 2 : Place(r, p)
<1>1. /\ \A q \in 1 .. p : layout'[q] = layout[q]
      /\ layout'[p + 1] = Len(code) + 1 /\ layout'[p + 2] = Len(code) + 2
      /\ \A q \in p + 1 .. Len(code) : layout'[q + 2] = layout[q]
  BY ChosenLayout
<1>2. /\ Len(code) \in Nat /\ p \in 1 .. Len(code)
      /\ \A q \in 1 .. Len(code) : layout[q] \in 1 .. Len(code)
  BY ShapeFacts DEF SelectInv, Shape, Chosen
<1> SUFFICES ASSUME NEW r \in 1 .. Len(code) + 2
             PROVE  \/ r \in 1 .. p /\ layout'[r] = layout[r] /\ layout[r] \in 1 .. Len(code)
                    \/ r = p + 1 /\ layout'[r] = Len(code) + 1
                    \/ r = p + 2 /\ layout'[r] = Len(code) + 2
                    \/ /\ r - 2 \in p + 1 .. Len(code) /\ layout'[r] = layout[r - 2]
                       /\ layout[r - 2] \in 1 .. Len(code)
  BY DEF Place
<1>3. CASE r \in 1 .. p
  BY <1>1, <1>2, <1>3
<1>4. CASE r = p + 1 \/ r = p + 2
  BY <1>1, <1>4
<1>5. CASE r > p + 2
  <2>1. r - 2 \in p + 1 .. Len(code) /\ (r - 2) + 2 = r /\ r - 2 \in 1 .. Len(code)
    BY <1>2, <1>5
  <2>2. layout'[(r - 2) + 2] = layout[r - 2]
    BY <1>1, <2>1
  <2> QED
    BY <1>2, <2>1, <2>2
<1>6. r \in 1 .. p \/ r = p + 1 \/ r = p + 2 \/ r > p + 2
  BY <1>2
<1> QED
  BY <1>3, <1>4, <1>5, <1>6

LEMMA ChosenShape ==
  ASSUME SelectInv, NEW T, NEW i, NEW p, Chosen(T, i, p)
  PROVE  Shape'
<1> DEFINE n == Len(code)
<1>1. /\ n \in Nat /\ T \in 1 .. n /\ p \in 1 .. n
      /\ \A b \in 1 .. n : succ[b] \subseteq 1 .. n
      /\ \A q, r \in 1 .. n : layout[q] = layout[r] => q = r
      /\ \A b \in 1 .. n : \E q \in 1 .. n : layout[q] = b
  BY ShapeFacts DEF SelectInv, Shape, Chosen
<1>11. n \in Nat /\ T \in 1 .. n
  BY <1>1
<1>12. 1 .. n \subseteq 1 .. n + 2 /\ \A b \in 1 .. n + 2 : b = n + 1 \/ b = n + 2 \/ b \in 1 .. n
  BY <1>11
<1>13. \A b \in 1 .. n : succ[b] \subseteq 1 .. n
  BY <1>1
<1>2. /\ Sq(code') /\ Len(code') = n + 2
      /\ \A b \in 1 .. n : b # T => Sq(code'[b])
      /\ Sq(code'[T]) /\ code'[n + 1] = <<>> /\ Sq(code'[n + 2])
  BY ChosenCode
<1>3. /\ Sq(succ') /\ Len(succ') = n + 2
      /\ \A b \in 1 .. n : b # T => succ'[b] = succ[b]
      /\ succ'[T] = {n + 1, n + 2} /\ succ'[n + 1] = {n + 2} /\ succ'[n + 2] = succ[T]
  BY ChosenEdges
<1>31. /\ Sq(layout') /\ Len(layout') = n + 2
       /\ \A q \in 1 .. p : layout'[q] = layout[q]
       /\ layout'[p + 1] = n + 1 /\ layout'[p + 2] = n + 2
       /\ \A q \in p + 1 .. n : layout'[q + 2] = layout[q]
  BY ChosenLayout
<1>5. ASSUME NEW b \in 1 .. n + 2 PROVE Sq(code'[b]) /\ succ'[b] \subseteq 1 .. n + 2
  <2>1. CASE b \in 1 .. n /\ b # T
    <3>1. Sq(code'[b]) /\ succ'[b] = succ[b]
      BY <2>1, <1>2, <1>3
    <3>2. succ[b] \subseteq 1 .. n
      BY <1>13, <2>1
    <3> QED
      BY <1>12, <3>1, <3>2
  <2>2. CASE b = T
    <3>1. Sq(code'[T]) /\ succ'[T] = {n + 1, n + 2}
      BY <1>2, <1>3
    <3> QED
      BY <1>11, <2>2, <3>1
  <2>3. CASE b = n + 1
    <3>1. code'[n + 1] = <<>> /\ succ'[n + 1] = {n + 2}
      BY <1>2, <1>3
    <3>2. Sq(<<>>)
      BY SqPairs
    <3>3. n + 2 \in 1 .. n + 2
      BY <1>11
    <3> QED
      BY <2>3, <3>1, <3>2, <3>3
  <2>4. CASE b = n + 2
    <3>1. Sq(code'[n + 2]) /\ succ'[n + 2] = succ[T]
      BY <1>2, <1>3
    <3>2. succ[T] \subseteq 1 .. n
      BY <1>11, <1>13
    <3> QED
      BY <1>12, <2>4, <3>1, <3>2
  <2> QED
    BY <1>12, <2>1, <2>2, <2>3, <2>4
<1>6. \A r \in 1 .. n + 2 :
        \/ r \in 1 .. p /\ layout'[r] = layout[r] /\ layout[r] \in 1 .. n
        \/ r = p + 1 /\ layout'[r] = n + 1
        \/ r = p + 2 /\ layout'[r] = n + 2
        \/ /\ r - 2 \in p + 1 .. n /\ layout'[r] = layout[r - 2]
           /\ layout[r - 2] \in 1 .. n
  BY ChosenPlaces DEF Place
<1> HIDE DEF n
<1>61. /\ n \in Nat /\ p \in 1 .. n
       /\ \A q, r \in 1 .. n : layout[q] = layout[r] => q = r
  BY <1>1
<1>7. ASSUME NEW r \in 1 .. n + 2 PROVE layout'[r] \in 1 .. n + 2
  <2>1. layout'[r] \in 1 .. n \/ layout'[r] = n + 1 \/ layout'[r] = n + 2
    BY <1>6
  <2> QED
    BY <1>61, <2>1
<1>8. ASSUME NEW r \in 1 .. n + 2, NEW s \in 1 .. n + 2, layout'[r] = layout'[s]
      PROVE  r = s
  <2> DEFINE Old(x, y) == y \in 1 .. n /\ layout'[x] = layout[y] /\ layout[y] \in 1 .. n
  <2>1. ASSUME NEW x \in 1 .. n + 2
        PROVE  \/ x = p + 1 /\ layout'[x] = n + 1
               \/ x = p + 2 /\ layout'[x] = n + 2
               \/ x \in 1 .. p /\ Old(x, x)
               \/ x - 2 \in p + 1 .. n /\ Old(x, x - 2)
    <3>1. \A q : q \in 1 .. p \/ q \in p + 1 .. n => q \in 1 .. n
      BY <1>61
    <3> QED
      BY <1>6, <3>1
  <2>2. ASSUME NEW x, NEW y, NEW u, NEW v, Old(x, u), Old(y, v), layout'[x] = layout'[y]
        PROVE  u = v
    BY <1>61, <2>2
  <2>3. ASSUME NEW x, NEW y, Old(x, y) PROVE layout'[x] # n + 1 /\ layout'[x] # n + 2
    BY <1>61, <2>3
  <2> HIDE DEF Old
  <2>4. n + 1 # n + 2
    BY <1>61
  <2>5. CASE layout'[r] = n + 1
    BY <1>8, <2>1, <2>3, <2>4, <2>5
  <2>6. CASE layout'[r] = n + 2
    BY <1>8, <2>1, <2>3, <2>4, <2>6
  <2>7. CASE layout'[r] # n + 1 /\ layout'[r] # n + 2
    <3>1. ASSUME NEW x \in 1 .. n + 2, layout'[x] = layout'[r]
          PROVE  \E u : /\ Old(x, u)
                        /\ \/ x \in 1 .. p /\ u = x
                           \/ x - 2 \in p + 1 .. n /\ u = x - 2
      BY <2>1, <2>7, <3>1
    <3>2. PICK u : /\ Old(r, u)
                   /\ \/ r \in 1 .. p /\ u = r
                      \/ r - 2 \in p + 1 .. n /\ u = r - 2
      BY <3>1
    <3>3. PICK v : /\ Old(s, v)
                   /\ \/ s \in 1 .. p /\ v = s
                      \/ s - 2 \in p + 1 .. n /\ v = s - 2
      BY <1>8, <3>1
    <3>4. u = v
      BY <1>8, <2>2, <3>2, <3>3
    <3> QED
      BY <1>61, <3>2, <3>3, <3>4
  <2> QED
    BY <2>5, <2>6, <2>7
<1>62. n \in Nat /\ p \in 1 .. n
  BY <1>61
<1>63. \A b \in 1 .. n : \E q \in 1 .. n : layout[q] = b
  BY <1>1
<1>9. ASSUME NEW b \in 1 .. n + 2 PROVE \E r \in 1 .. n + 2 : layout'[r] = b
  <2>0. /\ \A q \in 1 .. p : layout'[q] = layout[q]
        /\ layout'[p + 1] = n + 1 /\ layout'[p + 2] = n + 2
        /\ \A q \in p + 1 .. n : layout'[q + 2] = layout[q]
    BY <1>31
  <2>1. CASE b \in 1 .. n
    <3>1. PICK q \in 1 .. n : layout[q] = b
      BY <1>63, <2>1
    <3>2. CASE q \in 1 .. p
      <4>1. q \in 1 .. n + 2
        BY <1>62, <3>1
      <4>2. layout'[q] = b
        BY <2>0, <3>1, <3>2
      <4> QED
        BY <4>1, <4>2
    <3>3. CASE q \in p + 1 .. n
      <4>1. q + 2 \in 1 .. n + 2
        BY <1>62, <3>1
      <4>2. layout'[q + 2] = b
        BY <2>0, <3>1, <3>3
      <4> QED
        BY <4>1, <4>2
    <3>4. q \in 1 .. p \/ q \in p + 1 .. n
      BY <1>62, <3>1
    <3> QED
      BY <3>2, <3>3, <3>4
  <2>2. CASE b = n + 1
    <3>1. p + 1 \in 1 .. n + 2
      BY <1>62
    <3> QED
      BY <2>0, <2>2, <3>1
  <2>3. CASE b = n + 2
    <3>1. p + 2 \in 1 .. n + 2
      BY <1>62
    <3> QED
      BY <2>0, <2>3, <3>1
  <2> QED
    BY <1>12, <2>1, <2>2, <2>3
<1>10. Len(code') # 0
  BY <1>1, <1>2
<1> QED
  BY <1>2, <1>3, <1>31, <1>5, <1>7, <1>8, <1>9, <1>10 DEF Shape

(* Where each instruction of the new code comes from: it was there before, *)
(* is the branch or the phi, or was behind the pseudo.                     *)
Origin(b, j, T, i) ==
  \/ /\ b \in 1 .. Len(code) /\ j \in 1 .. Len(code[b])
     /\ b = T => j \in 1 .. i - 1
     /\ code'[b][j] = After(code[b][j], b, T)
  \/ b = T /\ j = i /\ code'[b][j].op = "BNE"
  \/ b = Len(code) + 2 /\ j = 1 /\ code'[b][j].op = "PHI"
  \/ /\ b = Len(code) + 2 /\ j \in 2 .. Len(code[T]) - i + 1
     /\ i + j - 1 \in i + 1 .. Len(code[T])
     /\ code'[b][j] = code[T][i + j - 1]

LEMMA ChosenOrigins ==
  ASSUME SelectInv, NEW T, NEW i, NEW p, Chosen(T, i, p)
  PROVE  \A b \in 1 .. Len(code) + 2 : \A j \in 1 .. Len(code'[b]) : Origin(b, j, T, i)
<1> DEFINE n == Len(code)
<1>1. n \in Nat /\ T \in 1 .. n /\ i \in 1 .. Len(code[T]) /\ Len(code[T]) \in Nat
  BY ShapeFacts DEF SelectInv, Chosen
<1>2. /\ \A b \in 1 .. n : b # T =>
           /\ Len(code'[b]) = Len(code[b])
           /\ \A j \in 1 .. Len(code[b]) : code'[b][j] = After(code[b][j], b, T)
      /\ Len(code'[T]) = i
      /\ \A j \in 1 .. i - 1 : code'[T][j] = After(code[T][j], T, T)
      /\ code'[T][i] = BNE(code[T][i].ops[1], n + 2)
      /\ code'[n + 1] = <<>>
      /\ Len(code'[n + 2]) = Len(code[T]) - i + 1
      /\ code'[n + 2][1].op = "PHI"
      /\ \A j \in 2 .. Len(code[T]) - i + 1 : code'[n + 2][j] = code[T][i + j - 1]
  BY ChosenCode
<1>3. \A b \in 1 .. n + 2 : b = n + 1 \/ b = n + 2 \/ b \in 1 .. n
  BY <1>1
<1> SUFFICES ASSUME NEW b \in 1 .. n + 2, NEW j \in 1 .. Len(code'[b])
             PROVE  \/ /\ b \in 1 .. n /\ j \in 1 .. Len(code[b])
                       /\ b = T => j \in 1 .. i - 1
                       /\ code'[b][j] = After(code[b][j], b, T)
                    \/ b = T /\ j = i /\ code'[b][j].op = "BNE"
                    \/ b = n + 2 /\ j = 1 /\ code'[b][j].op = "PHI"
                    \/ /\ b = n + 2 /\ j \in 2 .. Len(code[T]) - i + 1
                       /\ i + j - 1 \in i + 1 .. Len(code[T])
                       /\ code'[b][j] = code[T][i + j - 1]
  BY DEF Origin
<1> HIDE DEF n
<1>4. CASE b \in 1 .. n /\ b # T
  <2>1. j \in 1 .. Len(code[b])
    BY <1>2, <1>4
  <2> QED
    BY <1>2, <1>4, <2>1
<1>5. CASE b = T
  <2>1. j \in 1 .. i
    BY <1>2, <1>5
  <2>2. CASE j = i
    <3>1. code'[T][i].op = "BNE"
      <4>1. code'[T][i] = BNE(code[T][i].ops[1], n + 2)
        BY <1>2
      <4> QED
        BY <4>1 DEF BNE
    <3> QED
      BY <1>5, <2>2, <3>1
  <2>3. CASE j \in 1 .. i - 1
    <3>1. j \in 1 .. Len(code[b]) /\ b \in 1 .. n
      BY <1>1, <1>5, <2>3
    <3> QED
      BY <1>2, <1>5, <2>3, <3>1
  <2> QED
    BY <1>1, <2>1, <2>2, <2>3
<1>6. CASE b = n + 1
  <2>1. Len(code'[b]) = 0
    BY <1>2, <1>6
  <2> QED
    BY <2>1
<1>7. CASE b = n + 2
  <2>1. j \in 1 .. Len(code[T]) - i + 1
    BY <1>2, <1>7
  <2>2. CASE j = 1
    BY <1>2, <1>7, <2>2
  <2>3. CASE j # 1
    <3>1. j \in 2 .. Len(code[T]) - i + 1 /\ i + j - 1 \in i + 1 .. Len(code[T])
      BY <1>1, <2>1, <2>3
    <3> QED
      BY <1>2, <1>7, <3>1
  <2> QED
    BY <2>2, <2>3
<1> QED
  BY <1>3, <1>4, <1>5, <1>6, <1>7

LEMMA ChosenCoded ==
  ASSUME SelectInv, NEW T, NEW i, NEW p, Chosen(T, i, p)
  PROVE  Coded'
<1> DEFINE n == Len(code)
<1>1. n \in Nat /\ T \in 1 .. n /\ i \in 1 .. Len(code[T]) /\ Len(code[T]) \in Nat
  BY ShapeFacts DEF SelectInv, Chosen
<1>2. stage = "pseudo" /\ stage' = "pseudo" /\ Coded
  BY DEF SelectInv, Chosen
<1>3. mbb' = n + 2
  BY DEF Chosen, emitSelectCC
<1>4. Len(code') = n + 2
  BY ChosenCode
<1> DEFINE Ops == {"PHI", "dec", "use", "BNEZ", "J", "RET_N", "SELECT_CC", "BNE"}
<1>5. Opcodes = Ops /\ Opcodes' = Ops
  BY <1>2 DEF Opcodes
<1>6. ASSUME NEW b \in 1 .. n, NEW j \in 1 .. Len(code[b]) PROVE code[b][j].op \in Ops
  BY <1>2, <1>5 DEF Coded
<1>7. ASSUME NEW b \in 1 .. n + 2, NEW j \in 1 .. Len(code'[b])
      PROVE  code'[b][j].op \in Ops
  <2>1. CASE /\ b \in 1 .. n /\ j \in 1 .. Len(code[b])
             /\ code'[b][j] = After(code[b][j], b, T)
    BY <1>6, <2>1, AfterOp
  <2>2. CASE code'[b][j].op = "BNE" \/ code'[b][j].op = "PHI"
    BY <2>2
  <2>3. CASE i + j - 1 \in i + 1 .. Len(code[T]) /\ code'[b][j] = code[T][i + j - 1]
    <3>1. i + j - 1 \in 1 .. Len(code[T])
      BY <1>1, <2>3
    <3>2. code[T][i + j - 1].op \in Ops
      BY <1>1, <1>6, <3>1
    <3> QED
      BY <2>3, <3>2
  <2> QED
    <3>1. Origin(b, j, T, i)
      BY ChosenOrigins
    <3> QED
      BY <2>1, <2>2, <2>3, <3>1 DEF Origin
<1>8. \A b \in 1 .. n + 2 : \A j \in 1 .. Len(code'[b]) :
        code'[b][j].op \in Ops /\ code'[b][j].op # "select"
  BY <1>7
<1>9. mbb' \in 0 .. n + 2
  BY <1>1, <1>3
<1> QED
  BY <1>2, <1>4, <1>5, <1>8, <1>9 DEF Coded

LEMMA ChosenOrdered ==
  ASSUME SelectInv, NEW T, NEW i, NEW p, Chosen(T, i, p)
  PROVE  Ordered'
<1> DEFINE n == Len(code)
<1>1. n \in Nat /\ T \in 1 .. n /\ i \in 1 .. Len(code[T]) /\ Len(code[T]) \in Nat
  BY ShapeFacts DEF SelectInv, Chosen
<1>2. \A b \in 1 .. n : Len(code[b]) \in Nat
  BY ShapeFacts DEF SelectInv
<1>3. Ordered
  BY DEF SelectInv
<1>11. n \in Nat /\ T \in 1 .. n
  BY <1>1
<1>4. Len(code') = n + 2
  BY ChosenCode
<1> SUFFICES ASSUME NEW b \in 1 .. n + 2, NEW j \in 1 .. Len(code'[b]), NEW k \in 1 .. j - 1
             PROVE  /\ code'[b][j].op = "PHI" => code'[b][k].op = "PHI"
                    /\ code'[b][j].op \in Selects => code'[b][k].op \notin Branches
  BY <1>4 DEF Ordered
<1>5. Len(code'[b]) \in Nat /\ j \in Nat /\ k \in 1 .. Len(code'[b]) /\ k < j
  <2>1. Shape'
    BY ChosenShape
  <2>2. Len(code'[b]) \in Nat
    BY <1>4, <2>1, SqFacts DEF Shape
  <2> QED
    BY <2>2
<1>51. j \in Nat /\ k \in Nat /\ 1 <= k /\ k < j
  BY <1>5
<1>6. CASE /\ b \in 1 .. n /\ j \in 1 .. Len(code[b])
           /\ b = T => j \in 1 .. i - 1
           /\ code'[b][j] = After(code[b][j], b, T)
  <2>1. k \in 1 .. Len(code[b])
    BY <1>2, <1>5, <1>6
  <2>2. code'[b][k] = After(code[b][k], b, T)
    <3>1. b # n + 2 /\ ~(b = T /\ k = i)
      <4>1. b # n + 2
        BY <1>11, <1>6
      <4>2. ASSUME b = T, k = i PROVE FALSE
        <5>1. i \in Nat /\ j \in 1 .. i - 1
          BY <1>1, <1>6, <4>2
        <5> QED
          BY <1>51, <4>2, <5>1
      <4> QED
        BY <4>1, <4>2
    <3>2. Origin(b, k, T, i)
      BY <1>5, ChosenOrigins
    <3> QED
      BY <3>1, <3>2 DEF Origin
  <2>3. code'[b][j].op = code[b][j].op /\ code'[b][k].op = code[b][k].op
    BY <1>6, <2>2, AfterOp
  <2>4. /\ code[b][j].op = "PHI" => code[b][k].op = "PHI"
        /\ code[b][j].op \in Selects => code[b][k].op \notin Branches
    BY <1>3, <1>6 DEF Ordered
  <2> QED
    BY <2>3, <2>4
<1>7. CASE code'[b][j].op = "BNE"
  BY <1>7 DEF Selects
<1>8. CASE j = 1
  BY <1>5, <1>8
<1>9. CASE /\ b = n + 2 /\ i + j - 1 \in i + 1 .. Len(code[T])
           /\ code'[b][j] = code[T][i + j - 1]
  <2>1. CASE k = 1
    <3>1. code'[n + 2][1].op = "PHI"
      BY ChosenCode
    <3> QED
      BY <1>9, <2>1, <3>1 DEF Branches
  <2>2. CASE k # 1
    <3>1. b # T /\ b \notin 1 .. n
      <4>1. b = n + 2
        BY <1>9
      <4> QED
        BY <1>11, <4>1
    <3>2. code'[b][k] = code[T][i + k - 1] /\ i + k - 1 \in i + 1 .. Len(code[T])
      <4>1. Origin(b, k, T, i)
        BY <1>5, ChosenOrigins
      <4> QED
        BY <2>2, <3>1, <4>1 DEF Origin
    <3>3. i + k - 1 \in 1 .. (i + j - 1) - 1 /\ i + j - 1 \in 1 .. Len(code[T])
      <4>1. /\ i \in Nat /\ i >= 1 /\ Len(code[T]) \in Nat
            /\ i + j - 1 \in i + 1 .. Len(code[T])
        BY <1>1, <1>9
      <4> QED
        BY <1>51, <4>1
    <3>4. /\ code[T][i + j - 1].op = "PHI" => code[T][i + k - 1].op = "PHI"
          /\ code[T][i + j - 1].op \in Selects => code[T][i + k - 1].op \notin Branches
      BY <1>1, <1>3, <3>3 DEF Ordered
    <3> QED
      BY <1>9, <3>2, <3>4
  <2> QED
    BY <2>1, <2>2
<1>10. Origin(b, j, T, i)
  BY ChosenOrigins
<1> QED
  BY <1>6, <1>7, <1>8, <1>9, <1>10 DEF Origin

LEMMA ChosenScanned ==
  ASSUME SelectInv, NEW T, NEW i, NEW p, Chosen(T, i, p)
  PROVE  Scanned'
<1> DEFINE n == Len(code)
<1>1. /\ n \in Nat /\ T \in 1 .. n /\ i \in 1 .. Len(code[T]) /\ Len(code[T]) \in Nat
      /\ p \in 1 .. n /\ layout[p] = T
      /\ \A j \in 1 .. i - 1 : code[T][j].op # "SELECT_CC"
      /\ \A q \in 1 .. p - 1 : \A j \in 1 .. Len(code[layout[q]]) :
           code[layout[q]][j].op # "SELECT_CC"
  BY ShapeFacts DEF SelectInv, Chosen
<1>11. n \in Nat
  BY <1>1
<1>2. mbb' = n + 2
  BY DEF Chosen, emitSelectCC
<1>3. /\ Len(code') = n + 2
      /\ \A b \in 1 .. n : b # T =>
           /\ Len(code'[b]) = Len(code[b])
           /\ \A j \in 1 .. Len(code[b]) : code'[b][j] = After(code[b][j], b, T)
      /\ Len(code'[T]) = i
      /\ \A j \in 1 .. i - 1 : code'[T][j] = After(code[T][j], T, T)
      /\ code'[T][i] = BNE(code[T][i].ops[1], n + 2)
      /\ code'[n + 1] = <<>>
  BY ChosenCode
<1>4. ASSUME NEW r \in 1 .. n + 2, NEW q \in 1 .. n + 2, layout'[q] = n + 2, r < q,
             NEW j \in 1 .. Len(code'[layout'[r]])
      PROVE  code'[layout'[r]][j].op # "SELECT_CC"
  <2>0. Place(r, p) /\ Place(q, p)
    BY ChosenPlaces
  <2>1. q = p + 2
    <3>1. n \in Nat /\ n + 2 # n + 1 /\ n + 2 \notin 1 .. n
      BY <1>11
    <3> QED
      BY <1>4, <2>0, <3>1 DEF Place
  <2>2. CASE r = p + 1 /\ layout'[r] = n + 1
    BY <1>3, <2>2
  <2>3. CASE r \in 1 .. p /\ layout'[r] = layout[r] /\ layout[r] \in 1 .. n
    <3>1. CASE layout[r] = T
      <4>0. Len(code'[layout'[r]]) = i /\ i \in Nat
        BY <1>1, <1>3, <2>3, <3>1
      <4>1. j \in 1 .. i - 1 \/ j = i
        BY <4>0
      <4>2. code'[T][i].op # "SELECT_CC"
        BY <1>3 DEF BNE
      <4>3. \A k \in 1 .. i - 1 : code'[T][k].op # "SELECT_CC"
        <5>1. ASSUME NEW k \in 1 .. i - 1 PROVE code'[T][k].op # "SELECT_CC"
          <6>1. code'[T][k] = After(code[T][k], T, T)
            BY <1>3
          <6>2. code[T][k].op # "SELECT_CC"
            BY <1>1
          <6> QED
            BY <6>1, <6>2, AfterOp
        <5> QED
          BY <5>1
      <4> QED
        BY <2>3, <3>1, <4>1, <4>2, <4>3
    <3>2. CASE layout[r] # T
      <4>1. r \in 1 .. p - 1
        BY <1>1, <2>3, <3>2
      <4>2. Len(code'[layout[r]]) = Len(code[layout[r]])
        BY <1>3, <2>3, <3>2
      <4>3. j \in 1 .. Len(code[layout[r]])
        BY <2>3, <4>2
      <4>4. code'[layout[r]][j] = After(code[layout[r]][j], layout[r], T)
        BY <1>3, <2>3, <3>2, <4>3
      <4>5. code[layout[r]][j].op # "SELECT_CC"
        BY <1>1, <4>1, <4>3
      <4> QED
        BY <2>3, <4>4, <4>5, AfterOp
    <3> QED
      BY <3>1, <3>2
  <2>4. ~(r = p + 2) /\ ~(r - 2 \in p + 1 .. n)
    BY <1>1, <1>4, <2>1
  <2> QED
    BY <2>0, <2>2, <2>3, <2>4 DEF Place
<1>5. n + 2 \in 1 .. n + 2
  BY <1>11
<1> QED
  BY <1>2, <1>3, <1>4, <1>5 DEF Scanned

LEMMA ChosenPredecessors ==
  ASSUME SelectInv, NEW T, NEW i, NEW p, Chosen(T, i, p)
  PROVE  /\ \A b \in 1 .. Len(code) :
              Predecessors(succ', b) =
                IF b \in succ[T] THEN (Predecessors(succ, b) \ {T}) \cup {Len(code) + 2}
                ELSE Predecessors(succ, b)
         /\ Predecessors(succ', Len(code) + 2) = {T, Len(code) + 1}
<1> DEFINE n == Len(code)
<1>1. /\ n \in Nat /\ T \in 1 .. n
      /\ DOMAIN succ = 1 .. n /\ \A b \in 1 .. n : succ[b] \subseteq 1 .. n
  BY ShapeFacts DEF SelectInv, Chosen, Shape
<1>2. /\ Sq(succ') /\ Len(succ') = n + 2
      /\ \A b \in 1 .. n : b # T => succ'[b] = succ[b]
      /\ succ'[T] = {n + 1, n + 2}
      /\ succ'[n + 1] = {n + 2}
      /\ succ'[n + 2] = succ[T]
  BY ChosenEdges
<1>3. DOMAIN succ' = 1 .. n + 2
  BY <1>2, SqFacts
<1> HIDE DEF n
<1>4. /\ \A q \in 1 .. n + 2 : q = n + 1 \/ q = n + 2 \/ q \in 1 .. n
      /\ 1 .. n \subseteq 1 .. n + 2 /\ n + 1 \in 1 .. n + 2 /\ n + 2 \in 1 .. n + 2
      /\ n + 1 \notin 1 .. n /\ n + 2 \notin 1 .. n /\ n + 1 # n + 2
  BY <1>1
<1>5. ASSUME NEW b \in 1 .. n
      PROVE  Predecessors(succ', b) =
               IF b \in succ[T] THEN (Predecessors(succ, b) \ {T}) \cup {n + 2}
               ELSE Predecessors(succ, b)
  <2>1. b # n + 1 /\ b # n + 2
    BY <1>4
  <2>2. \A q : q \in Predecessors(succ', b) <=> q \in 1 .. n + 2 /\ b \in succ'[q]
    BY <1>3 DEF Predecessors
  <2>3. \A q : q \in Predecessors(succ, b) <=> q \in 1 .. n /\ b \in succ[q]
    BY <1>1 DEF Predecessors
  <2>4. \A q : q \in Predecessors(succ', b) <=>
                 \/ q \in 1 .. n /\ q # T /\ b \in succ[q]
                 \/ q = n + 2 /\ b \in succ[T]
    BY <1>1, <1>2, <1>4, <2>1, <2>2
  <2> QED
    BY <1>1, <1>4, <2>3, <2>4
<1>6. Predecessors(succ', n + 2) = {T, n + 1}
  <2>1. \A q : q \in Predecessors(succ', n + 2) <=> q \in 1 .. n + 2 /\ n + 2 \in succ'[q]
    BY <1>3 DEF Predecessors
  <2>2. \A q \in 1 .. n : n + 2 \notin succ[q]
    BY <1>1, <1>4
  <2>3. \A q : q \in Predecessors(succ', n + 2) <=> q = T \/ q = n + 1
    BY <1>1, <1>2, <1>4, <2>1, <2>2
  <2> QED
    BY <2>3
<1> QED
  BY <1>5, <1>6 DEF n

LEMMA ChosenEntries ==
  ASSUME SelectInv, NEW T, NEW i, NEW p, Chosen(T, i, p)
  PROVE  Entries'
<1> DEFINE n == Len(code)
<1>1. /\ n \in Nat /\ T \in 1 .. n /\ i \in 1 .. Len(code[T]) /\ Len(code[T]) \in Nat
      /\ DOMAIN succ = 1 .. n /\ code[T][i].op = "SELECT_CC"
  BY ShapeFacts DEF SelectInv, Chosen
<1>2. Entries /\ Ordered
  BY DEF SelectInv
<1>3. Len(code') = n + 2
  BY ChosenCode
<1> SUFFICES ASSUME NEW b \in 1 .. n + 2, NEW j \in 1 .. Len(code'[b]),
                    code'[b][j].op = "PHI"
             PROVE  DOMAIN code'[b][j].in = Predecessors(succ', b)
  BY <1>3 DEF Entries, Predecessors
<1>4. Origin(b, j, T, i)
  BY ChosenOrigins
<1>5. CASE /\ b \in 1 .. n /\ j \in 1 .. Len(code[b])
           /\ code'[b][j] = After(code[b][j], b, T)
  <2> DEFINE x == code[b][j]
  <2>1. x.op = "PHI"
    BY <1>5, AfterOp
  <2>2. DOMAIN x.in = Predecessors(succ, b)
    BY <1>2, <1>5, <2>1 DEF Entries
  <2>3. T \in DOMAIN x.in <=> b \in succ[T]
    BY <1>1, <2>2 DEF Predecessors
  <2>4. DOMAIN After(x, b, T).in =
          IF b \in succ[T] /\ T \in DOMAIN x.in
          THEN (DOMAIN x.in \ {T}) \cup {n + 2} ELSE DOMAIN x.in
    BY <2>1, AfterDomain
  <2>5. Predecessors(succ', b) =
          IF b \in succ[T] THEN (Predecessors(succ, b) \ {T}) \cup {n + 2}
          ELSE Predecessors(succ, b)
    BY <1>5, ChosenPredecessors
  <2> QED
    BY <1>5, <2>2, <2>3, <2>4, <2>5
<1>6. CASE b = n + 2 /\ j = 1
  <2>1. DOMAIN code'[n + 2][1].in = {T, n + 1}
    BY ChosenCode
  <2>2. Predecessors(succ', n + 2) = {T, n + 1}
    BY ChosenPredecessors
  <2> QED
    BY <1>6, <2>1, <2>2
<1>7. CASE i + j - 1 \in i + 1 .. Len(code[T]) /\ code'[b][j] = code[T][i + j - 1]
  <2>1. i + j - 1 \in 1 .. Len(code[T]) /\ i \in 1 .. (i + j - 1) - 1
    BY <1>1, <1>7
  <2>2. code[T][i].op = "PHI"
    BY <1>1, <1>2, <1>7, <2>1 DEF Ordered
  <2> QED
    BY <1>1, <2>2
<1>8. code'[b][j].op # "BNE"
  OBVIOUS
<1> QED
  BY <1>4, <1>5, <1>6, <1>7, <1>8 DEF Origin

(* What is behind each block of the new layout.                            *)
LEMMA ChosenBehind ==
  ASSUME SelectInv, NEW T, NEW i, NEW p, Chosen(T, i, p)
  PROVE  /\ \A b \in 1 .. Len(code) : b # T => Behind(layout', b) = Behind(layout, b)
         /\ Behind(layout', T) = {Len(code) + 1}
         /\ Behind(layout', Len(code) + 1) = {Len(code) + 2}
         /\ Behind(layout', Len(code) + 2) = Behind(layout, T)
<1> DEFINE n == Len(code)
<1>1. n \in Nat /\ T \in 1 .. n /\ p \in 1 .. n /\ layout[p] = T
  BY ShapeFacts DEF SelectInv, Chosen
<1>2. ASSUME NEW q \in 1 .. n
      PROVE  Behind(layout, layout[q]) = IF q < n THEN {layout[q + 1]} ELSE {}
  <2>1. Sq(layout) /\ Len(layout) = n
    BY DEF SelectInv, Shape
  <2>2. \A r \in 1 .. Len(layout) : layout[r] = layout[q] => r = q
    BY <2>1 DEF SelectInv, Shape
  <2>3. q \in 1 .. Len(layout)
    BY <2>1
  <2>4. Behind(layout, layout[q]) = IF q < Len(layout) THEN {layout[q + 1]} ELSE {}
    BY <2>1, <2>2, <2>3, BehindOf
  <2> QED
    BY <2>1, <2>4
<1>3. ASSUME NEW q \in 1 .. n + 2
      PROVE  Behind(layout', layout'[q]) = IF q < n + 2 THEN {layout'[q + 1]} ELSE {}
  <2>1. Shape' /\ Len(code') = n + 2
    BY ChosenShape, ChosenCode
  <2>2. Sq(layout') /\ Len(layout') = n + 2
    BY <2>1 DEF Shape
  <2>3. \A r \in 1 .. Len(layout') : layout'[r] = layout'[q] => r = q
    BY <2>1, <2>2 DEF Shape
  <2>4. q \in 1 .. Len(layout')
    BY <2>2
  <2>5. Behind(layout', layout'[q]) = IF q < Len(layout') THEN {layout'[q + 1]} ELSE {}
    BY <2>2, <2>3, <2>4, BehindOf
  <2> QED
    BY <2>2, <2>5
<1>4. /\ \A q \in 1 .. p : layout'[q] = layout[q]
      /\ layout'[p + 1] = n + 1 /\ layout'[p + 2] = n + 2
      /\ \A q \in p + 1 .. n : layout'[q + 2] = layout[q]
  BY ChosenLayout
<1> HIDE DEF n
<1>5. Behind(layout', T) = {n + 1}
  <2>1. p \in 1 .. n + 2 /\ p < n + 2 /\ layout'[p] = T
    BY <1>1, <1>4
  <2> QED
    BY <1>3, <1>4, <2>1
<1>6. Behind(layout', n + 1) = {n + 2}
  <2>1. p + 1 \in 1 .. n + 2 /\ p + 1 < n + 2 /\ (p + 1) + 1 = p + 2
    BY <1>1
  <2>2. Behind(layout', layout'[p + 1]) = {layout'[(p + 1) + 1]}
    BY <1>3, <2>1
  <2> QED
    BY <1>4, <2>1, <2>2
<1>7. Behind(layout', n + 2) = Behind(layout, T)
  <2>1. p + 2 \in 1 .. n + 2 /\ (p + 2 < n + 2 <=> p < n)
    BY <1>1
  <2>2. Behind(layout', layout'[p + 2]) = IF p + 2 < n + 2 THEN {layout'[(p + 2) + 1]} ELSE {}
    BY <1>3, <2>1
  <2>3. Behind(layout, layout[p]) = IF p < n THEN {layout[p + 1]} ELSE {}
    BY <1>1, <1>2
  <2>4. CASE p < n
    <3>1. p + 1 \in p + 1 .. n /\ (p + 1) + 2 = (p + 2) + 1
      BY <1>1, <2>4
    <3>2. layout'[(p + 2) + 1] = layout[p + 1]
      BY <1>4, <3>1
    <3> QED
      BY <1>1, <1>4, <2>1, <2>2, <2>3, <2>4, <3>2
  <2>5. CASE ~(p < n)
    BY <1>1, <1>4, <2>1, <2>2, <2>3, <2>5
  <2> QED
    BY <2>4, <2>5
<1>8. ASSUME NEW b \in 1 .. n, b # T
      PROVE  Behind(layout', b) = Behind(layout, b)
  <2>1. PICK q \in 1 .. n : layout[q] = b
    BY DEF SelectInv, Shape, n
  <2>2. Behind(layout, b) = IF q < n THEN {layout[q + 1]} ELSE {}
    BY <1>2, <2>1
  <2>3. CASE q < p
    <3>1. q \in 1 .. p /\ q + 1 \in 1 .. p /\ q \in 1 .. n + 2 /\ q < n + 2 /\ q < n
      BY <1>1, <2>3
    <3>2. Behind(layout', layout'[q]) = {layout'[q + 1]}
      BY <1>3, <3>1
    <3> QED
      BY <1>4, <2>1, <2>2, <3>1, <3>2
  <2>4. CASE q > p
    <3>1. /\ q \in p + 1 .. n /\ q + 2 \in 1 .. n + 2 /\ (q + 2 < n + 2 <=> q < n)
          /\ (q + 2) + 1 = (q + 1) + 2
      BY <1>1, <2>4
    <3>2. Behind(layout', layout'[q + 2]) =
            IF q + 2 < n + 2 THEN {layout'[(q + 2) + 1]} ELSE {}
      BY <1>3, <3>1
    <3>3. layout'[q + 2] = b
      BY <1>4, <2>1, <3>1
    <3>4. CASE q < n
      <4>1. q + 1 \in p + 1 .. n
        BY <1>1, <3>1, <3>4
      <4>2. layout'[(q + 2) + 1] = layout[q + 1]
        BY <1>4, <3>1, <4>1
      <4> QED
        BY <2>2, <3>1, <3>2, <3>3, <3>4, <4>2
    <3>5. CASE ~(q < n)
      BY <2>2, <3>1, <3>2, <3>3, <3>5
    <3> QED
      BY <3>4, <3>5
  <2>5. q # p
    BY <1>1, <1>8, <2>1
  <2> QED
    BY <1>1, <2>3, <2>4, <2>5
<1> QED
  BY <1>5, <1>6, <1>7, <1>8 DEF n

LEMMA ChosenEdgesKept ==
  ASSUME SelectInv, NEW T, NEW i, NEW p, Chosen(T, i, p)
  PROVE  Edges'
<1> DEFINE n == Len(code)
<1>1. /\ n \in Nat /\ T \in 1 .. n /\ i \in 1 .. Len(code[T]) /\ Len(code[T]) \in Nat
      /\ code[T][i].op = "SELECT_CC"
  BY ShapeFacts DEF SelectInv, Chosen
<1>2. /\ Ordered /\ \A b \in 1 .. n : Sq(code[b])
      /\ \A b \in 1 .. n : succ[b] = Targets(code[b]) \cup
                             (IF Falls(code[b]) THEN Behind(layout, b) ELSE {})
  BY DEF SelectInv, Shape, Edges, Destinations
<1>3. /\ Sq(succ') /\ Len(succ') = n + 2
      /\ \A b \in 1 .. n : b # T => succ'[b] = succ[b]
      /\ succ'[T] = {n + 1, n + 2}
      /\ succ'[n + 1] = {n + 2}
      /\ succ'[n + 2] = succ[T]
  BY ChosenEdges
<1>4. /\ \A b \in 1 .. n : b # T => Behind(layout', b) = Behind(layout, b)
      /\ Behind(layout', T) = {n + 1}
      /\ Behind(layout', n + 1) = {n + 2}
      /\ Behind(layout', n + 2) = Behind(layout, T)
  BY ChosenBehind
<1>5. /\ Len(code') = n + 2
      /\ \A b \in 1 .. n : b # T =>
           /\ Sq(code'[b]) /\ Len(code'[b]) = Len(code[b])
           /\ \A j \in 1 .. Len(code[b]) : code'[b][j] = After(code[b][j], b, T)
      /\ Sq(code'[T]) /\ Len(code'[T]) = i
      /\ \A j \in 1 .. i - 1 : code'[T][j] = After(code[T][j], T, T)
      /\ code'[T][i] = BNE(code[T][i].ops[1], n + 2)
      /\ code'[n + 1] = <<>>
      /\ Sq(code'[n + 2])
      /\ Len(code'[n + 2]) = Len(code[T]) - i + 1
      /\ code'[n + 2][1].op = "PHI"
      /\ \A j \in 2 .. Len(code[T]) - i + 1 : code'[n + 2][j] = code[T][i + j - 1]
  BY ChosenCode
<1> HIDE DEF n
<1>6. \A x, b : After(x, b, T).op \in Branches \/ x.op \in Branches => After(x, b, T) = x
  <2>1. ASSUME NEW x, NEW b PROVE After(x, b, T).op \in Branches \/ x.op \in Branches =>
                                    After(x, b, T) = x
    <3>1. After(x, b, T).op = x.op
      BY AfterOp
    <3>2. x.op # "PHI" => After(x, b, T) = x
      BY AfterOther
    <3> QED
      BY <3>1, <3>2 DEF Branches
  <2> QED
    BY <2>1
<1>7. \A j \in 1 .. i : code[T][j].op \notin Branches
  <2>1. ASSUME NEW j \in 1 .. i - 1 PROVE code[T][j].op \notin Branches
    BY <1>1, <1>2 DEF Ordered, Selects, n
  <2>2. code[T][i].op \notin Branches
    BY <1>1 DEF Branches
  <2>3. i \in Nat
    BY <1>1
  <2>4. \A j \in 1 .. i : j = i \/ j \in 1 .. i - 1
    BY <2>3
  <2> QED
    BY <2>1, <2>2, <2>4
(* A block the expansion leaves in place.                                  *)
<1>8. ASSUME NEW b \in 1 .. n, b # T
      PROVE  succ'[b] = Destinations(code', layout', b)
  <2>1. Sq(code[b]) /\ Sq(code'[b]) /\ Len(code'[b]) = Len(code[b])
    BY <1>2, <1>5, <1>8
  <2>2. \A j \in 1 .. Len(code[b]) :
          code[b][j].op \in Branches \/ code'[b][j].op \in Branches => code'[b][j] = code[b][j]
    BY <1>5, <1>6, <1>8
  <2>3. Targets(code'[b]) = Targets(code[b]) /\ (Falls(code'[b]) <=> Falls(code[b]))
    BY <2>1, <2>2, SameControl
  <2>4. succ[b] = Targets(code[b]) \cup (IF Falls(code[b]) THEN Behind(layout, b) ELSE {})
    BY <1>2
  <2>5. succ'[b] = succ[b] /\ Behind(layout', b) = Behind(layout, b)
    BY <1>3, <1>4, <1>8
  <2> QED
    BY <2>3, <2>4, <2>5 DEF Destinations
(* The block of the pseudo: it branches to sinkMBB or falls into copy0MBB. *)
<1>9. succ'[T] = Destinations(code', layout', T)
  <2>1. i \in 1 .. i /\ i # 0 /\ \A j \in 1 .. i : j = i \/ j \in 1 .. i - 1
    BY <1>1
  <2>2. code'[T][i].op = "BNE" /\ Goes(code'[T][i]) = n + 2
    <3> DEFINE ops == <<code[T][i].ops[1], n + 2>>
    <3>1. Len(ops) = 2 /\ ops[2] = n + 2
      OBVIOUS
    <3>2. code'[T][i].op = "BNE" /\ code'[T][i].ops = ops
      BY <1>5 DEF BNE
    <3> HIDE DEF ops
    <3> QED
      BY <3>1, <3>2 DEF Goes
  <2>3. \A j \in 1 .. i - 1 : code'[T][j].op \notin Jumps
    <3>1. ASSUME NEW j \in 1 .. i - 1 PROVE code'[T][j].op \notin Jumps
      <4>0. code'[T][j] = After(code[T][j], T, T)
        BY <1>5
      <4>1. code'[T][j].op = code[T][j].op
        BY <4>0, AfterOp
      <4>2. j \in 1 .. i
        BY <1>1
      <4> QED
        BY <1>7, <4>1, <4>2 DEF Jumps, Branches
    <3> QED
      BY <3>1
  <2>4. Targets(code'[T]) = {n + 2}
    <3>1. \A b : b \in Targets(code'[T]) <=>
            \E j \in 1 .. Len(code'[T]) : code'[T][j].op \in Jumps /\ b = Goes(code'[T][j])
      BY <1>5, TargetsOf
    <3>2. code'[T][i].op \in Jumps
      BY <2>2 DEF Jumps
    <3>3. Len(code'[T]) = i
      BY <1>5
    <3>4. \A b : b \in Targets(code'[T]) <=> b = n + 2
      BY <2>1, <2>2, <2>3, <3>1, <3>2, <3>3
    <3> QED
      BY <3>4
  <2>5. Falls(code'[T])
    <3>1. Falls(code'[T]) <=>
            (Len(code'[T]) = 0 \/ code'[T][Len(code'[T])].op \notin {"J", "RET_N"})
      BY <1>5, FallsOf
    <3> QED
      BY <1>5, <2>2, <3>1
  <2>6. Targets(code'[T]) \cup Behind(layout', T) = {n + 1, n + 2}
    BY <1>4, <2>4
  <2> QED
    BY <1>3, <2>5, <2>6 DEF Destinations
(* copy0MBB: empty.                                                        *)
<1>10. succ'[n + 1] = Destinations(code', layout', n + 1)
  <2>1. Sq(<<>>) /\ Len(<<>>) = 0
    BY SqPairs
  <2>2. Falls(<<>>)
    BY DEF Falls
  <2>3. Targets(<<>>) = {}
    BY DEF Targets
  <2> QED
    BY <1>3, <1>4, <1>5, <2>2, <2>3 DEF Destinations
(* sinkMBB: it ends as the block of the pseudo did.                        *)
<1>11. succ'[n + 2] = Destinations(code', layout', n + 2)
  <2> DEFINE s == code[T]
             t == code'[n + 2]
             m == Len(s) - i + 1
  <2>1. Sq(s) /\ Sq(t) /\ Len(t) = m /\ m \in Nat \ {0}
    BY <1>1, <1>2, <1>5
  <2>2. t[1].op = "PHI" /\ \A j \in 2 .. m : t[j] = s[i + j - 1]
    BY <1>5
  <2>3. Targets(t) = Targets(s)
    <3>1. \A b : b \in Targets(s) <=> \E j \in 1 .. Len(s) : s[j].op \in Jumps /\ b = Goes(s[j])
      BY <2>1, TargetsOf
    <3>2. \A b : b \in Targets(t) <=> \E j \in 1 .. Len(t) : t[j].op \in Jumps /\ b = Goes(t[j])
      BY <2>1, TargetsOf
    <3>3. \A j \in 1 .. i : s[j].op \notin Jumps
      BY <1>7 DEF Jumps, Branches
    <3>4. ASSUME NEW b, b \in Targets(s) PROVE b \in Targets(t)
      <4>1. PICK j \in 1 .. Len(s) : s[j].op \in Jumps /\ b = Goes(s[j])
        BY <3>1, <3>4
      <4>2. j \notin 1 .. i
        BY <3>3, <4>1
      <4>3. j - i + 1 \in 2 .. m /\ i + (j - i + 1) - 1 = j /\ j - i + 1 \in 1 .. m
        BY <1>1, <4>2
      <4>4. t[j - i + 1] = s[j]
        BY <2>2, <4>3
      <4> HIDE DEF s, t, m
      <4> QED
        BY <2>1, <3>2, <4>1, <4>3, <4>4
    <3>5. ASSUME NEW b, b \in Targets(t) PROVE b \in Targets(s)
      <4>1. PICK j \in 1 .. m : t[j].op \in Jumps /\ b = Goes(t[j])
        BY <2>1, <3>2, <3>5
      <4>2. j # 1
        BY <2>2, <4>1 DEF Jumps
      <4>3. j \in 2 .. m /\ i + j - 1 \in 1 .. Len(s)
        BY <1>1, <2>1, <4>2
      <4>4. t[j] = s[i + j - 1]
        BY <2>2, <4>3
      <4> HIDE DEF s, t, m
      <4> QED
        BY <3>1, <4>1, <4>3, <4>4
    <3> QED
      BY <3>4, <3>5
  <2>4. Falls(t) <=> Falls(s)
    <3>1. Falls(s) <=> (Len(s) = 0 \/ s[Len(s)].op \notin {"J", "RET_N"})
      BY <2>1, FallsOf
    <3>2. Falls(t) <=> (Len(t) = 0 \/ t[Len(t)].op \notin {"J", "RET_N"})
      BY <2>1, FallsOf
    <3>3. CASE m = 1
      <4>1. Len(s) = i /\ s[i].op = "SELECT_CC" /\ t[1].op = "PHI"
        BY <1>1, <2>2, <3>3
      <4> HIDE DEF s, t
      <4> QED
        BY <2>1, <3>1, <3>2, <3>3, <4>1
    <3>4. CASE m # 1
      <4>1. m \in 2 .. m /\ i + m - 1 = Len(s) /\ Len(s) # 0
        BY <1>1, <2>1, <3>4
      <4>2. t[m] = s[Len(s)]
        BY <2>2, <4>1
      <4> HIDE DEF s, t, m
      <4> QED
        BY <2>1, <3>1, <3>2, <4>1, <4>2
    <3> QED
      BY <3>3, <3>4
  <2>5. succ[T] = Targets(s) \cup (IF Falls(s) THEN Behind(layout, T) ELSE {})
    BY <1>1, <1>2 DEF n
  <2>6. Destinations(code', layout', n + 2) =
          Targets(t) \cup (IF Falls(t) THEN Behind(layout', n + 2) ELSE {})
    BY DEF Destinations
  <2> HIDE DEF s, t
  <2> QED
    BY <1>3, <1>4, <2>3, <2>4, <2>5, <2>6
<1>12. \A b \in 1 .. n + 2 : b = n + 1 \/ b = n + 2 \/ b \in 1 .. n
  BY <1>1 DEF n
<1>13. \A b \in 1 .. n + 2 : succ'[b] = Destinations(code', layout', b)
  BY <1>8, <1>9, <1>10, <1>11, <1>12
<1> QED
  BY <1>5, <1>13 DEF Edges

LEMMA SelectInvExpand ==
  ASSUME SelectInv, ExpandNext
  PROVE  SelectInv'
<1>1. PICK T, i, p :
        /\ p \in 1 .. Len(code) /\ T \in 1 .. Len(code) /\ layout[p] = T
        /\ i \in 1 .. Len(code[T]) /\ code[T][i].op = "SELECT_CC"
        /\ \A j \in 1 .. i - 1 : code[T][j].op # "SELECT_CC"
        /\ \A q \in 1 .. p - 1 : \A j \in 1 .. Len(code[layout[q]]) :
             code[layout[q]][j].op # "SELECT_CC"
        /\ emitSelectCC(T, i)
  BY ExpandedPseudo
<1>2. stage = "pseudo" /\ UNCHANGED stage
  BY DEF ExpandNext
<1>3. Chosen(T, i, p)
  BY <1>1, <1>2 DEF Chosen
<1>4. Shape'
  BY <1>3, ChosenShape
<1>5. Coded'
  BY <1>3, ChosenCoded
<1>6. Ordered'
  BY <1>3, ChosenOrdered
<1>7. Entries'
  BY <1>3, ChosenEntries
<1>8. Edges'
  BY <1>3, ChosenEdgesKept
<1>9. Scanned'
  BY <1>3, ChosenScanned
<1> QED
  BY <1>4, <1>5, <1>6, <1>7, <1>8, <1>9 DEF SelectInv

--------------------------------------------------------------------------------
(* Every function that selection gets leaves every state of its expansion  *)
(* with the invariant.                                                     *)
THEOREM SelectInvariant == Spec => []SelectInv
<1>1. Init => SelectInv
  BY SelectInvInit
<1>2. SelectInv /\ [Next]_vars => SelectInv'
  <2> SUFFICES ASSUME SelectInv, [Next]_vars PROVE SelectInv'
    OBVIOUS
  <2>1. CASE Select
    BY <2>1, SelectInvSelect
  <2>2. CASE ExpandNext
    BY <2>2, SelectInvExpand
  <2>3. CASE Finish
    BY <2>3, SelectInvFinish
  <2>4. CASE UNCHANGED vars
    BY <2>4, SelectInvStutter
  <2> QED
    BY <2>1, <2>2, <2>3, <2>4 DEF Next
<1> QED
  BY <1>1, <1>2, PTL DEF Spec

(* Each stage holds its own instructions only: the scan of ExpandPseudos,  *)
(* which jumps into the block emitSelectCC returns, passes no pseudo by.   *)
THEOREM SelectTypeCorrect == Spec => []TypeOK
<1>1. SelectInv => TypeOK
  BY SelectInvImplies
<1> QED
  BY <1>1, SelectInvariant, PTL

(* The edges emitSelectCC records are those its branch and its order of    *)
(* the blocks make, for every graph and every number of selects.           *)
THEOREM SuccessorsKeptExact == Spec => []SuccessorsAreDestinations
<1>1. SelectInv => SuccessorsAreDestinations
  BY SelectInvImplies
<1> QED
  BY <1>1, SelectInvariant, PTL

(* The phis of every block, also of those emitSelectCC never looks at,     *)
(* have one entry for each predecessor.                                    *)
THEOREM PhisKeptExact == Spec => []PhisMatchPredecessors
<1>1. SelectInv => PhisMatchPredecessors
  BY SelectInvImplies
<1> QED
  BY <1>1, SelectInvariant, PTL

--------------------------------------------------------------------------------
(***************************************************************************)
(* The machine.  Mk is the record it keeps; Entered, the registers when a  *)
(* block is entered.                                                       *)
(***************************************************************************)
Mk(b, i, out, end, r) == [b |-> b, i |-> i, out |-> out, end |-> end, r |-> r]

Entered(c, b, to, r) ==
  [x \in Regs |->
     IF PhisOf(c[to], x) # {}
     THEN LET phi == c[to][CHOOSE j \in PhisOf(c[to], x) : TRUE]
          IN  IF b \in DOMAIN phi.in THEN r[phi.in[b]] ELSE Undef
     ELSE r[x]]

LEMMA MkFields ==
  ASSUME NEW b, NEW i, NEW out, NEW end, NEW r
  PROVE  LET m == Mk(b, i, out, end, r) IN
         m.b = b /\ m.i = i /\ m.out = out /\ m.end = end /\ m.r = r
  BY DEF Mk

LEMMA MkEnter ==
  ASSUME NEW c, NEW b, NEW i, NEW out, NEW end, NEW r, NEW to
  PROVE  Enter(c, Mk(b, i, out, end, r), to)
           = Mk(to, FirstNonPHI(c[to]), out, end, Entered(c, b, to, r))
<1> DEFINE m == Mk(b, i, out, end, r)
           reg(x) == IF PhisOf(c[to], x) # {}
                     THEN LET phi == c[to][CHOOSE j \in PhisOf(c[to], x) : TRUE]
                          IN  IF b \in DOMAIN phi.in THEN r[phi.in[b]] ELSE Undef
                     ELSE r[x]
           regs == [x \in Regs |-> reg(x)]
<1>1. m.b = b /\ m.r = r
  BY MkFields
<1>2. Enter(c, m, to) = [m EXCEPT !.b = to, !.i = FirstNonPHI(c[to]), !.r = regs]
  <2> HIDE DEF m
  <2> QED
    BY <1>1 DEF Enter
<1>3. regs = Entered(c, b, to, r)
  BY DEF Entered
<1> HIDE DEF regs
<1>4. [m EXCEPT !.b = to, !.i = FirstNonPHI(c[to]), !.r = regs]
        = Mk(to, FirstNonPHI(c[to]), out, end, regs)
  <2> DEFINE f == FirstNonPHI(c[to])
  <2> HIDE DEF f
  <2>1. [m EXCEPT !.b = to] = Mk(to, i, out, end, r)
    BY DEF Mk
  <2>2. [Mk(to, i, out, end, r) EXCEPT !.i = f] = Mk(to, f, out, end, r)
    BY DEF Mk
  <2>3. [Mk(to, f, out, end, r) EXCEPT !.r = regs] = Mk(to, f, out, end, regs)
    BY DEF Mk
  <2> HIDE DEF m
  <2>4. [m EXCEPT !.b = to, !.i = f, !.r = regs] = Mk(to, f, out, end, regs)
    BY <2>1, <2>2, <2>3
  <2> QED
    BY <2>4 DEF f
<1> QED
  BY <1>2, <1>3, <1>4

(* Every register is in the domain, whatever was done.                     *)
IsRegs(r) == r = [x \in Regs |-> r[x]]

LEMMA EnteredRegs ==
  \A c, b, to, r : IsRegs(Entered(c, b, to, r))
  BY DEF Entered, IsRegs

LEMMA PutRegs ==
  ASSUME NEW r, IsRegs(r), NEW d, NEW v
  PROVE  IsRegs([r EXCEPT ![d] = v])
  BY DEF IsRegs

(* What an instruction does is one of three, wherever it is: it works on   *)
(* the registers and goes on, goes to another block, or ends the run.      *)
Local(x, out, r, out2, r2) ==
  /\ IsRegs(r2) /\ x.op \notin {"J", "RET_N"}
  /\ \A c, b, i : Execute("built", c, Mk(b, i, out, "no", r), x) = Mk(b, i + 1, out2, "no", r2)

Jumping(x, out, r) ==
  /\ x.op \in Jumps
  /\ \A c, b, i : Execute("built", c, Mk(b, i, out, "no", r), x)
       = Mk(Goes(x), FirstNonPHI(c[Goes(x)]), out, "no", Entered(c, b, Goes(x), r))

Ending(x, out, r, end) ==
  /\ end # "no"
  /\ \A c, b, i : Execute("built", c, Mk(b, i, out, "no", r), x) = Mk(b, i, out, end, r)

(* A branch's target is its last operand.                                  *)
Operands(x) ==
  /\ x.op \in {"BNE", "BNEZ"} => Len(x.ops) = 2
  /\ x.op = "J" => Len(x.ops) = 1

LEMMA PutMk ==
  ASSUME NEW b, NEW i, NEW out, NEW end, NEW r, NEW d, NEW v
  PROVE  Put(Mk(b, i, out, end, r), d, v) = Mk(b, i + 1, out, end, [r EXCEPT ![d] = v])
<1> DEFINE m   == Mk(b, i, out, end, r)
           put == [r EXCEPT ![d] = v]
<1>1. m.r = r /\ m.i = i
  BY MkFields
<1>2. Put(m, d, v) = [[m EXCEPT !.r = put] EXCEPT !.i = @ + 1]
  <2> HIDE DEF m
  <2> QED
    BY <1>1 DEF Put
<1> HIDE DEF put
<1>3. [m EXCEPT !.r = put] = Mk(b, i, out, end, put)
  BY DEF Mk
<1>4. [Mk(b, i, out, end, put) EXCEPT !.i = @ + 1] = Mk(b, i + 1, out, end, put)
  BY DEF Mk
<1> HIDE DEF m
<1>5. Put(m, d, v) = Mk(b, i + 1, out, end, put)
  BY <1>2, <1>3, <1>4
<1> QED
  BY <1>5 DEF m, put

LEMMA ExecuteSELECT_CC ==
  ASSUME NEW x, x.op = "SELECT_CC", NEW c, NEW b, NEW i, NEW out, NEW r
  PROVE  Execute("built", c, Mk(b, i, out, "no", r), x) =
           Mk(b, i + 1, out, "no",
              [r EXCEPT ![x.d] = r[IF r[x.ops[1]] # 0 THEN x.ops[2] ELSE x.ops[3]]])
<1> DEFINE v == r[IF r[x.ops[1]] # 0 THEN x.ops[2] ELSE x.ops[3]]
           m == Mk(b, i, out, "no", r)
           w == m.r[IF m.r[x.ops[1]] # 0 THEN x.ops[2] ELSE x.ops[3]]
<1>1. m.r = r
  BY MkFields
<1>2. w = v
  BY <1>1
<1>3. Execute("built", c, m, x) = Put(m, x.d, w)
  BY DEF Execute
<1> HIDE DEF v, w
<1>4. Execute("built", c, m, x) = Mk(b, i + 1, out, "no", [r EXCEPT ![x.d] = v])
  BY <1>2, <1>3, PutMk
<1> QED
  BY <1>4 DEF v

LEMMA ExecuteBNE ==
  ASSUME NEW reg, NEW to, NEW c, NEW b, NEW i, NEW out, NEW r
  PROVE  Execute("built", c, Mk(b, i, out, "no", r), BNE(reg, to)) =
           IF r[reg] # 0 THEN Mk(to, FirstNonPHI(c[to]), out, "no", Entered(c, b, to, r))
           ELSE Mk(b, i + 1, out, "no", r)
<1> DEFINE m == Mk(b, i, out, "no", r)
           x == BNE(reg, to)
<1>1. m.r = r
  BY MkFields
<1>2. x.op = "BNE" /\ x.ops[1] = reg /\ x.ops[2] = to
  BY DEF BNE
<1>3. [m EXCEPT !.i = @ + 1] = Mk(b, i + 1, out, "no", r)
  BY DEF Mk
<1>4. Enter(c, m, to) = Mk(to, FirstNonPHI(c[to]), out, "no", Entered(c, b, to, r))
  BY MkEnter
<1> HIDE DEF m, x
<1>5. Execute("built", c, m, x) = IF r[reg] # 0 THEN Enter(c, m, to) ELSE [m EXCEPT !.i = @ + 1]
  BY <1>1, <1>2 DEF Execute
<1>6. Execute("built", c, m, x) =
        IF r[reg] # 0 THEN Mk(to, FirstNonPHI(c[to]), out, "no", Entered(c, b, to, r))
        ELSE Mk(b, i + 1, out, "no", r)
  BY <1>3, <1>4, <1>5
<1> QED
  BY <1>6 DEF m, x

LEMMA ExecuteKinds ==
  ASSUME NEW x, Operands(x), NEW out, NEW r, IsRegs(r)
  PROVE  \/ \E out2, r2 : Local(x, out, r, out2, r2)
         \/ Jumping(x, out, r)
         \/ \E end : Ending(x, out, r, end)
<1> DEFINE put(v) == [r EXCEPT ![x.d] = v]
<1>2. CASE x.op = "select"
  <2> DEFINE v == r[IF Holds(x.form, r[x.lhs]) THEN x.t ELSE x.f]
  <2>1. ASSUME NEW c, NEW b, NEW i
        PROVE  Execute("built", c, Mk(b, i, out, "no", r), x) = Mk(b, i + 1, out, "no", put(v))
    <3> DEFINE m == Mk(b, i, out, "no", r)
               w == m.r[IF Holds(x.form, m.r[x.lhs]) THEN x.t ELSE x.f]
    <3>1. m.r = r
      BY MkFields
    <3>2. w = v
      BY <3>1
    <3>3. Execute("built", c, m, x) = Put(m, x.d, w)
      BY <1>2 DEF Execute
    <3> HIDE DEF v, w
    <3> QED
      BY <3>2, <3>3, PutMk
  <2>2. Local(x, out, r, out, put(v))
    BY <1>2, <2>1, PutRegs DEF Local
  <2> QED
    BY <2>2
<1>3. CASE x.op = "SELECT_CC"
  <2> DEFINE v == r[IF r[x.ops[1]] # 0 THEN x.ops[2] ELSE x.ops[3]]
  <2>1. \A c, b, i : Execute("built", c, Mk(b, i, out, "no", r), x) = Mk(b, i + 1, out, "no", put(v))
    BY <1>3, ExecuteSELECT_CC
  <2>2. Local(x, out, r, out, put(v))
    BY <1>3, <2>1, PutRegs DEF Local
  <2> QED
    BY <2>2
<1>4. CASE x.op = "dec"
  <2> DEFINE v == r[x.s] - 1
  <2>1. ASSUME NEW c, NEW b, NEW i
        PROVE  Execute("built", c, Mk(b, i, out, "no", r), x) = Mk(b, i + 1, out, "no", put(v))
    <3> DEFINE m == Mk(b, i, out, "no", r)
               w == m.r[x.s] - 1
    <3>1. m.r = r
      BY MkFields
    <3>2. w = v
      BY <3>1
    <3>3. Execute("built", c, m, x) = Put(m, x.d, w)
      BY <1>4 DEF Execute
    <3> HIDE DEF v, w
    <3> QED
      BY <3>2, <3>3, PutMk
  <2>2. Local(x, out, r, out, put(v))
    BY <1>4, <2>1, PutRegs DEF Local
  <2> QED
    BY <2>2
<1>5. CASE x.op = "use"
  <2>1. ASSUME NEW c, NEW b, NEW i
        PROVE  Execute("built", c, Mk(b, i, out, "no", r), x)
                 = Mk(b, i + 1, Append(out, r[x.s]), "no", r)
    <3> DEFINE m == Mk(b, i, out, "no", r)
    <3>1. m.r = r
      BY MkFields
    <3>2. Execute("built", c, m, x) = [m EXCEPT !.out = Append(@, m.r[x.s]), !.i = @ + 1]
      BY <1>5 DEF Execute
    <3> QED
      BY <3>1, <3>2 DEF Mk
  <2>2. Local(x, out, r, Append(out, r[x.s]), r)
    BY <1>5, <2>1 DEF Local
  <2> QED
    BY <2>2
<1>6. CASE x.op \in {"BNE", "BNEZ"} /\ r[x.ops[1]] # 0
  <2>1. Goes(x) = x.ops[2] /\ x.op \in Jumps
    BY <1>6 DEF Operands, Goes, Jumps
  <2>2. ASSUME NEW c, NEW b, NEW i
        PROVE  Execute("built", c, Mk(b, i, out, "no", r), x)
                 = Mk(Goes(x), FirstNonPHI(c[Goes(x)]), out, "no", Entered(c, b, Goes(x), r))
    <3>1. Execute("built", c, Mk(b, i, out, "no", r), x) = Enter(c, Mk(b, i, out, "no", r), x.ops[2])
      BY <1>6, MkFields DEF Execute
    <3> QED
      BY <2>1, <3>1, MkEnter
  <2> QED
    BY <2>1, <2>2 DEF Jumping
<1>7. CASE x.op \in {"BNE", "BNEZ"} /\ ~(r[x.ops[1]] # 0)
  <2>1. ASSUME NEW c, NEW b, NEW i
        PROVE  Execute("built", c, Mk(b, i, out, "no", r), x) = Mk(b, i + 1, out, "no", r)
    <3> DEFINE m == Mk(b, i, out, "no", r)
    <3>1. m.r = r
      BY MkFields
    <3>2. Execute("built", c, m, x) = [m EXCEPT !.i = @ + 1]
      BY <1>7, <3>1 DEF Execute
    <3> QED
      BY <3>2 DEF Mk
  <2>2. Local(x, out, r, out, r)
    BY <1>7, <2>1 DEF Local
  <2> QED
    BY <2>2
<1>8. CASE x.op = "J"
  <2>1. Goes(x) = x.ops[1] /\ x.op \in Jumps
    BY <1>8 DEF Operands, Goes, Jumps
  <2>2. ASSUME NEW c, NEW b, NEW i
        PROVE  Execute("built", c, Mk(b, i, out, "no", r), x)
                 = Mk(Goes(x), FirstNonPHI(c[Goes(x)]), out, "no", Entered(c, b, Goes(x), r))
    <3>1. Execute("built", c, Mk(b, i, out, "no", r), x) = Enter(c, Mk(b, i, out, "no", r), x.ops[1])
      BY <1>8 DEF Execute
    <3> QED
      BY <2>1, <3>1, MkEnter
  <2> QED
    BY <2>1, <2>2 DEF Jumping
<1>9. CASE x.op = "RET_N"
  <2>1. ASSUME NEW c, NEW b, NEW i
        PROVE  Execute("built", c, Mk(b, i, out, "no", r), x) = Mk(b, i, out, "ret", r)
    BY <1>9 DEF Execute, Mk
  <2> QED
    BY <2>1 DEF Ending
<1>10. CASE x.op \notin {"select", "SELECT_CC", "dec", "use", "BNE", "BNEZ", "J", "RET_N"}
  <2>1. ASSUME NEW c, NEW b, NEW i
        PROVE  Execute("built", c, Mk(b, i, out, "no", r), x) = Mk(b, i, out, "bad", r)
    BY <1>10 DEF Execute, Mk
  <2> QED
    BY <2>1 DEF Ending
<1> QED
  BY <1>2, <1>3, <1>4, <1>5, <1>6, <1>7, <1>8, <1>9, <1>10

--------------------------------------------------------------------------------
(***************************************************************************)
(* Runs, step by step.  A step costs 1, at a select 3: an expansion may    *)
(* take that many steps for it and no run costs more after one.            *)
(***************************************************************************)
Moment(c, order, in, g, k) ==
  IF k = 0 THEN Start(order, in) ELSE Do("built", c, order, g[k - 1])

Recorded(c, order, in, g, n) == g = [k \in 0 .. n |-> Moment(c, order, in, g, k)]

LEMMA RecordsExist ==
  ASSUME NEW c, NEW order, NEW in, NEW n \in Nat
  PROVE  \E g : Recorded(c, order, in, g, n)
<1> DEFINE T == {m \in Nat : \E g : Recorded(c, order, in, g, m)}
<1>1. 0 \in T
  <2> DEFINE g == [k \in 0 .. 0 |-> Start(order, in)]
  <2>1. g = [k \in 0 .. 0 |-> Moment(c, order, in, g, k)]
    BY DEF Moment
  <2> HIDE DEF g
  <2>2. Recorded(c, order, in, g, 0)
    BY <2>1 DEF Recorded
  <2> QED
    BY <2>2
<1>2. ASSUME NEW m \in Nat, NEW g, Recorded(c, order, in, g, m)
      PROVE  \E h : Recorded(c, order, in, h, m + 1)
  <2> DEFINE h == [k \in 0 .. m + 1 |-> Moment(c, order, in, g, k)]
  <2>1. \A k \in 0 .. m : h[k] = g[k]
    BY <1>2 DEF Recorded
  <2>2. \A k \in 0 .. m + 1 : k = 0 \/ k - 1 \in 0 .. m
    OBVIOUS
  <2>3. h = [k \in 0 .. m + 1 |-> h[k]] /\ \A k \in 0 .. m + 1 : h[k] = Moment(c, order, in, g, k)
    OBVIOUS
  <2> HIDE DEF h
  <2>4. \A k \in 0 .. m + 1 : Moment(c, order, in, h, k) = Moment(c, order, in, g, k)
    BY <2>1, <2>2 DEF Moment
  <2>5. h = [k \in 0 .. m + 1 |-> Moment(c, order, in, h, k)]
    BY <2>3, <2>4
  <2> QED
    BY <2>5 DEF Recorded
<1>3. \A m \in T : m + 1 \in T
  BY <1>2
<1>4. T \in SUBSET Nat
  OBVIOUS
<1> HIDE DEF T
<1>5. T = Nat
  BY <1>1, <1>3, <1>4, NatSetInduction
<1> QED
  BY <1>5 DEF T

LEMMA RecordsAgree ==
  ASSUME NEW c, NEW order, NEW in, NEW n \in Nat, NEW g, NEW h,
         Recorded(c, order, in, g, n), Recorded(c, order, in, h, n + 1)
  PROVE  h[n] = g[n]
<1>1. /\ \A k \in 0 .. n : g[k] = Moment(c, order, in, g, k)
      /\ \A k \in 0 .. n + 1 : h[k] = Moment(c, order, in, h, k)
  BY DEF Recorded
<1> DEFINE T == {k \in Nat : k <= n => h[k] = g[k]}
<1>2. 0 \in T
  <2>1. 0 \in 0 .. n /\ 0 \in 0 .. n + 1
    OBVIOUS
  <2> QED
    BY <1>1, <2>1 DEF Moment
<1>3. ASSUME NEW k \in T PROVE k + 1 \in T
  <2> SUFFICES ASSUME k + 1 <= n PROVE h[k + 1] = g[k + 1]
    OBVIOUS
  <2>1. k \in Nat /\ h[k] = g[k]
    OBVIOUS
  <2>2. k + 1 \in 0 .. n /\ k + 1 \in 0 .. n + 1 /\ k + 1 # 0 /\ (k + 1) - 1 = k
    BY <2>1
  <2>3. h[k + 1] = Do("built", c, order, h[k]) /\ g[k + 1] = Do("built", c, order, g[k])
    BY <1>1, <2>2 DEF Moment
  <2> QED
    BY <2>1, <2>3
<1>4. T \in SUBSET Nat
  OBVIOUS
<1> HIDE DEF T
<1>5. T = Nat
  BY <1>2, <1>3, <1>4, NatSetInduction
<1> QED
  BY <1>5 DEF T

LEMMA RunningSteps ==
  ASSUME NEW c, NEW order, NEW in
  PROVE  /\ Running("built", c, order, in, 0) = Start(order, in)
         /\ \A n \in Nat :
              Running("built", c, order, in, n + 1) = Do("built", c, order, Running("built", c, order, in, n))
<1> DEFINE run(n) == CHOOSE g : Recorded(c, order, in, g, n)
<1>1. ASSUME NEW n \in Nat
      PROVE  Recorded(c, order, in, run(n), n) /\ Running("built", c, order, in, n) = run(n)[n]
  <2>1. Recorded(c, order, in, run(n), n)
    BY RecordsExist
  <2>2. Running("built", c, order, in, n) = run(n)[n]
    BY DEF Running, Recorded, Moment
  <2> QED
    BY <2>1, <2>2
<1> HIDE DEF run
<1>2. Running("built", c, order, in, 0) = Start(order, in)
  <2>0. Recorded(c, order, in, run(0), 0) /\ Running("built", c, order, in, 0) = run(0)[0]
    BY <1>1
  <2>1. run(0) = [k \in 0 .. 0 |-> Moment(c, order, in, run(0), k)] /\ 0 \in 0 .. 0
    BY <2>0 DEF Recorded
  <2>2. run(0)[0] = Moment(c, order, in, run(0), 0)
    BY <2>1
  <2> QED
    BY <2>0, <2>2 DEF Moment
<1>3. ASSUME NEW n \in Nat
      PROVE  Running("built", c, order, in, n + 1) = Do("built", c, order, Running("built", c, order, in, n))
  <2>1. Recorded(c, order, in, run(n), n) /\ Running("built", c, order, in, n) = run(n)[n]
    BY <1>1
  <2>2. /\ Recorded(c, order, in, run(n + 1), n + 1)
        /\ Running("built", c, order, in, n + 1) = run(n + 1)[n + 1]
    BY <1>1
  <2>3. run(n + 1)[n] = run(n)[n]
    BY <2>1, <2>2, RecordsAgree
  <2>4. n + 1 \in 0 .. n + 1 /\ n + 1 # 0 /\ (n + 1) - 1 = n
    OBVIOUS
  <2>5. run(n + 1)[n + 1] = Moment(c, order, in, run(n + 1), n + 1)
    BY <2>2, <2>4 DEF Recorded
  <2> QED
    BY <2>1, <2>2, <2>3, <2>4, <2>5 DEF Moment
<1> QED
  BY <1>2, <1>3

Weight(c, m) ==
  IF m.end = "no" /\ m.i \in 1 .. Len(c[m.b]) /\ c[m.b][m.i].op \in Selects
  THEN 3 ELSE 1

Weighed(c, order, in, N, w) ==
  /\ w[0] = 0
  /\ \A k \in 0 .. N - 1 : w[k + 1] = w[k] + Weight(c, Running("built", c, order, in, k))

(* The machine m is met after steps that cost v.                           *)
Reach(c, order, in, m, v) ==
  \E N \in Nat : \E w \in [0 .. N -> Nat] :
    Weighed(c, order, in, N, w) /\ m = Running("built", c, order, in, N) /\ v = w[N]

LEMMA WeightIs ==
  \A c, m : Weight(c, m) \in {1, 3}
  BY DEF Weight

LEMMA ReachStart ==
  ASSUME NEW c, NEW order, NEW in
  PROVE  Reach(c, order, in, Start(order, in), 0)
<1> DEFINE w == [k \in 0 .. 0 |-> 0]
<1>1. w \in [0 .. 0 -> Nat] /\ w[0] = 0
  OBVIOUS
<1> HIDE DEF w
<1>2. Weighed(c, order, in, 0, w)
  BY <1>1 DEF Weighed
<1>3. Running("built", c, order, in, 0) = Start(order, in)
  BY RunningSteps
<1> QED
  BY <1>1, <1>2, <1>3 DEF Reach

LEMMA ReachStep ==
  ASSUME NEW c, NEW order, NEW in, NEW m, NEW v, Reach(c, order, in, m, v)
  PROVE  v \in Nat /\ Reach(c, order, in, Do("built", c, order, m), v + Weight(c, m))
<1>0. PICK N \in Nat : \E w \in [0 .. N -> Nat] :
        Weighed(c, order, in, N, w) /\ m = Running("built", c, order, in, N) /\ v = w[N]
  BY DEF Reach
<1>1. PICK w \in [0 .. N -> Nat] :
        Weighed(c, order, in, N, w) /\ m = Running("built", c, order, in, N) /\ v = w[N]
  BY <1>0
<1> DEFINE u == [k \in 0 .. N + 1 |-> IF k <= N THEN w[k] ELSE v + Weight(c, m)]
<1>2. v \in Nat /\ Weight(c, m) \in Nat
  BY <1>1, WeightIs
<1>3. u \in [0 .. N + 1 -> Nat]
  BY <1>2
<1>4. /\ \A k \in 0 .. N : u[k] = w[k]
      /\ u[N + 1] = v + Weight(c, m)
  OBVIOUS
<1> HIDE DEF u
<1>5. Weighed(c, order, in, N + 1, u)
  <2>1. u[0] = 0
    BY <1>1, <1>4 DEF Weighed
  <2>2. ASSUME NEW k \in 0 .. (N + 1) - 1
        PROVE  u[k + 1] = u[k] + Weight(c, Running("built", c, order, in, k))
    <3>1. CASE k = N
      BY <1>1, <1>4, <3>1
    <3>2. CASE k # N
      <4>1. k \in 0 .. N - 1 /\ k \in 0 .. N /\ k + 1 \in 0 .. N
        BY <3>2
      <4>2. w[k + 1] = w[k] + Weight(c, Running("built", c, order, in, k))
        BY <1>1, <4>1 DEF Weighed
      <4> QED
        BY <1>4, <4>1, <4>2
    <3> QED
      BY <3>1, <3>2
  <2> QED
    BY <2>1, <2>2 DEF Weighed
<1>6. Do("built", c, order, m) = Running("built", c, order, in, N + 1)
  BY <1>1, RunningSteps
<1>7. N + 1 \in Nat
  OBVIOUS
<1> QED
  BY <1>2, <1>3, <1>4, <1>5, <1>6, <1>7 DEF Reach

(* A run of n steps costs at most 3n ...                                   *)
LEMMA RunReached ==
  ASSUME NEW c, NEW order, NEW in, NEW n \in Nat
  PROVE  \E v \in Nat : v <= 3 * n /\ Reach(c, order, in, Running("built", c, order, in, n), v)
<1> DEFINE T == {k \in Nat : \E v \in Nat :
                   v <= 3 * k /\ Reach(c, order, in, Running("built", c, order, in, k), v)}
<1>1. 0 \in T
  <2>1. Reach(c, order, in, Running("built", c, order, in, 0), 0)
    BY ReachStart, RunningSteps
  <2> QED
    BY <2>1
<1>2. ASSUME NEW k \in T PROVE k + 1 \in T
  <2>1. PICK v \in Nat : v <= 3 * k /\ Reach(c, order, in, Running("built", c, order, in, k), v)
    OBVIOUS
  <2> DEFINE m == Running("built", c, order, in, k)
  <2>2. Reach(c, order, in, Do("built", c, order, m), v + Weight(c, m))
    BY <2>1, ReachStep
  <2>3. Do("built", c, order, m) = Running("built", c, order, in, k + 1)
    BY RunningSteps
  <2>4. v + Weight(c, m) \in Nat /\ v + Weight(c, m) <= 3 * (k + 1)
    BY <2>1, WeightIs
  <2>5. k + 1 \in Nat
    OBVIOUS
  <2> QED
    BY <2>2, <2>3, <2>4, <2>5
<1>3. T \in SUBSET Nat
  OBVIOUS
<1> HIDE DEF T
<1>4. T = Nat
  BY <1>1, <1>2, <1>3, NatSetInduction
<1> QED
  BY <1>4 DEF T

(* ... and one that has ended at a cost of at most n is what n steps make. *)
LEMMA ReachEnded ==
  ASSUME NEW c, NEW order, NEW in, NEW m, NEW v, Reach(c, order, in, m, v),
         m.end # "no", NEW n \in Nat, v <= n
  PROVE  Running("built", c, order, in, n) = m
<1>0. PICK N \in Nat : \E w \in [0 .. N -> Nat] :
        Weighed(c, order, in, N, w) /\ m = Running("built", c, order, in, N) /\ v = w[N]
  BY DEF Reach
<1>1. PICK w \in [0 .. N -> Nat] :
        Weighed(c, order, in, N, w) /\ m = Running("built", c, order, in, N) /\ v = w[N]
  BY <1>0
<1>2. N <= n
  <2> DEFINE T == {k \in 0 .. N : k <= w[k]}
  <2>1. 0 \in T
    BY <1>1 DEF Weighed
  <2>2. ASSUME NEW k \in 0 .. N - 1, k \in T PROVE k + 1 \in T
    <3>1. w[k + 1] = w[k] + Weight(c, Running("built", c, order, in, k))
      BY <1>1 DEF Weighed
    <3>2. w[k] \in Nat /\ k + 1 \in 0 .. N /\ k <= w[k] /\ k \in Nat
      BY <2>2
    <3>3. Weight(c, Running("built", c, order, in, k)) >= 1 /\ Weight(c, Running("built", c, order, in, k)) \in Nat
      BY WeightIs
    <3> HIDE DEF T
    <3>4. k + 1 <= w[k + 1]
      BY <3>1, <3>2, <3>3
    <3> QED
      BY <3>2, <3>4 DEF T
  <2> HIDE DEF T
  <2>3. 0 .. N \subseteq T
    BY <2>1, <2>2, BoundedInduction
  <2>4. N \in T
    BY <2>3
  <2>5. N <= v /\ v \in Nat
    BY <1>1, <2>4 DEF T
  <2> QED
    BY <2>5
<1> DEFINE T == {k \in Nat : Running("built", c, order, in, N + k) = m}
<1>3. 0 \in T
  BY <1>1
<1>4. ASSUME NEW k \in T PROVE k + 1 \in T
  <2>1. k \in Nat /\ Running("built", c, order, in, N + k) = m
    OBVIOUS
  <2>2. N + k \in Nat /\ (N + k) + 1 = N + (k + 1) /\ k + 1 \in Nat
    BY <2>1
  <2>3. Running("built", c, order, in, (N + k) + 1) = Do("built", c, order, m)
    <3>1. Running("built", c, order, in, (N + k) + 1) = Do("built", c, order, Running("built", c, order, in, N + k))
      BY <2>2, RunningSteps
    <3> QED
      BY <2>1, <3>1
  <2>4. Do("built", c, order, m) = m
    BY DEF Do
  <2> QED
    BY <2>2, <2>3, <2>4
<1>5. T \in SUBSET Nat
  OBVIOUS
<1> HIDE DEF T
<1>6. T = Nat
  BY <1>3, <1>4, <1>5, NatSetInduction
<1>7. n - N \in Nat /\ N + (n - N) = n
  BY <1>2
<1> QED
  BY <1>6, <1>7 DEF T

--------------------------------------------------------------------------------
(***************************************************************************)
(* Entering a block.                                                       *)
(***************************************************************************)
FirstAt(s, j) ==
  /\ j \in 1 .. Len(s) + 1
  /\ \A k \in 1 .. j - 1 : s[k].op = "PHI"
  /\ j <= Len(s) => s[j].op # "PHI"

LEMMA FirstNonPHIIs ==
  ASSUME NEW s, Len(s) \in Nat, NEW j, FirstAt(s, j)
  PROVE  FirstNonPHI(s) = j
<1>1. ASSUME NEW k, FirstAt(s, k) PROVE k = j
  <2>1. CASE k < j
    <3>1. k \in 1 .. j - 1 /\ k <= Len(s)
      BY <1>1, <2>1 DEF FirstAt
    <3> QED
      BY <1>1, <3>1 DEF FirstAt
  <2>2. CASE j < k
    <3>1. j \in 1 .. k - 1 /\ j <= Len(s)
      BY <1>1, <2>2 DEF FirstAt
    <3> QED
      BY <1>1, <3>1 DEF FirstAt
  <2> QED
    BY <1>1, <2>1, <2>2 DEF FirstAt
<1>2. FirstNonPHI(s) = CHOOSE k \in 1 .. Len(s) + 1 : FirstAt(s, k)
  BY DEF FirstNonPHI, FirstAt
<1>3. \E k \in 1 .. Len(s) + 1 : FirstAt(s, k)
  BY DEF FirstAt
<1> QED
  BY <1>1, <1>2, <1>3

LEMMA FirstNonPHIExists ==
  ASSUME NEW s, Len(s) \in Nat
  PROVE  FirstAt(s, FirstNonPHI(s))
<1> DEFINE U == {j \in 1 .. Len(s) + 1 : j <= Len(s) => s[j].op # "PHI"}
<1>1. Len(s) + 1 \in U /\ U \in SUBSET Nat
  OBVIOUS
<1>2. PICK j \in U : \A k \in U : j <= k
  <2> HIDE DEF U
  <2> QED
    BY <1>1, LeastOne
<1>3. ASSUME NEW k \in 1 .. j - 1 PROVE s[k].op = "PHI"
  <2>1. j \in 1 .. Len(s) + 1
    OBVIOUS
  <2>2. k \in 1 .. Len(s) + 1 /\ ~(j <= k)
    BY <2>1
  <2>3. k \notin U
    BY <1>2, <2>2
  <2> QED
    BY <2>2, <2>3
<1>4. FirstAt(s, j)
  BY <1>3 DEF FirstAt
<1> QED
  BY <1>4, FirstNonPHIIs

(* The same registers come out where the phis are for the same registers   *)
(* and what they read is the same.                                         *)
LEMMA EnteredSame ==
  ASSUME NEW c, NEW b, NEW d, NEW a, NEW q, NEW r,
         FirstNonPHI(d[q]) = FirstNonPHI(c[q]),
         \A j \in 1 .. FirstNonPHI(c[q]) - 1 :
           /\ d[q][j].d = c[q][j].d
           /\ (IF a \in DOMAIN d[q][j].in THEN r[d[q][j].in[a]] ELSE Undef)
                = (IF b \in DOMAIN c[q][j].in THEN r[c[q][j].in[b]] ELSE Undef)
  PROVE  Entered(d, a, q, r) = Entered(c, b, q, r)
<1> DEFINE Read(i, p) == IF p \in DOMAIN i.in THEN r[i.in[p]] ELSE Undef
           Reg(s, p, x) ==
             IF PhisOf(s[q], x) # {}
             THEN Read(s[q][CHOOSE j \in PhisOf(s[q], x) : TRUE], p) ELSE r[x]
<1>1. ASSUME NEW x PROVE PhisOf(d[q], x) = PhisOf(c[q], x)
  BY DEF PhisOf
<1>2. ASSUME NEW x PROVE Reg(d, a, x) = Reg(c, b, x)
  <2>1. CASE PhisOf(c[q], x) = {}
    BY <1>1, <2>1
  <2>2. CASE PhisOf(c[q], x) # {}
    <3> DEFINE j == CHOOSE k \in PhisOf(c[q], x) : TRUE
    <3>1. j \in PhisOf(c[q], x)
      BY <2>2
    <3>2. j \in 1 .. FirstNonPHI(c[q]) - 1
      BY <3>1 DEF PhisOf
    <3>3. (CHOOSE k \in PhisOf(d[q], x) : TRUE) = j
      BY <1>1
    <3> HIDE DEF j
    <3>4. Read(d[q][j], a) = Read(c[q][j], b)
      BY <3>2
    <3> HIDE DEF Read
    <3>5. Reg(d, a, x) = Read(d[q][j], a)
      BY <1>1, <2>2, <3>3
    <3>6. Reg(c, b, x) = Read(c[q][j], b)
      BY <2>2 DEF j
    <3> QED
      BY <3>4, <3>5, <3>6
  <2> QED
    BY <2>1, <2>2
<1>3. /\ Entered(d, a, q, r) = [x \in Regs |-> Reg(d, a, x)]
      /\ Entered(c, b, q, r) = [x \in Regs |-> Reg(c, b, x)]
  BY DEF Entered
<1> HIDE DEF Reg
<1> QED
  BY <1>2, <1>3

LEMMA FallMk ==
  ASSUME NEW c, NEW order, NEW b, NEW i, NEW out, NEW r
  PROVE  /\ Behind(order, b) = {} =>
              FallThrough(c, order, Mk(b, i, out, "no", r)) = Mk(b, i, out, "off", r)
         /\ \A q : Behind(order, b) = {q} =>
              FallThrough(c, order, Mk(b, i, out, "no", r))
                = Mk(q, FirstNonPHI(c[q]), out, "no", Entered(c, b, q, r))
<1> DEFINE m == Mk(b, i, out, "no", r)
<1>1. m.b = b
  BY MkFields
<1>2. [m EXCEPT !.end = "off"] = Mk(b, i, out, "off", r)
  BY DEF Mk
<1>3. \A q : Enter(c, m, q) = Mk(q, FirstNonPHI(c[q]), out, "no", Entered(c, b, q, r))
  BY MkEnter
<1> HIDE DEF m
<1>4. CASE Behind(order, b) = {}
  BY <1>1, <1>2, <1>4 DEF FallThrough, m
<1>5. ASSUME NEW q, Behind(order, b) = {q}
      PROVE  FallThrough(c, order, m) = Mk(q, FirstNonPHI(c[q]), out, "no", Entered(c, b, q, r))
  <2>1. (CHOOSE a \in Behind(order, b) : TRUE) = q
    BY <1>5
  <2>2. FallThrough(c, order, m) = Enter(c, m, q)
    BY <1>1, <1>5, <2>1 DEF FallThrough
  <2> QED
    BY <1>3, <2>2
<1> QED
  BY <1>4, <1>5 DEF m

LEMMA DoMk ==
  ASSUME NEW c, NEW order, NEW b, NEW i, NEW out, NEW r
  PROVE  Do("built", c, order, Mk(b, i, out, "no", r)) =
           IF i > Len(c[b]) THEN FallThrough(c, order, Mk(b, i, out, "no", r))
           ELSE Execute("built", c, Mk(b, i, out, "no", r), c[b][i])
<1> DEFINE m == Mk(b, i, out, "no", r)
<1>1. m.b = b /\ m.i = i /\ m.end = "no"
  BY MkFields
<1> HIDE DEF m
<1>2. Do("built", c, order, m) = IF i > Len(c[b]) THEN FallThrough(c, order, m)
                        ELSE Execute("built", c, m, c[b][i])
  BY <1>1 DEF Do
<1> QED
  BY <1>2 DEF m

LEMMA WeightMk ==
  ASSUME NEW c, NEW b, NEW i, NEW out, NEW r
  PROVE  Weight(c, Mk(b, i, out, "no", r)) =
           IF i \in 1 .. Len(c[b]) /\ c[b][i].op \in Selects THEN 3 ELSE 1
<1> DEFINE m == Mk(b, i, out, "no", r)
<1>1. m.b = b /\ m.i = i /\ m.end = "no"
  BY MkFields
<1> HIDE DEF m
<1>2. Weight(c, m) = IF i \in 1 .. Len(c[b]) /\ c[b][i].op \in Selects THEN 3 ELSE 1
  BY <1>1 DEF Weight
<1> QED
  BY <1>2 DEF m

--------------------------------------------------------------------------------
(***************************************************************************)
(* Where a run is.  Sane: inside the function, and not behind a jump or a  *)
(* return, so that a run at the end of a block falls into a recorded       *)
(* successor.                                                              *)
(***************************************************************************)
Operanded ==
  \A b \in 1 .. Len(code) : \A j \in 1 .. Len(code[b]) : Operands(code[b][j])

Sane(b, i) ==
  /\ b \in 1 .. Len(code) /\ i \in 1 .. Len(code[b]) + 1
  /\ i > 1 => code[b][i - 1].op \notin {"J", "RET_N"}

LEMMA EnterSane ==
  ASSUME Shape, NEW q \in 1 .. Len(code)
  PROVE  Sane(q, FirstNonPHI(code[q])) /\ FirstAt(code[q], FirstNonPHI(code[q]))
<1>1. Len(code[q]) \in Nat
  BY ShapeFacts
<1>2. FirstAt(code[q], FirstNonPHI(code[q]))
  BY <1>1, FirstNonPHIExists
<1> DEFINE f == FirstNonPHI(code[q])
<1> HIDE DEF f
<1>3. ASSUME f \in 1 .. Len(code[q]) + 1, f > 1 PROVE f - 1 \in 1 .. f - 1
  BY <1>1, <1>3
<1>4. FirstAt(code[q], f)
  BY <1>2 DEF f
<1>5. f > 1 => code[q][f - 1].op = "PHI"
  BY <1>3, <1>4 DEF FirstAt
<1>6. Sane(q, f)
  BY <1>4, <1>5 DEF Sane, FirstAt
<1> QED
  BY <1>2, <1>6 DEF f

(* A jump goes to a recorded successor ...                                 *)
LEMMA JumpsToSuccessor ==
  ASSUME Shape, Edges, NEW b \in 1 .. Len(code), NEW i \in 1 .. Len(code[b]),
         code[b][i].op \in Jumps
  PROVE  Goes(code[b][i]) \in succ[b] /\ Goes(code[b][i]) \in 1 .. Len(code)
<1>1. Sq(code[b])
  BY DEF Shape
<1>2. Goes(code[b][i]) \in Targets(code[b])
  BY <1>1, TargetsOf
<1>3. succ[b] = Destinations(code, layout, b)
  BY DEF Edges
<1>4. Goes(code[b][i]) \in succ[b]
  BY <1>2, <1>3 DEF Destinations
<1> QED
  BY <1>4 DEF Shape

(* ... and so does a fall.                                                 *)
LEMMA FallsToSuccessor ==
  ASSUME Shape, Edges, NEW b, Sane(b, Len(code[b]) + 1)
  PROVE  \/ Behind(layout, b) = {}
         \/ \E q \in 1 .. Len(code) : Behind(layout, b) = {q} /\ q \in succ[b]
<1>1. b \in 1 .. Len(code) /\ Sq(code[b]) /\ Len(code[b]) \in Nat
  BY ShapeFacts DEF Shape, Sane
<1>2. Falls(code[b])
  <2>1. Len(code[b]) = 0 \/ Len(code[b]) + 1 > 1
    BY <1>1
  <2>2. (Len(code[b]) + 1) - 1 = Len(code[b])
    BY <1>1
  <2>3. Len(code[b]) = 0 \/ code[b][Len(code[b])].op \notin {"J", "RET_N"}
    BY <2>1, <2>2 DEF Sane
  <2> QED
    BY <1>1, <2>3, FallsOf
<1>3. Behind(layout, b) \subseteq succ[b]
  <2>1. succ[b] = Destinations(code, layout, b)
    BY <1>1 DEF Edges
  <2> QED
    BY <1>2, <2>1 DEF Destinations
<1>4. PICK p \in 1 .. Len(code) : layout[p] = b
  BY <1>1 DEF Shape
<1>5. Behind(layout, b) = IF p < Len(layout) THEN {layout[p + 1]} ELSE {}
  <2>1. Sq(layout) /\ Len(layout) = Len(code)
    BY DEF Shape
  <2>2. p \in 1 .. Len(layout) /\ \A q \in 1 .. Len(layout) : layout[q] = layout[p] => q = p
    BY <2>1 DEF Shape
  <2>3. Behind(layout, layout[p]) = IF p < Len(layout) THEN {layout[p + 1]} ELSE {}
    BY <2>1, <2>2, BehindOf
  <2> QED
    BY <1>4, <2>3
<1>6. Behind(layout, b) = {} \/ \E q : Behind(layout, b) = {q}
  BY <1>5
<1>7. ASSUME NEW q, Behind(layout, b) = {q} PROVE q \in 1 .. Len(code) /\ q \in succ[b]
  <2>1. q \in succ[b]
    BY <1>3, <1>7
  <2> QED
    BY <1>1, <2>1 DEF Shape
<1> QED
  BY <1>6, <1>7

(* After the expansion a position is where its instruction is.             *)
AtB(b, i, T, at) == IF b = T /\ i > at THEN Len(code) + 2 ELSE b
AtI(b, i, T, at) == IF b = T /\ i > at THEN i - at + 1 ELSE i

LEMMA AfterRead ==
  ASSUME NEW x, NEW q, NEW T \in 1 .. Len(code), Len(code) \in Nat, NEW b \in 1 .. Len(code),
         x.op = "PHI", b \in DOMAIN x.in, b = T => q \in succ[T],
         NEW a, a = IF b = T THEN Len(code) + 2 ELSE b
  PROVE  LET y == After(x, q, T) IN y.d = x.d /\ a \in DOMAIN y.in /\ y.in[a] = x.in[b]
<1> DEFINE y == After(x, q, T)
           n2 == Len(code) + 2
<1>1. CASE q \in succ[T] /\ T \in DOMAIN x.in
  <2> DEFINE in2 == [p \in (DOMAIN x.in \ {T}) \cup {n2} |->
                       IF p = n2 THEN x.in[T] ELSE x.in[p]]
  <2>1. y = PHI(x.d, in2)
    BY <1>1 DEF After, Renamed
  <2>2. y.d = x.d /\ y.in = in2
    <3> HIDE DEF in2, y
    <3> QED
      BY <2>1 DEF PHI
  <2>3. b # n2
    OBVIOUS
  <2>4. a \in DOMAIN in2 /\ in2[a] = x.in[b]
    BY <2>3
  <2> HIDE DEF in2, y
  <2>5. a \in DOMAIN y.in /\ y.in[a] = x.in[b]
    BY <2>2, <2>4
  <2> QED
    BY <2>2, <2>5 DEF y
<1>2. CASE ~(q \in succ[T] /\ T \in DOMAIN x.in)
  <2>1. b # T /\ a = b
    BY <1>2
  <2>2. y = x
    BY <1>2, AfterOther
  <2> QED
    BY <2>1, <2>2
<1> QED
  BY <1>1, <1>2

(* A block is entered at the same instruction as before ...                *)
LEMMA ChosenFirst ==
  ASSUME SelectInv, NEW T, NEW i, NEW p, Chosen(T, i, p), NEW q \in 1 .. Len(code)
  PROVE  /\ FirstNonPHI(code'[q]) = FirstNonPHI(code[q])
         /\ q = T => FirstNonPHI(code[q]) <= i
         /\ \A j \in 1 .. FirstNonPHI(code[q]) - 1 :
              /\ j \in 1 .. Len(code[q]) /\ code[q][j].op = "PHI"
              /\ code'[q][j] = After(code[q][j], q, T)
<1> DEFINE f == FirstNonPHI(code[q])
<1>1. Shape /\ Len(code[q]) \in Nat /\ Len(code[T]) \in Nat
  BY ShapeFacts DEF SelectInv, Chosen
<1>2. FirstAt(code[q], f)
  BY <1>1, EnterSane
<1> HIDE DEF f
<1>3. /\ T \in 1 .. Len(code) /\ i \in 1 .. Len(code[T]) /\ code[T][i].op = "SELECT_CC"
  BY DEF Chosen
<1>4. q = T => f <= i
  <2> SUFFICES ASSUME q = T, ~(f <= i) PROVE FALSE
    OBVIOUS
  <2>1. i \in 1 .. f - 1
    BY <1>1, <1>2, <1>3 DEF FirstAt
  <2> QED
    BY <1>2, <1>3, <2>1 DEF FirstAt
<1>5. /\ \A b \in 1 .. Len(code) : b # T =>
           /\ Len(code'[b]) = Len(code[b])
           /\ \A j \in 1 .. Len(code[b]) : code'[b][j] = After(code[b][j], b, T)
      /\ Len(code'[T]) = i
      /\ \A j \in 1 .. i - 1 : code'[T][j] = After(code[T][j], T, T)
      /\ code'[T][i] = BNE(code[T][i].ops[1], Len(code) + 2)
  BY ChosenCode
<1>6. ASSUME NEW j \in 1 .. f - 1
      PROVE  /\ j \in 1 .. Len(code[q]) /\ code[q][j].op = "PHI"
             /\ code'[q][j] = After(code[q][j], q, T) /\ code'[q][j].op = "PHI"
  <2>1. f \in 1 .. Len(code[q]) + 1 /\ code[q][j].op = "PHI"
    BY <1>2 DEF FirstAt
  <2>2. j \in 1 .. Len(code[q])
    BY <1>1, <2>1
  <2>3. CASE q = T
    <3>1. j \in 1 .. i - 1
      BY <1>1, <1>3, <1>4, <2>1, <2>3
    <3> QED
      BY <1>5, <2>1, <2>2, <2>3, <3>1, AfterOp
  <2>4. CASE q # T
    BY <1>5, <2>1, <2>2, <2>4, AfterOp
  <2> QED
    BY <2>3, <2>4
<1>7. Len(code'[q]) \in Nat /\ f \in 1 .. Len(code'[q]) + 1
  <2>1. CASE q = T
    BY <1>1, <1>2, <1>3, <1>4, <1>5, <2>1 DEF FirstAt
  <2>2. CASE q # T
    BY <1>1, <1>2, <1>5, <2>2 DEF FirstAt
  <2> QED
    BY <2>1, <2>2
<1>8. ASSUME f <= Len(code'[q]) PROVE code'[q][f].op # "PHI"
  <2>1. CASE q = T /\ f = i
    BY <1>5, <2>1 DEF BNE
  <2>2. CASE q = T /\ f # i
    <3>1. f \in 1 .. i - 1 /\ f <= Len(code[q])
      BY <1>1, <1>2, <1>3, <1>4, <2>2 DEF FirstAt
    <3>2. code'[q][f] = After(code[q][f], q, T) /\ code[q][f].op # "PHI"
      BY <1>2, <1>5, <2>2, <3>1 DEF FirstAt
    <3> QED
      BY <3>2, AfterOp
  <2>3. CASE q # T
    <3>1. f \in 1 .. Len(code[q])
      BY <1>1, <1>2, <1>5, <1>8, <2>3 DEF FirstAt
    <3>2. code'[q][f] = After(code[q][f], q, T) /\ code[q][f].op # "PHI"
      BY <1>2, <1>5, <2>3, <3>1 DEF FirstAt
    <3> QED
      BY <3>2, AfterOp
  <2> QED
    BY <2>1, <2>2, <2>3
<1>9. FirstAt(code'[q], f)
  BY <1>6, <1>7, <1>8 DEF FirstAt
<1>10. FirstNonPHI(code'[q]) = f
  BY <1>7, <1>9, FirstNonPHIIs
<1> QED
  BY <1>4, <1>6, <1>10 DEF f

(* ... and with the same registers: its phis read for the new predecessor  *)
(* what they read for the one before.                                      *)
LEMMA ChosenEnter ==
  ASSUME SelectInv, NEW T, NEW i, NEW p, Chosen(T, i, p),
         NEW b \in 1 .. Len(code), NEW q \in succ[b], NEW r,
         NEW a, a = IF b = T THEN Len(code) + 2 ELSE b
  PROVE  Entered(code', a, q, r) = Entered(code, b, q, r)
<1>1. /\ Shape /\ Entries /\ Len(code) \in Nat /\ DOMAIN succ = 1 .. Len(code)
      /\ q \in 1 .. Len(code)
  BY ShapeFacts DEF SelectInv, Shape
<1>2. T \in 1 .. Len(code)
  BY DEF Chosen
<1>3. /\ FirstNonPHI(code'[q]) = FirstNonPHI(code[q])
      /\ \A j \in 1 .. FirstNonPHI(code[q]) - 1 :
           /\ j \in 1 .. Len(code[q]) /\ code[q][j].op = "PHI"
           /\ code'[q][j] = After(code[q][j], q, T)
  BY <1>1, ChosenFirst
<1>4. ASSUME NEW j \in 1 .. FirstNonPHI(code[q]) - 1
      PROVE  /\ code'[q][j].d = code[q][j].d
             /\ (IF a \in DOMAIN code'[q][j].in THEN r[code'[q][j].in[a]] ELSE Undef)
                  = (IF b \in DOMAIN code[q][j].in THEN r[code[q][j].in[b]] ELSE Undef)
  <2> DEFINE x == code[q][j]
             y == After(x, q, T)
  <2>1. j \in 1 .. Len(code[q]) /\ x.op = "PHI" /\ code'[q][j] = y
    BY <1>3
  <2>2. b \in DOMAIN x.in
    BY <1>1, <2>1 DEF Entries, Predecessors
  <2>3. b = T => q \in succ[T]
    OBVIOUS
  <2> HIDE DEF x
  <2>4. y.d = x.d /\ a \in DOMAIN y.in /\ y.in[a] = x.in[b]
    BY <1>1, <1>2, <2>1, <2>2, <2>3, AfterRead
  <2> HIDE DEF y
  <2>5. /\ y.d = x.d
        /\ (IF a \in DOMAIN y.in THEN r[y.in[a]] ELSE Undef)
             = (IF b \in DOMAIN x.in THEN r[x.in[b]] ELSE Undef)
    BY <2>2, <2>4
  <2> QED
    BY <2>1, <2>5 DEF x
<1> QED
  BY <1>3, <1>4, EnteredSame

(* The registers when the select x has picked its operand o.               *)
Picked(r, x, o) == [r EXCEPT ![x.d] = r[x.ops[o]]]

(* The diamond: the phi of sinkMBB picks what the pseudo picked.           *)
LEMMA ChosenDiamond ==
  ASSUME SelectInv, NEW T, NEW i, NEW p, Chosen(T, i, p), NEW r, IsRegs(r)
  PROVE  LET n  == Len(code)
             MI == code[T][i]
         IN  /\ FirstNonPHI(code'[n + 1]) = 1 /\ Entered(code', T, n + 1, r) = r
             /\ FirstNonPHI(code'[n + 2]) = 2
             /\ Entered(code', T, n + 2, r) = Picked(r, MI, 2)
             /\ Entered(code', n + 1, n + 2, r) = Picked(r, MI, 3)
<1> DEFINE n  == Len(code)
           MI == code[T][i]
           in2 == [q \in {T, n + 1} |-> IF q = T THEN MI.ops[2] ELSE MI.ops[3]]
<1>1. /\ n \in Nat /\ T \in 1 .. n /\ Len(code[T]) \in Nat /\ i \in 1 .. Len(code[T])
      /\ MI.op = "SELECT_CC"
  BY ShapeFacts DEF SelectInv, Chosen
<1>2. /\ code'[n + 1] = <<>>
      /\ Len(code'[n + 2]) = Len(code[T]) - i + 1
      /\ \A j \in 2 .. Len(code[T]) - i + 1 : code'[n + 2][j] = code[T][i + j - 1]
  BY ChosenCode
<1>3. code'[n + 2][1] = PHI(MI.d, in2)
  BY ChosenPhi
<1>4. FirstNonPHI(code'[n + 1]) = 1
  <2>1. Len(<<>>) \in Nat /\ FirstAt(<<>>, 1)
    BY DEF FirstAt
  <2> QED
    BY <1>2, <2>1, FirstNonPHIIs
<1>5. Entered(code', T, n + 1, r) = r
  <2>1. \A x : PhisOf(code'[n + 1], x) = {}
    BY <1>4 DEF PhisOf
  <2> QED
    BY <2>1 DEF Entered, IsRegs
<1> DEFINE phi == code'[n + 2][1]
<1>6. phi.op = "PHI" /\ phi.d = MI.d /\ phi.in = in2
  <2> HIDE DEF in2, MI
  <2> QED
    BY <1>3 DEF PHI
<1> HIDE DEF MI, phi
<1>7. FirstNonPHI(code'[n + 2]) = 2
  <2>1. ASSUME 2 <= Len(code'[n + 2]) PROVE code'[n + 2][2].op # "PHI"
    <3>1. 2 \in 2 .. Len(code[T]) - i + 1 /\ i + 2 - 1 = i + 1 /\ i + 1 \in 1 .. Len(code[T])
          /\ i \in 1 .. (i + 1) - 1
      BY <1>1, <1>2, <2>1
    <3>2. code'[n + 2][2] = code[T][i + 1]
      BY <1>2, <3>1
    <3>3. code[T][i + 1].op = "PHI" => code[T][i].op = "PHI"
      BY <1>1, <3>1 DEF SelectInv, Ordered
    <3> QED
      BY <1>1, <3>2, <3>3 DEF MI
  <2>2. Len(code'[n + 2]) \in Nat /\ 2 \in 1 .. Len(code'[n + 2]) + 1
    BY <1>1, <1>2
  <2>3. \A k \in 1 .. 2 - 1 : code'[n + 2][k].op = "PHI"
    BY <1>6 DEF phi
  <2>4. FirstAt(code'[n + 2], 2)
    BY <2>1, <2>2, <2>3 DEF FirstAt
  <2> QED
    BY <2>2, <2>4, FirstNonPHIIs
<1>8. ASSUME NEW b \in {T, n + 1}
      PROVE  Entered(code', b, n + 2, r) = [r EXCEPT ![MI.d] = r[in2[b]]]
  <2>1. b \in DOMAIN phi.in
    BY <1>6
  <2>2. \A x : PhisOf(code'[n + 2], x) = IF x = MI.d THEN {1} ELSE {}
    BY <1>6, <1>7 DEF PhisOf, phi
  <2> HIDE DEF in2
  <2>3. ASSUME NEW x \in Regs
        PROVE  Entered(code', b, n + 2, r)[x] = IF x = MI.d THEN r[in2[b]] ELSE r[x]
    <3>1. CASE x = MI.d
      <4>1. PhisOf(code'[n + 2], x) = {1} /\ (CHOOSE j \in {1} : TRUE) = 1
        BY <2>2, <3>1
      <4> QED
        BY <1>6, <2>1, <3>1, <4>1 DEF Entered, phi
    <3>2. CASE x # MI.d
      <4>1. PhisOf(code'[n + 2], x) = {}
        BY <2>2, <3>2
      <4> QED
        BY <3>2, <4>1 DEF Entered
    <3> QED
      BY <3>1, <3>2
  <2> DEFINE e == Entered(code', b, n + 2, r)
  <2>4. e = [x \in Regs |-> e[x]]
    BY EnteredRegs DEF IsRegs
  <2>5. e = [x \in Regs |-> IF x = MI.d THEN r[in2[b]] ELSE r[x]]
    <3>1. \A x \in Regs : e[x] = IF x = MI.d THEN r[in2[b]] ELSE r[x]
      BY <2>3
    <3> HIDE DEF e
    <3> QED
      BY <2>4, <3>1
  <2>6. [r EXCEPT ![MI.d] = r[in2[b]]] = [x \in Regs |-> IF x = MI.d THEN r[in2[b]] ELSE r[x]]
    BY DEF IsRegs
  <2> QED
    BY <2>5, <2>6
<1>9. T # n + 1
  BY <1>1
<1>10. in2[T] = MI.ops[2] /\ in2[n + 1] = MI.ops[3]
  BY <1>9
<1> HIDE DEF in2
<1>11. /\ Entered(code', T, n + 2, r) = Picked(r, MI, 2)
       /\ Entered(code', n + 1, n + 2, r) = Picked(r, MI, 3)
  BY <1>8, <1>10 DEF Picked
<1> QED
  BY <1>4, <1>5, <1>7, <1>11 DEF MI

--------------------------------------------------------------------------------
(***************************************************************************)
(* The two machines, before the expansion and after it: they stand at the  *)
(* same instruction and have done the same.                                *)
(***************************************************************************)
Alike(m, m2, T, at) ==
  \E b, i, out, end, r, b2, i2 :
    /\ m = Mk(b, i, out, end, r) /\ m2 = Mk(b2, i2, out, end, r) /\ IsRegs(r)
    /\ end = "no" => Sane(b, i) /\ b2 = AtB(b, i, T, at) /\ i2 = AtI(b, i, T, at)

LEMMA AlikeEnded ==
  ASSUME NEW b, NEW i, NEW b2, NEW i2, NEW out, NEW end, end # "no", NEW r, IsRegs(r), NEW T, NEW at
  PROVE  Alike(Mk(b, i, out, end, r), Mk(b2, i2, out, end, r), T, at)
  BY DEF Alike

LEMMA AlikeRunning ==
  ASSUME NEW b, NEW i, Sane(b, i), NEW out, NEW r, IsRegs(r), NEW T, NEW at
  PROVE  Alike(Mk(b, i, out, "no", r),
               Mk(AtB(b, i, T, at), AtI(b, i, T, at), out, "no", r), T, at)
  BY DEF Alike

(* They enter a block alike ...                                            *)
LEMMA AlikeEntered ==
  ASSUME SelectInv, NEW T, NEW at, NEW p, Chosen(T, at, p),
         NEW b \in 1 .. Len(code), NEW q \in succ[b], NEW r, NEW out,
         NEW a, a = IF b = T THEN Len(code) + 2 ELSE b
  PROVE  Alike(Mk(q, FirstNonPHI(code[q]), out, "no", Entered(code, b, q, r)),
               Mk(q, FirstNonPHI(code'[q]), out, "no", Entered(code', a, q, r)), T, at)
<1>1. Shape /\ q \in 1 .. Len(code)
  BY DEF SelectInv, Shape
<1>2. Entered(code', a, q, r) = Entered(code, b, q, r)
  BY ChosenEnter
<1>3. FirstNonPHI(code'[q]) = FirstNonPHI(code[q]) /\ (q = T => FirstNonPHI(code[q]) <= at)
  BY <1>1, ChosenFirst
<1> DEFINE f == FirstNonPHI(code[q])
<1>4. Sane(q, f)
  BY <1>1, EnterSane
<1>5. at \in Int /\ f \in Int
  <2>1. T \in 1 .. Len(code) /\ at \in 1 .. Len(code[T]) /\ Len(code[T]) \in Nat
    BY <1>1, ShapeFacts DEF Chosen
  <2>2. Len(code[q]) \in Nat
    BY <1>1, ShapeFacts
  <2> QED
    BY <1>4, <2>1, <2>2 DEF Sane
<1> HIDE DEF f
<1>6. ~(q = T /\ f > at)
  BY <1>3, <1>5 DEF f
<1>7. AtB(q, f, T, at) = q /\ AtI(q, f, T, at) = f
  BY <1>6 DEF AtB, AtI
<1> DEFINE e == Entered(code, b, q, r)
<1>8. IsRegs(e)
  BY EnteredRegs
<1> HIDE DEF e
<1>9. Alike(Mk(q, f, out, "no", e), Mk(q, f, out, "no", e), T, at)
  BY <1>4, <1>7, <1>8, AlikeRunning
<1> QED
  BY <1>2, <1>3, <1>9 DEF e, f

(* ... fall from one alike ...                                             *)
LEMMA MatchedEnd ==
  ASSUME SelectInv, NEW T, NEW at, NEW p, Chosen(T, at, p),
         NEW b, NEW i, Sane(b, i), i > Len(code[b])
  PROVE  LET a == IF b = T THEN Len(code) + 2 ELSE b
             j == AtI(b, i, T, at)
         IN  /\ i = Len(code[b]) + 1 /\ AtB(b, i, T, at) = a
             /\ j > Len(code'[a]) /\ ~(j \in 1 .. Len(code'[a]))
<1> DEFINE n == Len(code)
           a == IF b = T THEN n + 2 ELSE b
           j == AtI(b, i, T, at)
<1>1. b \in 1 .. n /\ Len(code[b]) \in Nat /\ n \in Nat
  BY ShapeFacts DEF SelectInv, Sane
<1>2. i = Len(code[b]) + 1
  BY <1>1 DEF Sane
<1>3. T \in 1 .. n /\ at \in 1 .. Len(code[T])
  BY DEF Chosen
<1>4. /\ \A c \in 1 .. n : c # T => Len(code'[c]) = Len(code[c])
      /\ Len(code'[n + 2]) = Len(code[T]) - at + 1
  BY ChosenCode
<1>5. AtB(b, i, T, at) = a /\ j > Len(code'[a]) /\ j \in Int /\ Len(code'[a]) \in Int
  <2>1. CASE b = T
    <3> DEFINE L == Len(code[T])
    <3>1. L \in Nat /\ i = L + 1 /\ at \in 1 .. L /\ Len(code'[n + 2]) = L - at + 1
      BY <1>1, <1>2, <1>3, <1>4, <2>1
    <3> HIDE DEF L
    <3>2. i > at /\ i - at + 1 > L - at + 1 /\ i - at + 1 \in Int /\ L - at + 1 \in Int
      BY <3>1
    <3>3. a = n + 2 /\ AtB(b, i, T, at) = n + 2 /\ j = i - at + 1
      BY <2>1, <3>2 DEF AtB, AtI
    <3> HIDE DEF a, j, n
    <3> QED
      BY <3>1, <3>2, <3>3
  <2>2. CASE b # T
    BY <1>1, <1>2, <1>4, <2>2 DEF AtB, AtI
  <2> QED
    BY <2>1, <2>2
<1> HIDE DEF a, j
<1>6. ~(j \in 1 .. Len(code'[a]))
  BY <1>5
<1> QED
  BY <1>2, <1>5, <1>6 DEF a, j

LEMMA MatchedFall ==
  ASSUME SelectInv, NEW T, NEW at, NEW p, Chosen(T, at, p),
         NEW b, NEW i, Sane(b, i), i > Len(code[b]), NEW out, NEW r, IsRegs(r)
  PROVE  Alike(Do("built", code, layout, Mk(b, i, out, "no", r)),
               Do("built", code', layout', Mk(AtB(b, i, T, at), AtI(b, i, T, at), out, "no", r)), T, at)
<1>1. /\ Shape /\ Edges /\ Len(code) \in Nat
      /\ b \in 1 .. Len(code) /\ Len(code[b]) \in Nat
  BY ShapeFacts DEF SelectInv, Sane
<1>3. T \in 1 .. Len(code)
  BY DEF Chosen
<1> DEFINE n == Len(code)
           a == IF b = T THEN n + 2 ELSE b
           j == AtI(b, i, T, at)
<1>5. i = Len(code[b]) + 1 /\ AtB(b, i, T, at) = a /\ j > Len(code'[a])
  BY MatchedEnd
<1>6. Behind(layout', a) = Behind(layout, b)
  <2>1. /\ \A c \in 1 .. n : c # T => Behind(layout', c) = Behind(layout, c)
        /\ Behind(layout', n + 2) = Behind(layout, T)
    BY ChosenBehind
  <2> QED
    BY <1>1, <1>3, <2>1
<1>7. a = IF b = T THEN Len(code) + 2 ELSE b
  OBVIOUS
<1> HIDE DEF n, a, j
<1>8. /\ Do("built", code, layout, Mk(b, i, out, "no", r))
           = FallThrough(code, layout, Mk(b, i, out, "no", r))
      /\ Do("built", code', layout', Mk(a, j, out, "no", r))
           = FallThrough(code', layout', Mk(a, j, out, "no", r))
  BY <1>5, DoMk
<1>9. \/ Behind(layout, b) = {}
      \/ \E q \in 1 .. Len(code) : Behind(layout, b) = {q} /\ q \in succ[b]
  BY <1>1, <1>5, FallsToSuccessor
<1>10. CASE Behind(layout, b) = {}
  <2>1. /\ FallThrough(code, layout, Mk(b, i, out, "no", r)) = Mk(b, i, out, "off", r)
        /\ FallThrough(code', layout', Mk(a, j, out, "no", r)) = Mk(a, j, out, "off", r)
    BY <1>6, <1>10, FallMk
  <2>2. Alike(Mk(b, i, out, "off", r), Mk(a, j, out, "off", r), T, at)
    BY AlikeEnded
  <2> QED
    BY <1>5, <1>8, <2>1, <2>2 DEF j
<1>11. ASSUME NEW q \in 1 .. Len(code), Behind(layout, b) = {q}, q \in succ[b]
       PROVE  Alike(Do("built", code, layout, Mk(b, i, out, "no", r)),
                    Do("built", code', layout', Mk(a, j, out, "no", r)), T, at)
  <2>1. FallThrough(code, layout, Mk(b, i, out, "no", r))
          = Mk(q, FirstNonPHI(code[q]), out, "no", Entered(code, b, q, r))
    BY <1>11, FallMk
  <2>2. FallThrough(code', layout', Mk(a, j, out, "no", r))
          = Mk(q, FirstNonPHI(code'[q]), out, "no", Entered(code', a, q, r))
    BY <1>6, <1>11, FallMk
  <2>3. Alike(Mk(q, FirstNonPHI(code[q]), out, "no", Entered(code, b, q, r)),
              Mk(q, FirstNonPHI(code'[q]), out, "no", Entered(code', a, q, r)), T, at)
    BY <1>1, <1>7, <1>11, AlikeEntered
  <2> QED
    BY <1>8, <2>1, <2>2, <2>3
<1>12. Alike(Do("built", code, layout, Mk(b, i, out, "no", r)),
             Do("built", code', layout', Mk(a, j, out, "no", r)), T, at)
  BY <1>5, <1>9, <1>10, <1>11 DEF j
<1> QED
  BY <1>5, <1>12 DEF j

(* ... and take an instruction alike, when it is not the pseudo.           *)
LEMMA MatchedPlace ==
  ASSUME SelectInv, NEW T, NEW at, NEW p, Chosen(T, at, p),
         NEW b \in 1 .. Len(code), NEW i \in 1 .. Len(code[b]), ~(b = T /\ i = at),
         NEW a, a = AtB(b, i, T, at), NEW j, j = AtI(b, i, T, at)
  PROVE  /\ j \in 1 .. Len(code'[a])
         /\ code'[a][j].op = code[b][i].op
         /\ code[b][i].op # "PHI" => code'[a][j] = code[b][i]
<1>1. /\ Len(code) \in Nat /\ Len(code[b]) \in Nat /\ Len(code[T]) \in Nat
      /\ T \in 1 .. Len(code) /\ at \in 1 .. Len(code[T])
  BY ShapeFacts DEF SelectInv, Chosen
<1> DEFINE n == Len(code)
<1>2. /\ \A c \in 1 .. n : c # T => Len(code'[c]) = Len(code[c])
      /\ \A c \in 1 .. n : c # T =>
           \A k \in 1 .. Len(code[c]) : code'[c][k] = After(code[c][k], c, T)
      /\ Len(code'[T]) = at
      /\ \A k \in 1 .. at - 1 : code'[T][k] = After(code[T][k], T, T)
      /\ Len(code'[n + 2]) = Len(code[T]) - at + 1
      /\ \A k \in 2 .. Len(code[T]) - at + 1 : code'[n + 2][k] = code[T][at + k - 1]
  <2>1. /\ \A c \in 1 .. n : c # T => Len(code'[c]) = Len(code[c])
        /\ Len(code'[T]) = at
        /\ Len(code'[n + 2]) = Len(code[T]) - at + 1
    BY ChosenCode
  <2>2. \A c \in 1 .. n : c # T =>
           \A k \in 1 .. Len(code[c]) : code'[c][k] = After(code[c][k], c, T)
    BY ChosenCode
  <2>3. \A k \in 1 .. at - 1 : code'[T][k] = After(code[T][k], T, T)
    BY ChosenCode
  <2>4. \A k \in 2 .. Len(code[T]) - at + 1 : code'[n + 2][k] = code[T][at + k - 1]
    BY ChosenCode
  <2> HIDE DEF n
  <2> QED
    BY <2>1, <2>2, <2>3, <2>4
<1> HIDE DEF n
<1>3. \A x, c : /\ After(x, c, T).op = x.op
                /\ x.op # "PHI" => After(x, c, T) = x
  BY AfterOp, AfterOther
<1>4. CASE b # T
  <2>1. a = b /\ j = i
    BY <1>4 DEF AtB, AtI
  <2>2. Len(code'[b]) = Len(code[b]) /\ code'[b][i] = After(code[b][i], b, T)
    BY <1>2, <1>4 DEF n
  <2> QED
    BY <1>3, <2>1, <2>2
<1>5. CASE b = T /\ i < at
  <2>1. a = T /\ j = i /\ i \in 1 .. at - 1
    BY <1>1, <1>5 DEF AtB, AtI
  <2>2. code'[T][i] = After(code[T][i], T, T) /\ i \in 1 .. Len(code'[T])
    BY <1>1, <1>2, <2>1
  <2> QED
    BY <1>3, <1>5, <2>1, <2>2
<1>6. CASE b = T /\ i > at
  <2>1. a = n + 2 /\ j = i - at + 1
    BY <1>6 DEF AtB, AtI, n
  <2> DEFINE L == Len(code[T])
  <2>4. L \in Nat /\ i \in 1 .. L /\ at \in 1 .. L /\ i > at
    BY <1>1, <1>6
  <2> HIDE DEF L
  <2>5. j \in 2 .. L - at + 1 /\ at + j - 1 = i
    BY <2>1, <2>4
  <2>2. j \in 2 .. Len(code[T]) - at + 1 /\ at + j - 1 = i
    BY <2>5 DEF L
  <2>6. code'[n + 2][j] = code[T][at + j - 1]
    BY <1>2, <2>2
  <2>7. Len(code'[n + 2]) = L - at + 1
    BY <1>2 DEF L
  <2>8. j \in 1 .. Len(code'[n + 2])
    BY <2>4, <2>5, <2>7
  <2>3. code'[n + 2][j] = code[T][i] /\ j \in 1 .. Len(code'[n + 2])
    BY <2>2, <2>6, <2>8
  <2> QED
    BY <1>6, <2>1, <2>3
<1>7. b # T \/ i < at \/ i > at
  BY <1>1
<1> QED
  BY <1>4, <1>5, <1>6, <1>7

LEMMA ExecutePHI ==
  ASSUME NEW x, x.op = "PHI", NEW c, NEW b, NEW i, NEW out, NEW r
  PROVE  Execute("built", c, Mk(b, i, out, "no", r), x) = Mk(b, i, out, "bad", r)
  BY DEF Execute, Mk

LEMMA MatchedInstr ==
  ASSUME SelectInv, Operanded, NEW T, NEW at, NEW p, Chosen(T, at, p),
         NEW b, NEW i, Sane(b, i), ~(i > Len(code[b])), ~(b = T /\ i = at),
         NEW out, NEW r, IsRegs(r)
  PROVE  LET m  == Mk(b, i, out, "no", r)
             m2 == Mk(AtB(b, i, T, at), AtI(b, i, T, at), out, "no", r)
         IN  /\ Alike(Do("built", code, layout, m), Do("built", code', layout', m2), T, at)
             /\ Weight(code', m2) = Weight(code, m)
<1>1. /\ Shape /\ Edges /\ Ordered /\ b \in 1 .. Len(code) /\ Len(code[b]) \in Nat
      /\ i \in 1 .. Len(code[b])
  <2>1. Shape /\ Edges /\ Ordered /\ b \in 1 .. Len(code) /\ Len(code[b]) \in Nat
    BY ShapeFacts DEF SelectInv, Sane
  <2> QED
    BY <2>1 DEF Sane
<1>2. T \in 1 .. Len(code) /\ at \in 1 .. Len(code[T]) /\ code[T][at].op = "SELECT_CC"
  BY DEF Chosen
<1> DEFINE a == AtB(b, i, T, at)
           j == AtI(b, i, T, at)
           x == code[b][i]
           m == Mk(b, i, out, "no", r)
           m2 == Mk(a, j, out, "no", r)
<1>3. a = AtB(b, i, T, at) /\ j = AtI(b, i, T, at) /\ x = code[b][i]
  OBVIOUS
<1>4. Operands(x)
  BY <1>1 DEF Operanded
<1> HIDE DEF a, j
<1>5. j \in 1 .. Len(code'[a]) /\ code'[a][j].op = x.op /\ (x.op # "PHI" => code'[a][j] = x)
  BY <1>1, <1>3, MatchedPlace
<1>6. Len(code'[a]) \in Nat /\ ~(j > Len(code'[a]))
  <2>1. \A c \in 1 .. Len(code) + 2 : Len(code'[c]) \in Nat
    BY ChosenShape, ChosenCode, SqFacts DEF Shape
  <2>2. a \in 1 .. Len(code) + 2
    BY <1>1, <1>2, <1>3, ShapeFacts DEF AtB
  <2> QED
    BY <1>5, <2>1, <2>2
<1> HIDE DEF x
<1>7. /\ Do("built", code, layout, m) = Execute("built", code, m, x)
      /\ Do("built", code', layout', m2) = Execute("built", code', m2, code'[a][j])
  BY <1>3, <1>6, DoMk
<1>8. Weight(code', m2) = Weight(code, m)
  <2>1. Weight(code, m) = IF i \in 1 .. Len(code[b]) /\ code[b][i].op \in Selects THEN 3 ELSE 1
    BY WeightMk
  <2>2. Weight(code', m2)
          = IF j \in 1 .. Len(code'[a]) /\ code'[a][j].op \in Selects THEN 3 ELSE 1
    BY WeightMk
  <2> QED
    BY <1>1, <1>3, <1>5, <2>1, <2>2
<1>9. CASE x.op = "PHI"
  <2>1. Execute("built", code, m, x) = Mk(b, i, out, "bad", r)
    BY <1>9, ExecutePHI
  <2>2. Execute("built", code', m2, code'[a][j]) = Mk(a, j, out, "bad", r)
    BY <1>5, <1>9, ExecutePHI
  <2>3. Alike(Mk(b, i, out, "bad", r), Mk(a, j, out, "bad", r), T, at)
    BY AlikeEnded
  <2> QED
    BY <1>3, <1>7, <1>8, <2>1, <2>2, <2>3
<1>10. CASE x.op # "PHI"
  <2>1. Do("built", code', layout', m2) = Execute("built", code', m2, x)
    BY <1>5, <1>7, <1>10
  <2>2. ASSUME NEW out2, NEW r2, Local(x, out, r, out2, r2)
        PROVE  Alike(Execute("built", code, m, x), Execute("built", code', m2, x), T, at)
    <3>1. Execute("built", code, m, x) = Mk(b, i + 1, out2, "no", r2)
      BY <2>2 DEF Local
    <3>2. Execute("built", code', m2, x) = Mk(a, j + 1, out2, "no", r2)
      BY <2>2 DEF Local
    <3>3. i + 1 \in 1 .. Len(code[b]) + 1 /\ (i + 1) - 1 = i
      BY <1>1
    <3>4. Sane(b, i + 1)
      BY <1>1, <1>3, <2>2, <3>3 DEF Sane, Local
    <3>5. a = AtB(b, i + 1, T, at) /\ j + 1 = AtI(b, i + 1, T, at)
      <4>1. i \in Int /\ at \in Int /\ ~(b = T /\ i = at)
        BY <1>1, <1>2
      <4>2. (b = T /\ i > at) <=> (b = T /\ i + 1 > at)
        BY <4>1
      <4> QED
        BY <1>3, <4>1, <4>2 DEF AtB, AtI
    <3>6. Alike(Mk(b, i + 1, out2, "no", r2), Mk(a, j + 1, out2, "no", r2), T, at)
      BY <2>2, <3>4, <3>5, AlikeRunning DEF Local
    <3> QED
      BY <3>1, <3>2, <3>6
  <2>3. ASSUME Jumping(x, out, r)
        PROVE  Alike(Execute("built", code, m, x), Execute("built", code', m2, x), T, at)
    <3> DEFINE q == Goes(x)
    <3>1. q \in succ[b] /\ q \in 1 .. Len(code)
      BY <1>1, <1>3, <2>3, JumpsToSuccessor DEF Jumping
    <3>2. b = T => i > at
      <4> SUFFICES ASSUME b = T, ~(i > at) PROVE FALSE
        OBVIOUS
      <4>1. i \in 1 .. at - 1
        <5>1. i \in Int /\ at \in Int /\ i >= 1 /\ i # at
          BY <1>1, <1>2
        <5> QED
          BY <5>1
      <4>2. code[T][i].op \notin Branches
        BY <1>1, <1>2, <4>1 DEF Ordered, Selects
      <4> QED
        BY <1>3, <2>3, <4>2 DEF Jumping, Jumps, Branches
    <3>3. a = IF b = T THEN Len(code) + 2 ELSE b
      BY <1>3, <3>2 DEF AtB
    <3>4. Execute("built", code, m, x) = Mk(q, FirstNonPHI(code[q]), out, "no", Entered(code, b, q, r))
      BY <2>3 DEF Jumping
    <3>5. Execute("built", code', m2, x) = Mk(q, FirstNonPHI(code'[q]), out, "no", Entered(code', a, q, r))
      BY <2>3 DEF Jumping
    <3> HIDE DEF q
    <3>6. Alike(Mk(q, FirstNonPHI(code[q]), out, "no", Entered(code, b, q, r)),
                Mk(q, FirstNonPHI(code'[q]), out, "no", Entered(code', a, q, r)), T, at)
      BY <1>1, <3>1, <3>3, AlikeEntered
    <3> QED
      BY <3>4, <3>5, <3>6
  <2>4. ASSUME NEW end, Ending(x, out, r, end)
        PROVE  Alike(Execute("built", code, m, x), Execute("built", code', m2, x), T, at)
    <3>1. Execute("built", code, m, x) = Mk(b, i, out, end, r)
      BY <2>4 DEF Ending
    <3>2. Execute("built", code', m2, x) = Mk(a, j, out, end, r)
      BY <2>4 DEF Ending
    <3> QED
      BY <2>4, <3>1, <3>2, AlikeEnded DEF Ending
  <2>5. Alike(Execute("built", code, m, x), Execute("built", code', m2, x), T, at)
    BY <1>4, <2>2, <2>3, <2>4, ExecuteKinds
  <2> QED
    BY <1>3, <1>7, <1>8, <2>1, <2>5
<1> QED
  BY <1>9, <1>10

(* The pseudo itself: where it was one step of cost 3 there are the branch *)
(* into sinkMBB, or the branch and two falls.                              *)
LEMMA MatchedPseudo ==
  ASSUME SelectInv, NEW T, NEW at, NEW p, Chosen(T, at, p),
         NEW out, NEW r, IsRegs(r), NEW in, NEW v,
         Reach(code', layout', in, Mk(T, at, out, "no", r), v)
  PROVE  \E m3, v3 : /\ Reach(code', layout', in, m3, v3) /\ v3 <= v + 3
                     /\ Alike(Do("built", code, layout, Mk(T, at, out, "no", r)), m3, T, at)
<1> DEFINE n  == Len(code)
           MI == code[T][at]
           R(o) == Picked(r, MI, o)
           m  == Mk(T, at, out, "no", r)
<1>1. /\ Shape /\ n \in Nat /\ T \in 1 .. n /\ Len(code[T]) \in Nat /\ at \in 1 .. Len(code[T])
      /\ MI.op = "SELECT_CC"
  BY ShapeFacts DEF SelectInv, Chosen
<1>2. /\ FirstNonPHI(code'[n + 1]) = 1 /\ Entered(code', T, n + 1, r) = r
      /\ FirstNonPHI(code'[n + 2]) = 2
      /\ Entered(code', T, n + 2, r) = R(2) /\ Entered(code', n + 1, n + 2, r) = R(3)
  <2>1. FirstNonPHI(code'[n + 1]) = 1 /\ Entered(code', T, n + 1, r) = r
    BY ChosenDiamond
  <2>2. FirstNonPHI(code'[n + 2]) = 2
    BY ChosenDiamond
  <2>3. Entered(code', T, n + 2, r) = R(2)
    BY ChosenDiamond
  <2>4. Entered(code', n + 1, n + 2, r) = R(3)
    BY ChosenDiamond
  <2> HIDE DEF n, R, MI
  <2> QED
    BY <2>1, <2>2, <2>3, <2>4
<1>3. code'[T][at] = BNE(MI.ops[1], n + 2) /\ Len(code'[T]) = at /\ code'[n + 1] = <<>>
  BY ChosenCode
<1>4. Behind(layout', T) = {n + 1} /\ Behind(layout', n + 1) = {n + 2}
  BY ChosenBehind
<1>5. Do("built", code, layout, m)
        = Mk(T, at + 1, out, "no", IF r[MI.ops[1]] # 0 THEN R(2) ELSE R(3))
  <2>1. ~(at > Len(code[T]))
    BY <1>1
  <2>2. Do("built", code, layout, m) = Execute("built", code, m, MI)
    BY <2>1, DoMk
  <2>3. Execute("built", code, m, MI)
          = Mk(T, at + 1, out, "no", [r EXCEPT ![MI.d] =
               r[IF r[MI.ops[1]] # 0 THEN MI.ops[2] ELSE MI.ops[3]]])
    BY <1>1, ExecuteSELECT_CC
  <2>4. [r EXCEPT ![MI.d] = r[IF r[MI.ops[1]] # 0 THEN MI.ops[2] ELSE MI.ops[3]]]
          = IF r[MI.ops[1]] # 0 THEN R(2) ELSE R(3)
    BY DEF Picked
  <2> HIDE DEF m, MI, R
  <2> QED
    BY <2>2, <2>3, <2>4
<1>6. IsRegs(R(2)) /\ IsRegs(R(3))
  BY PutRegs DEF Picked
<1> HIDE DEF R
<1>7. ASSUME NEW r2, IsRegs(r2)
      PROVE  Alike(Mk(T, at + 1, out, "no", r2), Mk(n + 2, 2, out, "no", r2), T, at)
  <2>1. at + 1 \in 1 .. Len(code[T]) + 1 /\ (at + 1) - 1 = at /\ at + 1 > at
        /\ (at + 1) - at + 1 = 2
    BY <1>1
  <2>2. Sane(T, at + 1)
    BY <1>1, <2>1 DEF Sane
  <2>3. AtB(T, at + 1, T, at) = n + 2 /\ AtI(T, at + 1, T, at) = 2
    BY <2>1 DEF AtB, AtI
  <2> QED
    BY <1>7, <2>2, <2>3, AlikeRunning
<1>8. /\ Do("built", code', layout', m) = Execute("built", code', m, BNE(MI.ops[1], n + 2))
      /\ Weight(code', m) = 1
  <2>1. ~(at > Len(code'[T])) /\ code'[T][at].op \notin Selects
    BY <1>1, <1>3 DEF BNE, Selects
  <2>2. Do("built", code', layout', m) = Execute("built", code', m, code'[T][at])
    BY <2>1, DoMk
  <2>3. Weight(code', m) = 1
    BY <2>1, WeightMk
  <2> QED
    BY <1>3, <2>2, <2>3
<1>9. v \in Nat /\ Reach(code', layout', in, Do("built", code', layout', m), v + 1)
  BY <1>8, ReachStep
<1>10. CASE r[MI.ops[1]] # 0
  <2>1. Do("built", code', layout', m) = Mk(n + 2, 2, out, "no", R(2))
    BY <1>2, <1>8, <1>10, ExecuteBNE
  <2>2. Alike(Do("built", code, layout, m), Mk(n + 2, 2, out, "no", R(2)), T, at)
    BY <1>5, <1>6, <1>7, <1>10
  <2>3. v + 1 <= v + 3
    BY <1>9
  <2> QED
    BY <1>9, <2>1, <2>2, <2>3
<1>11. CASE ~(r[MI.ops[1]] # 0)
  <2> DEFINE m1 == Mk(T, at + 1, out, "no", r)
             m2 == Mk(n + 1, 1, out, "no", r)
             m3 == Mk(n + 2, 2, out, "no", R(3))
  <2>1. Do("built", code', layout', m) = m1
    BY <1>8, <1>11, ExecuteBNE
  <2>2. Do("built", code', layout', m1) = m2 /\ Weight(code', m1) = 1
    <3>1. at + 1 > Len(code'[T]) /\ ~(at + 1 \in 1 .. Len(code'[T]))
      BY <1>1, <1>3
    <3>2. Do("built", code', layout', m1) = FallThrough(code', layout', m1)
      BY <3>1, DoMk
    <3>3. FallThrough(code', layout', m1)
            = Mk(n + 1, FirstNonPHI(code'[n + 1]), out, "no", Entered(code', T, n + 1, r))
      BY <1>4, FallMk
    <3>4. Weight(code', m1) = 1
      BY <3>1, WeightMk
    <3> QED
      BY <1>2, <3>2, <3>3, <3>4
  <2>3. Do("built", code', layout', m2) = m3 /\ Weight(code', m2) = 1
    <3>1. 1 > Len(code'[n + 1]) /\ ~(1 \in 1 .. Len(code'[n + 1]))
      <4>1. Len(<<>>) = 0
        OBVIOUS
      <4> QED
        BY <1>3, <4>1
    <3>2. Do("built", code', layout', m2) = FallThrough(code', layout', m2)
      BY <3>1, DoMk
    <3>3. FallThrough(code', layout', m2)
            = Mk(n + 2, FirstNonPHI(code'[n + 2]), out, "no", Entered(code', n + 1, n + 2, r))
      BY <1>4, FallMk
    <3>4. Weight(code', m2) = 1
      BY <3>1, WeightMk
    <3> QED
      BY <1>2, <3>2, <3>3, <3>4
  <2> HIDE DEF m1, m2
  <2>4. Reach(code', layout', in, m2, (v + 1) + 1)
    BY <1>9, <2>1, <2>2, ReachStep
  <2>5. Reach(code', layout', in, m3, ((v + 1) + 1) + 1)
    BY <2>3, <2>4, ReachStep
  <2>6. Alike(Do("built", code, layout, m), m3, T, at)
    BY <1>5, <1>6, <1>7, <1>11
  <2>7. ((v + 1) + 1) + 1 <= v + 3
    BY <1>9
  <2> QED
    BY <2>5, <2>6, <2>7
<1> QED
  BY <1>10, <1>11

LEMMA MatchedStep ==
  ASSUME SelectInv, Operanded, NEW T, NEW at, NEW p, Chosen(T, at, p),
         NEW m, NEW m2, Alike(m, m2, T, at), NEW in, NEW v,
         Reach(code', layout', in, m2, v)
  PROVE  \E m3, v3 : /\ Reach(code', layout', in, m3, v3) /\ v3 <= v + Weight(code, m)
                     /\ Alike(Do("built", code, layout, m), m3, T, at)
<1>1. PICK b, i, out, end, r, b2, i2 :
        /\ m = Mk(b, i, out, end, r) /\ m2 = Mk(b2, i2, out, end, r) /\ IsRegs(r)
        /\ end = "no" => Sane(b, i) /\ b2 = AtB(b, i, T, at) /\ i2 = AtI(b, i, T, at)
  BY DEF Alike
<1>2. v \in Nat /\ Weight(code, m) \in {1, 3}
  BY ReachStep, WeightIs
<1>3. CASE end # "no"
  <2>1. Do("built", code, layout, m) = m
    <3>1. m.end = end
      BY <1>1, MkFields
    <3> QED
      BY <1>3, <3>1 DEF Do
  <2>2. v <= v + Weight(code, m)
    BY <1>2
  <2> QED
    BY <2>1, <2>2
<1>4. CASE end = "no" /\ i > Len(code[b])
  <2>1. Alike(Do("built", code, layout, m), Do("built", code', layout', m2), T, at)
    BY <1>1, <1>4, MatchedFall
  <2>2. Reach(code', layout', in, Do("built", code', layout', m2), v + Weight(code', m2))
    BY ReachStep
  <2>3. Weight(code', m2) = 1
    <3>1. b2 = AtB(b, i, T, at) /\ i2 = AtI(b, i, T, at) /\ Sane(b, i)
      BY <1>1, <1>4
    <3>2. ~(i2 \in 1 .. Len(code'[b2]))
      BY <1>4, <3>1, MatchedEnd
    <3> QED
      BY <1>1, <1>4, <3>2, WeightMk
  <2>4. v + Weight(code', m2) <= v + Weight(code, m)
    BY <1>2, <2>3
  <2> QED
    BY <2>1, <2>2, <2>4
<1>5. CASE end = "no" /\ ~(i > Len(code[b])) /\ ~(b = T /\ i = at)
  <2>1. /\ Alike(Do("built", code, layout, m), Do("built", code', layout', m2), T, at)
        /\ Weight(code', m2) = Weight(code, m)
    BY <1>1, <1>5, MatchedInstr
  <2>2. Reach(code', layout', in, Do("built", code', layout', m2), v + Weight(code', m2))
    BY ReachStep
  <2>3. v + Weight(code', m2) <= v + Weight(code, m)
    BY <1>2, <2>1
  <2> QED
    BY <2>1, <2>2, <2>3
<1>6. CASE end = "no" /\ ~(i > Len(code[b])) /\ b = T /\ i = at
  <2>1. at \in 1 .. Len(code[T]) /\ Len(code[T]) \in Nat /\ code[T][at].op = "SELECT_CC"
    BY ShapeFacts DEF SelectInv, Chosen
  <2>2. m2 = m /\ m = Mk(T, at, out, "no", r)
    <3>1. b2 = T /\ i2 = at
      BY <1>1, <1>6, <2>1 DEF AtB, AtI
    <3> QED
      BY <1>1, <1>6, <3>1
  <2>3. Weight(code, m) = 3
    BY <2>1, <2>2, WeightMk DEF Selects
  <2> QED
    BY <1>1, <2>2, <2>3, MatchedPseudo
<1> QED
  BY <1>3, <1>4, <1>5, <1>6

--------------------------------------------------------------------------------
(***************************************************************************)
(* Kept: from every input the code of the moment runs to the end the DAG   *)
(* ran to, at a cost within Steps.                                         *)
(***************************************************************************)
Ended(c, order, in, seen) ==
  \E m, v : /\ Reach(c, order, in, m, v) /\ v <= Steps /\ m.end # "no"
            /\ seen = [out |-> m.out, end |-> m.end]

Kept ==
  /\ meaning = [in \in Inputs |-> meaning[in]]
  /\ \A in \in Inputs : Ended(code, layout, in, meaning[in])

MeaningInv == SelectInv /\ Operanded /\ Kept

LEMMA KeptImplies ==
  ASSUME Kept
  PROVE  DiamondsComputeSelects
<1>1. Steps \in Nat
  BY StepsAssumption
<1>2. ASSUME NEW in \in Inputs PROVE Outcome("built", code, layout, in) = meaning[in]
  <2>1. PICK m, v : /\ Reach(code, layout, in, m, v) /\ v <= Steps /\ m.end # "no"
                    /\ meaning[in] = [out |-> m.out, end |-> m.end]
    BY DEF Kept, Ended
  <2>2. Running("built", code, layout, in, Steps) = m
    BY <1>1, <2>1, ReachEnded
  <2> QED
    BY <2>1, <2>2 DEF Outcome
<1>3. meaning = [in \in Inputs |-> meaning[in]]
  BY DEF Kept
<1> QED
  BY <1>2, <1>3 DEF DiamondsComputeSelects, Meaning

(* A function ends within a third of the steps, so at a cost within them.  *)
LEMMA KeptInit ==
  ASSUME Init
  PROVE  Operanded /\ Kept
<1>1. PICK f \in Functions :
        /\ code = f.code /\ succ = f.succ /\ layout = f.layout
        /\ stage = "dag" /\ meaning = Meaning("built", f.code, f.layout)
  BY DEF Init
<1>2. WellFormed(f)
  BY GraphsAssumption
<1>3. Shape /\ Coded
  BY SelectInvInit DEF SelectInv
<1>4. Operanded
  <2>1. DOMAIN code = 1 .. Len(code)
        /\ \A b \in 1 .. Len(code) : DOMAIN code[b] = 1 .. Len(code[b])
    BY <1>3, ShapeFacts
  <2>2. ASSUME NEW b \in 1 .. Len(code), NEW j \in 1 .. Len(code[b])
        PROVE  Operands(code[b][j])
    <3>1. WellFormedBlock(f, b)
      BY <1>1, <1>2, <2>1 DEF WellFormed
    <3>2. /\ code[b][j].op \in {"PHI", "select", "dec", "use", "BNEZ", "J", "RET_N"}
          /\ code[b][j].op = "BNEZ" => Len(code[b][j].ops) = 2
          /\ code[b][j].op = "J" => Len(code[b][j].ops) = 1
      BY <1>1, <2>1, <3>1 DEF WellFormedBlock
    <3> QED
      BY <3>2 DEF Operands
  <2> QED
    BY <2>2 DEF Operanded
<1>5. Kept
  <2>1. meaning = [in \in Inputs |-> Outcome("built", code, layout, in)]
    BY <1>1 DEF Meaning
  <2>2. ASSUME NEW in \in Inputs PROVE Ended(code, layout, in, Outcome("built", code, layout, in))
    <3> DEFINE N == Steps \div 3
               m == Running("built", code, layout, in, N)
    <3>1. Steps \in Nat /\ m.end # "no"
      BY <1>1, StepsAssumption
    <3>2. N \in Nat /\ 3 * N <= Steps
      BY <3>1
    <3> HIDE DEF N
    <3>3. PICK v \in Nat : v <= 3 * N /\ Reach(code, layout, in, m, v)
      BY <3>2, RunReached
    <3> HIDE DEF m
    <3>4. v <= Steps
      BY <3>1, <3>2, <3>3
    <3>5. Running("built", code, layout, in, Steps) = m
      BY <3>1, <3>3, <3>4, ReachEnded
    <3>6. Outcome("built", code, layout, in) = [out |-> m.out, end |-> m.end]
      BY <3>5 DEF Outcome
    <3> QED
      BY <3>1, <3>3, <3>4, <3>6 DEF Ended
  <2> QED
    BY <2>1, <2>2 DEF Kept
<1> QED
  BY <1>4, <1>5

(* The runs of the two functions of an expansion, side by side.            *)
LEMMA MatchedRun ==
  ASSUME SelectInv, Operanded, NEW T, NEW at, NEW p, Chosen(T, at, p),
         NEW in, NEW m, NEW v, Reach(code, layout, in, m, v)
  PROVE  \E m2, v2 : /\ Reach(code', layout', in, m2, v2) /\ v2 <= v
                     /\ Alike(m, m2, T, at)
<1>1. PICK N \in Nat : \E w \in [0 .. N -> Nat] :
        Weighed(code, layout, in, N, w) /\ m = Running("built", code, layout, in, N) /\ v = w[N]
  BY DEF Reach
<1>2. PICK w \in [0 .. N -> Nat] :
        Weighed(code, layout, in, N, w) /\ m = Running("built", code, layout, in, N) /\ v = w[N]
  BY <1>1
<1> DEFINE old(k) == Running("built", code, layout, in, k)
           U == {k \in 0 .. N :
                   \E m2, v2 : /\ Reach(code', layout', in, m2, v2) /\ v2 <= w[k]
                               /\ Alike(old(k), m2, T, at)}
<1>3. 0 \in U
  <2> DEFINE r == [x \in Regs |-> IF x \in DOMAIN in THEN in[x] ELSE Undef]
             b == layout[1]
  <2>1. /\ Start(layout, in) = Mk(b, 1, <<>>, "no", r)
        /\ Start(layout', in) = Mk(layout'[1], 1, <<>>, "no", r)
    BY DEF Start, Mk
  <2>2. IsRegs(r)
    BY DEF IsRegs
  <2> HIDE DEF r
  <2>3. Shape /\ Len(code) \in Nat \ {0} /\ p \in 1 .. Len(code)
        /\ at \in 1 .. Len(code[T]) /\ Len(code[T]) \in Nat
    BY ShapeFacts DEF SelectInv, Chosen
  <2>4. b \in 1 .. Len(code)
    BY <2>3 DEF Shape
  <2>5. layout'[1] = b
    <3>1. 1 \in 1 .. p
      BY <2>3
    <3> QED
      BY <3>1, ChosenLayout
  <2> HIDE DEF b
  <2>6. Sane(b, 1)
    <3>1. Len(code[b]) \in Nat
      BY <2>3, <2>4, ShapeFacts
    <3> QED
      BY <2>4, <3>1 DEF Sane
  <2>7. AtB(b, 1, T, at) = b /\ AtI(b, 1, T, at) = 1
    BY <2>3 DEF AtB, AtI
  <2>8. Alike(Mk(b, 1, <<>>, "no", r), Mk(b, 1, <<>>, "no", r), T, at)
    BY <2>2, <2>6, <2>7, AlikeRunning
  <2>9. old(0) = Start(layout, in)
    BY RunningSteps
  <2>10. Reach(code', layout', in, Start(layout', in), 0)
    BY ReachStart
  <2>11. 0 \in 0 .. N /\ 0 <= w[0]
    BY <1>2 DEF Weighed
  <2> QED
    BY <2>1, <2>5, <2>8, <2>9, <2>10, <2>11
<1>4. ASSUME NEW k \in 0 .. N - 1, k \in U PROVE k + 1 \in U
  <2>1. PICK m2, v2 : /\ Reach(code', layout', in, m2, v2) /\ v2 <= w[k]
                      /\ Alike(old(k), m2, T, at)
    BY <1>4
  <2>2. PICK m3, v3 : /\ Reach(code', layout', in, m3, v3) /\ v3 <= v2 + Weight(code, old(k))
                      /\ Alike(Do("built", code, layout, old(k)), m3, T, at)
    BY <2>1, MatchedStep
  <2>3. k \in Nat /\ k \in 0 .. N /\ k + 1 \in 0 .. N
    OBVIOUS
  <2>4. Do("built", code, layout, old(k)) = old(k + 1)
    BY <2>3, RunningSteps
  <2>5. w[k + 1] = w[k] + Weight(code, old(k))
    BY <1>2 DEF Weighed
  <2>6. v2 \in Nat /\ v3 \in Nat
    BY <2>1, <2>2, ReachStep
  <2>7. w[k] \in Nat
    BY <2>3
  <2>8. Weight(code, old(k)) \in {1, 3}
    BY WeightIs
  <2> DEFINE wk == w[k]
             g  == Weight(code, old(k))
  <2>10. v2 <= wk /\ v3 <= v2 + g /\ wk \in Nat /\ g \in Nat
    BY <2>1, <2>2, <2>7, <2>8
  <2> HIDE DEF wk, g
  <2>11. v3 <= wk + g
    BY <2>6, <2>10
  <2>9. v3 <= w[k + 1]
    BY <2>5, <2>11 DEF wk, g
  <2> QED
    BY <2>2, <2>3, <2>4, <2>9
<1> HIDE DEF U
<1>5. 0 .. N \subseteq U
  BY <1>3, <1>4, BoundedInduction
<1>6. N \in U
  BY <1>5
<1> QED
  BY <1>2, <1>6 DEF U

LEMMA AlikeOutcome ==
  ASSUME NEW m, NEW m2, NEW T, NEW at, Alike(m, m2, T, at)
  PROVE  m2.end = m.end /\ m2.out = m.out
<1>1. PICK b, i, out, end, r, b2, i2 :
        m = Mk(b, i, out, end, r) /\ m2 = Mk(b2, i2, out, end, r)
  BY DEF Alike
<1>2. /\ m.end = end /\ m.out = out
      /\ m2.end = end /\ m2.out = out
  BY <1>1, MkFields
<1> QED
  BY <1>2

LEMMA KeptExpand ==
  ASSUME MeaningInv, ExpandNext
  PROVE  Operanded' /\ Kept'
<1>1. SelectInv /\ Operanded /\ Kept
  BY DEF MeaningInv
<1>2. PICK T, at, p : Chosen(T, at, p)
  <2>1. stage = "pseudo" /\ UNCHANGED stage
    BY DEF ExpandNext
  <2> QED
    BY <1>1, <2>1, ExpandedPseudo DEF Chosen
<1>3. meaning' = meaning
  BY DEF ExpandNext
<1>4. Operanded'
  <2>1. Len(code') = Len(code) + 2 /\ \A b \in 1 .. Len(code) + 2 : \A j \in 1 .. Len(code'[b]) :
          Origin(b, j, T, at)
    BY <1>1, <1>2, ChosenCode, ChosenOrigins
  <2>2. code'[T][at] = BNE(code[T][at].ops[1], Len(code) + 2)
    BY <1>1, <1>2, ChosenCode
  <2>3. ASSUME NEW b \in 1 .. Len(code) + 2, NEW j \in 1 .. Len(code'[b])
        PROVE  Operands(code'[b][j])
    <3>1. CASE b \in 1 .. Len(code) /\ j \in 1 .. Len(code[b])
                 /\ code'[b][j] = After(code[b][j], b, T)
      <4>1. Operands(code[b][j])
        BY <1>1, <3>1 DEF Operanded
      <4>2. CASE code[b][j].op = "PHI"
        <5>1. code'[b][j].op = "PHI"
          BY <3>1, <4>2, AfterOp
        <5> QED
          BY <5>1 DEF Operands
      <4>3. CASE code[b][j].op # "PHI"
        BY <3>1, <4>1, <4>3, AfterOther
      <4> QED
        BY <4>2, <4>3
    <3>2. CASE b = T /\ j = at
      <4>1. code'[b][j].op = "BNE" /\ Len(code'[b][j].ops) = 2
        BY <2>2, <3>2 DEF BNE
      <4> QED
        BY <4>1 DEF Operands
    <3>3. CASE code'[b][j].op = "PHI"
      BY <3>3 DEF Operands
    <3>4. CASE at + j - 1 \in at + 1 .. Len(code[T]) /\ code'[b][j] = code[T][at + j - 1]
      <4>1. T \in 1 .. Len(code) /\ at \in 1 .. Len(code[T]) /\ Len(code[T]) \in Nat
        BY <1>1, <1>2, ShapeFacts DEF SelectInv, Chosen
      <4>2. at + j - 1 \in 1 .. Len(code[T])
        BY <3>4, <4>1
      <4> QED
        BY <1>1, <3>4, <4>1, <4>2 DEF Operanded
    <3> QED
      BY <2>1, <3>1, <3>2, <3>3, <3>4 DEF Origin
  <2> QED
    BY <2>1, <2>3 DEF Operanded
<1>5. Kept'
  <2>1. ASSUME NEW in \in Inputs PROVE Ended(code', layout', in, meaning[in])
    <3>1. PICK m, v : /\ Reach(code, layout, in, m, v) /\ v <= Steps /\ m.end # "no"
                      /\ meaning[in] = [out |-> m.out, end |-> m.end]
      BY <1>1 DEF Kept, Ended
    <3>2. PICK m2, v2 : /\ Reach(code', layout', in, m2, v2) /\ v2 <= v
                        /\ Alike(m, m2, T, at)
      BY <1>1, <1>2, <3>1, MatchedRun
    <3>3. m2.end = m.end /\ m2.out = m.out
      BY <3>2, AlikeOutcome
    <3>5. v \in Nat /\ v2 \in Nat /\ Steps \in Nat
      BY <3>1, <3>2, ReachStep, StepsAssumption
    <3>4. v2 <= Steps
      BY <3>1, <3>2, <3>5
    <3> QED
      BY <3>1, <3>2, <3>3, <3>4 DEF Ended
  <2> QED
    BY <1>1, <1>3, <2>1 DEF Kept
<1> QED
  BY <1>4, <1>5

(* Selection changes no run at all: a matched select does what the select  *)
(* did, at the same cost.                                                  *)
LEMMA SelectedExecute ==
  ASSUME NEW x, x.op = "select", x.form \in Forms, NEW c, NEW b, NEW i, NEW out, NEW r
  PROVE  Execute("built", c, Mk(b, i, out, "no", r), SelectPattern(x))
           = Execute("built", c, Mk(b, i, out, "no", r), x)
<1> DEFINE m == Mk(b, i, out, "no", r)
           y == SelectPattern(x)
           v == r[IF Holds(x.form, r[x.lhs]) THEN x.t ELSE x.f]
           w == r[IF r[y.ops[1]] # 0 THEN y.ops[2] ELSE y.ops[3]]
<1>1. m.r = r
  BY MkFields
<1>2. Execute("built", c, m, x) = Put(m, x.d, v)
  <2> HIDE DEF m
  <2> QED
    BY <1>1 DEF Execute
<1>3. /\ y.op = "SELECT_CC" /\ y.d = x.d /\ y.ops[1] = x.lhs
      /\ x.form = "eq0" => y.ops[2] = x.f /\ y.ops[3] = x.t
      /\ x.form # "eq0" => y.ops[2] = x.t /\ y.ops[3] = x.f
  BY DEF SelectPattern, SELECT_CC, Forms
<1> HIDE DEF y
<1>4. Execute("built", c, m, y) = Put(m, y.d, w)
  <2> HIDE DEF m
  <2> QED
    BY <1>1, <1>3 DEF Execute
<1>5. w = v
  <2>1. CASE x.form = "eq0"
    BY <1>3, <2>1 DEF Holds
  <2>2. CASE x.form # "eq0"
    BY <1>3, <2>2 DEF Holds
  <2> QED
    BY <2>1, <2>2
<1> HIDE DEF v, w
<1>6. Execute("built", c, m, y) = Execute("built", c, m, x)
  BY <1>2, <1>3, <1>4, <1>5
<1> QED
  BY <1>6 DEF y

(* A run stays inside its function.                                        *)
Inside(m) ==
  \E b, i, out, end, r :
    m = Mk(b, i, out, end, r) /\ IsRegs(r) /\ (end = "no" => Sane(b, i))

LEMMA SelectedFirst ==
  ASSUME SelectInv, Select, NEW q \in 1 .. Len(code), NEW b, NEW r
  PROVE  /\ FirstNonPHI(code'[q]) = FirstNonPHI(code[q])
         /\ Entered(code', b, q, r) = Entered(code, b, q, r)
<1>1. Shape /\ Len(code[q]) \in Nat
  BY ShapeFacts DEF SelectInv
<1>2. /\ Len(code'[q]) = Len(code[q])
      /\ \A j \in 1 .. Len(code[q]) :
           /\ code[q][j].op = "select" => code'[q][j].op = "SELECT_CC"
           /\ code[q][j].op # "select" => code'[q][j] = code[q][j]
  BY SelectedCode
<1> DEFINE f == FirstNonPHI(code[q])
<1>3. FirstAt(code[q], f)
  BY <1>1, EnterSane
<1> HIDE DEF f
<1>4. ASSUME NEW j \in 1 .. f - 1
      PROVE  code[q][j].op = "PHI" /\ code'[q][j] = code[q][j]
  <2>1. j \in 1 .. Len(code[q]) /\ code[q][j].op = "PHI"
    BY <1>1, <1>3 DEF FirstAt
  <2> QED
    BY <1>2, <2>1
<1>5. f \in 1 .. Len(code'[q]) + 1 /\ (f <= Len(code'[q]) => code'[q][f].op # "PHI")
  <2>1. f \in 1 .. Len(code[q]) + 1 /\ (f <= Len(code[q]) => code[q][f].op # "PHI")
    BY <1>3 DEF FirstAt
  <2>2. f <= Len(code[q]) => f \in 1 .. Len(code[q])
    BY <1>1, <2>1
  <2> QED
    BY <1>2, <2>1, <2>2
<1>6. FirstAt(code'[q], f)
  BY <1>4, <1>5 DEF FirstAt
<1>7. FirstNonPHI(code'[q]) = f
  BY <1>1, <1>2, <1>6, FirstNonPHIIs
<1>8. \A j \in 1 .. FirstNonPHI(code[q]) - 1 : code'[q][j] = code[q][j]
  BY <1>4 DEF f
<1>9. FirstNonPHI(code'[q]) = FirstNonPHI(code[q])
  BY <1>7 DEF f
<1> QED
  BY <1>8, <1>9, EnteredSame

LEMMA SelectedStep ==
  ASSUME SelectInv, Operanded, Select, NEW m, Inside(m)
  PROVE  /\ Do("built", code', layout', m) = Do("built", code, layout, m)
         /\ Weight(code', m) = Weight(code, m)
         /\ Inside(Do("built", code, layout, m))
<1>1. PICK b, i, out, end, r :
        m = Mk(b, i, out, end, r) /\ IsRegs(r) /\ (end = "no" => Sane(b, i))
  BY DEF Inside
<1>2. Shape /\ Edges /\ Coded
  BY DEF SelectInv
<1>3. layout' = layout
  BY DEF Select
<1>4. CASE end # "no"
  <2>1. m.end = end
    BY <1>1, MkFields
  <2>2. Do("built", code', layout', m) = m /\ Do("built", code, layout, m) = m
    BY <1>4, <2>1 DEF Do
  <2>3. Weight(code', m) = 1 /\ Weight(code, m) = 1
    BY <1>4, <2>1 DEF Weight
  <2> QED
    BY <2>2, <2>3
<1>5. ASSUME end = "no"
      PROVE  /\ b \in 1 .. Len(code) /\ Len(code[b]) \in Nat /\ i \in 1 .. Len(code[b]) + 1
             /\ Len(code'[b]) = Len(code[b]) /\ Sane(b, i)
  <2>1. b \in 1 .. Len(code) /\ i \in 1 .. Len(code[b]) + 1 /\ Sane(b, i)
    BY <1>1, <1>5 DEF Sane
  <2> QED
    BY <1>2, <2>1, ShapeFacts, SelectedCode
<1>6. CASE end = "no" /\ i > Len(code[b])
  <2>1. i = Len(code[b]) + 1 /\ ~(i \in 1 .. Len(code[b])) /\ i > Len(code'[b])
        /\ ~(i \in 1 .. Len(code'[b]))
    BY <1>5, <1>6
  <2>2. /\ Do("built", code, layout, m) = FallThrough(code, layout, m)
        /\ Do("built", code', layout, m) = FallThrough(code', layout, m)
    BY <1>1, <1>6, <2>1, DoMk
  <2>3. Weight(code, m) = 1 /\ Weight(code', m) = 1
    BY <1>1, <1>6, <2>1, WeightMk
  <2>4. CASE Behind(layout, b) = {}
    <3>1. /\ FallThrough(code, layout, m) = Mk(b, i, out, "off", r)
          /\ FallThrough(code', layout, m) = Mk(b, i, out, "off", r)
      BY <1>1, <1>6, <2>4, FallMk
    <3>2. Inside(Mk(b, i, out, "off", r))
      BY <1>1 DEF Inside
    <3> QED
      BY <1>3, <2>2, <2>3, <3>1, <3>2
  <2>5. ASSUME NEW q \in 1 .. Len(code), Behind(layout, b) = {q}
        PROVE  /\ Do("built", code', layout', m) = Do("built", code, layout, m)
               /\ Inside(Do("built", code, layout, m))
    <3>1. /\ FallThrough(code, layout, m)
               = Mk(q, FirstNonPHI(code[q]), out, "no", Entered(code, b, q, r))
          /\ FallThrough(code', layout, m)
               = Mk(q, FirstNonPHI(code'[q]), out, "no", Entered(code', b, q, r))
      BY <1>1, <1>6, <2>5, FallMk
    <3>2. /\ FirstNonPHI(code'[q]) = FirstNonPHI(code[q])
          /\ Entered(code', b, q, r) = Entered(code, b, q, r)
      BY SelectedFirst
    <3>3. Inside(Mk(q, FirstNonPHI(code[q]), out, "no", Entered(code, b, q, r)))
      BY <1>2, EnterSane, EnteredRegs DEF Inside
    <3> QED
      BY <1>3, <2>2, <3>1, <3>2, <3>3
  <2>6. \/ Behind(layout, b) = {}
        \/ \E q \in 1 .. Len(code) : Behind(layout, b) = {q} /\ q \in succ[b]
    BY <1>2, <1>5, <1>6, <2>1, FallsToSuccessor
  <2> QED
    BY <2>3, <2>4, <2>5, <2>6
<1>7. CASE end = "no" /\ ~(i > Len(code[b]))
  <2> DEFINE x == code[b][i]
             y == code'[b][i]
  <2>1. i \in 1 .. Len(code[b]) /\ i \in 1 .. Len(code'[b]) /\ ~(i > Len(code'[b]))
    BY <1>5, <1>7
  <2>2. /\ x.op = "select" => y = SelectPattern(x) /\ y.op = "SELECT_CC" /\ x.form \in Forms
        /\ x.op # "select" => y = x
        /\ Operands(x)
    BY <1>2, <1>5, <1>7, <2>1, SelectedCode DEF Coded, Operanded
  <2> HIDE DEF x, y
  <2>3. /\ Do("built", code, layout, m) = Execute("built", code, m, x)
        /\ Do("built", code', layout, m) = Execute("built", code', m, y)
    BY <1>1, <1>7, <2>1, DoMk DEF x, y
  <2>4. Weight(code', m) = Weight(code, m)
    <3>1. Weight(code, m) = IF i \in 1 .. Len(code[b]) /\ x.op \in Selects THEN 3 ELSE 1
      BY <1>1, <1>7, WeightMk DEF x
    <3>2. Weight(code', m) = IF i \in 1 .. Len(code'[b]) /\ y.op \in Selects THEN 3 ELSE 1
      BY <1>1, <1>7, WeightMk DEF y
    <3> QED
      BY <2>1, <2>2, <3>1, <3>2 DEF Selects
  <2>5. Execute("built", code', m, y) = Execute("built", code', m, x)
    BY <1>1, <1>7, <2>2, SelectedExecute
  <2>6. ASSUME NEW out2, NEW r2, Local(x, out, r, out2, r2)
        PROVE  Execute("built", code', m, x) = Execute("built", code, m, x) /\ Inside(Execute("built", code, m, x))
    <3>1. /\ Execute("built", code, m, x) = Mk(b, i + 1, out2, "no", r2)
          /\ Execute("built", code', m, x) = Mk(b, i + 1, out2, "no", r2)
      BY <1>1, <1>7, <2>6 DEF Local
    <3>2. i + 1 \in 1 .. Len(code[b]) + 1 /\ (i + 1) - 1 = i
      BY <1>5, <1>7, <2>1
    <3>3. Sane(b, i + 1)
      BY <1>5, <1>7, <2>6, <3>2 DEF Sane, Local, x
    <3> QED
      BY <2>6, <3>1, <3>3 DEF Inside, Local
  <2>7. ASSUME Jumping(x, out, r)
        PROVE  Execute("built", code', m, x) = Execute("built", code, m, x) /\ Inside(Execute("built", code, m, x))
    <3> DEFINE q == Goes(x)
    <3>1. q \in 1 .. Len(code)
      BY <1>2, <1>5, <1>7, <2>1, <2>7, JumpsToSuccessor DEF Jumping, x
    <3>2. /\ Execute("built", code, m, x) = Mk(q, FirstNonPHI(code[q]), out, "no", Entered(code, b, q, r))
          /\ Execute("built", code', m, x) = Mk(q, FirstNonPHI(code'[q]), out, "no", Entered(code', b, q, r))
      BY <1>1, <1>7, <2>7 DEF Jumping
    <3> HIDE DEF q
    <3>3. /\ FirstNonPHI(code'[q]) = FirstNonPHI(code[q])
          /\ Entered(code', b, q, r) = Entered(code, b, q, r)
      BY <3>1, SelectedFirst
    <3>4. Inside(Mk(q, FirstNonPHI(code[q]), out, "no", Entered(code, b, q, r)))
      BY <1>2, <3>1, EnterSane, EnteredRegs DEF Inside
    <3> QED
      BY <3>2, <3>3, <3>4
  <2>8. ASSUME NEW e, Ending(x, out, r, e)
        PROVE  Execute("built", code', m, x) = Execute("built", code, m, x) /\ Inside(Execute("built", code, m, x))
    <3>1. /\ Execute("built", code, m, x) = Mk(b, i, out, e, r)
          /\ Execute("built", code', m, x) = Mk(b, i, out, e, r)
      BY <1>1, <1>7, <2>8 DEF Ending
    <3> QED
      BY <1>1, <2>8, <3>1 DEF Inside, Ending
  <2>9. Execute("built", code', m, x) = Execute("built", code, m, x) /\ Inside(Execute("built", code, m, x))
    BY <1>1, <2>2, <2>6, <2>7, <2>8, ExecuteKinds
  <2> QED
    BY <1>3, <2>3, <2>4, <2>5, <2>9
<1> QED
  BY <1>4, <1>6, <1>7

LEMMA SelectedReach ==
  ASSUME SelectInv, Operanded, Select, NEW in, NEW m, NEW v, Reach(code, layout, in, m, v)
  PROVE  Reach(code', layout', in, m, v)
<1>1. PICK N \in Nat : \E w \in [0 .. N -> Nat] :
        Weighed(code, layout, in, N, w) /\ m = Running("built", code, layout, in, N) /\ v = w[N]
  BY DEF Reach
<1>2. PICK w \in [0 .. N -> Nat] :
        Weighed(code, layout, in, N, w) /\ m = Running("built", code, layout, in, N) /\ v = w[N]
  BY <1>1
<1> DEFINE old(k) == Running("built", code, layout, in, k)
           new(k) == Running("built", code', layout', in, k)
           U == {k \in Nat : new(k) = old(k) /\ Inside(old(k))}
<1>3. 0 \in U
  <2> DEFINE r == [x \in Regs |-> IF x \in DOMAIN in THEN in[x] ELSE Undef]
             b == layout[1]
  <2>1. Start(layout, in) = Mk(b, 1, <<>>, "no", r)
    BY DEF Start, Mk
  <2>2. IsRegs(r)
    BY DEF IsRegs
  <2> HIDE DEF r
  <2>3. Shape /\ Len(code) \in Nat \ {0}
    BY ShapeFacts DEF SelectInv
  <2>4. b \in 1 .. Len(code)
    BY <2>3 DEF Shape
  <2> HIDE DEF b
  <2>5. Sane(b, 1)
    <3>1. Len(code[b]) \in Nat
      BY <2>3, <2>4, ShapeFacts
    <3> QED
      BY <2>4, <3>1 DEF Sane
  <2>6. Inside(Mk(b, 1, <<>>, "no", r))
    BY <2>2, <2>5 DEF Inside
  <2>7. layout' = layout
    BY DEF Select
  <2>8. old(0) = Start(layout, in) /\ new(0) = Start(layout, in)
    BY <2>7, RunningSteps
  <2> QED
    BY <2>1, <2>6, <2>8
<1>4. ASSUME NEW k \in U
      PROVE  /\ k + 1 \in U
             /\ Weight(code', new(k)) = Weight(code, old(k))
  <2>1. k \in Nat /\ new(k) = old(k) /\ Inside(old(k))
    OBVIOUS
  <2>2. /\ Do("built", code', layout', old(k)) = Do("built", code, layout, old(k))
        /\ Weight(code', old(k)) = Weight(code, old(k))
        /\ Inside(Do("built", code, layout, old(k)))
    BY <2>1, SelectedStep
  <2>3. old(k + 1) = Do("built", code, layout, old(k)) /\ new(k + 1) = Do("built", code', layout', new(k))
    BY <2>1, RunningSteps
  <2>4. k + 1 \in Nat
    BY <2>1
  <2> QED
    BY <2>1, <2>2, <2>3, <2>4
<1>5. U \in SUBSET Nat
  OBVIOUS
<1>6. \A k \in U : new(k) = old(k)
  OBVIOUS
<1> HIDE DEF U
<1>7. U = Nat
  BY <1>3, <1>4, <1>5, NatSetInduction
<1>8. Weighed(code', layout', in, N, w)
  <2>1. w[0] = 0
    BY <1>2 DEF Weighed
  <2>2. ASSUME NEW k \in 0 .. N - 1 PROVE w[k + 1] = w[k] + Weight(code', new(k))
    <3>1. k \in U
      BY <1>7
    <3>2. w[k + 1] = w[k] + Weight(code, old(k))
      BY <1>2 DEF Weighed
    <3>3. Weight(code', new(k)) = Weight(code, old(k))
      BY <1>4, <3>1
    <3> QED
      BY <3>2, <3>3
  <2> QED
    BY <2>1, <2>2 DEF Weighed
<1>9. m = new(N)
  <2>1. N \in U
    BY <1>7
  <2> QED
    BY <1>2, <1>6, <2>1
<1> HIDE DEF old
<1> QED
  BY <1>2, <1>8, <1>9 DEF Reach

LEMMA KeptSelect ==
  ASSUME MeaningInv, Select
  PROVE  Operanded' /\ Kept'
<1>1. SelectInv /\ Operanded /\ Kept
  BY DEF MeaningInv
<1>2. meaning' = meaning
  BY DEF Select
<1>3. Operanded'
  <2>1. Len(code') = Len(code) /\ \A b \in 1 .. Len(code) : Len(code'[b]) = Len(code[b])
    BY <1>1, SelectedCode
  <2>2. ASSUME NEW b \in 1 .. Len(code), NEW j \in 1 .. Len(code[b])
        PROVE  Operands(code'[b][j])
    <3>1. /\ code[b][j].op = "select" => code'[b][j].op = "SELECT_CC"
          /\ code[b][j].op # "select" => code'[b][j] = code[b][j]
      BY <1>1, SelectedCode
    <3>2. Operands(code[b][j])
      BY <1>1 DEF Operanded
    <3> QED
      BY <3>1, <3>2 DEF Operands
  <2> QED
    BY <2>1, <2>2 DEF Operanded
<1>4. ASSUME NEW in \in Inputs PROVE Ended(code', layout', in, meaning[in])
  <2>1. PICK m, v : /\ Reach(code, layout, in, m, v) /\ v <= Steps /\ m.end # "no"
                    /\ meaning[in] = [out |-> m.out, end |-> m.end]
    BY <1>1 DEF Kept, Ended
  <2>2. Reach(code', layout', in, m, v)
    BY <1>1, <2>1, SelectedReach
  <2> QED
    BY <2>1, <2>2 DEF Ended
<1>5. Kept'
  BY <1>1, <1>2, <1>4 DEF Kept
<1> QED
  BY <1>3, <1>5

(* The invariant with it: every function that selection gets, its diamonds *)
(* read with BNEZ for BNE, runs to the same end at every stage.            *)
THEOREM MeaningInvariant == Spec => []MeaningInv
<1>1. Init => MeaningInv
  BY SelectInvInit, KeptInit DEF MeaningInv
<1>2. MeaningInv /\ [Next]_vars => MeaningInv'
  <2> SUFFICES ASSUME MeaningInv, [Next]_vars
               PROVE  MeaningInv'
    OBVIOUS
  <2>0. SelectInv
    BY DEF MeaningInv
  <2>1. CASE Select
    BY <2>0, <2>1, SelectInvSelect, KeptSelect DEF MeaningInv
  <2>2. CASE ExpandNext
    BY <2>0, <2>2, SelectInvExpand, KeptExpand DEF MeaningInv
  <2>3. CASE Finish
    <3>1. SelectInv'
      BY <2>0, <2>3, SelectInvFinish
    <3>2. code' = code /\ layout' = layout /\ meaning' = meaning
      BY <2>3 DEF Finish
    <3> QED
      BY <3>1, <3>2 DEF MeaningInv, Operanded, Kept
  <2>4. CASE UNCHANGED vars
    <3>1. SelectInv'
      BY <2>0, <2>4, SelectInvStutter
    <3>2. code' = code /\ layout' = layout /\ meaning' = meaning
      BY <2>4 DEF vars
    <3> QED
      BY <3>1, <3>2 DEF MeaningInv, Operanded, Kept
  <2> QED
    BY <2>1, <2>2, <2>3, <2>4 DEF Next
<1> QED
  BY <1>1, <1>2, PTL DEF Spec

(* Nothing but the branch is wrong with the diamonds: with BNEZ in place   *)
(* of the BNE emitSelectCC builds, whatever the function, the number of    *)
(* its selects and where they are, they make, from every input, the values *)
(* and the end the DAG made.                                               *)
THEOREM SelectDiamondsCompute == Spec => []DiamondsComputeSelects
<1>1. MeaningInv => DiamondsComputeSelects
  BY KeptImplies DEF MeaningInv
<1> QED
  BY <1>1, MeaningInvariant, PTL
================================================================================
