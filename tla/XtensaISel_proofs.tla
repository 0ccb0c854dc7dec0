--------------------------- MODULE XtensaISel_proofs ----------------------------
(***************************************************************************)
(* Proofs about XtensaISel: for every address, every distance of the frame *)
(* object and every layout, the hooks hand the address on unchanged.       *)
(* ISelInv says which instructions each stage has, as what the hooks so    *)
(* far make of one of the selections; what those compute is found by       *)
(* running them, what the later hooks make of them by simulation.          *)
(***************************************************************************)
EXTENDS XtensaISel, SequenceTheorems, WellFoundedInduction, TLAPS

--------------------------------------------------------------------------------
(***************************************************************************)
(* Induction over the natural numbers, for what is defined by recursion:   *)
(* over a set instead of a predicate.                                      *)
(***************************************************************************)
(* A set of natural numbers that contains 0 and every successor of its     *)
(* elements contains them all.                                             *)
LEMMA NatSetInduction ==
  ASSUME NEW T \in SUBSET Nat, 0 \in T, \A n \in T : n + 1 \in T
  PROVE  T = Nat
<1> DEFINE Less == {ss \in Nat \X Nat : ss[1] < ss[2]}
<1>1. IsWellFoundedOn(Less, Nat)
  BY NatLessThanWellFounded DEF OpToRel
<1>2. SUFFICES ASSUME Nat \ T # {}
               PROVE  FALSE
  OBVIOUS
<1> HIDE DEF Less
<1>3. PICK x \in Nat \ T : \A y \in Nat \ T : ~(<<y, x>> \in Less)
  <2>1. Nat \ T \subseteq Nat
    OBVIOUS
  <2> QED
    BY <1>1, <1>2, <2>1, WFMin
<1>4. x - 1 \in Nat \ T /\ (x - 1) + 1 = x
  BY <1>3
<1>5. <<x - 1, x>> \in Less
  BY <1>4, <1>3 DEF Less
<1> QED
  BY <1>3, <1>4, <1>5

(* The same up to a bound.                                                 *)
LEMMA BoundedInduction ==
  ASSUME NEW N \in Nat, NEW T, 0 \in T, \A n \in 0 .. N - 1 : n \in T => n + 1 \in T
  PROVE  0 .. N \subseteq T
<1> DEFINE U == {n \in Nat : n <= N => n \in T}
<1>1. 0 \in U
  OBVIOUS
<1>2. ASSUME NEW n \in U PROVE n + 1 \in U
  <2>1. n \in Nat /\ (n <= N => n \in T)
    OBVIOUS
  <2>2. n + 1 <= N => n \in 0 .. N - 1 /\ n <= N
    BY <2>1
  <2> QED
    BY <2>1, <2>2
<1> HIDE DEF U
<1>3. U = Nat
  <2>1. U \in SUBSET Nat
    BY DEF U
  <2> QED
    BY <1>1, <1>2, <2>1, NatSetInduction
<1> QED
  BY <1>3 DEF U

--------------------------------------------------------------------------------
(***************************************************************************)
(* Runs.                                                                   *)
(***************************************************************************)
Moment(s, c, g, k) == IF k = 0 THEN s ELSE Do(g[k - 1], c[k])

Recorded(s, c, g, n) == g = [k \in 0 .. n |-> Moment(s, c, g, k)]

LEMMA RecordsExist ==
  ASSUME NEW s, NEW c, NEW n \in Nat
  PROVE  \E g : Recorded(s, c, g, n)
<1> DEFINE T == {m \in Nat : \E g : Recorded(s, c, g, m)}
<1>1. 0 \in T
  <2> DEFINE g == [k \in 0 .. 0 |-> s]
  <2>1. g = [k \in 0 .. 0 |-> Moment(s, c, g, k)]
    BY DEF Moment
  <2> HIDE DEF g
  <2>2. Recorded(s, c, g, 0)
    BY <2>1 DEF Recorded
  <2> QED
    BY <2>2
<1>2. ASSUME NEW m \in Nat, NEW g, Recorded(s, c, g, m)
      PROVE  \E h : Recorded(s, c, h, m + 1)
  <2> DEFINE h == [k \in 0 .. m + 1 |-> Moment(s, c, g, k)]
  <2>1. \A k \in 0 .. m : h[k] = g[k]
    BY <1>2 DEF Recorded
  <2>2. \A k \in 0 .. m + 1 : k = 0 \/ k - 1 \in 0 .. m
    OBVIOUS
  <2>3. h = [k \in 0 .. m + 1 |-> h[k]] /\ \A k \in 0 .. m + 1 : h[k] = Moment(s, c, g, k)
    OBVIOUS
  <2> HIDE DEF h
  <2>4. \A k \in 0 .. m + 1 : Moment(s, c, h, k) = Moment(s, c, g, k)
    BY <2>1, <2>2 DEF Moment
  <2>5. h = [k \in 0 .. m + 1 |-> Moment(s, c, h, k)]
    BY <2>3, <2>4
  <2> QED
    BY <2>5 DEF Recorded
<1>3. \A m \in T : m + 1 \in T
  BY <1>2
<1>4. T \in SUBSET Nat
  OBVIOUS
<1> HIDE DEF T
<1>5. T = Nat
  BY <1>1, <1>3, <1>4, NatSetInduction
<1> QED
  BY <1>5 DEF T

LEMMA RecordsAgree ==
  ASSUME NEW s, NEW c, NEW n \in Nat, NEW g, NEW h,
         Recorded(s, c, g, n), Recorded(s, c, h, n)
  PROVE  \A k \in 0 .. n : g[k] = h[k]
<1>1. \A k \in 0 .. n : g[k] = Moment(s, c, g, k) /\ h[k] = Moment(s, c, h, k)
  BY DEF Recorded
<1> DEFINE T == {k \in 0 .. n : g[k] = h[k]}
<1>2. 0 \in T
  BY <1>1 DEF Moment
<1>3. ASSUME NEW k \in 0 .. n - 1, k \in T PROVE k + 1 \in T
  <2>1. g[k] = h[k]
    BY <1>3
  <2>2. k + 1 \in 0 .. n /\ k + 1 # 0 /\ (k + 1) - 1 = k
    OBVIOUS
  <2>3. g[k + 1] = Do(g[k], c[k + 1]) /\ h[k + 1] = Do(h[k], c[k + 1])
    BY <1>1, <2>2 DEF Moment
  <2> QED
    BY <2>1, <2>2, <2>3
<1> HIDE DEF T
<1>4. 0 .. n \subseteq T
  BY <1>2, <1>3, BoundedInduction
<1> QED
  BY <1>4 DEF T

(* A run is recorded, and any record of it ends where it does.             *)
LEMMA RunRecorded ==
  ASSUME NEW s, NEW c, Len(c) \in Nat
  PROVE  \E g : Recorded(s, c, g, Len(c)) /\ Run(s, c) = g[Len(c)]
<1> DEFINE g == CHOOSE h : Recorded(s, c, h, Len(c))
<1>1. Recorded(s, c, g, Len(c))
  BY RecordsExist
<1>2. Run(s, c) = g[Len(c)]
  BY DEF Run, Recorded, Moment
<1> HIDE DEF g
<1> QED
  BY <1>1, <1>2

LEMMA RunIs ==
  ASSUME NEW s, NEW c, Len(c) \in Nat, NEW g, Recorded(s, c, g, Len(c))
  PROVE  Run(s, c) = g[Len(c)]
<1>1. PICK h : Recorded(s, c, h, Len(c)) /\ Run(s, c) = h[Len(c)]
  BY RunRecorded
<1> QED
  BY <1>1, RecordsAgree

LEMMA RunNone ==
  ASSUME NEW s
  PROVE  Run(s, <<>>) = s
<1>1. PICK g : Recorded(s, <<>>, g, 0) /\ Run(s, <<>>) = g[0]
  <2>1. Len(<<>>) = 0
    OBVIOUS
  <2> QED
    BY <2>1, RunRecorded
<1>2. g[0] = Moment(s, <<>>, g, 0)
  BY <1>1 DEF Recorded
<1> QED
  BY <1>1, <1>2 DEF Moment

LEMMA RunOne ==
  ASSUME NEW s, NEW i
  PROVE  Run(s, <<i>>) = Do(s, i)
<1>1. PICK g : Recorded(s, <<i>>, g, 1) /\ Run(s, <<i>>) = g[1]
  <2>1. Len(<<i>>) = 1
    OBVIOUS
  <2> QED
    BY <2>1, RunRecorded
<1>2. g[0] = Moment(s, <<i>>, g, 0) /\ g[1] = Moment(s, <<i>>, g, 1)
  BY <1>1 DEF Recorded
<1>3. <<i>>[1] = i
  OBVIOUS
<1> QED
  BY <1>1, <1>2, <1>3 DEF Moment

LEMMA RunConcat ==
  ASSUME NEW X, NEW c \in Seq(X), NEW d \in Seq(X), NEW s
  PROVE  Run(s, c \o d) = Run(Run(s, c), d)
<1> DEFINE e == c \o d  m == Len(c)  n == Len(d)
<1>1. /\ m \in Nat /\ n \in Nat /\ Len(e) = m + n
      /\ \A k \in 1 .. m : e[k] = c[k]
      /\ \A k \in 1 .. n : e[m + k] = d[k]
  <2>1. \A k \in 1 .. n : m + k \in 1 .. m + n /\ ~(m + k <= m) /\ (m + k) - m = k
    BY LenProperties
  <2>2. \A k \in 1 .. m : k \in 1 .. m + n /\ k <= m
    BY LenProperties
  <2>3. Len(e) = m + n /\ \A k \in 1 .. m + n : e[k] = IF k <= m THEN c[k] ELSE d[k - m]
    BY ConcatProperties
  <2> QED
    BY <2>1, <2>2, <2>3, LenProperties
<1> HIDE DEF e, m, n
<1>2. PICK g : Recorded(s, e, g, m + n) /\ Run(s, e) = g[m + n]
  <2>1. Len(e) \in Nat
    BY <1>1
  <2> QED
    BY <1>1, <2>1, RunRecorded
<1>3. \A k \in 0 .. m + n : g[k] = Moment(s, e, g, k)
  BY <1>2 DEF Recorded
<1> DEFINE a == [k \in 0 .. m |-> g[k]]
           b == [k \in 0 .. n |-> g[m + k]]
<1>4. Run(s, c) = g[m]
  <2>1. \A k \in 0 .. m : a[k] = Moment(s, c, a, k)
    <3> TAKE k \in 0 .. m
    <3>1. k \in 0 .. m + n /\ a[k] = Moment(s, e, g, k)
      BY <1>1, <1>3
    <3>2. CASE k = 0
      BY <3>1, <3>2 DEF Moment
    <3>3. CASE k # 0
      <4>1. k \in 1 .. m /\ k - 1 \in 0 .. m /\ a[k - 1] = g[k - 1]
        BY <3>3, <1>1
      <4> HIDE DEF a
      <4> QED
        BY <3>1, <3>3, <4>1, <1>1 DEF Moment
    <3> QED
      BY <3>2, <3>3
  <2>2. a = [k \in 0 .. m |-> a[k]] /\ a[m] = g[m]
    BY <1>1
  <2> HIDE DEF a
  <2>3. Recorded(s, c, a, m)
    BY <2>1, <2>2 DEF Recorded
  <2> QED
    BY <2>2, <2>3, <1>1, RunIs DEF m
<1>5. Run(g[m], d) = g[m + n]
  <2>1. \A k \in 0 .. n : b[k] = Moment(g[m], d, b, k)
    <3> TAKE k \in 0 .. n
    <3>1. m + k \in 0 .. m + n /\ b[k] = g[m + k] /\ g[m + k] = Moment(s, e, g, m + k)
      BY <1>1, <1>3
    <3>2. CASE k = 0
      <4>1. m + k = m
        BY <3>2, <1>1
      <4> QED
        BY <3>1, <3>2, <4>1 DEF Moment
    <3>3. CASE k # 0
      <4>1. /\ k \in 1 .. n /\ k - 1 \in 0 .. n /\ (m + k) - 1 = m + (k - 1)
            /\ m + k # 0 /\ b[k - 1] = g[m + (k - 1)]
        BY <3>3, <1>1
      <4> HIDE DEF b
      <4> QED
        BY <3>1, <3>3, <4>1, <1>1 DEF Moment
    <3> QED
      BY <3>2, <3>3
  <2>2. b = [k \in 0 .. n |-> b[k]] /\ b[n] = g[m + n]
    BY <1>1
  <2> HIDE DEF b
  <2>3. Recorded(g[m], d, b, n)
    BY <2>1, <2>2 DEF Recorded
  <2> QED
    BY <2>2, <2>3, <1>1, RunIs DEF n
<1> QED
  BY <1>2, <1>4, <1>5 DEF e

(***************************************************************************)
(* Simulation.  Where each instruction of c keeps two machines related by  *)
(* Q, one of them running what a hook made of the instruction, so do whole *)
(* runs.                                                                   *)
(***************************************************************************)
LEMMA Simulate ==
  ASSUME NEW Q, NEW c, NEW e, Len(c) \in Nat, Len(e) = Len(c),
         NEW s, NEW t, <<s, t>> \in Q,
         \A n \in 1 .. Len(c) : \A x, y :
           <<x, y>> \in Q => <<Do(x, c[n]), Do(y, e[n])>> \in Q
  PROVE  <<Run(s, c), Run(t, e)>> \in Q
<1>1. PICK g : Recorded(s, c, g, Len(c)) /\ Run(s, c) = g[Len(c)]
  BY RunRecorded
<1>2. PICK h : Recorded(t, e, h, Len(e)) /\ Run(t, e) = h[Len(e)]
  <2>1. Len(e) \in Nat
    OBVIOUS
  <2> QED
    BY <2>1, RunRecorded
<1> DEFINE T == {k \in 0 .. Len(c) : <<g[k], h[k]>> \in Q}
<1>3. \A k \in 0 .. Len(c) : g[k] = Moment(s, c, g, k) /\ h[k] = Moment(t, e, h, k)
  BY <1>1, <1>2 DEF Recorded
<1>4. 0 \in T
  BY <1>3 DEF Moment
<1>5. ASSUME NEW k \in 0 .. Len(c) - 1, k \in T PROVE k + 1 \in T
  <2>1. <<g[k], h[k]>> \in Q
    BY <1>5
  <2>2. k + 1 \in 0 .. Len(c) /\ k + 1 \in 1 .. Len(c) /\ k + 1 # 0 /\ (k + 1) - 1 = k
    OBVIOUS
  <2>3. g[k + 1] = Do(g[k], c[k + 1]) /\ h[k + 1] = Do(h[k], e[k + 1])
    BY <1>3, <2>2 DEF Moment
  <2>4. <<Do(g[k], c[k + 1]), Do(h[k], e[k + 1])>> \in Q
    BY <2>1, <2>2
  <2> QED
    BY <2>2, <2>3, <2>4
<1>6. 0 .. Len(c) \subseteq T
  <2> HIDE DEF T
  <2> QED
    BY <1>4, <1>5, BoundedInduction
<1>7. Len(c) \in T
  BY <1>6
<1> QED
  BY <1>1, <1>2, <1>7

(* What FlattenSeq puts together from e's first k sequences.               *)
Piece(e, g, k) == IF k = 1 THEN e[k] ELSE g[k - 1] \o e[k]

Gathered(e, g, n) == g = [k \in 1 .. n |-> Piece(e, g, k)]

LEMMA GatheringExists ==
  ASSUME NEW e, NEW n \in Nat
  PROVE  \E g : Gathered(e, g, n)
<1> DEFINE T == {m \in Nat : \E g : Gathered(e, g, m)}
<1>1. 0 \in T
  <2> DEFINE g == [k \in 1 .. 0 |-> <<>>]
  <2>1. g = [k \in 1 .. 0 |-> Piece(e, g, k)]
    OBVIOUS
  <2> HIDE DEF g
  <2>2. Gathered(e, g, 0)
    BY <2>1 DEF Gathered
  <2> QED
    BY <2>2
<1>2. ASSUME NEW m \in Nat, NEW g, Gathered(e, g, m)
      PROVE  \E h : Gathered(e, h, m + 1)
  <2> DEFINE h == [k \in 1 .. m + 1 |-> Piece(e, g, k)]
  <2>1. \A k \in 1 .. m : h[k] = g[k]
    BY <1>2 DEF Gathered
  <2>2. \A k \in 1 .. m + 1 : k = 1 \/ k - 1 \in 1 .. m
    OBVIOUS
  <2>3. h = [k \in 1 .. m + 1 |-> h[k]] /\ \A k \in 1 .. m + 1 : h[k] = Piece(e, g, k)
    OBVIOUS
  <2> HIDE DEF h
  <2>4. \A k \in 1 .. m + 1 : Piece(e, h, k) = Piece(e, g, k)
    BY <2>1, <2>2 DEF Piece
  <2>5. h = [k \in 1 .. m + 1 |-> Piece(e, h, k)]
    BY <2>3, <2>4
  <2> QED
    BY <2>5 DEF Gathered
<1>3. \A m \in T : m + 1 \in T
  BY <1>2
<1>4. T \in SUBSET Nat
  OBVIOUS
<1> HIDE DEF T
<1>5. T = Nat
  BY <1>1, <1>3, <1>4, NatSetInduction
<1> QED
  BY <1>5 DEF T

LEMMA FlattenGathers ==
  ASSUME NEW e, Len(e) \in Nat \ {0}
  PROVE  \E g : Gathered(e, g, Len(e)) /\ FlattenSeq(e) = g[Len(e)]
<1> DEFINE g == CHOOSE h : Gathered(e, h, Len(e))
<1>1. Gathered(e, g, Len(e))
  BY GatheringExists
<1>2. FlattenSeq(e) = g[Len(e)]
  BY DEF FlattenSeq, Gathered, Piece
<1> HIDE DEF g
<1> QED
  BY <1>1, <1>2

LEMMA FlattenNone ==
  ASSUME NEW e, Len(e) = 0, NEW X, e \in Seq(X)
  PROVE  FlattenSeq(e) = <<>>
  BY EmptySeq DEF FlattenSeq

LEMMA SimulateFlat ==
  ASSUME NEW Q, NEW X, NEW c, NEW e \in Seq(Seq(X)), Len(c) = Len(e),
         NEW s, NEW t, <<s, t>> \in Q,
         \A n \in 1 .. Len(c) : \A x, y :
           <<x, y>> \in Q => <<Do(x, c[n]), Run(y, e[n])>> \in Q
  PROVE  /\ FlattenSeq(e) \in Seq(X)
         /\ <<Run(s, c), Run(t, FlattenSeq(e))>> \in Q
<1>1. /\ Len(e) \in Nat
      /\ \A k \in 1 .. Len(e) : e[k] \in Seq(X)
  BY LenProperties, ElementOfSeq
<1>2. PICK g : Recorded(s, c, g, Len(c)) /\ Run(s, c) = g[Len(c)]
  BY <1>1, RunRecorded
<1>3. \A k \in 0 .. Len(c) : g[k] = Moment(s, c, g, k)
  BY <1>2 DEF Recorded
<1>4. CASE Len(e) = 0
  <2>1. FlattenSeq(e) = <<>>
    BY <1>4, FlattenNone
  <2>2. Run(s, c) = s
    BY <1>2, <1>3, <1>4 DEF Moment
  <2>3. <<>> \in Seq(X)
    OBVIOUS
  <2> QED
    BY <2>1, <2>2, <2>3, RunNone
<1>5. CASE Len(e) # 0
  <2>1. PICK h : Gathered(e, h, Len(e)) /\ FlattenSeq(e) = h[Len(e)]
    BY <1>1, <1>5, FlattenGathers
  <2>2. \A k \in 1 .. Len(e) : h[k] = Piece(e, h, k)
    BY <2>1 DEF Gathered
  <2> DEFINE T == {k \in 0 .. Len(e) :
                     k # 0 => h[k] \in Seq(X) /\ <<g[k], Run(t, h[k])>> \in Q}
  <2>3. 0 \in T
    BY <1>1
  <2>4. ASSUME NEW k \in 0 .. Len(e) - 1, k \in T PROVE k + 1 \in T
    <3>1. k + 1 \in 0 .. Len(e) /\ k + 1 \in 1 .. Len(e) /\ k + 1 # 0 /\ (k + 1) - 1 = k
      BY <1>1
    <3>2. g[k + 1] = Do(g[k], c[k + 1])
      BY <1>3, <3>1 DEF Moment
    <3>3. e[k + 1] \in Seq(X)
      BY <1>1, <3>1
    <3>4. CASE k = 0
      <4>1. h[k + 1] = e[k + 1] /\ g[k] = s
        BY <2>2, <3>1, <3>4, <1>1, <1>3 DEF Moment, Piece
      <4>2. <<Do(s, c[k + 1]), Run(t, e[k + 1])>> \in Q
        BY <3>1
      <4> QED
        BY <3>1, <3>2, <3>3, <4>1, <4>2
    <3>5. CASE k # 0
      <4>1. h[k] \in Seq(X) /\ <<g[k], Run(t, h[k])>> \in Q
        BY <2>4, <3>5
      <4>2. h[k + 1] = h[k] \o e[k + 1]
        <5>1. h[k + 1] = Piece(e, h, k + 1)
          BY <2>2, <3>1
        <5>2. k + 1 # 1
          BY <3>5
        <5> QED
          BY <3>1, <5>1, <5>2 DEF Piece
      <4>3. h[k + 1] \in Seq(X)
        BY <3>3, <4>1, <4>2, ConcatProperties
      <4>4. Run(t, h[k + 1]) = Run(Run(t, h[k]), e[k + 1])
        BY <3>3, <4>1, <4>2, RunConcat
      <4>5. <<Do(g[k], c[k + 1]), Run(Run(t, h[k]), e[k + 1])>> \in Q
        BY <3>1, <4>1
      <4> QED
        BY <3>1, <3>2, <4>3, <4>4, <4>5
    <3> QED
      BY <3>4, <3>5
  <2>5. 0 .. Len(e) \subseteq T
    <3> HIDE DEF T
    <3> QED
      BY <1>1, <2>3, <2>4, BoundedInduction
  <2>6. Len(e) \in T
    <3> HIDE DEF T
    <3>1. Len(e) \in 0 .. Len(e)
      BY <1>1
    <3> QED
      BY <2>5, <3>1
  <2> QED
    BY <1>2, <1>5, <2>1, <2>6
<1> QED
  BY <1>4, <1>5

--------------------------------------------------------------------------------
(***************************************************************************)
(* The machine, instruction by instruction.                                *)
(***************************************************************************)
Accesses ==
  [a : Int, width : {8, 16, 32}, ext : {"zero", "sign", "whole"}, store : BOOLEAN]

States ==
  [r : [Registers -> Int], acc : Seq(Accesses), object : Int, text : BOOLEAN]

Mk(r, acc, o, text) == [r |-> r, acc |-> acc, object |-> o, text |-> text]

Expr(a) == [k |-> "expr", v |-> a]

Accessing == LoadOps \cup StoreOps \cup {"INLINEASM"}

LEMMA StateIsMk ==
  ASSUME NEW s \in States
  PROVE  /\ s.r \in [Registers -> Int] /\ s.acc \in Seq(Accesses)
         /\ s.object \in Int /\ s.text \in BOOLEAN
         /\ s = Mk(s.r, s.acc, s.object, s.text)
  BY DEF States, Mk

LEMMA MkIsState ==
  ASSUME NEW r \in [Registers -> Int], NEW acc \in Seq(Accesses), NEW o \in Int,
         NEW text \in BOOLEAN
  PROVE  /\ Mk(r, acc, o, text) \in States
         /\ Mk(r, acc, o, text).r = r /\ Mk(r, acc, o, text).acc = acc
         /\ Mk(r, acc, o, text).object = o /\ Mk(r, acc, o, text).text = text
  BY DEF States, Mk

LEMMA PutIs ==
  ASSUME NEW s \in States, NEW x \in Registers, NEW v \in Int
  PROVE  /\ Put(s, x, v) \in States
         /\ Put(s, x, v).r[x] = v
         /\ \A y \in Registers : y # x => Put(s, x, v).r[y] = s.r[y]
         /\ Put(s, x, v).acc = s.acc
         /\ Put(s, x, v).object = s.object
         /\ Put(s, x, v).text = s.text
<1>1. Put(s, x, v) = Mk([s.r EXCEPT ![x] = v], s.acc, s.object, s.text)
  <2>1. s = Mk(s.r, s.acc, s.object, s.text)
    BY StateIsMk
  <2>2. ASSUME NEW r, NEW acc, NEW o, NEW text, s = Mk(r, acc, o, text)
        PROVE  Put(s, x, v) = Mk([r EXCEPT ![x] = v], acc, o, text)
    BY <2>2 DEF Put, Mk
  <2> QED
    BY <2>1, <2>2
<1>2. [s.r EXCEPT ![x] = v] \in [Registers -> Int]
  BY StateIsMk
<1>3. /\ [s.r EXCEPT ![x] = v][x] = v
      /\ \A y \in Registers : y # x => [s.r EXCEPT ![x] = v][y] = s.r[y]
  BY StateIsMk
<1> HIDE DEF Registers
<1> QED
  BY <1>1, <1>2, <1>3, StateIsMk, MkIsState

LEMMA AccessIs ==
  ASSUME NEW op \in Accessing, NEW a \in Int
  PROVE  Access(op, a) \in Accesses
<1>1. Width(op) \in {8, 16, 32} /\ Extends(op) \in {"zero", "sign", "whole"}
  BY DEF Width, Extends, Accessing, LoadOps, StoreOps
<1>2. (op \in StoreOps) \in BOOLEAN
  OBVIOUS
<1> QED
  BY <1>1, <1>2 DEF Access, Accesses

(* The state with one access more.                                         *)
Noted(s, op, a) == [s EXCEPT !.acc = Append(@, Access(op, a))]

LEMMA NotedIs ==
  ASSUME NEW s \in States, NEW op \in Accessing, NEW a \in Int
  PROVE  /\ Noted(s, op, a) \in States
         /\ Noted(s, op, a).r = s.r
         /\ Noted(s, op, a).acc = Append(s.acc, Access(op, a))
         /\ Noted(s, op, a).object = s.object
         /\ Noted(s, op, a).text = s.text
<1>1. Noted(s, op, a) = Mk(s.r, Append(s.acc, Access(op, a)), s.object, s.text)
  <2>1. s = Mk(s.r, s.acc, s.object, s.text)
    BY StateIsMk
  <2>2. ASSUME NEW r, NEW acc, NEW o, NEW text, NEW x
        PROVE  [Mk(r, acc, o, text) EXCEPT !.acc = x] = Mk(r, x, o, text)
    BY DEF Mk
  <2> DEFINE n == Append(s.acc, Access(op, a))
  <2>3. Noted(s, op, a) = [s EXCEPT !.acc = n]
    BY DEF Noted
  <2> HIDE DEF n
  <2>4. [s EXCEPT !.acc = n] = Mk(s.r, n, s.object, s.text)
    BY <2>1, <2>2
  <2> QED
    BY <2>3, <2>4 DEF n
<1>2. Append(s.acc, Access(op, a)) \in Seq(Accesses)
  BY AccessIs, StateIsMk, AppendProperties
<1>3. s.r \in [Registers -> Int] /\ s.object \in Int /\ s.text \in BOOLEAN
  BY StateIsMk
<1> DEFINE n == Append(s.acc, Access(op, a))
<1>4. n \in Seq(Accesses)
  BY <1>2
<1>5. Noted(s, op, a) = Mk(s.r, n, s.object, s.text)
  BY <1>1
<1> HIDE DEF n
<1>6. /\ Noted(s, op, a) \in States
      /\ Noted(s, op, a).r = s.r /\ Noted(s, op, a).acc = n
      /\ Noted(s, op, a).object = s.object /\ Noted(s, op, a).text = s.text
  BY <1>3, <1>4, <1>5, MkIsState
<1> QED
  BY <1>6 DEF n

LEMMA Operands ==
  ASSUME NEW x
  PROVE  /\ R(x).v = x /\ R(x).k = "reg" /\ Imm(x).v = x /\ Imm(x).k = "imm"
         /\ FI.k = "fi" /\ FI.v = 0 /\ Sym(x).k = "sym" /\ Sym(x).v = x
         /\ Expr(x).k = "expr" /\ Expr(x).v = x
  BY DEF R, Imm, Sym, Expr, FI

LEMMA OperandValues ==
  ASSUME NEW s, NEW x
  PROVE  /\ Val(s, R(x)) = s.r[x] /\ Val(s, Imm(x)) = x /\ Val(s, Sym(x)) = x
         /\ Val(s, Expr(x)) = x /\ Val(s, FI) = FrameValue + s.object
  BY Operands DEF Val

LEMMA DoAdd ==
  ASSUME NEW s, NEW op \in {"ADD", "ADD_N", "ADDI", "ADDI_N"}, NEW a, NEW x, NEW y
  PROVE  Do(s, Ins(op, <<R(a), x, y>>)) = Put(s, a, Val(s, x) + Val(s, y))
<1> DEFINE i == Ins(op, <<R(a), x, y>>)
<1>1. i.op = op /\ i.ops[1] = R(a) /\ i.ops[2] = x /\ i.ops[3] = y
  BY DEF Ins
<1> HIDE DEF i
<1>2. i.ops[1].v = a
  BY <1>1 DEF R
<1>3. /\ i.op \in {"ADD", "ADD_N", "ADDI", "ADDI_N"} /\ i.op \notin {"MOVI", "MOVI_N", "LI"}
      /\ i.op # "LA" /\ ~mayLoadOrStore(i.op)
  BY <1>1 DEF mayLoadOrStore, LoadOps, StoreOps
<1>4. Do(s, i) = Put(s, i.ops[1].v, Val(s, i.ops[2]) + Val(s, i.ops[3]))
  BY <1>3 DEF Do
<1>5. Do(s, i) = Put(s, a, Val(s, x) + Val(s, y))
  BY <1>1, <1>2, <1>4
<1> QED
  BY <1>5 DEF i

LEMMA DoMove ==
  ASSUME NEW s, NEW op \in {"MOVI", "MOVI_N", "LI"}, NEW a, NEW x
  PROVE  Do(s, Ins(op, <<R(a), x>>)) = Put(s, a, Val(s, x))
<1> DEFINE i == Ins(op, <<R(a), x>>)
<1>1. i.op = op /\ i.ops[1] = R(a) /\ i.ops[2] = x
  BY DEF Ins
<1> HIDE DEF i
<1>2. i.ops[1].v = a
  BY <1>1 DEF R
<1>3. /\ i.op \notin {"ADD", "ADD_N", "ADDI", "ADDI_N"} /\ i.op \in {"MOVI", "MOVI_N", "LI"}
      /\ i.op # "LA" /\ ~mayLoadOrStore(i.op)
  BY <1>1 DEF mayLoadOrStore, LoadOps, StoreOps
<1>4. Do(s, i) = Put(s, i.ops[1].v, Val(s, i.ops[2]))
  BY <1>3 DEF Do
<1>5. Do(s, i) = Put(s, a, Val(s, x))
  BY <1>1, <1>2, <1>4
<1> QED
  BY <1>5 DEF i

LEMMA DoLA ==
  ASSUME NEW s, s.text = FALSE, NEW a, NEW x
  PROVE  Do(s, Ins("LA", <<R(a), x>>)) = Put(s, a, Val(s, x))
<1> DEFINE i == Ins("LA", <<R(a), x>>)
<1>1. i.op = "LA" /\ i.ops[1] = R(a) /\ i.ops[2] = x
  BY DEF Ins
<1> HIDE DEF i
<1>2. i.ops[1].v = a
  BY <1>1 DEF R
<1>3. /\ i.op \notin {"ADD", "ADD_N", "ADDI", "ADDI_N"} /\ i.op \notin {"MOVI", "MOVI_N", "LI"}
      /\ i.op = "LA" /\ ~mayLoadOrStore(i.op)
  BY <1>1 DEF mayLoadOrStore, LoadOps, StoreOps
<1>4. Do(s, i) = Put(s, i.ops[1].v, Val(s, i.ops[2]))
  BY <1>3 DEF Do
<1>5. Do(s, i) = Put(s, a, Val(s, x))
  BY <1>1, <1>2, <1>4
<1> QED
  BY <1>5 DEF i

LEMMA DoMemory ==
  ASSUME NEW s, NEW op \in Accessing, NEW a, NEW x, NEW y
  PROVE  Do(s, Ins(op, <<R(a), x, y>>)) =
           IF s.text THEN DoAccess(s, op, a, x, y) ELSE DoAccess(s, op, a, y, x)
<1> DEFINE i == Ins(op, <<R(a), x, y>>)
<1>1. i.op = op /\ i.ops[1] = R(a) /\ i.ops[2] = x /\ i.ops[3] = y
  BY DEF Ins
<1> HIDE DEF i
<1>2. i.ops[1].v = a
  BY <1>1 DEF R
<1>3. /\ i.op \notin {"ADD", "ADD_N", "ADDI", "ADDI_N"} /\ i.op \notin {"MOVI", "MOVI_N", "LI"}
      /\ i.op # "LA" /\ mayLoadOrStore(i.op)
  BY <1>1 DEF mayLoadOrStore, LoadOps, StoreOps, Accessing
<1>4. Do(s, i) = IF s.text THEN DoAccess(s, i.op, i.ops[1].v, i.ops[2], i.ops[3])
                 ELSE DoAccess(s, i.op, i.ops[1].v, i.ops[3], i.ops[2])
  BY <1>3 DEF Do
<1>5. Do(s, i) = IF s.text THEN DoAccess(s, op, a, x, y) ELSE DoAccess(s, op, a, y, x)
  BY <1>1, <1>2, <1>4
<1> QED
  BY <1>5 DEF i

(* The instructions by the shape of their operands.                        *)
iAdd(op, a, b, d)  == Ins(op, <<R(a), R(b), R(d)>>)
iAddImm(op, a, b, v) == Ins(op, <<R(a), R(b), Imm(v)>>)
iAddFI(op, a, v)   == Ins(op, <<R(a), FI, Imm(v)>>)
iMove(op, a, v)    == Ins(op, <<R(a), Imm(v)>>)
iLA(a, v)          == Ins("LA", <<R(a), Sym(v)>>)
iLAExpr(a, v)      == Ins("LA", <<R(a), Expr(v)>>)
iMem(op, a, v, b)  == Ins(op, <<R(a), Imm(v), R(b)>>)
iMemFI(op, a, v)   == Ins(op, <<R(a), Imm(v), FI>>)
iText(op, a, b, v) == Ins(op, <<R(a), R(b), Imm(v)>>)

(* The same with any operand y for the base.                               *)
iAddTo(op, a, y, z) == Ins(op, <<R(a), y, z>>)
iMemAt(op, a, v, y) == Ins(op, <<R(a), Imm(v), y>>)

LEMMA DoAddReg ==
  ASSUME NEW s, NEW op \in {"ADD", "ADD_N"}, NEW a, NEW b, NEW d
  PROVE  Do(s, iAdd(op, a, b, d)) = Put(s, a, s.r[b] + s.r[d])
<1>1. Val(s, R(b)) = s.r[b] /\ Val(s, R(d)) = s.r[d]
  BY OperandValues
<1>2. op \in {"ADD", "ADD_N", "ADDI", "ADDI_N"}
  OBVIOUS
<1>3. Do(s, Ins(op, <<R(a), R(b), R(d)>>)) = Put(s, a, Val(s, R(b)) + Val(s, R(d)))
  BY <1>2, DoAdd
<1> QED
  BY <1>1, <1>3 DEF iAdd

LEMMA DoAddImm ==
  ASSUME NEW s, NEW op \in {"ADDI", "ADDI_N"}, NEW a, NEW b, NEW v
  PROVE  Do(s, iAddImm(op, a, b, v)) = Put(s, a, s.r[b] + v)
<1>1. Val(s, R(b)) = s.r[b] /\ Val(s, Imm(v)) = v
  BY OperandValues
<1>2. op \in {"ADD", "ADD_N", "ADDI", "ADDI_N"}
  OBVIOUS
<1>3. Do(s, Ins(op, <<R(a), R(b), Imm(v)>>)) = Put(s, a, Val(s, R(b)) + Val(s, Imm(v)))
  BY <1>2, DoAdd
<1> QED
  BY <1>1, <1>3 DEF iAddImm

LEMMA DoAddFI ==
  ASSUME NEW s, NEW op \in {"ADDI", "ADDI_N"}, NEW a, NEW v
  PROVE  Do(s, iAddFI(op, a, v)) = Put(s, a, (FrameValue + s.object) + v)
<1>1. Val(s, FI) = FrameValue + s.object /\ Val(s, Imm(v)) = v
  BY OperandValues
<1>2. op \in {"ADD", "ADD_N", "ADDI", "ADDI_N"}
  OBVIOUS
<1>3. Do(s, Ins(op, <<R(a), FI, Imm(v)>>)) = Put(s, a, Val(s, FI) + Val(s, Imm(v)))
  BY <1>2, DoAdd
<1> QED
  BY <1>1, <1>3 DEF iAddFI

LEMMA DoMoveImm ==
  ASSUME NEW s, NEW op \in {"MOVI", "MOVI_N", "LI"}, NEW a, NEW v
  PROVE  Do(s, iMove(op, a, v)) = Put(s, a, v)
<1>1. Do(s, Ins(op, <<R(a), Imm(v)>>)) = Put(s, a, Val(s, Imm(v)))
  BY DoMove
<1> QED
  BY <1>1, OperandValues DEF iMove

LEMMA DoLiteral ==
  ASSUME NEW s, s.text = FALSE, NEW a, NEW v
  PROVE  Do(s, iLA(a, v)) = Put(s, a, v) /\ Do(s, iLAExpr(a, v)) = Put(s, a, v)
<1>1. /\ Do(s, Ins("LA", <<R(a), Sym(v)>>)) = Put(s, a, Val(s, Sym(v)))
      /\ Do(s, Ins("LA", <<R(a), Expr(v)>>)) = Put(s, a, Val(s, Expr(v)))
  BY DoLA
<1> QED
  BY <1>1, OperandValues DEF iLA, iLAExpr

(* What the pool holds at a.                                               *)
Constant(a) == CHOOSE c \in PoolEntry(a) : TRUE

LEMMA AccessEffect ==
  ASSUME NEW s, NEW op, NEW a, NEW base, NEW off, base.k # "imm", off.k = "imm"
  PROVE  DoAccess(s, op, a, base, off) =
           IF op \in LoadOps /\ PoolEntry(Val(s, base) + Val(s, off)) # {}
           THEN Put(s, a, Constant(Val(s, base) + Val(s, off)))
           ELSE Noted(s, op, Val(s, base) + Val(s, off))
  BY DEF DoAccess, Constant, Noted

LEMMA ConstantIs ==
  ASSUME NEW a, PoolEntry(a) # {}
  PROVE  Constant(a) \in Offsets /\ PoolAddr(Constant(a)) = a /\ Constant(a) \in Int
  BY ISelAssumption DEF Constant, PoolEntry

(* A load into register a, or a store, at address at.                      *)
Accessed(s, op, a, at) ==
  IF op \in LoadOps /\ PoolEntry(at) # {} THEN Put(s, a, Constant(at)) ELSE Noted(s, op, at)

LEMMA DoMem ==
  ASSUME NEW s, s.text = FALSE, NEW op \in Accessing, NEW a, NEW v, NEW b
  PROVE  Do(s, iMem(op, a, v, b)) = Accessed(s, op, a, s.r[b] + v)
<1>1. Do(s, iMem(op, a, v, b)) = DoAccess(s, op, a, R(b), Imm(v))
  BY DoMemory DEF iMem
<1>2. DoAccess(s, op, a, R(b), Imm(v)) = Accessed(s, op, a, Val(s, R(b)) + Val(s, Imm(v)))
  <2>1. R(b).k # "imm" /\ Imm(v).k = "imm"
    BY Operands
  <2> QED
    BY <2>1, AccessEffect DEF Accessed
<1>3. Val(s, R(b)) = s.r[b] /\ Val(s, Imm(v)) = v
  BY OperandValues
<1> QED
  BY <1>1, <1>2, <1>3

LEMMA DoMemFI ==
  ASSUME NEW s, s.text = FALSE, NEW op \in Accessing, NEW a, NEW v
  PROVE  Do(s, iMemFI(op, a, v)) = Accessed(s, op, a, (FrameValue + s.object) + v)
<1>1. Do(s, iMemFI(op, a, v)) = DoAccess(s, op, a, FI, Imm(v))
  BY DoMemory DEF iMemFI
<1>2. DoAccess(s, op, a, FI, Imm(v)) = Accessed(s, op, a, Val(s, FI) + Val(s, Imm(v)))
  <2>1. FI.k # "imm" /\ Imm(v).k = "imm"
    BY Operands
  <2> QED
    BY <2>1, AccessEffect DEF Accessed
<1>3. Val(s, FI) = (FrameValue + s.object) /\ Val(s, Imm(v)) = v
  BY OperandValues
<1> QED
  BY <1>1, <1>2, <1>3

(* A symbol in the place of the base is worth its address.                 *)
AddOps == {"ADD", "ADD_N", "ADDI", "ADDI_N"}

LEMMA DoAddSym ==
  ASSUME NEW s, NEW op \in AddOps, NEW a, NEW v, NEW z
  PROVE  /\ Do(s, iAddTo(op, a, Sym(v), z)) = Put(s, a, v + Val(s, z))
         /\ Do(s, iAddTo(op, a, Expr(v), z)) = Put(s, a, v + Val(s, z))
<1>1. op \in {"ADD", "ADD_N", "ADDI", "ADDI_N"}
  BY DEF AddOps
<1>2. /\ Do(s, Ins(op, <<R(a), Sym(v), z>>)) = Put(s, a, Val(s, Sym(v)) + Val(s, z))
      /\ Do(s, Ins(op, <<R(a), Expr(v), z>>)) = Put(s, a, Val(s, Expr(v)) + Val(s, z))
  BY <1>1, DoAdd
<1> QED
  BY <1>2, OperandValues DEF iAddTo

LEMMA DoMemAt ==
  ASSUME NEW s, s.text = FALSE, NEW op \in Accessing, NEW a, NEW v, NEW y, y.k # "imm"
  PROVE  Do(s, iMemAt(op, a, v, y)) = Accessed(s, op, a, Val(s, y) + v)
<1>1. Do(s, iMemAt(op, a, v, y)) = DoAccess(s, op, a, y, Imm(v))
  BY DoMemory DEF iMemAt
<1>2. DoAccess(s, op, a, y, Imm(v)) = Accessed(s, op, a, Val(s, y) + Val(s, Imm(v)))
  <2>1. Imm(v).k = "imm"
    BY Operands
  <2> QED
    BY <2>1, AccessEffect DEF Accessed
<1>3. Val(s, Imm(v)) = v
  BY OperandValues
<1> QED
  BY <1>1, <1>2, <1>3

LEMMA DoMemSym ==
  ASSUME NEW s, s.text = FALSE, NEW op \in Accessing, NEW a, NEW v, NEW w
  PROVE  /\ Do(s, iMemAt(op, a, v, Sym(w))) = Accessed(s, op, a, w + v)
         /\ Do(s, iMemAt(op, a, v, Expr(w))) = Accessed(s, op, a, w + v)
<1>1. Sym(w).k # "imm" /\ Expr(w).k # "imm"
  BY Operands
<1>2. Val(s, Sym(w)) = w /\ Val(s, Expr(w)) = w
  BY OperandValues
<1>3. Do(s, iMemAt(op, a, v, Sym(w))) = Accessed(s, op, a, Val(s, Sym(w)) + v)
  BY <1>1, DoMemAt
<1>4. Do(s, iMemAt(op, a, v, Expr(w))) = Accessed(s, op, a, Val(s, Expr(w)) + v)
  BY <1>1, DoMemAt
<1> QED
  BY <1>2, <1>3, <1>4

LEMMA DoText ==
  ASSUME NEW s, s.text = TRUE, NEW op \in Accessing, NEW a, NEW v, NEW b
  PROVE  Do(s, iText(op, a, b, v)) = Accessed(s, op, a, s.r[b] + v)
<1>1. Do(s, iText(op, a, b, v)) = DoAccess(s, op, a, R(b), Imm(v))
  BY DoMemory DEF iText
<1>2. DoAccess(s, op, a, R(b), Imm(v)) = Accessed(s, op, a, Val(s, R(b)) + Val(s, Imm(v)))
  <2>1. R(b).k # "imm" /\ Imm(v).k = "imm"
    BY Operands
  <2> QED
    BY <2>1, AccessEffect DEF Accessed
<1> QED
  BY <1>1, <1>2, OperandValues

--------------------------------------------------------------------------------
(***************************************************************************)
(* The instructions the hooks may meet, the registers they name in G.      *)
(***************************************************************************)
Adds(G)     == {iAdd(op, a, b, d) : op \in {"ADD", "ADD_N"}, a \in G, b \in G, d \in G}
AddImms(G)  == {iAddImm(op, a, b, v) : op \in {"ADDI", "ADDI_N"}, a \in G, b \in G, v \in Int}
AddFIs(G)   == {iAddFI(op, a, v) : op \in {"ADDI", "ADDI_N"}, a \in G, v \in Int}
Moves(G)    == {iMove(op, a, v) : op \in {"MOVI", "MOVI_N", "LI"}, a \in G, v \in Int}
Literals(G) == {iLA(a, v) : a \in G, v \in Int}
Mems(G)     == {iMem(op, a, v, b) : op \in Accessing, a \in G, v \in Int, b \in G}
MemFIs(G)   == {iMemFI(op, a, v) : op \in Accessing, a \in G, v \in Int}

(* What may be added to a symbol, and the symbols in the base's place.     *)
Seconds(G) == {R(d) : d \in G} \cup {Imm(v) : v \in Int}
SymAdds(G) == {iAddTo(op, a, Sym(v), z) : op \in AddOps, a \in G, v \in Int, z \in Seconds(G)}
SymMems(G) == {iMemAt(op, a, v, Sym(w)) : op \in Accessing, a \in G, v \in Int, w \in Int}

Plain(G) ==
  Adds(G) \cup AddImms(G) \cup Moves(G) \cup Literals(G) \cup Mems(G)
    \cup SymAdds(G) \cup SymMems(G)

Working    == {Result, Ptr, Second, Entry}   (* what selection names        *)
Selected   == Plain(Working) \cup AddFIs(Working) \cup MemFIs(Working)
Eliminated == Plain(Registers)

LEMMA SecondIs ==
  ASSUME NEW G, NEW z \in Seconds(G)
  PROVE  (\E d \in G : z = R(d)) \/ (\E v \in Int : z = Imm(v))
  BY DEF Seconds

(* Machines that agree on all but the scratch register.                    *)
Alike(o) ==
  {p \in States \X States :
     /\ p[1].text = FALSE /\ p[2].text = FALSE
     /\ p[1].object = o /\ p[2].object = o
     /\ p[1].acc = p[2].acc
     /\ p[1].r[FrameReg] = FrameValue /\ p[2].r[FrameReg] = FrameValue
     /\ \A x \in Registers \ {Scratch} : p[1].r[x] = p[2].r[x]}

AlikeStates(o, s, t) ==
  /\ s \in States /\ t \in States
  /\ s.text = FALSE /\ t.text = FALSE
  /\ s.object = o /\ t.object = o
  /\ s.acc = t.acc
  /\ s.r[FrameReg] = FrameValue /\ t.r[FrameReg] = FrameValue
  /\ \A x \in Registers \ {Scratch} : s.r[x] = t.r[x]

LEMMA AlikeIs ==
  ASSUME NEW o, NEW s, NEW t
  PROVE  <<s, t>> \in Alike(o) <=> AlikeStates(o, s, t)
  BY DEF Alike, AlikeStates

LEMMA NumberedRegisters ==
  /\ Registers = 0 .. 5
  /\ Result = 0 /\ Ptr = 1 /\ Second = 2 /\ Entry = 3 /\ FrameReg = 4 /\ Scratch = 5
  /\ Working = {0, 1, 2, 3}
  /\ Working \subseteq Registers \ {FrameReg, Scratch}
  BY DEF Registers, Result, Ptr, Second, Entry, FrameReg, Scratch, Working

LEMMA AlikePut ==
  ASSUME NEW o, NEW s, NEW t, AlikeStates(o, s, t), NEW x \in Registers \ {FrameReg},
         NEW v \in Int
  PROVE  AlikeStates(o, Put(s, x, v), Put(t, x, v))
<1>1. s \in States /\ t \in States /\ x \in Registers
  BY DEF AlikeStates
<1>2. /\ \A y \in Registers \ {Scratch} : Put(s, x, v).r[y] = Put(t, x, v).r[y]
      /\ Put(s, x, v).r[FrameReg] = FrameValue /\ Put(t, x, v).r[FrameReg] = FrameValue
  <2>1. \A y \in Registers \ {Scratch} : s.r[y] = t.r[y]
    BY DEF AlikeStates
  <2>2. /\ Put(s, x, v).r[x] = v
        /\ \A y \in Registers : y # x => Put(s, x, v).r[y] = s.r[y]
    BY <1>1, PutIs
  <2>5. /\ Put(t, x, v).r[x] = v
        /\ \A y \in Registers : y # x => Put(t, x, v).r[y] = t.r[y]
    BY <1>1, PutIs
  <2>3. FrameReg \in Registers /\ FrameReg # x
    BY NumberedRegisters
  <2>4. s.r[FrameReg] = FrameValue /\ t.r[FrameReg] = FrameValue
    BY DEF AlikeStates
  <2> QED
    BY <2>1, <2>2, <2>3, <2>4, <2>5
<1>3. /\ Put(s, x, v) \in States /\ Put(s, x, v).acc = s.acc
      /\ Put(s, x, v).object = s.object /\ Put(s, x, v).text = s.text
  BY <1>1, PutIs
<1>4. /\ Put(t, x, v) \in States /\ Put(t, x, v).acc = t.acc
      /\ Put(t, x, v).object = t.object /\ Put(t, x, v).text = t.text
  BY <1>1, PutIs
<1> QED
  BY <1>2, <1>3, <1>4 DEF AlikeStates

LEMMA AlikeScratch ==
  ASSUME NEW o, NEW s, NEW t, AlikeStates(o, s, t), NEW v \in Int
  PROVE  /\ AlikeStates(o, s, Put(t, Scratch, v))
         /\ Put(t, Scratch, v).r[Scratch] = v
<1>1. t \in States /\ Scratch \in Registers /\ FrameReg \in Registers /\ FrameReg # Scratch
  BY NumberedRegisters DEF AlikeStates
<1>2. /\ Put(t, Scratch, v).r[FrameReg] = t.r[FrameReg]
      /\ \A y \in Registers \ {Scratch} : Put(t, Scratch, v).r[y] = t.r[y]
  BY <1>1, PutIs
<1>3. /\ Put(t, Scratch, v) \in States /\ Put(t, Scratch, v).acc = t.acc
      /\ Put(t, Scratch, v).object = t.object /\ Put(t, Scratch, v).text = t.text
      /\ Put(t, Scratch, v).r[Scratch] = v
  BY <1>1, PutIs
<1> QED
  BY <1>2, <1>3 DEF AlikeStates

LEMMA AlikeAccess ==
  ASSUME NEW o, NEW s, NEW t, AlikeStates(o, s, t), NEW a \in Registers \ {FrameReg},
         NEW op \in Accessing, NEW at \in Int
  PROVE  AlikeStates(o, Accessed(s, op, a, at), Accessed(t, op, a, at))
<1>1. CASE op \in LoadOps /\ PoolEntry(at) # {}
  <2>1. /\ Accessed(s, op, a, at) = Put(s, a, Constant(at))
        /\ Accessed(t, op, a, at) = Put(t, a, Constant(at))
    BY <1>1 DEF Accessed
  <2>2. Constant(at) \in Int
    BY <1>1, ConstantIs
  <2> QED
    BY <2>1, <2>2, AlikePut
<1>2. CASE ~(op \in LoadOps /\ PoolEntry(at) # {})
  <2>1. /\ Accessed(s, op, a, at) = Noted(s, op, at)
        /\ Accessed(t, op, a, at) = Noted(t, op, at)
    BY <1>2 DEF Accessed
  <2>2. s \in States /\ t \in States
    BY DEF AlikeStates
  <2>3. /\ Noted(s, op, at) \in States /\ Noted(s, op, at).r = s.r
        /\ Noted(s, op, at).acc = Append(s.acc, Access(op, at))
        /\ Noted(s, op, at).object = s.object /\ Noted(s, op, at).text = s.text
    BY <2>2, NotedIs
  <2>4. /\ Noted(t, op, at) \in States /\ Noted(t, op, at).r = t.r
        /\ Noted(t, op, at).acc = Append(t.acc, Access(op, at))
        /\ Noted(t, op, at).object = t.object /\ Noted(t, op, at).text = t.text
    BY <2>2, NotedIs
  <2>5. AlikeStates(o, Noted(s, op, at), Noted(t, op, at))
    BY <2>3, <2>4 DEF AlikeStates
  <2> QED
    BY <2>1, <2>5
<1> QED
  BY <1>1, <1>2

(* An instruction without a frame index keeps alike machines alike.        *)
LEMMA AlikeDo ==
  ASSUME NEW o, NEW s, NEW t, AlikeStates(o, s, t), NEW i \in Plain(Working)
  PROVE  AlikeStates(o, Do(s, i), Do(t, i))
<1>0. /\ \A x \in Working : s.r[x] = t.r[x] /\ s.r[x] \in Int
      /\ \A x \in Working : x \in Registers \ {FrameReg}
      /\ s.text = FALSE /\ t.text = FALSE
  BY NumberedRegisters, StateIsMk DEF AlikeStates
<1>1. CASE i \in Adds(Working)
  <2>1. PICK op \in {"ADD", "ADD_N"}, a \in Working, b \in Working, d \in Working :
          i = iAdd(op, a, b, d)
    BY <1>1 DEF Adds
  <2>2. Do(s, i) = Put(s, a, s.r[b] + s.r[d]) /\ Do(t, i) = Put(t, a, t.r[b] + t.r[d])
    BY <2>1, DoAddReg
  <2>3. s.r[b] = t.r[b] /\ s.r[d] = t.r[d] /\ s.r[b] + s.r[d] \in Int
    BY <1>0
  <2> QED
    BY <1>0, <2>2, <2>3, AlikePut
<1>2. CASE i \in AddImms(Working)
  <2>1. PICK op \in {"ADDI", "ADDI_N"}, a \in Working, b \in Working, v \in Int :
          i = iAddImm(op, a, b, v)
    BY <1>2 DEF AddImms
  <2>2. Do(s, i) = Put(s, a, s.r[b] + v) /\ Do(t, i) = Put(t, a, t.r[b] + v)
    BY <2>1, DoAddImm
  <2>3. s.r[b] = t.r[b] /\ s.r[b] + v \in Int
    BY <1>0
  <2> QED
    BY <1>0, <2>2, <2>3, AlikePut
<1>3. CASE i \in Moves(Working)
  <2>1. PICK op \in {"MOVI", "MOVI_N", "LI"}, a \in Working, v \in Int : i = iMove(op, a, v)
    BY <1>3 DEF Moves
  <2>2. Do(s, i) = Put(s, a, v) /\ Do(t, i) = Put(t, a, v)
    BY <2>1, DoMoveImm
  <2> QED
    BY <1>0, <2>2, AlikePut
<1>4. CASE i \in Literals(Working)
  <2>1. PICK a \in Working, v \in Int : i = iLA(a, v)
    BY <1>4 DEF Literals
  <2>2. Do(s, i) = Put(s, a, v) /\ Do(t, i) = Put(t, a, v)
    BY <1>0, <2>1, DoLiteral
  <2> QED
    BY <1>0, <2>2, AlikePut
<1>5. CASE i \in Mems(Working)
  <2>1. PICK op \in Accessing, a \in Working, v \in Int, b \in Working :
          i = iMem(op, a, v, b)
    BY <1>5 DEF Mems
  <2>4. s.text = FALSE /\ t.text = FALSE
    BY <1>0
  <2>5. Do(s, i) = Accessed(s, op, a, s.r[b] + v)
    BY <2>1, <2>4, DoMem
  <2>2. Do(t, i) = Accessed(t, op, a, t.r[b] + v)
    BY <2>1, <2>4, DoMem
  <2>3. s.r[b] = t.r[b] /\ s.r[b] + v \in Int
    BY <1>0
  <2> QED
    BY <1>0, <2>2, <2>3, <2>5, AlikeAccess
<1>6. CASE i \in SymAdds(Working)
  <2>1. PICK op \in AddOps, a \in Working, v \in Int, z \in Seconds(Working) :
          i = iAddTo(op, a, Sym(v), z)
    BY <1>6 DEF SymAdds
  <2>2. Do(s, i) = Put(s, a, v + Val(s, z)) /\ Do(t, i) = Put(t, a, v + Val(t, z))
    BY <2>1, DoAddSym
  <2>3. Val(s, z) = Val(t, z) /\ Val(s, z) \in Int
    BY <1>0, SecondIs, OperandValues
  <2>4. v + Val(s, z) \in Int
    BY <2>3
  <2> QED
    BY <1>0, <2>2, <2>3, <2>4, AlikePut
<1>7. CASE i \in SymMems(Working)
  <2>1. PICK op \in Accessing, a \in Working, v \in Int, w \in Int :
          i = iMemAt(op, a, v, Sym(w))
    BY <1>7 DEF SymMems
  <2>2. s.text = FALSE /\ t.text = FALSE
    BY <1>0
  <2>3. Do(s, i) = Accessed(s, op, a, w + v)
    BY <2>1, <2>2, DoMemSym
  <2>4. Do(t, i) = Accessed(t, op, a, w + v)
    BY <2>1, <2>2, DoMemSym
  <2>5. w + v \in Int
    OBVIOUS
  <2> QED
    BY <1>0, <2>3, <2>4, <2>5, AlikeAccess
<1> QED
  BY <1>1, <1>2, <1>3, <1>4, <1>5, <1>6, <1>7 DEF Plain

--------------------------------------------------------------------------------
(***************************************************************************)
(* Frame indices.                                                          *)
(***************************************************************************)
Indexes(i) == \E p \in DOMAIN i.ops : i.ops[p] = FI

LEMMA OperandsDiffer ==
  ASSUME NEW x
  PROVE  R(x) # FI /\ Imm(x) # FI /\ Sym(x) # FI /\ Expr(x) # FI
  BY DEF R, Imm, Sym, Expr, FI

LEMMA InsIs ==
  ASSUME NEW op, NEW ops
  PROVE  Ins(op, ops).op = op /\ Ins(op, ops).ops = ops
  BY DEF Ins

LEMMA NoIndex ==
  ASSUME NEW G, NEW i \in Plain(G)
  PROVE  ~Indexes(i)
<1>1. ASSUME NEW x, NEW y, NEW z, x # FI, y # FI, z # FI, NEW op
      PROVE  ~Indexes(Ins(op, <<x, y, z>>))
  BY <1>1, InsIs DEF Indexes
<1>2. ASSUME NEW x, NEW y, x # FI, y # FI, NEW op
      PROVE  ~Indexes(Ins(op, <<x, y>>))
  BY <1>2, InsIs DEF Indexes
<1>3. ASSUME NEW op, NEW a, NEW b, NEW d, NEW v
      PROVE  /\ ~Indexes(iAdd(op, a, b, d)) /\ ~Indexes(iAddImm(op, a, b, v))
             /\ ~Indexes(iMem(op, a, v, b))
  <2>1. R(a) # FI /\ R(b) # FI /\ R(d) # FI /\ Imm(v) # FI
    BY OperandsDiffer
  <2> QED
    BY <1>1, <2>1 DEF iAdd, iAddImm, iMem
<1>4. ASSUME NEW op, NEW a, NEW v
      PROVE  ~Indexes(iMove(op, a, v)) /\ ~Indexes(iLA(a, v))
  <2>1. R(a) # FI /\ Imm(v) # FI /\ Sym(v) # FI
    BY OperandsDiffer
  <2> QED
    BY <1>2, <2>1 DEF iMove, iLA
<1>5. CASE i \in Adds(G)
  BY <1>3, <1>5 DEF Adds
<1>6. CASE i \in AddImms(G)
  BY <1>3, <1>6 DEF AddImms
<1>7. CASE i \in Mems(G)
  BY <1>3, <1>7 DEF Mems
<1>8. CASE i \in Moves(G)
  BY <1>4, <1>8 DEF Moves
<1>9. CASE i \in Literals(G)
  BY <1>4, <1>9 DEF Literals
<1>10. ASSUME NEW op, NEW a, NEW v, NEW w
       PROVE  /\ \A z \in Seconds(G) : ~Indexes(iAddTo(op, a, Sym(v), z))
              /\ ~Indexes(iMemAt(op, a, v, Sym(w)))
  <2>1. R(a) # FI /\ Imm(v) # FI /\ Sym(v) # FI /\ Sym(w) # FI
    BY OperandsDiffer
  <2>2. \A z \in Seconds(G) : z # FI
    BY OperandsDiffer, SecondIs
  <2> QED
    BY <1>1, <2>1, <2>2 DEF iAddTo, iMemAt
<1>11. CASE i \in SymAdds(G)
  <2>1. PICK op \in AddOps, a \in G, v \in Int, z \in Seconds(G) : i = iAddTo(op, a, Sym(v), z)
    BY <1>11 DEF SymAdds
  <2> QED
    BY <1>10, <2>1
<1>12. CASE i \in SymMems(G)
  BY <1>10, <1>12 DEF SymMems
<1> QED
  BY <1>5, <1>6, <1>7, <1>8, <1>9, <1>11, <1>12 DEF Plain

LEMMA EliminateNone ==
  ASSUME NEW o, NEW i, ~Indexes(i)
  PROVE  eliminateFI(o, i) = <<i>>
<1>1. \A p \in DOMAIN i.ops : i.ops[p] # FI
  BY DEF Indexes
<1> QED
  BY <1>1 DEF eliminateFI

LEMMA OperandsReplaced ==
  ASSUME NEW x, NEW y, NEW z, NEW u, NEW w
  PROVE  /\ [<<x, y, z>> EXCEPT ![2] = u, ![3] = w] = <<x, u, w>>
         /\ [<<x, y, z>> EXCEPT ![3] = u, ![2] = w] = <<x, w, u>>
  OBVIOUS

LEMMA EliminateAdd ==
  ASSUME NEW o \in Int, NEW op \in {"ADDI", "ADDI_N"}, NEW a, NEW v \in Int
  PROVE  eliminateFI(o, iAddFI(op, a, v)) =
           IF isInt12(o + v) THEN <<iAddImm(op, a, FrameReg, o + v)>>
           ELSE <<iMove("LI", Scratch, o + v), iAdd("ADD", Scratch, FrameReg, Scratch),
                  iAddImm(op, a, Scratch, 0)>>
<1> DEFINE i == iAddFI(op, a, v)
           q == <<R(a), FI, Imm(v)>>
<1>1. i.op = op /\ i.ops = q
  BY InsIs DEF iAddFI
<1>2. DOMAIN q = 1 .. 3 /\ q[1] = R(a) /\ q[2] = FI /\ q[3] = Imm(v)
  OBVIOUS
<1>3. ASSUME NEW u, NEW w PROVE [q EXCEPT ![2] = u, ![3] = w] = <<R(a), u, w>>
  BY OperandsReplaced
<1> HIDE DEF i, q
<1>4. \A p \in 1 .. 3 : q[p] = FI <=> p = 2
  BY <1>2, OperandsDiffer
<1>5. FIOperand(i) = 2
  BY <1>1, <1>2, <1>4 DEF FIOperand
<1>6. ~mayLoadOrStore(i.op) /\ 2 + 1 = 3
  BY <1>1 DEF mayLoadOrStore, LoadOps, StoreOps
<1>7. i.ops[3].v = v
  BY <1>1, <1>2, Operands
<1>8. ~ \A p \in DOMAIN i.ops : i.ops[p] # FI
  BY <1>1, <1>2, <1>4
<1>9. ASSUME NEW reg, NEW imm
      PROVE  Ins(i.op, [i.ops EXCEPT ![2] = R(reg), ![3] = Imm(imm)])
               = iAddImm(op, a, reg, imm)
  BY <1>1, <1>3 DEF iAddImm
<1>10. eliminateFI(o, i) =
         IF isInt12(o + v) THEN <<iAddImm(op, a, FrameReg, o + v)>>
         ELSE <<iMove("LI", Scratch, o + v), iAdd("ADD", Scratch, FrameReg, Scratch),
                iAddImm(op, a, Scratch, 0)>>
  BY <1>5, <1>6, <1>7, <1>8, <1>9 DEF eliminateFI, iMove, iAdd
<1> QED
  BY <1>10 DEF i

LEMMA EliminateMemory ==
  ASSUME NEW o \in Int, NEW op \in Accessing, NEW a, NEW v \in Int
  PROVE  eliminateFI(o, iMemFI(op, a, v)) =
           IF isInt12(o + v) THEN <<iMem(op, a, o + v, FrameReg)>>
           ELSE <<iMove("LI", Scratch, o + v), iAdd("ADD", Scratch, FrameReg, Scratch),
                  iMem(op, a, 0, Scratch)>>
<1> DEFINE i == iMemFI(op, a, v)
           q == <<R(a), Imm(v), FI>>
<1>1. i.op = op /\ i.ops = q
  BY InsIs DEF iMemFI
<1>2. DOMAIN q = 1 .. 3 /\ q[1] = R(a) /\ q[2] = Imm(v) /\ q[3] = FI
  OBVIOUS
<1>3. ASSUME NEW u, NEW w PROVE [q EXCEPT ![3] = u, ![2] = w] = <<R(a), w, u>>
  BY OperandsReplaced
<1> HIDE DEF i, q
<1>4. \A p \in 1 .. 3 : q[p] = FI <=> p = 3
  BY <1>2, OperandsDiffer
<1>5. FIOperand(i) = 3
  BY <1>1, <1>2, <1>4 DEF FIOperand
<1>6. mayLoadOrStore(i.op) /\ 3 - 1 = 2
  BY <1>1 DEF mayLoadOrStore, Accessing
<1>7. i.ops[2].v = v
  BY <1>1, <1>2, Operands
<1>8. ~ \A p \in DOMAIN i.ops : i.ops[p] # FI
  BY <1>1, <1>2, <1>4
<1>9. ASSUME NEW reg, NEW imm
      PROVE  Ins(i.op, [i.ops EXCEPT ![3] = R(reg), ![2] = Imm(imm)])
               = iMem(op, a, imm, reg)
  BY <1>1, <1>3 DEF iMem
<1>10. eliminateFI(o, i) =
         IF isInt12(o + v) THEN <<iMem(op, a, o + v, FrameReg)>>
         ELSE <<iMove("LI", Scratch, o + v), iAdd("ADD", Scratch, FrameReg, Scratch),
                iMem(op, a, 0, Scratch)>>
  BY <1>5, <1>6, <1>7, <1>8, <1>9 DEF eliminateFI, iMove, iAdd
<1> QED
  BY <1>10 DEF i

LEMMA RunThree ==
  ASSUME NEW s, NEW i, NEW j, NEW k
  PROVE  Run(s, <<i, j, k>>) = Do(Do(Do(s, i), j), k)
<1> DEFINE c == <<i, j, k>>
<1>1. Len(c) = 3 /\ c[1] = i /\ c[2] = j /\ c[3] = k
  OBVIOUS
<1> HIDE DEF c
<1>2. PICK g : Recorded(s, c, g, 3) /\ Run(s, c) = g[3]
  <2>1. Len(c) \in Nat
    BY <1>1
  <2>2. PICK g : Recorded(s, c, g, Len(c)) /\ Run(s, c) = g[Len(c)]
    BY <2>1, RunRecorded
  <2> QED
    BY <1>1, <2>2
<1>3. \A n \in 0 .. 3 : g[n] = Moment(s, c, g, n)
  BY <1>2 DEF Recorded
<1>4. g[0] = s /\ g[1] = Do(g[0], i) /\ g[2] = Do(g[1], j) /\ g[3] = Do(g[2], k)
  BY <1>1, <1>3 DEF Moment
<1> QED
  BY <1>2, <1>4 DEF c

(* The two instructions put the address into the scratch register.         *)
LEMMA Materialized ==
  ASSUME NEW o, NEW s, NEW t, AlikeStates(o, s, t), NEW at \in Int
  PROVE  LET u == Do(Do(t, iMove("LI", Scratch, at)), iAdd("ADD", Scratch, FrameReg, Scratch))
         IN  AlikeStates(o, s, u) /\ u.r[Scratch] = FrameValue + at
<1> DEFINE w == Put(t, Scratch, at)
           u == Do(w, iAdd("ADD", Scratch, FrameReg, Scratch))
<1>1. Do(t, iMove("LI", Scratch, at)) = w
  BY DoMoveImm
<1>2. AlikeStates(o, s, w) /\ w.r[Scratch] = at
  BY AlikeScratch
<1> HIDE DEF w
<1>3. u = Put(w, Scratch, w.r[FrameReg] + w.r[Scratch])
  BY DoAddReg
<1>4. w.r[FrameReg] = FrameValue /\ FrameValue + at \in Int
  BY <1>2, LayoutAssumption DEF AlikeStates
<1> HIDE DEF u
<1>5. u = Put(w, Scratch, FrameValue + at)
  BY <1>2, <1>3, <1>4
<1> DEFINE sum == FrameValue + at
<1>6. sum \in Int /\ u = Put(w, Scratch, sum)
  BY <1>4, <1>5
<1> HIDE DEF sum
<1>7. AlikeStates(o, s, u) /\ u.r[Scratch] = sum
  BY <1>2, <1>6, AlikeScratch
<1> QED
  BY <1>1, <1>7 DEF u, sum

LEMMA EliminatedCode ==
  ASSUME NEW a \in Registers, NEW b \in Registers, NEW d \in Registers, NEW v \in Int
  PROVE  /\ \A op \in {"ADD", "ADD_N"} : iAdd(op, a, b, d) \in Eliminated
         /\ \A op \in {"ADDI", "ADDI_N"} : iAddImm(op, a, b, v) \in Eliminated
         /\ \A op \in {"MOVI", "MOVI_N", "LI"} : iMove(op, a, v) \in Eliminated
         /\ \A op \in Accessing : iMem(op, a, v, b) \in Eliminated
  BY DEF Adds, AddImms, Moves, Mems, Eliminated, Plain

LEMMA PlainGrows ==
  ASSUME NEW i \in Plain(Working)
  PROVE  i \in Eliminated
<1>1. \A a \in Working : a \in Registers
  BY NumberedRegisters
<1> HIDE DEF Registers
<1>2. Seconds(Working) \subseteq Seconds(Registers)
  BY <1>1 DEF Seconds
<1>3. CASE i \in SymAdds(Working)
  BY <1>1, <1>2, <1>3 DEF SymAdds, Eliminated, Plain
<1>4. CASE i \in SymMems(Working)
  BY <1>1, <1>4 DEF SymMems, Eliminated, Plain
<1>5. CASE i \notin SymAdds(Working) \cup SymMems(Working)
  BY <1>1, <1>5 DEF Adds, AddImms, Moves, Literals, Mems, Eliminated, Plain
<1> QED
  BY <1>3, <1>4, <1>5

(* eliminateFrameIndex keeps what an instruction does, up to the scratch   *)
(* register, on either side of the boundary of the immediate.              *)
LEMMA EliminateDo ==
  ASSUME NEW o \in Int, NEW s, NEW t, AlikeStates(o, s, t), NEW i \in Selected
  PROVE  /\ eliminateFI(o, i) \in Seq(Eliminated)
         /\ AlikeStates(o, Do(s, i), Run(t, eliminateFI(o, i)))
<1>0. /\ s.text = FALSE /\ t.text = FALSE
      /\ s.object = o /\ t.r[FrameReg] = FrameValue /\ FrameValue \in Int
      /\ FrameReg \in Registers /\ Scratch \in Registers
      /\ \A x \in Working : x \in Registers \ {FrameReg}
  BY NumberedRegisters, LayoutAssumption DEF AlikeStates
<1>1. CASE i \in Plain(Working)
  <2>1. eliminateFI(o, i) = <<i>>
    BY <1>1, NoIndex, EliminateNone
  <2>2. i \in Eliminated
    BY <1>1, PlainGrows
  <2>3. <<i>> \in Seq(Eliminated)
    BY <2>2
  <2> QED
    BY <1>1, <2>1, <2>3, RunOne, AlikeDo
<1>2. CASE i \in AddFIs(Working)
  <2>1. PICK op \in {"ADDI", "ADDI_N"}, a \in Working, v \in Int : i = iAddFI(op, a, v)
    BY <1>2 DEF AddFIs
  <2> DEFINE sum == FrameValue + (o + v)
  <2>2. /\ a \in Registers \ {FrameReg} /\ o + v \in Int /\ 0 \in Int /\ sum \in Int
        /\ (FrameValue + o) + v = sum /\ sum + 0 = sum
    BY <1>0
  <2>3. Do(s, i) = Put(s, a, sum)
    <3>1. Do(s, i) = Put(s, a, (FrameValue + s.object) + v)
      BY <1>0, <2>1, DoAddFI
    <3> QED
      BY <1>0, <2>2, <3>1
  <2>4. CASE isInt12(o + v)
    <3> DEFINE j == iAddImm(op, a, FrameReg, o + v)
    <3>1. eliminateFI(o, i) = <<j>>
      BY <2>1, <2>4, EliminateAdd
    <3>2. Do(t, j) = Put(t, a, sum)
      <4>1. Do(t, j) = Put(t, a, t.r[FrameReg] + (o + v))
        BY <1>0, DoAddImm
      <4> QED
        BY <1>0, <4>1
    <3>3. j \in Eliminated
      BY <1>0, <2>2, EliminatedCode
    <3> HIDE DEF j, sum
    <3>4. <<j>> \in Seq(Eliminated)
      BY <3>3
    <3>5. AlikeStates(o, Do(s, i), Do(t, j))
      BY <2>2, <2>3, <3>2, AlikePut
    <3> QED
      BY <3>1, <3>4, <3>5, RunOne
  <2>5. CASE ~isInt12(o + v)
    <3> DEFINE j == iMove("LI", Scratch, o + v)
               k == iAdd("ADD", Scratch, FrameReg, Scratch)
               l == iAddImm(op, a, Scratch, 0)
               u == Do(Do(t, j), k)
    <3>1. eliminateFI(o, i) = <<j, k, l>>
      BY <2>1, <2>5, EliminateAdd
    <3>2. AlikeStates(o, s, u) /\ u.r[Scratch] = sum
      BY <2>2, Materialized
    <3>3. j \in Eliminated /\ k \in Eliminated /\ l \in Eliminated
      BY <1>0, <2>2, EliminatedCode
    <3>4. Run(t, <<j, k, l>>) = Do(u, l)
      BY RunThree
    <3> HIDE DEF j, k, u
    <3>5. Do(u, l) = Put(u, a, sum)
      <4>1. u.text = FALSE
        BY <3>2 DEF AlikeStates
      <4>2. Do(u, l) = Put(u, a, u.r[Scratch] + 0)
        BY <4>1, DoAddImm
      <4> QED
        BY <2>2, <3>2, <4>2
    <3> HIDE DEF l, sum
    <3>6. <<j, k, l>> \in Seq(Eliminated)
      BY <3>3
    <3>7. AlikeStates(o, Do(s, i), Do(u, l))
      BY <2>2, <2>3, <3>2, <3>5, AlikePut
    <3> QED
      BY <3>1, <3>4, <3>6, <3>7
  <2> QED
    BY <2>4, <2>5
<1>3. CASE i \in MemFIs(Working)
  <2>1. PICK op \in Accessing, a \in Working, v \in Int : i = iMemFI(op, a, v)
    BY <1>3 DEF MemFIs
  <2> DEFINE sum == FrameValue + (o + v)
  <2>2. /\ a \in Registers \ {FrameReg} /\ o + v \in Int /\ 0 \in Int /\ sum \in Int
        /\ (FrameValue + o) + v = sum /\ sum + 0 = sum
    BY <1>0
  <2>3. Do(s, i) = Accessed(s, op, a, sum)
    <3>1. Do(s, i) = Accessed(s, op, a, (FrameValue + s.object) + v)
      BY <1>0, <2>1, DoMemFI
    <3> QED
      BY <1>0, <2>2, <3>1
  <2>4. CASE isInt12(o + v)
    <3> DEFINE j == iMem(op, a, o + v, FrameReg)
    <3>1. eliminateFI(o, i) = <<j>>
      BY <2>1, <2>4, EliminateMemory
    <3>2. Do(t, j) = Accessed(t, op, a, sum)
      <4>1. t.text = FALSE
        BY <1>0
      <4>2. Do(t, j) = Accessed(t, op, a, t.r[FrameReg] + (o + v))
        BY <4>1, DoMem
      <4> QED
        BY <1>0, <4>2
    <3>3. j \in Eliminated
      BY <1>0, <2>2, EliminatedCode
    <3> HIDE DEF j, sum
    <3>4. <<j>> \in Seq(Eliminated)
      BY <3>3
    <3>5. AlikeStates(o, Do(s, i), Do(t, j))
      BY <2>2, <2>3, <3>2, AlikeAccess
    <3> QED
      BY <3>1, <3>4, <3>5, RunOne
  <2>5. CASE ~isInt12(o + v)
    <3> DEFINE j == iMove("LI", Scratch, o + v)
               k == iAdd("ADD", Scratch, FrameReg, Scratch)
               l == iMem(op, a, 0, Scratch)
               u == Do(Do(t, j), k)
    <3>1. eliminateFI(o, i) = <<j, k, l>>
      BY <2>1, <2>5, EliminateMemory
    <3>2. AlikeStates(o, s, u) /\ u.r[Scratch] = sum
      BY <2>2, Materialized
    <3>3. j \in Eliminated /\ k \in Eliminated /\ l \in Eliminated
      BY <1>0, <2>2, EliminatedCode
    <3>4. Run(t, <<j, k, l>>) = Do(u, l)
      BY RunThree
    <3> HIDE DEF j, k, u
    <3>5. Do(u, l) = Accessed(u, op, a, sum)
      <4>1. u.text = FALSE
        BY <3>2 DEF AlikeStates
      <4>2. Do(u, l) = Accessed(u, op, a, u.r[Scratch] + 0)
        BY <4>1, DoMem
      <4> QED
        BY <2>2, <3>2, <4>2
    <3> HIDE DEF l, sum
    <3>6. <<j, k, l>> \in Seq(Eliminated)
      BY <3>3
    <3>7. AlikeStates(o, Do(s, i), Do(u, l))
      BY <2>2, <2>3, <3>2, <3>5, AlikeAccess
    <3> QED
      BY <3>1, <3>4, <3>6, <3>7
  <2> QED
    BY <2>4, <2>5
<1> QED
  BY <1>1, <1>2, <1>3 DEF Selected

ReplacedFI(o, c) == [j \in DOMAIN c |-> eliminateFI(o, c[j])]

LEMMA EliminateRun ==
  ASSUME NEW o \in Int, NEW s, NEW t, AlikeStates(o, s, t), NEW c \in Seq(Selected)
  PROVE  /\ FlattenSeq(ReplacedFI(o, c)) \in Seq(Eliminated)
         /\ AlikeStates(o, Run(s, c), Run(t, FlattenSeq(ReplacedFI(o, c))))
<1> DEFINE e == ReplacedFI(o, c)
<1>1. Len(c) \in Nat /\ DOMAIN c = 1 .. Len(c) /\ \A n \in 1 .. Len(c) : c[n] \in Selected
  BY LenProperties, ElementOfSeq
<1>2. \A n \in 1 .. Len(c) : e[n] = eliminateFI(o, c[n]) /\ e[n] \in Seq(Eliminated)
  BY <1>1, EliminateDo DEF ReplacedFI
<1>3. e \in [1 .. Len(c) -> Seq(Eliminated)]
  BY <1>1, <1>2 DEF ReplacedFI
<1> HIDE DEF e
<1>4. e \in Seq(Seq(Eliminated)) /\ Len(e) = Len(c)
  BY <1>1, <1>3
<1> DEFINE Q == Alike(o)
<1>5. <<s, t>> \in Q
  BY AlikeIs
<1>6. ASSUME NEW n \in 1 .. Len(c), NEW x, NEW y, <<x, y>> \in Q
      PROVE  <<Do(x, c[n]), Run(y, e[n])>> \in Q
  <2>1. AlikeStates(o, x, y)
    BY <1>6, AlikeIs
  <2>2. AlikeStates(o, Do(x, c[n]), Run(y, eliminateFI(o, c[n])))
    BY <1>1, <2>1, EliminateDo
  <2> QED
    BY <1>2, <2>2, AlikeIs
<1> HIDE DEF Q
<1>7. FlattenSeq(e) \in Seq(Eliminated) /\ <<Run(s, c), Run(t, FlattenSeq(e))>> \in Q
  BY <1>4, <1>5, <1>6, SimulateFlat
<1> QED
  BY <1>7, AlikeIs DEF e, Q

--------------------------------------------------------------------------------
(***************************************************************************)
(* MC lowering and printing.                                               *)
(***************************************************************************)
LoweredLiterals(G) == {iLAExpr(a, v) : a \in G, v \in Int}

ExprAdds(G) == {iAddTo(op, a, Expr(v), z) : op \in AddOps, a \in G, v \in Int, z \in Seconds(G)}
ExprMems(G) == {iMemAt(op, a, v, Expr(w)) : op \in Accessing, a \in G, v \in Int, w \in Int}

LoweredForms ==
  Adds(Registers) \cup AddImms(Registers) \cup Moves(Registers)
    \cup LoweredLiterals(Registers) \cup Mems(Registers)
    \cup ExprAdds(Registers) \cup ExprMems(Registers)

(* Machines in the same state, the second one reading text or not.         *)
Agree(text, s, t) ==
  /\ s \in States /\ t \in States
  /\ s.text = FALSE /\ t.text = text
  /\ s.object = t.object /\ s.acc = t.acc /\ s.r = t.r

Agreeing(text) == {p \in States \X States : Agree(text, p[1], p[2])}

LEMMA AgreeingIs ==
  ASSUME NEW text, NEW s, NEW t
  PROVE  <<s, t>> \in Agreeing(text) <=> Agree(text, s, t)
  BY DEF Agreeing, Agree

LEMMA AgreePut ==
  ASSUME NEW text, NEW s, NEW t, Agree(text, s, t), NEW x \in Registers, NEW v \in Int
  PROVE  Agree(text, Put(s, x, v), Put(t, x, v))
<1>1. s \in States /\ t \in States
  BY DEF Agree
<1>2. /\ Put(s, x, v) \in States /\ Put(s, x, v).acc = s.acc
      /\ Put(s, x, v).object = s.object /\ Put(s, x, v).text = s.text
  BY <1>1, PutIs
<1>3. /\ Put(t, x, v) \in States /\ Put(t, x, v).acc = t.acc
      /\ Put(t, x, v).object = t.object /\ Put(t, x, v).text = t.text
  BY <1>1, PutIs
<1>4. Put(s, x, v).r = Put(t, x, v).r
  <2>1. \A y \in Registers : Put(s, x, v).r[y] = IF y = x THEN v ELSE s.r[y]
    BY <1>1, PutIs
  <2>2. \A y \in Registers : Put(t, x, v).r[y] = IF y = x THEN v ELSE t.r[y]
    BY <1>1, PutIs
  <2>3. Put(s, x, v).r \in [Registers -> Int] /\ Put(t, x, v).r \in [Registers -> Int]
    BY <1>2, <1>3, StateIsMk
  <2>4. s.r = t.r
    BY DEF Agree
  <2> HIDE DEF Registers
  <2> QED
    BY <2>1, <2>2, <2>3, <2>4
<1> QED
  BY <1>2, <1>3, <1>4 DEF Agree

LEMMA AgreeAccess ==
  ASSUME NEW text, NEW s, NEW t, Agree(text, s, t), NEW a \in Registers,
         NEW op \in Accessing, NEW at \in Int
  PROVE  Agree(text, Accessed(s, op, a, at), Accessed(t, op, a, at))
<1>1. CASE op \in LoadOps /\ PoolEntry(at) # {}
  <2>1. /\ Accessed(s, op, a, at) = Put(s, a, Constant(at))
        /\ Accessed(t, op, a, at) = Put(t, a, Constant(at))
    BY <1>1 DEF Accessed
  <2>2. Constant(at) \in Int
    BY <1>1, ConstantIs
  <2> QED
    BY <2>1, <2>2, AgreePut
<1>2. CASE ~(op \in LoadOps /\ PoolEntry(at) # {})
  <2>1. /\ Accessed(s, op, a, at) = Noted(s, op, at)
        /\ Accessed(t, op, a, at) = Noted(t, op, at)
    BY <1>2 DEF Accessed
  <2>2. s \in States /\ t \in States
    BY DEF Agree
  <2>3. /\ Noted(s, op, at) \in States /\ Noted(s, op, at).r = s.r
        /\ Noted(s, op, at).acc = Append(s.acc, Access(op, at))
        /\ Noted(s, op, at).object = s.object /\ Noted(s, op, at).text = s.text
    BY <2>2, NotedIs
  <2>4. /\ Noted(t, op, at) \in States /\ Noted(t, op, at).r = t.r
        /\ Noted(t, op, at).acc = Append(t.acc, Access(op, at))
        /\ Noted(t, op, at).object = t.object /\ Noted(t, op, at).text = t.text
    BY <2>2, NotedIs
  <2>5. Agree(text, Noted(s, op, at), Noted(t, op, at))
    BY <2>3, <2>4 DEF Agree
  <2> QED
    BY <2>1, <2>5
<1> QED
  BY <1>1, <1>2

(* Sums and moves do not care who reads them.                              *)
LEMMA AgreeArithmetic ==
  ASSUME NEW text, NEW s, NEW t, Agree(text, s, t),
         NEW i \in Adds(Registers) \cup AddImms(Registers) \cup Moves(Registers)
  PROVE  Agree(text, Do(s, i), Do(t, i))
<1>0. s.r = t.r /\ \A x \in Registers : s.r[x] \in Int
  BY StateIsMk DEF Agree
<1> HIDE DEF Registers
<1>1. CASE i \in Adds(Registers)
  <2>1. PICK op \in {"ADD", "ADD_N"}, a \in Registers, b \in Registers, d \in Registers :
          i = iAdd(op, a, b, d)
    BY <1>1 DEF Adds
  <2>2. Do(s, i) = Put(s, a, s.r[b] + s.r[d]) /\ Do(t, i) = Put(t, a, t.r[b] + t.r[d])
    BY <2>1, DoAddReg
  <2>3. s.r[b] + s.r[d] \in Int
    BY <1>0
  <2> QED
    BY <1>0, <2>2, <2>3, AgreePut
<1>2. CASE i \in AddImms(Registers)
  <2>1. PICK op \in {"ADDI", "ADDI_N"}, a \in Registers, b \in Registers, v \in Int :
          i = iAddImm(op, a, b, v)
    BY <1>2 DEF AddImms
  <2>2. Do(s, i) = Put(s, a, s.r[b] + v) /\ Do(t, i) = Put(t, a, t.r[b] + v)
    BY <2>1, DoAddImm
  <2>3. s.r[b] + v \in Int
    BY <1>0
  <2> QED
    BY <1>0, <2>2, <2>3, AgreePut
<1>3. CASE i \in Moves(Registers)
  <2>1. PICK op \in {"MOVI", "MOVI_N", "LI"}, a \in Registers, v \in Int : i = iMove(op, a, v)
    BY <1>3 DEF Moves
  <2>2. Do(s, i) = Put(s, a, v) /\ Do(t, i) = Put(t, a, v)
    BY <2>1, DoMoveImm
  <2> QED
    BY <2>2, AgreePut
<1> QED
  BY <1>1, <1>2, <1>3

LEMMA LowerThree ==
  ASSUME NEW o, NEW x, NEW y, NEW z
  PROVE  lower(Ins(o, <<x, y, z>>)) = Ins(o, <<lowerOperand(x), lowerOperand(y), lowerOperand(z)>>)
<1> DEFINE q == <<x, y, z>>
<1>1. [p \in DOMAIN q |-> lowerOperand(q[p])]
        = <<lowerOperand(x), lowerOperand(y), lowerOperand(z)>>
  OBVIOUS
<1> HIDE DEF q
<1>2. Ins(o, q).op = o /\ Ins(o, q).ops = q
  BY InsIs
<1>3. lower(Ins(o, q)) = Ins(o, <<lowerOperand(x), lowerOperand(y), lowerOperand(z)>>)
  BY <1>1, <1>2 DEF lower
<1> QED
  BY <1>3 DEF q

LEMMA LowerOperands ==
  ASSUME NEW x
  PROVE  lowerOperand(R(x)) = R(x) /\ lowerOperand(Imm(x)) = Imm(x) /\ lowerOperand(Sym(x)) = Expr(x)
<1>1. lowerOperand(R(x)) = R(x) /\ lowerOperand(Imm(x)) = Imm(x)
  BY Operands DEF lowerOperand
<1>2. [Sym(x) EXCEPT !.k = "expr"] = Expr(x)
  BY DEF Sym, Expr
<1> QED
  BY <1>1, <1>2, Operands DEF lowerOperand

LEMMA LowerForms ==
  ASSUME NEW op, NEW a, NEW b, NEW d, NEW v
  PROVE  /\ lower(iAdd(op, a, b, d)) = iAdd(op, a, b, d)
         /\ lower(iAddImm(op, a, b, v)) = iAddImm(op, a, b, v)
         /\ lower(iMove(op, a, v)) = iMove(op, a, v)
         /\ lower(iLA(a, v)) = iLAExpr(a, v)
         /\ lower(iMem(op, a, v, b)) = iMem(op, a, v, b)
<1>1. \A x, y, z, o : lower(Ins(o, <<x, y, z>>))
                         = Ins(o, <<lowerOperand(x), lowerOperand(y), lowerOperand(z)>>)
  BY LowerThree
<1>2. ASSUME NEW x, NEW y, NEW o
      PROVE  lower(Ins(o, <<x, y>>)) = Ins(o, <<lowerOperand(x), lowerOperand(y)>>)
  <2> DEFINE q == <<x, y>>
  <2>1. [p \in DOMAIN q |-> lowerOperand(q[p])] = <<lowerOperand(x), lowerOperand(y)>>
    OBVIOUS
  <2> HIDE DEF q
  <2>2. Ins(o, q).op = o /\ Ins(o, q).ops = q
    BY InsIs
  <2>3. lower(Ins(o, q)) = Ins(o, <<lowerOperand(x), lowerOperand(y)>>)
    BY <2>1, <2>2 DEF lower
  <2> QED
    BY <2>3 DEF q
<1>3. \A x : lowerOperand(R(x)) = R(x) /\ lowerOperand(Imm(x)) = Imm(x) /\ lowerOperand(Sym(x)) = Expr(x)
  BY LowerOperands
<1> QED
  BY <1>1, <1>2, <1>3 DEF iAdd, iAddImm, iMove, iLA, iLAExpr, iMem

LEMMA LowerAddSym ==
  ASSUME NEW op, NEW a, NEW v, NEW z \in Seconds(Registers)
  PROVE  lower(iAddTo(op, a, Sym(v), z)) = iAddTo(op, a, Expr(v), z)
<1>1. lowerOperand(z) = z
  BY LowerOperands, SecondIs
<1>2. lowerOperand(R(a)) = R(a) /\ lowerOperand(Sym(v)) = Expr(v)
  BY LowerOperands
<1>3. lower(Ins(op, <<R(a), Sym(v), z>>))
        = Ins(op, <<lowerOperand(R(a)), lowerOperand(Sym(v)), lowerOperand(z)>>)
  BY LowerThree
<1> QED
  BY <1>1, <1>2, <1>3 DEF iAddTo

LEMMA LowerMemSym ==
  ASSUME NEW op, NEW a, NEW v, NEW w
  PROVE  lower(iMemAt(op, a, v, Sym(w))) = iMemAt(op, a, v, Expr(w))
<1>1. lowerOperand(R(a)) = R(a) /\ lowerOperand(Imm(v)) = Imm(v) /\ lowerOperand(Sym(w)) = Expr(w)
  BY LowerOperands
<1>2. lower(Ins(op, <<R(a), Imm(v), Sym(w)>>))
        = Ins(op, <<lowerOperand(R(a)), lowerOperand(Imm(v)), lowerOperand(Sym(w))>>)
  BY LowerThree
<1> QED
  BY <1>1, <1>2 DEF iMemAt

LEMMA LowerDo ==
  ASSUME NEW i \in Eliminated
  PROVE  /\ lower(i) \in LoweredForms
         /\ \A s, t : Agree(FALSE, s, t) => Agree(FALSE, Do(s, i), Do(t, lower(i)))
<1> HIDE DEF Registers
<1>1. CASE i \in Adds(Registers) \cup AddImms(Registers) \cup Moves(Registers)
  <2>1. lower(i) = i
    <3>1. CASE i \in Adds(Registers)
      BY <3>1, LowerForms DEF Adds
    <3>2. CASE i \in AddImms(Registers)
      BY <3>2, LowerForms DEF AddImms
    <3>3. CASE i \in Moves(Registers)
      BY <3>3, LowerForms DEF Moves
    <3> QED
      BY <1>1, <3>1, <3>2, <3>3
  <2>2. i \in LoweredForms
    BY <1>1 DEF LoweredForms
  <2> QED
    BY <1>1, <2>1, <2>2, AgreeArithmetic
<1>2. CASE i \in Literals(Registers)
  <2>1. PICK a \in Registers, v \in Int : i = iLA(a, v)
    BY <1>2 DEF Literals
  <2>2. lower(i) = iLAExpr(a, v)
    BY <2>1, LowerForms
  <2>3. iLAExpr(a, v) \in LoweredForms
    BY DEF LoweredForms, LoweredLiterals
  <2>4. ASSUME NEW s, NEW t, Agree(FALSE, s, t)
        PROVE  Agree(FALSE, Do(s, i), Do(t, lower(i)))
    <3>1. s.text = FALSE /\ t.text = FALSE
      BY <2>4 DEF Agree
    <3>2. Do(s, i) = Put(s, a, v) /\ Do(t, lower(i)) = Put(t, a, v)
      BY <2>1, <2>2, <3>1, DoLiteral
    <3> QED
      BY <2>4, <3>2, AgreePut
  <2> QED
    BY <2>2, <2>3, <2>4
<1>3. CASE i \in Mems(Registers)
  <2>1. PICK op \in Accessing, a \in Registers, v \in Int, b \in Registers :
          i = iMem(op, a, v, b)
    BY <1>3 DEF Mems
  <2>2. lower(i) = i /\ i \in LoweredForms
    BY <1>3, <2>1, LowerForms DEF LoweredForms
  <2>3. ASSUME NEW s, NEW t, Agree(FALSE, s, t)
        PROVE  Agree(FALSE, Do(s, i), Do(t, i))
    <3>1. s.r = t.r /\ s.r[b] \in Int
      BY <2>3, StateIsMk DEF Agree
    <3>5. s.text = FALSE
      BY <2>3 DEF Agree
    <3>6. t.text = FALSE
      BY <2>3 DEF Agree
    <3>2. Do(s, i) = Accessed(s, op, a, s.r[b] + v)
      BY <2>1, <3>5, DoMem, Zenon
    <3>3. Do(t, i) = Accessed(t, op, a, t.r[b] + v)
      BY <2>1, <3>6, DoMem, Zenon
    <3>4. s.r[b] + v \in Int
      BY <3>1
    <3> QED
      BY <2>3, <3>1, <3>2, <3>3, <3>4, AgreeAccess
  <2> QED
    BY <2>2, <2>3
<1>4. CASE i \in SymAdds(Registers)
  <2>1. PICK op \in AddOps, a \in Registers, v \in Int, z \in Seconds(Registers) :
          i = iAddTo(op, a, Sym(v), z)
    BY <1>4 DEF SymAdds
  <2>2. lower(i) = iAddTo(op, a, Expr(v), z)
    BY <2>1, LowerAddSym
  <2>3. iAddTo(op, a, Expr(v), z) \in LoweredForms
    BY DEF LoweredForms, ExprAdds
  <2>4. ASSUME NEW s, NEW t, Agree(FALSE, s, t)
        PROVE  Agree(FALSE, Do(s, i), Do(t, lower(i)))
    <3>1. \A x \in Registers : s.r[x] = t.r[x] /\ s.r[x] \in Int
      BY <2>4, StateIsMk DEF Agree
    <3>2. Val(s, z) = Val(t, z) /\ Val(s, z) \in Int
      BY <3>1, SecondIs, OperandValues
    <3>3. Do(s, i) = Put(s, a, v + Val(s, z)) /\ Do(t, lower(i)) = Put(t, a, v + Val(t, z))
      BY <2>1, <2>2, DoAddSym
    <3>4. v + Val(s, z) \in Int
      BY <3>2
    <3> QED
      BY <2>4, <3>2, <3>3, <3>4, AgreePut
  <2> QED
    BY <2>2, <2>3, <2>4
<1>5. CASE i \in SymMems(Registers)
  <2>1. PICK op \in Accessing, a \in Registers, v \in Int, w \in Int :
          i = iMemAt(op, a, v, Sym(w))
    BY <1>5 DEF SymMems
  <2>2. lower(i) = iMemAt(op, a, v, Expr(w))
    BY <2>1, LowerMemSym
  <2>3. iMemAt(op, a, v, Expr(w)) \in LoweredForms
    BY DEF LoweredForms, ExprMems
  <2>4. ASSUME NEW s, NEW t, Agree(FALSE, s, t)
        PROVE  Agree(FALSE, Do(s, i), Do(t, lower(i)))
    <3>1. s.text = FALSE
      BY <2>4 DEF Agree
    <3>2. t.text = FALSE
      BY <2>4 DEF Agree
    <3>3. Do(s, i) = Accessed(s, op, a, w + v)
      BY <2>1, <3>1, DoMemSym
    <3>4. Do(t, lower(i)) = Accessed(t, op, a, w + v)
      BY <2>2, <3>2, DoMemSym
    <3>5. w + v \in Int
      OBVIOUS
    <3> QED
      BY <2>4, <3>3, <3>4, <3>5, AgreeAccess
  <2> QED
    BY <2>2, <2>3, <2>4
<1> QED
  BY <1>1, <1>2, <1>3, <1>4, <1>5 DEF Eliminated, Plain

(* A load or store is printed with its base first; INLINEASM, and a symbol *)
(* for the base, assert.                                                   *)
LEMMA PrintOther ==
  ASSUME NEW o, NEW q, o \notin Accessing
  PROVE  printInst(Ins(o, q)) = Ins(o, q)
<1>1. ~mayLoadOrStore(Ins(o, q).op)
  BY InsIs DEF mayLoadOrStore, Accessing
<1> QED
  BY <1>1 DEF printInst

LEMMA PrintAddSym ==
  ASSUME NEW op \in AddOps, NEW a, NEW v, NEW z
  PROVE  printInst(iAddTo(op, a, Expr(v), z)) = iAddTo(op, a, Expr(v), z)
<1>1. op \notin Accessing
  BY DEF AddOps, Accessing, LoadOps, StoreOps
<1> QED
  BY <1>1, PrintOther DEF iAddTo

LEMMA PrintMemSym ==
  ASSUME NEW op \in Accessing, NEW a, NEW v, NEW w
  PROVE  ~PrintAsserts(iMemAt(op, a, v, Expr(w)))
<1> DEFINE q == <<R(a), Imm(v), Expr(w)>>
<1>1. q[2].k # "reg" /\ q[3].k # "reg"
  BY Operands
<1> HIDE DEF q
<1>2. ~PrintAsserts(Ins(op, q))
  BY <1>1, InsIs DEF PrintAsserts, Accessing
<1> QED
  BY <1>2 DEF q, iMemAt

LEMMA PrintForms ==
  ASSUME NEW op, NEW a, NEW b, NEW d, NEW v
  PROVE  /\ op \in {"ADD", "ADD_N"} => printInst(iAdd(op, a, b, d)) = iAdd(op, a, b, d)
         /\ op \in {"ADDI", "ADDI_N"} => printInst(iAddImm(op, a, b, v)) = iAddImm(op, a, b, v)
         /\ op \in {"MOVI", "MOVI_N", "LI"} => printInst(iMove(op, a, v)) = iMove(op, a, v)
         /\ printInst(iLAExpr(a, v)) = iLAExpr(a, v)
         /\ op \in LoadOps \cup StoreOps => printInst(iMem(op, a, v, b)) = iText(op, a, b, v)
         /\ ~PrintAsserts(iMem("INLINEASM", a, v, b))
<1>1. \A o, q : o \notin Accessing => printInst(Ins(o, q)) = Ins(o, q)
  BY PrintOther
<1>2. \A o \in {"ADD", "ADD_N", "ADDI", "ADDI_N", "MOVI", "MOVI_N", "LI", "LA"} : o \notin Accessing
  BY DEF Accessing, LoadOps, StoreOps
<1>3. ASSUME op \in LoadOps \cup StoreOps
      PROVE  printInst(iMem(op, a, v, b)) = iText(op, a, b, v)
  <2> DEFINE q == <<R(a), Imm(v), R(b)>>
  <2>1. q[1] = R(a) /\ q[2] = Imm(v) /\ q[3] = R(b)
    OBVIOUS
  <2>2. mayLoadOrStore(op) /\ op # "INLINEASM"
    BY <1>3 DEF mayLoadOrStore, LoadOps, StoreOps
  <2> HIDE DEF q
  <2>3. printInst(Ins(op, q)) = Ins(op, <<R(a), R(b), Imm(v)>>)
    BY <2>1, <2>2, InsIs DEF printInst, printMemOperand
  <2> QED
    BY <2>3 DEF q, iMem, iText
<1>4. ~PrintAsserts(iMem("INLINEASM", a, v, b))
  <2> DEFINE q == <<R(a), Imm(v), R(b)>>
  <2>1. q[2].k # "reg"
    BY Operands
  <2> HIDE DEF q
  <2>2. ~PrintAsserts(Ins("INLINEASM", q))
    BY <2>1, InsIs DEF PrintAsserts
  <2> QED
    BY <2>2 DEF q, iMem
<1> QED
  BY <1>1, <1>2, <1>3, <1>4 DEF iAdd, iAddImm, iMove, iLAExpr

LEMMA PrintDo ==
  ASSUME NEW i \in LoweredForms, PrintAsserts(i), i.op # "LA"
  PROVE  \A s, t : Agree(TRUE, s, t) => Agree(TRUE, Do(s, i), Do(t, printInst(i)))
<1> HIDE DEF Registers
<1>1. CASE i \in Adds(Registers) \cup AddImms(Registers) \cup Moves(Registers)
  <2>1. printInst(i) = i
    <3>1. CASE i \in Adds(Registers)
      BY <3>1, PrintForms DEF Adds
    <3>2. CASE i \in AddImms(Registers)
      BY <3>2, PrintForms DEF AddImms
    <3>3. CASE i \in Moves(Registers)
      <4>1. PICK op \in {"MOVI", "MOVI_N", "LI"}, a \in Registers, v \in Int :
              i = iMove(op, a, v)
        BY <3>3 DEF Moves
      <4> QED
        BY <4>1, PrintForms
    <3> QED
      BY <1>1, <3>1, <3>2, <3>3
  <2> QED
    BY <1>1, <2>1, AgreeArithmetic
<1>2. CASE i \in LoweredLiterals(Registers)
  <2>1. PICK a \in Registers, v \in Int : i = iLAExpr(a, v)
    BY <1>2 DEF LoweredLiterals
  <2>2. i.op = "LA"
    BY <2>1, InsIs DEF iLAExpr
  <2> QED
    BY <2>2
<1>3. CASE i \in Mems(Registers)
  <2>1. PICK op \in Accessing, a \in Registers, v \in Int, b \in Registers :
          i = iMem(op, a, v, b)
    BY <1>3 DEF Mems
  <2>2. op # "INLINEASM"
    BY <2>1, PrintForms
  <2>3. printInst(i) = iText(op, a, b, v)
    BY <2>1, <2>2, PrintForms DEF Accessing
  <2>4. ASSUME NEW s, NEW t, Agree(TRUE, s, t)
        PROVE  Agree(TRUE, Do(s, i), Do(t, printInst(i)))
    <3>1. s.r = t.r /\ s.r[b] \in Int
      BY <2>4, StateIsMk DEF Agree
    <3>5. s.text = FALSE
      BY <2>4 DEF Agree
    <3>6. t.text = TRUE
      BY <2>4 DEF Agree
    <3>2. Do(s, i) = Accessed(s, op, a, s.r[b] + v)
      BY <2>1, <3>5, DoMem, Zenon
    <3>3. Do(t, printInst(i)) = Accessed(t, op, a, t.r[b] + v)
      BY <2>3, <3>6, DoText
    <3>4. s.r[b] + v \in Int
      BY <3>1
    <3> QED
      BY <2>4, <3>1, <3>2, <3>3, <3>4, AgreeAccess
  <2> QED
    BY <2>4
<1>4. CASE i \in ExprAdds(Registers)
  <2>1. PICK op \in AddOps, a \in Registers, v \in Int, z \in Seconds(Registers) :
          i = iAddTo(op, a, Expr(v), z)
    BY <1>4 DEF ExprAdds
  <2>2. printInst(i) = i
    BY <2>1, PrintAddSym
  <2>3. ASSUME NEW s, NEW t, Agree(TRUE, s, t)
        PROVE  Agree(TRUE, Do(s, i), Do(t, i))
    <3>1. \A x \in Registers : s.r[x] = t.r[x] /\ s.r[x] \in Int
      BY <2>3, StateIsMk DEF Agree
    <3>2. Val(s, z) = Val(t, z) /\ Val(s, z) \in Int
      BY <3>1, SecondIs, OperandValues
    <3>3. Do(s, i) = Put(s, a, v + Val(s, z)) /\ Do(t, i) = Put(t, a, v + Val(t, z))
      BY <2>1, DoAddSym
    <3>4. v + Val(s, z) \in Int
      BY <3>2
    <3> QED
      BY <2>3, <3>2, <3>3, <3>4, AgreePut
  <2> QED
    BY <2>2, <2>3
<1>5. CASE i \in ExprMems(Registers)
  <2>1. PICK op \in Accessing, a \in Registers, v \in Int, w \in Int :
          i = iMemAt(op, a, v, Expr(w))
    BY <1>5 DEF ExprMems
  <2> QED
    BY <2>1, PrintMemSym
<1> QED
  BY <1>1, <1>2, <1>3, <1>4, <1>5 DEF LoweredForms

LowerEach(c) == [j \in DOMAIN c |-> lower(c[j])]
PrintEach(c) == [j \in DOMAIN c |-> printInst(c[j])]

LEMMA LowerRun ==
  ASSUME NEW s, NEW t, Agree(FALSE, s, t), NEW c \in Seq(Eliminated)
  PROVE  /\ LowerEach(c) \in Seq(LoweredForms)
         /\ Agree(FALSE, Run(s, c), Run(t, LowerEach(c)))
<1> DEFINE e == LowerEach(c)
<1>1. Len(c) \in Nat /\ DOMAIN c = 1 .. Len(c) /\ \A n \in 1 .. Len(c) : c[n] \in Eliminated
  BY LenProperties, ElementOfSeq
<1>2. \A n \in 1 .. Len(c) : e[n] = lower(c[n]) /\ e[n] \in LoweredForms
  BY <1>1, LowerDo DEF LowerEach
<1>3. e \in [1 .. Len(c) -> LoweredForms]
  BY <1>1, <1>2 DEF LowerEach
<1> HIDE DEF e
<1>4. e \in Seq(LoweredForms) /\ Len(e) = Len(c)
  BY <1>1, <1>3
<1> DEFINE Q == Agreeing(FALSE)
<1>5. <<s, t>> \in Q
  BY AgreeingIs
<1>6. ASSUME NEW n \in 1 .. Len(c), NEW x, NEW y, <<x, y>> \in Q
      PROVE  <<Do(x, c[n]), Do(y, e[n])>> \in Q
  <2>1. Agree(FALSE, x, y)
    BY <1>6, AgreeingIs
  <2>2. Agree(FALSE, Do(x, c[n]), Do(y, lower(c[n])))
    BY <1>1, <2>1, LowerDo
  <2> QED
    BY <1>2, <2>2, AgreeingIs
<1> HIDE DEF Q
<1>7. <<Run(s, c), Run(t, e)>> \in Q
  BY <1>1, <1>4, <1>5, <1>6, Simulate
<1> QED
  BY <1>4, <1>7, AgreeingIs DEF e, Q

LEMMA PrintRun ==
  ASSUME NEW s, NEW t, Agree(TRUE, s, t), NEW c \in Seq(LoweredForms),
         \A n \in DOMAIN c : PrintAsserts(c[n]) /\ c[n].op # "LA"
  PROVE  Agree(TRUE, Run(s, c), Run(t, PrintEach(c)))
<1> DEFINE e == PrintEach(c)
<1>1. Len(c) \in Nat /\ DOMAIN c = 1 .. Len(c) /\ \A n \in 1 .. Len(c) : c[n] \in LoweredForms
  BY LenProperties, ElementOfSeq
<1>2. \A n \in 1 .. Len(c) : e[n] = printInst(c[n])
  BY <1>1 DEF PrintEach
<1>3. e = [j \in 1 .. Len(c) |-> printInst(c[j])]
  BY <1>1 DEF PrintEach
<1> HIDE DEF e
<1>4. Len(e) = Len(c)
  BY <1>1, <1>3
<1> DEFINE Q == Agreeing(TRUE)
<1>5. <<s, t>> \in Q
  BY AgreeingIs
<1>6. ASSUME NEW n \in 1 .. Len(c), NEW x, NEW y, <<x, y>> \in Q
      PROVE  <<Do(x, c[n]), Do(y, e[n])>> \in Q
  <2>1. Agree(TRUE, x, y)
    BY <1>6, AgreeingIs
  <2>3. c[n] \in LoweredForms /\ PrintAsserts(c[n]) /\ c[n].op # "LA"
    BY <1>1
  <2>2. Agree(TRUE, Do(x, c[n]), Do(y, printInst(c[n])))
    BY <2>1, <2>3, PrintDo
  <2> QED
    BY <1>2, <2>2, AgreeingIs
<1> HIDE DEF Q
<1>7. <<Run(s, c), Run(t, e)>> \in Q
  BY <1>1, <1>4, <1>5, <1>6, Simulate
<1> QED
  BY <1>7, AgreeingIs DEF e, Q

LEMMA StartIs ==
  ASSUME NEW o \in Int, NEW text \in BOOLEAN
  PROVE  /\ Start(o, text) \in States
         /\ Start(o, text).text = text /\ Start(o, text).object = o
         /\ Start(o, text).acc = <<>>
         /\ Start(o, text).r[Entry] = EntryValue
         /\ Start(o, text).r[FrameReg] = FrameValue
<1> DEFINE r == [x \in Registers |-> IF x = Entry THEN EntryValue
                                     ELSE IF x = FrameReg THEN FrameValue ELSE 0]
<1>1. r \in [Registers -> Int]
  BY LayoutAssumption
<1>2. r[Entry] = EntryValue /\ r[FrameReg] = FrameValue
  BY NumberedRegisters
<1>3. Start(o, text) = Mk(r, <<>>, o, text)
  BY DEF Start, Mk
<1>4. <<>> \in Seq(Accesses)
  OBVIOUS
<1>5. ASSUME NEW acc \in Seq(Accesses)
      PROVE  /\ Mk(r, acc, o, text) \in States
             /\ Mk(r, acc, o, text).r = r /\ Mk(r, acc, o, text).acc = acc
             /\ Mk(r, acc, o, text).object = o /\ Mk(r, acc, o, text).text = text
  <2> HIDE DEF r, Registers
  <2> QED
    BY <1>1, MkIsState
<1> HIDE DEF r, Registers
<1> QED
  BY <1>2, <1>3, <1>4, <1>5

LEMMA Starts ==
  ASSUME NEW o \in Int
  PROVE  /\ AlikeStates(o, Start(o, FALSE), Start(o, FALSE))
         /\ Agree(FALSE, Start(o, FALSE), Start(o, FALSE))
         /\ Agree(TRUE, Start(o, FALSE), Start(o, TRUE))
<1>1. Start(o, FALSE).r = Start(o, TRUE).r
  BY DEF Start
<1> QED
  BY <1>1, StartIs DEF AlikeStates, Agree

(***************************************************************************)
(* What TypeOK says of an instruction, its operands of the given kinds.    *)
(***************************************************************************)
Typed(kinds, i) ==
  i.op \in Opcodes /\ \A p \in DOMAIN i.ops : i.ops[p] \in [k : kinds, v : Int]

LEMMA TypedForms ==
  ASSUME NEW kinds, {"reg", "imm"} \subseteq kinds
  PROVE  /\ \A op \in Opcodes, a, b, d \in Registers : Typed(kinds, iAdd(op, a, b, d))
         /\ \A op \in Opcodes, a, b \in Registers, v \in Int :
              /\ Typed(kinds, iAddImm(op, a, b, v))
              /\ Typed(kinds, iMem(op, a, v, b))
              /\ Typed(kinds, iText(op, a, b, v))
         /\ \A op \in Opcodes, a \in Registers, v \in Int :
              /\ Typed(kinds, iMove(op, a, v))
              /\ "fi" \in kinds => Typed(kinds, iAddFI(op, a, v)) /\ Typed(kinds, iMemFI(op, a, v))
         /\ \A a \in Registers, v \in Int :
              /\ "sym" \in kinds => Typed(kinds, iLA(a, v))
              /\ "expr" \in kinds => Typed(kinds, iLAExpr(a, v))
         /\ \A op \in Opcodes, a \in Registers, v \in Int, z \in Seconds(Registers) :
              /\ "sym" \in kinds => Typed(kinds, iAddTo(op, a, Sym(v), z))
              /\ "expr" \in kinds => Typed(kinds, iAddTo(op, a, Expr(v), z))
         /\ \A op \in Opcodes, a \in Registers, v, w \in Int :
              /\ "sym" \in kinds => Typed(kinds, iMemAt(op, a, v, Sym(w)))
              /\ "expr" \in kinds => Typed(kinds, iMemAt(op, a, v, Expr(w)))
<1> DEFINE O == [k : kinds, v : Int]
<1>1. /\ \A x \in Registers : R(x) \in O
      /\ \A v \in Int : /\ Imm(v) \in O
                        /\ "sym" \in kinds => Sym(v) \in O
                        /\ "expr" \in kinds => Expr(v) \in O
      /\ "fi" \in kinds => FI \in O
  BY NumberedRegisters DEF R, Imm, FI, Sym, Expr
<1> HIDE DEF O, Registers
<1>2. ASSUME NEW x \in O, NEW y \in O, NEW z \in O, NEW f \in Opcodes
      PROVE  Typed(kinds, Ins(f, <<x, y, z>>)) /\ Typed(kinds, Ins(f, <<x, y>>))
  BY InsIs DEF Typed, O
<1>3. "LA" \in Opcodes
  BY DEF Opcodes
<1>4. \A op \in Opcodes, a, b, d \in Registers : Typed(kinds, iAdd(op, a, b, d))
  BY <1>1, <1>2 DEF iAdd
<1>5. \A op \in Opcodes, a, b \in Registers, v \in Int :
        /\ Typed(kinds, iAddImm(op, a, b, v))
        /\ Typed(kinds, iMem(op, a, v, b))
        /\ Typed(kinds, iText(op, a, b, v))
  BY <1>1, <1>2 DEF iAddImm, iMem, iText
<1>6. \A op \in Opcodes, a \in Registers, v \in Int :
        /\ Typed(kinds, iMove(op, a, v))
        /\ "fi" \in kinds => Typed(kinds, iAddFI(op, a, v)) /\ Typed(kinds, iMemFI(op, a, v))
  BY <1>1, <1>2 DEF iMove, iAddFI, iMemFI
<1>7. \A a \in Registers, v \in Int :
        /\ "sym" \in kinds => Typed(kinds, iLA(a, v))
        /\ "expr" \in kinds => Typed(kinds, iLAExpr(a, v))
  BY <1>1, <1>2, <1>3 DEF iLA, iLAExpr
<1>8. \A z \in Seconds(Registers) : z \in O
  BY <1>1, SecondIs
<1>9. \A op \in Opcodes, a \in Registers, v \in Int, z \in Seconds(Registers) :
        /\ "sym" \in kinds => Typed(kinds, iAddTo(op, a, Sym(v), z))
        /\ "expr" \in kinds => Typed(kinds, iAddTo(op, a, Expr(v), z))
  BY <1>1, <1>2, <1>8 DEF iAddTo
<1>10. \A op \in Opcodes, a \in Registers, v, w \in Int :
         /\ "sym" \in kinds => Typed(kinds, iMemAt(op, a, v, Sym(w)))
         /\ "expr" \in kinds => Typed(kinds, iMemAt(op, a, v, Expr(w)))
  BY <1>1, <1>2 DEF iMemAt
<1> QED
  BY <1>4, <1>5, <1>6, <1>7, <1>9, <1>10

LEMMA OpcodesOf ==
  ASSUME NEW op
  PROVE  /\ op \in Accessing => op \in Opcodes
         /\ op \in {"ADD", "ADD_N"} => op \in Opcodes
         /\ op \in {"ADDI", "ADDI_N"} => op \in Opcodes
         /\ op \in {"MOVI", "MOVI_N", "LI"} => op \in Opcodes
         /\ op \in AddOps => op \in Opcodes
  BY DEF Opcodes, Accessing, AddOps

LEMMA SelectedTyped ==
  ASSUME NEW i \in Selected
  PROVE  Typed({"reg", "imm", "fi", "sym"}, i)
<1> DEFINE kinds == {"reg", "imm", "fi", "sym"}
<1>1. {"reg", "imm"} \subseteq kinds /\ "fi" \in kinds /\ "sym" \in kinds
  OBVIOUS
<1> HIDE DEF kinds
<1>2. \A a \in Working : a \in Registers
  BY NumberedRegisters
<1>3. CASE i \in Adds(Working)
  <2>1. PICK op \in {"ADD", "ADD_N"}, a \in Working, b \in Working, d \in Working :
          i = iAdd(op, a, b, d)
    BY <1>3 DEF Adds
  <2>2. op \in Opcodes
    BY OpcodesOf
  <2> QED
    BY <1>1, <1>2, <2>1, <2>2, TypedForms
<1>4. CASE i \in AddImms(Working)
  <2>1. PICK op \in {"ADDI", "ADDI_N"}, a \in Working, b \in Working, v \in Int :
          i = iAddImm(op, a, b, v)
    BY <1>4 DEF AddImms
  <2>2. op \in Opcodes
    BY OpcodesOf
  <2> QED
    BY <1>1, <1>2, <2>1, <2>2, TypedForms
<1>5. CASE i \in Moves(Working)
  <2>1. PICK op \in {"MOVI", "MOVI_N", "LI"}, a \in Working, v \in Int :
          i = iMove(op, a, v)
    BY <1>5 DEF Moves
  <2>2. op \in Opcodes
    BY OpcodesOf
  <2> QED
    BY <1>1, <1>2, <2>1, <2>2, TypedForms
<1>6. CASE i \in Literals(Working)
  <2>1. PICK a \in Working, v \in Int :
          i = iLA(a, v)
    BY <1>6 DEF Literals
  <2> QED
    BY <1>1, <1>2, <2>1, TypedForms
<1>7. CASE i \in Mems(Working)
  <2>1. PICK op \in Accessing, a \in Working, v \in Int, b \in Working :
          i = iMem(op, a, v, b)
    BY <1>7 DEF Mems
  <2>2. op \in Opcodes
    BY OpcodesOf
  <2> QED
    BY <1>1, <1>2, <2>1, <2>2, TypedForms
<1>8. CASE i \in AddFIs(Working)
  <2>1. PICK op \in {"ADDI", "ADDI_N"}, a \in Working, v \in Int :
          i = iAddFI(op, a, v)
    BY <1>8 DEF AddFIs
  <2>2. op \in Opcodes
    BY OpcodesOf
  <2> QED
    BY <1>1, <1>2, <2>1, <2>2, TypedForms
<1>9. CASE i \in MemFIs(Working)
  <2>1. PICK op \in Accessing, a \in Working, v \in Int :
          i = iMemFI(op, a, v)
    BY <1>9 DEF MemFIs
  <2>2. op \in Opcodes
    BY OpcodesOf
  <2> QED
    BY <1>1, <1>2, <2>1, <2>2, TypedForms
<1>10. Seconds(Working) \subseteq Seconds(Registers)
  BY <1>2 DEF Seconds
<1>11. CASE i \in SymAdds(Working)
  <2>1. PICK op \in AddOps, a \in Working, v \in Int, z \in Seconds(Working) :
          i = iAddTo(op, a, Sym(v), z)
    BY <1>11 DEF SymAdds
  <2>2. op \in Opcodes /\ a \in Registers /\ z \in Seconds(Registers)
    BY <1>2, <1>10, OpcodesOf
  <2> QED
    BY <1>1, <2>1, <2>2, TypedForms
<1>12. CASE i \in SymMems(Working)
  <2>1. PICK op \in Accessing, a \in Working, v \in Int, w \in Int :
          i = iMemAt(op, a, v, Sym(w))
    BY <1>12 DEF SymMems
  <2>2. op \in Opcodes /\ a \in Registers
    BY <1>2, OpcodesOf
  <2> QED
    BY <1>1, <2>1, <2>2, TypedForms
<1> QED
  BY <1>3, <1>4, <1>5, <1>6, <1>7, <1>8, <1>9, <1>11, <1>12 DEF Selected, Plain, kinds

LEMMA EliminatedTyped ==
  ASSUME NEW i \in Eliminated
  PROVE  Typed({"reg", "imm", "sym"}, i)
<1> DEFINE kinds == {"reg", "imm", "sym"}
<1>1. {"reg", "imm"} \subseteq kinds /\ "sym" \in kinds
  OBVIOUS
<1> HIDE DEF kinds, Registers
<1>3. CASE i \in Adds(Registers)
  <2>1. PICK op \in {"ADD", "ADD_N"}, a \in Registers, b \in Registers, d \in Registers :
          i = iAdd(op, a, b, d)
    BY <1>3 DEF Adds
  <2>2. op \in Opcodes
    BY OpcodesOf
  <2> QED
    BY <1>1, <2>1, <2>2, TypedForms
<1>4. CASE i \in AddImms(Registers)
  <2>1. PICK op \in {"ADDI", "ADDI_N"}, a \in Registers, b \in Registers, v \in Int :
          i = iAddImm(op, a, b, v)
    BY <1>4 DEF AddImms
  <2>2. op \in Opcodes
    BY OpcodesOf
  <2> QED
    BY <1>1, <2>1, <2>2, TypedForms
<1>5. CASE i \in Moves(Registers)
  <2>1. PICK op \in {"MOVI", "MOVI_N", "LI"}, a \in Registers, v \in Int :
          i = iMove(op, a, v)
    BY <1>5 DEF Moves
  <2>2. op \in Opcodes
    BY OpcodesOf
  <2> QED
    BY <1>1, <2>1, <2>2, TypedForms
<1>6. CASE i \in Literals(Registers)
  <2>1. PICK a \in Registers, v \in Int :
          i = iLA(a, v)
    BY <1>6 DEF Literals
  <2> QED
    BY <1>1, <2>1, TypedForms
<1>7. CASE i \in Mems(Registers)
  <2>1. PICK op \in Accessing, a \in Registers, v \in Int, b \in Registers :
          i = iMem(op, a, v, b)
    BY <1>7 DEF Mems
  <2>2. op \in Opcodes
    BY OpcodesOf
  <2> QED
    BY <1>1, <2>1, <2>2, TypedForms
<1>8. CASE i \in SymAdds(Registers)
  <2>1. PICK op \in AddOps, a \in Registers, v \in Int, z \in Seconds(Registers) :
          i = iAddTo(op, a, Sym(v), z)
    BY <1>8 DEF SymAdds
  <2>2. op \in Opcodes
    BY OpcodesOf
  <2> QED
    BY <1>1, <2>1, <2>2, TypedForms
<1>9. CASE i \in SymMems(Registers)
  <2>1. PICK op \in Accessing, a \in Registers, v \in Int, w \in Int :
          i = iMemAt(op, a, v, Sym(w))
    BY <1>9 DEF SymMems
  <2>2. op \in Opcodes
    BY OpcodesOf
  <2> QED
    BY <1>1, <2>1, <2>2, TypedForms
<1> QED
  BY <1>3, <1>4, <1>5, <1>6, <1>7, <1>8, <1>9 DEF Eliminated, Plain, kinds

LEMMA LoweredTyped ==
  ASSUME NEW i \in LoweredForms
  PROVE  /\ Typed({"reg", "imm", "expr"}, i)
         /\ PrintAsserts(i) => Typed({"reg", "imm", "expr"}, printInst(i))
<1> DEFINE kinds == {"reg", "imm", "expr"}
<1>1. {"reg", "imm"} \subseteq kinds /\ "expr" \in kinds
  OBVIOUS
<1> HIDE DEF kinds, Registers
<1>3. CASE i \in Adds(Registers)
  <2>1. PICK op \in {"ADD", "ADD_N"}, a \in Registers, b \in Registers, d \in Registers :
          i = iAdd(op, a, b, d)
    BY <1>3 DEF Adds
  <2>2. printInst(i) = i
    BY <2>1, PrintForms
  <2> QED
    BY <1>1, <2>1, <2>2, TypedForms, OpcodesOf DEF kinds
<1>4. CASE i \in AddImms(Registers)
  <2>1. PICK op \in {"ADDI", "ADDI_N"}, a \in Registers, b \in Registers, v \in Int :
          i = iAddImm(op, a, b, v)
    BY <1>4 DEF AddImms
  <2>2. printInst(i) = i
    BY <2>1, PrintForms
  <2> QED
    BY <1>1, <2>1, <2>2, TypedForms, OpcodesOf DEF kinds
<1>5. CASE i \in Moves(Registers)
  <2>1. PICK op \in {"MOVI", "MOVI_N", "LI"}, a \in Registers, v \in Int : i = iMove(op, a, v)
    BY <1>5 DEF Moves
  <2>2. printInst(i) = i
    BY <2>1, PrintForms
  <2> QED
    BY <1>1, <2>1, <2>2, TypedForms, OpcodesOf DEF kinds
<1>6. CASE i \in LoweredLiterals(Registers)
  <2>1. PICK a \in Registers, v \in Int : i = iLAExpr(a, v)
    BY <1>6 DEF LoweredLiterals
  <2>2. printInst(i) = i
    BY <2>1, PrintForms
  <2> QED
    BY <1>1, <2>1, <2>2, TypedForms DEF kinds
<1>7. CASE i \in Mems(Registers)
  <2>1. PICK op \in Accessing, a \in Registers, v \in Int, b \in Registers :
          i = iMem(op, a, v, b)
    BY <1>7 DEF Mems
  <2>2. Typed(kinds, i) /\ Typed(kinds, iText(op, a, b, v))
    BY <1>1, <2>1, TypedForms, OpcodesOf
  <2>3. PrintAsserts(i) => printInst(i) = iText(op, a, b, v)
    BY <2>1, PrintForms DEF Accessing
  <2> QED
    BY <2>2, <2>3 DEF kinds
<1>8. CASE i \in ExprAdds(Registers)
  <2>1. PICK op \in AddOps, a \in Registers, v \in Int, z \in Seconds(Registers) :
          i = iAddTo(op, a, Expr(v), z)
    BY <1>8 DEF ExprAdds
  <2>2. printInst(i) = i /\ op \in Opcodes
    BY <2>1, PrintAddSym, OpcodesOf
  <2>3. Typed(kinds, i)
    BY <1>1, <2>1, <2>2, TypedForms
  <2> QED
    BY <2>2, <2>3 DEF kinds
<1>9. CASE i \in ExprMems(Registers)
  <2>1. PICK op \in Accessing, a \in Registers, v \in Int, w \in Int :
          i = iMemAt(op, a, v, Expr(w))
    BY <1>9 DEF ExprMems
  <2>2. op \in Opcodes
    BY OpcodesOf
  <2>3. Typed(kinds, i) /\ ~PrintAsserts(i)
    BY <1>1, <2>1, <2>2, TypedForms, PrintMemSym
  <2> QED
    BY <2>3 DEF kinds
<1> QED
  BY <1>3, <1>4, <1>5, <1>6, <1>7, <1>8, <1>9 DEF LoweredForms
--------------------------------------------------------------------------------
(***************************************************************************)
(* The lowered DAG: a base, a constant, or a base and a constant.          *)
(***************************************************************************)
BaseLeaves ==
  {Leaf("Register", EntryValue, 0), Leaf("FrameIndex", 0, 0)}
    \cup {Leaf(k, v, 0) : k \in {"PCREL_WRAPPER", "TPREL", "TargetBlockAddress"}, v \in Int}

ConstantLeaves == {Leaf(k, c, 0) : k \in {"Constant", "PoolLoad"}, c \in Offsets}

LEMMA LeafIs ==
  ASSUME NEW k, NEW v, NEW o
  PROVE  Leaf(k, v, o).k = k /\ Leaf(k, v, o).v = v /\ Leaf(k, v, o).o = o
  BY DEF Leaf

LEMMA LeafValueIs ==
  ASSUME NEW k, NEW v, NEW x, NEW o
  PROVE  LeafValue(Leaf(k, v, x), o) = IF k = "FrameIndex" THEN FrameValue + o ELSE v + x
  BY LeafIs DEF LeafValue

LEMMA LeafTyped ==
  ASSUME NEW kinds, NEW k \in kinds, NEW v \in Int, NEW o \in Int
  PROVE  Leaf(k, v, o) \in [k : kinds, v : Int, o : Int]
  BY DEF Leaf

LEMMA NodeIs ==
  ASSUME NEW n \in Nodes
  PROVE  n.use \in Uses /\ n.base \in Bases /\ n.off \in Offsets /\ n.off \in Int
  BY ISelAssumption DEF Nodes

BaseKinds ==
  {"Register", "FrameIndex", "GlobalAddress", "JumpTable", "BlockAddress", "GlobalTLSAddress"}

LoweredKinds ==
  {"Constant", "PoolLoad", "Register", "FrameIndex", "PCREL_WRAPPER",
   "TargetBlockAddress", "TPREL"}

(* A node's base has no offset of its own, since the target folds none.    *)
LEMMA BaseIs ==
  ASSUME NEW n \in Nodes, n.base # "none", NEW o \in Int
  PROVE  /\ \E k \in BaseKinds, v \in Int : BaseLeaf(n) = Leaf(k, v, 0)
         /\ BaseLeaf(n).o = 0
         /\ LowerOperation(BaseLeaf(n)) \in BaseLeaves
         /\ LeafValue(BaseLeaf(n), o) + n.off = Address(n, o)
         /\ LeafValue(LowerOperation(BaseLeaf(n)), o) + n.off = Address(n, o)
<1>0. n.off \in Int /\ EntryValue \in Int /\ FrameValue \in Int /\ SymbolAddr(n.base) \in Int
  BY NodeIs, LayoutAssumption
<1>1. CASE n.base = "reg"
  <2>1. BaseLeaf(n) = Leaf("Register", EntryValue, 0)
    BY <1>1 DEF BaseLeaf
  <2>2. LowerOperation(BaseLeaf(n)) = BaseLeaf(n)
    BY <2>1, LeafIs DEF LowerOperation
  <2>3. Address(n, o) = n.off + EntryValue
    BY <1>1 DEF Address
  <2>4. LeafValue(BaseLeaf(n), o) = EntryValue + 0
    BY <2>1, LeafValueIs
  <2> QED
    BY <1>0, <2>1, <2>2, <2>3, <2>4, LeafIs DEF BaseKinds, BaseLeaves
<1>2. CASE n.base = "fi"
  <2>1. BaseLeaf(n) = Leaf("FrameIndex", 0, 0)
    BY <1>2 DEF BaseLeaf
  <2>2. LowerOperation(BaseLeaf(n)) = BaseLeaf(n)
    BY <2>1, LeafIs DEF LowerOperation
  <2>3. Address(n, o) = n.off + (FrameValue + o)
    BY <1>2 DEF Address
  <2>4. LeafValue(BaseLeaf(n), o) = FrameValue + o
    BY <2>1, LeafValueIs
  <2> QED
    BY <1>0, <2>1, <2>2, <2>3, <2>4, LeafIs DEF BaseKinds, BaseLeaves
<1>3. CASE n.base \notin {"none", "reg", "fi"}
  <2> DEFINE v == SymbolAddr(n.base)
  <2>1. \E k \in {"GlobalAddress", "JumpTable", "BlockAddress", "GlobalTLSAddress"} :
          BaseLeaf(n) = Leaf(k, v, 0)
    BY <1>3 DEF BaseLeaf, isOffsetFoldingLegal
  <2>2. Address(n, o) = n.off + v
    BY <1>3 DEF Address
  <2>3. v \in Int
    BY <1>0
  <2> HIDE DEF v
  <2>4. PICK k \in {"GlobalAddress", "JumpTable", "BlockAddress", "GlobalTLSAddress"} :
          BaseLeaf(n) = Leaf(k, v, 0)
    BY <2>1
  <2>5. [Leaf("GlobalAddress", v, 0) EXCEPT !.o = 0] = Leaf("GlobalAddress", v, 0)
    BY DEF Leaf
  <2>6. \E m \in {"PCREL_WRAPPER", "TPREL", "TargetBlockAddress"} :
          LowerOperation(BaseLeaf(n)) = Leaf(m, v, 0)
    <3>1. CASE k = "GlobalAddress"
      <4>1. LowerOperation(BaseLeaf(n)) = lowerGlobalAddress(BaseLeaf(n))
        BY <2>4, <3>1, LeafIs DEF LowerOperation
      <4>2. lowerGlobalAddress(BaseLeaf(n)) = Leaf("PCREL_WRAPPER", v, 0)
        BY <2>4, <2>5, <3>1, LeafIs DEF lowerGlobalAddress, getAddrPIC
      <4> QED
        BY <4>1, <4>2
    <3>2. CASE k = "JumpTable"
      <4>1. LowerOperation(BaseLeaf(n)) = lowerJumpTable(BaseLeaf(n))
        BY <2>4, <3>2, LeafIs DEF LowerOperation
      <4>2. lowerJumpTable(BaseLeaf(n)) = Leaf("PCREL_WRAPPER", v, 0)
        BY <2>4, <3>2, LeafIs DEF lowerJumpTable, getAddrPIC
      <4> QED
        BY <4>1, <4>2
    <3>3. CASE k = "BlockAddress"
      <4>1. LowerOperation(BaseLeaf(n)) = lowerBlockAddress(BaseLeaf(n))
        BY <2>4, <3>3, LeafIs DEF LowerOperation
      <4>2. lowerBlockAddress(BaseLeaf(n)) = Leaf("TargetBlockAddress", v, 0)
        BY <2>4, <3>3, LeafIs DEF lowerBlockAddress
      <4> QED
        BY <4>1, <4>2
    <3>4. CASE k = "GlobalTLSAddress"
      <4>1. LowerOperation(BaseLeaf(n)) = lowerGlobalTLSAddress(BaseLeaf(n))
        BY <2>4, <3>4, LeafIs DEF LowerOperation
      <4>2. lowerGlobalTLSAddress(BaseLeaf(n)) = Leaf("TPREL", v, 0)
        BY <2>4, <3>4, LeafIs DEF lowerGlobalTLSAddress
      <4> QED
        BY <4>1, <4>2
    <3> QED
      BY <3>1, <3>2, <3>3, <3>4
  <2>7. PICK m \in {"PCREL_WRAPPER", "TPREL", "TargetBlockAddress"} :
          LowerOperation(BaseLeaf(n)) = Leaf(m, v, 0)
    BY <2>6
  <2>8. LeafValue(BaseLeaf(n), o) = v /\ LeafValue(LowerOperation(BaseLeaf(n)), o) = v
    BY <2>3, <2>4, <2>7, LeafValueIs
  <2>9. Leaf(m, v, 0) \in BaseLeaves
    BY <2>3 DEF BaseLeaves
  <2>10. BaseLeaf(n).o = 0 /\ k \in BaseKinds
    BY <2>4, LeafIs DEF BaseKinds
  <2> QED
    BY <1>0, <2>2, <2>3, <2>4, <2>7, <2>8, <2>9, <2>10
<1> QED
  BY <1>1, <1>2, <1>3

LEMMA ConstantLowered ==
  ASSUME NEW c \in Offsets, NEW o \in Int
  PROVE  /\ LowerOperation(Leaf("Constant", c, 0)) \in ConstantLeaves
         /\ LeafValue(LowerOperation(Leaf("Constant", c, 0)), o) = c
         /\ LeafValue(Leaf("Constant", c, 0), o) = c
<1>0. c \in Int
  BY ISelAssumption
<1>1. LowerOperation(Leaf("Constant", c, 0)) = lowerImmediate(Leaf("Constant", c, 0))
  BY LeafIs DEF LowerOperation
<1>2. \E k \in {"Constant", "PoolLoad"} :
        lowerImmediate(Leaf("Constant", c, 0)) = Leaf(k, c, 0)
  BY LeafIs DEF lowerImmediate
<1>3. PICK k \in {"Constant", "PoolLoad"} :
        LowerOperation(Leaf("Constant", c, 0)) = Leaf(k, c, 0)
  BY <1>1, <1>2
<1>4. LeafValue(Leaf(k, c, 0), o) = c /\ LeafValue(Leaf("Constant", c, 0), o) = c
  BY <1>0, LeafValueIs
<1> QED
  BY <1>3, <1>4 DEF ConstantLeaves

LoweredDAG(d) == [j \in DOMAIN d |-> LowerOperation(d[j])]

LEMMA Singleton ==
  ASSUME NEW a, NEW o
  PROVE  /\ LoweredDAG(<<a>>) = <<LowerOperation(a)>>
         /\ Len(<<a>>) = 1 /\ <<a>>[1] = a
         /\ DAGValue(<<a>>, o) = LeafValue(a, o) + 0
  BY DEF LoweredDAG, DAGValue

LEMMA Pair ==
  ASSUME NEW a, NEW b, NEW o
  PROVE  /\ LoweredDAG(<<a, b>>) = <<LowerOperation(a), LowerOperation(b)>>
         /\ Len(<<a, b>>) = 2 /\ <<a, b>>[1] = a /\ <<a, b>>[2] = b
         /\ DAGValue(<<a, b>>, o) = LeafValue(a, o) + LeafValue(b, o)
  BY DEF LoweredDAG, DAGValue

(* The DAGs the matcher gets.                                              *)
Lowered ==
  {<<a>> : a \in BaseLeaves \cup ConstantLeaves}
    \cup {<<a, b>> : a \in BaseLeaves, b \in ConstantLeaves}

LEMMA LeavesTyped ==
  ASSUME NEW l \in BaseLeaves \cup ConstantLeaves, NEW o \in Int
  PROVE  /\ l \in [k : LoweredKinds, v : Int, o : Int]
         /\ LeafValue(l, o) \in Int
<1>1. \E k \in LoweredKinds, v \in Int : l = Leaf(k, v, 0)
  BY LayoutAssumption, ISelAssumption DEF BaseLeaves, ConstantLeaves, LoweredKinds
<1>2. PICK k \in LoweredKinds, v \in Int : l = Leaf(k, v, 0)
  BY <1>1
<1>3. l \in [k : LoweredKinds, v : Int, o : Int]
  BY <1>2, LeafTyped
<1>4. LeafValue(l, o) = FrameValue + o \/ LeafValue(l, o) = v + 0
  BY <1>2, LeafValueIs
<1> QED
  BY <1>3, <1>4, LayoutAssumption

(* Legalization keeps the address.                                         *)
LEMMA DAGIs ==
  ASSUME NEW n \in Nodes, NEW o \in Int
  PROVE  /\ Len(DAGOf(n)) \in 1 .. 2
         /\ DAGOf(n) \in Seq([k : BaseKinds \cup {"Constant"}, v : Int, o : Int])
         /\ DAGValue(DAGOf(n), o) = Address(n, o)
         /\ LoweredDAG(DAGOf(n)) \in Lowered
         /\ DAGValue(LoweredDAG(DAGOf(n)), o) = Address(n, o)
<1> DEFINE L == [k : BaseKinds \cup {"Constant"}, v : Int, o : Int]
           c == Leaf("Constant", n.off, 0)
<1>0. n.off \in Int /\ n.off \in Offsets
  BY NodeIs
<1>1. /\ c \in L
      /\ LowerOperation(c) \in ConstantLeaves
      /\ LeafValue(c, o) = n.off /\ LeafValue(LowerOperation(c), o) = n.off
  <2>2. c \in L
    BY <1>0 DEF Leaf
  <2> QED
    BY <1>0, <2>2, ConstantLowered
<1>2. CASE n.base = "none"
  <2>1. BaseLeaf(n) = c
    BY <1>2 DEF BaseLeaf
  <2>2. DAGOf(n) = <<c>>
    BY <1>2, <2>1 DEF DAGOf
  <2>3. Address(n, o) = n.off + 0
    BY <1>2 DEF Address
  <2> HIDE DEF c, L
  <2>4. <<c>> \in Seq(L)
    BY <1>1
  <2>5. DAGValue(<<c>>, o) = n.off
    BY <1>0, <1>1, Singleton
  <2>6. LoweredDAG(<<c>>) = <<LowerOperation(c)>>
    BY Singleton
  <2>7. DAGValue(<<LowerOperation(c)>>, o) = n.off
    BY <1>0, <1>1, Singleton
  <2>8. <<LowerOperation(c)>> \in Lowered
    BY <1>1 DEF Lowered
  <2> QED
    BY <1>0, <2>2, <2>3, <2>4, <2>5, <2>6, <2>7, <2>8, Singleton DEF L
<1>3. CASE n.base # "none"
  <2> DEFINE b == BaseLeaf(n)
  <2>1. /\ \E k \in BaseKinds, v \in Int : b = Leaf(k, v, 0)
        /\ b.o = 0 /\ LowerOperation(b) \in BaseLeaves
        /\ LeafValue(b, o) + n.off = Address(n, o)
        /\ LeafValue(LowerOperation(b), o) + n.off = Address(n, o)
    BY <1>3, BaseIs
  <2>2. b \in L
    <3>1. PICK k \in BaseKinds, v \in Int : b = Leaf(k, v, 0)
      BY <2>1
    <3> QED
      BY <3>1, LeafTyped
  <2>3. CASE n.off = 0
    <3>1. DAGOf(n) = <<b>>
      BY <2>3 DEF DAGOf
    <3> HIDE DEF b, L
    <3>2. LoweredDAG(<<b>>) = <<LowerOperation(b)>>
      BY Singleton
    <3>3. DAGValue(<<b>>, o) = LeafValue(b, o) + n.off
      BY <2>3, Singleton
    <3>4. DAGValue(<<LowerOperation(b)>>, o) = LeafValue(LowerOperation(b), o) + n.off
      BY <2>3, Singleton
    <3>5. <<LowerOperation(b)>> \in Lowered
      BY <2>1 DEF Lowered
    <3>6. <<b>> \in Seq(L)
      BY <2>2
    <3> QED
      BY <2>1, <3>1, <3>2, <3>3, <3>4, <3>5, <3>6, Singleton DEF L
  <2>4. CASE n.off # 0
    <3>1. DAGOf(n) = <<b, c>>
      BY <1>3, <2>1, <2>4 DEF DAGOf
    <3> HIDE DEF b, c, L
    <3>2. LoweredDAG(<<b, c>>) = <<LowerOperation(b), LowerOperation(c)>>
      BY Pair
    <3>3. DAGValue(<<b, c>>, o) = LeafValue(b, o) + n.off
      BY <1>1, Pair
    <3>4. DAGValue(<<LowerOperation(b), LowerOperation(c)>>, o)
            = LeafValue(LowerOperation(b), o) + n.off
      BY <1>1, Pair
    <3>5. <<LowerOperation(b), LowerOperation(c)>> \in Lowered
      BY <1>1, <2>1 DEF Lowered
    <3>6. <<b, c>> \in Seq(L)
      BY <1>1, <2>2
    <3> QED
      BY <2>1, <3>1, <3>2, <3>3, <3>4, <3>5, <3>6, Pair DEF L
  <2> QED
    BY <2>3, <2>4
<1> QED
  BY <1>2, <1>3

LEMMA LoweredTypes ==
  ASSUME NEW d \in Lowered
  PROVE  Len(d) \in 1 .. 2 /\ d \in Seq([k : LoweredKinds, v : Int, o : Int])
<1>0. 0 \in Int
  OBVIOUS
<1> DEFINE L == [k : LoweredKinds, v : Int, o : Int]
<1>1. \A l \in BaseLeaves \cup ConstantLeaves : l \in L
  BY <1>0, LeavesTyped
<1> HIDE DEF L
<1>2. ASSUME NEW a \in BaseLeaves \cup ConstantLeaves, d = <<a>>
      PROVE  Len(d) \in 1 .. 2 /\ d \in Seq(L)
  BY <1>1, <1>2
<1>3. ASSUME NEW a \in BaseLeaves, NEW b \in ConstantLeaves, d = <<a, b>>
      PROVE  Len(d) \in 1 .. 2 /\ d \in Seq(L)
  BY <1>1, <1>3
<1>4. CASE d \in {<<a>> : a \in BaseLeaves \cup ConstantLeaves}
  BY <1>2, <1>4 DEF L
<1>5. CASE d \in {<<a, b>> : a \in BaseLeaves, b \in ConstantLeaves}
  <2>1. PICK a \in BaseLeaves, b \in ConstantLeaves : d = <<a, b>>
    BY <1>5
  <2> QED
    BY <1>3, <2>1 DEF L
<1> QED
  BY <1>4, <1>5 DEF Lowered
--------------------------------------------------------------------------------
(***************************************************************************)
(* What the selected instructions compute.                                 *)
(***************************************************************************)
Computing(o, s) ==
  s \in States /\ s.text = FALSE /\ s.object = o /\ s.r[Entry] = EntryValue

(* The registers code selection makes up.                                 *)
Temporaries == {Result, Ptr, Second}

(* From s to t nothing but the registers in G has changed.                 *)
Changes(G, s, t) == t.acc = s.acc /\ \A y \in Registers \ G : t.r[y] = s.r[y]

LEMMA SelectedCode ==
  ASSUME NEW a \in Working, NEW b \in Working, NEW d \in Working, NEW v \in Int
  PROVE  /\ \A op \in {"ADD", "ADD_N"} : iAdd(op, a, b, d) \in Selected
         /\ \A op \in {"ADDI", "ADDI_N"} : /\ iAddImm(op, a, b, v) \in Selected
                                           /\ iAddFI(op, a, v) \in Selected
         /\ \A op \in {"MOVI", "MOVI_N", "LI"} : iMove(op, a, v) \in Selected
         /\ iLA(a, v) \in Selected
         /\ \A op \in Accessing : iMem(op, a, v, b) \in Selected /\ iMemFI(op, a, v) \in Selected
  BY DEF Adds, AddImms, AddFIs, Moves, Literals, Mems, MemFIs, Selected, Plain

(* What selection puts in the place of a base.                             *)
Sources == {R(z) : z \in Working} \cup {Sym(v) : v \in Int}

LEMMA SourceIs ==
  ASSUME NEW y \in Sources
  PROVE  /\ (\E z \in Working : y = R(z)) \/ (\E v \in Int : y = Sym(v))
         /\ y.k # "imm"
  BY Operands DEF Sources

LEMMA SourceValue ==
  ASSUME NEW s \in States, NEW y \in Sources
  PROVE  Val(s, y) \in Int
<1>1. CASE \E z \in Working : y = R(z)
  <2>1. PICK z \in Working : y = R(z)
    BY <1>1
  <2>2. s.r \in [Registers -> Int] /\ z \in Registers
    BY NumberedRegisters, StateIsMk
  <2> HIDE DEF Registers
  <2> QED
    BY <2>1, <2>2, OperandValues
<1>2. CASE \E v \in Int : y = Sym(v)
  BY <1>2, OperandValues
<1> QED
  BY <1>1, <1>2, SourceIs

LEMMA SourceCode ==
  ASSUME NEW a \in Working, NEW y \in Sources, NEW d \in Working, NEW v \in Int
  PROVE  /\ \A op \in {"ADD", "ADD_N"} : iAddTo(op, a, y, R(d)) \in Selected
         /\ \A op \in {"ADDI", "ADDI_N"} : iAddTo(op, a, y, Imm(v)) \in Selected
         /\ \A op \in Accessing : iMemAt(op, a, v, y) \in Selected
<1>1. CASE \E z \in Working : y = R(z)
  <2>1. PICK z \in Working : y = R(z)
    BY <1>1
  <2>2. \A op : /\ iAddTo(op, a, R(z), R(d)) = iAdd(op, a, z, d)
                /\ iAddTo(op, a, R(z), Imm(v)) = iAddImm(op, a, z, v)
                /\ iMemAt(op, a, v, R(z)) = iMem(op, a, v, z)
    BY DEF iAddTo, iMemAt, iAdd, iAddImm, iMem
  <2> QED
    BY <2>1, <2>2, SelectedCode
<1>2. CASE \E v1 \in Int : y = Sym(v1)
  <2>1. PICK w \in Int : y = Sym(w)
    BY <1>2
  <2>2. R(d) \in Seconds(Working) /\ Imm(v) \in Seconds(Working)
    BY DEF Seconds
  <2>3. \A op \in AddOps, z \in Seconds(Working) : iAddTo(op, a, y, z) \in SymAdds(Working)
    BY <2>1 DEF SymAdds
  <2>4. \A op \in Accessing : iMemAt(op, a, v, y) \in SymMems(Working)
    BY <2>1 DEF SymMems
  <2>5. {"ADD", "ADD_N"} \subseteq AddOps /\ {"ADDI", "ADDI_N"} \subseteq AddOps
    BY DEF AddOps
  <2>6. SymAdds(Working) \subseteq Selected /\ SymMems(Working) \subseteq Selected
    BY DEF Selected, Plain
  <2> QED
    BY <2>2, <2>3, <2>4, <2>5, <2>6
<1> QED
  BY <1>1, <1>2, SourceIs

LEMMA PutComputes ==
  ASSUME NEW o, NEW s, Computing(o, s), NEW x \in Temporaries, NEW v \in Int
  PROVE  /\ Computing(o, Put(s, x, v)) /\ Changes({x}, s, Put(s, x, v))
         /\ Put(s, x, v).r[x] = v
<1>1. s \in States /\ x \in Registers /\ Entry \in Registers /\ Entry # x
  BY NumberedRegisters DEF Computing, Temporaries
<1>2. /\ Put(s, x, v) \in States
      /\ Put(s, x, v).r[x] = v
      /\ \A y \in Registers : y # x => Put(s, x, v).r[y] = s.r[y]
      /\ Put(s, x, v).acc = s.acc
      /\ Put(s, x, v).object = s.object
      /\ Put(s, x, v).text = s.text
  BY <1>1, PutIs
<1> HIDE DEF Registers
<1> QED
  BY <1>1, <1>2 DEF Computing, Changes

(* The pool entry at a constant's address holds that constant.             *)
LEMMA PoolHolds ==
  ASSUME NEW c \in Offsets
  PROVE  PoolEntry(PoolAddr(c)) # {} /\ Constant(PoolAddr(c)) = c
<1>1. c \in PoolEntry(PoolAddr(c))
  BY DEF PoolEntry
<1>2. PoolEntry(PoolAddr(c)) # {}
  BY <1>1
<1>3. Constant(PoolAddr(c)) \in Offsets /\ PoolAddr(Constant(PoolAddr(c))) = PoolAddr(c)
  BY <1>2, ConstantIs
<1> QED
  BY <1>2, <1>3, LayoutAssumption

(* Code c takes s to machines in which operand x has value v.              *)
Leaves(o, s, c, G, x, v) ==
  /\ c \in Seq(Selected)
  /\ Computing(o, Run(s, c))
  /\ Changes(G, s, Run(s, c))
  /\ Val(Run(s, c), x) = v

LEMMA OnePut ==
  ASSUME NEW o, NEW s, Computing(o, s), NEW x \in Temporaries, NEW v \in Int,
         NEW i \in Selected, Do(s, i) = Put(s, x, v)
  PROVE  Leaves(o, s, <<i>>, {x}, R(x), v)
<1>1. Run(s, <<i>>) = Put(s, x, v)
  BY RunOne
<1>2. <<i>> \in Seq(Selected)
  OBVIOUS
<1>3. /\ Computing(o, Put(s, x, v)) /\ Changes({x}, s, Put(s, x, v))
      /\ Val(Put(s, x, v), R(x)) = v
  BY PutComputes, OperandValues
<1> QED
  BY <1>1, <1>2, <1>3 DEF Leaves

(* An immediate is moved, a sum with it is added, either form alike.       *)
LEMMA MoveCode ==
  ASSUME NEW o, NEW s, Computing(o, s), NEW x \in Temporaries, NEW v \in Int,
         NEW c \in MoveImm(x, v)
  PROVE  Leaves(o, s, c, {x}, R(x), v)
<1>1. x \in Working
  BY DEF Working, Temporaries
<1>2. PICK op \in {"MOVI", "MOVI_N"} : c = <<iMove(op, x, v)>>
  BY DEF MoveImm, iMove
<1>3. iMove(op, x, v) \in Selected
  BY <1>1, SelectedCode
<1>4. Do(s, iMove(op, x, v)) = Put(s, x, v)
  BY DoMoveImm
<1> QED
  BY <1>2, <1>3, <1>4, OnePut

LEMMA AddCode ==
  ASSUME NEW o, NEW s, Computing(o, s), NEW x \in Temporaries, NEW y \in Sources,
         NEW op \in AddOps, NEW z, NEW w \in Int, w = Val(s, y) + Val(s, z),
         iAddTo(op, x, y, z) \in Selected
  PROVE  Leaves(o, s, <<iAddTo(op, x, y, z)>>, {x}, R(x), w)
<1>1. Do(s, iAddTo(op, x, y, z)) = Put(s, x, w)
  <2>1. op \in {"ADD", "ADD_N", "ADDI", "ADDI_N"}
    BY DEF AddOps
  <2> QED
    BY <2>1, DoAdd DEF iAddTo
<1> QED
  BY <1>1, OnePut

LEMMA AddImmCode ==
  ASSUME NEW o, NEW s, Computing(o, s), NEW x \in Temporaries, NEW y \in Sources,
         NEW v \in Int, NEW c \in AddImm(x, y, v), NEW w, w = Val(s, y) + v
  PROVE  Leaves(o, s, c, {x}, R(x), w)
<1>1. x \in Working
  BY DEF Working, Temporaries
<1>2. PICK op \in {"ADDI", "ADDI_N"} : c = <<iAddTo(op, x, y, Imm(v))>>
  BY DEF AddImm, iAddTo
<1>3. iAddTo(op, x, y, Imm(v)) \in Selected
  BY <1>1, SourceCode
<1>4. w \in Int /\ w = Val(s, y) + Val(s, Imm(v))
  BY SourceValue, OperandValues DEF Computing
<1>5. op \in AddOps
  BY DEF AddOps
<1> QED
  BY <1>2, <1>3, <1>4, <1>5, AddCode

LEMMA AddRegCode ==
  ASSUME NEW o, NEW s, Computing(o, s), NEW x \in Temporaries, NEW y \in Sources,
         NEW z \in Working, NEW c \in AddReg(x, y, z), NEW w, w = Val(s, y) + Val(s, R(z))
  PROVE  Leaves(o, s, c, {x}, R(x), w)
<1>1. x \in Working /\ R(z) \in Sources
  BY DEF Working, Temporaries, Sources
<1>2. PICK op \in {"ADD", "ADD_N"} : c = <<iAddTo(op, x, y, R(z))>>
  BY DEF AddReg, iAddTo
<1>3. iAddTo(op, x, y, R(z)) \in Selected
  BY <1>1, SourceCode
<1>4. w \in Int
  BY <1>1, SourceValue DEF Computing
<1>5. op \in AddOps
  BY DEF AddOps
<1> QED
  BY <1>2, <1>3, <1>4, <1>5, AddCode

LEMMA LoadAddressCode ==
  ASSUME NEW o, NEW s, Computing(o, s), NEW x \in Temporaries, NEW v \in Int
  PROVE  Leaves(o, s, LoadAddress(x, v), {x}, R(x), v)
<1>1. x \in Working
  BY DEF Working, Temporaries
<1>2. LoadAddress(x, v) = <<iLA(x, v)>>
  BY DEF LoadAddress, iLA
<1>3. iLA(x, v) \in Selected
  BY <1>1, SelectedCode
<1>4. Do(s, iLA(x, v)) = Put(s, x, v)
  BY DoLiteral DEF Computing
<1> QED
  BY <1>2, <1>3, <1>4, OnePut

(* One piece of code after another.                                        *)
LEMMA LeavesThen ==
  ASSUME NEW o, NEW s, NEW c, NEW G, NEW x, NEW v, Leaves(o, s, c, G, x, v),
         NEW d, NEW H, NEW y, NEW w, Leaves(o, Run(s, c), d, H, y, w)
  PROVE  /\ Leaves(o, s, c \o d, G \cup H, y, w)
         /\ Run(s, c \o d) = Run(Run(s, c), d)
<1>1. c \in Seq(Selected) /\ d \in Seq(Selected)
  BY DEF Leaves
<1>2. Run(s, c \o d) = Run(Run(s, c), d)
  BY <1>1, RunConcat
<1>3. c \o d \in Seq(Selected)
  BY <1>1, ConcatProperties
<1>4. Changes(G \cup H, s, Run(Run(s, c), d))
  <2>1. Changes(G, s, Run(s, c)) /\ Changes(H, Run(s, c), Run(Run(s, c), d))
    BY DEF Leaves
  <2> HIDE DEF Registers
  <2> QED
    BY <2>1 DEF Changes
<1> QED
  BY <1>2, <1>3, <1>4 DEF Leaves

(* A constant in the pool is loaded from the address of its entry.         *)
LEMMA PoolCode ==
  ASSUME NEW o, NEW s, Computing(o, s), NEW x \in Temporaries, NEW v \in Offsets,
         NEW op \in Patterns("load32")
  PROVE  Leaves(o, s, LoadAddress(x, lowerConstantPool(v).v)
                        \o <<Ins(op, <<R(x), Imm(0), R(x)>>)>>, {x}, R(x), v)
<1>0. x \in Working /\ PoolAddr(v) \in Int /\ v \in Int /\ op \in LoadOps /\ op \in Accessing
  BY LayoutAssumption, ISelAssumption DEF Working, Temporaries, Patterns, LoadOps, Accessing
<1>1. lowerConstantPool(v).v = PoolAddr(v)
  BY LeafIs DEF lowerConstantPool, getAddrPIC
<1> DEFINE c == LoadAddress(x, PoolAddr(v))
           i == iMem(op, x, 0, x)
           t == Run(s, c)
<1>2. Leaves(o, s, c, {x}, R(x), PoolAddr(v))
  BY <1>0, LoadAddressCode
<1>3. Computing(o, t) /\ t.r[x] = PoolAddr(v) /\ t.text = FALSE
  BY <1>2, OperandValues DEF Leaves, Computing
<1> HIDE DEF c, t
<1>4. Do(t, i) = Put(t, x, v)
  <2>1. Do(t, i) = Accessed(t, op, x, t.r[x] + 0)
    BY <1>0, <1>3, DoMem
  <2>2. t.r[x] + 0 = PoolAddr(v)
    BY <1>0, <1>3
  <2>3. Accessed(t, op, x, PoolAddr(v)) = Put(t, x, v)
    BY <1>0, PoolHolds DEF Accessed
  <2> QED
    BY <2>1, <2>2, <2>3
<1>5. i \in Selected
  <2>1. 0 \in Int
    OBVIOUS
  <2> QED
    BY <1>0, <2>1, SelectedCode
<1> HIDE DEF i
<1>6. Leaves(o, t, <<i>>, {x}, R(x), v)
  BY <1>0, <1>3, <1>4, <1>5, OnePut
<1>7. Leaves(o, s, c \o <<i>>, {x} \cup {x}, R(x), v)
  BY <1>2, <1>6, LeavesThen DEF t
<1>8. {x} \cup {x} = {x}
  OBVIOUS
<1> QED
  BY <1>1, <1>7, <1>8 DEF c, i, iMem

LEMMA FrameIndexCode ==
  ASSUME NEW o \in Int, NEW s, Computing(o, s), NEW x \in Temporaries
  PROVE  Leaves(o, s, <<Ins("ADDI", <<R(x), FI, Imm(0)>>)>>, {x}, R(x), FrameValue + o)
<1>1. x \in Working /\ FrameValue + o \in Int /\ 0 \in Int
  BY LayoutAssumption DEF Working, Temporaries
<1>2. iAddFI("ADDI", x, 0) \in Selected
  BY <1>1, SelectedCode
<1>3. Do(s, iAddFI("ADDI", x, 0)) = Put(s, x, (FrameValue + o) + 0)
  BY DoAddFI DEF Computing
<1>4. (FrameValue + o) + 0 = FrameValue + o
  BY <1>1
<1> QED
  BY <1>1, <1>2, <1>3, <1>4, OnePut DEF iAddFI

(* What stands for a leaf: its register, or the target node itself.        *)
LEMMA LeafOperands ==
  ASSUME NEW x \in Temporaries, NEW l \in BaseLeaves \cup ConstantLeaves
  PROVE  /\ LeafOperand(l, x) \in Sources
         /\ \/ LeafOperand(l, x) \in {R(x), R(Entry)}
            \/ \E v \in Int : LeafOperand(l, x) = Sym(v)
         /\ l \in ConstantLeaves => LeafOperand(l, x) = R(x)
         /\ LeafOperand(l, x).k = "reg" => LeafOperand(l, x) = R(LeafReg(l, x))
<1>0. x \in Working /\ Entry \in Working
  BY DEF Working, Temporaries
<1>1. ASSUME l.k # "TargetBlockAddress"
      PROVE  LeafOperand(l, x) = R(LeafReg(l, x)) /\ LeafOperand(l, x) \in {R(x), R(Entry)}
  BY <1>1 DEF LeafOperand, LeafReg
<1>2. ASSUME l \in ConstantLeaves
      PROVE  LeafOperand(l, x) = R(x)
  <2>1. PICK k \in {"Constant", "PoolLoad"}, v \in Offsets : l = Leaf(k, v, 0)
    BY <1>2 DEF ConstantLeaves
  <2> QED
    BY <2>1, LeafIs DEF LeafOperand, LeafReg
<1>3. ASSUME l.k = "TargetBlockAddress"
      PROVE  \E v \in Int : LeafOperand(l, x) = Sym(v)
  <2>1. l.v + l.o \in Int
    <3>1. CASE l \in ConstantLeaves
      <4>1. PICK k \in {"Constant", "PoolLoad"}, v \in Offsets : l = Leaf(k, v, 0)
        BY <3>1 DEF ConstantLeaves
      <4> QED
        BY <1>3, <4>1, LeafIs
    <3>2. CASE l \in {Leaf("Register", EntryValue, 0), Leaf("FrameIndex", 0, 0)}
      BY <1>3, <3>2, LeafIs
    <3>3. CASE l \in {Leaf(k, v, 0) : k \in {"PCREL_WRAPPER", "TPREL", "TargetBlockAddress"},
                                       v \in Int}
      <4>1. PICK k \in {"PCREL_WRAPPER", "TPREL", "TargetBlockAddress"}, v \in Int :
              l = Leaf(k, v, 0)
        BY <3>3
      <4> QED
        BY <4>1, LeafIs
    <3> QED
      BY <3>1, <3>2, <3>3 DEF BaseLeaves
  <2> QED
    BY <1>3, <2>1 DEF LeafOperand
<1>4. \A v : Sym(v).k # "reg"
  BY Operands
<1> QED
  BY <1>0, <1>1, <1>2, <1>3, <1>4 DEF Sources

(* A leaf's code leaves its value in what stands for it.                   *)
LEMMA LeafCode ==
  ASSUME NEW o \in Int, NEW s, Computing(o, s), NEW x \in Temporaries,
         NEW l \in BaseLeaves \cup ConstantLeaves, NEW c \in SelectLeaf(l, x)
  PROVE  Leaves(o, s, c, {x}, LeafOperand(l, x), LeafValue(l, o))
<1>0. ASSUME NEW y, NEW v, c = <<>>, Val(s, y) = v
      PROVE  Leaves(o, s, c, {x}, y, v)
  <2>1. Run(s, c) = s
    BY <1>0, RunNone
  <2>2. c \in Seq(Selected)
    BY <1>0
  <2>3. Changes({x}, s, s)
    BY DEF Changes
  <2> QED
    BY <1>0, <2>1, <2>2, <2>3 DEF Leaves
<1>1. CASE l = Leaf("Register", EntryValue, 0)
  <2>1. c = <<>>
    BY <1>1, LeafIs DEF SelectLeaf
  <2>2. LeafOperand(l, x) = R(Entry) /\ LeafValue(l, o) = EntryValue + 0
    BY <1>1, LeafIs, LeafValueIs DEF LeafOperand, LeafReg
  <2>3. EntryValue + 0 = EntryValue
    BY LayoutAssumption
  <2>4. Val(s, R(Entry)) = EntryValue
    BY OperandValues DEF Computing
  <2> QED
    BY <1>0, <2>1, <2>2, <2>3, <2>4
<1>2. CASE l = Leaf("FrameIndex", 0, 0)
  <2>1. c = <<Ins("ADDI", <<R(x), FI, Imm(0)>>)>>
    BY <1>2, LeafIs DEF SelectLeaf
  <2>2. LeafOperand(l, x) = R(x) /\ LeafValue(l, o) = FrameValue + o
    BY <1>2, LeafIs, LeafValueIs DEF LeafOperand, LeafReg
  <2>3. Leaves(o, s, c, {x}, R(x), FrameValue + o)
    BY <2>1, FrameIndexCode
  <2> QED
    BY <2>2, <2>3
<1>3. CASE l \in {Leaf(k, v, 0) : k \in {"PCREL_WRAPPER", "TPREL", "TargetBlockAddress"}, v \in Int}
  <2>1. PICK k \in {"PCREL_WRAPPER", "TPREL", "TargetBlockAddress"}, v \in Int : l = Leaf(k, v, 0)
    BY <1>3
  <2>2. l.k = k /\ l.v = v /\ l.o = 0 /\ LeafValue(l, o) = v + 0 /\ v + 0 \in Int
    BY <2>1, LeafIs, LeafValueIs
  <2>3. CASE k = "PCREL_WRAPPER"
    <3>1. c = LoadAddress(x, v + 0) /\ LeafOperand(l, x) = R(x)
      BY <2>2, <2>3 DEF SelectLeaf, LeafOperand, LeafReg
    <3> QED
      BY <2>2, <3>1, LoadAddressCode
  <2>4. CASE k = "TargetBlockAddress"
    <3>1. c = <<>> /\ LeafOperand(l, x) = Sym(v + 0)
      BY <2>2, <2>4 DEF SelectLeaf, LeafOperand
    <3>2. Val(s, Sym(v + 0)) = v + 0
      BY OperandValues
    <3> QED
      BY <1>0, <2>2, <3>1, <3>2
  <2>5. k # "TPREL"
    BY <2>2 DEF SelectLeaf
  <2> QED
    BY <2>3, <2>4, <2>5
<1>4. CASE l \in ConstantLeaves
  <2>1. PICK k \in {"Constant", "PoolLoad"}, v \in Offsets : l = Leaf(k, v, 0)
    BY <1>4 DEF ConstantLeaves
  <2>2. v \in Int
    BY ISelAssumption
  <2>3. LeafOperand(l, x) = R(x) /\ LeafValue(l, o) = v
    BY <1>4, <2>1, <2>2, LeafOperands, LeafIs, LeafValueIs
  <2>4. CASE k = "Constant"
    <3>1. c \in MoveImm(x, v)
      BY <2>1, <2>4, LeafIs DEF SelectLeaf
    <3> QED
      BY <2>2, <2>3, <3>1, MoveCode
  <2>5. CASE k = "PoolLoad"
    <3>1. PICK op \in Patterns("load32") :
            c = LoadAddress(x, lowerConstantPool(v).v) \o <<Ins(op, <<R(x), Imm(0), R(x)>>)>>
      <4>1. l.k = "PoolLoad" /\ l.v = v
        BY <2>1, <2>5, LeafIs
      <4> QED
        BY <4>1 DEF SelectLeaf
    <3>2. Leaves(o, s, LoadAddress(x, lowerConstantPool(v).v)
                         \o <<Ins(op, <<R(x), Imm(0), R(x)>>)>>, {x}, R(x), v)
      BY PoolCode
    <3> QED
      BY <2>3, <3>1, <3>2
  <2> QED
    BY <2>4, <2>5
<1> QED
  BY <1>1, <1>2, <1>3, <1>4 DEF BaseLeaves

LEMMA LeafRegs ==
  ASSUME NEW x \in Temporaries, NEW l
  PROVE  LeafReg(l, x) \in {x, Entry}
  BY DEF LeafReg

(* Either way to add a constant: as an immediate, or from a register of    *)
(* its own.                                                                *)
LEMMA SumCode ==
  ASSUME NEW o \in Int, NEW s, Computing(o, s), NEW x \in {Result, Ptr},
         NEW a \in BaseLeaves, NEW b \in ConstantLeaves, NEW c \in SelectSum(a, b, x)
  PROVE  Leaves(o, s, c, {x, Second}, R(x), LeafValue(a, o) + LeafValue(b, o))
<1> DEFINE y == LeafOperand(a, x)
<1>0. /\ x \in Temporaries /\ Second \in Temporaries /\ Second \in Working
      /\ y \in Sources
      /\ y \in {R(x), R(Entry)} \/ (\E v \in Int : y = Sym(v))
  <2>1. x \in Temporaries /\ Second \in Temporaries
    BY DEF Temporaries
  <2> QED
    BY <2>1, LeafOperands, NumberedRegisters
<1> DEFINE A == SelectLeaf(a, x)
           B == IF b.k = "Constant" /\ b.v \in imm8 THEN AddImm(x, y, b.v)
                ELSE {second \o add : second \in SelectLeaf(b, Second),
                                      add \in AddReg(x, y, Second)}
<1>6. SelectSum(a, b, x) = {first \o rest : first \in A, rest \in B}
  BY DEF SelectSum
<1> HIDE DEF A, B
<1>1. PICK first \in A, rest \in B : c = first \o rest
  BY <1>6
<1> DEFINE t == Run(s, first)
<1>2. Leaves(o, s, first, {x}, y, LeafValue(a, o))
  BY <1>0, LeafCode DEF A
<1> HIDE DEF y
<1>3. Computing(o, t) /\ Val(t, y) = LeafValue(a, o)
  BY <1>2 DEF Leaves
<1> HIDE DEF t
<1>4. CASE b.k = "Constant" /\ b.v \in imm8
  <2>1. b.v \in Int /\ LeafValue(b, o) = b.v
    <3>1. PICK k \in {"Constant", "PoolLoad"}, v \in Offsets : b = Leaf(k, v, 0)
      BY DEF ConstantLeaves
    <3>2. v \in Int
      BY ISelAssumption
    <3> QED
      BY <3>1, <3>2, LeafIs, LeafValueIs
  <2>2. rest \in AddImm(x, y, b.v)
    BY <1>1, <1>4 DEF B
  <2> DEFINE w == Val(t, y) + b.v
  <2>6. w = LeafValue(a, o) + LeafValue(b, o) /\ w = Val(t, y) + b.v
    BY <1>3, <2>1
  <2> HIDE DEF w
  <2>3. Leaves(o, t, rest, {x}, R(x), w)
    BY <1>0, <1>3, <2>1, <2>2, <2>6, AddImmCode
  <2>4. Leaves(o, s, c, {x} \cup {x}, R(x), w)
    BY <1>1, <1>2, <2>3, LeavesThen DEF t
  <2>5. Changes({x} \cup {x}, s, Run(s, c)) => Changes({x, Second}, s, Run(s, c))
    BY DEF Changes
  <2> QED
    BY <2>4, <2>5, <2>6 DEF Leaves
<1>5. CASE ~(b.k = "Constant" /\ b.v \in imm8)
  <2>1. PICK second \in SelectLeaf(b, Second), add \in AddReg(x, y, Second) :
          rest = second \o add
    BY <1>1, <1>5 DEF B
  <2> DEFINE u == Run(t, second)
  <2>2. Leaves(o, t, second, {Second}, R(Second), LeafValue(b, o))
    <3>1. LeafOperand(b, Second) = R(Second)
      BY <1>0, LeafOperands
    <3> QED
      BY <1>0, <1>3, <2>1, <3>1, LeafCode
  <2>3. Computing(o, u) /\ Val(u, R(Second)) = LeafValue(b, o) /\ Val(u, y) = Val(t, y)
    <3>1. x \in Registers \ {Second} /\ Entry \in Registers \ {Second}
      BY NumberedRegisters
    <3>2. u.r[x] = t.r[x] /\ u.r[Entry] = t.r[Entry]
      BY <2>2, <3>1 DEF Leaves, Changes
    <3>3. Val(u, y) = Val(t, y)
      <4>1. CASE y = R(x)
        BY <3>2, <4>1, OperandValues
      <4>2. CASE y = R(Entry)
        BY <3>2, <4>2, OperandValues
      <4>3. CASE \E v \in Int : y = Sym(v)
        BY <4>3, OperandValues
      <4> QED
        BY <1>0, <4>1, <4>2, <4>3
    <3> QED
      BY <2>2, <3>3 DEF Leaves
  <2> HIDE DEF u
  <2> DEFINE w == Val(u, y) + Val(u, R(Second))
  <2>8. w = LeafValue(a, o) + LeafValue(b, o) /\ w = Val(u, y) + Val(u, R(Second))
    BY <1>3, <2>3
  <2> HIDE DEF w
  <2>4. Leaves(o, u, add, {x}, R(x), w)
    BY <1>0, <2>1, <2>3, <2>8, AddRegCode
  <2>5. Leaves(o, t, rest, {Second} \cup {x}, R(x), w)
    BY <2>1, <2>2, <2>4, LeavesThen DEF u
  <2>6. Leaves(o, s, c, {x} \cup ({Second} \cup {x}), R(x), w)
    BY <1>1, <1>2, <2>5, LeavesThen DEF t
  <2>7. {x} \cup ({Second} \cup {x}) = {x, Second}
    OBVIOUS
  <2> QED
    BY <2>6, <2>7, <2>8
<1> QED
  BY <1>4, <1>5

LEMMA ValueCode ==
  ASSUME NEW o \in Int, NEW s, Computing(o, s), NEW x \in {Result, Ptr},
         NEW d \in Lowered, NEW c \in SelectValue(d, x)
  PROVE  Leaves(o, s, c, {x, Second}, ValueOperand(d, x), DAGValue(d, o))
<1>1. CASE d \in {<<a>> : a \in BaseLeaves \cup ConstantLeaves}
  <2>1. PICK a \in BaseLeaves \cup ConstantLeaves : d = <<a>>
    BY <1>1
  <2>2. /\ c \in SelectLeaf(a, x) /\ ValueOperand(d, x) = LeafOperand(a, x)
        /\ DAGValue(d, o) = LeafValue(a, o) + 0
    BY <2>1, Singleton DEF SelectValue, ValueOperand
  <2>3. LeafValue(a, o) + 0 = LeafValue(a, o)
    BY LeavesTyped
  <2>4. Leaves(o, s, c, {x}, LeafOperand(a, x), LeafValue(a, o))
    <3>1. x \in Temporaries
      BY DEF Temporaries
    <3> QED
      BY <2>2, <3>1, LeafCode
  <2>5. Changes({x}, s, Run(s, c)) => Changes({x, Second}, s, Run(s, c))
    BY DEF Changes
  <2> QED
    BY <2>2, <2>3, <2>4, <2>5 DEF Leaves
<1>2. CASE d \in {<<a, b>> : a \in BaseLeaves, b \in ConstantLeaves}
  <2>1. PICK a \in BaseLeaves, b \in ConstantLeaves : d = <<a, b>>
    BY <1>2
  <2>2. /\ c \in SelectSum(a, b, x) /\ ValueOperand(d, x) = R(x)
        /\ DAGValue(d, o) = LeafValue(a, o) + LeafValue(b, o)
    BY <2>1, Pair DEF SelectValue, ValueOperand
  <2> QED
    BY <2>2, SumCode
<1> QED
  BY <1>1, <1>2 DEF Lowered

(* The register of a value that has one.                                   *)
LEMMA ValueRegister ==
  ASSUME NEW d \in Lowered, NEW x \in Temporaries
  PROVE  /\ ValueOperand(d, x) \in Sources
         /\ ValueOperand(d, x).k = "reg" => ValueOperand(d, x) = R(ValueReg(d, x))
<1>0. R(x) \in Sources
  BY DEF Sources, Working, Temporaries
<1>1. CASE Len(d) = 2
  BY <1>0, <1>1 DEF ValueOperand, ValueReg
<1>2. CASE Len(d) # 2
  <2>1. PICK a \in BaseLeaves \cup ConstantLeaves : d = <<a>>
    BY <1>2, Pair DEF Lowered
  <2> QED
    BY <1>2, <2>1, Singleton, LeafOperands DEF ValueOperand, ValueReg
<1> QED
  BY <1>1, <1>2

LEMMA Triple ==
  ASSUME NEW x, NEW y, NEW z
  PROVE  <<x>> \o <<y, z>> = <<x, y, z>>
<1> DEFINE S == {x, y, z}  a == <<x>>  b == <<y, z>>  c == <<x, y, z>>
<1>1. /\ a \in Seq(S) /\ b \in Seq(S) /\ c \in Seq(S)
      /\ Len(a) = 1 /\ Len(b) = 2 /\ Len(c) = 3
      /\ a[1] = x /\ b[1] = y /\ b[2] = z
      /\ c[1] = x /\ c[2] = y /\ c[3] = z
  OBVIOUS
<1> HIDE DEF a, b, c, S
<1>2. /\ a \o b \in Seq(S) /\ Len(a \o b) = Len(a) + Len(b)
      /\ \A i \in 1 .. Len(a) + Len(b) : (a \o b)[i] = IF i <= Len(a) THEN a[i] ELSE b[i - Len(a)]
  BY <1>1, ConcatProperties
<1>3. Len(a \o b) = 3 /\ \A i \in 1 .. 3 : (a \o b)[i] = c[i]
  BY <1>1, <1>2
<1>4. a \o b = c
  BY <1>1, <1>2, <1>3, SeqEqual
<1> QED
  BY <1>4 DEF a, b, c

(* selectMemRegAddr divides the address and drops no part of it.           *)
LEMMA AddressParts ==
  ASSUME NEW d \in Lowered, NEW o \in Int
  PROVE  /\ selectMemRegAddr(d).base \in Lowered
         /\ selectMemRegAddr(d).off \in Int
         /\ DAGValue(selectMemRegAddr(d).base, o) + selectMemRegAddr(d).off = DAGValue(d, o)
<1>0. DAGValue(d, o) \in Int
  <2>1. CASE d \in {<<a>> : a \in BaseLeaves \cup ConstantLeaves}
    BY <2>1, Singleton, LeavesTyped
  <2>2. CASE d \in {<<a, b>> : a \in BaseLeaves, b \in ConstantLeaves}
    <3>1. PICK a \in BaseLeaves, b \in ConstantLeaves : d = <<a, b>>
      BY <2>2
    <3>2. LeafValue(a, o) \in Int /\ LeafValue(b, o) \in Int
      BY LeavesTyped
    <3> QED
      BY <3>1, <3>2, Pair
  <2> QED
    BY <2>1, <2>2 DEF Lowered
<1>1. CASE Len(d) = 2 /\ d[2].k = "Constant" /\ isInt12(d[2].v)
  <2>1. d \in {<<a, b>> : a \in BaseLeaves, b \in ConstantLeaves}
    BY <1>1, Singleton DEF Lowered
  <2>2. PICK a \in BaseLeaves, b \in ConstantLeaves : d = <<a, b>>
    BY <2>1
  <2>3. selectMemRegAddr(d).base = <<a>> /\ selectMemRegAddr(d).off = b.v
    BY <1>1, <2>2, Pair DEF selectMemRegAddr
  <2>4. b.v \in Int /\ LeafValue(b, o) = b.v
    <3>1. PICK k \in {"Constant", "PoolLoad"}, v \in Offsets : b = Leaf(k, v, 0)
      BY DEF ConstantLeaves
    <3>2. v \in Int
      BY ISelAssumption
    <3> QED
      BY <3>1, <3>2, LeafIs, LeafValueIs
  <2>5. <<a>> \in Lowered
    BY DEF Lowered
  <2>6. DAGValue(<<a>>, o) = LeafValue(a, o) + 0 /\ LeafValue(a, o) \in Int
    BY Singleton, LeavesTyped
  <2>7. DAGValue(d, o) = LeafValue(a, o) + LeafValue(b, o)
    BY <2>2, Pair
  <2> QED
    BY <2>3, <2>4, <2>5, <2>6, <2>7
<1>2. CASE ~(Len(d) = 2 /\ d[2].k = "Constant" /\ isInt12(d[2].v))
  <2>1. selectMemRegAddr(d).base = d /\ selectMemRegAddr(d).off = 0
    BY <1>2 DEF selectMemRegAddr
  <2> QED
    BY <1>0, <2>1
<1> QED
  BY <1>1, <1>2

(* No constant is at this address.                                         *)
Unpooled(at) == PoolEntry(at) = {}

(* The machine has made one access.                                        *)
Made(s, access) == s.acc = <<access>>

(* An access at an address where no constant is, and where none was before.*)
LEMMA AccessRecorded ==
  ASSUME NEW s \in States, s.acc = <<>>, NEW op \in Accessing, NEW x,
         NEW at \in Int, Unpooled(at)
  PROVE  Made(Accessed(s, op, x, at), Access(op, at))
<1>1. Accessed(s, op, x, at) = Noted(s, op, at)
  BY DEF Accessed, Unpooled
<1>2. Noted(s, op, at).acc = Append(s.acc, Access(op, at))
  BY NotedIs
<1>3. \A e : Append(<<>>, e) = <<e>>
  OBVIOUS
<1> QED
  BY <1>1, <1>2, <1>3 DEF Made

LEMMA MemRecorded ==
  ASSUME NEW s \in States, s.text = FALSE, s.acc = <<>>, NEW op \in Accessing, NEW x,
         NEW v, NEW y, y.k # "imm", NEW at \in Int, at = Val(s, y) + v, Unpooled(at)
  PROVE  Made(Do(s, iMemAt(op, x, v, y)), Access(op, at))
<1>1. Do(s, iMemAt(op, x, v, y)) = Accessed(s, op, x, Val(s, y) + v)
  BY DoMemAt, Zenon
<1> QED
  BY <1>1, AccessRecorded

(* Code c makes one access, at the given address, by one of ops.           *)
Performs(s, c, ops, at) ==
  c \in Seq(Selected) /\ \E op \in ops : Made(Run(s, c), Access(op, at))

LEMMA AccessCode ==
  ASSUME NEW o \in Int, NEW s, Computing(o, s), s.acc = <<>>,
         NEW x \in Working, NEW ops, ops \subseteq Accessing,
         NEW d \in Lowered, NEW at, at = DAGValue(d, o), Unpooled(at),
         NEW c \in AccessAt(ops, <<R(x)>>, selectMemRegAddr(d))
  PROVE  Performs(s, c, ops, at)
<1> DEFINE am == selectMemRegAddr(d)
           off == am.off
           base == am.base
<1>0. base \in Lowered /\ off \in Int /\ DAGValue(base, o) + off = at /\ x \in Working
  BY AddressParts
<1>1. CASE base = <<Leaf("FrameIndex", 0, 0)>>
  <2>1. PICK op \in ops : c = <<Ins(op, <<R(x)>> \o <<Imm(off), FI>>)>>
    BY <1>1 DEF AccessAt
  <2> HIDE DEF off, base
  <2>2. c = <<iMemFI(op, x, off)>>
    BY <2>1, Triple DEF iMemFI
  <2>3. iMemFI(op, x, off) \in Selected
    BY <1>0, SelectedCode
  <2>4. c \in Seq(Selected)
    BY <2>2, <2>3
  <2>5. FrameValue \in Int /\ DAGValue(base, o) = FrameValue + o
    <3>1. DAGValue(base, o) = LeafValue(Leaf("FrameIndex", 0, 0), o) + 0
      BY <1>1, Singleton
    <3>2. LeafValue(Leaf("FrameIndex", 0, 0), o) = FrameValue + o
      BY LeafValueIs
    <3> QED
      BY <3>1, <3>2, LayoutAssumption
  <2>6. (FrameValue + o) + off = at /\ at \in Int
    BY <1>0, <2>5
  <2>7. s.text = FALSE /\ s.object = o /\ s \in States
    BY DEF Computing
  <2>8. Do(s, iMemFI(op, x, off)) = Accessed(s, op, x, (FrameValue + o) + off)
    BY <2>7, DoMemFI
  <2>9. Run(s, c) = Accessed(s, op, x, at)
    BY <2>2, <2>6, <2>8, RunOne
  <2>10. Made(Run(s, c), Access(op, at))
    BY <2>6, <2>7, <2>9, AccessRecorded
  <2> QED
    BY <2>4, <2>10 DEF Performs
<1>2. CASE base # <<Leaf("FrameIndex", 0, 0)>>
  <2> DEFINE y == ValueOperand(base, Ptr)
  <2>1. PICK address \in SelectValue(base, Ptr), op \in ops :
          c = address \o <<Ins(op, <<R(x)>> \o <<Imm(off), y>>)>>
    BY <1>2 DEF AccessAt
  <2> DEFINE t == Run(s, address)
  <2> HIDE DEF off, base
  <2>2. Leaves(o, s, address, {Ptr, Second}, y, DAGValue(base, o))
    <3>1. Ptr \in {Result, Ptr}
      OBVIOUS
    <3> QED
      BY <1>0, <2>1, <3>1, ValueCode
  <2>3. y \in Sources /\ y.k # "imm"
    <3>1. Ptr \in Temporaries
      BY DEF Temporaries
    <3> QED
      BY <1>0, <3>1, ValueRegister, SourceIs
  <2> HIDE DEF y
  <2>4. address \in Seq(Selected) /\ t \in States /\ t.text = FALSE /\ t.acc = <<>>
    BY <2>2 DEF Leaves, Computing, Changes
  <2>5. Val(t, y) = DAGValue(base, o)
    BY <2>2 DEF Leaves
  <2> HIDE DEF t
  <2>6. c = address \o <<iMemAt(op, x, off, y)>>
    BY <2>1, Triple DEF iMemAt
  <2>7. iMemAt(op, x, off, y) \in Selected
    BY <1>0, <2>3, SourceCode
  <2>8. <<iMemAt(op, x, off, y)>> \in Seq(Selected)
    BY <2>7
  <2>9. c \in Seq(Selected)
    BY <2>4, <2>6, <2>8, ConcatProperties
  <2>10. Run(s, c) = Do(t, iMemAt(op, x, off, y))
    <3> DEFINE i == iMemAt(op, x, off, y)
    <3>1. <<i>> \in Seq(Selected) /\ c = address \o <<i>>
      BY <2>6, <2>8
    <3> HIDE DEF i
    <3>2. Run(s, address \o <<i>>) = Run(t, <<i>>)
      BY <2>4, <3>1, RunConcat DEF t
    <3>3. Run(t, <<i>>) = Do(t, i)
      BY RunOne
    <3> QED
      BY <3>1, <3>2, <3>3 DEF i
  <2>11. Val(t, y) + off = at /\ at \in Int
    <3>1. Val(t, y) \in Int
      BY <2>3, <2>4, SourceValue
    <3> QED
      BY <1>0, <2>5, <3>1
  <2>12. op \in Accessing
    OBVIOUS
  <2>13. Made(Do(t, iMemAt(op, x, off, y)), Access(op, at))
    <3>1. t \in States /\ t.text = FALSE /\ t.acc = <<>>
      BY <2>4
    <3>2. at = Val(t, y) + off /\ at \in Int /\ y.k # "imm"
      BY <2>3, <2>11
    <3> QED
      BY <2>12, <3>1, <3>2, MemRecorded
  <2> QED
    BY <2>9, <2>10, <2>13 DEF Performs
<1> QED
  BY <1>1, <1>2

LEMMA PatternsAnswer ==
  ASSUME NEW n, NEW o, n.use \in Loads \cup Stores, NEW op \in Patterns(n.use)
  PROVE  /\ op \in Accessing
         /\ n.use # "load8s" => Access(op, Address(n, o)) \in Answers(n, o)
<1> DEFINE a == Address(n, o)
<1> HIDE DEF a
<1>1. CASE n.use \in {"load8s", "load8"}
  BY <1>1 DEF Patterns, Accessing, LoadOps, StoreOps, Loads, Stores, Access, Width, Extends,
              Answers, a
<1>2. CASE n.use \in {"load8z", "load16s", "load16z", "load16"}
  BY <1>2 DEF Patterns, Accessing, LoadOps, StoreOps, Loads, Stores, Access, Width, Extends,
              Answers, a
<1>3. CASE n.use = "load32"
  BY <1>3 DEF Patterns, Accessing, LoadOps, StoreOps, Loads, Stores, Access, Width, Extends,
              Answers, a
<1>4. CASE n.use \in {"store8", "store16", "store32"}
  BY <1>4 DEF Patterns, Accessing, LoadOps, StoreOps, Loads, Stores, Access, Width, Extends,
              Answers, a
<1> QED
  BY <1>1, <1>2, <1>3, <1>4 DEF Loads, Stores

LEMMA AsmAnswers ==
  ASSUME NEW n, NEW o, n.use = "asm"
  PROVE  Access("INLINEASM", Address(n, o)) \in Answers(n, o)
  BY DEF LoadOps, StoreOps, Loads, Stores, Access, Width, Extends, Answers

(* Whatever the matcher selects computes the node: the one thing it has no *)
(* instruction for is the sign extension of a byte.                        *)
LEMMA SelectionComputes ==
  ASSUME NEW n \in Nodes, NEW o \in Objects, NEW d \in Lowered,
         DAGValue(d, o) = Address(n, o), NEW c \in Selections(n, d)
  PROVE  /\ c \in Seq(Selected)
         /\ n.use # "load8s" => Computes(Run(Start(o, FALSE), c), n, o, d)
<1> DEFINE s == Start(o, FALSE)
<1>0. o \in Int /\ Computing(o, s) /\ s.acc = <<>>
  BY ISelAssumption, StartIs DEF Computing
<1> HIDE DEF s
<1>1. Unpooled(DAGValue(d, o))
  BY LayoutAssumption DEF PoolEntry, Unpooled
<1>2. n.use \in {"value", "asm"} \cup Loads \cup Stores
  BY NodeIs, ISelAssumption
<1>3. CASE n.use = "value"
  <2>1. c \in SelectValue(d, Result) /\ ValueOperand(d, Result).k = "reg"
    BY <1>3 DEF Selections
  <2>2. Leaves(o, s, c, {Result, Second}, ValueOperand(d, Result), DAGValue(d, o))
    <3>1. Result \in {Result, Ptr}
      OBVIOUS
    <3> QED
      BY <1>0, <2>1, <3>1, ValueCode
  <2>3. ValueOperand(d, Result) = R(ValueReg(d, Result))
    <3>1. Result \in Temporaries
      BY DEF Temporaries
    <3> QED
      BY <2>1, <3>1, ValueRegister
  <2>4. Run(s, c).r[ValueReg(d, Result)] = DAGValue(d, o)
    BY <2>2, <2>3, OperandValues DEF Leaves
  <2> QED
    BY <1>3, <2>2, <2>4 DEF Leaves, Computes, s
<1>4. CASE n.use = "asm"
  <2>1. c \in AccessAt({"INLINEASM"}, <<R(Result)>>, selectMemRegAddr(d))
    BY <1>4 DEF Selections, SelectInlineAsmMemoryOperand
  <2>2. {"INLINEASM"} \subseteq Accessing /\ Result \in Working
    BY DEF Accessing, Working
  <2>3. Performs(s, c, {"INLINEASM"}, DAGValue(d, o))
    BY <1>0, <1>1, <2>1, <2>2, AccessCode
  <2> QED
    BY <1>4, <2>3, AsmAnswers DEF Performs, Made, Computes, s
<1>5. CASE n.use \in Loads \cup Stores
  <2> DEFINE x == IF n.use \in Loads THEN Result ELSE Entry
             ops == Patterns(n.use)
  <2>1. c \in AccessAt(ops, <<R(x)>>, selectMemRegAddr(d)) /\ n.use # "value"
    BY <1>5 DEF Selections, SelectAccess, Loads, Stores
  <2>2. x \in Working
    BY DEF Working
  <2>3. ops \subseteq Accessing
    BY <1>5, PatternsAnswer
  <2> HIDE DEF x, ops
  <2>4. Performs(s, c, ops, DAGValue(d, o))
    BY <1>0, <1>1, <2>1, <2>2, <2>3, AccessCode
  <2>5. PICK op \in ops : Made(Run(s, c), Access(op, Address(n, o)))
    BY <2>4 DEF Performs
  <2>6. n.use # "load8s" => Access(op, Address(n, o)) \in Answers(n, o)
    BY <1>5, PatternsAnswer DEF ops
  <2> QED
    BY <2>1, <2>4, <2>5, <2>6 DEF Performs, Made, Computes, s
<1> QED
  BY <1>2, <1>3, <1>4, <1>5
--------------------------------------------------------------------------------
(***************************************************************************)
(* The hooks, one after the other.                                         *)
(***************************************************************************)
LEMMA ComputesAlike ==
  ASSUME NEW o, NEW s, NEW t, AlikeStates(o, s, t), NEW n, NEW d, Computes(s, n, o, d)
  PROVE  Computes(t, n, o, d)
<1>1. ValueReg(d, Result) \in Registers \ {Scratch}
  <2>1. Result \in Temporaries
    BY DEF Temporaries
  <2>2. LeafReg(d[1], Result) \in {Result, Entry}
    BY <2>1, LeafRegs
  <2> QED
    BY <2>2, NumberedRegisters DEF ValueReg
<1>2. s.acc = t.acc /\ s.r[ValueReg(d, Result)] = t.r[ValueReg(d, Result)]
  BY <1>1 DEF AlikeStates
<1> QED
  BY <1>2 DEF Computes

LEMMA ComputesAgreed ==
  ASSUME NEW text, NEW s, NEW t, Agree(text, s, t), NEW n, NEW o, NEW d, Computes(s, n, o, d)
  PROVE  Computes(t, n, o, d)
  BY DEF Agree, Computes

(* What the passes make of selection c.                                    *)
EliminatedOf(c, o) == FlattenSeq(ReplacedFI(o, c))
LoweredOf(c, o)    == LowerEach(EliminatedOf(c, o))
PrintedOf(c, o)    == PrintEach(LoweredOf(c, o))

LEMMA PassesTyped ==
  ASSUME NEW c \in Seq(Selected), NEW o \in Objects
  PROVE  /\ EliminatedOf(c, o) \in Seq(Eliminated)
         /\ LoweredOf(c, o) \in Seq(LoweredForms)
<1>0. o \in Int
  BY ISelAssumption
<1>1. EliminatedOf(c, o) \in Seq(Eliminated)
  BY <1>0, Starts, EliminateRun DEF EliminatedOf
<1>2. LowerEach(EliminatedOf(c, o)) \in Seq(LoweredForms)
  BY <1>0, <1>1, Starts, LowerRun
<1> QED
  BY <1>1, <1>2 DEF LoweredOf

LEMMA PassesCompute ==
  ASSUME NEW c \in Seq(Selected), NEW o \in Objects, NEW n, NEW d,
         Computes(Run(Start(o, FALSE), c), n, o, d)
  PROVE  /\ Computes(Run(Start(o, FALSE), EliminatedOf(c, o)), n, o, d)
         /\ Computes(Run(Start(o, FALSE), LoweredOf(c, o)), n, o, d)
         /\ (\A j \in DOMAIN LoweredOf(c, o) :
               PrintAsserts(LoweredOf(c, o)[j]) /\ LoweredOf(c, o)[j].op # "LA")
              => Computes(Run(Start(o, TRUE), PrintedOf(c, o)), n, o, d)
<1> DEFINE s == Start(o, FALSE)  t == Start(o, TRUE)
           e == EliminatedOf(c, o)  l == LoweredOf(c, o)
<1>0. /\ o \in Int
      /\ AlikeStates(o, s, s) /\ Agree(FALSE, s, s) /\ Agree(TRUE, s, t)
  BY ISelAssumption, Starts
<1>1. e \in Seq(Eliminated) /\ l \in Seq(LoweredForms)
  BY PassesTyped
<1>2. AlikeStates(o, Run(s, c), Run(s, e))
  BY <1>0, EliminateRun DEF EliminatedOf
<1>3. Agree(FALSE, Run(s, e), Run(s, l))
  <2> HIDE DEF s, e
  <2> QED
    BY <1>0, <1>1, LowerRun DEF LoweredOf, e
<1>4. ASSUME \A j \in DOMAIN l : PrintAsserts(l[j]) /\ l[j].op # "LA"
      PROVE  Agree(TRUE, Run(s, l), Run(t, PrintEach(l)))
  <2> HIDE DEF s, t, l
  <2> QED
    BY <1>0, <1>1, <1>4, PrintRun
<1>5. Computes(Run(s, c), n, o, d)
  OBVIOUS
<1> HIDE DEF s, t
<1>6. Computes(Run(s, e), n, o, d)
  BY <1>2, <1>5, ComputesAlike
<1>7. Computes(Run(s, l), n, o, d)
  BY <1>3, <1>6, ComputesAgreed
<1>8. ASSUME \A j \in DOMAIN l : PrintAsserts(l[j]) /\ l[j].op # "LA"
      PROVE  Computes(Run(t, PrintedOf(c, o)), n, o, d)
  <2>1. Agree(TRUE, Run(s, l), Run(t, PrintedOf(c, o)))
    BY <1>4, <1>8 DEF PrintedOf
  <2> QED
    BY <1>7, <2>1, ComputesAgreed
<1> QED
  BY <1>6, <1>7, <1>8 DEF s, t

Stages ==
  {"legalize", "select", "insert", "frame", "lower", "print", "printed", "failed", "asserted"}

(* The DAG, and the instructions, at each stage.                           *)
CodeInv ==
  /\ stage \in {"legalize", "select", "failed"} => code = <<>>
  /\ stage \in {"insert", "frame"} => code \in Selections(node, dag)
  /\ stage = "lower" =>
       \E c \in Selections(node, dag) : code = EliminatedOf(c, object)
  /\ stage \in {"print", "asserted"} =>
       \E c \in Selections(node, dag) : code = LoweredOf(c, object)
  /\ stage = "printed" =>
       \E c \in Selections(node, dag) :
         /\ \A j \in DOMAIN LoweredOf(c, object) : PrintAsserts(LoweredOf(c, object)[j])
         /\ code = PrintedOf(c, object)

ISelInv ==
  /\ node \in Nodes
  /\ object \in Objects
  /\ stage \in Stages
  /\ dag = IF stage = "legalize" THEN DAGOf(node) ELSE LoweredDAG(DAGOf(node))
  /\ CodeInv

LEMMA SelectionTyped ==
  ASSUME NEW n \in Nodes, NEW o \in Objects, NEW c \in Selections(n, LoweredDAG(DAGOf(n)))
  PROVE  /\ c \in Seq(Selected)
         /\ n.use # "load8s" =>
              Computes(Run(Start(o, FALSE), c), n, o, LoweredDAG(DAGOf(n)))
<1> DEFINE d == LoweredDAG(DAGOf(n))
<1>1. o \in Int
  BY ISelAssumption
<1>2. d \in Lowered /\ DAGValue(d, o) = Address(n, o)
  BY <1>1, DAGIs
<1> HIDE DEF d
<1>3. \A x \in Selections(n, d) :
        /\ x \in Seq(Selected)
        /\ n.use # "load8s" => Computes(Run(Start(o, FALSE), x), n, o, d)
  BY <1>2, SelectionComputes
<1> QED
  BY <1>3 DEF d

LEMMA InserterKeeps ==
  ASSUME NEW X, NEW c \in Seq(X)
  PROVE  [j \in DOMAIN c |-> EmitInstrWithCustomInserter(c[j])] = c
<1>1. c = [j \in DOMAIN c |-> c[j]]
  BY LenProperties
<1> QED
  BY <1>1 DEF EmitInstrWithCustomInserter

(* The passes leave node, object and dag as they are; the DAG is lowered   *)
(* from then on.                                                           *)
LEMMA ISelStep ==
  ASSUME ISelInv, [Next]_vars
  PROVE  ISelInv'
<1> USE DEF Stages
<1>1. CASE Legalize
  BY <1>1 DEF ISelInv, CodeInv, Legalize, LoweredDAG
<1>2. CASE Select
  BY <1>2 DEF ISelInv, CodeInv, Select
<1>3. CASE CannotSelect
  BY <1>3 DEF ISelInv, CodeInv, CannotSelect
<1>4. CASE ExpandPseudos
  <2>1. code \in Selections(node, dag) /\ dag = LoweredDAG(DAGOf(node)) /\ node \in Nodes
        /\ object \in Objects
    BY <1>4 DEF ISelInv, CodeInv, ExpandPseudos, Pass
  <2>2. code \in Seq(Selected)
    BY <2>1, SelectionTyped
  <2>3. code' = code
    BY <1>4, <2>2, InserterKeeps DEF ExpandPseudos, Pass
  <2> QED
    BY <1>4, <2>1, <2>3 DEF ISelInv, CodeInv, ExpandPseudos, Pass
<1>5. CASE ReplaceFrameIndices
  <2>1. code \in Selections(node, dag)
    BY <1>5 DEF ISelInv, CodeInv, ReplaceFrameIndices, Pass
  <2>2. code' = EliminatedOf(code, object)
    BY <1>5 DEF ReplaceFrameIndices, Pass, EliminatedOf, ReplacedFI
  <2> QED
    BY <1>5, <2>1, <2>2 DEF ISelInv, CodeInv, ReplaceFrameIndices, Pass
<1>6. CASE Lower
  <2>1. PICK c \in Selections(node, dag) : code = EliminatedOf(c, object)
    BY <1>6 DEF ISelInv, CodeInv, Lower, Pass
  <2>2. code' = LoweredOf(c, object)
    BY <1>6, <2>1 DEF Lower, Pass, LoweredOf, LowerEach
  <2> QED
    BY <1>6, <2>1, <2>2 DEF ISelInv, CodeInv, Lower, Pass
<1>7. CASE EmitText
  <2>1. PICK c \in Selections(node, dag) : code = LoweredOf(c, object)
    BY <1>7 DEF ISelInv, CodeInv, EmitText, Pass
  <2>2. code' = PrintedOf(c, object)
    BY <1>7, <2>1 DEF EmitText, Pass, PrintedOf, PrintEach
  <2>3. \A j \in DOMAIN LoweredOf(c, object) : PrintAsserts(LoweredOf(c, object)[j])
    BY <1>7, <2>1 DEF EmitText
  <2> QED
    BY <1>7, <2>1, <2>2, <2>3 DEF ISelInv, CodeInv, EmitText, Pass
<1>8. CASE PrintFails
  BY <1>8 DEF ISelInv, CodeInv, PrintFails
<1>9. CASE UNCHANGED vars
  BY <1>9 DEF ISelInv, CodeInv, vars
<1> QED
  BY <1>1, <1>2, <1>3, <1>4, <1>5, <1>6, <1>7, <1>8, <1>9 DEF Next

(* Which instructions each stage has: what the hooks so far make of one of *)
(* the selections for the lowered DAG.                                     *)
THEOREM ISelInvariant == Spec => []ISelInv
<1>1. Init => ISelInv
  BY DEF Init, ISelInv, CodeInv, Stages
<1> QED
  BY <1>1, ISelStep, PTL DEF Spec

LEMMA PrintKeepsOp ==
  ASSUME NEW i
  PROVE  printInst(i).op = i.op
  BY InsIs DEF printInst, printMemOperand

LEMMA ISelTypes ==
  ASSUME ISelInv
  PROVE  TypeOK
<1>0. node \in Nodes /\ object \in Objects /\ object \in Int /\ stage \in Stages
  BY ISelAssumption DEF ISelInv
<1>1. Len(dag) \in 1 .. 2 /\ dag \in Seq([k : Kinds, v : Int, o : Int])
  <2>1. CASE stage = "legalize"
    <3>1. Kinds = BaseKinds \cup {"Constant"}
      BY <2>1 DEF Kinds, BaseKinds
    <3> QED
      BY <1>0, <2>1, <3>1, DAGIs DEF ISelInv
  <2>2. CASE stage # "legalize"
    <3>1. Kinds = LoweredKinds
      BY <2>2 DEF Kinds, LoweredKinds
    <3>2. dag \in Lowered
      BY <1>0, <2>2, DAGIs DEF ISelInv
    <3> QED
      BY <3>1, <3>2, LoweredTypes
  <2> QED
    BY <2>1, <2>2
<1>2. \A c \in Selections(node, dag) : stage # "legalize" =>
        /\ c \in Seq(Selected)
        /\ EliminatedOf(c, object) \in Seq(Eliminated)
        /\ LoweredOf(c, object) \in Seq(LoweredForms)
  BY <1>0, SelectionTyped, PassesTyped DEF ISelInv
<1>3. \A j \in DOMAIN code : Typed(OperandKinds, code[j])
  <2>1. CASE stage \in {"legalize", "select", "failed"}
    <3>1. code = <<>>
      BY <2>1 DEF ISelInv, CodeInv
    <3> QED
      BY <3>1
  <2>2. CASE stage \in {"insert", "frame"}
    <3>1. code \in Seq(Selected)
      BY <1>2, <2>2 DEF ISelInv, CodeInv
    <3>2. OperandKinds = {"reg", "imm", "fi", "sym"}
      BY <2>2 DEF OperandKinds
    <3>3. \A j \in DOMAIN code : code[j] \in Selected
      BY <3>1, LenProperties, ElementOfSeq
    <3> QED
      BY <3>2, <3>3, SelectedTyped
  <2>3. CASE stage = "lower"
    <3>1. code \in Seq(Eliminated)
      BY <1>2, <2>3 DEF ISelInv, CodeInv
    <3>2. OperandKinds = {"reg", "imm", "sym"}
      BY <2>3 DEF OperandKinds
    <3>3. \A j \in DOMAIN code : code[j] \in Eliminated
      BY <3>1, LenProperties, ElementOfSeq
    <3> QED
      BY <3>2, <3>3, EliminatedTyped
  <2>4. CASE stage \in {"print", "asserted"}
    <3>1. code \in Seq(LoweredForms)
      BY <1>2, <2>4 DEF ISelInv, CodeInv
    <3>2. OperandKinds = {"reg", "imm", "expr"}
      BY <2>4 DEF OperandKinds
    <3>3. \A j \in DOMAIN code : code[j] \in LoweredForms
      BY <3>1, LenProperties, ElementOfSeq
    <3> QED
      BY <3>2, <3>3, LoweredTyped
  <2>5. CASE stage = "printed"
    <3>1. PICK c \in Selections(node, dag) :
            /\ \A j \in DOMAIN LoweredOf(c, object) : PrintAsserts(LoweredOf(c, object)[j])
            /\ code = PrintedOf(c, object)
      BY <2>5 DEF ISelInv, CodeInv
    <3> DEFINE l == LoweredOf(c, object)
    <3>2. l \in Seq(LoweredForms)
      BY <1>2, <2>5
    <3>3. OperandKinds = {"reg", "imm", "expr"}
      BY <2>5 DEF OperandKinds
    <3>4. \A j \in DOMAIN l : l[j] \in LoweredForms
      <4> HIDE DEF l
      <4> QED
        BY <3>2, LenProperties, ElementOfSeq
    <3>5. code = [j \in DOMAIN l |-> printInst(l[j])]
      BY <3>1 DEF PrintedOf, PrintEach
    <3>6. \A j \in DOMAIN l : PrintAsserts(l[j])
      BY <3>1
    <3> HIDE DEF l
    <3>7. \A j \in DOMAIN l : Typed({"reg", "imm", "expr"}, printInst(l[j]))
      BY <3>4, <3>6, LoweredTyped
    <3> QED
      BY <3>3, <3>5, <3>7
  <2> QED
    BY <1>0, <2>1, <2>2, <2>3, <2>4, <2>5 DEF Stages
<1> QED
  BY <1>0, <1>1, <1>3 DEF TypeOK, Typed, Stages

(* Each hook is handed only the leaves, operands and opcodes it knows.     *)
THEOREM ISelTypeCorrect == Spec => []TypeOK
  BY ISelInvariant, ISelTypes, PTL

LEMMA ISelMeaning ==
  ASSUME ISelInv, node.use # "load8s"
  PROVE  MeaningPreserved
<1>0. node \in Nodes /\ object \in Objects /\ object \in Int
  BY ISelAssumption DEF ISelInv
<1>1. CASE stage \in {"legalize", "select"}
  <2>1. DAGValue(dag, object) = Address(node, object)
    BY <1>0, <1>1, DAGIs DEF ISelInv
  <2> QED
    BY <1>1, <2>1 DEF MeaningPreserved
<1>2. CASE stage \in {"insert", "frame", "lower", "print"}
  <2>1. dag = LoweredDAG(DAGOf(node)) /\ (stage = "printed") = FALSE
    BY <1>2 DEF ISelInv
  <2>2. \E c \in Selections(node, dag) :
          code = c \/ code = EliminatedOf(c, object) \/ code = LoweredOf(c, object)
    BY <1>2 DEF ISelInv, CodeInv
  <2>3. PICK c \in Selections(node, dag) :
          code = c \/ code = EliminatedOf(c, object) \/ code = LoweredOf(c, object)
    BY <2>2
  <2>4. c \in Seq(Selected) /\ Computes(Run(Start(object, FALSE), c), node, object, dag)
    BY <1>0, <2>1, SelectionTyped
  <2>5. /\ Computes(Run(Start(object, FALSE), EliminatedOf(c, object)), node, object, dag)
        /\ Computes(Run(Start(object, FALSE), LoweredOf(c, object)), node, object, dag)
    BY <1>0, <2>4, PassesCompute
  <2>6. Computes(Run(Start(object, FALSE), code), node, object, dag)
    BY <2>3, <2>4, <2>5
  <2> QED
    BY <1>2, <2>1, <2>6 DEF MeaningPreserved, ComputesNode
<1>3. CASE stage \notin {"legalize", "select", "insert", "frame", "lower", "print"}
  BY <1>3 DEF MeaningPreserved
<1> QED
  BY <1>1, <1>2, <1>3

(* No hook changes what a node asks for, whatever its address, wherever    *)
(* the layout puts the frame object, the symbols and the pool: but for the *)
(* signed byte load, which the target has no instruction for.              *)
THEOREM ISelMeaningPreserved ==
  Spec => [](node.use # "load8s" => MeaningPreserved)
<1>1. ISelInv => (node.use # "load8s" => MeaningPreserved)
  BY ISelMeaning
<1> QED
  BY <1>1, ISelInvariant, PTL

LEMMA ISelPrinted ==
  ASSUME ISelInv, node.use # "load8s", stage = "printed",
         \A j \in DOMAIN code : Encodable(code[j])
  PROVE  ComputesNode
<1>0. node \in Nodes /\ object \in Objects /\ dag = LoweredDAG(DAGOf(node))
  BY DEF ISelInv
<1>1. PICK c \in Selections(node, dag) :
        /\ \A j \in DOMAIN LoweredOf(c, object) : PrintAsserts(LoweredOf(c, object)[j])
        /\ code = PrintedOf(c, object)
  BY DEF ISelInv, CodeInv
<1>2. c \in Seq(Selected) /\ Computes(Run(Start(object, FALSE), c), node, object, dag)
  BY <1>0, SelectionTyped
<1>3. \A j \in DOMAIN LoweredOf(c, object) : LoweredOf(c, object)[j].op # "LA"
  <2> DEFINE l == LoweredOf(c, object)
  <2>1. code = [j \in DOMAIN l |-> printInst(l[j])]
    BY <1>1 DEF PrintedOf, PrintEach
  <2> HIDE DEF l
  <2>2. \A j \in DOMAIN l : code[j].op # "LA"
    BY <2>1 DEF Encodable
  <2>3. \A j \in DOMAIN l : l[j].op # "LA"
    BY <2>1, <2>2, PrintKeepsOp
  <2> QED
    BY <2>3 DEF l
<1>4. Computes(Run(Start(object, TRUE), PrintedOf(c, object)), node, object, dag)
  BY <1>0, <1>1, <1>2, <1>3, PassesCompute
<1>5. (stage = "printed") = TRUE
  OBVIOUS
<1> QED
  BY <1>1, <1>4, <1>5 DEF ComputesNode

(* The text, read as an assembler reads it, computes the node where the    *)
(* printers' assertions held and the opcodes encode their operands: it has *)
(* no literal that is only a comment, no offset out of its range and no    *)
(* block address in a register's place.                                    *)
THEOREM ISelPrintedComputesNode ==
  Spec => [](node.use # "load8s" => PrintedComputesNode)
<1>1. ISelInv => (node.use # "load8s" => PrintedComputesNode)
  BY ISelPrinted DEF PrintedComputesNode
<1> QED
  BY <1>1, ISelInvariant, PTL
================================================================================
