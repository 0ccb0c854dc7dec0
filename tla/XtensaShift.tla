------------------------------ MODULE XtensaShift -----------------------------
(***************************************************************************)
(* Shifts, sums and differences of one block, from the selection DAG to    *)
(* instructions.                                                           *)
(*                                                                         *)
(* A shift by a register takes its amount from the shift amount register   *)
(* SAR.  The target knows SAR by two names in two classes, sarl0 for left  *)
(* and sarr0 for right shifts, between which it declares no relation: a    *)
(* shift is right only as long as no other amount is set between its own   *)
(* and itself.  What sets one is the copy the emitter puts in front of a   *)
(* shift and copyPhysReg makes an instruction of.  Passes that could part  *)
(* the two (a machine scheduler) are not enabled by the target.            *)
(*                                                                         *)
(* A block is a sequence of nodes, operands before users:                  *)
(*   [op |-> "x"], "y"   an argument                                       *)
(*   [op |-> "const"]    with value a                                      *)
(*   [op |-> "add"], "sub", "neg", "shl", "sra", "srl"  of nodes a and b   *)
(* and a set of roots, the nodes other blocks use.                         *)
(***************************************************************************)
EXTENDS Integers, Sequences, SequencesExt, FiniteSetsExt

CONSTANTS
  W,         (* the width of a register                                    *)
  Blocks     (* records of nodes and roots                                 *)

VARIABLES
  block,     (* the block                                                  *)
  stage,     (* select, emit, copies, done or failed                       *)
  todo,      (* nodes to be selected, or selected and to be emitted        *)
  sel,       (* the instruction selected for a node                        *)
  code       (* the instructions emitted                                   *)

vars == <<block, stage, todo, sel, code>>

Words == 0 .. 2 ^ W - 1
dag   == block.nodes
Leaf(n)    == dag[n].op \in {"x", "y"}
isConst(n) == dag[n].op = "const"

Nodes ==
  [op : {"x", "y", "const", "add", "sub", "neg", "shl", "sra", "srl"}, a : Nat, b : Nat]

ASSUME ShiftAssumption ==
  /\ W \in {4, 8, 16, 32}
  /\ \A b \in Blocks :
       /\ b.nodes \in Seq(Nodes)
       /\ b.roots \subseteq DOMAIN b.nodes
       /\ \A n \in DOMAIN b.nodes :
            /\ b.nodes[n].op = "const" => b.nodes[n].a \in Words
            /\ b.nodes[n].op \notin {"x", "y", "const"} =>
                 b.nodes[n].a \in 1 .. n - 1 /\ b.nodes[n].b \in 1 .. n - 1

--------------------------------------------------------------------------------
(***************************************************************************)
(* Selection.                                                              *)
(***************************************************************************)
shimm5 == 0 .. 31
shimm4 == 0 .. 15

(* In the order of their definitions.                                      *)
Defined ==
  <<"ADD_N", "ADD", "SUB", "ADDX2", "ADDX4", "ADDX8", "SUBX2", "SUBX4", "SUBX8",
    "NEG", "SLL", "SRA", "SRL", "SLLI", "SRAI", "SRLI", "MOVI_N">>

Scale(op) ==
  CASE op \in {"ADDX2", "SUBX2"} -> 1 [] op \in {"ADDX4", "SUBX4"} -> 2
    [] op \in {"ADDX8", "SUBX8"} -> 3

ShlBy(n, c) == dag[n].op = "shl" /\ isConst(dag[n].b) /\ dag[dag[n].b].a = c

Machine(op, regs, imm) == [op |-> op, regs |-> regs, imm |-> imm]

(* The ways op's pattern covers node n.  Its registers are in the order of *)
(* the instruction; the source has no pattern for srl, and those of SRL,   *)
(* SRAI and SRLI are for sra and shl.                                      *)
PatternMatches(op, n) ==
  LET d == dag[n]
      Regs(r) == {Machine(op, r, 0)}
      Scaled(s, t) ==
        IF ShlBy(t, Scale(op)) THEN Regs(<<s, dag[t].a>>) ELSE {}
      ByImm(range) ==
        IF isConst(d.b) /\ dag[d.b].a \in range
        THEN {Machine(op, <<d.a>>, dag[d.b].a)} ELSE {}
  IN  CASE d.op = "add" /\ op \in {"ADD_N", "ADD"} -> Regs(<<d.a, d.b>>)
        [] d.op = "add" /\ op \in {"ADDX2", "ADDX4", "ADDX8"} ->
             Scaled(d.a, d.b) \cup Scaled(d.b, d.a)
        [] d.op = "sub" /\ op = "SUB" -> Regs(<<d.a, d.b>>)
        [] d.op = "sub" /\ op \in {"SUBX2", "SUBX4", "SUBX8"} ->
             {Machine(op, <<m.regs[2], m.regs[1]>>, 0) : m \in Scaled(d.b, d.a)}
        [] d.op = "neg" /\ op = "NEG" -> Regs(<<d.a>>)
        [] d.op = "shl" /\ op = "SLL" -> Regs(<<d.a, d.b>>)
        [] d.op = "sra" /\ op \in {"SRA", "SRL"} -> Regs(<<d.a, d.b>>)
        [] d.op = "shl" /\ op \in {"SLLI", "SRAI"} -> ByImm(shimm5)
        [] d.op = "shl" /\ op = "SRLI" -> ByImm(shimm4)
        [] d.op = "const" /\ op = "MOVI_N" -> {Machine(op, <<>>, d.a)}
        [] OTHER -> {}

(* Patterns of two operations come before those with a constant, those     *)
(* before the plain ones.                                                  *)
Complexity(op) ==
  CASE op \in {"ADDX2", "ADDX4", "ADDX8", "SUBX2", "SUBX4", "SUBX8"} -> 3
    [] op \in {"NEG", "SLLI", "SRAI", "SRLI", "MOVI_N"} -> 2
    [] OTHER -> 1

Matching(n) == {k \in DOMAIN Defined : PatternMatches(Defined[k], n) # {}}

Richest(n) ==
  {k \in Matching(n) : \A j \in Matching(n) :
     Complexity(Defined[j]) <= Complexity(Defined[k])}

(* Of equal patterns the one defined first is taken.                       *)
Selections(n) ==
  IF Matching(n) = {} THEN {} ELSE PatternMatches(Defined[Min(Richest(n))], n)

Init ==
  /\ block \in Blocks
  /\ stage = "select"
  /\ todo = {n \in block.roots : ~Leaf(n)}
  /\ sel = [n \in {} |-> Machine("", <<>>, 0)]
  /\ code = <<>>

(* From the last node back: a node is reached when an instruction wants it *)
(* in a register.  One folded into its user may also be wanted by others.  *)
Select ==
  /\ stage = "select"
  /\ todo # {}
  /\ LET n == Max(todo)
     IN  \E m \in Selections(n) :
           /\ sel' = [k \in DOMAIN sel \cup {n} |-> IF k = n THEN m ELSE sel[k]]
           /\ todo' = (todo \ {n}) \cup {k \in ToSet(m.regs) : ~Leaf(k)}
  /\ UNCHANGED <<block, stage, code>>

CannotSelect ==
  /\ stage = "select"
  /\ todo # {}
  /\ Selections(Max(todo)) = {}
  /\ stage' = "failed"
  /\ UNCHANGED <<block, todo, sel, code>>

Selected ==
  /\ stage = "select"
  /\ todo = {}
  /\ stage' = "emit"
  /\ todo' = DOMAIN sel
  /\ UNCHANGED <<block, sel, code>>

--------------------------------------------------------------------------------
(***************************************************************************)
(* Emission.  A register is the number of the node it holds; the shift     *)
(* amount registers have numbers no node has.                              *)
(***************************************************************************)
sarl0 == -1
sarr0 == -2

Ins(op, d, s, imm) == [op |-> op, d |-> d, s |-> s, imm |-> imm]
COPY(d, s) == Ins("COPY", d, <<s>>, 0)

(* The class of operand k of an instruction, AR but for shift amounts.     *)
AmountRegister(op) ==
  CASE op = "SLL" -> sarl0 [] op \in {"SRA", "SRL"} -> sarr0

UsesAmount(op) == op \in {"SLL", "SRA", "SRL"}

(* An operand whose register is not of the class asked for is copied into  *)
(* one that is, in front of the instruction.                               *)
EmitNode(n) ==
  LET m == sel[n]
  IN  IF UsesAmount(m.op)
      THEN <<COPY(AmountRegister(m.op), m.regs[2]),
             Ins(m.op, n, <<m.regs[1], AmountRegister(m.op)>>, 0)>>
      ELSE <<Ins(m.op, n, m.regs, m.imm)>>

(* The nodes are scheduled in any order their operands allow.              *)
Emit(n) ==
  /\ stage = "emit"
  /\ n \in todo
  /\ \A k \in ToSet(sel[n].regs) : k \notin todo
  /\ code' = code \o EmitNode(n)
  /\ todo' = todo \ {n}
  /\ UNCHANGED <<block, stage, sel>>

Emitted ==
  /\ stage = "emit"
  /\ todo = {}
  /\ stage' = "copies"
  /\ UNCHANGED <<block, todo, sel, code>>

AR == 1 .. Len(dag)

(* Mutant: one case for both shift amount registers.                       *)
copyPhysRegSSL(d, s) ==
  CASE d \in AR /\ s \in AR             -> "MOV_N"
    [] d \in {sarl0, sarr0} /\ s \in AR -> "SSL"
    [] OTHER                            -> "Impossible reg-to-reg copy"

(* Mutant: left shifts alone.                                              *)
copyPhysRegNoSSR(d, s) ==
  CASE d \in AR /\ s \in AR  -> "MOV_N"
    [] d = sarl0 /\ s \in AR -> "SSL"
    [] OTHER                 -> "Impossible reg-to-reg copy"

copyPhysReg(d, s) ==
  CASE d \in AR /\ s \in AR  -> "MOV_N"
    [] d = sarl0 /\ s \in AR -> "SSL"
    [] d = sarr0 /\ s \in AR -> "SSR"
    [] OTHER                 -> "Impossible reg-to-reg copy"

ExpandCopies ==
  /\ stage = "copies"
  /\ stage' = "done"
  /\ code' = [j \in DOMAIN code |->
                IF code[j].op = "COPY"
                THEN [code[j] EXCEPT !.op = copyPhysReg(code[j].d, code[j].s[1])]
                ELSE code[j]]
  /\ UNCHANGED <<block, todo, sel>>

Next ==
  \/ Select \/ CannotSelect \/ Selected
  \/ (\E n \in todo : Emit(n)) \/ Emitted
  \/ ExpandCopies

Spec == Init /\ [][Next]_vars

--------------------------------------------------------------------------------
(***************************************************************************)
(* What nodes and instructions compute.                                    *)
(***************************************************************************)
Word(v)    == v % 2 ^ W
Signed(v)  == IF v < 2 ^ (W - 1) THEN v ELSE v - 2 ^ W
Shl(v, c)  == Word(v * 2 ^ c)
Sra(v, c)  == Word(Signed(v) \div 2 ^ c)
Srl(v, c)  == v \div 2 ^ c
Undefined  == -1

(* A shift by the width or more is undefined.                              *)
Computed(op, a, b) ==
  CASE op = "add" -> Word(a + b)
    [] op = "sub" -> Word(a - b)
    [] op = "neg" -> Word(-a)
    [] op \in {"shl", "sra", "srl"} /\ b >= W -> Undefined
    [] op = "shl" /\ b < W -> Shl(a, b)
    [] op = "sra" /\ b < W -> Sra(a, b)
    [] op = "srl" /\ b < W -> Srl(a, b)

(* Node d, of operands worth a and b.  What uses the undefined is so too.  *)
NodeValue(d, a, b, x, y) ==
  CASE d.op = "x" -> x
    [] d.op = "y" -> y
    [] d.op = "const" -> d.a
    [] OTHER -> IF a = Undefined \/ b = Undefined THEN Undefined
                ELSE Computed(d.op, a, b)

Values(x, y) ==
  LET val[n \in DOMAIN dag] ==
        NodeValue(dag[n], val[dag[n].a], val[dag[n].b], x, y)
  IN  val

(* The instructions as they are printed.  There is one SAR.                *)
Do(s, i) ==
  LET R(k)   == s.r[i.s[k]]
      Put(v) == [r |-> [s.r EXCEPT ![i.d] = v], sar |-> s.sar]
      Set(v) == [r |-> s.r, sar |-> v]
  IN  CASE i.op \in {"ADD_N", "ADD"} -> Put(Word(R(1) + R(2)))
        [] i.op = "SUB" -> Put(Word(R(1) - R(2)))
        [] i.op \in {"ADDX2", "ADDX4", "ADDX8"} ->
             Put(Word(R(1) + Shl(R(2), Scale(i.op))))
        [] i.op \in {"SUBX2", "SUBX4", "SUBX8"} ->
             Put(Word(Shl(R(1), Scale(i.op)) - R(2)))
        [] i.op = "NEG"    -> Put(Word(-R(1)))
        [] i.op = "SLLI"   -> Put(Shl(R(1), i.imm))
        [] i.op = "SRAI"   -> Put(Sra(R(1), i.imm))
        [] i.op = "SRLI"   -> Put(Srl(R(1), i.imm))
        [] i.op = "MOVI_N" -> Put(i.imm)
        [] i.op = "MOV_N"  -> Put(R(1))
        [] i.op = "SSL"    -> Set(W - (R(1) % W))
        [] i.op = "SSR"    -> Set(R(1) % W)
        [] i.op = "SLL"    -> Put(Shl(R(1), W - s.sar))
        [] i.op = "SRA"    -> Put(Sra(R(1), s.sar))
        [] i.op = "SRL"    -> Put(Srl(R(1), s.sar))

Start(x, y) ==
  [r |-> [n \in AR |-> CASE dag[n].op = "x" -> x [] dag[n].op = "y" -> y [] OTHER -> 0],
   sar |-> 0]

Run(x, y) ==
  LET state[j \in 0 .. Len(code)] ==
        IF j = 0 THEN Start(x, y) ELSE Do(state[j - 1], code[j])
  IN  state[Len(code)].r

--------------------------------------------------------------------------------
(* Type invariant.                                                         *)
TypeOK ==
  /\ block \in Blocks
  /\ stage \in {"select", "emit", "copies", "done", "failed"}
  /\ todo \subseteq AR
  /\ DOMAIN sel \subseteq AR
  /\ \A j \in DOMAIN code :
       /\ code[j].op \in ToSet(Defined) \cup {"COPY", "MOV_N", "SSL", "SSR"}
       /\ code[j].d \in AR \cup {sarl0, sarr0}

(* However the nodes are scheduled, each root ends up in its register:     *)
(* every amount a shift takes from SAR is the one copied for it, in the    *)
(* form (SSL or SSR) the shift wants, though right and left amounts share  *)
(* the register; and a shift folded into a sum or a difference, on         *)
(* whichever side, is still there for its other users.                     *)
RootsComputed ==
  stage = "done" =>
    \A x, y \in Words :
      LET val == Values(x, y)
          r   == Run(x, y)
      IN  \A n \in block.roots : val[n] \in {Undefined, r[n]}
================================================================================
