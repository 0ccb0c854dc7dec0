------------------------------ MODULE XtensaSelect ------------------------------
(***************************************************************************)
(* Selects.  A select is matched by the patterns of XtensaInstrInfo.td as  *)
(* the pseudo SELECT_CC, which emitSelectCC replaces by two blocks, a      *)
(* branch around the first and a phi.  The block with the select is cut in *)
(* two while phis elsewhere name it, and the pass that calls emitSelectCC  *)
(* goes on inside the block it just made.                                  *)
(*                                                                         *)
(* A function is a control-flow graph over virtual registers, each written *)
(* by one instruction; new blocks take the next free number.  After every  *)
(* step, what the function does is compared with what it did as a DAG.     *)
(*                                                                         *)
(* The branch emitSelectCC builds, BNE, gets a register and a block where  *)
(* its class has a block and two registers: what it leaves is no program,  *)
(* MeaningPreserved.  What a function does is therefore also asked with    *)
(* such a BNE read as BNEZ, the branch on one register that its comment    *)
(* asks for: DiamondsComputeSelects is about all the rest of the work.     *)
(***************************************************************************)
EXTENDS Integers, Sequences, SequencesExt

CONSTANTS
  Functions,  (* functions before selection: [code, succ, layout]          *)
  Inputs,     (* what a function is called with: register -> value         *)
  Regs,       (* the virtual registers                                     *)
  Steps       (* bound: the steps a function is run for                    *)

Forms    == {"val", "ne0", "eq0"}
Branches == {"BNE", "BNEZ", "J", "RET_N"}

VARIABLES
  code,    (* block -> its instructions                                    *)
  succ,    (* block -> its recorded successors                             *)
  layout,  (* the order of the blocks, the entry first                     *)
  mbb,     (* the block the expansion scans; 0: not started                *)
  stage,   (* dag, pseudo, expanded                                        *)
  meaning  (* history: what the DAG does                                   *)

vars == <<code, succ, layout, mbb, stage, meaning>>

Blocks == DOMAIN code

--------------------------------------------------------------------------------
(***************************************************************************)
(* Selection.  A select of a value takes it as the condition; one of a     *)
(* comparison with zero takes the compared register, and for equality the  *)
(* two values change places.                                               *)
(***************************************************************************)
SELECT_CC(d, lhs, t, f) == [op |-> "SELECT_CC", d |-> d, ops |-> <<lhs, t, f>>]

(* Mutant: the values stay in place.                                       *)
SelectPatternUnswapped(i) == SELECT_CC(i.d, i.lhs, i.t, i.f)

SelectPattern(i) ==
  CASE i.form \in {"val", "ne0"} -> SELECT_CC(i.d, i.lhs, i.t, i.f)
    [] i.form = "eq0"            -> SELECT_CC(i.d, i.lhs, i.f, i.t)

--------------------------------------------------------------------------------
(***************************************************************************)
(* emitSelectCC.                                                           *)
(***************************************************************************)
BNE(reg, b) == [op |-> "BNE", ops |-> <<reg, b>>]
PHI(d, in)  == [op |-> "PHI", d |-> d, in |-> in]

(* A phi whose entry for block a is now for block b.                       *)
Renamed(i, a, b) ==
  IF i.op = "PHI" /\ a \in DOMAIN i.in
  THEN PHI(i.d, [p \in (DOMAIN i.in \ {a}) \cup {b} |->
                   IF p = b THEN i.in[a] ELSE i.in[p]])
  ELSE i

(* Mutant: transferSuccessors alone.                                       *)
transferSuccessorsAndUpdatePHIsNot(c, from, to) == c

(* The phis of from's successors, from itself among them in a loop.        *)
transferSuccessorsAndUpdatePHIs(c, from, to) ==
  [b \in DOMAIN c |->
     IF b \in succ[from] THEN [j \in DOMAIN c[b] |-> Renamed(c[b][j], from, to)]
     ELSE c[b]]

(* Mutant: sinkMBB ahead of copy0MBB.                                      *)
insertBlocksSinkFirst(after, copy0MBB, sinkMBB) ==
  LET p == CHOOSE q \in DOMAIN layout : layout[q] = after
  IN  SubSeq(layout, 1, p) \o <<sinkMBB, copy0MBB>>
        \o SubSeq(layout, p + 1, Len(layout))

(* It is the block after this one: both go ahead of it.                    *)
insertBlocks(after, copy0MBB, sinkMBB) ==
  LET p == CHOOSE q \in DOMAIN layout : layout[q] = after
  IN  SubSeq(layout, 1, p) \o <<copy0MBB, sinkMBB>>
        \o SubSeq(layout, p + 1, Len(layout))

(* Mutant: MI stays ahead of the branch.                                   *)
eraseFromParentNot(thisCode, MI) == Append(thisCode, MI)

eraseFromParent(thisCode, MI) == thisCode

emitSelectCC(thisMBB, i) ==
  LET MI       == code[thisMBB][i]
      copy0MBB == Len(code) + 1
      sinkMBB  == Len(code) + 2
      (* The rest of thisMBB and its successors go to sinkMBB.             *)
      spliced  ==
        [code EXCEPT ![thisMBB] = SubSeq(@, 1, i - 1)]
          \o << <<>>, SubSeq(code[thisMBB], i + 1, Len(code[thisMBB])) >>
      moved    == transferSuccessorsAndUpdatePHIs(spliced, thisMBB, sinkMBB)
      phi      == PHI(MI.d, [p \in {thisMBB, copy0MBB} |->
                               IF p = thisMBB THEN MI.ops[2] ELSE MI.ops[3]])
  IN  /\ code' = [moved EXCEPT
           ![thisMBB] = Append(eraseFromParent(@, MI), BNE(MI.ops[1], sinkMBB)),
           ![sinkMBB] = <<phi>> \o @]
      /\ succ' = [succ EXCEPT ![thisMBB] = {copy0MBB, sinkMBB}]
                   \o << {sinkMBB}, succ[thisMBB] >>
      /\ layout' = insertBlocks(thisMBB, copy0MBB, sinkMBB)
      /\ mbb' = sinkMBB

--------------------------------------------------------------------------------
(***************************************************************************)
(* What a function does: its blocks run from the first of the layout, the  *)
(* phis of a block all at once, and it falls from a block's end into the   *)
(* next of the layout.  m holds the block, the next instruction, the       *)
(* registers, the values used, and whether it has ended.                   *)
(*                                                                         *)
(* Instructions are read as their classes define them, and one without the *)
(* operands of its class ends the run as bad.  The only BNE of a function  *)
(* is emitSelectCC's, <<register, block>>, and the class has <<block,      *)
(* register, register>>.  bne says how it is read: "class", it is bad;     *)
(* "built", it is the BNEZ it was built as.                                *)
(***************************************************************************)
Undef == 99   (* a register nothing has written                            *)

FirstNonPHI(s) ==
  CHOOSE j \in 1 .. Len(s) + 1 :
    /\ \A k \in 1 .. j - 1 : s[k].op = "PHI"
    /\ j <= Len(s) => s[j].op # "PHI"

PhisOf(s, x) == {j \in 1 .. FirstNonPHI(s) - 1 : s[j].d = x}

Enter(c, m, b) ==
  LET Read(i) == IF m.b \in DOMAIN i.in THEN m.r[i.in[m.b]] ELSE Undef
  IN  [m EXCEPT
         !.b = b, !.i = FirstNonPHI(c[b]),
         !.r = [x \in Regs |->
                  IF PhisOf(c[b], x) # {}
                  THEN Read(c[b][CHOOSE j \in PhisOf(c[b], x) : TRUE])
                  ELSE @[x]]]

Behind(order, b) == {order[p + 1] : p \in {q \in 1 .. Len(order) - 1 : order[q] = b}}

FallThrough(c, order, m) ==
  IF Behind(order, m.b) = {} THEN [m EXCEPT !.end = "off"]
  ELSE Enter(c, m, CHOOSE b \in Behind(order, m.b) : TRUE)

(* Whether the condition of a select in the DAG holds.                     *)
Holds(form, v) == IF form = "eq0" THEN v = 0 ELSE v # 0

Put(m, d, v) == [m EXCEPT !.r[d] = v, !.i = @ + 1]

Execute(bne, c, m, i) ==
  CASE i.op = "select"    -> Put(m, i.d, m.r[IF Holds(i.form, m.r[i.lhs]) THEN i.t
                                             ELSE i.f])
    [] i.op = "SELECT_CC" -> Put(m, i.d, m.r[IF m.r[i.ops[1]] # 0 THEN i.ops[2]
                                             ELSE i.ops[3]])
    [] i.op = "dec"       -> Put(m, i.d, m.r[i.s] - 1)
    [] i.op = "use"       -> [m EXCEPT !.out = Append(@, m.r[i.s]), !.i = @ + 1]
    [] i.op = "BNEZ" \/ (i.op = "BNE" /\ bne = "built") ->
         IF m.r[i.ops[1]] # 0 THEN Enter(c, m, i.ops[2]) ELSE [m EXCEPT !.i = @ + 1]
    [] i.op = "J"         -> Enter(c, m, i.ops[1])
    [] i.op = "RET_N"     -> [m EXCEPT !.end = "ret"]
    [] OTHER              -> [m EXCEPT !.end = "bad"]

Do(bne, c, order, m) ==
  IF m.end # "no" THEN m
  ELSE IF m.i > Len(c[m.b]) THEN FallThrough(c, order, m)
  ELSE Execute(bne, c, m, c[m.b][m.i])

Start(order, in) ==
  [b |-> order[1], i |-> 1, out |-> <<>>, end |-> "no",
   r |-> [x \in Regs |-> IF x \in DOMAIN in THEN in[x] ELSE Undef]]

(* The machine after n steps.                                              *)
Running(bne, c, order, in, n) ==
  LET run[k \in 0 .. n] ==
        IF k = 0 THEN Start(order, in) ELSE Do(bne, c, order, run[k - 1])
  IN  run[n]

Outcome(bne, c, order, in) ==
  LET m == Running(bne, c, order, in, Steps) IN [out |-> m.out, end |-> m.end]

Meaning(bne, c, order) == [in \in Inputs |-> Outcome(bne, c, order, in)]

(* Where control goes from a block: where its branches say, and on into    *)
(* the block behind it unless it ends in a jump or a return.               *)
Targets(s) ==
  {s[j].ops[Len(s[j].ops)] :
     j \in {k \in DOMAIN s : s[k].op \in {"BNE", "BNEZ", "J"}}}

Falls(s) == s = <<>> \/ Last(s).op \notin {"J", "RET_N"}

Destinations(c, order, b) ==
  Targets(c[b]) \cup (IF Falls(c[b]) THEN Behind(order, b) ELSE {})

Predecessors(s, b) == {p \in DOMAIN s : b \in s[p]}

(***************************************************************************)
(* A function as selection gets it: its blocks are sequences, laid out     *)
(* each once; a block's phis come first and have an entry for each         *)
(* predecessor, no branch is ahead of a select, and the recorded           *)
(* successors are where the code goes.                                     *)
(***************************************************************************)
WellFormedBlock(f, b) ==
  LET s == f.code[b] IN
  /\ s \in Seq(ToSet(s))
  /\ \A j \in DOMAIN s :
       /\ s[j].op \in {"PHI", "select", "dec", "use", "BNEZ", "J", "RET_N"}
       /\ s[j].op = "select" => s[j].form \in Forms
       /\ s[j].op = "BNEZ" => Len(s[j].ops) = 2
       /\ s[j].op = "J" => Len(s[j].ops) = 1
       /\ s[j].op = "PHI" => DOMAIN s[j].in = Predecessors(f.succ, b)
       /\ \A k \in 1 .. j - 1 :
            /\ s[j].op = "PHI" => s[k].op = "PHI"
            /\ s[j].op = "select" => s[k].op \notin Branches
  /\ f.succ[b] \subseteq DOMAIN f.code
  /\ f.succ[b] = Destinations(f.code, f.layout, b)

WellFormed(f) ==
  /\ f.code # <<>>
  /\ f.code \in Seq(ToSet(f.code))
  /\ f.succ \in Seq(ToSet(f.succ)) /\ Len(f.succ) = Len(f.code)
  /\ f.layout \in Seq(DOMAIN f.code) /\ Len(f.layout) = Len(f.code)
  /\ ToSet(f.layout) = DOMAIN f.code
  /\ \A p, q \in DOMAIN f.layout : f.layout[p] = f.layout[q] => p = q
  /\ \A b \in DOMAIN f.code : WellFormedBlock(f, b)

ASSUME GraphsAssumption == \A f \in Functions : WellFormed(f)

(* Functions end, and soon enough: a select is one step in the DAG and up  *)
(* to three, BNE and two falls, once it is expanded.                       *)
ASSUME StepsAssumption ==
  /\ Steps \in Nat
  /\ \A f \in Functions, in \in Inputs :
       Running("built", f.code, f.layout, in, Steps \div 3).end # "no"

--------------------------------------------------------------------------------
Init ==
  \E f \in Functions :
    /\ code = f.code /\ succ = f.succ /\ layout = f.layout
    /\ mbb = 0
    /\ stage = "dag"
    /\ meaning = Meaning("built", f.code, f.layout)   (* no BNE in it yet *)

(* Every select of the function is matched.                                *)
Select ==
  /\ stage = "dag"
  /\ code' = [b \in Blocks |->
                [j \in DOMAIN code[b] |->
                   IF code[b][j].op = "select" THEN SelectPattern(code[b][j])
                   ELSE code[b][j]]]
  /\ stage' = "pseudo"
  /\ mbb' = layout[1]
  /\ UNCHANGED <<succ, layout, meaning>>

(* The pseudos from mbb's begin on, in the order the pass meets them.      *)
Pending ==
  UNION {{<<p, j>> : j \in {k \in DOMAIN code[layout[p]] :
                             code[layout[p]][k].op = "SELECT_CC"}} :
           p \in {q \in DOMAIN layout : mbb \in ToSet(SubSeq(layout, 1, q))}}

FirstPending ==
  CHOOSE a \in Pending :
    \A b \in Pending : a[1] < b[1] \/ (a[1] = b[1] /\ a[2] <= b[2])

ExpandNext ==
  /\ stage = "pseudo"
  /\ Pending # {}
  /\ emitSelectCC(layout[FirstPending[1]], FirstPending[2])
  /\ UNCHANGED <<stage, meaning>>

Finish ==
  /\ stage = "pseudo"
  /\ Pending = {}
  /\ stage' = "expanded"
  /\ UNCHANGED <<code, succ, layout, mbb, meaning>>

Next == Select \/ ExpandNext \/ Finish

Spec == Init /\ [][Next]_vars

--------------------------------------------------------------------------------
(* The code of each stage: nothing of an earlier one is left, so the scan, *)
(* which jumps ahead at every expansion, passed no pseudo by.              *)
Opcodes ==
  {"PHI", "dec", "use", "BNEZ", "J", "RET_N"}
    \cup (CASE stage = "dag"      -> {"select"}
            [] stage = "pseudo"   -> {"SELECT_CC", "BNE"}
            [] stage = "expanded" -> {"BNE"})

TypeOK ==
  /\ stage \in {"dag", "pseudo", "expanded"}
  /\ DOMAIN succ = Blocks
  /\ \A b \in Blocks :
       /\ succ[b] \subseteq Blocks
       /\ \A j \in DOMAIN code[b] : code[b][j].op \in Opcodes
  /\ Len(layout) = Len(code) /\ ToSet(layout) = Blocks
  /\ mbb \in {0} \cup Blocks

(* Matching and expansion keep what the function does for every input.     *)
(* They do not: the branch of every diamond is a BNE without the operands  *)
(* of its class.                                                           *)
MeaningPreserved == Meaning("class", code, layout) = meaning

(* That branch is all that is wrong.  Were it BNEZ with the operands it    *)
(* has, each select would yield the value its condition picks, also in a   *)
(* loop, ahead of branches and when one select feeds another: the cut, the *)
(* order of the blocks, the edges and the phis are right for every input.  *)
DiamondsComputeSelects == Meaning("built", code, layout) = meaning

(* The recorded successors of a block are where its code goes: the         *)
(* branches emitSelectCC writes, the order it gives the blocks and the     *)
(* edges it records are three accounts of one diamond.                     *)
SuccessorsAreDestinations ==
  \A b \in Blocks : succ[b] = Destinations(code, layout, b)

(* A block's phis come first and have one entry for each predecessor, also *)
(* those of blocks emitSelectCC never looks at.                            *)
PhisMatchPredecessors ==
  \A b \in Blocks : \A j \in DOMAIN code[b] :
    code[b][j].op = "PHI" =>
      /\ DOMAIN code[b][j].in = Predecessors(succ, b)
      /\ j > 1 => code[b][j - 1].op = "PHI"
================================================================================
