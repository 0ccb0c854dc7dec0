------------------------------ MODULE XtensaBranch ------------------------------
(***************************************************************************)
(* The branches at the ends of a function's blocks while LLVM's block      *)
(* placement and branch folding move the blocks and rewrite them through   *)
(* this target's AnalyzeBranch, RemoveBranch, ReverseBranchCondition and   *)
(* InsertBranch.                                                           *)
(*                                                                         *)
(* An instruction is an opcode and its explicit operands; an operand is a  *)
(* tagged value: <<"mbb", block>>, <<"reg", register>>, <<"imm", number>>. *)
(* A condition is what AnalyzeBranch fills in: <<cc>> followed by every    *)
(* operand of the branch, the target included.  The model counts from 1    *)
(* where the code counts from 0: Cond[k] there is Cond[k + 1] here.        *)
(***************************************************************************)
EXTENDS XtensaCC, Sequences, SequencesExt

CONSTANTS
  Blocks,     (* the blocks                                                *)
  Programs,   (* functions as selected: [layout |-> .., code |-> ..]       *)
  Registers,  (* the registers branches compare                            *)
  OtherOpcodes  (* the opcodes of instructions that end no block           *)

NoBlock == "none"

ASSUME BlocksAssumption == NoBlock \notin Blocks

VARIABLES
  prog,     (* the function as selected                                    *)
  layout,   (* the order of its blocks, the entry first                    *)
  code,     (* block -> its instructions                                   *)
  pending,  (* the blocks whose branches predate the layout                *)
  failed    (* isBranch's assertion failed: the compiler has stopped       *)

vars == <<prog, layout, code, pending, failed>>

--------------------------------------------------------------------------------
(***************************************************************************)
(* Instructions.                                                           *)
(***************************************************************************)
Calls == {"CALL0", "CALLX0"}

isTerminator(i) == i.op \in ConditionalBranches \cup {"J", "JX", "RET_N"} \cup Calls

isBranch(i) == i.op \in ConditionalBranches \cup {"J", "JX"}

(* Mutant: isBranch forgets one of the synthesised branches.               *)
UnknownBranchBLEU(i) == i.op \in Calls \cup {"BLEU"}

(* assert(!MI->getDesc().isBranch() && "Unknown branch opcode")            *)
UnknownBranch(i) == i.op \in Calls

Target(i)  == i.ops[1][2]
isMBB(i)   == i.ops[1][1] = "mbb"
BranchTo(B) == [op |-> "J", ops |-> <<<<"mbb", B>>>>]

(* A comparison of two operands and its target.                            *)
BranchIf(op, B, l, r) == [op |-> op, ops |-> <<<<"mbb", B>>, l, r>>]

(***************************************************************************)
(* AnalyzeBranch, from the last instruction up.  The analysis a: TBB, FBB, *)
(* Cond; len, how many instructions it leaves in the block; state, which   *)
(* is "looking" until something ends it: "done", "cannot" (it returns      *)
(* TRUE: cannot be analysed) or "failed" (isBranch's assertion).           *)
(***************************************************************************)
(* Mutant: the branch's own target is not recorded.                        *)
FirstConditionalNoTBB(a, i) ==
  [a EXCEPT !.FBB = a.TBB, !.Cond = <<<<"imm", BranchCC(i.op)>>>> \o i.ops]

(* The first conditional branch from the bottom.                           *)
FirstConditional(a, i) ==
  [a EXCEPT !.FBB = a.TBB, !.TBB = Target(i),
            !.Cond = <<<<"imm", BranchCC(i.op)>>>> \o i.ops]

(* The analysis meets instruction i, at j.                                 *)
AnalyzeInstr(a, i, j, AllowModify) ==
  CASE ~isTerminator(i) -> [a EXCEPT !.state = "done"]
    [] UnknownBranch(i) -> [a EXCEPT !.state = "failed"]
    [] isTerminator(i) /\ ~UnknownBranch(i) /\ ~(isBranch(i) /\ isMBB(i)) ->
         [a EXCEPT !.state = "cannot"]
    [] i.op \in {"J", "JX"} /\ isMBB(i) ->
         IF AllowModify
         THEN [a EXCEPT !.TBB = Target(i), !.FBB = NoBlock, !.Cond = <<>>, !.len = j]
         ELSE [a EXCEPT !.TBB = Target(i)]
    [] i.op \in ConditionalBranches /\ isMBB(i) /\ a.Cond = <<>> ->
         FirstConditional(a, i)
    [] i.op \in ConditionalBranches /\ isMBB(i) /\ a.Cond # <<>> ->
         IF a.TBB # Target(i) THEN [a EXCEPT !.state = "cannot"] ELSE a

(* What is known after the last n instructions.                            *)
AnalyzeBranch(s, AllowModify) ==
  LET known[n \in 0 .. Len(s)] ==
        IF n = 0
        THEN [state |-> "looking", TBB |-> NoBlock, FBB |-> NoBlock,
              Cond |-> <<>>, len |-> Len(s)]
        ELSE IF known[n - 1].state # "looking" THEN known[n - 1]
        ELSE LET j == Len(s) - n + 1
             IN  AnalyzeInstr(known[n - 1], s[j], j, AllowModify)
  IN  known[Len(s)]

Analyzed(A) == A.state \in {"looking", "done"}

(* Mutant: only the last branch is erased.                                 *)
RemoveBranchLast(s) ==
  IF s # <<>> /\ isBranch(Last(s)) /\ isMBB(Last(s)) THEN Front(s) ELSE s

(* Branches to blocks are erased from the end up, to the first instruction *)
(* that is none.  AnalyzeBranch has been past all of these.                *)
RemoveBranch(s) ==
  LET kept == {0} \cup {j \in DOMAIN s : ~(isBranch(s[j]) /\ isMBB(s[j]))}
  IN  SubSeq(s, 1, CHOOSE j \in kept : \A k \in kept : k <= j)

ReverseBranchCondition(Cond) ==
  [Cond EXCEPT ![1] = <<"imm", ReverseCC(Cond[1][2])>>]

(* Cond[k].getReg(): of an operand that is no register, or past the end,   *)
(* it reads whatever is there.                                             *)
getReg(Cond, k) ==
  IF k \in DOMAIN Cond /\ Cond[k][1] = "reg" THEN {Cond[k]}
  ELSE {<<"reg", r>> : r \in Registers}

(* InsertBranchAtInst at the end of the block: the possible results.       *)
InsertBranchAtInst(s, TBB, Cond) ==
  IF Cond = <<>> THEN {Append(s, BranchTo(TBB))}
  ELSE {Append(s, BranchIf(InsertedOpcode(Cond[1][2]), TBB, l, r)) :
          l \in getReg(Cond, 3), r \in getReg(Cond, 4)}

InsertBranch(s, TBB, FBB, Cond) ==
  IF FBB = NoBlock THEN InsertBranchAtInst(s, TBB, Cond)
  ELSE {Append(t, BranchTo(FBB)) : t \in InsertBranchAtInst(s, TBB, Cond)}

Rewritten(s, TBB, FBB, Cond) == InsertBranch(RemoveBranch(s), TBB, FBB, Cond)

--------------------------------------------------------------------------------
(***************************************************************************)
(* The control-flow graph.                                                 *)
(***************************************************************************)
LayoutSucc(order, b) ==
  LET j == CHOOSE k \in DOMAIN order : order[k] = b
  IN  IF j = Len(order) THEN NoBlock ELSE order[j + 1]

Valuations == [Registers -> Words]

OperandValue(o, val) == IF o[1] = "reg" THEN val[o[2]] ELSE o[2]

Taken(i, val) ==
  \/ i.op \in {"J", "JX", "RET_N"}
  \/ /\ i.op \in ConditionalBranches
     /\ LET a == OperandValue(i.ops[2], val)
            b == IF Len(i.ops) = 3 THEN OperandValue(i.ops[3], val) ELSE 0
        IN  AsmTaken(i.op, a, b)

(* Where control goes from block b of a function laid out as order.        *)
Destination(order, s, b, val) ==
  LET taken == {j \in DOMAIN s : Taken(s[j], val)}
      first == s[CHOOSE j \in taken : \A k \in taken : j <= k]
  IN  CASE taken = {}            -> LayoutSucc(order, b)
        [] taken # {} /\ first.op = "RET_N" -> "return"
        [] taken # {} /\ first.op = "JX"    -> "indirect"
        [] OTHER                 -> Target(first)

FallsThrough(s) == s = <<>> \/ Last(s).op \notin {"J", "JX", "RET_N"}

(* MachineBasicBlock::successors, fixed when the function is selected.     *)
Successors(b) ==
  LET s == prog.code[b]
  IN  {Target(s[j]) : j \in {k \in DOMAIN s : isBranch(s[k]) /\ isMBB(s[k])}}
        \cup (IF FallsThrough(s) THEN {LayoutSucc(prog.layout, b)} ELSE {})

--------------------------------------------------------------------------------
Init ==
  /\ prog \in Programs
  /\ layout = prog.layout
  /\ code = prog.code
  /\ pending = {}
  /\ failed = FALSE

(* Block placement: a new order, after which every block's branches are    *)
(* brought up to date.                                                     *)
Place(order) ==
  /\ ~failed /\ pending = {}
  /\ order[1] = layout[1]
  /\ layout' = order
  /\ pending' = Blocks
  /\ UNCHANGED <<prog, code, failed>>

(* MachineBasicBlock::updateTerminator of an analysed block.  A null block *)
(* is never the layout successor.                                          *)
UpdatedTerminators(b, A) ==
  LET s    == code[b]
      next == LayoutSucc(layout, b)
      isLayoutSuccessor(B) == B # NoBlock /\ B = next
      fallthrough == Successors(b) \ {A.TBB}
      FallthroughBB == CHOOSE B \in fallthrough : TRUE
      reversed == ReverseBranchCondition(A.Cond)
  IN
  CASE Successors(b) = {} -> {s}
    [] Successors(b) # {} /\ A.Cond = <<>> /\ A.TBB # NoBlock ->
         IF isLayoutSuccessor(A.TBB) THEN {RemoveBranch(s)} ELSE {s}
    [] Successors(b) # {} /\ A.Cond = <<>> /\ A.TBB = NoBlock ->
         IF isLayoutSuccessor(FallthroughBB) THEN {s}
         ELSE InsertBranch(s, FallthroughBB, NoBlock, <<>>)
    [] Successors(b) # {} /\ A.Cond # <<>> /\ A.FBB # NoBlock ->
         IF isLayoutSuccessor(A.TBB) THEN Rewritten(s, A.FBB, NoBlock, reversed)
         ELSE IF isLayoutSuccessor(A.FBB)
              THEN Rewritten(s, A.TBB, NoBlock, A.Cond)
              ELSE {s}
    [] Successors(b) # {} /\ A.Cond # <<>> /\ A.FBB = NoBlock ->
         IF isLayoutSuccessor(A.TBB)
         THEN Rewritten(s, FallthroughBB, NoBlock, reversed)
         ELSE IF isLayoutSuccessor(FallthroughBB) THEN {s}
              ELSE Rewritten(s, A.TBB, FallthroughBB, A.Cond)

Update(b) ==
  LET A == AnalyzeBranch(code[b], FALSE) IN
  /\ ~failed /\ A.state # "failed"
  /\ b \in pending
  /\ pending' = pending \ {b}
  /\ \E s \in IF Analyzed(A) THEN UpdatedTerminators(b, A) ELSE {code[b]} :
        code' = [code EXCEPT ![b] = s]
  /\ UNCHANGED <<prog, layout, failed>>

(* Placement prefers the likelier successor of a two-way branch as its     *)
(* taken one.                                                              *)
Reorder(b) ==
  LET A == AnalyzeBranch(code[b], FALSE) IN
  /\ ~failed
  /\ b \in pending
  /\ Analyzed(A) /\ A.Cond # <<>> /\ A.FBB # NoBlock
  /\ \E s \in Rewritten(code[b], A.FBB, A.TBB, ReverseBranchCondition(A.Cond)) :
        code' = [code EXCEPT ![b] = s]
  /\ UNCHANGED <<prog, layout, pending, failed>>

(* Branch folding of an analysed block: drop a branch to the next block,   *)
(* the second branch to it, or branch around to it.                        *)
Folded(s, next, A) ==
  IF ~Analyzed(A) \/ next = NoBlock THEN {s}
  ELSE IF A.TBB = next /\ A.FBB = NoBlock THEN {RemoveBranch(s)}
  ELSE IF A.FBB = next /\ A.Cond # <<>> THEN Rewritten(s, A.TBB, NoBlock, A.Cond)
  ELSE IF A.TBB = next /\ A.Cond # <<>>
       THEN Rewritten(s, A.FBB, NoBlock, ReverseBranchCondition(A.Cond))
  ELSE {s}

(* It lets AnalyzeBranch erase dead instructions.                          *)
Fold(b) ==
  LET A == AnalyzeBranch(code[b], TRUE)
      s == SubSeq(code[b], 1, A.len)
  IN
  /\ ~failed /\ A.state # "failed"
  /\ pending = {}
  /\ \E t \in Folded(s, LayoutSucc(layout, b), A) : code' = [code EXCEPT ![b] = t]
  /\ UNCHANGED <<prog, layout, pending, failed>>

(* isBranch's assertion fails as a block is updated or folded: the         *)
(* compiler stops.                                                         *)
Stop(b) ==
  /\ ~failed
  /\ \/ b \in pending /\ AnalyzeBranch(code[b], FALSE).state = "failed"
     \/ pending = {} /\ AnalyzeBranch(code[b], TRUE).state = "failed"
  /\ failed' = TRUE
  /\ UNCHANGED <<prog, layout, code, pending>>

Next ==
  \/ \E order \in SetToSeqs(Blocks) : Place(order)
  \/ \E b \in Blocks : Update(b) \/ Reorder(b) \/ Fold(b) \/ Stop(b)

Spec == Init /\ [][Next]_vars

--------------------------------------------------------------------------------
Operands == ({"mbb"} \X Blocks) \cup ({"reg"} \X Registers) \cup ({"imm"} \X Int)

Opcodes == ConditionalBranches \cup {"J", "JX", "RET_N"} \cup Calls \cup OtherOpcodes

Instructions == [op : Opcodes, ops : Seq(Operands)]

(***************************************************************************)
(* The programs whose branches can be reversed.  A block ends in a return, *)
(* an indirect jump, a jump, a comparison of two registers (of others: run *)
(* branch_imm), alone or before a jump, or in none of these; above are no  *)
(* branches, but calls anywhere.  The two ways of a comparison are         *)
(* different ones.                                                         *)
(***************************************************************************)
Straight(s) ==
  \A j \in DOMAIN s : s[j].op \notin ConditionalBranches \cup {"J", "JX", "RET_N"}

WellFormedEnd(t, next) ==
  \/ t = <<>> /\ next \in Blocks
  \/ Len(t) = 1 /\ t[1].op = "RET_N"
  \/ Len(t) = 1 /\ t[1].op = "JX" /\ ~isMBB(t[1])
  \/ \E B \in Blocks : t = <<BranchTo(B)>>
  \/ \E op \in BranchRR, B \in Blocks, l, r \in {"reg"} \X Registers :
       \/ t = <<BranchIf(op, B, l, r)>> /\ next \in Blocks \ {B}
       \/ \E C \in Blocks \ {B} : t = <<BranchIf(op, B, l, r), BranchTo(C)>>

WellFormed(p) ==
  /\ p.layout \in SetToSeqs(Blocks)
  /\ p.code \in [Blocks -> Seq(Instructions)]
  /\ \A b \in Blocks : \E k \in 0 .. Len(p.code[b]) :
       /\ Straight(SubSeq(p.code[b], 1, k))
       /\ WellFormedEnd(SubSeq(p.code[b], k + 1, Len(p.code[b])),
                        LayoutSucc(p.layout, b))

(* Type invariant.                                                         *)
TypeOK ==
  /\ prog \in Programs
  /\ layout \in SetToSeqs(Blocks)
  /\ code \in [Blocks -> Seq(Instructions)]
  /\ pending \subseteq Blocks
  /\ failed \in BOOLEAN

(* A block whose branches are up to date goes where the selected program   *)
(* went, for every value of the compared registers: whatever sequence of   *)
(* placements, reversals, removals and insertions its branches went        *)
(* through, no destination is lost, swapped or taken on another condition. *)
BranchesPreserved ==
  \A b \in Blocks \ pending, val \in Valuations :
    Destination(layout, code[b], b, val)
      = Destination(prog.layout, prog.code[b], b, val)

(* A block that could be analysed when it was selected still can: what     *)
(* InsertBranch leaves is what AnalyzeBranch reads.                        *)
StaysAnalyzable ==
  \A b \in Blocks :
    AnalyzeBranch(prog.code[b], FALSE).state # "cannot"
      => AnalyzeBranch(code[b], FALSE).state # "cannot"

(* A call with nothing behind it in its block but branches to blocks.      *)
CallAtEnd(s) ==
  \E j \in DOMAIN s :
    /\ s[j].op \in Calls
    /\ \A k \in j + 1 .. Len(s) : isBranch(s[k]) /\ isMBB(s[k])

(* isBranch's assertion "Unknown branch opcode" fails for a call at the    *)
(* end of a selected block, which the .td files make a branch, and for     *)
(* nothing else: isBranch knows every branch that is selected, and every   *)
(* one that InsertBranch makes of them.                                    *)
OnlyCallsUnknown == failed => \E b \in Blocks : CallAtEnd(prog.code[b])
================================================================================
