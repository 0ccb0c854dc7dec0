------------------------------ MODULE XtensaISel -------------------------------
(***************************************************************************)
(* One operand's way from the selection DAG to assembly text.              *)
(*                                                                         *)
(* A node asks for an address (a base and an offset), as a value or as     *)
(* the address of a load or store.  It is legalized, matched, given to the *)
(* custom inserter, freed of frame indices, lowered to an MCInst and       *)
(* printed, each by a hook that takes only what the one before left: which *)
(* part of the address is in which operand is their only agreement.        *)
(*                                                                         *)
(* What an address is worth is external: registers, symbols, the frame and *)
(* the constant pool are where the constants place them, and Run executes  *)
(* instructions.                                                           *)
(***************************************************************************)
EXTENDS Integers, Sequences, SequencesExt

CONSTANTS
  Uses,      (* what nodes ask for                                         *)
  Bases,     (* kinds of bases                                             *)
  Offsets,   (* offsets added to a base                                    *)
  Objects,   (* distances of the frame object from the frame register      *)
  EntryValue, FrameValue,  (* the program's register, the frame register   *)
  SymbolAddr(_),           (* the address of the symbol of a kind of base  *)
  PoolAddr(_)              (* the pool entry that holds a constant         *)

Loads  == {"load8s", "load8z", "load8", "load16s", "load16z", "load16", "load32"}
Stores == {"store8", "store16", "store32"}

ASSUME ISelAssumption ==
  /\ Uses \subseteq {"value", "asm"} \cup Loads \cup Stores
  /\ Bases \subseteq {"none", "reg", "fi", "global", "jumptable", "blockaddress", "tls"}
  /\ Offsets \subseteq Int /\ 0 \in Offsets /\ Objects \subseteq Int

VARIABLES
  node,    (* what the program asks for                                    *)
  object,  (* where the layout will put the frame object                   *)
  stage,   (* the next hook                                                *)
  dag,     (* the address: one leaf, or two to be added                    *)
  code     (* the instructions, in the form of the stage                   *)

vars == <<node, object, stage, dag, code>>

--------------------------------------------------------------------------------
(***************************************************************************)
(* Values.  Registers are numbers, so that operands compare.               *)
(***************************************************************************)
Result == 0  Ptr == 1  Second == 2  Entry == 3  FrameReg == 4  Scratch == 5
Registers == 0 .. 5

Nodes ==
  {[use |-> u, base |-> b, off |-> o] : u \in Uses, b \in Bases, o \in Offsets}

(* The address node n asks for, its frame object at distance o.            *)
Address(n, o) ==
  n.off + (CASE n.base = "none" -> 0
             [] n.base = "reg"  -> EntryValue
             [] n.base = "fi"   -> FrameValue + o
             [] OTHER           -> SymbolAddr(n.base))

(* A pool entry is where the program has no name for it.                   *)
ASSUME LayoutAssumption ==
  /\ EntryValue \in Int /\ FrameValue \in Int
  /\ \A b \in Bases : SymbolAddr(b) \in Int
  /\ \A c \in Offsets : PoolAddr(c) \in Int
  /\ \A c, d \in Offsets : PoolAddr(c) = PoolAddr(d) => c = d
  /\ \A n \in Nodes : \A o \in Objects, c \in Offsets : Address(n, o) # PoolAddr(c)

--------------------------------------------------------------------------------
(***************************************************************************)
(* The DAG.  A leaf has a kind, a value (a constant, a symbol's address)   *)
(* and, when it names a symbol, an offset into it.                         *)
(***************************************************************************)
Leaf(k, v, o) == [k |-> k, v |-> v, o |-> o]

isInt12(x) == x \in -2048 .. 2047

(* The immediate operands, whose printers assert the same ranges.          *)
imm8  == -128 .. 127
imm7n == -32 .. 95
imm12 == -2048 .. 2047
immn  == -1 .. 15

(* Mutant: the combiner may fold, and the offset is dropped on lowering.   *)
isOffsetFoldingLegalYes == TRUE

isOffsetFoldingLegal == FALSE

BaseLeaf(n) ==
  CASE n.base = "none" -> Leaf("Constant", n.off, 0)
    [] n.base = "reg"  -> Leaf("Register", EntryValue, 0)
    [] n.base = "fi"   -> Leaf("FrameIndex", 0, 0)
    [] n.base = "global" ->
         Leaf("GlobalAddress", SymbolAddr(n.base),
              IF isOffsetFoldingLegal THEN n.off ELSE 0)
    [] n.base = "jumptable" -> Leaf("JumpTable", SymbolAddr(n.base), 0)
    [] n.base = "tls" -> Leaf("GlobalTLSAddress", SymbolAddr(n.base), 0)
    [] OTHER -> Leaf("BlockAddress", SymbolAddr(n.base), 0)

DAGOf(n) ==
  IF n.base = "none" \/ n.off = 0 \/ BaseLeaf(n).o # 0
  THEN <<BaseLeaf(n)>>
  ELSE <<BaseLeaf(n), Leaf("Constant", n.off, 0)>>

(* A constant the moves reach stays; any other is loaded from the pool.    *)
lowerImmediate(l) ==
  IF l.v > -2048 /\ l.v <= 2047 THEN l ELSE Leaf("PoolLoad", l.v, 0)

getAddrPIC(l) == Leaf("PCREL_WRAPPER", l.v, l.o)

lowerGlobalAddress(l) == getAddrPIC([l EXCEPT !.o = 0])

lowerJumpTable(l) == getAddrPIC(l)

lowerBlockAddress(l) == Leaf("TargetBlockAddress", l.v, l.o)

(* a11 as thread pointer, and the offset as a sum of nodes Hi and Lo.      *)
lowerGlobalTLSAddress(l) == Leaf("TPREL", l.v, 0)

(* The address of the entry that holds constant c.                         *)
lowerConstantPool(c) == getAddrPIC(Leaf("TargetConstantPool", PoolAddr(c), 0))

(* Mutant: jump tables have no case.                                       *)
LowerOperationNoJumpTable(l) ==
  CASE l.k = "Constant"      -> lowerImmediate(l)
    [] l.k = "GlobalAddress" -> lowerGlobalAddress(l)
    [] l.k = "BlockAddress"  -> lowerBlockAddress(l)
    [] l.k = "GlobalTLSAddress" -> lowerGlobalTLSAddress(l)
    [] OTHER                 -> l

LowerOperation(l) ==
  CASE l.k = "Constant"      -> lowerImmediate(l)
    [] l.k = "GlobalAddress" -> lowerGlobalAddress(l)
    [] l.k = "JumpTable"     -> lowerJumpTable(l)
    [] l.k = "BlockAddress"  -> lowerBlockAddress(l)
    [] l.k = "GlobalTLSAddress" -> lowerGlobalTLSAddress(l)
    [] OTHER                 -> l

--------------------------------------------------------------------------------
(***************************************************************************)
(* Instructions: an opcode and its operands in the order of its definition.*)
(***************************************************************************)
Ins(op, ops) == [op |-> op, ops |-> ops]
R(r)   == [k |-> "reg", v |-> r]
Imm(c) == [k |-> "imm", v |-> c]
FI     == [k |-> "fi", v |-> 0]
Sym(a) == [k |-> "sym", v |-> a]

LoadOps  == {"L8UI", "L16SI", "L16UI", "L32I", "L32I_N"}
StoreOps == {"S8I", "S16I", "S32I", "S32I_N"}

mayLoadOrStore(op) == op \in LoadOps \cup StoreOps \cup {"INLINEASM"}

(* The instructions whose pattern has the node's access.  Nothing extends  *)
(* a byte by zeros.  Where a wide and a narrow form match alike, either    *)
(* may win.                                                                *)
Patterns(use) ==
  CASE use \in {"load8s", "load8"}   -> {"L8UI"}
    [] use = "load8z"                -> {}
    [] use = "load16s"               -> {"L16SI"}
    [] use \in {"load16z", "load16"} -> {"L16UI"}
    [] use = "load32"                -> {"L32I", "L32I_N"}
    [] use = "store8"                -> {"S8I"}
    [] use = "store16"               -> {"S16I"}
    [] use = "store32"               -> {"S32I", "S32I_N"}

(* The ways to put constant c, or a sum with it, in register r.            *)
MoveImm(r, c) ==
  {<<Ins("MOVI", <<R(r), Imm(c)>>)>>}
    \cup {<<Ins("MOVI_N", <<R(r), Imm(c)>>)>> : n \in {c} \cap imm7n}

AddImm(r, s, c) ==
  {<<Ins("ADDI", <<R(r), s, Imm(c)>>)>>}
    \cup {<<Ins("ADDI_N", <<R(r), s, Imm(c)>>)>> : n \in {c} \cap immn}

AddReg(r, s, t) == {<<Ins(op, <<R(r), s, R(t)>>)>> : op \in {"ADD", "ADD_N"}}

LoadAddress(r, a) == <<Ins("LA", <<R(r), Sym(a)>>)>>

(* Select turns a frame index into addi r, fi, 0.  A target node counts as *)
(* selected and has no code; Hi and Lo have no pattern.                    *)
SelectLeaf(l, r) ==
  CASE l.k = "Constant"      -> MoveImm(r, l.v)
    [] l.k = "PoolLoad"      -> {LoadAddress(r, lowerConstantPool(l.v).v)
                                   \o <<Ins(op, <<R(r), Imm(0), R(r)>>)>> :
                                     op \in Patterns("load32")}
    [] l.k = "PCREL_WRAPPER" -> {LoadAddress(r, l.v + l.o)}
    [] l.k = "FrameIndex"    -> {<<Ins("ADDI", <<R(r), FI, Imm(0)>>)>>}
    [] l.k \in {"Register", "TargetBlockAddress"} -> {<<>>}
    [] OTHER                 -> {}

LeafReg(l, r) == IF l.k = "Register" THEN Entry ELSE r

(* What stands for a leaf in the instruction that uses it.  A pattern's    *)
(* AR:$s matches any node of the type, so a target node goes in as it is.  *)
LeafOperand(l, r) ==
  IF l.k = "TargetBlockAddress" THEN Sym(l.v + l.o) ELSE R(LeafReg(l, r))

SelectSum(a, b, r) ==
  {first \o rest :
     first \in SelectLeaf(a, r),
     rest \in
       IF b.k = "Constant" /\ b.v \in imm8
       THEN AddImm(r, LeafOperand(a, r), b.v)
       ELSE {second \o add : second \in SelectLeaf(b, Second),
                             add \in AddReg(r, LeafOperand(a, r), Second)}}

SelectValue(d, r) ==
  IF Len(d) = 2 THEN SelectSum(d[1], d[2], r) ELSE SelectLeaf(d[1], r)

ValueReg(d, r) == IF Len(d) = 2 THEN r ELSE LeafReg(d[1], r)

ValueOperand(d, r) == IF Len(d) = 2 THEN R(r) ELSE LeafOperand(d[1], r)

(* isBaseWithConstantOffset holds of a sum with a constant.  The symbols   *)
(* that match nothing are bare; a block address has a kind they do not     *)
(* list, and is taken for a base.                                          *)
selectMemRegAddr(d) ==
  IF Len(d) = 2 /\ d[2].k = "Constant" /\ isInt12(d[2].v)
  THEN [base |-> <<d[1]>>, off |-> d[2].v]
  ELSE [base |-> d, off |-> 0]

(* The address's own code, and the access with the operands `first` ahead  *)
(* of the address.                                                         *)
AccessAt(ops, first, am) ==
  IF am.base = <<Leaf("FrameIndex", 0, 0)>>
  THEN {<<Ins(op, first \o <<Imm(am.off), FI>>)>> : op \in ops}
  ELSE {address \o
          <<Ins(op, first \o <<Imm(am.off), ValueOperand(am.base, Ptr)>>)>> :
            address \in SelectValue(am.base, Ptr), op \in ops}

SelectAccess(use, am) ==
  AccessAt(Patterns(use), <<R(IF use \in Loads THEN Result ELSE Entry)>>, am)

(* It takes selectMemRegAddr's offset for the base and the base for the    *)
(* offset, and pushes "base" first.  Result stands for the assembly's own  *)
(* operands.                                                               *)
SelectInlineAsmMemoryOperand(am) == AccessAt({"INLINEASM"}, <<R(Result)>>, am)

(* A value is copied to a register: a target node alone has none to copy.  *)
Selections(n, d) ==
  CASE n.use = "value" ->
         {c \in SelectValue(d, Result) : ValueOperand(d, Result).k = "reg"}
    [] n.use = "asm"   -> SelectInlineAsmMemoryOperand(selectMemRegAddr(d))
    [] OTHER           -> SelectAccess(n.use, selectMemRegAddr(d))

(* The case for LA in EmitInstrWithCustomInserter returns without a change.*)
EmitInstrWithCustomInserter(i) == i

--------------------------------------------------------------------------------
(***************************************************************************)
(* Frame indices.  The immediate is ahead of the index in loads and stores *)
(* and behind it elsewhere.                                                *)
(***************************************************************************)
FIOperand(i) == CHOOSE p \in DOMAIN i.ops : i.ops[p] = FI

eliminateFI(SPOffset, i) ==
  LET OpNo   == FIOperand(i)
      I      == IF mayLoadOrStore(i.op) THEN OpNo - 1 ELSE OpNo + 1
      Offset == SPOffset + i.ops[I].v
      With(reg, imm) == Ins(i.op, [i.ops EXCEPT ![OpNo] = R(reg), ![I] = Imm(imm)])
  IN  IF \A p \in DOMAIN i.ops : i.ops[p] # FI THEN <<i>>
      ELSE IF isInt12(Offset) THEN <<With(FrameReg, Offset)>>
      ELSE <<Ins("LI", <<R(Scratch), Imm(Offset)>>),
             Ins("ADD", <<R(Scratch), R(FrameReg), R(Scratch)>>),
             With(Scratch, 0)>>

--------------------------------------------------------------------------------
(***************************************************************************)
(* MC lowering and printing.                                               *)
(***************************************************************************)
lowerOperand(o) == IF o.k = "sym" THEN [o EXCEPT !.k = "expr"] ELSE o

lower(i) == Ins(i.op, [p \in DOMAIN i.ops |-> lowerOperand(i.ops[p])])

(* Mutant: the offset printed ahead of the base.                           *)
printMemOperandOffsetFirst(i) == i

(* Base, then offset.                                                      *)
printMemOperand(i) == Ins(i.op, <<i.ops[1], i.ops[3], i.ops[2]>>)

(* An inline assembly's operand is printed as it stands, offset(base) of   *)
(* what PrintAsmMemoryOperand takes for base and offset.                   *)
printInst(i) ==
  IF mayLoadOrStore(i.op) /\ i.op # "INLINEASM" THEN printMemOperand(i) ELSE i

(* The assertions of the immediate printers, and of the operand accessors  *)
(* in PrintAsmMemoryOperand and printMemOperand.                           *)
PrintAsserts(i) ==
  /\ i.op = "INLINEASM" => i.ops[2].k = "reg" /\ i.ops[3].k = "imm"
  /\ i.op \in LoadOps \cup StoreOps => i.ops[3].k = "reg"
  /\ i.op = "ADDI"   => i.ops[3].v \in imm8
  /\ i.op = "ADDI_N" => i.ops[3].v \in immn
  /\ i.op = "MOVI"   => i.ops[2].v \in imm12
  /\ i.op = "MOVI_N" => i.ops[2].v \in imm7n

--------------------------------------------------------------------------------
Init ==
  /\ node \in Nodes
  /\ object \in Objects
  /\ stage = "legalize"
  /\ dag = DAGOf(node)
  /\ code = <<>>

Legalize ==
  /\ stage = "legalize"
  /\ dag' = [j \in DOMAIN dag |-> LowerOperation(dag[j])]
  /\ stage' = "select"
  /\ UNCHANGED <<node, object, code>>

Select ==
  /\ stage = "select"
  /\ \E c \in Selections(node, dag) : code' = c
  /\ stage' = "insert"
  /\ UNCHANGED <<node, object, dag>>

CannotSelect ==
  /\ stage = "select"
  /\ Selections(node, dag) = {}
  /\ stage' = "failed"
  /\ UNCHANGED <<node, object, dag, code>>

(* A pass that has called its hook on every instruction.                   *)
Pass(from, to, new) ==
  /\ stage = from
  /\ code' = new
  /\ stage' = to
  /\ UNCHANGED <<node, object, dag>>

ExpandPseudos ==
  Pass("insert", "frame", [j \in DOMAIN code |-> EmitInstrWithCustomInserter(code[j])])

ReplaceFrameIndices ==
  Pass("frame", "lower",
       FlattenSeq([j \in DOMAIN code |-> eliminateFI(object, code[j])]))

Lower == Pass("lower", "print", [j \in DOMAIN code |-> lower(code[j])])

EmitText ==
  /\ \A j \in DOMAIN code : PrintAsserts(code[j])
  /\ Pass("print", "printed", [j \in DOMAIN code |-> printInst(code[j])])

PrintFails ==
  /\ stage = "print"
  /\ \E j \in DOMAIN code : ~PrintAsserts(code[j])
  /\ stage' = "asserted"
  /\ UNCHANGED <<node, object, dag, code>>

Next ==
  \/ Legalize \/ Select \/ CannotSelect \/ ExpandPseudos
  \/ ReplaceFrameIndices \/ Lower \/ EmitText \/ PrintFails

Spec == Init /\ [][Next]_vars

--------------------------------------------------------------------------------
(***************************************************************************)
(* What the instructions, and the text, do.                                *)
(***************************************************************************)
Width(op) ==
  CASE op \in {"L8UI", "S8I"} -> 8
    [] op \in {"L16SI", "L16UI", "S16I"} -> 16
    [] OTHER -> 32

Extends(op) ==
  CASE op \in {"L8UI", "L16UI"} -> "zero" [] op = "L16SI" -> "sign"
    [] OTHER -> "whole"

Access(op, a) ==
  [a |-> a, width |-> Width(op), ext |-> Extends(op), store |-> op \in StoreOps]

(* The machine: its registers, the accesses so far, where the frame object *)
(* is, and whether it reads text, which has operands in another order.     *)
Start(o, text) ==
  [r      |-> [x \in Registers |-> IF x = Entry THEN EntryValue
                                   ELSE IF x = FrameReg THEN FrameValue ELSE 0],
   acc    |-> <<>>,
   object |-> o,
   text   |-> text]

Put(s, r, v) == [s EXCEPT !.r[r] = v]

Val(s, o) ==
  CASE o.k = "reg" -> s.r[o.v] [] o.k = "fi" -> FrameValue + s.object
    [] OTHER -> o.v

PoolEntry(a) == {c \in Offsets : PoolAddr(c) = a}

(* A load into r or store, at what base and off add up to.                 *)
DoAccess(s, op, r, base, off) ==
  LET a == Val(s, base) + Val(s, off)
  IN  IF base.k = "imm" \/ off.k # "imm" THEN s   \* no such operand
      ELSE IF op \in LoadOps /\ PoolEntry(a) # {}
      THEN Put(s, r, CHOOSE c \in PoolEntry(a) : TRUE)
      ELSE [s EXCEPT !.acc = Append(@, Access(op, a))]

Do(s, i) ==
  CASE i.op \in {"ADD", "ADD_N", "ADDI", "ADDI_N"} ->
         Put(s, i.ops[1].v, Val(s, i.ops[2]) + Val(s, i.ops[3]))
    [] i.op \in {"MOVI", "MOVI_N", "LI"} -> Put(s, i.ops[1].v, Val(s, i.ops[2]))
    [] i.op = "LA" ->   \* printed as a comment
         IF s.text THEN s ELSE Put(s, i.ops[1].v, Val(s, i.ops[2]))
    [] mayLoadOrStore(i.op) ->
         IF s.text THEN DoAccess(s, i.op, i.ops[1].v, i.ops[2], i.ops[3])
         ELSE DoAccess(s, i.op, i.ops[1].v, i.ops[3], i.ops[2])

(* The offsets the instruction set encodes, as the operand types and their *)
(* printers have them.  The types print through printMemOperand, so that   *)
(* the hooks above hold no offset to them.                                 *)
MemoryOffsets(op) ==
  CASE op \in {"L8UI", "S8I"} -> 0 .. 255
    [] op \in {"L16SI", "L16UI", "S16I"} -> {2 * m : m \in 0 .. 255}
    [] op \in {"L32I", "S32I"} -> {4 * m : m \in 0 .. 255}
    [] op \in {"L32I_N", "S32I_N"} -> {4 * m : m \in 0 .. 15}

(* Whether i's opcode encodes its operands: LA is not printed as an        *)
(* instruction, an offset has a range, and no other opcode takes a symbol. *)
Encodable(i) ==
  /\ i.op # "LA"
  /\ \A p \in DOMAIN i.ops :
       /\ i.ops[p].k # "expr"
       /\ i.op \in LoadOps \cup StoreOps /\ i.ops[p].k = "imm" =>
            i.ops[p].v \in MemoryOffsets(i.op)

Run(s, c) ==
  LET after[n \in 0 .. Len(c)] == IF n = 0 THEN s ELSE Do(after[n - 1], c[n])
  IN  after[Len(c)]

LeafValue(l, o) == IF l.k = "FrameIndex" THEN FrameValue + o ELSE l.v + l.o

DAGValue(d, o) == LeafValue(d[1], o) + (IF Len(d) = 2 THEN LeafValue(d[2], o) ELSE 0)

(* The accesses that answer the node: at its address, of its width and, a  *)
(* load whose upper bits matter, with its extension.                       *)
Answers(n, o) ==
  LET width == CASE n.use \in {"load8s", "load8z", "load8", "store8"} -> 8
                 [] n.use \in {"load16s", "load16z", "load16", "store16"} -> 16
                 [] OTHER -> 32
      exts  == CASE n.use \in {"load8s", "load16s"} -> {"sign"}
                 [] n.use \in {"load8z", "load16z"} -> {"zero"}
                 [] n.use \in {"load8", "load16"}   -> {"zero", "sign"}
                 [] OTHER -> {"whole"}
  IN  [a : {Address(n, o)}, width : {width}, ext : exts, store : {n.use \in Stores}]

(* Machine s, at the end, has done what node n asks for; d is its DAG.     *)
Computes(s, n, o, d) ==
  IF n.use = "value" THEN s.r[ValueReg(d, Result)] = Address(n, o)
  ELSE \E access \in Answers(n, o) : s.acc = <<access>>

ComputesNode ==
  Computes(Run(Start(object, stage = "printed"), code), node, object, dag)

--------------------------------------------------------------------------------
(* What each hook may be handed: the matcher, leaves it knows; MC          *)
(* lowering, no frame index; the printer, no symbol that is not an         *)
(* expression.                                                             *)
Kinds ==
  IF stage = "legalize"
  THEN {"Constant", "Register", "FrameIndex", "GlobalAddress", "JumpTable",
        "BlockAddress", "GlobalTLSAddress"}
  ELSE {"Constant", "PoolLoad", "Register", "FrameIndex", "PCREL_WRAPPER",
        "TargetBlockAddress", "TPREL"}

OperandKinds ==
  CASE stage \in {"insert", "frame"} -> {"reg", "imm", "fi", "sym"}
    [] stage = "lower" -> {"reg", "imm", "sym"}
    [] OTHER -> {"reg", "imm", "expr"}

Opcodes ==
  LoadOps \cup StoreOps
    \cup {"INLINEASM", "MOVI", "MOVI_N", "ADDI", "ADDI_N", "ADD", "ADD_N", "LA", "LI"}

TypeOK ==
  /\ node \in Nodes
  /\ object \in Objects
  /\ stage \in {"legalize", "select", "insert", "frame", "lower", "print",
                "printed", "failed", "asserted"}
  /\ Len(dag) \in 1 .. 2 /\ dag \in Seq([k : Kinds, v : Int, o : Int])
  /\ \A j \in DOMAIN code :
       /\ code[j].op \in Opcodes
       /\ \A p \in DOMAIN code[j].ops :
            code[j].ops[p] \in [k : OperandKinds, v : Int]

(* No hook changes what the node asks for: lowering drops no part of an    *)
(* address, matching divides it between base and offset, a pool entry      *)
(* holds its constant, the frame's distance is added exactly once, and     *)
(* the width and extension are the node's.  (LA counts as what its         *)
(* comment says, XtensaInstrInfo.td:225: "loading address from literal     *)
(* pool by L32R".)                                                         *)
MeaningPreserved ==
  CASE stage \in {"legalize", "select"} -> DAGValue(dag, object) = Address(node, object)
    [] stage \in {"insert", "frame", "lower", "print"} -> ComputesNode
    [] OTHER -> TRUE

(* Text whose operands can be encoded computes the node: the printers, the *)
(* operand lists and the assembly strings agree on what comes first.  Text *)
(* with LA does not, since it is printed as a comment, and an assembler    *)
(* refuses an offset out of range.                                         *)
PrintedComputesNode ==
  stage = "printed" /\ (\A j \in DOMAIN code : Encodable(code[j])) => ComputesNode
================================================================================
