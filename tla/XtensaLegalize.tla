----------------------------- MODULE XtensaLegalize -----------------------------
(***************************************************************************)
(* Legalization.  The constructor of XtensaTargetLowering tells LLVM what  *)
(* becomes of each operation on each type: Legal, it has a pattern;        *)
(* Expand, it is rewritten by LLVM; Custom, by LowerOperation.  LLVM 3.8   *)
(* (external here) builds a DAG, combines it, splits the types that have   *)
(* no register class, rewrites until every node is Legal and matches what  *)
(* is left against the patterns of XtensaInstrInfo.td.  The table, the     *)
(* cases of LowerOperation and the patterns are three separate lists, and  *)
(* nothing but a compilation that fails, or never ends, shows that they    *)
(* disagree.                                                               *)
(*                                                                         *)
(* A node is its opcode, the type its action is looked up under and what   *)
(* more decides its fate: the use of a comparison, the size of a constant, *)
(* the depth of a frame.  Operands are left out, and equal nodes are one.  *)
(***************************************************************************)
EXTENDS Integers, FiniteSets

CONSTANTS
  Statements, (* the sets of nodes LLVM builds for one statement           *)
  Supported,  (* those made only of operations the backend claims to have  *)
  Functions   (* the sets of statements compiled together                  *)

ASSUME FunctionsAssumption ==
  Supported \subseteq Statements /\ Functions \subseteq SUBSET Statements

(* LLVM does not itself build copies from the frame register.              *)
ASSUME StatementsAssumption ==
  \A s \in Statements : \A n \in s : n.form # "a15"

VARIABLES
  source,   (* the statements of the function                              *)
  pic,      (* Reloc::PIC_ or Reloc::Static                                *)
  todo,     (* the nodes not known to be legal                             *)
  legal,    (* the nodes that are                                          *)
  info,     (* what lowering told MachineFrameInfo and XtensaFunctionInfo  *)
  status    (* combine, types, ops, selected, or why the compiler stopped  *)

vars == <<source, pic, todo, legal, info, status>>

Frame == INSTANCE XtensaFrameLayout

Node(op, vt, form) == [op |-> op, vt |-> vt, form |-> form]
N(op, vt) == Node(op, vt, "any")
Words(ops) == {N(op, "i32") : op \in ops}

--------------------------------------------------------------------------------
(***************************************************************************)
(* The table, as sets of opcode and type, in the order of the constructor. *)
(* i32 is the only type with a register class.                             *)
(***************************************************************************)
LegalTypes == {"i32", "Other", "i1", "i8", "i16"}  (* inner types included *)

(* Mutant: i32 comparisons are expanded as the i64 ones are.               *)
ComparisonExpandSETCC ==
  ({"BR_CC", "SETCC"} \X {"i32", "i64"}) \cup {<<"SELECT_CC", "i32">>}

ComparisonExpand ==
  ({"BR_CC"} \X {"i32", "i64"}) \cup {<<"SELECT_CC", "i32">>, <<"SETCC", "i64">>}

ComparisonCustom ==
  {<<"SELECT_CC", "i64">>} \cup ({"Constant"} \X {"i32", "i64"})

ControlExpand == {"BR_JT", "BRIND"} \X {"Other"}

(* The loop over the integer types, for those with a register class.       *)
NoSupportExpand ==
  {"SDIVREM", "UDIVREM", "ATOMIC_LOAD", "ATOMIC_STORE"} \X {"i32"}

(* Mutant: the high half of a product is left at its default.              *)
ArithmeticExpandLowOnly ==
  ({"MUL", "SDIV", "SREM", "UREM", "ADD", "SUB"} \X {"i64"})
    \cup ({"ADDC", "ADDE", "SUBC", "SUBE"} \X {"i32"})
    \cup ({"SHL_PARTS", "SRA_PARTS", "SRL_PARTS"} \X {"i32"})

ArithmeticExpand ==
  ({"MUL", "SDIV", "SREM", "UREM", "ADD", "SUB"} \X {"i64"})
    \cup ({"MULHS", "MULHU"} \X {"i32", "i64"})
    \cup ({"ADDC", "ADDE", "SUBC", "SUBE"} \X {"i32"})
    \cup ({"SMUL_LOHI", "UMUL_LOHI"} \X {"i32", "i64"})
    \cup ({"SHL_PARTS", "SRA_PARTS", "SRL_PARTS"} \X {"i32"})

BitExpand ==
  {"CTPOP", "ROTL", "ROTR", "CTTZ_ZERO_UNDEF", "CTLZ_ZERO_UNDEF"} \X {"i32"}

(* setLoadExtAction: extending an i1 load loads a byte.                    *)
LoadExtPromote == {"SEXTLOAD", "ZEXTLOAD", "EXTLOAD"} \X {"i1"}

SignExtendExpand == {"SIGN_EXTEND_INREG"} \X {"i1", "i8", "i16", "i32"}

AddressCustom ==
  {"ConstantPool", "GlobalAddress", "GlobalTLSAddress", "BlockAddress",
   "JumpTable"} \X {"i32"}

StackExpand == {<<"DYNAMIC_STACKALLOC", "i32">>}

StackCustom == {"STACKSAVE", "STACKRESTORE", "FRAMEADDR"} \X {"Other"}

(* hasF is read before the feature string is, and f32 has no register      *)
(* class: the loop over the floating-point types changes nothing.          *)
FloatExpand ==
  ({"FMA", "SETCC", "BITCAST"} \X {"f32", "f64"})
    \cup ({"BITCAST"} \X {"i32", "i64"})
    \cup ({"UINT_TO_FP", "SINT_TO_FP", "FP_TO_UINT", "FP_TO_SINT"}
            \X {"i32", "i64"})

VarArgCustom == {"VASTART", "VAARG"} \X {"Other"}
VarArgExpand == {"VACOPY", "VAEND"} \X {"Other"}

FenceCustom == {<<"ATOMIC_FENCE", "Other">>}

CustomTable ==
  ComparisonCustom \cup AddressCustom \cup StackCustom \cup VarArgCustom
    \cup FenceCustom

ExpandTable ==
  ComparisonExpand \cup ControlExpand \cup NoSupportExpand \cup ArithmeticExpand
    \cup BitExpand \cup SignExtendExpand \cup StackExpand \cup FloatExpand
    \cup VarArgExpand

getOperationAction(op, vt) ==
  IF <<op, vt>> \in CustomTable THEN "Custom"
  ELSE IF <<op, vt>> \in ExpandTable THEN "Expand"
  ELSE "Legal"

isOperationLegalOrCustom(op, vt) ==
  vt \in LegalTypes /\ getOperationAction(op, vt) # "Expand"

(* The action LegalizeOp looks up.  A chained node goes by its chain; the  *)
(* two address nodes lie about being legal.                                *)
ActionOf(n) ==
  CASE n.op = "VAARG"     -> getOperationAction(n.op, "Other")
    [] n.op \in {"FRAMEADDR", "RETURNADDR"} -> "Custom"
    [] <<n.op, n.vt>> \in LoadExtPromote -> "Promote"
    [] OTHER -> getOperationAction(n.op, n.vt)

--------------------------------------------------------------------------------
(***************************************************************************)
(* LLVM 3.8: what it rewrites nodes into, as far as the table decides it.  *)
(***************************************************************************)
(* makeLibCall, through LowerCall.  A static callee stays a symbol.        *)
LibCall ==
  {N(op, "Other") : op \in {"CALLSEQ_START", "CopyToReg", "CALLSEQ_END"}}
    \cup {N("CopyFromReg", "i32")}
    \cup IF pic THEN {Node("CALL", "Other", "reg"), N("PCREL_WRAPPER", "i32")}
                ELSE {Node("CALL", "Other", "sym")}

SmallConstant == Node("Constant", "i32", "imm12")

(* DAGCombiner: nodes it forms when the target has them.                   *)
Combine(n) ==
  CASE n.op = "SELECT" /\ n.form = "setcc"
         /\ isOperationLegalOrCustom("SELECT_CC", n.vt) ->
         {N("SELECT_CC", n.vt)}
    [] n.op = "BRCOND" /\ n.form = "setcc"
         /\ isOperationLegalOrCustom("BR_CC", "i32") ->
         {N("BR_CC", "i32")}
    [] n.op = "SDIV" /\ n.form = "const"
         /\ \E op \in {"MULHS", "SMUL_LOHI"} :
              isOperationLegalOrCustom(op, n.vt) ->
         Words({"MULHS", "SRA", "SRL", "ADD"})
    [] n.op = "SDIV" /\ n.form = "pow2" ->
         Words({"SRA", "SRL", "ADD"}) \cup {SmallConstant}
    [] n.op = "SDIV" /\ n.form = "rem"
         /\ isOperationLegalOrCustom("SDIVREM", n.vt) ->
         {N("SDIVREM", n.vt)}
    [] n.op = "SDIV" /\ n.form = "rem" -> Words({"SDIV", "SREM"})
    [] n.op = "OR" /\ n.form = "rotate"
         /\ isOperationLegalOrCustom("ROTL", n.vt) ->
         {N("ROTL", n.vt)}
    [] n.op = "OR" /\ n.form = "rotate" -> Words({"SHL", "SRL", "OR"})
    [] OTHER -> {n}

IllegalType(n) == n.vt \in {"i64", "f32", "f64"}

HighProduct == {"MULHS", "MULHU", "SMUL_LOHI", "UMUL_LOHI"}

(* DAGTypeLegalizer: an i64 is two words, a float is the word or words of  *)
(* its bits.                                                               *)
Split(n) ==
  CASE n.op = "ADD" /\ n.vt = "i64" ->
         IF isOperationLegalOrCustom("ADDC", "i32")
         THEN Words({"ADDC", "ADDE"})
         ELSE Words({"ADD", "SELECT"}) \cup {Node("SETCC", "i32", "select")}
    [] n.op = "SUB" /\ n.vt = "i64" ->
         IF isOperationLegalOrCustom("SUBC", "i32")
         THEN Words({"SUBC", "SUBE"})
         ELSE Words({"SUB", "SELECT"}) \cup {Node("SETCC", "i32", "select")}
    [] n.op = "MUL" /\ n.vt = "i64" ->
         IF \E op \in HighProduct : isOperationLegalOrCustom(op, "i32")
         THEN Words({"MUL", "ADD"})
                \cup Words({op \in {"MULHU", "UMUL_LOHI"} :
                              isOperationLegalOrCustom(op, "i32")})
         ELSE LibCall
    [] n.op = "SHL" /\ n.vt = "i64" ->
         IF isOperationLegalOrCustom("SHL_PARTS", "i32")
         THEN Words({"SHL_PARTS"}) ELSE LibCall
    [] n.op = "SETCC" /\ n.vt = "i64" /\ n.form = "equal" ->
         Words({"XOR", "OR"}) \cup {Node("SETCC", "i32", "brcond")}
    [] n.op = "SETCC" /\ n.vt = "i64" ->
         Words({"SELECT"})
           \cup {Node("SETCC", "i32", f) : f \in {"value", "select", "brcond"}}
    [] n.op = "SETCC" -> LibCall \cup {Node("SETCC", "i32", "brcond")}
    [] n.op = "ConstantFP" /\ n.vt = "f64" -> {Node("Constant", "i64", "wide")}
    [] n.op = "ConstantFP" -> {Node("Constant", "i32", "wide")}
    [] n.op \in {"LOAD", "STORE"} -> Words({n.op, "ADD"}) \cup {SmallConstant}
    [] n.op \in {"AND", "OR", "XOR", "SELECT", "VAARG"} ->
         {Node(n.op, "i32", n.form)}
    [] n.op = "BITCAST" -> {}
    [] OTHER -> LibCall

(* LegalizeDAG::ExpandNode; it has no case for BRIND, which stays.         *)
Expansion(n) ==
  CASE n.op = "SELECT_CC" -> {N("SELECT", "i32"), Node("SETCC", "i32", "select")}
    [] n.op = "SETCC"     -> {N("SELECT_CC", "i32"), SmallConstant}
    [] n.op = "BR_JT"     ->
         Words({"MUL", "ADD", "LOAD"}) \cup {SmallConstant, N("BRIND", "Other")}
    [] n.op = "SIGN_EXTEND_INREG" -> Words({"SHL", "SRA"}) \cup {SmallConstant}
    [] n.op = "CTPOP" ->
         Words({"SRL", "AND", "SUB", "ADD", "MUL"})
           \cup {SmallConstant, Node("Constant", "i32", "wide")}
    [] n.op = "CTLZ_ZERO_UNDEF" -> Words({"CTLZ"})
    [] n.op = "CTTZ_ZERO_UNDEF" -> Words({"CTTZ"})
    [] n.op = "ATOMIC_LOAD"  -> Words({"ATOMIC_CMP_SWAP"}) \cup {SmallConstant}
    [] n.op = "ATOMIC_STORE" -> Words({"ATOMIC_SWAP"})
    [] n.op = "DYNAMIC_STACKALLOC" ->
         Words({"SUB", "CopyFromReg"})
           \cup {N(op, "Other") : op \in
                   {"CALLSEQ_START", "CopyToReg", "CALLSEQ_END"}}
    [] n.op = "VACOPY" -> Words({"LOAD", "STORE"})
    [] n.op = "VAEND"  -> {}
    [] OTHER -> {n}

--------------------------------------------------------------------------------
(***************************************************************************)
(* LowerOperation.                                                         *)
(***************************************************************************)
(* A constant outside imm12 is loaded from the constant pool, -2048 too.   *)
(* Mutant: the load has the width the constant has in the source.          *)
lowerImmediateWide(n) ==
  IF n.form = "imm12" THEN {n} ELSE {N("LOAD", "i64"), N("ConstantPool", "i32")}

lowerImmediate(n) ==
  IF n.form = "imm12" THEN {n} ELSE Words({"LOAD", "ConstantPool"})

getAddrPIC == {N("PCREL_WRAPPER", "i32")}

lowerSELECT_CC(n) == {Node("SETCC", "i32", "select"), N("SELECT", n.vt)}

(* Mutant: no case for stack restores.                                     *)
LowerCasesNoRestore ==
  {"Constant", "RETURNADDR", "SELECT_CC", "GlobalAddress", "GlobalTLSAddress",
   "BlockAddress", "JumpTable", "ConstantPool", "VASTART", "VAARG",
   "ATOMIC_FENCE", "STACKSAVE", "FRAMEADDR"}

LowerCases ==
  {"Constant", "RETURNADDR", "SELECT_CC", "GlobalAddress", "GlobalTLSAddress",
   "BlockAddress", "JumpTable", "ConstantPool", "VASTART", "VAARG",
   "ATOMIC_FENCE", "STACKSAVE", "STACKRESTORE", "FRAMEADDR"}

(* The assertions and unreachable ends of the lowerings.                   *)
LowerFailure(n) ==
  CASE n.op \notin LowerCases -> "unexpected node"
    [] n.op \in {"FRAMEADDR", "RETURNADDR"} /\ n.form = "outer" -> "depth"
    [] n.op = "GlobalTLSAddress" /\ n.form # "localexec" -> "tls model"
    [] OTHER -> "none"

LowerOperation(n) ==
  CASE n.op = "Constant"     -> lowerImmediate(n)
    [] n.op = "SELECT_CC"    -> lowerSELECT_CC(n)
    [] n.op \in {"GlobalAddress", "JumpTable", "ConstantPool"} -> getAddrPIC
    [] n.op = "BlockAddress" -> {N("TargetBlockAddress", "i32")}
    [] n.op = "GlobalTLSAddress" -> Words({"Hi", "Lo", "ADD"})
    [] n.op = "VASTART"      -> {N("STORE", "i32")}
    [] n.op = "VAARG"        -> Words({"LOAD", "ADD", "STORE"}) \cup {SmallConstant}
    [] n.op = "RETURNADDR"   -> {Node("CopyFromReg", "i32", "a0")}
    [] n.op = "FRAMEADDR"    -> {Node("CopyFromReg", "i32", "a15")}
    [] n.op \in {"STACKSAVE", "ATOMIC_FENCE"} -> {Node("CopyFromReg", n.vt, "sp")}
    [] n.op = "STACKRESTORE" -> {Node("CopyToReg", "Other", "sp")}

(* What a lowering tells the rest of the backend about the function.       *)
(* Mutant: a frame address is not recorded.                                *)
RecordNoFrameAddress(n) ==
  [info EXCEPT
     !.returnAddrTaken = @ \/ n.op = "RETURNADDR",
     !.liveIns = IF n.op = "RETURNADDR" THEN @ \cup {"a0"} ELSE @,
     !.manipulatesSP =
       @ \/ n.op \in {"STACKSAVE", "STACKRESTORE", "ATOMIC_FENCE"}]

Record(n) ==
  [info EXCEPT
     !.frameAddrTaken  = @ \/ n.op = "FRAMEADDR",
     !.returnAddrTaken = @ \/ n.op = "RETURNADDR",
     !.liveIns = IF n.op = "RETURNADDR" THEN @ \cup {"a0"} ELSE @,
     !.manipulatesSP =
       @ \/ n.op \in {"STACKSAVE", "STACKRESTORE", "ATOMIC_FENCE"}]

--------------------------------------------------------------------------------
(***************************************************************************)
(* The nodes some pattern matches, alone or folded into their user.        *)
(***************************************************************************)
(* SRL's pattern is that of SRA.                                           *)
Operators ==
  {"ADD", "SUB", "AND", "OR", "XOR", "MUL", "SDIV", "UDIV", "SREM", "UREM",
   "SHL", "SRA", "SELECT"}

Access(n) ==
  \/ n.op \in {"LOAD", "STORE", "EXTLOAD"}
  \/ n.op \in {"SEXTLOAD", "TRUNCSTORE"} /\ n.vt \in {"i8", "i16"}
  \/ n.op = "ZEXTLOAD" /\ n.vt = "i16"

(* A comparison only below a branch, and below a select that compares with *)
(* zero for equality (form select0); a branch only above a comparison.     *)
Condition(n) ==
  \/ n.op = "BRCOND" /\ n.form = "setcc"
  \/ n.op = "SETCC" /\ n.vt = "i32" /\ n.form \in {"brcond", "select0"}

Control == {"BRIND", "CALL", "CALLSEQ_START", "CALLSEQ_END"}

(* Copies need no pattern, nor does the target node of a block address.    *)
Selectable(n) ==
  \/ n.op \in Operators \cup Control
  \/ n.op \in {"CopyToReg", "CopyFromReg", "PCREL_WRAPPER", "TargetBlockAddress"}
  \/ n.op = "Constant" /\ n.form = "imm12"
  \/ Access(n)
  \/ Condition(n)

--------------------------------------------------------------------------------
(***************************************************************************)
(* The compiler's steps, each on some node.                                *)
(***************************************************************************)
Init ==
  /\ source \in Functions
  /\ pic \in BOOLEAN
  /\ todo = UNION source
  /\ legal = {}
  /\ info = [disableFPElim |-> FALSE,
             varSized |-> \E n \in todo : n.op = "DYNAMIC_STACKALLOC",
             frameAddrTaken |-> FALSE, returnAddrTaken |-> FALSE,
             liveIns |-> {}, manipulatesSP |-> FALSE]
  /\ status = "combine"

CombineAll ==
  /\ status = "combine"
  /\ todo' = UNION {Combine(n) : n \in todo}
  /\ status' = "types"
  /\ UNCHANGED <<source, pic, legal, info>>

(* ReplaceNodeResults is not overridden: a Custom operation on a type with *)
(* no register class has no lowering.                                      *)
SplitType ==
  /\ status = "types"
  /\ \E n \in todo :
       /\ IllegalType(n)
       /\ IF getOperationAction(n.op, n.vt) = "Custom"
          THEN /\ status' = "no ReplaceNodeResults"
               /\ UNCHANGED todo
          ELSE /\ todo' = (todo \ {n}) \cup Split(n)
               /\ UNCHANGED status
  /\ UNCHANGED <<source, pic, legal, info>>

TypesLegal ==
  /\ status = "types"
  /\ \A n \in todo : ~IllegalType(n)
  /\ status' = "ops"
  /\ UNCHANGED <<source, pic, todo, legal, info>>

(* Node n is replaced by new ones; one that stays as it is is legal.       *)
Replace(n, new) ==
  /\ todo'  = (todo \ {n}) \cup (new \ {n})
  /\ legal' = IF n \in new THEN legal \cup {n} ELSE legal

LegalizeOp(n) ==
  /\ CASE ActionOf(n) = "Legal"   -> Replace(n, {n})
       [] ActionOf(n) = "Expand"  -> Replace(n, Expansion(n))
       [] ActionOf(n) = "Promote" ->
            Replace(n, IF n.op = "SEXTLOAD"
                       THEN {N("EXTLOAD", "i8"), N("SIGN_EXTEND_INREG", "i1")}
                       ELSE {N(n.op, "i8")})
       [] ActionOf(n) = "Custom"  -> Replace(n, LowerOperation(n))
  /\ info' = IF ActionOf(n) = "Custom" THEN Record(n) ELSE info
  /\ UNCHANGED <<source, pic, status>>

LowerFails(n) ==
  /\ ActionOf(n) = "Custom" /\ LowerFailure(n) # "none"
  /\ status' = LowerFailure(n)
  /\ UNCHANGED <<source, pic, todo, legal, info>>

Legalize ==
  /\ status = "ops"
  /\ \E n \in todo :
       \/ LowerFails(n)
       \/ /\ ActionOf(n) = "Custom" => LowerFailure(n) = "none"
          /\ LegalizeOp(n)

Select ==
  /\ status = "ops" /\ todo = {}
  /\ status' = IF \A n \in legal : Selectable(n) THEN "selected"
                                                 ELSE "cannot select"
  /\ UNCHANGED <<source, pic, todo, legal, info>>

Next == CombineAll \/ SplitType \/ TypesLegal \/ Legalize \/ Select

(* One thread that runs until it is done: the compiler takes a step        *)
(* whenever it can.                                                        *)
Spec == Init /\ [][Next]_vars /\ WF_vars(Next)

--------------------------------------------------------------------------------
(***************************************************************************)
(* Properties                                                              *)
(***************************************************************************)
Running == {"combine", "types", "ops"}

(* Once types are legal they stay so: no expansion and no lowering brings  *)
(* back a type without a register class, which nothing would split again.  *)
TypeOK ==
  /\ pic \in BOOLEAN
  /\ info \in [disableFPElim : BOOLEAN, varSized : BOOLEAN,
               frameAddrTaken : BOOLEAN, returnAddrTaken : BOOLEAN,
               liveIns : SUBSET {"a0"}, manipulatesSP : BOOLEAN]
  /\ status \in Running
       \cup {"selected", "cannot select", "no ReplaceNodeResults",
             "unexpected node", "depth", "tls model"}
  /\ status = "ops" => \A n \in todo \cup legal : ~IllegalType(n)

(* Whatever the table calls Custom on a type with registers has a case in  *)
(* LowerOperation, whose default is unreachable.                           *)
NoUnexpectedNode == status # "unexpected node"

(* A function compiled to read a15 as its frame address gets a frame       *)
(* pointer there (XtensaFrameLowering::hasFP).                             *)
FrameAddressHasFP ==
  status = "selected" /\ Node("CopyFromReg", "i32", "a15") \in legal
    => Frame!hasFP(info)

(* The compiler ends on every function, with code or with an error: no     *)
(* operation is expanded into others that are expanded back into it.       *)
Ends == <>(status \notin Running)

(* A function of supported statements only is compiled: each operation the *)
(* table leaves Legal, and each one Expand and Custom lead to, has a       *)
(* pattern.                                                                *)
SupportedCompiles == (source \subseteq Supported) ~> (status = "selected")
================================================================================
