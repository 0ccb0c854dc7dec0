-------------------------- MODULE XtensaLegalize_proofs --------------------------
(***************************************************************************)
(* What legalization guarantees for every set of statements: the table and *)
(* the cases of LowerOperation agree, a type that was split never returns, *)
(* and whoever reads the frame register has a frame pointer.               *)
(***************************************************************************)
EXTENDS XtensaLegalize, TLAPS

(* A node reads the frame register only if the function was told so.       *)
FrameReadInv == \A n \in todo \cup legal : n.form = "a15" => info.frameAddrTaken

IInv == TypeOK /\ NoUnexpectedNode /\ FrameReadInv

--------------------------------------------------------------------------------
(* The table and LowerOperation.                                           *)
LEMMA CustomHasCase ==
  ASSUME NEW n, ActionOf(n) = "Custom"
  PROVE  n.op \in LowerCases
<1>1. CASE n.op \in {"VAARG", "FRAMEADDR", "RETURNADDR"}
  BY <1>1 DEF LowerCases
<1>2. CASE n.op \notin {"VAARG", "FRAMEADDR", "RETURNADDR"}
  <2>1. <<n.op, n.vt>> \in CustomTable
    BY <1>2 DEF ActionOf, getOperationAction
  <2> QED
    BY <2>1 DEF CustomTable, ComparisonCustom, AddressCustom, StackCustom,
                VarArgCustom, FenceCustom, LowerCases
<1> QED
  BY <1>1, <1>2

(* A static failure is one of the two that are asserted.                   *)
LEMMA FailureKinds ==
  ASSUME NEW n, n.op \in LowerCases
  PROVE  LowerFailure(n) \in {"none", "depth", "tls model"}
  BY DEF LowerFailure

--------------------------------------------------------------------------------
(* Nodes a step makes: of a legal type, and reading no frame register,     *)
(* unless they are the node they are made from.                            *)
Plain(x) == x.form # "a15" /\ ~IllegalType(x)

LEMMA PlainNode ==
  ASSUME NEW op, NEW vt, NEW form, vt \notin {"i64", "f32", "f64"}, form # "a15"
  PROVE  Plain(Node(op, vt, form))
  BY DEF Plain, Node, IllegalType

LEMMA PlainN ==
  ASSUME NEW op, NEW vt, vt \notin {"i64", "f32", "f64"}
  PROVE  Plain(N(op, vt))
  BY PlainNode DEF N

LEMMA PlainWords ==
  ASSUME NEW ops, NEW x \in Words(ops)
  PROVE  Plain(x)
  BY PlainN DEF Words

LEMMA PlainSmallConstant == Plain(SmallConstant)
  BY PlainNode DEF SmallConstant

LEMMA PlainLibCall == \A x \in LibCall : Plain(x)
<1> SUFFICES ASSUME NEW x \in LibCall PROVE Plain(x)
  OBVIOUS
<1>1. \/ x \in {N(op, "Other") : op \in {"CALLSEQ_START", "CopyToReg", "CALLSEQ_END"}}
      \/ x = N("CopyFromReg", "i32")
      \/ x = Node("CALL", "Other", "reg") \/ x = N("PCREL_WRAPPER", "i32")
      \/ x = Node("CALL", "Other", "sym")
  BY DEF LibCall
<1> QED
  BY <1>1, PlainN, PlainNode

LEMMA ExpansionPlain ==
  ASSUME NEW n, NEW x \in Expansion(n)
  PROVE  Plain(x) \/ x = n
<1> USE PlainN, PlainNode, PlainWords, PlainSmallConstant
<1>1. CASE n.op = "SELECT_CC"
  BY <1>1 DEF Expansion
<1>2. CASE n.op = "SETCC"
  BY <1>2 DEF Expansion
<1>3. CASE n.op = "BR_JT"
  <2>1. x \in Words({"MUL", "ADD", "LOAD"}) \/ x = SmallConstant
          \/ x = N("BRIND", "Other")
    BY <1>3 DEF Expansion
  <2> QED
    BY <2>1
<1>4. CASE n.op = "SIGN_EXTEND_INREG"
  BY <1>4 DEF Expansion
<1>5. CASE n.op = "CTPOP"
  BY <1>5 DEF Expansion
<1>6. CASE n.op \in {"CTLZ_ZERO_UNDEF", "CTTZ_ZERO_UNDEF", "ATOMIC_STORE"}
  BY <1>6 DEF Expansion
<1>7. CASE n.op = "ATOMIC_LOAD"
  BY <1>7 DEF Expansion
<1>8. CASE n.op = "DYNAMIC_STACKALLOC"
  <2>1. \/ x \in Words({"SUB", "CopyFromReg"})
        \/ x \in {N(op, "Other") : op \in
                    {"CALLSEQ_START", "CopyToReg", "CALLSEQ_END"}}
    BY <1>8 DEF Expansion
  <2> QED
    BY <2>1
<1>9. CASE n.op \in {"VACOPY", "VAEND"}
  BY <1>9 DEF Expansion
<1>10. CASE n.op \notin {"SELECT_CC", "SETCC", "BR_JT", "SIGN_EXTEND_INREG",
                         "CTPOP", "CTLZ_ZERO_UNDEF", "CTTZ_ZERO_UNDEF",
                         "ATOMIC_LOAD", "ATOMIC_STORE", "DYNAMIC_STACKALLOC",
                         "VACOPY", "VAEND"}
  BY <1>10 DEF Expansion
<1> QED
  BY <1>1, <1>2, <1>3, <1>4, <1>5, <1>6, <1>7, <1>8, <1>9, <1>10

(* A lowering reads the frame register only for a frame address.           *)
LEMMA LoweringPlain ==
  ASSUME NEW n, n.op \in LowerCases, ~IllegalType(n), NEW x \in LowerOperation(n)
  PROVE  /\ ~IllegalType(x)
         /\ x.form = "a15" => n.op = "FRAMEADDR" \/ x = n
<1> USE PlainN, PlainNode, PlainWords, PlainSmallConstant
<1>0. n.vt \notin {"i64", "f32", "f64"}
  BY DEF IllegalType
<1>1. CASE n.op = "Constant"
  BY <1>1 DEF LowerOperation, lowerImmediate, Plain
<1>2. CASE n.op = "SELECT_CC"
  BY <1>0, <1>2 DEF LowerOperation, lowerSELECT_CC, Plain
<1>3. CASE n.op \in {"GlobalAddress", "JumpTable", "ConstantPool"}
  BY <1>3 DEF LowerOperation, getAddrPIC, Plain
<1>4. CASE n.op \in {"BlockAddress", "GlobalTLSAddress", "VASTART", "RETURNADDR"}
  BY <1>4 DEF LowerOperation, Plain
<1>5. CASE n.op = "VAARG"
  <2>1. x \in Words({"LOAD", "ADD", "STORE"}) \/ x = SmallConstant
    BY <1>5 DEF LowerOperation
  <2> QED
    BY <2>1 DEF Plain
<1>6. CASE n.op = "FRAMEADDR"
  BY <1>6 DEF LowerOperation, Node, IllegalType
<1>7. CASE n.op \in {"STACKSAVE", "ATOMIC_FENCE", "STACKRESTORE"}
  BY <1>0, <1>7 DEF LowerOperation, Plain
<1> QED
  BY <1>1, <1>2, <1>3, <1>4, <1>5, <1>6, <1>7 DEF LowerCases

LEMMA CombinePlain ==
  ASSUME NEW n, NEW x \in Combine(n)
  PROVE  x.form # "a15" \/ x = n
<1> USE PlainNode, PlainWords, PlainSmallConstant DEF Plain
<1>1. CASE n.op = "SELECT"
  BY <1>1 DEF Combine, N, Node
<1>2. CASE n.op = "BRCOND"
  BY <1>2 DEF Combine, N, Node
<1>3. CASE n.op = "SDIV"
  BY <1>3 DEF Combine, N, Node
<1>4. CASE n.op = "OR"
  BY <1>4 DEF Combine, N, Node
<1>5. CASE n.op \notin {"SELECT", "BRCOND", "SDIV", "OR"}
  BY <1>5 DEF Combine
<1> QED
  BY <1>1, <1>2, <1>3, <1>4, <1>5

LEMMA SplitPlain ==
  ASSUME NEW n, NEW x \in Split(n), x.form = "a15"
  PROVE  n.form = "a15"
<1> USE PlainLibCall, PlainN, PlainNode, PlainWords, PlainSmallConstant DEF Plain
<1>1. CASE n.op \in {"ADD", "SUB"}
  <2>1. \/ x \in Words({"ADDC", "ADDE"}) \/ x \in Words({"ADD", "SELECT"})
        \/ x \in Words({"SUBC", "SUBE"}) \/ x \in Words({"SUB", "SELECT"})
        \/ x = Node("SETCC", "i32", "select") \/ x \in LibCall
    BY <1>1 DEF Split
  <2> QED
    BY <2>1
<1>2. CASE n.op \in {"MUL", "SHL"}
  <2>1. \/ x \in Words({"MUL", "ADD"}) \/ x \in Words({"SHL_PARTS"})
        \/ x \in Words({op \in {"MULHU", "UMUL_LOHI"} :
                           isOperationLegalOrCustom(op, "i32")})
        \/ x \in LibCall
    BY <1>2 DEF Split
  <2> QED
    BY <2>1
<1>3. CASE n.op = "SETCC"
  <2>1. \/ x \in Words({"XOR", "OR"}) \/ x \in Words({"SELECT"})
        \/ \E f \in {"value", "select", "brcond"} : x = Node("SETCC", "i32", f)
        \/ x \in LibCall
    BY <1>3 DEF Split
  <2> QED
    BY <2>1
<1>4. CASE n.op = "ConstantFP"
  BY <1>4 DEF Split, Node
<1>5. CASE n.op \in {"LOAD", "STORE"}
  BY <1>5 DEF Split
<1>6. CASE n.op \in {"AND", "OR", "XOR", "SELECT", "VAARG"}
  BY <1>6 DEF Split, Node
<1>7. CASE n.op = "BITCAST"
  BY <1>7 DEF Split
<1>8. CASE n.op \notin {"ADD", "SUB", "MUL", "SHL", "SETCC", "ConstantFP", "LOAD",
                        "STORE", "AND", "OR", "XOR", "SELECT", "VAARG", "BITCAST"}
  BY <1>8 DEF Split
<1> QED
  BY <1>1, <1>2, <1>3, <1>4, <1>5, <1>6, <1>7, <1>8

--------------------------------------------------------------------------------
LEMMA InitIInv == Init => IInv
<1> SUFFICES ASSUME Init PROVE IInv
  OBVIOUS
<1>1. FrameReadInv
  <2>1. \A s \in source : s \in Statements
    BY FunctionsAssumption DEF Init
  <2> QED
    BY <2>1, StatementsAssumption DEF Init, FrameReadInv
<1>2. TypeOK /\ NoUnexpectedNode
  BY DEF Init, TypeOK, Running, NoUnexpectedNode
<1> QED
  BY <1>1, <1>2 DEF IInv

LEMMA CombineIInv ==
  ASSUME IInv, CombineAll
  PROVE  IInv'
<1>1. FrameReadInv'
  BY CombinePlain DEF CombineAll, IInv, FrameReadInv
<1>2. TypeOK' /\ NoUnexpectedNode'
  BY DEF CombineAll, IInv, TypeOK, Running, NoUnexpectedNode
<1> QED
  BY <1>1, <1>2 DEF IInv

LEMMA SplitIInv ==
  ASSUME IInv, SplitType
  PROVE  IInv'
<1>1. PICK n \in todo :
        \/ status' = "no ReplaceNodeResults" /\ todo' = todo
        \/ todo' = (todo \ {n}) \cup Split(n) /\ status' = status
  BY DEF SplitType
<1>2. status = "types" /\ UNCHANGED <<source, pic, legal, info>>
  BY DEF SplitType
<1>3. FrameReadInv'
  BY <1>1, <1>2, SplitPlain DEF IInv, FrameReadInv
<1>4. TypeOK' /\ NoUnexpectedNode'
  BY <1>1, <1>2 DEF IInv, TypeOK, Running, NoUnexpectedNode
<1> QED
  BY <1>3, <1>4 DEF IInv

LEMMA TypesIInv ==
  ASSUME IInv, TypesLegal, legal = {}
  PROVE  IInv'
  BY DEF TypesLegal, IInv, TypeOK, Running, NoUnexpectedNode, FrameReadInv

(* Recording keeps what was recorded.                                      *)
LEMMA RecordType ==
  ASSUME TypeOK, NEW n
  PROVE  /\ Record(n) \in [disableFPElim : BOOLEAN, varSized : BOOLEAN,
                          frameAddrTaken : BOOLEAN, returnAddrTaken : BOOLEAN,
                          liveIns : SUBSET {"a0"}, manipulatesSP : BOOLEAN]
         /\ info.frameAddrTaken => Record(n).frameAddrTaken
         /\ n.op = "FRAMEADDR" => Record(n).frameAddrTaken
  BY DEF TypeOK, Record

LEMMA LegalizeOpIInv ==
  ASSUME IInv, status = "ops", NEW n \in todo, LegalizeOp(n)
  PROVE  IInv'
<1>1. ~IllegalType(n) /\ \A x \in todo \cup legal : ~IllegalType(x)
  BY DEF IInv, TypeOK
<1> DEFINE New(s) == todo' = (todo \ {n}) \cup (s \ {n})
                       /\ (legal' = legal \cup {n} \/ legal' = legal)
<1>2. UNCHANGED <<source, pic, status>>
  BY DEF LegalizeOp
<1>3. info' = info \/ info' = Record(n)
  BY DEF LegalizeOp
<1>4. /\ info' \in [disableFPElim : BOOLEAN, varSized : BOOLEAN,
                    frameAddrTaken : BOOLEAN, returnAddrTaken : BOOLEAN,
                    liveIns : SUBSET {"a0"}, manipulatesSP : BOOLEAN]
      /\ info.frameAddrTaken => info'.frameAddrTaken
  BY <1>3, RecordType DEF IInv, TypeOK
<1>5. \A x \in todo' \cup legal' :
        /\ ~IllegalType(x)
        /\ x.form = "a15" => info'.frameAddrTaken
  <2>1. ASSUME NEW s, Replace(n, s),
               \A x \in s : /\ ~IllegalType(x)
                            /\ x.form = "a15" => x = n \/ info'.frameAddrTaken
        PROVE  \A x \in todo' \cup legal' :
                 /\ ~IllegalType(x)
                 /\ x.form = "a15" => info'.frameAddrTaken
    BY <1>1, <1>4, <2>1 DEF Replace, IInv, FrameReadInv
  <2>2. CASE ActionOf(n) = "Legal"
    <3>1. Replace(n, {n})
      BY <2>2 DEF LegalizeOp
    <3> QED
      BY <1>1, <2>1, <3>1
  <2>3. CASE ActionOf(n) = "Expand"
    <3>1. Replace(n, Expansion(n))
      BY <2>3 DEF LegalizeOp
    <3>2. \A x \in Expansion(n) : Plain(x) \/ x = n
      BY ExpansionPlain
    <3> QED
      BY <1>1, <2>1, <3>1, <3>2 DEF Plain
  <2>4. CASE ActionOf(n) = "Promote"
    <3>1. PICK s : Replace(n, s)
                     /\ (s = {N("EXTLOAD", "i8"), N("SIGN_EXTEND_INREG", "i1")}
                            \/ s = {N(n.op, "i8")})
      BY <2>4 DEF LegalizeOp
    <3>2. \A x \in s : Plain(x)
      BY <3>1, PlainN
    <3> QED
      BY <2>1, <3>1, <3>2 DEF Plain
  <2>5. CASE ActionOf(n) = "Custom"
    <3>1. Replace(n, LowerOperation(n)) /\ info' = Record(n)
      BY <2>5 DEF LegalizeOp
    <3>2. \A x \in LowerOperation(n) :
            ~IllegalType(x) /\ (x.form = "a15" => n.op = "FRAMEADDR" \/ x = n)
      BY <1>1, <2>5, CustomHasCase, LoweringPlain
    <3>3. n.op = "FRAMEADDR" => info'.frameAddrTaken
      BY <3>1, RecordType DEF IInv
    <3> QED
      BY <2>1, <3>1, <3>2, <3>3
  <2>6. ActionOf(n) \in {"Legal", "Expand", "Promote", "Custom"}
    BY DEF ActionOf, getOperationAction
  <2> QED
    BY <2>2, <2>3, <2>4, <2>5, <2>6
<1>6. TypeOK'
  BY <1>2, <1>4, <1>5 DEF IInv, TypeOK
<1> QED
  BY <1>2, <1>5, <1>6 DEF IInv, NoUnexpectedNode, FrameReadInv

LEMMA LowerFailsIInv ==
  ASSUME IInv, NEW n \in todo, LowerFails(n)
  PROVE  IInv'
<1>1. status' \in {"depth", "tls model"}
  BY CustomHasCase, FailureKinds DEF LowerFails
<1> QED
  BY <1>1 DEF LowerFails, IInv, TypeOK, Running, NoUnexpectedNode, FrameReadInv

LEMMA SelectIInv ==
  ASSUME IInv, Select
  PROVE  IInv'
<1>1. status' \in {"selected", "cannot select"}
  BY DEF Select
<1> QED
  BY <1>1 DEF Select, IInv, TypeOK, Running, NoUnexpectedNode, FrameReadInv

(* Nothing is legal before operations are legalized.                       *)
LegalEmpty == status \in {"combine", "types"} => legal = {}

LEMMA NextIInv == IInv /\ LegalEmpty /\ [Next]_vars => IInv' /\ LegalEmpty'
<1> SUFFICES ASSUME IInv, LegalEmpty, [Next]_vars PROVE IInv' /\ LegalEmpty'
  OBVIOUS
<1>1. CASE CombineAll
  BY <1>1, CombineIInv DEF CombineAll, LegalEmpty
<1>2. CASE SplitType
  BY <1>2, SplitIInv DEF SplitType, LegalEmpty
<1>3. CASE TypesLegal
  BY <1>3, TypesIInv DEF TypesLegal, LegalEmpty
<1>4. CASE Legalize
  <2>1. PICK n \in todo : LowerFails(n) \/ LegalizeOp(n)
    BY <1>4 DEF Legalize
  <2>2. status = "ops"
    BY <1>4 DEF Legalize
  <2>3. CASE LowerFails(n)
    <3>1. status' \in {"depth", "tls model"}
      BY <2>3, CustomHasCase, FailureKinds DEF LowerFails
    <3> QED
      BY <2>3, <3>1, LowerFailsIInv DEF LegalEmpty
  <2>4. CASE LegalizeOp(n)
    BY <2>2, <2>4, LegalizeOpIInv DEF LegalizeOp, LegalEmpty
  <2> QED
    BY <2>1, <2>3, <2>4
<1>5. CASE Select
  BY <1>5, SelectIInv DEF Select, LegalEmpty
<1>6. CASE UNCHANGED vars
  BY <1>6 DEF vars, IInv, TypeOK, NoUnexpectedNode, FrameReadInv, LegalEmpty
<1> QED
  BY <1>1, <1>2, <1>3, <1>4, <1>5, <1>6 DEF Next

(* The invariant, and what follows from it.                                *)
THEOREM Invariant == Spec => [](IInv /\ LegalEmpty)
<1>1. Init => IInv /\ LegalEmpty
  BY InitIInv DEF Init, LegalEmpty
<1>2. (IInv /\ LegalEmpty) /\ [Next]_vars => (IInv /\ LegalEmpty)'
  BY NextIInv
<1> QED
  BY <1>1, <1>2, PTL DEF Spec

(* A type that was split never comes back.                                 *)
THEOREM TypeCorrect == Spec => []TypeOK
<1>1. IInv /\ LegalEmpty => TypeOK
  BY DEF IInv
<1> QED
  BY <1>1, Invariant, PTL

(* The default of LowerOperation is not reached, whatever is compiled.     *)
THEOREM NeverUnexpected == Spec => []NoUnexpectedNode
<1>1. IInv /\ LegalEmpty => NoUnexpectedNode
  BY DEF IInv
<1> QED
  BY <1>1, Invariant, PTL

(* Code that reads a15 as its frame address has its frame pointer there.   *)
THEOREM FrameAddress == Spec => []FrameAddressHasFP
<1>1. IInv /\ LegalEmpty => FrameAddressHasFP
  <2> SUFFICES ASSUME FrameReadInv, Node("CopyFromReg", "i32", "a15") \in legal
               PROVE  Frame!hasFP(info)
    BY DEF IInv, FrameAddressHasFP
  <2>1. Node("CopyFromReg", "i32", "a15").form = "a15"
    BY DEF Node
  <2>2. info.frameAddrTaken
    BY <2>1 DEF FrameReadInv
  <2> QED
    BY <2>2 DEF Frame!hasFP
<1> QED
  BY <1>1, Invariant, PTL
================================================================================
