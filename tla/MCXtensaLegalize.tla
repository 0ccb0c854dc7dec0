--------------------------- MODULE MCXtensaLegalize ---------------------------
(* The statements of XtensaLegalize, compiled alone and with another.       *)
EXTENDS XtensaLegalize

Branch(form) == {Node("BRCOND", "Other", "setcc"), Node("SETCC", "i32", form)}

(* Statements every operation of which ends in a pattern.                  *)
Compiled ==
  {{N(op, "i32")} : op \in Operators}
    \cup {{Node("SDIV", "i32", f)} : f \in {"const", "rem"}}
    \cup {{N(op, "i64")} : op \in {"AND", "OR", "XOR", "MUL", "SDIV", "UREM",
                                   "SHL", "LOAD", "STORE", "VAARG"}}
    \cup {{N("SIGN_EXTEND_INREG", vt)} : vt \in {"i1", "i8", "i16"}}
    \cup {{N("SEXTLOAD", vt)} : vt \in {"i1", "i8", "i16"}}
    \cup {{N("EXTLOAD", vt)} : vt \in {"i1", "i8", "i16"}}
    \cup {{N("ZEXTLOAD", "i16")}, {N("TRUNCSTORE", "i8")}}
    \cup {{N(op, "i32"), N("LOAD", "i32")} :
             op \in {"GlobalAddress", "JumpTable", "ConstantPool"}}
    \cup {{Node("Constant", "i32", f), N("ADD", "i32")} : f \in {"imm12", "wide"}}
    \cup {Branch("brcond"),
          {Node("BRCOND", "Other", "setcc"), Node("SETCC", "i64", "equal")},
          {Node("SELECT", "i32", "setcc"), Node("SETCC", "i32", "select0")},
          {Node("SELECT", "i64", "setcc"), Node("SETCC", "i32", "select0")},
          Branch("brcond") \cup {N("SUB", "i32"), N("BR_JT", "Other"),
                                N("JumpTable", "i32")},
          {N("BRIND", "Other"), N("LOAD", "i32")},
          {N("DYNAMIC_STACKALLOC", "i32"), N("STACKSAVE", "Other"),
           N("STACKRESTORE", "Other")},
          {Node("FRAMEADDR", "i32", "this")},
          {Node("RETURNADDR", "i32", "this")},
          {N("ATOMIC_FENCE", "Other")},
          {N("VASTART", "Other")}, {N("VACOPY", "Other")}, {N("VAEND", "Other")},
          {N("FADD", "f32")}, {N("FMA", "f64")}, {N("SINT_TO_FP", "f32")},
          {N("BITCAST", "f32"), Node("ConstantFP", "f32", "any")},
          {Node("BRCOND", "Other", "setcc"), N("SETCC", "f32")}}

(* Statements some operation of which has no pattern or no lowering.       *)
NotCompiled ==
  {{N("SRL", "i32")}, {Node("OR", "i32", "rotate")}, {Node("SDIV", "i32", "pow2")},
   {N("CTPOP", "i32")}, {N("CTLZ", "i32")}, {N("CTTZ_ZERO_UNDEF", "i32")},
   {N("BSWAP", "i32")}, {N("ADD", "i64")}, {N("SUB", "i64")},
   {N("ZEXTLOAD", "i8")}, {N("ZEXTLOAD", "i1")},
   {Node("SETCC", "i32", "value")}, {Node("BRCOND", "Other", "value")},
   {Node("SELECT", "i32", "setcc"), Node("SETCC", "i32", "select")},
   {Node("BRCOND", "Other", "setcc"), Node("SETCC", "i64", "less")},
   {Node("Constant", "i64", "wide")}, {Node("ConstantFP", "f64", "any")},
   {N("TRAP", "Other")}, {N("ATOMIC_LOAD", "i32")}, {N("ATOMIC_STORE", "i32")},
   {Node("GlobalTLSAddress", "i32", "localexec")},
   {Node("GlobalTLSAddress", "i32", "dynamic")},
   {Node("FRAMEADDR", "i32", "outer")}, {Node("RETURNADDR", "i32", "outer")}}

(* The address of a block is selected as an operand where the printer of a  *)
(* load wants a register (XtensaISel).                                      *)
NotPrinted == {{N("BlockAddress", "i32"), N("LOAD", "i32")}}

MCStatements == Compiled \cup NotCompiled \cup NotPrinted
MCSupported  == Compiled

(* Each statement alone, and beside one that lowers to a frame access, to  *)
(* a call or to an error.                                                  *)
MCFunctions ==
  {{s} : s \in MCStatements}
    \cup {{s, t} : s \in MCStatements,
                  t \in {{Node("FRAMEADDR", "i32", "this")}, {N("MUL", "i64")},
                         {Node("Constant", "i64", "wide")}}}
================================================================================
