--------------------------- MODULE InterpretError ---------------------------
(***************************************************************************)
(* The interpreter's reporting error (src/rust/src/nasl/interpreter/     *)
(* error.rs): a kind and an optional originating statement.  Each        *)
(* constructor and From conversion is an operator; message texts are     *)
(* abstracted to the kind's tag and the data a property looks at (the    *)
(* function name of a FunctionCallError).                                *)
(***************************************************************************)

CONSTANT None   \* None of an Option (no statement, no value)

(* struct FunctionError and FunctionError::new, lines 13-32: the called   *)
(* function's name and the NaslError it failed with.                      *)
FunctionError(function, kind) == [function |-> function, kind |-> kind]

(* A kind of InterpretErrorKind (lines 45-93) or of NaslError: its tag   *)
(* and the data it wraps.                                                *)
Kind(tag, data) == [tag |-> tag, data |-> data]

(* InterpretError::new, lines 101-103. *)
new(kind, origin) == [kind |-> kind, origin |-> origin]

(* Mutant of from_statement: the statement is not stored.                 *)
from_statement_detached(stmt, kind) == new(kind, None)

(* InterpretError::from_statement, lines 105-111: the origin is the      *)
(* statement the error occurred on.                                       *)
from_statement(stmt, kind) == new(kind, stmt)

(* InterpretError::unsupported, lines 145-150.                            *)
unsupported(stmt) == from_statement(stmt, Kind("WrongType", None))

(* The constructors without a statement (expected_value, expected_function,*)
(* wrong_category, not_found, include_syntax_error, unparse_regex, lines  *)
(* 152-185) and the From impls of lower-layer errors (lines 188-228): the  *)
(* kind, and no origin.                                                   *)
Detached(tag, data) == new(Kind(tag, data), None)

(* impl From<io::ErrorKind> for InterpretError, lines 206-210.            *)
FromIoErrorKind(ie) == Detached("IOError", ie)

(* impl From<FunctionError> for InterpretError, lines 230-238: an I/O     *)
(* failure becomes a top-level IOError, a GeneralError becomes a          *)
(* StorageError, anything else a FunctionCallError keeping the function.  *)
(* None of them has an origin yet.                                        *)
FromFunctionError(fe) ==
  CASE fe.kind.tag = "IOError" -> FromIoErrorKind(fe.kind.data)
    [] fe.kind.tag = "GeneralError" ->
         new(Kind("StorageError", fe.kind.data), None)
    [] OTHER -> new(Kind("FunctionCallError", fe), None)
=============================================================================
