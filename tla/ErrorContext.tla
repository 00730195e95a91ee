---------------------------- MODULE ErrorContext ----------------------------
(***************************************************************************)
(* Where an interpreter error is reported (src/rust/src/nasl/interpreter/ *)
(* error.rs).  A statement nested in others fails with an InterpretError  *)
(* built by one of the constructors: from_statement and unsupported give  *)
(* it the failing statement as origin, the other constructors and the     *)
(* From impls give none; a failed built-in call (a FunctionError of this  *)
(* crate) is converted by From<FunctionError>.  The error propagates out  *)
(* to the root statement, where Interpreter::resolve, as the comment on   *)
(* InterpretError::new (lines 99-100) describes it, replaces a 0,0        *)
(* location with the root statement; the interpreter is not under src/.   *)
(* line_column then gives the location the user sees: the origin's first *)
(* token, or 0,0.  Statements are model values; EoF,                      *)
(* AttackCategory, Continue and Break have a token at 0,0.                *)
(***************************************************************************)
EXTENDS Naturals, Sequences, InterpretError

CONSTANTS
  Statements,   \* the statements of a script
  Pos,          \* Pos[s]: line and column of s's first token, <<0, 0>> if none
  MaxDepth,     \* deepest nesting of statements
  DetachedTags, \* kinds the constructors without statement may build
  Called,       \* name of the built-in a failing call statement calls
  CallKinds     \* tags of the NaslErrors a built-in call may fail with

ASSUME ContextAssumption ==
  /\ None \notin Statements
  /\ Pos \in [Statements -> Nat \X Nat]
  /\ MaxDepth \in Nat \ {0}

Unknown == <<0, 0>>

(* InterpretError::line_column, lines 125-143: the line and column of the *)
(* origin's first token, or the default 0,0 when there is no origin.      *)
line_column(e) == IF e.origin = None THEN Unknown ELSE Pos[e.origin]

(* InterpretError::line and ::column, lines 113-123.                       *)
line(e) == line_column(e)[1]
column(e) == line_column(e)[2]

(* The errors the statements here fail with: a kind and an origin.       *)
CallErrors == {FunctionError(Called, Kind(k, None)) : k \in CallKinds}
ErrorKinds ==
  [tag : {"NotFound", "WrongType", "IOError", "StorageError"} \cup DetachedTags,
   data : {None}] \cup
  [tag : {"FunctionCallError"}, data : CallErrors]
Errors == [kind : ErrorKinds, origin : Statements \cup {None}]

Paths == UNION {[1..n -> Statements] : n \in 1..MaxDepth}

VARIABLES
  path,    \* the statements being evaluated, from the root to the innermost
  depth,   \* the statement evaluated now is path[depth]
  phase,   \* "eval", "propagate" or "reported"
  err,     \* the error propagating, or None
  at,      \* the depth where it was raised
  how      \* "statement" if built with its statement, "call" if converted
           \* from a built-in's FunctionError, else "detached"

vars == <<path, depth, phase, err, at, how>>

Init ==
  /\ path \in Paths /\ depth = 1 /\ phase = "eval"
  /\ err = None /\ at = 0 /\ how = "detached"

(* Mutant of Descend: off by one at the innermost statement.              *)
DescendPastEnd ==
  /\ phase = "eval" /\ depth <= Len(path)
  /\ depth' = depth + 1
  /\ UNCHANGED <<path, phase, err, at, how>>

(* The evaluator enters a nested statement.                                *)
Descend ==
  /\ phase = "eval" /\ depth < Len(path)
  /\ depth' = depth + 1
  /\ UNCHANGED <<path, phase, err, at, how>>

(* The statement evaluated now fails.                                      *)
Raise ==
  /\ phase = "eval"
  /\ \/ /\ err' \in {from_statement(path[depth], Kind("NotFound", None)),
                   unsupported(path[depth])}
        /\ how' = "statement"
     \/ /\ \E t \in DetachedTags : err' = Detached(t, None)
        /\ how' = "detached"
     \/ /\ \E fe \in CallErrors : err' = FromFunctionError(fe)
        /\ how' = "call"
  /\ at' = depth /\ phase' = "propagate"
  /\ UNCHANGED <<path, depth>>

(* The error passes through an enclosing statement unchanged.              *)
Propagate ==
  /\ phase = "propagate" /\ depth > 1
  /\ depth' = depth - 1
  /\ UNCHANGED <<path, phase, err, at, how>>

(* Interpreter::resolve at the root: "if the line as well as col is null  *)
(* Interpreter::resolve will replace it with the line and col number      *)
(* based on the root statement" (lines 99-100).                            *)
Resolve ==
  /\ phase = "propagate" /\ depth = 1
  /\ err' = IF line_column(err) = Unknown THEN [err EXCEPT !.origin = path[1]]
            ELSE err
  /\ phase' = "reported"
  /\ UNCHANGED <<path, depth, at, how>>

Next == Descend \/ Raise \/ Propagate \/ Resolve

Spec == Init /\ [][Next]_vars

-----------------------------------------------------------------------------
TypeOK ==
  /\ path \in Paths
  /\ depth \in 1..Len(path)
  /\ phase \in {"eval", "propagate", "reported"}
  /\ err \in Errors \cup {None}
  /\ at \in 0..Len(path)
  /\ how \in {"statement", "detached", "call"}

(* An error built with the statement it occurred on keeps that           *)
(* statement's location all the way to the user, whatever the statements *)
(* it propagates through.                                                  *)
OriginKept ==
  (phase = "reported" /\ how = "statement" /\ Pos[path[at]] # Unknown)
    => line_column(err) = Pos[path[at]]

(* The specification (4.5): a function-call error whose cause is not an  *)
(* I/O failure reaches the user as a FunctionCallError that retains the   *)
(* function's name.                                                        *)
FunctionNameRetained ==
  (phase = "reported" /\ how = "call") =>
    \/ err.kind.tag = "IOError"
    \/ err.kind.tag = "FunctionCallError" /\ err.kind.data.function = Called
=============================================================================
