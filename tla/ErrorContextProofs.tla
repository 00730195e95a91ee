------------------------- MODULE ErrorContextProofs -------------------------
(***************************************************************************)
(* Proofs about ErrorContext for every set of statements, every location  *)
(* function, every nesting depth and every set of NaslError kinds: every  *)
(* reachable state is well typed, and an error built with its own         *)
(* statement keeps that statement's location.                             *)
(***************************************************************************)
EXTENDS ErrorContext, TLAPS

(* Once raised, the error is a well-formed InterpretError raised at a     *)
(* depth of the path.                                                      *)
Raised == phase # "eval" => at \in 1..Len(path) /\ err \in Errors

(* An error built with its statement still has it as origin, unless that  *)
(* statement has no location and resolve has replaced it.                  *)
Kept ==
  (phase # "eval" /\ how = "statement") =>
    \/ err.origin = path[at]
    \/ phase = "reported" /\ Pos[path[at]] = Unknown

IInv == TypeOK /\ Raised /\ Kept

(* A path is a sequence of statements.                                     *)
LEMMA PathsAreSeqs == Paths \subseteq Seq(Statements)
  BY DEF Paths

(* From<FunctionError> turns a failed call into an error of Errors: an    *)
(* I/O error, a StorageError, or a FunctionCallError wrapping the call's   *)
(* FunctionError; none of them has an origin.                              *)
LEMMA CallErrorType ==
  ASSUME NEW fe \in CallErrors
  PROVE  FromFunctionError(fe) \in Errors /\ FromFunctionError(fe).origin = None
  <1>1. PICK k \in CallKinds : fe = FunctionError(Called, Kind(k, None))
    BY DEF CallErrors
  <1>2. fe.kind = [tag |-> k, data |-> None]
    BY <1>1 DEF FunctionError, Kind
  <1>3. CASE k = "IOError"
    BY <1>2, <1>3 DEF FromFunctionError, FromIoErrorKind, Detached, new, Kind,
                      Errors, ErrorKinds
  <1>4. CASE k = "GeneralError"
    BY <1>2, <1>4 DEF FromFunctionError, new, Kind, Errors, ErrorKinds
  <1>5. CASE k \notin {"IOError", "GeneralError"}
    <2>1. FromFunctionError(fe) = new(Kind("FunctionCallError", fe), None)
      BY <1>2, <1>5 DEF FromFunctionError
    <2>2. Kind("FunctionCallError", fe) \in ErrorKinds
      BY DEF Kind, ErrorKinds
    <2>3. QED
      BY <2>1, <2>2 DEF new, Errors
  <1>6. QED
    BY <1>3, <1>4, <1>5

(* Every step preserves the invariant.                                     *)
LEMMA IInvStep == IInv /\ [Next]_vars => IInv'
  <1> USE ContextAssumption DEF IInv, TypeOK, Raised, Kept
  <1> SUFFICES ASSUME IInv, [Next]_vars PROVE IInv'
    OBVIOUS
  <1>0. path \in Seq(Statements)
    BY PathsAreSeqs
  <1>1. CASE Descend
    BY <1>0, <1>1 DEF Descend
  <1>2. CASE Raise
    <2>1. path[depth] \in Statements
      BY <1>0
    <2>2. CASE /\ err' \in {from_statement(path[depth], Kind("NotFound", None)),
                          unsupported(path[depth])}
               /\ how' = "statement"
      <3>1. err' \in Errors /\ err'.origin = path[depth]
        BY <2>1, <2>2 DEF from_statement, unsupported, new, Kind, Errors,
                          ErrorKinds
      <3>2. QED
        BY <1>0, <1>2, <2>2, <3>1 DEF Raise
    <2>3. CASE /\ \E t \in DetachedTags : err' = Detached(t, None)
               /\ how' = "detached"
      <3>1. err' \in Errors
        BY <2>3 DEF Detached, new, Kind, Errors, ErrorKinds
      <3>2. QED
        BY <1>0, <1>2, <2>3, <3>1 DEF Raise
    <2>4. CASE /\ \E fe \in CallErrors : err' = FromFunctionError(fe)
               /\ how' = "call"
      <3>1. err' \in Errors
        BY <2>4, CallErrorType
      <3>2. QED
        BY <1>0, <1>2, <2>4, <3>1 DEF Raise
    <2>5. QED
      BY <1>2, <2>2, <2>3, <2>4 DEF Raise
  <1>3. CASE Propagate
    BY <1>0, <1>3 DEF Propagate
  <1>4. CASE Resolve
    <2>1. at \in 1..Len(path) /\ err \in Errors /\ depth = 1
          /\ phase = "propagate"
      BY <1>4 DEF Resolve
    <2>2. path[1] \in Statements /\ path[at] \in Statements
      BY <1>0, <2>1
    <2>3. CASE line_column(err) = Unknown
      <3>1. err' = [kind |-> err.kind, origin |-> path[1]]
        BY <1>4, <2>1, <2>3 DEF Resolve, Errors
      <3>2. err' \in Errors /\ line_column(err') = Pos[path[1]]
        BY <2>1, <2>2, <3>1 DEF Errors, line_column
      <3>3. how = "statement" => Pos[path[at]] = Unknown
        <4> SUFFICES ASSUME how = "statement" PROVE Pos[path[at]] = Unknown
          OBVIOUS
        <4>1. err.origin = path[at] /\ path[at] # None
          BY <2>1, <2>2
        <4>2. QED
          BY <2>3, <4>1 DEF line_column
      <3>4. QED
        BY <1>4, <2>1, <3>2, <3>3 DEF Resolve
    <2>4. CASE line_column(err) # Unknown
      BY <1>4, <2>1, <2>4 DEF Resolve
    <2>5. QED
      BY <2>3, <2>4
  <1>5. CASE UNCHANGED vars
    BY <1>5 DEF vars
  <1>6. QED
    BY <1>1, <1>2, <1>3, <1>4, <1>5 DEF Next

(* The initial states satisfy the invariant.                               *)
LEMMA IInvInit == Init => IInv
  <1> SUFFICES ASSUME Init PROVE IInv
    OBVIOUS
  <1>1. path \in Seq(Statements) /\ Len(path) \in 1..MaxDepth
    <2>1. PICK n \in 1..MaxDepth : path \in [1..n -> Statements]
      BY DEF Init, Paths
    <2>2. QED
      BY <2>1, ContextAssumption
  <1>2. QED
    BY <1>1, ContextAssumption DEF Init, IInv, TypeOK, Raised, Kept

(* An error built with the statement it occurred on is reported at that   *)
(* statement's location.                                                   *)
THEOREM OriginKeptHolds == Spec => []OriginKept
  <1>1. IInv => OriginKept
    <2> SUFFICES ASSUME IInv, phase = "reported", how = "statement",
                        Pos[path[at]] # Unknown
                 PROVE  line_column(err) = Pos[path[at]]
      BY DEF OriginKept
    <2>1. err.origin = path[at] /\ at \in 1..Len(path) /\ path \in Seq(Statements)
      BY PathsAreSeqs DEF IInv, Kept, Raised, TypeOK
    <2>2. path[at] # None
      BY <2>1, ContextAssumption
    <2>3. QED
      BY <2>1, <2>2 DEF line_column
  <1>2. QED
    BY <1>1, IInvInit, IInvStep, PTL DEF Spec

(* Every reachable state is well typed: the path is one of at most        *)
(* MaxDepth statements, the evaluator stays within it, and the error is   *)
(* one the constructors build.                                             *)
THEOREM ErrorContextTypeCorrect == Spec => []TypeOK
  <1>1. IInv => TypeOK
    BY DEF IInv
  <1>2. QED
    BY <1>1, IInvInit, IInvStep, PTL DEF Spec

=============================================================================
