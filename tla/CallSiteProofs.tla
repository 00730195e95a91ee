--------------------------- MODULE CallSiteProofs ---------------------------
(***************************************************************************)
(* Proofs about CallSite for every value of the constants: the type       *)
(* invariant, and that the call site only ever retries an error that      *)
(* wraps the transient storage condition.                                 *)
(***************************************************************************)
EXTENDS CallSite, TLAPS

(* Every conversion yields a well-formed FnError.                         *)
LEMMA RaisableType == Raisable \subseteq FnErrors
  <1>1. ASSUME NEW k \in FnErrorKind PROVE FromFnErrorKind(k) \in FnErrors
    BY DEF FromFnErrorKind, from_kind, FnErrors
  <1>2. ASSUME NEW c \in StorageCauses PROVE FromInternalError(c) \in FnErrors
    <2>1. InternalRetryable(c) \in BOOLEAN
      BY Zenon DEF InternalRetryable
    <2>2. QED
      BY <2>1 DEF FromInternalError, InternalKind, FnErrors, FnErrorKind
  <1>3. \A a \in ArgumentErrors : ArgumentKind(a) \in FnErrorKind
    BY DEF ArgumentKind, FnErrorKind
  <1>4. \A b \in BuiltinErrors : BuiltinKind(b) \in FnErrorKind
    BY DEF BuiltinKind, FnErrorKind
  <1>5. \A c \in StorageCauses : InternalKind(c) \in FnErrorKind
    BY DEF InternalKind, FnErrorKind
  <1>6. {"MissingNamed", "WrongArgument"} \subseteq ArgumentErrors
    BY DEF ArgumentErrors
  <1>7. QED
    BY <1>1, <1>2, <1>3, <1>4, <1>5, <1>6
       DEF Raisable, FromArgumentError, FromBuiltinError, FromStorageError,
           MissingArgument, WrongUnnamedArgument, FromFnErrorKind

(* Attaching a fallback keeps an FnError well formed.                     *)
LEMMA WithType ==
  ASSUME NEW e \in FnErrors, NEW v \in Values \cup {NoValue}
  PROVE  With(e, v) \in FnErrors
  BY DEF With, FnErrors

(* No conversion marks an error retryable unless it wraps                 *)
(* StorageError::Retry: only From<InternalError> sets the flag, and it    *)
(* derives it from the cause.                                             *)
LEMMA RaisableRetryable ==
  \A e \in Raisable : e.retryable => IsTransient(e)
  <1> SUFFICES ASSUME NEW e \in Raisable, e.retryable PROVE IsTransient(e)
    OBVIOUS
  <1>1. ASSUME NEW k PROVE ~FromFnErrorKind(k).retryable
    BY DEF FromFnErrorKind, from_kind
  <1>2. ASSUME NEW c, FromInternalError(c).retryable
        PROVE  IsTransient(FromInternalError(c))
    BY <1>2 DEF FromInternalError, InternalRetryable, IsTransient, InternalKind
  <1>3. QED
    BY <1>1, <1>2 DEF Raisable, FromArgumentError, FromBuiltinError,
                      FromFnErrorKind, FromStorageError, MissingArgument,
                      WrongUnnamedArgument

(* `with` changes neither the kind nor the retry flag.                    *)
LEMMA WithKeepsRetry ==
  ASSUME NEW e \in FnErrors, NEW v
  PROVE  /\ With(e, v).retryable = e.retryable
         /\ With(e, v).kind = e.kind
  BY DEF With, FnErrors

(* TypeOK alone is not inductive: a statement completes by moving to the  *)
(* next one, which stays in range only while the script runs.            *)
RunningStmt == status = "running" => stmt \in Stmts

(* The held error is an FnError whenever the built-in returned one.       *)
ErrHeld == outcome = "err" => err \in FnErrors

TypeInv == TypeOK /\ RunningStmt /\ ErrHeld

(* Every step, or stutter, preserves the type invariant.                  *)
LEMMA TypeStep == TypeInv /\ [Next]_vars => TypeInv'
  <1> USE ConstAssumption, BoundsAssumption DEF Stmts, OptValues, TypeInv,
          RunningStmt, ErrHeld
  <1> SUFFICES ASSUME TypeInv, [Next]_vars PROVE TypeInv'
    OBVIOUS
  <1>0. cancelled' \in BOOLEAN
    BY Zenon DEF TypeOK, Next, Step, Invoke, Succeed, Continue, Retry, GiveUp,
                 Abort, Fallback, Propagate, Cancel, vars
  <1>1. CASE Invoke
    <2>1. CASE \E v \in Values :
                 /\ outcome' = "ok" /\ value' = v /\ err' = NoValue
                 /\ attached' = [attached EXCEPT ![stmt] = NoValue]
      BY <1>0, <1>1, <2>1 DEF Invoke, TypeOK
    <2>2. CASE \E e \in Raisable, fb \in OptValues :
                 /\ outcome' = "err" /\ value' = NoValue
                 /\ err' = IF fb = NoValue THEN e ELSE With(e, fb)
                 /\ attached' = [attached EXCEPT ![stmt] = fb]
      <3>1. PICK e \in Raisable, fb \in OptValues :
                 /\ outcome' = "err" /\ value' = NoValue
                 /\ err' = IF fb = NoValue THEN e ELSE With(e, fb)
                 /\ attached' = [attached EXCEPT ![stmt] = fb]
        BY <2>2
      <3>2. err' \in FnErrors
        BY <3>1, RaisableType, WithType
      <3>3. QED
        BY <1>0, <1>1, <3>1, <3>2 DEF Invoke, TypeOK
    <2>3. QED
      BY <1>0, <1>1, <2>1, <2>2 DEF Invoke
  <1>2. CASE Succeed
    BY <1>0, <1>2 DEF Succeed, Continue, Classifying, TypeOK
  <1>3. CASE Retry
    BY <1>0, <1>3 DEF Retry, Classifying, TypeOK
  <1>4. CASE GiveUp
    BY <1>0, <1>4 DEF GiveUp, Abort, Classifying, TypeOK
  <1>5. CASE Fallback
    BY <1>0, <1>5 DEF Fallback, Continue, Classifying, TypeOK, FnErrors
  <1>6. CASE Propagate
    BY <1>0, <1>6 DEF Propagate, Abort, Classifying, TypeOK
  <1>7. CASE Cancel
    BY <1>0, <1>7 DEF Cancel, TypeOK
  <1>8. CASE UNCHANGED vars
    BY <1>0, <1>8 DEF vars, TypeOK
  <1>9. QED
    BY <1>0, <1>1, <1>2, <1>3, <1>4, <1>5, <1>6, <1>7, <1>8 DEF Next, Step

(* The initial state is well typed.                                        *)
LEMMA InitType == Init => TypeInv
  <1> SUFFICES ASSUME Init PROVE TypeInv
    OBVIOUS
  <1>1. cancelled \in BOOLEAN
    BY DEF Init
  <1>2. QED
    BY <1>1, BoundsAssumption DEF Init, TypeInv, TypeOK, RunningStmt, ErrHeld,
                                  Stmts,
                                  OptValues

(* The type invariant holds in every reachable state.                     *)
THEOREM TypeCorrect == Spec => []TypeOK
  <1>1. TypeInv => TypeOK
    BY DEF TypeInv
  <1>2. QED
    BY <1>1, InitType, TypeStep, PTL DEF Spec

-----------------------------------------------------------------------------
(* The strengthening: the retry flag of the held error is justified in    *)
(* every state, not only while it is being classified.                    *)
ErrInv == outcome = "err" => (err.retryable => IsTransient(err))

IInv == TypeInv /\ ErrInv

(* The call site retries only errors that wrap StorageError::Retry.       *)
THEOREM RetryOnlyTransientHolds == Spec => []RetryOnlyTransient
  <1> USE ConstAssumption, BoundsAssumption DEF Stmts, OptValues
  <1>1. Init => IInv
    <2>1. Init => outcome = "ok"
      BY DEF Init
    <2>2. QED
      BY <2>1, InitType DEF IInv, ErrInv
  <1>2. IInv /\ [Next]_vars => IInv'
    <2> SUFFICES ASSUME IInv, [Next]_vars PROVE IInv'
      OBVIOUS
    <2>1. TypeInv'
      BY TypeStep DEF IInv
    <2>2. ErrInv'
      <3>1. CASE Invoke
        <4>1. CASE \E e \in Raisable, fb \in OptValues :
                     /\ outcome' = "err" /\ value' = NoValue
                     /\ err' = IF fb = NoValue THEN e ELSE With(e, fb)
                     /\ attached' = [attached EXCEPT ![stmt] = fb]
          <5>1. PICK e \in Raisable, fb \in OptValues :
                     /\ outcome' = "err"
                     /\ err' = IF fb = NoValue THEN e ELSE With(e, fb)
            BY <4>1
          <5>2. e \in FnErrors /\ (e.retryable => IsTransient(e))
            BY <5>1, RaisableType, RaisableRetryable
          <5>3. err'.retryable = e.retryable /\ err'.kind = e.kind
            BY <5>1, <5>2, WithKeepsRetry
          <5>4. QED
            BY <5>2, <5>3 DEF ErrInv, IsTransient
        <4>2. QED
          BY <3>1, <4>1 DEF Invoke, ErrInv
      <3>2. CASE ~Invoke
        <4>1. UNCHANGED <<outcome, err>>
          BY <3>2 DEF Next, Step, Succeed, Continue, Retry, GiveUp, Abort,
                      Fallback, Propagate, Cancel, vars
        <4>2. QED
          BY <4>1 DEF IInv, ErrInv, IsTransient
      <3>3. QED
        BY <3>1, <3>2
    <2>3. QED
      BY <2>1, <2>2 DEF IInv
  <1>3. IInv => RetryOnlyTransient
    BY DEF IInv, ErrInv, RetryOnlyTransient
  <1>4. QED
    BY <1>1, <1>2, <1>3, PTL DEF Spec
-----------------------------------------------------------------------------
(* No conversion attaches a fallback: only `with` does.                   *)
LEMMA RaisableNoFallback == \A e \in Raisable : e.return_value = NoValue
  BY DEF Raisable, FromFnErrorKind, from_kind, FromArgumentError,
         FromBuiltinError, FromInternalError, FromStorageError,
         MissingArgument, WrongUnnamedArgument

(* While the call site classifies a returned error, its fallback is the   *)
(* one recorded as attached to the statement.                             *)
Link == (pc = "classify" /\ outcome = "err") => err.return_value = attached[stmt]

(* While it classifies a returned value, no fallback is recorded.         *)
OkClear == (pc = "classify" /\ outcome = "ok") => attached[stmt] = NoValue

FInv == TypeInv /\ Link /\ OkClear /\ FallbackHonoured

(* The built-in's outcome as Invoke records it: a fallback travels in the *)
(* error and in `attached` alike.                                          *)
LEMMA InvokeLink ==
  ASSUME TypeInv, Invoke
  PROVE  /\ pc' = "classify" /\ UNCHANGED <<stmt, results, status, fatal>>
         /\ stmt \in Stmts
         /\ \A s \in Stmts : s # stmt => attached'[s] = attached[s]
         /\ outcome' = "ok" => attached'[stmt] = NoValue
         /\ outcome' = "err" => err'.return_value = attached'[stmt]
  <1> USE DEF TypeInv, TypeOK, RunningStmt
  <1>1. stmt \in Stmts
    BY DEF Invoke
  <1>2. CASE \E v \in Values :
               /\ outcome' = "ok" /\ value' = v /\ err' = NoValue
               /\ attached' = [attached EXCEPT ![stmt] = NoValue]
    BY <1>1, <1>2 DEF Invoke
  <1>3. CASE \E e \in Raisable, fb \in OptValues :
               /\ outcome' = "err" /\ value' = NoValue
               /\ err' = IF fb = NoValue THEN e ELSE With(e, fb)
               /\ attached' = [attached EXCEPT ![stmt] = fb]
    <2>1. PICK e \in Raisable, fb \in OptValues :
               /\ outcome' = "err"
               /\ err' = IF fb = NoValue THEN e ELSE With(e, fb)
               /\ attached' = [attached EXCEPT ![stmt] = fb]
      BY <1>3
    <2>2. e \in FnErrors /\ e.return_value = NoValue
      BY RaisableType, RaisableNoFallback
    <2>3. err'.return_value = fb
      BY <2>1, <2>2 DEF With, FnErrors
    <2>4. QED
      BY <1>1, <2>1, <2>3 DEF Invoke
  <1>4. QED
    BY <1>2, <1>3 DEF Invoke

(* Every step preserves FInv.                                               *)
LEMMA FInvStep == FInv /\ [Next]_vars => FInv'
  <1> USE ConstAssumption, BoundsAssumption DEF Stmts, OptValues
  <1> SUFFICES ASSUME FInv, [Next]_vars PROVE FInv'
    OBVIOUS
  <1>0. TypeInv'
    BY TypeStep DEF FInv
  <1> USE DEF FInv, Link, OkClear, FallbackHonoured
  <1>1. CASE Invoke
    BY <1>0, <1>1, InvokeLink DEF Invoke
  <1>2. CASE Succeed
    <2>1. stmt \in Stmts /\ attached[stmt] = NoValue
      BY <1>2 DEF Succeed, Classifying, TypeInv, RunningStmt
    <2>2. status' # "aborted" /\ pc' = "invoke"
      BY <1>2 DEF Succeed, Continue
    <2>3. \A s \in Stmts : s < stmt' /\ attached'[s] # NoValue
                             => results'[s] = attached'[s]
      BY <1>2, <2>1 DEF Succeed, Continue, TypeInv, TypeOK
    <2>4. QED
      BY <1>0, <2>2, <2>3
  <1>3. CASE Fallback
    <2>1. stmt \in Stmts /\ err.return_value = attached[stmt]
      BY <1>3 DEF Fallback, Classifying, TypeInv, RunningStmt
    <2>2. status' # "aborted" /\ pc' = "invoke"
      BY <1>3 DEF Fallback, Continue
    <2>3. \A s \in Stmts : s < stmt' /\ attached'[s] # NoValue
                             => results'[s] = attached'[s]
      BY <1>3, <2>1 DEF Fallback, Continue, TypeInv, TypeOK
    <2>4. QED
      BY <1>0, <2>2, <2>3
  <1>4. CASE Retry
    BY <1>0, <1>4 DEF Retry, Classifying
  <1>5. CASE GiveUp
    BY <1>0, <1>5 DEF GiveUp, Abort, Classifying
  <1>6. CASE Propagate
    BY <1>0, <1>6 DEF Propagate, Abort, Classifying
  <1>7. CASE Cancel
    BY <1>0, <1>7 DEF Cancel
  <1>8. CASE UNCHANGED vars
    BY <1>0, <1>8 DEF vars
  <1>9. QED
    BY <1>1, <1>2, <1>3, <1>4, <1>5, <1>6, <1>7, <1>8 DEF Next, Step

(* A fallback attached with `with` is honoured: the statement completes   *)
(* with it, and a non-retryable error carrying one never aborts the       *)
(* script.                                                                 *)
THEOREM FallbackHonouredHolds == Spec => []FallbackHonoured
  <1>1. Init => FInv
    BY InitType DEF Init, FInv, Link, OkClear, FallbackHonoured, Stmts
  <1>2. FInv => FallbackHonoured
    BY DEF FInv
  <1>3. QED
    BY <1>1, <1>2, FInvStep, PTL DEF Spec

=============================================================================
