------------------------------ MODULE CallSite ------------------------------
(***************************************************************************)
(* The call site of built-in functions: a script runs NumStmts statements *)
(* one at a time, each invoking a built-in that returns a value or an     *)
(* FnError, and classifies an error as the policy of the error taxonomy   *)
(* prescribes: retry a retryable error up to MaxAttempts times unless the *)
(* script was cancelled, continue with an attached fallback value, or     *)
(* propagate it as script-fatal.  The errors are those FnError.tla builds *)
(* from the code's conversions; the policy itself lives in the            *)
(* interpreter, outside src/, and is modelled from the specification.     *)
(***************************************************************************)
EXTENDS FnError

CONSTANTS
  NumStmts,     \* statements of the script, each one built-in call
  MaxAttempts   \* retries the call site allows per statement

ASSUME BoundsAssumption ==
  /\ NumStmts \in Nat \ {0}
  /\ MaxAttempts \in Nat

VARIABLES
  stmt,       \* the statement being executed
  pc,         \* "invoke": the built-in is running; "classify": it returned
  attempts,   \* retries made for this statement
  outcome,    \* "ok" or "err": what the built-in returned
  value,      \* the value it returned on success
  err,        \* the FnError it returned on failure
  attached,   \* per statement: the fallback the built-in attached last
  results,    \* per statement: the value the script continued with
  cancelled,  \* the script was cancelled (timeout or external cancel)
  status,     \* "running", "finished" or "aborted"
  fatal       \* the error that aborted the script

vars == <<stmt, pc, attempts, outcome, value, err, attached, results,
          cancelled, status, fatal>>

Stmts == 1..NumStmts
OptValues == Values \cup {NoValue}

Init ==
  /\ stmt = 1
  /\ pc = "invoke"
  /\ attempts = 0
  /\ outcome = "ok"
  /\ value = NoValue
  /\ err = NoValue
  /\ attached = [s \in Stmts |-> NoValue]
  /\ results = [s \in Stmts |-> NoValue]
  /\ cancelled = FALSE
  /\ status = "running"
  /\ fatal = NoValue

(* The built-in returns: a value, or an FnError built by any of the       *)
(* code's conversions, with or without a fallback attached by `with`.     *)
Invoke ==
  /\ status = "running" /\ pc = "invoke"
  /\ \/ \E v \in Values :
          /\ outcome' = "ok" /\ value' = v /\ err' = NoValue
          /\ attached' = [attached EXCEPT ![stmt] = NoValue]
     \/ \E e \in Raisable, fb \in OptValues :
          /\ outcome' = "err" /\ value' = NoValue
          /\ err' = IF fb = NoValue THEN e ELSE With(e, fb)
          /\ attached' = [attached EXCEPT ![stmt] = fb]
  /\ pc' = "classify"
  /\ UNCHANGED <<stmt, attempts, results, cancelled, status, fatal>>

(* The statement completes with v and the script moves on.                *)
Continue(v) ==
  /\ results' = [results EXCEPT ![stmt] = v]
  /\ stmt' = stmt + 1
  /\ attempts' = 0
  /\ pc' = "invoke"
  /\ status' = IF stmt = NumStmts THEN "finished" ELSE "running"
  /\ UNCHANGED <<outcome, value, err, attached, cancelled, fatal>>

Abort ==
  /\ status' = "aborted"
  /\ fatal' = err
  /\ UNCHANGED <<stmt, pc, attempts, outcome, value, err, attached,
                 results, cancelled>>

Classifying == status = "running" /\ pc = "classify"

(* SUCCESS -> Value, continue. *)
Succeed ==
  /\ Classifying /\ outcome = "ok"
  /\ Continue(value)

(* Mutant of Retry: no attempt bound.                                      *)
RetryUnbounded ==
  /\ Classifying /\ outcome = "err" /\ err.retryable
  /\ ~cancelled
  /\ attempts' = attempts + 1
  /\ pc' = "invoke"
  /\ UNCHANGED <<stmt, outcome, value, err, attached, results, cancelled,
                 status, fatal>>

(* ERROR, retryable: retry while attempts remain and no cancel is seen.   *)
Retry ==
  /\ Classifying /\ outcome = "err" /\ err.retryable
  /\ attempts < MaxAttempts
  /\ ~cancelled
  /\ attempts' = attempts + 1
  /\ pc' = "invoke"
  /\ UNCHANGED <<stmt, outcome, value, err, attached, results, cancelled,
                 status, fatal>>

(* ERROR, retryable, attempts exhausted or cancel observed: fatal.        *)
GiveUp ==
  /\ Classifying /\ outcome = "err" /\ err.retryable
  /\ attempts = MaxAttempts \/ cancelled
  /\ Abort

(* ERROR, not retryable, fallback present: continue with it.              *)
Fallback ==
  /\ Classifying /\ outcome = "err" /\ ~err.retryable
  /\ err.return_value # NoValue
  /\ Continue(err.return_value)

(* ERROR, not retryable, no fallback: propagate as script-fatal.          *)
Propagate ==
  /\ Classifying /\ outcome = "err" /\ ~err.retryable
  /\ err.return_value = NoValue
  /\ Abort

(* The environment cancels the running script.                            *)
Cancel ==
  /\ status = "running" /\ ~cancelled
  /\ cancelled' = TRUE
  /\ UNCHANGED <<stmt, pc, attempts, outcome, value, err, attached,
                 results, status, fatal>>

Step == Invoke \/ Succeed \/ Retry \/ GiveUp \/ Fallback \/ Propagate

Next == Step \/ Cancel

Spec == Init /\ [][Next]_vars

-----------------------------------------------------------------------------
TypeOK ==
  /\ stmt \in 1..(NumStmts + 1)
  /\ pc \in {"invoke", "classify"}
  /\ attempts \in 0..MaxAttempts
  /\ outcome \in {"ok", "err"}
  /\ value \in OptValues
  /\ err \in FnErrors \cup {NoValue}
  /\ attached \in [Stmts -> OptValues]
  /\ results \in [Stmts -> OptValues]
  /\ cancelled \in BOOLEAN
  /\ status \in {"running", "finished", "aborted"}
  /\ fatal \in FnErrors \cup {NoValue}

(* Whatever conversion a built-in used, an error the call site may retry  *)
(* wraps the transient storage condition: Argument and Builtin errors and *)
(* other storage failures are never retried.                              *)
RetryOnlyTransient ==
  (pc = "classify" /\ outcome = "err" /\ err.retryable) => IsTransient(err)

(* The converse the specification states (spec 3, 8): every error that    *)
(* wraps StorageError::Retry is retryable, whichever conversion built it. *)
RetryableIffTransient ==
  (pc = "classify" /\ outcome = "err") => (err.retryable <=> IsTransient(err))

(* A fallback the built-in attached with `with` is honoured: a statement  *)
(* whose last attempt failed with a fallback completed with exactly that  *)
(* value, and a non-retryable error carrying one never aborts the script. *)
FallbackHonoured ==
  /\ \A s \in Stmts : s < stmt /\ attached[s] # NoValue
        => results[s] = attached[s]
  /\ (status = "aborted" /\ ~fatal.retryable) => attached[stmt] = NoValue
=============================================================================
