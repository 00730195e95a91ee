----------------------------- MODULE MCCallSite -----------------------------
(* Model values for CallSite: two return values, one builtin error, a     *)
(* transient and a permanent storage cause.                               *)
EXTENDS CallSite

CONSTANTS v1, v2, NoVal, bErr, sRetry, sDirty

MCValues == {v1, v2}
MCBuiltinErrors == {bErr}
MCStorageCauses == {sRetry, sDirty}
=============================================================================
