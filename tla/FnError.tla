------------------------------ MODULE FnError ------------------------------
(***************************************************************************)
(* The error taxonomy of built-in functions (src/rust/src/nasl/utils/     *)
(* error.rs): an FnError is a kind (Argument, Builtin or Internal), an    *)
(* optional fallback return value and a retry flag.  Every constructor    *)
(* the code offers is an operator here; the texts of the messages are     *)
(* abstracted to the variant that carries them.                           *)
(***************************************************************************)
EXTENDS Naturals

CONSTANTS
  Values,        \* NaslValue values a built-in can return or attach
  NoValue,       \* None of Option<NaslValue>
  BuiltinErrors, \* BuiltinError variants of the built-in modules
  StorageCauses, \* StorageError variants
  RetryCause     \* StorageError::Retry, the one transient storage cause

ASSUME ConstAssumption ==
  /\ NoValue \notin Values
  /\ RetryCause \in StorageCauses

(* ArgumentError variants, lines 79-90. *)
ArgumentErrors ==
  {"MissingPositionals", "TrailingPositionals", "MissingNamed",
   "UnexpectedArgument", "WrongArgument"}

(* FnErrorKind, lines 69-76: the tag and the wrapped error.               *)
FnErrorKind ==
  [tag : {"Argument"}, cause : ArgumentErrors] \cup
  [tag : {"Builtin"}, cause : BuiltinErrors] \cup
  [tag : {"Internal"}, cause : StorageCauses]

ArgumentKind(a) == [tag |-> "Argument", cause |-> a]
BuiltinKind(b) == [tag |-> "Builtin", cause |-> b]
InternalKind(c) == [tag |-> "Internal", cause |-> c]

(* struct FnError, lines 12-19. *)
FnErrors ==
  [kind : FnErrorKind, return_value : Values \cup {NoValue},
   retryable : BOOLEAN]

(* Mutant of InternalRetryable: a catch-all arm that treats every storage *)
(* failure as transient.                                                  *)
InternalRetryableAll(c) == c \in StorageCauses

(* InternalError::retryable: only a StorageError::Retry is transient.     *)
InternalRetryable(c) == c = RetryCause

(* FnError::from_kind: no fallback value, never retryable.                *)
from_kind(k) == [kind |-> k, return_value |-> NoValue, retryable |-> FALSE]

(* impl From<FnErrorKind> for FnError: delegates to from_kind, whatever   *)
(* the kind, so an Internal kind converted this way is not retryable.     *)
FromFnErrorKind(k) == from_kind(k)

FromArgumentError(a) == from_kind(ArgumentKind(a))

FromBuiltinError(b) == from_kind(BuiltinKind(b))

(* impl From<InternalError> for FnError: the one conversion that derives  *)
(* the retry flag from the storage cause.                                 *)
FromInternalError(c) ==
  [kind |-> InternalKind(c), retryable |-> InternalRetryable(c),
   return_value |-> NoValue]

(* impl From<StorageError> for FnError: wraps the cause in                *)
(* FnErrorKind::Internal and converts that kind with .into(), i.e. through*)
(* From<FnErrorKind> and from_kind.                                       *)
FromStorageError(c) == FromFnErrorKind(InternalKind(c))

(* Mutant of With: the fallback is built but never stored in the error.   *)
WithDropped(e, v) == e

(* WithErrorInfo<ReturnValue<T>>::with: attaches the fallback value.      *)
With(e, v) == [e EXCEPT !.return_value = v]

(* FnError::missing_argument and FnError::wrong_unnamed_argument.         *)
MissingArgument == FromFnErrorKind(ArgumentKind("MissingNamed"))

WrongUnnamedArgument == FromFnErrorKind(ArgumentKind("WrongArgument"))

(* Every FnError a built-in can raise: each conversion the `?` operator   *)
(* and the helpers offer, applied to each input it accepts.               *)
Raisable ==
  {FromFnErrorKind(k) : k \in FnErrorKind} \cup
  {FromArgumentError(a) : a \in ArgumentErrors} \cup
  {FromBuiltinError(b) : b \in BuiltinErrors} \cup
  {FromInternalError(c) : c \in StorageCauses} \cup
  {FromStorageError(c) : c \in StorageCauses} \cup
  {MissingArgument, WrongUnnamedArgument}

(* The error wraps the transient storage condition, however it was built.*)
IsTransient(e) == e.kind = InternalKind(RetryCause)
=============================================================================
