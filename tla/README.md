# Formal models of the built-in invocation contract and the SSH client

TLA+ models of the scripting runtime's built-in function layer, and of the russh
client wrapper. The models cover four source files:

| Source | What it is |
|---|---|
| `src/rust/src/nasl/utils/error.rs` | `FnError`: the error taxonomy of built-ins (Argument / Builtin / Internal kind, optional fallback `return_value`, `retryable` flag) and its conversions |
| `src/rust/nasl-interpreter/src/built_in_functions/cryptography/mod.rs` | the argument binder of the crypto built-ins (`get_named_data`, `get_named_number`, `get_key/get_data/get_iv`, `get_len`), in the older `nasl-interpreter` crate |
| `src/rust/src/nasl/interpreter/error.rs` | `InterpretError`: the interpreter's reporting error, its constructors, `From` impls and `line_column` |
| `src/rust/src/nasl/builtin/ssh/russh/session.rs` | `SshSession`: connect/authenticate, `call` (exec and read the channel), `close` |

## How the parts interact

The evaluator resolves a name through the function registry and invokes the built-in
with a fresh `Register`. A crypto built-in of the `nasl-interpreter` crate binds its
arguments with the binder, runs its algorithm and returns a value or that crate's
`FunctionError`. How that crate reports the error is not under `src/`. In the main
crate, a failed built-in call is a `FunctionError` of `interpreter/error.rs`, which
reaches the user through `From<FunctionError> for InterpretError`. A newer-style
built-in returns an `FnError` instead. The call site classifies it: retry it if
retryable, continue with its fallback if one is attached, and otherwise propagate it as
script-fatal. The call site is in the interpreter, which is not under `src/`. An
interpreter error propagates out of nested statements to the root statement. There,
`Interpreter::resolve` gives an error at 0,0 the root statement's location. The SSH
session is a built-in backend that talks to a remote command over one channel.

## Modules

- **FnError.tla** (no variables). Every constructor of `error.rs` is an operator:
  `from_kind`, `FromFnErrorKind`, `FromArgumentError`, `FromBuiltinError`,
  `FromInternalError`, `FromStorageError`, `With`, `MissingArgument`,
  `WrongUnnamedArgument`, plus `InternalRetryable`. `Raisable` is the set of errors these
  conversions can produce. Message texts are abstracted to the variant.
- **CallSite.tla**. The call-site state machine of spec 4.4/5 runs over the errors in
  `Raisable`. It is marked *spec_modelled*, because that code is not in `src/`.
  - State: `stmt`, `pc`, `attempts`, the built-in's outcome, the error it returned, the
    fallback attached per statement, the results, `cancelled`, `status`, `fatal`.
  - Actions: `Invoke`, `Succeed`, `Retry`, `GiveUp`, `Fallback`, `Propagate`, and
    `Cancel` (the environment).
  - No liveness is checked here. Whether a script ends depends on the retry loop,
    which is not under `src/`, and on every built-in returning, which the SSH session
    shows is not guaranteed.
- **InterpretError.tla**. `FunctionError`, `InterpretError::new`, `from_statement`,
  `unsupported`, `Detached` (the constructors and `From` impls without a statement),
  `From<io::ErrorKind>` and `From<FunctionError>` as operators.
- **ErrorContext.tla**. One error on its way from a nested statement to the user.
  - State: `path` (root to innermost statement), `depth`, `phase`, `err`, `at` (the
    depth where it was raised), and `how` (built with its statement or detached).
  - Actions: `Descend`, `Raise`, `Propagate` (`?`, unchanged), and `Resolve` (at the
    root, 0,0 becomes the root statement).
  - `Raise` uses every constructor. It also converts a failed built-in call with
    `From<FunctionError>`: a `FunctionError` of the function `Called` whose `NaslError`
    tag is one of `CallKinds`.
  - The interpreter is not in `src/`, so `Descend`, `Raise`, `Propagate` and `Resolve`
    are spec-modelled. `Resolve` follows the doc comment of `InterpretError::new`
    (lines 99-100). The comment at lines 135-136 describes a different resolve, one that
    adds an origin only when there is none. No property here depends on the choice
    between the two.
  - `line_column`, `line` and `column` are translated from the code. A statement's
    location is a constant `Pos`; a Break or EoF statement has 0,0.
- **Binder.tla**. One call of a crypto built-in.
  - `reg` is any Register over small texts, byte strings, numbers and wrong-kind
    entries. `Bind` binds `key`, `data`, `iv` and `len` in that order, each with the
    code's getter and its early return. The getters are translated from `mod.rs`. The
    order and the early returns are in the aes_* modules, which are not in `src/`, so
    `Bind` is spec-modelled (spec 8).
  - `Run` is the algorithm: it succeeds or fails with an I/O error or a GeneralError.
  - `Fail` records the `FunctionError` the call returns. The crate's own conversion to
    an interpreter error is not in `src/`. The main crate's `From<FunctionError>`
    takes a different `FunctionError` type, so it is not applied here.
  - Texts are bound as their UTF-8 encoding (`AsBytes`, for code points below 2048).
    `len` is narrowed to a `usize` of `UsizeBits` bits.
  - `AsBytes` is written without recursion, so that it can be reasoned about.
    `Width` is the number of bytes of a code point. `Offset(t, i)` is where the
    bytes of code point `i` start. Byte `k` is a byte of the code point whose span
    holds `k`. MCBinder checks it (`ASSUME AsBytesMatchesRef`) against the recursive
    reference `AsBytesRef`, which appends the encodings one after another. The check
    covers every text of up to three code points from both ends of the one-byte and
    two-byte ranges.
  - The getters are IF chains in the order of the `match` arms, so an absent argument
    is never tested for its kind. `AbsentAssumption` says `None` is no byte string.
- **SshSession.tla**. The client and the remote command are two actors. Messages go
  over one in-order channel.
  - Client actions: `New`, `CallStart`, `Receive` (one `channel.wait()` message),
    `ChannelEnd` (`wait()` returns `None`, then `code.expect`), `Close`.
  - Remote actions: `SendData` (also after the exit status), `Exit` (with a status or a
    signal), `CloseChannel`.
  - `InactivityTimeout` is the 5 s `inactivity_timeout`. It drops the connection, so
    later calls fail.
  - `Abstract` instantiates **SshCall.tla**, the contract of a call without the channel.
    A call starts or fails at once. The command exits (with or without a status), or
    the connection drops. The call returns the status, returns an error, or panics, and
    it panics only when no status was sent. The refinement mapping hides `chan`,
    `written`, `sentData` and `code`, and maps a channel closed by the server to an
    exited command.
- **MC\*.tla**: model values and small sets for TLC.
- **CallSiteProofs.tla**, **SshSessionProofs.tla**, **ErrorContextProofs.tla**,
  **BinderProofs.tla**: the TLAPS proofs.

## Runs

| Run | Checks | Result |
|---|---|---|
| `callsite` (MCCallSite.cfg) | TypeOK, RetryOnlyTransient, FallbackHonoured | pass |
| `callsite_retry_flag` (MCCallSiteRetryFlag.cfg) | RetryableIffTransient | **violated**: the code bug below |
| `binder` (MCBinder.cfg) | TypeOK, NoUnwrapPanic, BindsFaithfully, FirstBadArgumentReported | pass |
| `ssh` (MCSshSession.cfg) | TypeOK, CallResultFaithful, CallReturns, ImplementsSshCall | pass |
| `ssh_panic` (MCSshSessionPanic.cfg) | NeverPanics | **violated**: `call` panics |
| `errorcontext` (MCErrorContext.cfg) | TypeOK, OriginKept | pass |
| `errorcontext_callname` (MCErrorContextCallName.cfg) | FunctionNameRetained | **violated**: divergence from spec 4.5 |

What the passing runs show:
- **callsite**: a statement is retried only for an error that wraps
  `StorageError::Retry`, whichever of the code's conversions built it. A fallback
  attached with `with` is what the statement continues with. `TypeOK` includes the
  attempt bound.
- **binder**: binding never reaches a panicking `unwrap()`. What is bound is exactly the
  Register's value: texts as UTF-8 bytes, and `len` unchanged or rejected with a range
  error that reports `usize::MIN`, `usize::MAX` and the value. The error reported is the
  error for the first bad argument in binding order. It is `MissingArguments` exactly
  when that argument is absent.
- **ssh**: a call that returns `Ok` returns the status the command sent. It has written
  all the command's output, including data sent after the exit status. A waiting call
  always ends: it returns or panics (see finding 3). The session implements SshCall.
- **errorcontext**: every constructor, and `From<FunctionError>`, builds a well-formed
  error. An error built with its own statement (`from_statement`, `unsupported`) keeps
  that statement's location through every enclosing statement.

### Findings

1. **Retry flag lost** (`utils/error.rs:125`). `From<StorageError>` goes through
   `From<FnErrorKind>` and `from_kind`, which set `retryable = false`. So `?` on a
   `StorageError::Retry` gives an error the call site never retries. Only
   `From<InternalError>` derives the flag.
2. **Function name dropped** (`interpreter/error.rs:234`). A main-crate
   `FunctionError` whose `NaslError` is `GeneralError` (carrying a `StorageError`)
   becomes `InterpretErrorKind::StorageError`, and the function name is lost. Spec 4.5
   says every function-call error other than an I/O failure keeps the name. Trace:
   `Raise` of such a call at the root, then `Resolve`.
3. **Panic in `call`** (`session.rs:112`). A channel that closes without `ExitStatus`
   panics on `code.expect`. This happens when the command is killed by a signal, or when
   the inactivity timeout drops a silent session.

## Bounds

- **callsite**: 2 statements, 2 retries, 2 values, 1 builtin error, and two storage
  causes (`Retry` and one other). This covers retry exhaustion, a cancel before and
  after a retry, a fallback on every kind of error, and moving to a second statement
  after a fallback.
- **binder**: code points 65 and 1000 (one and two UTF-8 bytes), texts of length ≤ 1,
  and numbers −1, 0, 255 and 256 with an 8-bit `usize`. This covers both range edges and
  every combination of absent, wrong-kind, text, bytes and number for each argument
  (81,140 states). The narrowing is parametric in `UsizeBits`. 8 bits puts 256 just
  past the edge, as 2^32 is for a 32-bit build. On a 64-bit build no `i64` exceeds
  `usize::MAX`, so only negative values fail there; −1 covers that case.
- **ssh**: 2 calls, 2 data messages per command, two exit statuses. This covers data
  after the exit, an exit signal, a timeout before and after the exit, and a second call
  after a timeout.
- **errorcontext**: paths of 1 to 3 statements over `if` (1,1), a call (2,5) and a
  `break` (0,0). Every statement may be root or inner, including a 0,0 root and a 0,0
  origin, and every constructor is tried at every depth. A call fails with an
  `IOError`, a `GeneralError` or a `WrongArgument`, one for each arm of
  `From<FunctionError>`.

## Fairness

- **CallSite**: none. No liveness is claimed, because the SSH runs show that a
  built-in need not return.
- **SshSession**: weak fairness on `Receive`, `ChannelEnd` and `InactivityTimeout`.
  The client task is scheduled while it can run, and the timer fires once the session
  stays idle. The remote command gets no fairness, because it may hang. That is why
  `CallReturns` depends on the timeout.
- **Binder** and **ErrorContext**: no liveness is checked.

## What is proved (TLAPS)

These hold for every value of the constants, under each module's `ASSUME`.

### CallSiteProofs.tla

- **TypeCorrect**: `Spec => []TypeOK`.
  - `TypeOK` is not inductive on its own: completing the last statement moves `stmt`
    past the range, and `err` is typed only while an error is held. The inductive
    invariant adds `RunningStmt` (`stmt` is in range while the script runs) and
    `ErrHeld`.
  - Lemmas: `RaisableType` (every conversion builds a well-formed FnError), `WithType`,
    `InitType` and `TypeStep`.
- **RetryOnlyTransientHolds**: `Spec => []RetryOnlyTransient`.
  - The strengthening `ErrInv` states that the held error's flag is justified in every
    state, not only while it is being classified.
  - It rests on `RaisableRetryable`: only `From<InternalError>` sets the flag, and only
    for the retry cause. It also rests on `WithKeepsRetry`: `with` changes neither the
    kind nor the flag.
- **FallbackHonouredHolds**: `Spec => []FallbackHonoured`.
  - `FallbackHonoured` is not inductive. A statement under classification has not yet
    completed, so its result says nothing about the fallback in `err`.
  - The invariant `FInv` adds `Link` and `OkClear`. `Link` says the held error's
    `return_value` is the fallback recorded for the current statement. `OkClear` says
    a successful return recorded none.
  - Lemma `RaisableNoFallback`: no conversion attaches a fallback by itself; only
    `with` does.

### SshSessionProofs.tla

- **SessionTypeCorrect**: `Spec => []TypeOK`.
- **Refinement**: `Spec => ImplementsSshCall`, i.e. the session refines SshCall.
  - The argument: `Init` maps to `Abstract!Init`, and each step (lemma `AbstractStep`)
    maps to an SshCall step or a stutter. `Receive` and `SendData` stutter.
    `ChannelEnd` is `ReturnOk` or `Panic`, and `InactivityTimeout` is `Drop`.
  - This needs the inductive invariant `Inv`:
    - `ClientRemote`: the command is busy exactly while the client waits.
    - `ExitTracked`: while a call waits, `code` is `NoCode` or the sent status, and
      every `ExitStatus` in the channel is the sent status. A sent status is in `code`
      or still in the channel. While the command runs, nothing has been sent.
  - Without `ExitTracked`, `ChannelEnd` could return a status other than `sentExit`.
    It is the invariant that ties the local `code` to the abstract state.

- **CallResultFaithfulHolds**: `Spec => []CallResultFaithful`.
  - The invariant adds `DataTracked`. While a call waits, `written` is a prefix of
    `sentData`, and `DataMapOf` gives an increasing map from each chunk still owed to
    the Data message in `chan` that carries it.
  - The map is onto the Data messages, so an empty channel owes nothing
    (`EmptyChanOwesNothing`). That is why `ChannelEnd` finds everything written.
    `OkComplete` says a call that returned Ok returned `sentExit` with all output
    written. `StartClean` says no call returned before `New`.
  - Lemmas: `DropData` and `DropOther` (`Receive` pops the head of the channel, and
    the map shifts by one), and `AppendData` and `AppendOther` (`SendData`, `Exit`
    and `CloseChannel` append to the channel).

### ErrorContextProofs.tla

- **OriginKeptHolds**: `Spec => []OriginKept`.
  - The invariant `IInv` adds `Raised` (a raised error is a well-formed error at a depth
    of the path) and `Kept`. `Kept` says an error built with its statement still has it
    as origin, unless that statement has no location and resolve has replaced it.
- **ErrorContextTypeCorrect**: `Spec => []TypeOK`, from the same `IInv`, for every set
  of NaslError kinds. Lemma `CallErrorType` shows that each arm of
  `From<FunctionError>` builds an error of `Errors` with no origin.

### BinderProofs.tla

- **NoUnwrapPanicHolds**, **BindsFaithfullyHolds**, **FirstBadArgumentReportedHolds**:
  `Spec => []P` for each of the three.
  - The invariant `BInv` says that every argument bound so far is what its getter
    returned for the Register. A call that failed while binding failed with the error
    of the getter at `next`. A call that failed after binding failed with one of the
    algorithm's errors.
  - Lemmas `DataGetter` and `LenGetter` state what each getter returns, by the arm of
    its `match`. `BindingErrorNames` states which argument a binding error names.
  - None of these three depends on what `AsBytes` computes. A String is bound as
    `AsBytes` of its text, and `AsBytes` of a text is in `Bytes` by definition.
- **BinderTypeCorrect**: `Spec => []TypeOK`, for every set of code points below 2048,
  every text length and every usize width.
  - `TypeOK` is not inductive. It allows `status = "binding"` with `next = 5`, where
    `Bind` would read past `ArgOrder`. It also does not tie the bound values or the
    failure to the getters that produced them. The inductive invariant is
    `TInv == BInv /\ Unbound`. `BInv` ties bound values and failures to the getters.
    `Unbound` says that the arguments from `next` on are still `None`. TLC checked
    `TInv` on the `binder` run (81,140 states) before it was proved.
  - `AsBytesType` proves that `AsBytes(t)` is a byte sequence. The argument goes
    through three lemmas:
    - `Utf8Bytes`: each code point encodes as one or two bytes in 0..255.
    - `OffsetStep`: `Offset` starts at 0 and grows by each code point's width. This
      uses the cardinality facts of FiniteSetTheorems.
    - `SpanOf`: every byte position lies in some code point's span. The code point is
      the one before the least `i` whose offset reaches `k`, found with `WFMin` on
      the naturals.
  - `DataGetterType`, `LenGetterType` and `GetterErrorFunction` type what each getter
    returns.
## Checked only by TLC

- **Liveness**: `CallReturns`. TLAPS does not handle fairness or
  ENABLED.
- **`AsBytes` is UTF-8 concatenation**: TLC checks that the non-recursive `AsBytes`
  equals the recursive fold `AsBytesRef` on small texts. Proving this for every text
  is induction over data. The installed provers cannot instantiate the library's
  induction theorems.

## Not modelled

| Part | Status and reason |
|---|---|
| The function registry's `lookup` (mod.rs 21-30) | A stateless `or_else` chain over module tables that are not in `src/`. A model copied from the chain could only restate it. |
| How the `nasl-interpreter` crate reports a `FunctionError` | Not in `src/`. |
| The statement evaluator that raises errors and calls resolve | Not in `src/`; `Descend`, `Raise` and `Propagate` model it from the spec. |
| `check_server_key` | It always accepts and has no state. |
| Crypto algorithms, lexer/parser, statement evaluator, storage engine | Outside the code under `src/`. |

## Further work

1. Liveness (`CallReturns`) stays with TLC.
