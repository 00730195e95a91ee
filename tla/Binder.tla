------------------------------- MODULE Binder -------------------------------
(***************************************************************************)
(* The argument binder of the cryptography built-ins                      *)
(* (src/rust/nasl-interpreter/src/built_in_functions/cryptography/mod.rs) *)
(* in one call.  A crypto built-in such as aes_cbc_encrypt binds key,    *)
(* data, iv and the optional len from the call's Register, one getter     *)
(* after the other, each returning early with its FunctionError; the      *)
(* built-in's own algorithm then succeeds or fails.  The FunctionError of *)
(* this crate (FunctionError::new(function, kind), lines 45-51, 107-115)  *)
(* has the shape of InterpretError.tla's; how the crate's interpreter     *)
(* reports it is not under src/ and is not modelled.                      *)
(***************************************************************************)
EXTENDS Integers, Sequences, FiniteSets, InterpretError

CONSTANTS
  Function,    \* name of the built-in being called
  CodePoints,  \* code points of the texts a Register may hold
  MaxText,     \* longest text (and byte string) a Register holds
  Numbers,     \* NaslValue::Number values a Register may hold (i64)
  UsizeBits,   \* width of usize on the build's platform
  IoKinds      \* io::ErrorKind values the algorithm may fail with

ASSUME BinderAssumption ==
  /\ CodePoints \subseteq 0..2047
  /\ MaxText \in Nat
  /\ Numbers \subseteq Int
  /\ UsizeBits \in Nat \ {0}

(* The named arguments of the crypto built-ins, in the order they are     *)
(* bound.                                                                 *)
ArgOrder == <<"key", "data", "iv", "len">>
ArgNames == {ArgOrder[i] : i \in 1..4}

(* None of Option: an argument missing from the Register.                *)
Absent == None

(* Mutant of Utf8: every code point written as one byte (Latin-1).       *)
Utf8Latin1(cp) == <<cp>>

(* UTF-8 encoding of one code point below 2048 (String::as_bytes).        *)
Utf8(cp) ==
  IF cp < 128 THEN <<cp>>
  ELSE <<192 + (cp \div 64), 128 + (cp % 64)>>

(* The number of bytes a code point takes, and the position in the       *)
(* encoding of text t after which the bytes of its i-th code point start: *)
(* one byte for each code point before it and one more for each of those *)
(* that take two.                                                          *)
Width(cp) == Len(Utf8(cp))
Offset(t, i) == (i - 1) + Cardinality({j \in 1..(i - 1) : Width(t[j]) = 2})

(* Encoding of a text: the concatenation of its code points' encodings;   *)
(* byte k is a byte of the code point whose bytes span position k.        *)
AsBytes(t) ==
  [k \in 1..Offset(t, Len(t) + 1) |->
     LET i == CHOOSE i \in 1..Len(t) : Offset(t, i) < k /\ k <= Offset(t, i + 1)
     IN  Utf8(t[i])[k - Offset(t, i)]]

Texts == UNION {[1..n -> CodePoints] : n \in 0..MaxText}
Bytes == {AsBytes(t) : t \in Texts}

(* None of Option<&[u8]> is not a byte string.                            *)
ASSUME AbsentAssumption == Absent \notin Bytes

(* ContextType entries of the Register: NaslValue::Data, NaslValue::String,*)
(* NaslValue::Number, another value, or a function.                       *)
Kinds == {"Data", "String", "Number", "Array", "Function"}
ValuesOf(k) ==
  CASE k = "Data" -> Bytes
    [] k = "String" -> Texts
    [] k = "Number" -> Numbers
    [] OTHER -> {Absent}
Entries == UNION {[kind : {k}, val : ValuesOf(k)] : k \in Kinds}

(* x is absent or an entry, its value of the set its kind names.          *)
IsEntry(x) ==
  \/ x = Absent
  \/ x.kind \in Kinds /\ x \in [kind : {x.kind}, val : ValuesOf(x.kind)]

Registers == [ArgNames -> Entries \cup {Absent}]

(* usize::MIN and usize::MAX, and i64::try_into::<usize>.                  *)
UsizeMin == 0
UsizeMax == 2^UsizeBits - 1
FitsUsize(x) == x \in UsizeMin..UsizeMax

(* Results of the getters: Ok(Some(v)), Ok(None) or Err(FunctionError).   *)
Ok(v) == [ok |-> TRUE, val |-> v]
Err(e) == [ok |-> FALSE, val |-> e]

MissingNamed(key) == FunctionError(Function, Kind("MissingArguments", <<key>>))
WrongArgument(key, expected, got) ==
  FunctionError(Function,
    Kind("WrongArgument", [key |-> key, expected |-> expected, got |-> got]))

(* Mutant of get_named_data: an absent argument is never reported, even   *)
(* when it is required.                                                   *)
get_named_data_lax(reg, key, required) ==
  LET x == reg[key] IN
  IF x = Absent THEN Ok(Absent)
  ELSE CASE x.kind = "Data" -> Ok(x.val)
         [] x.kind = "String" -> Ok(AsBytes(x.val))
         [] OTHER -> Err(WrongArgument(key, "a String or Data Value", x))

(* Mutant of get_named_data: the arm for a present value of the wrong kind *)
(* is missing, so it falls through to the absent arm.                     *)
get_named_data_nokind(reg, key, required) ==
  LET x == reg[key] IN
  IF x # Absent /\ x.kind = "Data" THEN Ok(x.val)
  ELSE IF x # Absent /\ x.kind = "String" THEN Ok(AsBytes(x.val))
  ELSE IF required THEN Err(MissingNamed(key))
  ELSE Ok(Absent)

(* get_named_data, lines 36-57: the arms of the match are tried in order; *)
(* an absent argument is an error only when it is required.               *)
get_named_data(reg, key, required) ==
  LET x == reg[key] IN
  IF x = Absent
  THEN IF required THEN Err(MissingNamed(key)) ELSE Ok(Absent)
  ELSE CASE x.kind = "Data" -> Ok(x.val)
         [] x.kind = "String" -> Ok(AsBytes(x.val))
         [] OTHER -> Err(WrongArgument(key, "a String or Data Value", x))

(* get_named_number, lines 63-83.                                         *)
get_named_number(reg, key, required) ==
  LET x == reg[key] IN
  IF x = Absent
  THEN IF required THEN Err(MissingNamed(key)) ELSE Ok(Absent)
  ELSE IF x.kind = "Number" THEN Ok(x.val)
  ELSE Err(WrongArgument(key, "a Number Value", x))

(* Mutant of get_len: `x as usize`, wrapping modulo 2^UsizeBits.          *)
get_len_wrapping(reg) ==
  LET buf == get_named_number(reg, "len", FALSE) IN
  IF ~buf.ok \/ buf.val = Absent THEN buf
  ELSE Ok(buf.val % (UsizeMax + 1))

(* get_len, lines 100-118: an out-of-range number is a GeneralError that  *)
(* reports usize::MIN, usize::MAX and the number.                         *)
get_len(reg) ==
  LET buf == get_named_number(reg, "len", FALSE) IN
  IF ~buf.ok \/ buf.val = Absent THEN buf
  ELSE IF FitsUsize(buf.val) THEN Ok(buf.val)
  ELSE Err(FunctionError(Function,
             Kind("GeneralError",
                  [min |-> UsizeMin, max |-> UsizeMax, got |-> buf.val])))

(* get_key, get_data, get_iv (lines 86-98): the required getters, and the *)
(* one getter each argument of ArgOrder is bound with.                    *)
Getter(reg, arg) ==
  IF arg = "len" THEN get_len(reg) ELSE get_named_data(reg, arg, TRUE)

-----------------------------------------------------------------------------
VARIABLES
  reg,      \* the call's Register, read only
  next,     \* index in ArgOrder of the next argument to bind; 5: all bound
  bound,    \* the values bound so far
  status,   \* "binding", "running" (the algorithm) or "done"
  failure   \* the FunctionError the call failed with, or None

vars == <<reg, next, bound, status, failure>>

Init ==
  /\ reg \in Registers
  /\ next = 1
  /\ bound = [a \in ArgNames |-> Absent]
  /\ status = "binding"
  /\ failure = None

(* The call returns Err(fe).                                              *)
Fail(fe) ==
  /\ status' = "done"
  /\ failure' = fe

(* Bind the next argument; `?` returns early with its error.              *)
Bind ==
  /\ status = "binding"
  /\ LET arg == ArgOrder[next]
         r == Getter(reg, arg)
     IN  \/ /\ ~r.ok
            /\ Fail(r.val)
            /\ UNCHANGED <<reg, next, bound>>
         \/ /\ r.ok
            /\ bound' = [bound EXCEPT ![arg] = r.val]
            /\ next' = next + 1
            /\ status' = IF next = 4 THEN "running" ELSE "binding"
            /\ UNCHANGED <<reg, failure>>

(* The errors the algorithm may fail with.                                *)
RunErrors ==
  {FunctionError(Function, Kind("IOError", ie)) : ie \in IoKinds} \cup
  {FunctionError(Function, Kind("GeneralError", "algorithm"))}

(* The built-in's algorithm, outside this layer, returns a value or fails *)
(* with a NaslError.                                                      *)
Run ==
  /\ status = "running"
  /\ \/ /\ status' = "done" /\ UNCHANGED failure
     \/ \E fe \in RunErrors : Fail(fe)
  /\ UNCHANGED <<reg, next, bound>>

Next == Bind \/ Run

Spec == Init /\ [][Next]_vars

-----------------------------------------------------------------------------
TypeOK ==
  /\ DOMAIN reg = ArgNames /\ \A a \in ArgNames : IsEntry(reg[a])
  /\ next \in 1..5
  /\ \A a \in ArgNames :
       bound[a] \in (IF a = "len" THEN Numbers ELSE Seq(0..255)) \cup {Absent}
  /\ status \in {"binding", "running", "done"}
  /\ failure = None \/ failure.function = Function

(* The required getters never hand get_key, get_data or get_iv an absent *)
(* value (Ok(None)), so the unwrap() of lines 87, 92 and 97 never panics.*)
NoUnwrapPanic ==
  \A i \in 1..3 : i < next => bound[ArgOrder[i]] # Absent

(* A call binds exactly what the Register holds: a text is bound as its   *)
(* UTF-8 bytes, and a len is bound unchanged (never wrapped or truncated) *)
(* or the call fails with a range error that reports usize::MIN,          *)
(* usize::MAX and the number it was given.                                *)
BindsFaithfully ==
  /\ \A i \in 1..(next - 1) :
       LET a == ArgOrder[i] IN
       IF reg[a] = Absent THEN bound[a] = Absent
       ELSE IF reg[a].kind = "String" THEN bound[a] = AsBytes(reg[a].val)
       ELSE bound[a] = reg[a].val
  /\ (failure # None /\ next = 4 /\ failure.kind.tag = "GeneralError")
       => /\ failure.function = Function
          /\ failure.kind.data = [min |-> 0, max |-> 2^UsizeBits - 1,
                                  got |-> reg["len"].val]
          /\ reg["len"].val \notin 0..(2^UsizeBits - 1)

(* The first argument, in binding order, that is absent or of the wrong   *)
(* kind decides the error: a call without key fails with                  *)
(* MissingNamed(["key"]) whatever data and iv hold (spec 8).              *)
FirstBadArgumentReported ==
  (failure # None
     /\ failure.kind.tag \in {"MissingArguments", "WrongArgument"})
    => LET e == failure.kind
           arg == IF e.tag = "MissingArguments" THEN e.data[1] ELSE e.data.key
       IN  /\ arg = ArgOrder[next]
           /\ \A i \in 1..(next - 1) : reg[ArgOrder[i]] # Absent
           /\ e.tag = "MissingArguments" <=> reg[arg] = Absent
=============================================================================
