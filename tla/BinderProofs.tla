---------------------------- MODULE BinderProofs ----------------------------
(***************************************************************************)
(* Proofs about the argument binder of the crypto built-ins, for every    *)
(* function name, every set of code points and numbers, every length of  *)
(* text and every width of usize.                                          *)
(***************************************************************************)
EXTENDS Binder, FiniteSetTheorems, TLAPS

(* The result of binding argument i of ArgOrder.                           *)
R(i) == Getter(reg, ArgOrder[i])

(* Every argument bound so far is what its getter returned for the        *)
(* Register; a call that failed while binding failed with the error of    *)
(* the getter it stopped at.                                              *)
BInv ==
  /\ DOMAIN reg = ArgNames /\ \A a \in ArgNames : IsEntry(reg[a])
  /\ DOMAIN bound = ArgNames
  /\ next \in 1..5
  /\ status \in {"binding", "running", "done"}
  /\ status = "binding" => next \in 1..4
  /\ status = "running" => next = 5
  /\ status \in {"binding", "running"} => failure = None
  /\ \A i \in 1..(next - 1) : R(i).ok /\ bound[ArgOrder[i]] = R(i).val
  /\ (status = "done" /\ next \in 1..4) =>
        ~R(next).ok /\ failure = R(next).val
  /\ (status = "done" /\ next = 5) => failure \in RunErrors \cup {None}

(* What a required getter (get_key, get_data, get_iv) returns: Some of    *)
(* the bytes of a Data or String value, or the error of the first arm of  *)
(* get_named_data that does not match.                                    *)
LEMMA DataGetter ==
  ASSUME NEW rg, NEW a \in {"key", "data", "iv"}, IsEntry(rg[a])
  PROVE  /\ Getter(rg, a).ok =>
              /\ rg[a] # Absent /\ Getter(rg, a).val # Absent
              /\ rg[a].kind = "String" => Getter(rg, a).val = AsBytes(rg[a].val)
              /\ rg[a].kind # "String" => Getter(rg, a).val = rg[a].val
         /\ ~Getter(rg, a).ok =>
              \/ rg[a] = Absent /\ Getter(rg, a).val = MissingNamed(a)
              \/ rg[a] # Absent
                 /\ \E exp : Getter(rg, a).val = WrongArgument(a, exp, rg[a])
  <1>1. CASE rg[a] = Absent
    <2>1. Getter(rg, a) = Err(MissingNamed(a))
      BY <1>1 DEF Getter, get_named_data
    <2>2. QED
      BY <1>1, <2>1 DEF Err
  <1>2. CASE rg[a] # Absent /\ rg[a].kind = "Data"
    <2>1. Getter(rg, a) = Ok(rg[a].val)
      BY <1>2 DEF Getter, get_named_data
    <2>2. rg[a].val \in Bytes
      BY <1>2 DEF IsEntry, ValuesOf
    <2>3. QED
      BY <1>2, <2>1, <2>2, AbsentAssumption DEF Ok
  <1>3. CASE rg[a] # Absent /\ rg[a].kind = "String"
    <2>1. Getter(rg, a) = Ok(AsBytes(rg[a].val))
      BY <1>3 DEF Getter, get_named_data
    <2>2. AsBytes(rg[a].val) \in Bytes
      BY <1>3 DEF IsEntry, ValuesOf, Bytes
    <2>3. QED
      BY <1>3, <2>1, <2>2, AbsentAssumption DEF Ok
  <1>4. CASE rg[a] # Absent /\ rg[a].kind \notin {"Data", "String"}
    <2>1. \E exp : Getter(rg, a) = Err(WrongArgument(a, exp, rg[a]))
      BY <1>4 DEF Getter, get_named_data
    <2>2. PICK exp : Getter(rg, a) = Err(WrongArgument(a, exp, rg[a]))
      BY <2>1
    <2>3. ~Getter(rg, a).ok /\ Getter(rg, a).val = WrongArgument(a, exp, rg[a])
      BY <2>2 DEF Err
    <2>4. QED
      BY <1>4, <2>3
  <1>5. QED
    BY <1>1, <1>2, <1>3, <1>4

(* What get_len returns: None for an absent len, Some of a number that    *)
(* fits usize, or the error of get_named_number or the range error.       *)
LEMMA LenGetter ==
  ASSUME NEW rg, IsEntry(rg["len"])
  PROVE  /\ Getter(rg, "len").ok =>
              \/ rg["len"] = Absent /\ Getter(rg, "len").val = Absent
              \/ /\ rg["len"] # Absent /\ rg["len"].kind = "Number"
                 /\ Getter(rg, "len").val = rg["len"].val
         /\ ~Getter(rg, "len").ok =>
              /\ rg["len"] # Absent
              /\ \/ \E exp : Getter(rg, "len").val = WrongArgument("len", exp, rg["len"])
                 \/ /\ Getter(rg, "len").val =
                         FunctionError(Function,
                           Kind("GeneralError", [min |-> 0, max |-> 2^UsizeBits - 1,
                                                 got |-> rg["len"].val]))
                    /\ rg["len"].val \notin 0..(2^UsizeBits - 1)
  <1>1. CASE rg["len"] = Absent
    <2>1. Getter(rg, "len") = Ok(Absent)
      BY <1>1 DEF Ok, Getter, get_len, get_named_number
    <2>2. QED
      BY <1>1, <2>1 DEF Ok
  <1>2. CASE rg["len"] # Absent /\ rg["len"].kind # "Number"
    <2>1. \E exp : Getter(rg, "len") = Err(WrongArgument("len", exp, rg["len"]))
      BY <1>2 DEF Err, Getter, get_len, get_named_number
    <2>2. PICK exp : Getter(rg, "len") = Err(WrongArgument("len", exp, rg["len"]))
      BY <2>1
    <2>3. ~Getter(rg, "len").ok
          /\ Getter(rg, "len").val = WrongArgument("len", exp, rg["len"])
      BY <2>2 DEF Err
    <2>4. QED
      BY <1>2, <2>3
  <1>3. CASE rg["len"] # Absent /\ rg["len"].kind = "Number"
                /\ (rg["len"].val = Absent \/ FitsUsize(rg["len"].val))
    <2>1. Getter(rg, "len") = Ok(rg["len"].val)
      BY <1>3 DEF Ok, Getter, get_len, get_named_number
    <2>2. QED
      BY <1>3, <2>1 DEF Ok
  <1>4. CASE rg["len"] # Absent /\ rg["len"].kind = "Number"
                /\ ~(rg["len"].val = Absent \/ FitsUsize(rg["len"].val))
    <2>1. Getter(rg, "len")
            = Err(FunctionError(Function,
                Kind("GeneralError", [min |-> 0, max |-> 2^UsizeBits - 1,
                                      got |-> rg["len"].val])))
      BY <1>4 DEF Ok, Err, UsizeMin, UsizeMax, Getter, get_len, get_named_number
    <2>2. rg["len"].val \notin 0..(2^UsizeBits - 1)
      BY <1>4 DEF FitsUsize, UsizeMin, UsizeMax
    <2>3. ~Getter(rg, "len").ok
          /\ Getter(rg, "len").val
               = FunctionError(Function,
                   Kind("GeneralError", [min |-> 0, max |-> 2^UsizeBits - 1,
                                         got |-> rg["len"].val]))
      BY <2>1 DEF Err
    <2>4. QED
      BY <1>4, <2>2, <2>3
  <1>5. QED
    BY <1>1, <1>2, <1>3, <1>4

(* The four arguments are bound under four distinct names.                *)
LEMMA ArgOrderFacts ==
  /\ ArgNames = {"key", "data", "iv", "len"}
  /\ \A i \in 1..4 : ArgOrder[i] \in ArgNames
  /\ \A i, j \in 1..4 : i # j => ArgOrder[i] # ArgOrder[j]
  /\ \A i \in 1..3 : ArgOrder[i] \in {"key", "data", "iv"}
  /\ ArgOrder[4] = "len"
  BY DEF ArgNames, ArgOrder

(* A Register holds, under each name, nothing or a value of its kind.     *)
LEMMA RegistersAreEntries ==
  ASSUME NEW rg \in Registers
  PROVE  DOMAIN rg = ArgNames /\ \A a \in ArgNames : IsEntry(rg[a])
  <1>1. DOMAIN rg = ArgNames
    BY DEF Registers
  <1>2. ASSUME NEW a \in ArgNames PROVE IsEntry(rg[a])
    <2>1. rg[a] \in Entries \cup {Absent}
      BY DEF Registers
    <2>2. CASE rg[a] = Absent
      BY <2>2 DEF IsEntry
    <2>3. CASE rg[a] \in Entries
      <3>1. PICK k \in Kinds : rg[a] \in [kind : {k}, val : ValuesOf(k)]
        BY <2>3 DEF Entries
      <3>2. rg[a].kind = k
        BY <3>1
      <3>3. QED
        BY <3>1, <3>2 DEF IsEntry
    <2>4. QED
      BY <2>1, <2>2, <2>3
  <1>3. QED
    BY <1>1, <1>2

(* The initial states satisfy the invariant.                               *)
LEMMA BInvInit == Init => BInv
  <1> SUFFICES ASSUME Init PROVE BInv
    OBVIOUS
  <1>1. DOMAIN reg = ArgNames /\ \A a \in ArgNames : IsEntry(reg[a])
    BY RegistersAreEntries DEF Init
  <1>2. QED
    BY <1>1 DEF Init, BInv

(* Every step preserves the invariant.                                     *)
LEMMA BInvStep == BInv /\ [Next]_vars => BInv'
  <1> SUFFICES ASSUME BInv, [Next]_vars PROVE BInv'
    OBVIOUS
  <1>1. CASE Bind
    <2> DEFINE arg == ArgOrder[next]
               r == Getter(reg, arg)
    <2> USE DEF arg, r
    <2>1. next \in 1..4 /\ status = "binding" /\ failure = None
      BY <1>1 DEF Bind, BInv
    <2>2. r = R(next)
      BY DEF R
    <2>3. CASE ~r.ok /\ Fail(r.val) /\ UNCHANGED <<reg, next, bound>>
      <3>1. \A i \in 1..(next - 1) : R(i)' = R(i)
        BY <2>3 DEF R
      <3>2. Getter(reg', ArgOrder[next']) = r /\ next' = next
        BY <2>3
      <3>3. status' = "done" /\ failure' = r.val
        BY <2>3 DEF Fail
      <3>4. (status = "done" /\ next \in 1..4 =>
              ~R(next).ok /\ failure = R(next).val)'
        BY <2>1, <2>3, <3>2, <3>3 DEF R
      <3>5. \A i \in 1..(next' - 1) : R(i)'.ok /\ bound'[ArgOrder[i]] = R(i)'.val
        BY <2>3, <3>1 DEF BInv
      <3>6. QED
        BY <2>1, <2>3, <3>3, <3>4, <3>5 DEF BInv
    <2>4. CASE /\ r.ok
               /\ bound' = [bound EXCEPT ![arg] = r.val]
               /\ next' = next + 1
               /\ status' = IF next = 4 THEN "running" ELSE "binding"
               /\ UNCHANGED <<reg, failure>>
      <3>1. \A i \in 1..(next' - 1) : R(i)' = R(i)
        BY <2>4 DEF R
      <3>2. ASSUME NEW i \in 1..(next' - 1)
            PROVE  R(i)'.ok /\ bound'[ArgOrder[i]] = R(i)'.val
        <4>1. CASE i = next
          <5>1. arg \in DOMAIN bound
            BY <2>1, ArgOrderFacts DEF BInv
          <5>2. bound'[arg] = r.val
            BY <2>4, <5>1
          <5>3. R(i)' = r
            BY <2>1, <2>2, <2>4, <3>1, <4>1
          <5>4. QED
            BY <2>4, <4>1, <5>2, <5>3
        <4>2. CASE i < next
          <5>1. ArgOrder[i] # arg /\ ArgOrder[i] \in ArgNames
            BY <2>1, <4>2, ArgOrderFacts
          <5>2. QED
            BY <2>4, <3>1, <4>2, <5>1 DEF BInv
        <4>3. QED
          BY <2>1, <2>4, <4>1, <4>2
      <3>3. QED
        BY <2>1, <2>4, <3>2 DEF BInv
    <2>5. QED
      BY <1>1, <2>3, <2>4 DEF Bind
  <1>2. CASE Run
    <2>1. next = 5 /\ status = "running" /\ failure = None
      BY <1>2 DEF Run, BInv
    <2>2. \A i \in 1..(next - 1) : R(i)' = R(i)
      BY <1>2 DEF Run, R
    <2>3. CASE status' = "done" /\ UNCHANGED failure
      BY <1>2, <2>1, <2>2, <2>3 DEF Run, BInv
    <2>4. CASE \E fe \in RunErrors : Fail(fe)
      <3>1. PICK fe \in RunErrors : Fail(fe)
        BY <2>4
      <3>2. QED
        BY <1>2, <2>1, <2>2, <3>1 DEF Run, Fail, BInv
    <2>5. QED
      BY <1>2, <2>3, <2>4 DEF Run
  <1>3. CASE UNCHANGED vars
    BY <1>3 DEF vars, BInv, R
  <1>4. QED
    BY <1>1, <1>2, <1>3 DEF Next

(* No required getter hands its caller None, so the unwrap() of get_key,  *)
(* get_data and get_iv never panics, whatever the Register holds.         *)
THEOREM NoUnwrapPanicHolds == Spec => []NoUnwrapPanic
  <1>1. BInv => NoUnwrapPanic
    <2> SUFFICES ASSUME BInv, NEW i \in 1..3, i < next
                 PROVE  bound[ArgOrder[i]] # Absent
      BY DEF NoUnwrapPanic
    <2>1. R(i).ok /\ bound[ArgOrder[i]] = R(i).val
      BY DEF BInv
    <2>2. ArgOrder[i] \in {"key", "data", "iv"} /\ ArgOrder[i] \in ArgNames
      BY ArgOrderFacts
    <2>3. IsEntry(reg[ArgOrder[i]])
      BY <2>2 DEF BInv
    <2>4. QED
      BY <2>1, <2>2, <2>3, DataGetter DEF R
  <1>2. QED
    BY <1>1, BInvInit, BInvStep, PTL DEF Spec

(* An argument bound so far holds what the Register holds under its name, *)
(* a text as its bytes.                                                    *)
LEMMA BoundIsRegister ==
  ASSUME BInv, NEW i \in 1..(next - 1)
  PROVE  IF reg[ArgOrder[i]] = Absent THEN bound[ArgOrder[i]] = Absent
         ELSE IF reg[ArgOrder[i]].kind = "String"
              THEN bound[ArgOrder[i]] = AsBytes(reg[ArgOrder[i]].val)
              ELSE bound[ArgOrder[i]] = reg[ArgOrder[i]].val
  <1>1. R(i).ok /\ bound[ArgOrder[i]] = R(i).val /\ i \in 1..4
    BY DEF BInv
  <1>2. IsEntry(reg[ArgOrder[i]])
    BY <1>1, ArgOrderFacts DEF BInv
  <1>3. CASE i \in 1..3
    BY <1>1, <1>2, <1>3, ArgOrderFacts, DataGetter DEF R
  <1>4. CASE i = 4
    <2>1. ArgOrder[i] = "len"
      BY <1>4, ArgOrderFacts
    <2>2. Getter(reg, "len").ok /\ bound["len"] = Getter(reg, "len").val
          /\ IsEntry(reg["len"])
      BY <1>1, <1>2, <2>1 DEF R
    <2>3. \/ reg["len"] = Absent /\ Getter(reg, "len").val = Absent
          \/ /\ reg["len"] # Absent /\ reg["len"].kind = "Number"
             /\ Getter(reg, "len").val = reg["len"].val
      BY <2>2, LenGetter
    <2>4. QED
      BY <2>1, <2>2, <2>3
  <1>5. QED
    BY <1>1, <1>3, <1>4

(* A call that fails at len with a GeneralError failed on the range check *)
(* of get_len.                                                             *)
LEMMA RangeFailure ==
  ASSUME BInv, failure # None, next = 4, failure.kind.tag = "GeneralError"
  PROVE  /\ failure.function = Function
         /\ failure.kind.data = [min |-> 0, max |-> 2^UsizeBits - 1,
                                 got |-> reg["len"].val]
         /\ reg["len"].val \notin 0..(2^UsizeBits - 1)
  <1>1. status = "done"
    BY DEF BInv
  <1>2. ~R(4).ok /\ failure = R(4).val
    BY <1>1 DEF BInv
  <1>3. IsEntry(reg["len"])
    BY ArgOrderFacts DEF BInv
  <1>4. ~Getter(reg, "len").ok /\ failure = Getter(reg, "len").val
    BY <1>2, ArgOrderFacts DEF R
  <1>5. ASSUME NEW exp, failure = WrongArgument("len", exp, reg["len"])
        PROVE  FALSE
    BY <1>5 DEF WrongArgument, FunctionError, Kind
  <1>6. \/ \E exp : failure = WrongArgument("len", exp, reg["len"])
        \/ /\ failure = FunctionError(Function,
                           Kind("GeneralError", [min |-> 0, max |-> 2^UsizeBits - 1,
                                                 got |-> reg["len"].val]))
           /\ reg["len"].val \notin 0..(2^UsizeBits - 1)
    BY <1>3, <1>4, LenGetter
  <1>7. QED
    BY <1>5, <1>6 DEF FunctionError, Kind

(* A call binds exactly what the Register holds: a text as its UTF-8     *)
(* bytes, a len unchanged; a len out of range fails with the GeneralError *)
(* of get_len that reports usize::MIN, usize::MAX and the number.         *)
THEOREM BindsFaithfullyHolds == Spec => []BindsFaithfully
  <1>1. BInv => BindsFaithfully
    BY BoundIsRegister, RangeFailure DEF BindsFaithfully
  <1>2. QED
    BY <1>1, BInvInit, BInvStep, PTL DEF Spec

(* The error of a binding getter names the argument it was raised for,    *)
(* and is MissingArguments exactly when the argument is absent.            *)
LEMMA BindingErrorNames ==
  ASSUME BInv, status = "done", NEW i \in 1..4, next = i,
         failure.kind.tag \in {"MissingArguments", "WrongArgument"}
  PROVE  LET e == failure.kind IN
         /\ (IF e.tag = "MissingArguments" THEN e.data[1] ELSE e.data.key)
              = ArgOrder[i]
         /\ e.tag = "MissingArguments" <=> reg[ArgOrder[i]] = Absent
  <1>1. ~R(i).ok /\ failure = R(i).val
    BY DEF BInv
  <1>2. IsEntry(reg[ArgOrder[i]])
    BY ArgOrderFacts DEF BInv
  <1>3. CASE failure = MissingNamed(ArgOrder[i]) /\ reg[ArgOrder[i]] = Absent
    <2>1. failure.kind = Kind("MissingArguments", <<ArgOrder[i]>>)
      BY <1>3 DEF MissingNamed, FunctionError
    <2>2. QED
      BY <1>3, <2>1 DEF Kind
  <1>4. CASE \E exp : /\ failure = WrongArgument(ArgOrder[i], exp, reg[ArgOrder[i]])
                     /\ reg[ArgOrder[i]] # Absent
    <2>1. PICK exp : /\ failure = WrongArgument(ArgOrder[i], exp, reg[ArgOrder[i]])
                     /\ reg[ArgOrder[i]] # Absent
      BY <1>4
    <2>2. failure.kind = Kind("WrongArgument", [key |-> ArgOrder[i], expected |-> exp,
                                               got |-> reg[ArgOrder[i]]])
      BY <2>1 DEF WrongArgument, FunctionError
    <2>3. QED
      BY <2>1, <2>2 DEF Kind
  <1>5. CASE i \in 1..3
    <2>1. ~Getter(reg, ArgOrder[i]).ok /\ failure = Getter(reg, ArgOrder[i]).val
      BY <1>1 DEF R
    <2>2. QED
      BY <1>2, <1>3, <1>4, <1>5, <2>1, ArgOrderFacts, DataGetter
  <1>6. CASE i = 4
    <2>1. ~Getter(reg, "len").ok /\ failure = Getter(reg, "len").val
          /\ IsEntry(reg["len"]) /\ ArgOrder[i] = "len"
      BY <1>1, <1>2, <1>6, ArgOrderFacts DEF R
    <2>2. ASSUME NEW d, failure = FunctionError(Function, Kind("GeneralError", d))
          PROVE  FALSE
      BY <2>2 DEF FunctionError, Kind
    <2>3. QED
      BY <1>3, <1>4, <2>1, <2>2, LenGetter
  <1>7. QED
    BY <1>5, <1>6

(* The first argument, in the order get_key, get_data, get_iv, get_len    *)
(* are called, that is absent or of the wrong kind decides the error the  *)
(* call returns; every argument before it was present.                    *)
THEOREM FirstBadArgumentReportedHolds == Spec => []FirstBadArgumentReported
  <1>1. BInv => FirstBadArgumentReported
    <2> SUFFICES ASSUME BInv, failure # None,
                        failure.kind.tag \in {"MissingArguments", "WrongArgument"}
                 PROVE  LET e == failure.kind
                            arg == IF e.tag = "MissingArguments" THEN e.data[1]
                                   ELSE e.data.key
                        IN  /\ arg = ArgOrder[next]
                            /\ \A i \in 1..(next - 1) : reg[ArgOrder[i]] # Absent
                            /\ e.tag = "MissingArguments" <=> reg[arg] = Absent
      BY DEF FirstBadArgumentReported
    <2>1. status = "done"
      BY DEF BInv
    <2>2. next \in 1..4
      <3>1. ASSUME next = 5 PROVE FALSE
        <4>1. failure \in RunErrors
          BY <2>1, <3>1 DEF BInv
        <4>2. QED
          BY <4>1 DEF RunErrors, FunctionError, Kind
      <3>2. QED
        BY <3>1 DEF BInv
    <2>4. \A i \in 1..(next - 1) : reg[ArgOrder[i]] # Absent
      <3> SUFFICES ASSUME NEW i \in 1..(next - 1) PROVE reg[ArgOrder[i]] # Absent
        OBVIOUS
      <3>1. i \in 1..3 /\ R(i).ok
        BY <2>2 DEF BInv
      <3>2. IsEntry(reg[ArgOrder[i]])
        BY <3>1, ArgOrderFacts DEF BInv
      <3>3. QED
        BY <3>1, <3>2, ArgOrderFacts, DataGetter DEF R
    <2>5. QED
      BY <2>1, <2>2, <2>4, BindingErrorNames
  <1>2. QED
    BY <1>1, BInvInit, BInvStep, PTL DEF Spec

(* The UTF-8 encoding of a code point below 2048 is one or two bytes.     *)
LEMMA Utf8Bytes ==
  ASSUME NEW cp \in CodePoints
  PROVE  Utf8(cp) \in Seq(0..255) /\ Width(cp) \in {1, 2}
  <1>0. cp \in 0..2047
    BY BinderAssumption
  <1>1. CASE cp < 128
    <2>1. Utf8(cp) = <<cp>>
      BY <1>1 DEF Utf8
    <2>2. cp \in 0..255
      BY <1>0, <1>1
    <2>3. QED
      BY <2>1, <2>2 DEF Width
  <1>2. CASE ~(cp < 128)
    <2> DEFINE hi == 192 + (cp \div 64)
    <2> DEFINE lo == 128 + (cp % 64)
    <2>1. Utf8(cp) = <<hi, lo>>
      BY <1>2 DEF Utf8, hi, lo
    <2>2. hi \in 0..255 /\ lo \in 0..255
      BY <1>0 DEF hi, lo
    <2>3. QED
      BY <2>1, <2>2 DEF Width
  <1>3. QED
    BY <1>1, <1>2

(* The code points before the i-th that take two bytes: Offset counts    *)
(* them on top of one byte for every code point before the i-th.          *)
Wide(t, i) == {j \in 1..(i - 1) : Width(t[j]) = 2}

NWide(t, i) == Cardinality(Wide(t, i))

(* The bytes of the i-th code point start after those of the code points  *)
(* before it: Offset starts at 0 and grows by each code point's width.    *)
LEMMA OffsetStep ==
  ASSUME NEW t, NEW n \in Nat, \A j \in 1..n : Width(t[j]) \in {1, 2}
  PROVE  /\ Offset(t, 1) = 0
         /\ \A i \in 1..(n + 1) : Offset(t, i) \in Nat
         /\ \A i \in 1..n : Offset(t, i + 1) = Offset(t, i) + Width(t[i])
  <1>0. \A i \in Int : Offset(t, i) = (i - 1) + NWide(t, i)
    BY DEF Offset, NWide, Wide
  <1>1. \A i \in 1..(n + 1) : IsFiniteSet(Wide(t, i)) /\ NWide(t, i) \in Nat
    <2> SUFFICES ASSUME NEW i \in 1..(n + 1)
                 PROVE  IsFiniteSet(Wide(t, i)) /\ NWide(t, i) \in Nat
      OBVIOUS
    <2>1. IsFiniteSet(1..(i - 1))
      BY FS_Interval
    <2>2. Wide(t, i) \subseteq 1..(i - 1)
      BY DEF Wide
    <2>3. IsFiniteSet(Wide(t, i))
      BY <2>1, <2>2, FS_Subset
    <2>4. QED
      BY <2>3, FS_CardinalityType, Zenon DEF NWide
  <1>2. Offset(t, 1) = 0
    <2>1. Wide(t, 1) = {}
      BY DEF Wide
    <2>2. NWide(t, 1) = 0
      BY <2>1, FS_EmptySet, Zenon DEF NWide
    <2>3. QED
      BY <1>0, <2>2
  <1>3. \A i \in 1..(n + 1) : Offset(t, i) \in Nat
    <2> SUFFICES ASSUME NEW i \in 1..(n + 1) PROVE Offset(t, i) \in Nat
      OBVIOUS
    <2>1. Offset(t, i) = (i - 1) + NWide(t, i)
      BY <1>0
    <2>2. NWide(t, i) \in Nat
      BY <1>1
    <2>3. QED
      BY <2>1, <2>2
  <1>4. ASSUME NEW i \in 1..n
        PROVE  Offset(t, i + 1) = Offset(t, i) + Width(t[i])
    <2>1. Width(t[i]) \in {1, 2}
      OBVIOUS
    <2>2. IsFiniteSet(Wide(t, i)) /\ NWide(t, i) \in Nat
      <3>1. i \in 1..(n + 1)
        OBVIOUS
      <3>2. QED
        BY <3>1, <1>1, Zenon
    <2>3. i \notin Wide(t, i)
      BY DEF Wide
    <2>4. NWide(t, i + 1) = NWide(t, i) + (Width(t[i]) - 1)
      <3>1. CASE Width(t[i]) = 2
        <4>1. Wide(t, i + 1) = Wide(t, i) \cup {i}
          BY <3>1 DEF Wide
        <4>2. Cardinality(Wide(t, i) \cup {i}) = Cardinality(Wide(t, i)) + 1
          BY <2>2, <2>3, FS_AddElement, Zenon
        <4>3. NWide(t, i + 1) = NWide(t, i) + 1
          BY <4>1, <4>2, Zenon DEF NWide
        <4>4. QED
          BY <3>1, <4>3
      <3>2. CASE Width(t[i]) = 1
        <4>1. Wide(t, i + 1) = Wide(t, i)
          BY <3>2 DEF Wide
        <4>2. NWide(t, i + 1) = NWide(t, i)
          BY <4>1, Zenon DEF NWide
        <4>3. QED
          BY <2>2, <3>2, <4>2
      <3>3. QED
        BY <2>1, <3>1, <3>2
    <2>5. Offset(t, i + 1) = i + NWide(t, i + 1)
      BY <1>0
    <2>6. Offset(t, i) = (i - 1) + NWide(t, i)
      BY <1>0
    <2>7. QED
      BY <2>1, <2>2, <2>4, <2>5, <2>6
  <1>5. QED
    BY <1>2, <1>3, <1>4

(* Every byte position of the encoding lies in the span of exactly one   *)
(* code point: the least i whose offset reaches k closes that span.       *)
LEMMA SpanOf ==
  ASSUME NEW t, NEW n \in Nat,
         Offset(t, 1) = 0,
         \A i \in 1..(n + 1) : Offset(t, i) \in Nat,
         NEW k \in 1..Offset(t, n + 1)
  PROVE  \E i \in 1..n : Offset(t, i) < k /\ k <= Offset(t, i + 1)
  <1> DEFINE Reach == {i \in 1..(n + 1) : k <= Offset(t, i)}
  <1>1. Reach \subseteq Nat /\ Reach # {}
    <2>1. n + 1 \in Reach
      OBVIOUS
    <2>2. QED
      BY <2>1
  <1>2. PICK m \in Reach : \A y \in Reach : ~(<<y, m>> \in OpToRel(<, Nat))
    BY <1>1, NatLessThanWellFounded, WFMin
  <1>3. \A y \in Reach : ~(y < m)
    <2> SUFFICES ASSUME NEW y \in Reach, y < m PROVE FALSE
      OBVIOUS
    <2>1. <<y, m>> \in OpToRel(<, Nat)
      BY <1>1 DEF OpToRel
    <2>2. QED
      BY <1>2, <2>1
  <1>4. m # 1
    OBVIOUS
  <1>5. m - 1 \in 1..n /\ m - 1 \notin Reach
    BY <1>3, <1>4
  <1>6. Offset(t, m - 1) < k /\ k <= Offset(t, (m - 1) + 1)
    BY <1>5
  <1>7. QED
    BY <1>5, <1>6

(* A member of a sequence over S is in S.                                 *)
LEMMA SeqMember ==
  ASSUME NEW S, NEW s \in Seq(S), NEW k \in 1..Len(s)
  PROVE  s[k] \in S
  OBVIOUS

(* A function on 1..m is a sequence of length m.                          *)
LEMMA FunInSeq ==
  ASSUME NEW S, NEW m \in Nat, NEW f \in [1..m -> S]
  PROVE  f \in Seq(S)
  OBVIOUS

(* as_bytes of a text is a byte string: every byte position k falls in    *)
(* the span of one code point, and k minus the span's start indexes one   *)
(* of that code point's one or two UTF-8 bytes.                           *)
LEMMA AsBytesType ==
  ASSUME NEW t \in Seq(CodePoints)
  PROVE  AsBytes(t) \in Seq(0..255)
  <1> DEFINE n == Len(t)
  <1> DEFINE N == Offset(t, n + 1)
  <1>1. n \in Nat
    OBVIOUS
  <1>2. \A j \in 1..n : t[j] \in CodePoints
    OBVIOUS
  <1>3. \A j \in 1..n : Utf8(t[j]) \in Seq(0..255) /\ Width(t[j]) \in {1, 2}
    BY <1>2, Utf8Bytes
  <1>4. /\ Offset(t, 1) = 0
        /\ \A i \in 1..(n + 1) : Offset(t, i) \in Nat
        /\ \A i \in 1..n : Offset(t, i + 1) = Offset(t, i) + Width(t[i])
    <2>1. \A j \in 1..n : Width(t[j]) \in {1, 2}
      BY <1>3
    <2>2. QED
      BY <1>1, <2>1, OffsetStep
  <1>5. N \in Nat
    <2>1. n + 1 \in 1..(n + 1)
      BY <1>1
    <2>2. QED
      BY <1>4, <2>1
  <1>6. ASSUME NEW k \in 1..N
        PROVE  LET i == CHOOSE i \in 1..n : Offset(t, i) < k /\ k <= Offset(t, i + 1)
               IN  Utf8(t[i])[k - Offset(t, i)] \in 0..255
    <2>1. \E i \in 1..n : Offset(t, i) < k /\ k <= Offset(t, i + 1)
      BY <1>1, <1>4, SpanOf
    <2> DEFINE i == CHOOSE i \in 1..n : Offset(t, i) < k /\ k <= Offset(t, i + 1)
    <2>2. i \in 1..n /\ Offset(t, i) < k /\ k <= Offset(t, i + 1)
      BY <2>1
    <2>3. Offset(t, i) \in Nat /\ Offset(t, i + 1) = Offset(t, i) + Width(t[i])
      BY <1>4, <2>2
    <2>4. Utf8(t[i]) \in Seq(0..255) /\ Width(t[i]) = Len(Utf8(t[i]))
      BY <1>3, <2>2 DEF Width
    <2>5. k - Offset(t, i) \in 1..Len(Utf8(t[i]))
      BY <2>2, <2>3, <2>4
    <2>6. QED
      BY <2>4, <2>5, SeqMember, Zenon
  <1>7. AsBytes(t) \in [1..N -> 0..255]
    BY <1>6 DEF AsBytes
  <1>8. QED
    BY <1>5, <1>7, FunInSeq, Zenon

(* No argument is bound before its getter has run: the variables of      *)
(* lines 87-117 hold nothing until their `let` is reached.                *)
Unbound == \A i \in 1..4 : i >= next => bound[ArgOrder[i]] = Absent

(* The invariant TypeOK rests on: BInv ties what is bound to the getters, *)
(* and Unbound says what is not yet bound.                                *)
TInv == BInv /\ Unbound

(* A text is a sequence of code points.                                   *)
LEMMA TextsAreSeqs ==
  ASSUME NEW t \in Texts
  PROVE  t \in Seq(CodePoints)
  <1>1. PICK n \in 0..MaxText : t \in [1..n -> CodePoints]
    BY DEF Texts
  <1>2. n \in Nat
    BY BinderAssumption
  <1>3. QED
    BY <1>1, <1>2

(* Data values are byte strings: the bytes of some text.                   *)
LEMMA BytesAreSeqs ==
  ASSUME NEW b \in Bytes
  PROVE  b \in Seq(0..255)
  <1>1. PICK t \in Texts : b = AsBytes(t)
    BY DEF Bytes
  <1>2. QED
    BY <1>1, TextsAreSeqs, AsBytesType

(* What get_key, get_data and get_iv hand back is a byte string.         *)
LEMMA DataGetterType ==
  ASSUME NEW rg, NEW a \in {"key", "data", "iv"}, IsEntry(rg[a]), Getter(rg, a).ok
  PROVE  Getter(rg, a).val \in Seq(0..255)
  <1>1. rg[a] # Absent
    BY DataGetter
  <1>2. CASE rg[a].kind = "Data"
    <2>1. Getter(rg, a).val = rg[a].val
      BY <1>1, <1>2, DataGetter
    <2>2. rg[a].val \in Bytes
      BY <1>1, <1>2 DEF IsEntry, ValuesOf
    <2>3. QED
      BY <2>1, <2>2, BytesAreSeqs
  <1>3. CASE rg[a].kind = "String"
    <2>1. Getter(rg, a).val = AsBytes(rg[a].val)
      BY <1>1, <1>3, DataGetter
    <2>2. rg[a].val \in Texts
      BY <1>1, <1>3 DEF IsEntry, ValuesOf
    <2>3. QED
      BY <2>1, <2>2, TextsAreSeqs, AsBytesType
  <1>4. CASE rg[a].kind \notin {"Data", "String"}
    <2>1. ~Getter(rg, a).ok
      BY <1>1, <1>4 DEF Getter, get_named_data, Err
    <2>2. QED
      BY <2>1
  <1>5. QED
    BY <1>2, <1>3, <1>4

(* What get_len hands back is None or a number of the Register.           *)
LEMMA LenGetterType ==
  ASSUME NEW rg, IsEntry(rg["len"]), Getter(rg, "len").ok
  PROVE  Getter(rg, "len").val \in Numbers \cup {Absent}
  <1>1. CASE rg["len"] = Absent
    BY <1>1, LenGetter
  <1>2. CASE rg["len"] # Absent
    <2>1. rg["len"].kind = "Number" /\ Getter(rg, "len").val = rg["len"].val
      BY <1>2, LenGetter
    <2>2. rg["len"].val \in Numbers
      BY <1>2, <2>1 DEF IsEntry, ValuesOf
    <2>3. QED
      BY <2>1, <2>2
  <1>3. QED
    BY <1>1, <1>2

(* Every error a getter returns is raised by the called function.         *)
LEMMA GetterErrorFunction ==
  ASSUME NEW rg, NEW a \in ArgNames, IsEntry(rg[a]), ~Getter(rg, a).ok
  PROVE  Getter(rg, a).val.function = Function
  <1>1. CASE a \in {"key", "data", "iv"}
    <2>1. CASE rg[a] = Absent
      BY <1>1, <2>1, DataGetter DEF MissingNamed, FunctionError
    <2>2. CASE rg[a] # Absent
      <3>1. PICK exp : Getter(rg, a).val = WrongArgument(a, exp, rg[a])
        BY <1>1, <2>2, DataGetter
      <3>2. QED
        BY <3>1 DEF WrongArgument, FunctionError
    <2>3. QED
      BY <2>1, <2>2
  <1>2. CASE a = "len"
    <2>1. CASE \E exp : Getter(rg, "len").val = WrongArgument("len", exp, rg["len"])
      <3>1. PICK exp : Getter(rg, "len").val = WrongArgument("len", exp, rg["len"])
        BY <2>1
      <3>2. QED
        BY <1>2, <3>1 DEF WrongArgument, FunctionError
    <2>2. CASE ~\E exp : Getter(rg, "len").val = WrongArgument("len", exp, rg["len"])
      <3>1. IsEntry(rg["len"]) /\ ~Getter(rg, "len").ok
        BY <1>2
      <3>2. PICK d : Getter(rg, "len").val = FunctionError(Function, Kind("GeneralError", d))
        BY <2>2, <3>1, LenGetter
      <3>3. QED
        BY <1>2, <3>2 DEF FunctionError
    <2>3. QED
      BY <2>1, <2>2
  <1>3. QED
    BY <1>1, <1>2, ArgOrderFacts

(* The initial states satisfy TInv: nothing is bound yet.                 *)
LEMMA TInvInit == Init => TInv
  <1> SUFFICES ASSUME Init PROVE TInv
    OBVIOUS
  <1>1. BInv
    BY BInvInit
  <1>2. \A i \in 1..4 : ArgOrder[i] \in ArgNames
    BY ArgOrderFacts
  <1>3. Unbound
    BY <1>2 DEF Init, Unbound
  <1>4. QED
    BY <1>1, <1>3 DEF TInv

(* Every step preserves TInv: binding argument next leaves the arguments  *)
(* after it unbound, and failing or running binds nothing.                 *)
LEMMA TInvStep == TInv /\ [Next]_vars => TInv'
  <1> SUFFICES ASSUME TInv, [Next]_vars PROVE TInv'
    OBVIOUS
  <1>1. BInv'
    BY BInvStep DEF TInv
  <1>2. DOMAIN bound = ArgNames /\ next \in 1..5
    BY DEF TInv, BInv
  <1>3. CASE Bind /\ Getter(reg, ArgOrder[next]).ok
    <2>1. next \in 1..4
      BY <1>3 DEF Bind, TInv, BInv
    <2>2. /\ bound' = [bound EXCEPT ![ArgOrder[next]] = Getter(reg, ArgOrder[next]).val]
          /\ next' = next + 1
      BY <1>3 DEF Bind
    <2>3. ASSUME NEW i \in 1..4, i >= next'
          PROVE  bound'[ArgOrder[i]] = Absent
      <3>1. ArgOrder[i] # ArgOrder[next] /\ ArgOrder[i] \in ArgNames
        BY <2>1, <2>2, <2>3, ArgOrderFacts
      <3>2. bound'[ArgOrder[i]] = bound[ArgOrder[i]]
        BY <1>2, <2>2, <3>1
      <3>3. i >= next
        BY <1>2, <2>2, <2>3
      <3>4. bound[ArgOrder[i]] = Absent
        BY <3>3 DEF TInv, Unbound
      <3>5. QED
        BY <3>2, <3>4
    <2>4. QED
      BY <1>1, <2>3 DEF TInv, Unbound
  <1>4. CASE Bind /\ ~Getter(reg, ArgOrder[next]).ok
    <2>1. UNCHANGED <<next, bound>>
      BY <1>4 DEF Bind
    <2>2. QED
      BY <1>1, <2>1 DEF TInv, Unbound
  <1>5. CASE Run
    <2>1. UNCHANGED <<next, bound>>
      BY <1>5 DEF Run
    <2>2. QED
      BY <1>1, <2>1 DEF TInv, Unbound
  <1>6. CASE UNCHANGED vars
    BY <1>1, <1>6 DEF vars, TInv, Unbound
  <1>7. QED
    BY <1>3, <1>4, <1>5, <1>6 DEF Next

(* Type correctness of the binder: get_key, get_data and get_iv hand the  *)
(* algorithm byte strings (a text as its UTF-8 bytes), get_len a number   *)
(* or None, and a failed call's error is raised by the called function.   *)
THEOREM BinderTypeCorrect == Spec => []TypeOK
  <1>1. TInv => TypeOK
    <2> SUFFICES ASSUME TInv PROVE TypeOK
      OBVIOUS
    <2>1. BInv /\ Unbound
      BY DEF TInv
    <2>2. ASSUME NEW i \in 1..4
          PROVE  bound[ArgOrder[i]] \in
                   (IF ArgOrder[i] = "len" THEN Numbers ELSE Seq(0..255)) \cup {Absent}
      <3>1. CASE i >= next
        <4>1. bound[ArgOrder[i]] = Absent
          BY <2>1, <3>1 DEF Unbound
        <4>2. QED
          BY <4>1, Zenon
      <3>2. CASE i < next
        <4>1. R(i).ok /\ bound[ArgOrder[i]] = R(i).val /\ IsEntry(reg[ArgOrder[i]])
          BY <2>1, <3>2, ArgOrderFacts DEF BInv
        <4>2. CASE i \in 1..3
          <5>1. ArgOrder[i] \in {"key", "data", "iv"}
            BY <4>2, ArgOrderFacts
          <5>2. bound[ArgOrder[i]] \in Seq(0..255)
            BY <4>1, <5>1, DataGetterType DEF R
          <5>3. ArgOrder[i] # "len"
            BY <5>1
          <5>4. QED
            BY <5>2, <5>3, Zenon
        <4>3. CASE i = 4
          <5>1. ArgOrder[i] = "len"
            BY <4>3, ArgOrderFacts
          <5>2. bound[ArgOrder[i]] \in Numbers \cup {Absent}
            BY <4>1, <5>1, LenGetterType DEF R
          <5>3. QED
            BY <5>1, <5>2, Zenon
        <4>4. QED
          BY <4>2, <4>3
      <3>3. QED
        BY <3>1, <3>2, <2>1 DEF BInv
    <2>3. \A a \in ArgNames :
            bound[a] \in (IF a = "len" THEN Numbers ELSE Seq(0..255)) \cup {Absent}
      BY <2>2, Zenon DEF ArgNames
    <2>4. failure = None \/ failure.function = Function
      <3>1. CASE status \in {"binding", "running"}
        BY <2>1, <3>1 DEF BInv
      <3>2. CASE status = "done" /\ next \in 1..4
        <4>1. ~R(next).ok /\ failure = R(next).val
          BY <2>1, <3>2 DEF BInv
        <4>2. ArgOrder[next] \in ArgNames /\ IsEntry(reg[ArgOrder[next]])
          BY <2>1, <3>2, ArgOrderFacts DEF BInv
        <4>3. QED
          BY <4>1, <4>2, GetterErrorFunction DEF R
      <3>3. CASE status = "done" /\ next = 5
        <4>1. failure = None \/ failure \in RunErrors
          BY <2>1, <3>3 DEF BInv
        <4>2. QED
          BY <4>1 DEF RunErrors, FunctionError
      <3>4. QED
        BY <2>1, <3>1, <3>2, <3>3 DEF BInv
    <2>5. QED
      BY <2>1, <2>3, <2>4 DEF BInv, TypeOK
  <1>2. QED
    BY <1>1, TInvInit, TInvStep, PTL DEF Spec

=============================================================================
