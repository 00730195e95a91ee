------------------------------ MODULE MCBinder ------------------------------
(* Binder on a byte-wide platform: usize has 8 bits, so 255 is usize::MAX *)
(* and 256 and -1 are out of range, as 2^64 and -1 are for a 64-bit usize.*)
EXTENDS Binder

CONSTANTS NoOrigin, ioBrokenPipe

MCCodePoints == {65, 1000}
MCNumbers == {-1, 0, 255, 256}
MCIoKinds == {ioBrokenPipe}

(* String::as_bytes as the fold that appends the encodings of the code   *)
(* points one after the other: the reference for AsBytes.                 *)
AsBytesRef(t) ==
  LET enc[i \in 0..Len(t)] ==
        IF i = 0 THEN <<>> ELSE enc[i - 1] \o Utf8(t[i])
  IN  enc[Len(t)]

(* On every text of up to three code points, from both ends of the one-  *)
(* and two-byte ranges, AsBytes is the concatenation of the encodings.    *)
ASSUME AsBytesMatchesRef ==
  \A t \in UNION {[1..n -> {0, 65, 127, 128, 1000, 2047}] : n \in 0..3} :
    AsBytes(t) = AsBytesRef(t)
=============================================================================
