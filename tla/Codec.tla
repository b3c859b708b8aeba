------------------------------- MODULE Codec -------------------------------
(***************************************************************************)
(* The numeric key encoding of the silo (src/utils/utils.go): Itob/Btoi   *)
(* for int64 values and Ftob/Btof for float64 values, both on top of the   *)
(* big-endian encodeUint/decodeUint.  Index.convert uses Itob for         *)
(* "integer" and Ftob for "decimal" indices, and the "_count" keys and    *)
(* the "counts" bucket hold Itob-encoded counts read back with Btoi.      *)
(*                                                                         *)
(* The word is NBytes bytes of ByteBits bits (8 and 8 in the code); the   *)
(* operators are written for any width, so that TLC can enumerate every   *)
(* word of a small width, the overflow of the shifts included.            *)
(*                                                                         *)
(* A float is abstracted to what Float64bits exposes of it: a sign bit    *)
(* and the magnitude bits, which for finite values grow with |f|.  mag is *)
(* that magnitude's rank; NaN and the infinities are not distinguished.   *)
(***************************************************************************)
EXTENDS Integers, Sequences, SequencesExt

CONSTANTS
  ByteBits,   \* bits per byte
  NBytes      \* bytes per word: make([]byte, 8) in encodeUint

ASSUME ByteBits \in Nat \ {0} /\ NBytes \in Nat \ {0}

Base     == 2^ByteBits
Width    == ByteBits * NBytes
Modulus  == 2^Width          \* the uint64 range is 0 .. Modulus - 1
SignBit  == 2^(Width - 1)
Int64    == -SignBit .. SignBit - 1
Uint64   == 0 .. Modulus - 1
Float64  == [neg : BOOLEAN, mag : 0 .. SignBit - 1]

(* The conversions between int64 and uint64 (two's complement).          *)
Uint(i)  == i % Modulus
Sint(u)  == IF u >= SignBit THEN u - Modulus ELSE u
(* ^i and i << 1 on an int64; the shift wraps around.                    *)
Compl(i) == -i - 1
Shl1(i)  == Sint((2 * i) % Modulus)

(* encodeUint: a zeroed word, filled from its last byte backwards with    *)
(* the low byte of v while v > 0.                                         *)
RECURSIVE EncodeLoop(_, _, _)
EncodeLoop(data, pos, v) ==
  IF v > 0 THEN EncodeLoop([data EXCEPT ![pos] = v % Base], pos - 1, v \div Base)
           ELSE data

(* Mutant: the bytes are written least significant first.               *)
RECURSIVE EncodeLoopLE(_, _, _)
EncodeLoopLE(data, pos, v) ==
  IF v > 0 THEN EncodeLoopLE([data EXCEPT ![pos] = v % Base], pos + 1, v \div Base)
           ELSE data
EncodeUintLE(v) == EncodeLoopLE([k \in 1 .. NBytes |-> 0], 1, v)

EncodeUint(v) == EncodeLoop([k \in 1 .. NBytes |-> 0], NBytes, v)

(* decodeUint: panics on more than a word's bytes, and otherwise shifts   *)
(* each byte in from the right; nil decodes to 0.                         *)
Panic == "panic"
DecodeUint(data) ==
  IF Len(data) > NBytes THEN Panic
  ELSE FoldLeft(LAMBDA x, b : (x * Base + b) % Modulus, 0, data)

(* Itob: zig-zag, uint64(^i << 1) | 1 for a negative i and               *)
(* uint64(i << 1) otherwise.                                               *)
Itob(i) ==
  EncodeUint(IF i < 0 THEN Uint(Shl1(Compl(i))) + 1 ELSE Uint(Shl1(i)))

(* Mutant: the odd case negates the shifted value instead of complementing *)
(* it.                                                                      *)
BtoiNegate(data) ==
  LET u == DecodeUint(data)
  IN  IF u % 2 # 0 THEN -(u \div 2) ELSE u \div 2

(* Btoi: ^int64(u >> 1) for an odd u, int64(u >> 1) otherwise.           *)
Btoi(data) ==
  LET u == DecodeUint(data)
  IN  IF u % 2 # 0 THEN Compl(u \div 2) ELSE u \div 2

(* math.Float64bits and math.Float64frombits.                            *)
FloatBits(f)   == (IF f.neg THEN SignBit ELSE 0) + f.mag
FromBits(u)    == [neg |-> u >= SignBit, mag |-> u % SignBit]

Ftob(f)    == EncodeUint(FloatBits(f))
Btof(data) == FromBits(DecodeUint(data))

-----------------------------------------------------------------------------
(* Reference definitions the properties compare the code with.           *)

(* bolt orders keys by bytes.Compare: lexicographically, a proper prefix *)
(* first.                                                                  *)
RECURSIVE LexLess(_, _)
LexLess(a, b) ==
  CASE b = <<>>          -> FALSE
    [] a = <<>>          -> TRUE
    [] Head(a) # Head(b) -> Head(a) < Head(b)
    [] OTHER             -> LexLess(Tail(a), Tail(b))

(* The big-endian word of an unsigned value.                              *)
BigEndian(v) == [k \in 1 .. NBytes |-> (v \div Base^(NBytes - k)) % Base]

(* The numeric value of a float's rank; -0 and +0 are equal.            *)
FloatVal(f) == IF f.neg THEN -f.mag ELSE f.mag

=============================================================================
