------------------------------- MODULE MCCodec -------------------------------
(***************************************************************************)
(* The codec of utils.go applied to every pair of words of a small width: *)
(* each state holds the bit patterns of two values a caller converts to   *)
(* index keys, read both as int64 and as float64.  Three bytes of two     *)
(* bits give 64 words, the overflow of i << 1 for |i| >= 2^4 included.   *)
(***************************************************************************)
EXTENDS Codec

VARIABLES p, q   \* the two words

vars == <<p, q>>

I == Sint(p)
J == Sint(q)
F == FromBits(p)
G == FromBits(q)

Init == p = 0 /\ q = 0

(* A caller converts two values, any int64 or float64 of the width.      *)
Convert(a, b) == p' = a /\ q' = b

Next == \E a, b \in Uint64 : Convert(a, b)

Spec == Init /\ [][Next]_vars

-----------------------------------------------------------------------------
(* Btoi(Itob(i)) = i and Btof(Ftob(f)) = f for every value, the extremes *)
(* where Itob's shift overflows included; encodeUint writes the           *)
(* big-endian word; nil (an absent "_count" key) decodes to 0.            *)
CodecRoundTrip ==
  /\ Btoi(Itob(I)) = I
  /\ Btof(Ftob(F)) = F
  /\ EncodeUint(p) = BigEndian(p)
  /\ Btoi(<<>>) = 0

(* The key order spec 4.1 documents for Itob and Ftob, as bolt's cursor   *)
(* sees it: it agrees with the numeric order on non-negative values and   *)
(* is inverted on negative ones.                                          *)
CodecOrder ==
  /\ 0 <= I /\ I < J => LexLess(Itob(I), Itob(J))
  /\ I < J /\ J < 0  => LexLess(Itob(J), Itob(I))
  /\ ~F.neg /\ ~G.neg /\ F.mag < G.mag => LexLess(Ftob(F), Ftob(G))
  /\ F.neg /\ G.neg /\ F.mag < G.mag   => LexLess(Ftob(F), Ftob(G))

=============================================================================
