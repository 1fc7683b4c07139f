-------------------------------- MODULE Wire --------------------------------
(***************************************************************************)
(* Bytes on a tracker's TCP connection, and what one call of a protocol    *)
(* handler makes of those that have arrived.  A byte is a number below     *)
(* 256; a field wider than 16 bits stays the sequence of its bytes.        *)
(***************************************************************************)
EXTENDS Naturals, Sequences, FiniteSets, SequencesExt

Bytes == 0 .. 255

(* binary.BigEndian.Uint16 of the two bytes that follow offset o, and its  *)
(* inverse; uint16 arithmetic wraps.                                       *)
U16(b, o) == 256 * b[o + 1] + b[o + 2]
PutU16(n) == <<(n \div 256) % 256, n % 256>>

(* Go's b[from:to].                                                        *)
Slice(b, from, to) == SubSeq(b, from + 1, to)

Bit(n, k) == (n \div 2 ^ k) % 2

(* XOR of two 16-bit numbers, from bit k up.                               *)
Xor(a, b) ==
  LET from[k \in 0 .. 16] ==
        IF k = 16 THEN 0 ELSE ((Bit(a, k) + Bit(b, k)) % 2) + 2 * from[k + 1]
  IN  from[0]

(* The XOR of all bytes: bit k is the parity of the bytes that have it.    *)
XorOf(b) ==
  LET parity(k) == Cardinality({i \in DOMAIN b : Bit(b[i], k) = 1}) % 2
  IN  SumFunction([k \in 0 .. 7 |-> 2 ^ k * parity(k)])

(* A binary value with the sign its hemisphere flag gives it.              *)
Signed(negative, b) == [negative |-> negative, value |-> b]

(* The possible results of a call on the bytes that have arrived: it waits *)
(* for more, returns an error, panics, or has read n bytes, delivers recs  *)
(* and has written the replies.                                            *)
Wait  == [out |-> "wait"]
Fail  == [out |-> "fail"]
Panic == [out |-> "panic"]
Done(n, recs, replies) == [out |-> "done", n |-> n, recs |-> recs, replies |-> replies]
=============================================================================
