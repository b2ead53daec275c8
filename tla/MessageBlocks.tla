--------------------------- MODULE MessageBlocks ---------------------------
(***************************************************************************)
(* What MD5 promises to hash, without a buffer and without counters: the   *)
(* whole blocks of the message given so far and, in the end, the message   *)
(* with its padding - a mark, as few zeros as possible, and the length in  *)
(* bits, in its low-order digits, that fill the last block.  Bytes of the  *)
(* message are told apart by their place in it.                            *)
(***************************************************************************)
EXTENDS Integers, Sequences

CONSTANTS
  ByteBits,   \* bits of a byte (8)
  Block,      \* bytes of a block (64)
  LenBytes    \* bytes of the length at the end (8)

VARIABLES
  given,      \* bytes of the message given so far
  hashed,     \* what went through the transformation, block after block
  final       \* the digest was asked for

vars == <<given, hashed, final>>

MessageByte(k) == [of |-> "message", n |-> k]
Mark == [of |-> "padding", n |-> 1]
Zero == [of |-> "padding", n |-> 0]
LengthByte(v) == [of |-> "length", n |-> v]

(* Digit i, from 0, of the length in bits of n bytes.                      *)
Weight(i) == 2 ^ (ByteBits * i)
LengthDigit(n, i) == ((ByteBits * n) \div Weight(i)) % Weight(1)

Whole(n) == n - (n % Block)

(* The shortest length with room for mark and length that fills blocks.    *)
PaddedSize(n) ==
  CHOOSE size \in n + 1 + LenBytes .. n + LenBytes + Block : size % Block = 0

Padded(n) ==
  LET size == PaddedSize(n)
  IN  [k \in 1 .. size |->
         IF k <= n THEN MessageByte(k)
         ELSE IF k = n + 1 THEN Mark
         ELSE IF k <= size - LenBytes THEN Zero
         ELSE LengthByte(LengthDigit(n, k - (size - LenBytes) - 1))]

Init ==
  /\ given = 0
  /\ hashed = <<>>
  /\ final = FALSE

Give ==
  /\ ~final
  /\ given' >= given
  /\ hashed' = [k \in 1 .. Whole(given') |-> MessageByte(k)]
  /\ UNCHANGED final

Finish ==
  /\ ~final
  /\ hashed' = Padded(given)
  /\ final' = TRUE
  /\ UNCHANGED given

Next == Give \/ Finish

Spec == Init /\ [][Next]_vars
=============================================================================
