------------------------------- MODULE Digest -------------------------------
(***************************************************************************)
(* src/MD5/md5.cc: how class MD5 cuts a message that arrives in pieces of  *)
(* any size into blocks, counts its bits in two words, pads it and appends *)
(* its length.  The transformation of a block is abstract: a block that is *)
(* transformed is appended to `hashed'.                                    *)
(*                                                                         *)
(* Bytes of the message are told apart by their place in it.  The program  *)
(* that uses the object updates it with arrays, files and streams of the   *)
(* sizes in Sizes and FileSizes, and finalizes it; the constructors that   *)
(* take an array, a file or a stream are such a sequence of calls.         *)
(***************************************************************************)
EXTENDS Integers, Sequences

CONSTANTS
  ByteBits,   \* bits of a byte (8)
  Block,      \* bytes of a block (64)
  LenBytes,   \* bytes of the length at the end (8)
  Word,       \* one more than the largest uint4 (2^32)
  Chunk,      \* bytes update() reads from a file or stream at once (1024)
  Sizes,      \* lengths of the arrays the program passes to update()
  FileSizes,  \* lengths of the files and streams
  MaxGiven    \* bound: bytes the program gives in total

(* A word counts whole blocks (2^32 is a multiple of 512), the length      *)
(* leaves room in a block for at least the mark, and no array is so long   *)
(* that `input_index + 63' of the loop (:112) leaves a uint4.              *)
ASSUME DigestAssumption ==
  /\ ByteBits \in Nat \ {0} /\ Block \in Nat \ {0} /\ Word \in Nat \ {0}
  /\ LenBytes \in Nat /\ LenBytes < Block
  /\ Chunk \in Nat \ {0} /\ MaxGiven \in Nat
  /\ Word % (ByteBits * Block) = 0
  /\ Sizes \subseteq Nat /\ FileSizes \subseteq Nat
  /\ \A n \in Sizes \cup {Chunk} : n + Block - 1 < Word

Weight(i) == 2 ^ (ByteBits * i)   \* of digit i of a number, a byte each

(* The length at the end is two words long, in whole bytes.                *)
ASSUME DigitsAssumption ==
  LET half == LenBytes \div 2
  IN  /\ half > 0 /\ LenBytes = half + half
      /\ \A i \in 0 .. LenBytes : Weight(i) \in Nat \ {0}
      /\ \A i \in 0 .. half - 1 :
           /\ Word % (Weight(i) * Weight(1)) = 0
           /\ Weight(half + i) = Word * Weight(i)

VARIABLES
  count,      \* bits given so far: low and high word
  buffer,     \* the input buffer, old bytes included
  hashed,     \* what went through transform(), block after block
  finalized,
  digest,     \* what raw() points to: a copy of the hash at some time
  source,     \* the file or stream the program passed last
  reading,    \* update() is reading from it
  given       \* history: bytes of the message update() accepted

vars == <<count, buffer, hashed, finalized, digest, source, reading, given>>

MessageByte(k) == [of |-> "message", n |-> k]
Mark == [of |-> "padding", n |-> 1]
Zero == [of |-> "padding", n |-> 0]
LengthByte(v) == [of |-> "length", n |-> v]
Junk == [of |-> "junk", n |-> 0]

Bytes ==
  [of : {"message", "padding", "length", "junk"}, n : Nat]

NoSource == [kind |-> "none", left |-> 0, good |-> FALSE, open |-> FALSE]

TypeOK ==
  /\ count \in [{"low", "high"} -> 0 .. Word - 1]
  /\ buffer \in [1 .. Block -> Bytes]
  /\ hashed \in Seq(Bytes)
  /\ finalized \in BOOLEAN
  /\ digest \in Seq(Bytes)
  /\ source \in [kind : {"none", "file", "stream"}, left : Nat,
                 good : BOOLEAN, open : BOOLEAN]
  /\ reading \in BOOLEAN
  /\ given \in Nat

(* The members that update(array) changes, as one value.                   *)
Context == [count |-> count, buffer |-> buffer, hashed |-> hashed]

-----------------------------------------------------------------------------
(* The operators of update(array).                                         *)

(* memcpy(b + at, s, size of s)                                            *)
Copied(b, at, s) ==
  [i \in 1 .. Block |-> IF i > at /\ i <= at + Len(s) THEN s[i - at] ELSE b[i]]

(* `(count[0] >> 3) & 0x3F': the bytes that wait in the buffer.            *)
Index(c) == (c.low \div ByteBits) % Block

\* Wrong variant of Counted: the carry into the high word is forgotten.
Counted_NoCarry(c, len) ==
  [low  |-> (c.low + ByteBits * len) % Word,
   high |-> (c.high + (ByteBits * len) \div Word) % Word]

(* The bits of len bytes are added to the low word; the wrapped sum is     *)
(* less than what was added exactly when it wrapped.  What the shift of    *)
(* len by three loses goes to the high word directly.                      *)
Counted(c, len) ==
  LET bits  == (ByteBits * len) % Word
      low   == (c.low + bits) % Word
      carry == IF low < bits THEN 1 ELSE 0
  IN  [low  |-> low,
       high |-> (c.high + carry + (ByteBits * len) \div Word) % Word]

(* How much of len bytes is transformed when index bytes are waiting: what *)
(* fills the buffer and the whole blocks after it, or nothing.             *)
Taken(index, len) ==
  LET space == Block - index
  IN  IF len >= space THEN len - ((len - space) % Block) ELSE 0

Absorb(m, input) ==
  LET index == Index(m.count)
      space == Block - index
      taken == Taken(index, Len(input))
      full  == Copied(m.buffer, index, SubSeq(input, 1, space))
      rest  == SubSeq(input, taken + 1, Len(input))
  IN  [count  |-> Counted(m.count, Len(input)),
       hashed |-> IF taken > 0
                    THEN m.hashed \o full \o SubSeq(input, space + 1, taken)
                    ELSE m.hashed,
       buffer |-> IF taken > 0 THEN Copied(full, 0, rest)
                                ELSE Copied(m.buffer, index, rest)]

(* The operators of finalize().                                            *)

(* encode(bits, count, 8): each word, low first, low byte first.           *)
Encoded(c) ==
  [i \in 1 .. LenBytes |->
     LET half == LenBytes \div 2
         word == IF i <= half THEN c.low ELSE c.high
     IN  LengthByte((word \div Weight((i - 1) % half)) % Weight(1))]

\* Wrong variant of PadLen: no mark when the length just fits.
PadLen_AtBoundary(index) ==
  LET end == Block - LenBytes
  IN  IF index <= end THEN end - index ELSE Block + end - index

PadLen(index) ==
  LET end == Block - LenBytes
  IN  IF index < end THEN end - index ELSE Block + end - index

Padding(len) == [i \in 1 .. len |-> IF i = 1 THEN Mark ELSE Zero]

Finished(m) ==
  LET bits == Encoded(m.count)
  IN  Absorb(Absorb(m, Padding(PadLen(Index(m.count)))), bits)

-----------------------------------------------------------------------------
(* init(); the buffer and the digest start out with whatever is there.     *)
Init ==
  /\ count = [low |-> 0, high |-> 0]
  /\ buffer = [i \in 1 .. Block |-> Junk]
  /\ hashed = <<>>
  /\ finalized = FALSE
  /\ digest = <<>>
  /\ source = NoSource
  /\ reading = FALSE
  /\ given = 0

(* update() refuses once the digest is final.                              *)
Accept(len) ==
  IF finalized
    THEN UNCHANGED <<count, buffer, hashed, given>>
    ELSE LET input == [i \in 1 .. len |-> MessageByte(given + i)]
             m     == Absorb(Context, input)
         IN  /\ count' = m.count
             /\ buffer' = m.buffer
             /\ hashed' = m.hashed
             /\ given' = given + len

Update ==
  /\ ~reading
  /\ \E len \in Sizes :
       /\ given + len <= MaxGiven
       /\ Accept(len)
  /\ UNCHANGED <<finalized, digest, source, reading>>

(* update() from a file or from a stream begins.                           *)
Open ==
  /\ ~reading
  /\ \E kind \in {"file", "stream"}, n \in FileSizes, good \in BOOLEAN :
       /\ given + n <= MaxGiven
       /\ source' = [kind |-> kind, left |-> n, good |-> good, open |-> TRUE]
  /\ reading' = TRUE
  /\ UNCHANGED <<count, buffer, hashed, finalized, digest, given>>

(* What one read delivers: a whole chunk, what is left at the end, or,     *)
(* when the device fails, any smaller number of bytes.                     *)
Delivered == {n \in 0 .. Chunk : n <= source.left}

(* while (len = fread(...)) update(buffer, len)                            *)
ReadFile ==
  /\ reading /\ source.kind = "file"
  /\ \E len \in Delivered \ {0} :
       /\ Accept(len)
       /\ source' = [source EXCEPT !.left = @ - len]
  /\ UNCHANGED <<finalized, digest, reading>>

(* The loop ends at a read of nothing, and the file is closed.             *)
CloseFile ==
  /\ reading /\ source.kind = "file"
  /\ source' = [source EXCEPT !.open = FALSE]
  /\ reading' = FALSE
  /\ UNCHANGED <<count, buffer, hashed, finalized, digest, given>>

(* while (stream.good()) { read; update(buffer, gcount()) }: a read of     *)
(* less than it asked for, of nothing too, is taken and ends the loop.     *)
ReadStream ==
  /\ reading /\ source.kind = "stream" /\ source.good
  /\ \E len \in Delivered :
       /\ Accept(len)
       /\ source' = [source EXCEPT !.left = @ - len, !.good = len = Chunk]
  /\ UNCHANGED <<finalized, digest, reading>>

(* The loop ends; neither form closes the stream.                          *)
LeaveStream ==
  /\ reading /\ source.kind = "stream" /\ ~source.good
  /\ reading' = FALSE
  /\ UNCHANGED <<count, buffer, hashed, finalized, digest, source, given>>

(* finalize(): pad, append the length that was counted before, keep the    *)
(* state, zero one byte of the buffer: the size is that of an element.     *)
Finalize ==
  /\ ~reading /\ ~finalized
  /\ LET m == Finished(Context)
     IN  /\ count' = m.count
         /\ buffer' = [m.buffer EXCEPT ![1] = Zero]
         /\ hashed' = m.hashed
         /\ digest' = m.hashed
  /\ finalized' = TRUE
  /\ UNCHANGED <<source, reading, given>>

Next ==
  \/ Update
  \/ Open
  \/ ReadFile
  \/ CloseFile
  \/ ReadStream
  \/ LeaveStream
  \/ Finalize

Spec == Init /\ [][Next]_vars

-----------------------------------------------------------------------------
(* The two words together are the bits given, modulo their width, however  *)
(* the message was cut: no carry is lost or counted twice (:97-100).       *)
CountIsLength ==
  ~finalized =>
    (Word * count.high + count.low) % (Word * Word)
      = (ByteBits * given) % (Word * Word)

(* No byte is lost, doubled or out of order on its way through the buffer: *)
(* what was transformed and what waits in the buffer is the message, and   *)
(* less than a block of it waits (update(), :94-123).                      *)
BytesKept ==
  ~finalized =>
    LET waiting == given % Block
    IN  /\ Index(count) = waiting
        /\ Len(hashed) = given - waiting
        /\ \A k \in 1 .. Len(hashed) : hashed[k] = MessageByte(k)
        /\ \A i \in 1 .. waiting : buffer[i] = MessageByte(Len(hashed) + i)

(* Counters, hash and buffer agree with the message after every call.      *)
MessageKept == CountIsLength /\ BytesKept

(* The object hashes the blocks of the message and, in the end, of the     *)
(* padded message, whatever the calls were; a call after that changes      *)
(* nothing.                                                                *)
Abstract == INSTANCE MessageBlocks WITH
  final <- finalized,
  hashed <- IF finalized THEN digest ELSE hashed
ImplementsHashing == Abstract!Spec

(* What md5.h:65 says of the constructor from an ifstream: "digest stream, *)
(* close, finalize".                                                       *)
StreamIsClosed ==
  (finalized /\ ~reading /\ source.kind = "stream") => ~source.open
=============================================================================
