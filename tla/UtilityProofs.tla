---------------------------- MODULE UtilityProofs ----------------------------
(***************************************************************************)
(* Theorems about the utilities that programs call: MD5, the profiler and  *)
(* the lexical functions.                                                  *)
(*                                                                         *)
(* Digest, for every width of bytes and words, every size of blocks and    *)
(* every way to cut the message: the counters are the length of the        *)
(* message, the buffer loses nothing, and the object implements            *)
(* MessageBlocks.  Profiler, for every set of names and every clock: no    *)
(* microsecond is lost.                                                    *)
(*                                                                         *)
(* LexUtils, for all texts, delimiters and lists of words: cutting and     *)
(* joining, and escaping and unescaping, give the text back, and what is   *)
(* taken as a number is the one written there.                             *)
(***************************************************************************)
EXTENDS Digest, LexUtils, SequenceTheorems, WellFoundedInduction, TLAPS

-----------------------------------------------------------------------------
(* Division.                                                               *)

LEMMA MulMono ==
  ASSUME NEW b \in Nat, NEW x \in Int, NEW y \in Int, x <= y
  PROVE  b * x <= b * y
  OBVIOUS

LEMMA DivMod ==
  ASSUME NEW a \in Int, NEW b \in Nat \ {0}
  PROVE  /\ a \div b \in Int /\ a % b \in 0 .. b - 1
         /\ a = b * (a \div b) + (a % b)
         /\ a >= 0 => a \div b >= 0
<1> DEFINE q == a \div b
           r == a % b
<1>1. q \in Int
  OBVIOUS
<1>2. r \in 0 .. b - 1
  OBVIOUS
<1>3. a = b * q + r
  OBVIOUS
<1> HIDE DEF q, r
<1>4. ASSUME a >= 0, q <= -1 PROVE FALSE
  <2>1. b * q <= b * (-1) /\ b * (-1) = -b
    BY <1>1, <1>4, MulMono
  <2>2. b * q \in Int
    BY <1>1
  <2> QED
    BY <1>2, <1>3, <1>4, <2>1, <2>2
<1> QED
  BY <1>1, <1>2, <1>3, <1>4 DEF q, r

(* Quotient and remainder are the only ones there are.                     *)
LEMMA DivUnique ==
  ASSUME NEW a \in Int, NEW b \in Nat \ {0}, NEW q \in Int,
         NEW r \in 0 .. b - 1, a = b * q + r
  PROVE  a \div b = q /\ a % b = r
<1> DEFINE p == a \div b
           s == a % b
<1>1. p \in Int /\ s \in 0 .. b - 1 /\ a = b * p + s
  BY DivMod
<1> HIDE DEF p, s
<1>2. CASE p >= q + 1
  <2>1. b * (q + 1) <= b * p
    BY <1>1, <1>2, MulMono
  <2>2. b * (q + 1) = b * q + b
    OBVIOUS
  <2> QED
    BY <1>1, <2>1, <2>2
<1>3. CASE q >= p + 1
  <2>1. b * (p + 1) <= b * q
    BY <1>1, <1>3, MulMono
  <2>2. b * (p + 1) = b * p + b
    BY <1>1
  <2> QED
    BY <1>1, <2>1, <2>2
<1>4. p = q
  BY <1>1, <1>2, <1>3
<1>5. s = r
  BY <1>1, <1>4
<1> QED
  BY <1>4, <1>5 DEF p, s

(* A multiple of the divisor does not change the remainder.                *)
LEMMA ModShift ==
  ASSUME NEW a \in Int, NEW b \in Nat \ {0}, NEW k \in Int
  PROVE  (a + b * k) % b = a % b /\ (a + b * k) \div b = a \div b + k
<1> DEFINE q == a \div b
           r == a % b
<1>1. q \in Int /\ r \in 0 .. b - 1 /\ a = b * q + r
  BY DivMod
<1> HIDE DEF q, r
<1>2. a + b * k = b * (q + k) + r
  BY <1>1
<1>3. a + b * k \in Int /\ q + k \in Int
  BY <1>1
<1>4. (a + b * k) \div b = q + k /\ (a + b * k) % b = r
  BY <1>1, <1>2, <1>3, DivUnique
<1> QED
  BY <1>4 DEF q, r

LEMMA DivDiv ==
  ASSUME NEW a \in Int, NEW b \in Nat \ {0}, NEW c \in Nat \ {0}
  PROVE  a \div (b * c) = (a \div b) \div c
<1> DEFINE q == a \div b
           r == a % b
           p == q \div c
           s == q % c
<1>1. q \in Int /\ r \in 0 .. b - 1 /\ a = b * q + r
  BY DivMod
<1> HIDE DEF q, r
<1>2. p \in Int /\ s \in 0 .. c - 1 /\ q = c * p + s
  BY <1>1, DivMod
<1> HIDE DEF p, s
<1>3. a = (b * c) * p + (b * s + r)
  BY <1>1, <1>2
<1>4. b * s + r \in 0 .. b * c - 1
  <2>1. b * s <= b * (c - 1) /\ 0 <= b * s
    BY <1>2, MulMono
  <2>2. b * (c - 1) = b * c - b
    OBVIOUS
  <2>3. b * c \in Int /\ b * s \in Int
    BY <1>2
  <2> QED
    BY <1>1, <2>1, <2>2, <2>3
<1>5. b * c \in Nat \ {0}
  BY MulMono
<1>6. a \div (b * c) = p
  BY <1>2, <1>3, <1>4, <1>5, DivUnique
<1> QED
  BY <1>6 DEF p, q

-----------------------------------------------------------------------------
(* The counters.                                                           *)

Counter == [low : 0 .. Word - 1, high : 0 .. Word - 1]

(* The words hold the bits of n bytes, but for what they cannot hold.      *)
Counts(c, n) ==
  \E j \in Int : ByteBits * n = Word * c.high + c.low + (Word * Word) * j

LEMMA CountedCounts ==
  ASSUME NEW c \in Counter, NEW n \in Nat, NEW len \in Nat, Counts(c, n)
  PROVE  Counted(c, len) \in Counter /\ Counts(Counted(c, len), n + len)
<1> DEFINE x     == ByteBits * n
           y     == ByteBits * len
           q     == y \div Word
           bits  == y % Word
           low   == (c.low + bits) % Word
           carry == IF low < bits THEN 1 ELSE 0
           t     == c.high + carry + q
           p     == t \div Word
           high  == t % Word
<1>1. Word \in Nat \ {0} /\ ByteBits \in Nat
  BY DigestAssumption
<1>2. x \in Nat /\ y \in Nat /\ ByteBits * (n + len) = x + y
  BY <1>1
<1>3. PICK j \in Int : x = Word * c.high + c.low + (Word * Word) * j
  BY DEF Counts
<1>4. c.low \in 0 .. Word - 1 /\ c.high \in 0 .. Word - 1
  BY DEF Counter
<1>5. Counted(c, len) = [low |-> low, high |-> high]
  BY DEF Counted
<1> HIDE DEF x, y
<1>6. q \in Nat /\ bits \in 0 .. Word - 1 /\ y = Word * q + bits
  <2>1. y \in Int /\ y >= 0
    BY <1>2
  <2>2. /\ q \in Int /\ bits \in 0 .. Word - 1 /\ y = Word * q + bits
        /\ y >= 0 => q >= 0
    BY <1>1, <2>1, DivMod, Zenon
  <2> QED
    BY <2>1, <2>2
<1> HIDE DEF q, bits
<1>7. low \in 0 .. Word - 1 /\ carry \in 0 .. 1 /\ c.low + bits = Word * carry + low
  <2>1. CASE c.low + bits < Word
    <3>1. c.low + bits = Word * 0 + (c.low + bits) /\ c.low + bits \in 0 .. Word - 1
      BY <1>1, <1>4, <1>6, <2>1
    <3>2. low = c.low + bits
      BY <1>1, <3>1, DivUnique
    <3> QED
      BY <1>1, <1>4, <1>6, <2>1, <3>2
  <2>2. CASE c.low + bits >= Word
    <3>1. /\ c.low + bits = Word * 1 + (c.low + bits - Word)
          /\ c.low + bits - Word \in 0 .. Word - 1
          /\ c.low + bits \in Int /\ 1 \in Int
      BY <1>1, <1>4, <1>6, <2>2
    <3>2. low = c.low + bits - Word
      BY <1>1, <3>1, DivUnique, Zenon
    <3> QED
      BY <1>1, <1>4, <1>6, <2>2, <3>2
  <2> QED
    BY <1>1, <1>4, <1>6, <2>1, <2>2
<1> HIDE DEF low, carry
<1>8. t \in Nat
  BY <1>4, <1>6, <1>7
<1>9. t = c.high + carry + q
  OBVIOUS
<1> HIDE DEF t
<1>10. p \in Int /\ high \in 0 .. Word - 1 /\ t = Word * p + high
  BY <1>1, <1>8, DivMod
<1> HIDE DEF p, high
<1>11. x + y = Word * t + low + (Word * Word) * j
  <2>1. Word * t = Word * c.high + Word * carry + Word * q
    BY <1>1, <1>4, <1>6, <1>7, <1>9
  <2>2. /\ Word * c.high \in Int /\ Word * carry \in Int
        /\ Word * q \in Int /\ (Word * Word) * j \in Int
    BY <1>1, <1>4, <1>6, <1>7
  <2>3. x + y = (Word * c.high + c.low + (Word * Word) * j) + (Word * q + bits)
    BY <1>3, <1>6
  <2> HIDE <1>3
  <2> QED
    BY <1>4, <1>6, <1>7, <2>1, <2>2, <2>3
<1>12. Word * t = (Word * Word) * p + Word * high
  BY <1>1, <1>10
<1>13. (Word * Word) * (j + p) = (Word * Word) * j + (Word * Word) * p
  BY <1>1, <1>10
<1>14. /\ (Word * Word) * j \in Int /\ (Word * Word) * p \in Int
       /\ Word * high \in Int /\ j + p \in Int
  BY <1>1, <1>10
<1>15. x + y = Word * high + low + (Word * Word) * (j + p)
  BY <1>7, <1>11, <1>12, <1>13, <1>14
<1>16. Counts([low |-> low, high |-> high], n + len)
  BY <1>2, <1>14, <1>15 DEF Counts
<1> QED
  BY <1>5, <1>7, <1>10, <1>16 DEF Counter

(* The low word wraps after whole blocks, so it knows what waits.          *)
LEMMA IndexIsRest ==
  ASSUME NEW c \in Counter, NEW n \in Nat, Counts(c, n)
  PROVE  Index(c) = n % Block
<1> DEFINE z == Word \div (ByteBits * Block)
<1>1. /\ Word \in Nat \ {0} /\ ByteBits \in Nat \ {0} /\ Block \in Nat \ {0}
      /\ Word % (ByteBits * Block) = 0
  BY DigestAssumption
<1>2. ByteBits * Block \in Nat \ {0}
  BY <1>1, MulMono
<1>3. z \in Int /\ Word = (ByteBits * Block) * z
  <2>1. Word \in Int
    BY <1>1
  <2>2. z \in Int /\ Word = (ByteBits * Block) * z + (Word % (ByteBits * Block))
    BY <1>2, <2>1, DivMod, Zenon
  <2>3. (ByteBits * Block) * z \in Int
    BY <1>2, <2>2
  <2> QED
    BY <1>1, <2>2, <2>3
<1> HIDE DEF z
<1>4. PICK j \in Int : ByteBits * n = Word * c.high + c.low + (Word * Word) * j
  BY DEF Counts
<1>5. c.low \in 0 .. Word - 1 /\ c.high \in 0 .. Word - 1
  BY DEF Counter
<1> DEFINE e == c.high + Word * j
           w == z * e
<1>6. e \in Int
  BY <1>1, <1>5
<1>7. ByteBits * n = Word * e + c.low
  BY <1>1, <1>4, <1>5
<1> HIDE DEF e
<1>8. w \in Int
  BY <1>3, <1>6
<1>9. Word * e = (ByteBits * Block) * w
  BY <1>1, <1>3, <1>6
<1> HIDE DEF w
<1>10. (ByteBits * Block) * w = ByteBits * (Block * w)
  BY <1>1, <1>8
<1>11. Block * w \in Int /\ n - Block * w \in Int
  BY <1>1, <1>8
<1>12. ByteBits * (n - Block * w) = ByteBits * n - ByteBits * (Block * w)
  BY <1>1, <1>11
<1>13. ByteBits * n \in Int /\ ByteBits * (Block * w) \in Int
  BY <1>1, <1>11
<1>14. c.low = ByteBits * (n - Block * w) + 0
  BY <1>5, <1>7, <1>9, <1>10, <1>12, <1>13
<1>15. c.low \div ByteBits = n - Block * w
  BY <1>1, <1>5, <1>11, <1>14, DivUnique
<1>16. n - Block * w = n + Block * (-w) /\ -w \in Int
  BY <1>1, <1>8
<1>17. n \in Int
  OBVIOUS
<1>18. (n + Block * (-w)) % Block = n % Block
  BY <1>1, <1>16, <1>17, ModShift, Zenon
<1> QED
  BY <1>15, <1>16, <1>18, Zenon DEF Index

LEMMA CountsModulo ==
  ASSUME NEW c \in Counter, NEW n \in Nat, Counts(c, n)
  PROVE  (Word * c.high + c.low) % (Word * Word) = (ByteBits * n) % (Word * Word)
<1>1. Word * Word \in Nat \ {0}
  BY DigestAssumption, MulMono
<1>2. Word * c.high + c.low \in Int
  BY DigestAssumption DEF Counter
<1>3. PICK j \in Int : ByteBits * n = Word * c.high + c.low + (Word * Word) * j
  BY DEF Counts
<1> DEFINE v == Word * c.high + c.low
           ww == Word * Word
<1>4. ByteBits * n = v + ww * j
  BY <1>3
<1>5. (v + ww * j) % ww = v % ww
  BY <1>1, <1>2, <1>3, ModShift, Zenon
<1> QED
  BY <1>4, <1>5

-----------------------------------------------------------------------------
(* The buffer.  S is a stream of bytes; the context m has taken n of them: *)
(* whole blocks are hashed, the rest waits at the start of the buffer.     *)

Kept(m, S, n) ==
  LET rest == n % Block
  IN  /\ m.count \in Counter /\ Counts(m.count, n)
      /\ m.hashed \in Seq(Bytes) /\ Len(m.hashed) = n - rest
      /\ \A k \in 1 .. n - rest : m.hashed[k] = S[k]
      /\ m.buffer \in [1 .. Block -> Bytes]
      /\ \A i \in 1 .. rest : m.buffer[i] = S[(n - rest) + i]

LEMMA CopiedType ==
  ASSUME NEW b \in [1 .. Block -> Bytes], NEW at \in Nat, NEW s \in Seq(Bytes)
  PROVE  Copied(b, at, s) \in [1 .. Block -> Bytes]
<1>1. Block \in Nat
  BY DigestAssumption
<1>2. \A i \in 1 .. Block : (i > at /\ i <= at + Len(s)) => s[i - at] \in Bytes
  BY <1>1
<1> QED
  BY <1>1, <1>2 DEF Copied

LEMMA ConcatAt ==
  ASSUME NEW s \in Seq(Bytes), NEW t \in Seq(Bytes)
  PROVE  /\ s \o t \in Seq(Bytes) /\ Len(s \o t) = Len(s) + Len(t)
         /\ \A k \in 1 .. Len(s) + Len(t) :
              (s \o t)[k] = IF k <= Len(s) THEN s[k] ELSE t[k - Len(s)]
  OBVIOUS

LEMMA SliceType ==
  ASSUME NEW s \in Seq(Bytes), NEW a \in Nat, NEW b \in Nat,
         1 <= a, b <= Len(s), a <= b + 1
  PROVE  /\ SubSeq(s, a, b) \in Seq(Bytes)
         /\ Len(SubSeq(s, a, b)) = b - a + 1
         /\ \A i \in 1 .. b - a + 1 : SubSeq(s, a, b)[i] = s[a + i - 1]
  OBVIOUS

LEMMA AbsorbKeeps ==
  ASSUME NEW m, NEW S \in [Nat -> Bytes], NEW n \in Nat,
         NEW bytes \in Seq(Bytes), Kept(m, S, n),
         \A i \in 1 .. Len(bytes) : bytes[i] = S[n + i]
  PROVE  Kept(Absorb(m, bytes), S, n + Len(bytes))
<1> DEFINE len   == Len(bytes)
           rest  == n % Block
           space == Block - rest
           more  == (n + len) % Block
           M     == Absorb(m, bytes)
<1>1. Block \in Nat \ {0} /\ len \in Nat
  BY DigestAssumption
<1>2. n \in Int /\ n + len \in Int
  BY <1>1
<1>3. /\ rest \in 0 .. Block - 1 /\ rest \in Nat
      /\ more \in 0 .. Block - 1
  BY <1>1, <1>2, DivMod
<1>4. Index(m.count) = rest
  BY IndexIsRest DEF Kept
<1>5. M.count \in Counter /\ Counts(M.count, n + len)
  <2>1. M.count = Counted(m.count, len)
    BY DEF Absorb
  <2> QED
    BY <1>1, <2>1, CountedCounts DEF Kept
<1> DEFINE H == m.hashed
           B == m.buffer
<1>6. /\ H \in Seq(Bytes) /\ Len(H) = n - rest
      /\ \A k \in 1 .. n - rest : H[k] = S[k]
      /\ B \in [1 .. Block -> Bytes]
      /\ \A i \in 1 .. rest : B[i] = S[(n - rest) + i]
  BY DEF Kept
<1> HIDE DEF H, B
<1>7. CASE len < space
  <2>1. n + len = n - rest + (rest + len)
    BY <1>1, <1>3
  <2>2. more = rest + len
    <3> DEFINE q == n \div Block
    <3>1. q \in Int /\ n = Block * q + rest
      BY <1>1, <1>2, DivMod, Zenon
    <3> HIDE DEF q
    <3>2. Block * q \in Int
      BY <1>1, <3>1
    <3>3. n + len = Block * q + (rest + len) /\ rest + len \in 0 .. Block - 1
      BY <1>1, <1>3, <1>7, <3>1, <3>2
    <3> HIDE DEF len, rest
    <3> QED
      BY <1>1, <1>2, <3>1, <3>3, DivUnique, Zenon
  <2> HIDE DEF more, rest
  <2>3. Taken(rest, len) = 0
    BY <1>1, <1>3, <1>7 DEF Taken
  <2>4. SubSeq(bytes, 0 + 1, len) = bytes
    OBVIOUS
  <2>5. M.hashed = H /\ M.buffer = Copied(B, rest, bytes)
    <3> DEFINE t == Taken(rest, len)
    <3>1. ~(t > 0) /\ SubSeq(bytes, t + 1, len) = bytes
      BY <2>3, <2>4
    <3>2. /\ M.hashed = IF t > 0
                          THEN H \o Copied(B, rest, SubSeq(bytes, 1, Block - rest))
                                 \o SubSeq(bytes, (Block - rest) + 1, t)
                          ELSE H
          /\ M.buffer = IF t > 0
                          THEN Copied(Copied(B, rest, SubSeq(bytes, 1, Block - rest)),
                                      0, SubSeq(bytes, t + 1, len))
                          ELSE Copied(B, rest, SubSeq(bytes, t + 1, len))
      BY <1>4 DEF Absorb, H, B
    <3> HIDE DEF t, M
    <3> QED
      BY <3>1, <3>2, Zenon
  <2> HIDE DEF M
  <2>6. M.buffer \in [1 .. Block -> Bytes]
    <3>1. Copied(B, rest, bytes) \in [1 .. Block -> Bytes]
      BY <1>3, <1>6, CopiedType
    <3> QED
      BY <2>5, <3>1
  <2>7. ASSUME NEW i \in 1 .. more PROVE M.buffer[i] = S[(n - rest) + i]
    <3>1. i \in 1 .. Block
      BY <1>1, <1>3
    <3>2. M.buffer[i] = IF i > rest /\ i <= rest + len THEN bytes[i - rest] ELSE B[i]
      <4>1. /\ (i > rest /\ i <= rest + len)
                 => Copied(B, rest, bytes)[i] = bytes[i - rest]
            /\ ~(i > rest /\ i <= rest + len)
                 => Copied(B, rest, bytes)[i] = B[i]
        BY <1>3, <3>1 DEF Copied
      <4> QED
        BY <2>5, <4>1
    <3>3. CASE i <= rest
      BY <1>3, <1>6, <3>2, <3>3
    <3>4. CASE i > rest
      <4>1. i - rest \in 1 .. len /\ n + (i - rest) = (n - rest) + i
        BY <1>1, <1>3, <2>2, <3>4
      <4> QED
        BY <2>2, <3>2, <3>4, <4>1
    <3> QED
      BY <1>3, <3>3, <3>4
  <2>8. (n + len) - more = n - rest
    BY <1>1, <1>3, <2>2
  <2>9. \A i \in 1 .. more : M.buffer[i] = S[((n + len) - more) + i]
    BY <2>7, <2>8
  <2> QED
    BY <1>5, <1>6, <2>5, <2>6, <2>8, <2>9 DEF Kept, M, more
<1>8. CASE len >= space
  <2> DEFINE over  == (len - space) % Block
             taken == len - over
             full  == Copied(B, rest, SubSeq(bytes, 1, space))
             pass  == SubSeq(bytes, space + 1, taken)
             tail  == SubSeq(bytes, taken + 1, len)
  <2>1. len - space \in Nat /\ space \in 1 .. Block
    BY <1>1, <1>3, <1>8
  <2>2. PICK q \in Nat : len - space = Block * q + over /\ over \in 0 .. Block - 1
    <3> DEFINE d == len - space
               p == d \div Block
    <3>1. d \in Int /\ d >= 0
      BY <2>1
    <3> HIDE DEF d
    <3>2. /\ p \in Int /\ d % Block \in 0 .. Block - 1 /\ d = Block * p + (d % Block)
          /\ d >= 0 => p >= 0
      BY <1>1, <3>1, DivMod, Zenon
    <3> HIDE DEF p
    <3>3. p \in Nat /\ d = Block * p + (d % Block) /\ d % Block \in 0 .. Block - 1
      BY <3>1, <3>2
    <3> QED
      BY <3>3, Zenon DEF d
  <2>3. more = over
    <3> DEFINE p == n \div Block
    <3>1. p \in Int /\ n = Block * p + rest
      BY <1>1, <1>2, DivMod, Zenon
    <3> HIDE DEF p
    <3>2. /\ Block * p \in Int /\ Block * q \in Int /\ p + 1 + q \in Int
          /\ Block * (p + 1 + q) = Block * p + Block + Block * q
      BY <1>1, <3>1
    <3>3. n + len = Block * (p + 1 + q) + over
      <4> HIDE DEF over, len, rest
      <4>1. n + len = n + (space + (Block * q + over))
        BY <1>1, <1>2, <1>3, <2>2, <3>2
      <4> QED
        BY <1>1, <1>3, <2>2, <3>1, <3>2, <4>1
    <3> HIDE DEF over, len
    <3> QED
      BY <1>1, <1>2, <2>2, <3>2, <3>3, DivUnique, Zenon
  <2>4. taken \in space .. len
    <3>1. Block * q >= 0 /\ Block * q \in Int
      BY <1>1, <2>2, MulMono
    <3> DEFINE bq == Block * q
    <3>2. /\ len \in Nat /\ space \in Nat /\ over \in Nat
          /\ len - space = bq + over /\ bq \in Int /\ bq >= 0
      BY <1>1, <2>1, <2>2, <3>1
    <3> HIDE DEF bq, over, len, space
    <3> QED
      BY <3>2
  <2>5. Taken(rest, len) = taken /\ taken > 0
    BY <1>8, <2>1, <2>4 DEF Taken
  <2> HIDE DEF over
  <2>6. M.hashed = H \o full \o pass /\ M.buffer = Copied(full, 0, tail)
    BY <1>4, <2>5 DEF Absorb, H, B
  <2> HIDE DEF M, more
  <2>7. /\ SubSeq(bytes, 1, space) \in Seq(Bytes)
        /\ Len(SubSeq(bytes, 1, space)) = space
        /\ \A i \in 1 .. space : SubSeq(bytes, 1, space)[i] = bytes[i]
    <3>1. /\ 1 \in Nat /\ space \in Nat /\ space <= len
      BY <1>8, <2>1
    <3> QED
      BY <3>1, SliceType
  <2>8. /\ pass \in Seq(Bytes) /\ Len(pass) = taken - space
        /\ \A i \in 1 .. taken - space : pass[i] = bytes[space + i]
    BY <1>1, <2>1, <2>4, SliceType
  <2>9. /\ tail \in Seq(Bytes) /\ Len(tail) = over
        /\ \A i \in 1 .. over : tail[i] = bytes[taken + i]
    BY <1>1, <2>1, <2>2, <2>4, SliceType
  <2>10. full \in [1 .. Block -> Bytes]
    BY <1>3, <1>6, <2>7, CopiedType, Zenon
  <2>11. ASSUME NEW i \in 1 .. Block PROVE full[i] = S[(n - rest) + i]
    <3> DEFINE head == SubSeq(bytes, 1, space)
    <3>0. full[i] = IF i > rest /\ i <= rest + Len(head) THEN head[i - rest] ELSE B[i]
      <4>1. rest \in Nat
        BY <1>3
      <4> HIDE DEF head, rest
      <4>2. /\ (i > rest /\ i <= rest + Len(head))
                 => Copied(B, rest, head)[i] = head[i - rest]
            /\ ~(i > rest /\ i <= rest + Len(head))
                 => Copied(B, rest, head)[i] = B[i]
        BY <4>1 DEF Copied
      <4>3. full = Copied(B, rest, head)
        BY DEF head
      <4> HIDE DEF full
      <4> QED
        BY <4>2, <4>3, Zenon
    <3>1. full[i] = IF i > rest /\ i <= rest + space THEN head[i - rest] ELSE B[i]
      BY <2>7, <3>0, Zenon
    <3>2. CASE i <= rest
      BY <1>3, <1>6, <3>1, <3>2
    <3>3. CASE i > rest
      <4>1. /\ i - rest \in 1 .. space /\ i <= rest + space
            /\ i - rest \in 1 .. len /\ n + (i - rest) = (n - rest) + i
        BY <1>1, <1>3, <1>8, <3>3
      <4> HIDE DEF full
      <4> QED
        BY <2>7, <3>1, <3>3, <4>1
    <3> QED
      BY <1>3, <3>2, <3>3
  <2> HIDE DEF full, pass, tail
  <2>12. full \in Seq(Bytes) /\ Len(full) = Block
    BY <1>1, <2>10
  <2>13. /\ M.hashed \in Seq(Bytes)
         /\ Len(M.hashed) = (n - rest) + Block + (taken - space)
         /\ \A k \in 1 .. (n - rest) + Block + (taken - space) :
              M.hashed[k] = IF k <= n - rest THEN H[k]
                            ELSE IF k <= (n - rest) + Block THEN full[k - (n - rest)]
                            ELSE pass[k - (n - rest) - Block]
    <3> DEFINE h == n - rest
               t == taken - space
    <3>1. h \in Nat /\ t \in Nat
      BY <1>1, <1>2, <1>6, <2>1, <2>4
    <3>2. Len(H) = h /\ Len(pass) = t
      BY <1>6, <2>8
    <3> HIDE DEF h, t
    <3>3. /\ (H \o full) \in Seq(Bytes) /\ Len(H \o full) = h + Block
          /\ \A k \in 1 .. h + Block :
               (H \o full)[k] = IF k <= h THEN H[k] ELSE full[k - h]
      BY <1>6, <2>12, <3>2, ConcatAt, Zenon
    <3> DEFINE HF == H \o full
    <3> HIDE DEF HF
    <3>4. /\ (HF \o pass) \in Seq(Bytes) /\ Len(HF \o pass) = h + Block + t
          /\ \A k \in 1 .. h + Block + t :
               (HF \o pass)[k] = IF k <= h + Block THEN HF[k] ELSE pass[k - (h + Block)]
      <4>1. HF \in Seq(Bytes) /\ Len(HF) = h + Block
        BY <3>3 DEF HF
      <4> QED
        <5> DEFINE HP == HF \o pass
        <5>1. /\ HP \in Seq(Bytes) /\ Len(HP) = Len(HF) + Len(pass)
              /\ \A k \in 1 .. Len(HF) + Len(pass) :
                   HP[k] = IF k <= Len(HF) THEN HF[k] ELSE pass[k - Len(HF)]
          BY <2>8, <4>1, ConcatAt, Zenon
        <5> HIDE DEF HP, HF
        <5>2. /\ HP \in Seq(Bytes) /\ Len(HP) = h + Block + t
              /\ \A k \in 1 .. h + Block + t :
                   HP[k] = IF k <= h + Block THEN HF[k] ELSE pass[k - (h + Block)]
          BY <3>2, <4>1, <5>1
        <5> QED
          BY <5>2 DEF HP
    <3>5. \A k \in 1 .. h + Block + t :
             (HF \o pass)[k] = IF k <= h THEN H[k]
                               ELSE IF k <= h + Block THEN full[k - h]
                               ELSE pass[k - h - Block]
      <4> TAKE k \in 1 .. h + Block + t
      <4>1. k <= h + Block => k \in 1 .. h + Block
        BY <1>1, <3>1
      <4>2. k - (h + Block) = k - h - Block
        BY <1>1, <3>1
      <4>3. k <= h + Block => HF[k] = IF k <= h THEN H[k] ELSE full[k - h]
        BY <3>3, <4>1 DEF HF
      <4>4. k <= h => k <= h + Block
        BY <1>1, <3>1
      <4> QED
        BY <3>4, <4>2, <4>3, <4>4, Zenon
    <3> QED
      BY <2>6, <3>4, <3>5, Zenon DEF h, t, HF
  <2>14. (n - rest) + Block + (taken - space) = (n + len) - more
    BY <1>1, <1>3, <2>2, <2>3
  <2>15. ASSUME NEW k \in 1 .. (n + len) - more PROVE M.hashed[k] = S[k]
    <3>1. CASE k <= n - rest
      BY <1>6, <2>13, <2>14, <3>1
    <3>2. CASE k > n - rest /\ k <= (n - rest) + Block
      <4>1. k - (n - rest) \in 1 .. Block /\ (n - rest) + (k - (n - rest)) = k
        BY <1>1, <1>3, <3>2
      <4>2. M.hashed[k] = full[k - (n - rest)]
        <5>1. ~(k <= n - rest)
          BY <1>1, <1>3, <3>2
        <5> QED
          BY <2>13, <2>14, <3>2, <5>1, Zenon
      <4> QED
        BY <2>11, <4>1, <4>2, Zenon
    <3>3. CASE k > (n - rest) + Block
      <4> DEFINE i == k - (n - rest) - Block
      <4>1. i \in 1 .. taken - space
        BY <1>1, <1>3, <2>4, <2>14, <3>3
      <4>2. space + i \in 1 .. len /\ n + (space + i) = k
        BY <1>1, <1>3, <2>1, <2>4, <4>1
      <4>3. M.hashed[k] = pass[i]
        <5>1. ~(k <= n - rest) /\ ~(k <= (n - rest) + Block)
          BY <1>1, <1>3, <3>3
        <5> QED
          BY <2>13, <2>14, <3>3, <5>1, Zenon
      <4> HIDE DEF i
      <4> QED
        BY <2>8, <4>1, <4>2, <4>3
    <3> QED
      BY <1>1, <1>3, <3>1, <3>2, <3>3
  <2>16. 0 \in Nat /\ M.buffer \in [1 .. Block -> Bytes]
    <3>1. 0 \in Nat
      OBVIOUS
    <3> QED
      <4>1. Copied(full, 0, tail) \in [1 .. Block -> Bytes]
        BY <2>9, <2>10, <3>1, CopiedType
      <4> QED
        BY <2>6, <3>1, <4>1
  <2>17. ASSUME NEW i \in 1 .. more PROVE M.buffer[i] = S[((n + len) - more) + i]
    <3>1. i \in 1 .. Block /\ i > 0 /\ i <= 0 + over
      BY <1>1, <1>3, <2>3
    <3>2. M.buffer[i] = tail[i - 0]
      <4>1. (i > 0 /\ i <= 0 + Len(tail)) => Copied(full, 0, tail)[i] = tail[i - 0]
        BY <3>1 DEF Copied
      <4> QED
        BY <2>6, <2>9, <3>1, <4>1
    <3>3. taken + i \in 1 .. len /\ n + (taken + i) = ((n + len) - more) + i
      BY <1>1, <1>3, <2>1, <2>2, <2>3, <2>4
    <3> QED
      BY <2>3, <2>9, <3>2, <3>3
  <2> QED
    BY <1>5, <2>13, <2>14, <2>15, <2>16, <2>17 DEF Kept, M, more
<1> QED
  BY <1>1, <1>3, <1>7, <1>8

-----------------------------------------------------------------------------
(* The length.                                                             *)

LEMMA WeightIs ==
  ASSUME NEW i
  PROVE  Abstract!Weight(i) = Weight(i)
  BY DEF Abstract!Weight, Weight

(* A digit of the low word is a digit of the length: what the high word    *)
(* and the lost multiples of both words add is a multiple of its successor *)
(* digit's weight.                                                         *)
LEMMA LowDigit ==
  ASSUME NEW x \in Nat, NEW low \in Nat, NEW e \in Int, x = low + Word * e,
         NEW w \in Nat \ {0}, NEW b \in Nat \ {0}, Word % (w * b) = 0
  PROVE  (x \div w) % b = (low \div w) % b
<1> DEFINE z == Word \div (w * b)
           f == z * e
<1>1. w * b \in Nat \ {0}
  BY MulMono
<1>2. Word \in Nat \ {0} /\ Word \in Int
  BY DigestAssumption
<1>3. z \in Int /\ Word = (w * b) * z
  <2>1. z \in Int /\ Word = (w * b) * z + (Word % (w * b))
    BY <1>1, <1>2, DivMod, Zenon
  <2>2. (w * b) * z \in Int
    BY <1>1, <2>1
  <2> QED
    BY <2>1, <2>2
<1> HIDE DEF z
<1>4. f \in Int /\ b * f \in Int
  BY <1>3
<1>5. Word * e = w * (b * f)
  BY <1>3
<1> HIDE DEF f
<1>6. x = low + w * (b * f) /\ low \in Int
  BY <1>5
<1>7. (low + w * (b * f)) \div w = (low \div w) + b * f
  BY <1>4, <1>6, ModShift
<1> DEFINE d == low \div w
<1>8. d \in Int
  BY <1>6, DivMod
<1> HIDE DEF d
<1>9. (d + b * f) % b = d % b
  BY <1>4, <1>8, ModShift
<1>10. x \div w = d + b * f
  BY <1>6, <1>7 DEF d
<1> QED
  BY <1>9, <1>10 DEF d

LEMMA EncodedIsLength ==
  ASSUME NEW c \in Counter, NEW n \in Nat, Counts(c, n)
  PROVE  /\ Len(Encoded(c)) = LenBytes /\ Encoded(c) \in Seq(Bytes)
         /\ \A i \in 1 .. LenBytes :
              Encoded(c)[i] = LengthByte(Abstract!LengthDigit(n, i - 1))
<1> DEFINE half == LenBytes \div 2
           x    == ByteBits * n
<1>1. /\ Word \in Nat \ {0} /\ ByteBits \in Nat /\ LenBytes \in Nat
      /\ LenBytes = half + half /\ half > 0
  BY DigestAssumption, DigitsAssumption
<1>2. half \in Nat
  BY <1>1
<1>3. /\ \A i \in 0 .. LenBytes : Weight(i) \in Nat \ {0}
      /\ \A i \in 0 .. half - 1 : /\ Word % (Weight(i) * Weight(1)) = 0
                                  /\ Weight(half + i) = Word * Weight(i)
  BY DigitsAssumption
<1>4. c.low \in 0 .. Word - 1 /\ c.high \in 0 .. Word - 1
  BY DEF Counter
<1>5. x \in Nat
  BY <1>1
<1>6. PICK j \in Int : x = Word * c.high + c.low + (Word * Word) * j
  BY DEF Counts
<1>7. \A i \in 1 .. LenBytes :
        Encoded(c)[i] = LengthByte(((IF i <= half THEN c.low ELSE c.high)
                          \div Weight((i - 1) % half)) % Weight(1))
  BY DEF Encoded
<1> HIDE DEF half, x
<1>8. Weight(1) \in Nat \ {0}
  BY <1>1, <1>2, <1>3
<1>9. ASSUME NEW i \in 1 .. LenBytes
      PROVE  Encoded(c)[i] = LengthByte((x \div Weight(i - 1)) % Weight(1))
  <2>1. CASE i <= half
    <3>1. i - 1 \in 0 .. half - 1 /\ i - 1 \in 0 .. LenBytes
      BY <1>1, <1>2, <2>1
    <3>2. i - 1 = half * 0 + (i - 1) /\ i - 1 \in Int /\ half \in Nat \ {0} /\ 0 \in Int
      BY <1>1, <1>2, <3>1
    <3>3. (i - 1) % half = i - 1
      BY <3>1, <3>2, DivUnique, Zenon
    <3> DEFINE e == c.high + Word * j
    <3>4. e \in Int
      BY <1>1, <1>4
    <3>5. x = c.low + Word * e
      BY <1>1, <1>4, <1>6
    <3> HIDE DEF e
    <3>6. (x \div Weight(i - 1)) % Weight(1) = (c.low \div Weight(i - 1)) % Weight(1)
      BY <1>3, <1>4, <1>5, <1>8, <3>1, <3>4, <3>5, LowDigit
    <3> QED
      BY <1>7, <2>1, <3>3, <3>6, Zenon
  <2>2. CASE i > half
    <3> DEFINE k == i - 1 - half
    <3>1. k \in 0 .. half - 1 /\ k \in 0 .. LenBytes /\ half + k = i - 1
      BY <1>1, <1>2, <2>2
    <3>2. i - 1 = half * 1 + k /\ i - 1 \in Int /\ half \in Nat \ {0} /\ 1 \in Int
      BY <1>1, <1>2, <3>1
    <3> HIDE DEF k
    <3>3. (i - 1) % half = k
      BY <3>1, <3>2, DivUnique, Zenon
    <3> DEFINE y == c.high + Word * j
    <3>4. y \in Int
      BY <1>1, <1>4
    <3>5. x = Word * y + c.low
      BY <1>1, <1>4, <1>6
    <3> HIDE DEF y
    <3>6. x \div Word = y
      <4>1. x \in Int
        BY <1>5
      <4> QED
        BY <1>1, <1>4, <3>4, <3>5, <4>1, DivUnique, Zenon
    <3>7. y \in Nat
      <4>1. x \in Int /\ x >= 0
        BY <1>5
      <4>2. x >= 0 => x \div Word >= 0
        BY <1>1, <4>1, DivMod, Zenon
      <4> QED
        BY <3>4, <3>6, <4>1, <4>2
    <3>8. x \div Weight(i - 1) = y \div Weight(k)
      <4>1. Weight(i - 1) = Word * Weight(k) /\ Weight(k) \in Nat \ {0}
        BY <1>3, <3>1
      <4>2. x \div (Word * Weight(k)) = (x \div Word) \div Weight(k)
        BY <1>1, <1>5, <4>1, DivDiv
      <4> QED
        BY <3>6, <4>1, <4>2, Zenon
    <3>9. (y \div Weight(k)) % Weight(1) = (c.high \div Weight(k)) % Weight(1)
      BY <1>3, <1>4, <1>8, <3>1, <3>7, LowDigit DEF y
    <3>10. ~(i <= half)
      BY <1>2, <2>2
    <3> QED
      BY <1>7, <3>3, <3>8, <3>9, <3>10, Zenon
  <2> QED
    BY <1>2, <2>1, <2>2
<1>10. \A i \in 1 .. LenBytes :
         Abstract!LengthDigit(n, i - 1) = (x \div Weight(i - 1)) % Weight(1)
  BY DEF Abstract!LengthDigit, Abstract!Weight, Weight, x
<1>11. \A i \in 1 .. LenBytes : Encoded(c)[i] \in Bytes
  <2> TAKE i \in 1 .. LenBytes
  <2> DEFINE d == x \div Weight(i - 1)
  <2>1. i - 1 \in 0 .. LenBytes
    BY <1>1
  <2>2. d \in Int
    <3>1. x \in Int
      BY <1>5
    <3> QED
      BY <1>3, <2>1, <3>1, DivMod, Zenon
  <2> HIDE DEF d
  <2>3. d % Weight(1) \in Nat
    <3>1. d % Weight(1) \in 0 .. Weight(1) - 1
      BY <1>8, <2>2, DivMod, Zenon
    <3> QED
      BY <3>1
  <2>4. LengthByte(d % Weight(1)) \in Bytes
    BY <2>3 DEF LengthByte, Bytes
  <2> QED
    BY <1>9, <2>4 DEF d
<1>12. Encoded(c) = [i \in 1 .. LenBytes |-> Encoded(c)[i]]
  BY DEF Encoded
<1> DEFINE E == Encoded(c)
<1> HIDE DEF E
<1>13. Len(E) = LenBytes /\ E \in Seq(Bytes)
  BY <1>1, <1>11, <1>12 DEF E
<1> QED
  BY <1>9, <1>10, <1>13 DEF E

-----------------------------------------------------------------------------
(* The padding.                                                            *)

Message == [k \in Nat |-> MessageByte(k)]

(* The message of n bytes with its padding, as a stream.                   *)
Stream(n) ==
  LET size == Abstract!PaddedSize(n)
  IN  [k \in Nat |-> IF k <= n THEN MessageByte(k)
                     ELSE IF k = n + 1 THEN Mark
                     ELSE IF k <= size - LenBytes THEN Zero
                     ELSE IF k <= size
                       THEN LengthByte(Abstract!LengthDigit(n, k - (size - LenBytes) - 1))
                     ELSE Zero]

LEMMA PaddedSizeIs ==
  ASSUME NEW n \in Nat
  PROVE  LET pad == PadLen(n % Block)
         IN  /\ pad \in Nat \ {0}
             /\ Abstract!PaddedSize(n) = n + pad + LenBytes
             /\ (n + pad + LenBytes) % Block = 0
<1> DEFINE rest == n % Block
           pad  == PadLen(rest)
           end  == Block - LenBytes
           size == n + pad + LenBytes
           q    == n \div Block
<1>1. Block \in Nat \ {0} /\ LenBytes \in Nat /\ LenBytes < Block
  BY DigestAssumption
<1>2. n \in Int
  OBVIOUS
<1>3. q \in Int /\ rest \in 0 .. Block - 1 /\ n = Block * q + rest
  BY <1>1, <1>2, DivMod, Zenon
<1> HIDE DEF q, rest
<1>4. pad \in 1 .. Block /\ (size = n - rest + Block \/ size = n - rest + Block + Block)
  BY <1>1, <1>3 DEF PadLen
<1> HIDE DEF pad
<1>5. /\ Block * q \in Int
      /\ Block * (q + 1) = Block * q + Block
      /\ Block * (q + 2) = Block * q + Block + Block
  BY <1>1, <1>3
<1>6. PICK p \in Int : size = Block * p + 0
  <2>1. size = Block * (q + 1) + 0 \/ size = Block * (q + 2) + 0
    BY <1>1, <1>3, <1>4, <1>5
  <2>2. q + 1 \in Int /\ q + 2 \in Int
    BY <1>3
  <2> QED
    BY <2>1, <2>2, Zenon
<1>7. size \in Int /\ 0 \in 0 .. Block - 1
  BY <1>1, <1>4
<1>8. size % Block = 0
  BY <1>1, <1>6, <1>7, DivUnique, Zenon
<1>9. size \in n + 1 + LenBytes .. n + LenBytes + Block
  BY <1>1, <1>4
<1> HIDE DEF size
<1>10. ASSUME NEW x \in n + 1 + LenBytes .. n + LenBytes + Block, x % Block = 0
       PROVE  x = size
  <2> DEFINE r == x \div Block
  <2>1. x \in Int
    BY <1>1
  <2>2. r \in Int /\ x = Block * r + 0
    <3>1. r \in Int /\ x = Block * r + (x % Block)
      BY <1>1, <2>1, DivMod, Zenon
    <3> QED
      BY <1>10, <3>1
  <2> HIDE DEF r
  <2>3. /\ Block * r \in Int /\ Block * p \in Int
        /\ Block * (r + 1) = Block * r + Block
        /\ Block * (p + 1) = Block * p + Block
    BY <1>1, <1>6, <2>2
  <2>4. ~(r >= p + 1)
    <3>1. r >= p + 1 => Block * (p + 1) <= Block * r
      BY <1>1, <1>6, <2>2, MulMono
    <3> QED
      BY <1>1, <1>6, <1>7, <1>9, <2>1, <2>2, <2>3, <3>1
  <2>5. ~(p >= r + 1)
    <3>1. p >= r + 1 => Block * (r + 1) <= Block * p
      BY <1>1, <1>6, <2>2, MulMono
    <3> QED
      BY <1>1, <1>6, <1>7, <1>9, <2>1, <2>2, <2>3, <3>1
  <2>6. r = p
    BY <1>6, <2>2, <2>4, <2>5
  <2> QED
    BY <1>6, <2>2, <2>6
<1>11. Abstract!PaddedSize(n) = size
  BY <1>8, <1>9, <1>10 DEF Abstract!PaddedSize
<1>12. pad \in Nat \ {0}
  BY <1>1, <1>4
<1> QED
  BY <1>8, <1>11, <1>12 DEF size, pad, rest

LEMMA StreamType ==
  ASSUME NEW n \in Nat
  PROVE  /\ Message \in [Nat -> Bytes] /\ Stream(n) \in [Nat -> Bytes]
         /\ \A k \in 1 .. n : Stream(n)[k] = Message[k]
<1> DEFINE size == Abstract!PaddedSize(n)
           digit(i) == Abstract!LengthDigit(n, i)
<1>1. ByteBits * n \in Int /\ LenBytes \in Nat
  BY DigestAssumption
<1>2. /\ \A i \in 0 .. LenBytes : Weight(i) \in Nat \ {0}
      /\ Weight(1) \in Nat \ {0}
  BY DigestAssumption, DigitsAssumption
<1>3. ASSUME NEW i \in 0 .. LenBytes PROVE digit(i) \in Nat
  <2> DEFINE d == (ByteBits * n) \div Weight(i)
  <2>1. d \in Int
    BY <1>1, <1>2, DivMod, Zenon
  <2>2. digit(i) = d % Weight(1)
    BY DEF Abstract!LengthDigit, Abstract!Weight, Weight
  <2> HIDE DEF d, digit
  <2>3. d % Weight(1) \in 0 .. Weight(1) - 1
    BY <1>2, <2>1, DivMod, Zenon
  <2> QED
    BY <2>2, <2>3
<1> HIDE DEF digit
<1>4. \A k \in Nat : MessageByte(k) \in Bytes /\ LengthByte(k) \in Bytes
  BY DEF MessageByte, LengthByte, Bytes
<1>5. Mark \in Bytes /\ Zero \in Bytes
  BY DEF Mark, Zero, Bytes
<1>6. size \in Nat
  <2> DEFINE pad == PadLen(n % Block)
  <2>1. pad \in Nat /\ size = n + pad + LenBytes
    BY PaddedSizeIs
  <2> HIDE DEF pad, size
  <2> QED
    BY <1>1, <2>1
<1> HIDE DEF size
<1>7. \A k \in Nat : (~(k <= size - LenBytes) /\ k <= size)
                       => LengthByte(digit(k - (size - LenBytes) - 1)) \in Bytes
  <2> TAKE k \in Nat
  <2> HAVE ~(k <= size - LenBytes) /\ k <= size
  <2>1. k - (size - LenBytes) - 1 \in 0 .. LenBytes
    BY <1>1, <1>6
  <2> QED
    BY <1>3, <1>4, <2>1
<1>8. Message \in [Nat -> Bytes]
  BY <1>4 DEF Message
<1>9. Stream(n) \in [Nat -> Bytes]
  BY <1>4, <1>5, <1>7 DEF Stream, size, digit
<1>10. \A k \in 1 .. n : Stream(n)[k] = Message[k]
  BY DEF Stream, Message
<1> QED
  BY <1>8, <1>9, <1>10

(* finalize() hashes the padded message.                                   *)
LEMMA FinishedIsPadded ==
  ASSUME NEW m, NEW n \in Nat, Kept(m, Message, n)
  PROVE  Finished(m).hashed = Abstract!Padded(n)
<1> DEFINE rest == n % Block
           pad  == PadLen(rest)
           size == Abstract!PaddedSize(n)
           S    == Stream(n)
           A    == Padding(pad)
           B    == Encoded(m.count)
           M1   == Absorb(m, A)
           M2   == Absorb(M1, B)
<1>1. Block \in Nat \ {0} /\ LenBytes \in Nat
  BY DigestAssumption
<1>2. /\ pad \in Nat \ {0} /\ size = n + pad + LenBytes /\ size % Block = 0
  BY PaddedSizeIs
<1>3. /\ Message \in [Nat -> Bytes] /\ S \in [Nat -> Bytes]
      /\ \A k \in 1 .. n : S[k] = Message[k]
  BY StreamType
<1>4. n \in Int /\ rest \in 0 .. Block - 1 /\ rest <= n
  <2> DEFINE q == n \div Block
  <2>1. n \in Int /\ n >= 0
    OBVIOUS
  <2>2. /\ q \in Int /\ rest \in 0 .. Block - 1 /\ n = Block * q + rest
        /\ n >= 0 => q >= 0
    BY <1>1, <2>1, DivMod, Zenon
  <2> HIDE DEF q, rest
  <2>3. Block * q >= 0 /\ Block * q \in Int
    BY <1>1, <2>1, <2>2, MulMono
  <2> QED
    BY <1>1, <2>1, <2>2, <2>3
<1>5. m.count \in Counter /\ Counts(m.count, n) /\ Index(m.count) = rest
  BY IndexIsRest DEF Kept
<1>6. Finished(m).hashed = M2.hashed
  BY <1>5 DEF Finished
<1>7. Kept(m, S, n)
  <2>1. /\ m.hashed \in Seq(Bytes) /\ Len(m.hashed) = n - rest
        /\ m.buffer \in [1 .. Block -> Bytes]
        /\ \A k \in 1 .. n - rest : m.hashed[k] = Message[k]
        /\ \A i \in 1 .. rest : m.buffer[i] = Message[(n - rest) + i]
    BY DEF Kept
  <2> HIDE DEF rest, S
  <2>2. \A k \in 1 .. n - rest : m.hashed[k] = S[k]
    BY <1>1, <1>3, <1>4, <2>1
  <2>3. \A i \in 1 .. rest : m.buffer[i] = S[(n - rest) + i]
    <3> TAKE i \in 1 .. rest
    <3>1. (n - rest) + i \in 1 .. n
      BY <1>1, <1>4
    <3> QED
      BY <1>3, <2>1, <3>1
  <2> QED
    BY <1>5, <2>1, <2>2, <2>3 DEF Kept, rest
<1> HIDE DEF rest, pad, size
<1>8. /\ A \in Seq(Bytes) /\ Len(A) = pad
      /\ \A i \in 1 .. pad : A[i] = S[n + i]
  <2>1. Mark \in Bytes /\ Zero \in Bytes
    BY DEF Mark, Zero, Bytes
  <2>2. A = [i \in 1 .. pad |-> IF i = 1 THEN Mark ELSE Zero]
    BY DEF Padding
  <2>3. A \in Seq(Bytes) /\ Len(A) = pad
    BY <1>2, <2>1, <2>2
  <2>4. ASSUME NEW i \in 1 .. pad PROVE A[i] = S[n + i]
    <3>1. n + i \in Nat /\ ~(n + i <= n) /\ n + i <= size - LenBytes
          /\ (n + i = n + 1 <=> i = 1)
      BY <1>1, <1>2
    <3>2. S[n + i] = IF n + i = n + 1 THEN Mark ELSE Zero
      BY <3>1 DEF Stream, size
    <3> QED
      BY <2>2, <3>1, <3>2
  <2> QED
    BY <2>3, <2>4
<1>9. /\ B \in Seq(Bytes) /\ Len(B) = LenBytes
      /\ \A i \in 1 .. LenBytes : B[i] = S[(n + pad) + i]
  <2>1. /\ B \in Seq(Bytes) /\ Len(B) = LenBytes
        /\ \A i \in 1 .. LenBytes :
             B[i] = LengthByte(Abstract!LengthDigit(n, i - 1))
    BY <1>5, EncodedIsLength
  <2>2. ASSUME NEW i \in 1 .. LenBytes PROVE B[i] = S[(n + pad) + i]
    <3> DEFINE k == (n + pad) + i
    <3>1. /\ k \in Nat /\ ~(k <= n) /\ k # n + 1 /\ ~(k <= size - LenBytes)
          /\ k <= size /\ k - (size - LenBytes) - 1 = i - 1
      BY <1>1, <1>2
    <3> HIDE DEF k
    <3>2. S[k] = LengthByte(Abstract!LengthDigit(n, k - (size - LenBytes) - 1))
      BY <3>1, Zenon DEF Stream, size
    <3>3. S[k] = B[i]
      BY <2>1, <3>1, <3>2, Zenon
    <3> QED
      BY <3>3 DEF k
  <2> QED
    BY <2>1, <2>2
<1> HIDE DEF S, A, B
<1>10. Kept(M1, S, n + pad) /\ n + pad \in Nat
  <2>1. \A i \in 1 .. Len(A) : A[i] = S[n + i]
    BY <1>8
  <2>2. Kept(M1, S, n + Len(A))
    BY <1>3, <1>7, <1>8, <2>1, AbsorbKeeps, Zenon
  <2> QED
    BY <1>2, <1>8, <2>2
<1> HIDE DEF M1
<1>11. Kept(M2, S, (n + pad) + LenBytes)
  <2>1. \A i \in 1 .. Len(B) : B[i] = S[(n + pad) + i]
    BY <1>9
  <2>2. Kept(M2, S, (n + pad) + Len(B))
    BY <1>3, <1>9, <1>10, <2>1, AbsorbKeeps, Zenon
  <2> QED
    BY <1>9, <2>2
<1> HIDE DEF M2
<1>12. size \in Nat /\ size - 0 = size /\ (n + pad) + LenBytes = size
  BY <1>1, <1>2
<1>13. /\ M2.hashed \in Seq(Bytes) /\ Len(M2.hashed) = size
       /\ \A k \in 1 .. size : M2.hashed[k] = S[k]
  BY <1>2, <1>11, <1>12 DEF Kept
<1>14. M2.hashed = [k \in 1 .. size |-> S[k]]
  BY <1>12, <1>13
<1>15. \A k \in 1 .. size :
         S[k] = IF k <= n THEN MessageByte(k)
                ELSE IF k = n + 1 THEN Mark
                ELSE IF k <= size - LenBytes THEN Zero
                ELSE LengthByte(Abstract!LengthDigit(n, k - (size - LenBytes) - 1))
  <2> TAKE k \in 1 .. size
  <2>1. k \in Nat /\ k <= size
    BY <1>12
  <2> QED
    BY <2>1, Zenon DEF S, Stream, size
<1>16. Abstract!Padded(n) = [k \in 1 .. size |-> S[k]]
  BY <1>15 DEF Abstract!Padded, size, Abstract!MessageByte, MessageByte,
               Abstract!Mark, Mark, Abstract!Zero, Zero,
               Abstract!LengthByte, LengthByte
<1> QED
  BY <1>6, <1>14, <1>16

-----------------------------------------------------------------------------
(* The specification.                                                      *)

Inv ==
  /\ given \in Nat
  /\ ~finalized => Kept(Context, Message, given)

LEMMA LengthsAreNat ==
  /\ \A len \in Sizes : len \in Nat
  /\ \A len \in Delivered : len \in Nat
  BY DigestAssumption DEF Delivered

LEMMA InvInit ==
  ASSUME Init
  PROVE  Inv
<1>1. Block \in Nat \ {0} /\ Word \in Nat \ {0} /\ ByteBits \in Nat
  BY DigestAssumption
<1>2. given = 0 /\ count = [low |-> 0, high |-> 0] /\ hashed = <<>>
      /\ buffer = [i \in 1 .. Block |-> Junk]
  BY DEF Init
<1>3. 0 % Block = 0
  <2>1. 0 = Block * 0 + 0 /\ 0 \in 0 .. Block - 1 /\ 0 \in Int
    BY <1>1
  <2> QED
    BY <1>1, <2>1, DivUnique
<1>4. count \in Counter
  BY <1>1, <1>2 DEF Counter
<1>5. Counts(count, 0)
  <2>1. ByteBits * 0 = Word * count.high + count.low + (Word * Word) * 0
    BY <1>1, <1>2
  <2>2. 0 \in Int
    OBVIOUS
  <2> QED
    BY <2>1, <2>2 DEF Counts
<1>6. Junk \in Bytes
  BY DEF Junk, Bytes
<1>7. /\ Context.count = count /\ Context.hashed = hashed
      /\ Context.buffer = buffer
  BY DEF Context
<1>8. buffer \in [1 .. Block -> Bytes] /\ hashed \in Seq(Bytes) /\ Len(hashed) = 0
  BY <1>2, <1>6
<1>9. Kept(Context, Message, 0)
  BY <1>3, <1>4, <1>5, <1>7, <1>8 DEF Kept
<1> QED
  BY <1>2, <1>9 DEF Inv

(* What an accepted update leaves behind; a refused one changes nothing.   *)
LEMMA AcceptKeeps ==
  ASSUME Inv, NEW len \in Nat, Accept(len)
  PROVE  /\ ~finalized => /\ given' = given + len
                          /\ Kept(Context', Message, given')
         /\ finalized => UNCHANGED <<count, buffer, hashed, given>>
<1>1. CASE finalized
  BY <1>1 DEF Accept
<1>2. CASE ~finalized
  <2> DEFINE bytes == [i \in 1 .. len |-> MessageByte(given + i)]
             m     == Absorb(Context, bytes)
  <2>1. /\ count' = m.count /\ buffer' = m.buffer /\ hashed' = m.hashed
        /\ given' = given + len
    BY <1>2 DEF Accept
  <2>2. given \in Nat /\ Kept(Context, Message, given)
    BY <1>2 DEF Inv
  <2>3. \A i \in 1 .. len :
          /\ given + i \in Nat /\ MessageByte(given + i) \in Bytes
          /\ Message[given + i] = MessageByte(given + i)
    BY <2>2 DEF Message, MessageByte, Bytes
  <2>4. /\ bytes \in Seq(Bytes) /\ Len(bytes) = len
        /\ \A i \in 1 .. Len(bytes) : bytes[i] = Message[given + i]
    BY <2>3
  <2>5. Message \in [Nat -> Bytes]
    BY StreamType, <2>2
  <2> HIDE DEF bytes
  <2>6. Kept(m, Message, given + Len(bytes))
    BY <2>2, <2>4, <2>5, AbsorbKeeps
  <2> HIDE DEF m
  <2>7. /\ Context'.count = m.count /\ Context'.hashed = m.hashed
        /\ Context'.buffer = m.buffer
    BY <2>1 DEF Context
  <2>8. Kept(Context', Message, given')
    BY <2>1, <2>4, <2>6, <2>7 DEF Kept
  <2> QED
    BY <1>2, <2>1, <2>8
<1> QED
  BY <1>1, <1>2

LEMMA InvAccept ==
  ASSUME Inv, NEW len \in Nat, Accept(len), finalized' = finalized
  PROVE  Inv'
<1>1. CASE finalized
  BY <1>1, AcceptKeeps DEF Inv
<1>2. CASE ~finalized
  <2>1. given' = given + len /\ Kept(Context', Message, given')
    BY <1>2, AcceptKeeps
  <2>2. given' \in Nat
    BY <2>1 DEF Inv
  <2>3. Kept(Context, Message, given)'
    BY <2>1 DEF Kept, Message, Counts, Counter
  <2> QED
    BY <2>2, <2>3 DEF Inv
<1> QED
  BY <1>1, <1>2

LEMMA InvUnchanged ==
  ASSUME Inv, UNCHANGED <<count, buffer, hashed, finalized, given>>
  PROVE  Inv'
<1>1. Context' = Context
  BY DEF Context
<1>2. Kept(Context, Message, given) => Kept(Context, Message, given)'
  BY <1>1 DEF Kept, Message, Counts, Counter
<1> QED
  BY <1>2 DEF Inv

LEMMA InvNext ==
  ASSUME Inv, [Next]_vars
  PROVE  Inv'
<1>1. CASE Update
  <2>1. PICK len \in Sizes : Accept(len)
    BY <1>1 DEF Update
  <2> QED
    BY <1>1, <2>1, LengthsAreNat, InvAccept DEF Update
<1>2. CASE Open
  BY <1>2, InvUnchanged DEF Open
<1>3. CASE ReadFile
  <2>1. PICK len \in Delivered : Accept(len)
    BY <1>3 DEF ReadFile
  <2> QED
    BY <1>3, <2>1, LengthsAreNat, InvAccept DEF ReadFile
<1>4. CASE CloseFile
  BY <1>4, InvUnchanged DEF CloseFile
<1>5. CASE ReadStream
  <2>1. PICK len \in Delivered : Accept(len)
    BY <1>5 DEF ReadStream
  <2> QED
    BY <1>5, <2>1, LengthsAreNat, InvAccept DEF ReadStream
<1>6. CASE LeaveStream
  BY <1>6, InvUnchanged DEF LeaveStream
<1>7. CASE Finalize
  BY <1>7 DEF Finalize, Inv
<1>8. CASE UNCHANGED vars
  BY <1>8, InvUnchanged DEF vars
<1> QED
  BY <1>1, <1>2, <1>3, <1>4, <1>5, <1>6, <1>7, <1>8 DEF Next

(* The invariant behind the theorems: however the message was cut, the     *)
(* counters have its length, and hash and buffer together have its bytes.  *)
THEOREM InvHolds == Spec => []Inv
<1>1. Init => Inv
  BY InvInit
<1>2. Inv /\ [Next]_vars => Inv'
  BY InvNext
<1> QED
  BY <1>1, <1>2, PTL DEF Spec

(* No carry between the two words of the count is lost or doubled (:97),   *)
(* for every width of the words and every sequence of updates.             *)
THEOREM CountIsLengthHolds == Spec => []CountIsLength
<1>1. Inv => CountIsLength
  <2> SUFFICES ASSUME Inv, ~finalized
               PROVE  (Word * count.high + count.low) % (Word * Word)
                        = (ByteBits * given) % (Word * Word)
    BY DEF CountIsLength
  <2>1. given \in Nat /\ count \in Counter /\ Counts(count, given)
    BY DEF Inv, Kept, Context
  <2> QED
    BY <2>1, CountsModulo
<1> QED
  BY <1>1, InvHolds, PTL

(* No byte is lost, doubled or out of order between update()'s input, the  *)
(* buffer and the transformation (:94-123).                                *)
THEOREM BytesKeptHolds == Spec => []BytesKept
<1>1. Inv => BytesKept
  <2> SUFFICES ASSUME Inv, ~finalized
               PROVE  LET waiting == given % Block
                      IN  /\ Index(count) = waiting
                          /\ Len(hashed) = given - waiting
                          /\ \A k \in 1 .. Len(hashed) : hashed[k] = MessageByte(k)
                          /\ \A i \in 1 .. waiting :
                               buffer[i] = MessageByte(Len(hashed) + i)
    BY DEF BytesKept
  <2> DEFINE waiting == given % Block
  <2>1. given \in Nat /\ given \in Int /\ Block \in Nat \ {0}
    BY DigestAssumption DEF Inv
  <2>2. /\ count \in Counter /\ Counts(count, given)
        /\ Len(hashed) = given - waiting
        /\ \A k \in 1 .. given - waiting : hashed[k] = Message[k]
        /\ \A i \in 1 .. waiting : buffer[i] = Message[(given - waiting) + i]
    BY DEF Inv, Kept, Context
  <2>3. Index(count) = waiting
    BY <2>1, <2>2, IndexIsRest
  <2>4. waiting \in 0 .. Block - 1
    BY <2>1, DivMod
  <2> HIDE DEF waiting
  <2>5. hashed \in Seq(Bytes)
    BY DEF Inv, Kept, Context
  <2>6. given - waiting \in Nat
    BY <2>2, <2>5
  <2>7. \A k \in Nat : Message[k] = MessageByte(k)
    BY DEF Message
  <2>8. \A k \in 1 .. Len(hashed) : hashed[k] = MessageByte(k)
    BY <2>2, <2>6, <2>7
  <2>9. \A i \in 1 .. waiting : buffer[i] = MessageByte(Len(hashed) + i)
    <3> TAKE i \in 1 .. waiting
    <3>1. (given - waiting) + i \in Nat
      BY <2>4, <2>6
    <3> QED
      BY <2>2, <2>7, <3>1
  <2> QED
    BY <2>2, <2>3, <2>8, <2>9 DEF waiting
<1> QED
  BY <1>1, InvHolds, PTL

(* Counters, hash and buffer agree with the message after every call.      *)
THEOREM MessageKeptHolds == Spec => []MessageKept
  BY CountIsLengthHolds, BytesKeptHolds, PTL DEF MessageKept

-----------------------------------------------------------------------------
(* The refinement.                                                         *)

LEMMA GiveStep ==
  ASSUME Inv, NEW len \in Nat, Accept(len), UNCHANGED <<finalized, digest>>
  PROVE  [Abstract!Next]_(Abstract!vars)
<1>1. CASE finalized
  <2>1. UNCHANGED <<hashed, given, finalized, digest>>
    BY <1>1, AcceptKeeps
  <2> QED
    BY <2>1 DEF Abstract!vars
<1>2. CASE ~finalized
  <2>1. /\ given' = given + len /\ Kept(Context', Message, given')
        /\ finalized' = finalized /\ given \in Nat
    BY <1>2, AcceptKeeps DEF Inv
  <2> DEFINE rest == given' % Block
  <2>2. /\ hashed' \in Seq(Bytes) /\ Len(hashed') = given' - rest
        /\ \A k \in 1 .. given' - rest : hashed'[k] = Message[k]
    BY <2>1 DEF Kept, Context
  <2> HIDE DEF rest
  <2>3. given' - rest \in Nat
    BY <2>2
  <2>4. \A k \in 1 .. given' - rest : hashed'[k] = MessageByte(k)
    <3>1. \A k \in Nat : Message[k] = MessageByte(k)
      BY DEF Message
    <3> QED
      BY <2>2, <2>3, <3>1
  <2>5. hashed' = [k \in 1 .. given' - rest |-> MessageByte(k)]
    BY <2>2, <2>3, <2>4
  <2>6. hashed' = [k \in 1 .. Abstract!Whole(given') |-> Abstract!MessageByte(k)]
    BY <2>5 DEF rest, Abstract!Whole, Abstract!MessageByte, MessageByte
  <2>7. given' >= given
    BY <2>1
  <2>8. Abstract!Give
    BY <1>2, <2>1, <2>6, <2>7 DEF Abstract!Give
  <2> QED
    BY <2>8 DEF Abstract!Next
<1> QED
  BY <1>1, <1>2

(* The object implements MessageBlocks: the blocks it transforms are those *)
(* of the message and, in the end, of the message padded as short as       *)
(* possible with its length in the last block (finalize(), :194-228).      *)
THEOREM ImplementsHashingHolds == Spec => ImplementsHashing
<1>1. Init => Abstract!Init
  BY DEF Init, Abstract!Init
<1>2. Inv /\ [Next]_vars => [Abstract!Next]_(Abstract!vars)
  <2> SUFFICES ASSUME Inv, [Next]_vars
               PROVE  [Abstract!Next]_(Abstract!vars)
    OBVIOUS
  <2>1. CASE Update
    <3>1. PICK len \in Sizes : Accept(len)
      BY <2>1 DEF Update
    <3> QED
      BY <2>1, <3>1, LengthsAreNat, GiveStep DEF Update
  <2>2. CASE Open
    BY <2>2 DEF Open, Abstract!vars
  <2>3. CASE ReadFile
    <3>1. PICK len \in Delivered : Accept(len)
      BY <2>3 DEF ReadFile
    <3> QED
      BY <2>3, <3>1, LengthsAreNat, GiveStep DEF ReadFile
  <2>4. CASE CloseFile
    BY <2>4 DEF CloseFile, Abstract!vars
  <2>5. CASE ReadStream
    <3>1. PICK len \in Delivered : Accept(len)
      BY <2>5 DEF ReadStream
    <3> QED
      BY <2>5, <3>1, LengthsAreNat, GiveStep DEF ReadStream
  <2>6. CASE LeaveStream
    BY <2>6 DEF LeaveStream, Abstract!vars
  <2>7. CASE Finalize
    <3>1. /\ ~finalized /\ finalized' = TRUE /\ given' = given
          /\ digest' = Finished(Context).hashed
      BY <2>7 DEF Finalize
    <3>2. given \in Nat /\ Kept(Context, Message, given)
      BY <3>1 DEF Inv
    <3>3. digest' = Abstract!Padded(given)
      BY <3>1, <3>2, FinishedIsPadded
    <3>4. Abstract!Finish
      BY <3>1, <3>3 DEF Abstract!Finish
    <3> QED
      BY <3>4 DEF Abstract!Next
  <2>8. CASE UNCHANGED vars
    BY <2>8 DEF vars, Abstract!vars
  <2> QED
    BY <2>1, <2>2, <2>3, <2>4, <2>5, <2>6, <2>7, <2>8 DEF Next
<1> QED
  BY <1>1, <1>2, InvHolds, PTL DEF Spec, ImplementsHashing, Abstract!Spec

-----------------------------------------------------------------------------
(* The profiler, which shares no state with the digest.                    *)

CONSTANT Names

VARIABLES table, measured

Profile == INSTANCE Profiler

Record == [beg : Profile!Time, period : Profile!Time]

(* What is in the table is well formed, what was measured under a name is  *)
(* its period, and nothing was measured under a name that is not there.    *)
ProfileInv ==
  /\ Profile!Known \subseteq Names
  /\ table = [n \in Profile!Known |-> table[n]]
  /\ \A n \in Profile!Known : table[n] \in Record
  /\ measured \in [Names -> Int]
  /\ \A n \in Profile!Known : Profile!Micro(table[n].period) = measured[n]
  /\ \A n \in Names \ Profile!Known : measured[n] = 0

-----------------------------------------------------------------------------
LEMMA PrecisionIsPositive == Profile!SUBSECPREC \in Nat \ {0}
BY DEF Profile!SUBSECPREC

LEMMA TimeParts ==
  ASSUME NEW x \in Profile!Time
  PROVE  /\ x.sec \in Int /\ x.sub \in Int /\ 0 <= x.sub /\ x.sub < Profile!SUBSECPREC
         /\ Profile!Micro(x) = Profile!SUBSECPREC * x.sec + x.sub /\ Profile!Micro(x) \in Int
<1>1. x.sec \in Int /\ x.sub \in Profile!Sub
  BY DEF Profile!Time
<1> QED
  BY <1>1, PrecisionIsPositive DEF Profile!Sub, Profile!Micro

LEMMA PartsMakeTime ==
  ASSUME NEW s \in Int, NEW u \in Int, 0 <= u, u < Profile!SUBSECPREC
  PROVE  /\ [sec |-> s, sub |-> u] \in Profile!Time
         /\ Profile!Micro([sec |-> s, sub |-> u]) = Profile!SUBSECPREC * s + u
<1>1. u \in Profile!Sub
  BY PrecisionIsPositive DEF Profile!Sub
<1> QED
  BY <1>1 DEF Profile!Time, Profile!Micro

(* tv_off gives a time of day's form to every difference, and its value.   *)
LEMMA OffIsDifference ==
  ASSUME NEW x \in Profile!Time, NEW y \in Profile!Time
  PROVE  Profile!TvOff(x, y) \in Profile!Time /\ Profile!Micro(Profile!TvOff(x, y)) = Profile!Micro(y) - Profile!Micro(x)
<1>1. CASE y.sub < x.sub
  <2> DEFINE s == y.sec - x.sec - 1
             u == y.sub + Profile!SUBSECPREC - x.sub
  <2>1. s \in Int /\ u \in Int /\ 0 <= u /\ u < Profile!SUBSECPREC
    BY <1>1, TimeParts, PrecisionIsPositive
  <2>2. Profile!SUBSECPREC * s + u = Profile!Micro(y) - Profile!Micro(x)
    BY TimeParts, PrecisionIsPositive
  <2>3. Profile!TvOff(x, y) = [sec |-> s, sub |-> u]
    BY <1>1 DEF Profile!TvOff
  <2> HIDE DEF s, u
  <2> QED
    BY <2>1, <2>2, <2>3, PartsMakeTime
<1>2. CASE ~(y.sub < x.sub)
  <2> DEFINE s == y.sec - x.sec
             u == y.sub - x.sub
  <2>1. s \in Int /\ u \in Int /\ 0 <= u /\ u < Profile!SUBSECPREC
    BY <1>2, TimeParts, PrecisionIsPositive
  <2>2. Profile!SUBSECPREC * s + u = Profile!Micro(y) - Profile!Micro(x)
    BY TimeParts, PrecisionIsPositive
  <2>3. Profile!TvOff(x, y) = [sec |-> s, sub |-> u]
    BY <1>2 DEF Profile!TvOff
  <2> HIDE DEF s, u
  <2> QED
    BY <2>1, <2>2, <2>3, PartsMakeTime
<1> QED
  BY <1>1, <1>2

(* tv_add gives it to every sum: the carry is 0 or 1.                      *)
LEMMA AddIsSum ==
  ASSUME NEW x \in Profile!Time, NEW y \in Profile!Time
  PROVE  Profile!TvAdd(x, y) \in Profile!Time /\ Profile!Micro(Profile!TvAdd(x, y)) = Profile!Micro(x) + Profile!Micro(y)
<1> DEFINE sum   == x.sub + y.sub
           carry == sum \div Profile!SUBSECPREC
           u     == sum % Profile!SUBSECPREC
           s     == x.sec + y.sec + carry
<1>1. sum \in Int
  BY TimeParts
<1> HIDE DEF sum
<1>2. /\ carry \in Int /\ u \in Int /\ 0 <= u /\ u < Profile!SUBSECPREC
      /\ sum = Profile!SUBSECPREC * carry + u
  BY <1>1, PrecisionIsPositive
<1> HIDE DEF carry, u
<1>3. s \in Int /\ Profile!SUBSECPREC * s + u = Profile!Micro(x) + Profile!Micro(y)
  BY <1>2, TimeParts, PrecisionIsPositive DEF sum
<1>4. Profile!TvAdd(x, y) = [sec |-> s, sub |-> u]
  BY DEF Profile!TvAdd, sum, carry, u
<1> HIDE DEF s
<1> QED
  BY <1>2, <1>3, <1>4, PartsMakeTime

LEMMA ZeroIsTime == Profile!Zero \in Profile!Time /\ Profile!Micro(Profile!Zero) = 0
BY PartsMakeTime, PrecisionIsPositive DEF Profile!Zero

-----------------------------------------------------------------------------
LEMMA ProfileInvInit == Profile!Init => ProfileInv
BY DEF Profile!Init, ProfileInv, Profile!Known

LEMMA BeginKeeps ==
  ASSUME ProfileInv, NEW name \in Names, Profile!Begin(name)
  PROVE  ProfileInv'
<1>1. PICK now \in Profile!Time :
        table' = [n \in Profile!Known \cup {name} |->
                    IF n # name THEN table[n]
                    ELSE [beg |-> now,
                          period |-> IF n \in Profile!Known THEN table[n].period ELSE Profile!Zero]]
  BY DEF Profile!Begin
<1>2. Profile!Known' = Profile!Known \cup {name} /\ measured' = measured
  BY <1>1 DEF Profile!Begin, Profile!Known
<1>3. \A n \in Profile!Known' : /\ table'[n] \in Record
                        /\ Profile!Micro(table'[n].period) = measured[n]
  <2> TAKE n \in Profile!Known'
  <2>1. CASE n # name
    BY <1>1, <1>2, <2>1 DEF ProfileInv
  <2>2. CASE n = name /\ n \in Profile!Known
    BY <1>1, <1>2, <2>2 DEF ProfileInv, Record
  <2>3. CASE n = name /\ n \notin Profile!Known
    BY <1>1, <1>2, <2>3, ZeroIsTime DEF ProfileInv, Record
  <2> QED
    BY <2>1, <2>2, <2>3
<1> QED
  BY <1>1, <1>2, <1>3 DEF ProfileInv

LEMMA EndKeeps ==
  ASSUME ProfileInv, NEW name \in Names, Profile!End(name)
  PROVE  ProfileInv'
<1>1. PICK now \in Profile!Time :
        /\ table' = [table EXCEPT ![name].period =
                       Profile!TvAdd(@, Profile!TvOff(table[name].beg, now))]
        /\ measured' = [measured EXCEPT ![name] =
                          @ + (Profile!Micro(now) - Profile!Micro(table[name].beg))]
  BY DEF Profile!End
<1>2. name \in Profile!Known /\ Profile!Known' = Profile!Known
  BY <1>1 DEF Profile!End, Profile!Known
<1> DEFINE old == table[name]
           new == Profile!TvAdd(old.period, Profile!TvOff(old.beg, now))
<1>3. old.beg \in Profile!Time /\ old.period \in Profile!Time /\ Profile!Micro(old.period) = measured[name]
  BY <1>2 DEF ProfileInv, Record
<1>4. new \in Profile!Time /\ Profile!Micro(new) = Profile!Micro(old.period) + (Profile!Micro(now) - Profile!Micro(old.beg))
  BY <1>1, <1>3, OffIsDifference, AddIsSum
<1>5. table'[name] = [old EXCEPT !.period = new] /\ \A n \in Profile!Known \ {name} : table'[n] = table[n]
  BY <1>1, <1>2 DEF Profile!Known
<1>6. table'[name] \in Record /\ table'[name].period = new
  BY <1>2, <1>4, <1>5 DEF ProfileInv, Record
<1>7. /\ measured' \in [Names -> Int]
      /\ measured'[name] = Profile!Micro(new)
      /\ \A n \in Names \ {name} : measured'[n] = measured[n]
  BY <1>1, <1>3, <1>4, TimeParts DEF ProfileInv
<1>8. table' = [n \in Profile!Known' |-> table'[n]]
  BY <1>1, <1>2 DEF ProfileInv, Profile!Known
<1> QED
  BY <1>2, <1>5, <1>6, <1>7, <1>8 DEF ProfileInv

LEMMA ProfileInvNext == ProfileInv /\ [Profile!Next]_(Profile!vars) => ProfileInv'
<1> SUFFICES ASSUME ProfileInv, [Profile!Next]_(Profile!vars) PROVE ProfileInv'
  OBVIOUS
<1>1. ASSUME NEW name \in Names, Profile!Begin(name) PROVE ProfileInv'
  BY <1>1, BeginKeeps
<1>2. ASSUME NEW name \in Names, Profile!End(name) PROVE ProfileInv'
  BY <1>2, EndKeeps
<1>3. CASE UNCHANGED Profile!vars
  BY <1>3 DEF Profile!vars, ProfileInv, Profile!Known
<1> QED
  BY <1>1, <1>2, <1>3 DEF Profile!Next

LEMMA ProfileInvSays == ProfileInv => Profile!PeriodIsMeasured
BY DEF ProfileInv, Profile!PeriodIsMeasured, Record, Profile!Time

(* The period of every name is what was measured under it: tv_off and      *)
(* tv_add (profiler.cpp:21-40) neither lose a second nor keep one too      *)
(* many, however begin() and end() are called and wherever the clock goes. *)
THEOREM PeriodsAreMeasured == Profile!Spec => []Profile!PeriodIsMeasured
<1>1. Profile!Init => ProfileInv
  BY ProfileInvInit
<1>2. ProfileInv /\ [Profile!Next]_(Profile!vars) => ProfileInv'
  BY ProfileInvNext
<1>3. ProfileInv => Profile!PeriodIsMeasured
  BY ProfileInvSays
<1> QED
  BY <1>1, <1>2, <1>3, PTL DEF Profile!Spec

-----------------------------------------------------------------------------
(* The lexical functions.                                                  *)
(*                                                                         *)
(* Escaping is proved in terms of how many backslashes are behind each     *)
(* character of the text: escape() adds one behind the first character of  *)
(* each place a search takes, unescape() takes one away.  Which places the *)
(* searches take is a matter of counts alone, so a list of words has a     *)
(* history of counts; when word i is unescaped, only later words have      *)
(* backslashes left, so in the end there are none.  That the characters of *)
(* the text spread out in step with the counts is shown for each round.    *)

(* A set of numbers has a least one, and induction up to a number.         *)
LEMMA LeastOf ==
  ASSUME NEW T, T \subseteq Nat, T # {}
  PROVE  \E x \in T : \A y \in T : x <= y
<1>1. IsWellFoundedOn(OpToRel(<, Nat), Nat)
  BY NatLessThanWellFounded
<1>2. PICK x \in T : \A y \in T : ~ (<<y, x>> \in OpToRel(<, Nat))
  BY <1>1, WFMin
<1>3. \A y \in T : y < x => <<y, x>> \in OpToRel(<, Nat)
  BY DEF OpToRel
<1>4. ASSUME NEW y \in T PROVE x <= y
  <2>1. ~(y < x)
    BY <1>2, <1>3
  <2> QED BY <2>1
<1> QED BY <1>4

LEMMA UpTo ==
  ASSUME NEW n \in Nat, NEW S, 0 \in S,
         \A i \in 1 .. n : i - 1 \in S => i \in S
  PROVE  0 .. n \subseteq S
<1> SUFFICES ASSUME NEW m \in 0 .. n, m \notin S PROVE FALSE
  OBVIOUS
<1> DEFINE T == {i \in 0 .. n : i \notin S}
<1>1. PICK x \in T : \A y \in T : x <= y
  <2>1. T \subseteq Nat /\ m \in T
    OBVIOUS
  <2> HIDE DEF T
  <2> QED BY <2>1, LeastOf
<1>2. x \in 1 .. n /\ x - 1 \in 0 .. n /\ x - 1 \notin T
  BY <1>1
<1> QED BY <1>1, <1>2

(* What holds at first and is kept by each round holds after all.          *)
LEMMA LoopKeeps ==
  ASSUME NEW n \in Nat, NEW f, NEW S, f[0] \in S,
         \A k \in 1 .. n : f[k - 1] \in S => f[k] \in S
  PROVE  \A k \in 0 .. n : f[k] \in S
<1> DEFINE T == {k \in 0 .. n : f[k] \in S}
<1>1. 0 .. n \subseteq T
  <2>1. 0 \in T /\ \A k \in 1 .. n : k - 1 \in T => k \in T
    OBVIOUS
  <2> HIDE DEF T
  <2> QED BY <2>1, UpTo
<1> QED BY <1>1

-----------------------------------------------------------------------------
(* Loops.  Each recursive function of the model exists, and what it is at  *)
(* a number follows from what it is at the one before.                     *)
LEMMA ResultsExists ==
  ASSUME NEW t, NEW n \in Nat
  PROVE  \E g : g = [k \in 0 .. n |-> IF k = 0 THEN 0 ELSE ResultRound(t[k], g[k - 1])]
<1> DEFINE Is(g, m) == g = [k \in 0 .. m |-> IF k = 0 THEN 0 ELSE ResultRound(t[k], g[k - 1])]
           S == {m \in 0 .. n : \E g : Is(g, m)}
<1>1. 0 \in S
  <2>1. Is([k \in 0 .. 0 |-> 0], 0)
    OBVIOUS
  <2> HIDE DEF Is
  <2>2. \E g : Is(g, 0)
    BY <2>1
  <2> QED BY <2>2
<1>2. ASSUME NEW m \in 1 .. n, m - 1 \in S PROVE m \in S
  <2>1. PICK g : Is(g, m - 1)
    BY <1>2
  <2> DEFINE h == [k \in 0 .. m |-> IF k = 0 THEN 0 ELSE ResultRound(t[k], g[k - 1])]
  <2>2. \A k \in 0 .. m - 1 : h[k] = g[k]
    BY <2>1
  <2>3. ASSUME NEW k \in 0 .. m
        PROVE  (IF k = 0 THEN 0 ELSE ResultRound(t[k], g[k - 1])) = (IF k = 0 THEN 0 ELSE ResultRound(t[k], h[k - 1]))
    <3>1. CASE k = 0
      BY <3>1
    <3>2. CASE k # 0
      <4>1. k - 1 \in 0 .. m - 1
        BY <3>2
      <4> HIDE DEF h
      <4>2. g[k - 1] = h[k - 1]
        BY <2>2, <4>1
      <4> QED BY <3>2, <4>2
    <3> QED BY <3>1, <3>2
  <2>4. Is(h, m)
    BY <2>3
  <2> HIDE DEF Is
  <2>5. \E gg : Is(gg, m)
    BY <2>4
  <2> QED BY <2>5
<1>3. n \in S
  <2> HIDE DEF S
  <2> QED BY <1>1, <1>2, UpTo
<1> QED BY <1>3

LEMMA ResultsDef ==
  ASSUME NEW t, Len(t) \in Nat
  PROVE  Results(t) = [k \in 0 .. Len(t) |-> IF k = 0 THEN 0 ELSE ResultRound(t[k], Results(t)[k - 1])]
BY ResultsExists DEF Results

LEMMA ResultsSteps ==
  ASSUME NEW t, Len(t) \in Nat
  PROVE  /\ Results(t)[0] = 0
         /\ \A k \in 1 .. Len(t) : Results(t)[k] = ResultRound(t[k], Results(t)[k - 1])
BY ResultsDef

LEMMA NumbersExists ==
  ASSUME NEW t, NEW n \in Nat
  PROVE  \E g : g = [k \in 0 .. n |-> IF k = 0 THEN 0 ELSE WithDigit(g[k - 1], t[k])]
<1> DEFINE Is(g, m) == g = [k \in 0 .. m |-> IF k = 0 THEN 0 ELSE WithDigit(g[k - 1], t[k])]
           S == {m \in 0 .. n : \E g : Is(g, m)}
<1>1. 0 \in S
  <2>1. Is([k \in 0 .. 0 |-> 0], 0)
    OBVIOUS
  <2> HIDE DEF Is
  <2>2. \E g : Is(g, 0)
    BY <2>1
  <2> QED BY <2>2
<1>2. ASSUME NEW m \in 1 .. n, m - 1 \in S PROVE m \in S
  <2>1. PICK g : Is(g, m - 1)
    BY <1>2
  <2> DEFINE h == [k \in 0 .. m |-> IF k = 0 THEN 0 ELSE WithDigit(g[k - 1], t[k])]
  <2>2. \A k \in 0 .. m - 1 : h[k] = g[k]
    BY <2>1
  <2>3. ASSUME NEW k \in 0 .. m
        PROVE  (IF k = 0 THEN 0 ELSE WithDigit(g[k - 1], t[k])) = (IF k = 0 THEN 0 ELSE WithDigit(h[k - 1], t[k]))
    <3>1. CASE k = 0
      BY <3>1
    <3>2. CASE k # 0
      <4>1. k - 1 \in 0 .. m - 1
        BY <3>2
      <4> HIDE DEF h
      <4>2. g[k - 1] = h[k - 1]
        BY <2>2, <4>1
      <4> QED BY <3>2, <4>2
    <3> QED BY <3>1, <3>2
  <2>4. Is(h, m)
    BY <2>3
  <2> HIDE DEF Is
  <2>5. \E gg : Is(gg, m)
    BY <2>4
  <2> QED BY <2>5
<1>3. n \in S
  <2> HIDE DEF S
  <2> QED BY <1>1, <1>2, UpTo
<1> QED BY <1>3

LEMMA NumbersDef ==
  ASSUME NEW t, Len(t) \in Nat
  PROVE  Numbers(t) = [k \in 0 .. Len(t) |-> IF k = 0 THEN 0 ELSE WithDigit(Numbers(t)[k - 1], t[k])]
BY NumbersExists DEF Numbers

LEMMA NumbersSteps ==
  ASSUME NEW t, Len(t) \in Nat
  PROVE  /\ Numbers(t)[0] = 0
         /\ \A k \in 1 .. Len(t) : Numbers(t)[k] = WithDigit(Numbers(t)[k - 1], t[k])
BY NumbersDef

(* So does the one of find(), as a function on 0 ..  n.                    *)
IsFinding(t, p, n, g) ==
  g = [k \in 0 .. n |-> IF k = 0 THEN -1 ELSE FindRound(t, p, Len(t) - k, g[k - 1])]

LEMMA FindingExists ==
  ASSUME NEW t, NEW p, NEW n \in Nat
  PROVE  \E g : IsFinding(t, p, n, g)
<1> DEFINE Is(g, m) == g = [k \in 0 .. m |-> IF k = 0 THEN -1 ELSE FindRound(t, p, Len(t) - k, g[k - 1])]
           S == {m \in 0 .. n : \E g : Is(g, m)}
<1>1. 0 \in S
  <2>1. Is([k \in 0 .. 0 |-> -1], 0)
    OBVIOUS
  <2> HIDE DEF Is
  <2>2. \E g : Is(g, 0)
    BY <2>1
  <2> QED BY <2>2
<1>2. ASSUME NEW m \in 1 .. n, m - 1 \in S PROVE m \in S
  <2>1. PICK g : Is(g, m - 1)
    BY <1>2
  <2> DEFINE h == [k \in 0 .. m |-> IF k = 0 THEN -1 ELSE FindRound(t, p, Len(t) - k, g[k - 1])]
  <2>2. \A k \in 0 .. m - 1 : h[k] = g[k]
    BY <2>1
  <2>3. ASSUME NEW k \in 0 .. m
        PROVE  (IF k = 0 THEN -1 ELSE FindRound(t, p, Len(t) - k, g[k - 1])) = (IF k = 0 THEN -1 ELSE FindRound(t, p, Len(t) - k, h[k - 1]))
    <3>1. CASE k = 0
      BY <3>1
    <3>2. CASE k # 0
      <4>1. k - 1 \in 0 .. m - 1
        BY <3>2
      <4> HIDE DEF h
      <4>2. g[k - 1] = h[k - 1]
        BY <2>2, <4>1
      <4> QED BY <3>2, <4>2
    <3> QED BY <3>1, <3>2
  <2>4. Is(h, m)
    BY <2>3
  <2> HIDE DEF Is
  <2>5. \E gg : Is(gg, m)
    BY <2>4
  <2> QED BY <2>5
<1>3. n \in S
  <2> HIDE DEF S
  <2> QED BY <1>1, <1>2, UpTo
<1> QED BY <1>3 DEF IsFinding

LEMMA FindingDef ==
  ASSUME NEW t, NEW p, Len(t) \in Nat
  PROVE  Finding(t, p) = [k \in 0 .. Len(t) |-> IF k = 0 THEN -1 ELSE FindRound(t, p, Len(t) - k, Finding(t, p)[k - 1])]
<1>1. \E g : IsFinding(t, p, Len(t), g)
  BY FindingExists
<1>2. Finding(t, p) = CHOOSE g : IsFinding(t, p, Len(t), g)
  BY DEF Finding, IsFinding
<1>3. IsFinding(t, p, Len(t), Finding(t, p))
  BY <1>1, <1>2
<1> QED BY <1>3 DEF IsFinding

LEMMA FindingSteps ==
  ASSUME NEW t, NEW p, Len(t) \in Nat
  PROVE  /\ Finding(t, p)[0] = -1
         /\ \A k \in 1 .. Len(t) : Finding(t, p)[k] = FindRound(t, p, Len(t) - k, Finding(t, p)[k - 1])
BY FindingDef

LEMMA ExplodeRoundsExists ==
  ASSUME NEW t, NEW d, NEW n \in Nat
  PROVE  \E g : g = [k \in 0 .. n |-> IF k = 0 THEN ExplodeStart ELSE ExplodeRound(t, d, g[k - 1])]
<1> DEFINE Is(g, m) == g = [k \in 0 .. m |-> IF k = 0 THEN ExplodeStart ELSE ExplodeRound(t, d, g[k - 1])]
           S == {m \in 0 .. n : \E g : Is(g, m)}
<1>1. 0 \in S
  <2>1. Is([k \in 0 .. 0 |-> ExplodeStart], 0)
    OBVIOUS
  <2> HIDE DEF Is
  <2>2. \E g : Is(g, 0)
    BY <2>1
  <2> QED BY <2>2
<1>2. ASSUME NEW m \in 1 .. n, m - 1 \in S PROVE m \in S
  <2>1. PICK g : Is(g, m - 1)
    BY <1>2
  <2> DEFINE h == [k \in 0 .. m |-> IF k = 0 THEN ExplodeStart ELSE ExplodeRound(t, d, g[k - 1])]
  <2>2. \A k \in 0 .. m - 1 : h[k] = g[k]
    BY <2>1
  <2>3. ASSUME NEW k \in 0 .. m
        PROVE  (IF k = 0 THEN ExplodeStart ELSE ExplodeRound(t, d, g[k - 1])) = (IF k = 0 THEN ExplodeStart ELSE ExplodeRound(t, d, h[k - 1]))
    <3>1. CASE k = 0
      BY <3>1
    <3>2. CASE k # 0
      <4>1. k - 1 \in 0 .. m - 1
        BY <3>2
      <4> HIDE DEF h
      <4>2. g[k - 1] = h[k - 1]
        BY <2>2, <4>1
      <4> QED BY <3>2, <4>2
    <3> QED BY <3>1, <3>2
  <2>4. Is(h, m)
    BY <2>3
  <2> HIDE DEF Is
  <2>5. \E gg : Is(gg, m)
    BY <2>4
  <2> QED BY <2>5
<1>3. n \in S
  <2> HIDE DEF S
  <2> QED BY <1>1, <1>2, UpTo
<1> QED BY <1>3

LEMMA ExplodeRoundsDef ==
  ASSUME NEW t, NEW d, Len(t) \in Nat
  PROVE  ExplodeRounds(t, d) = [k \in 0 .. Len(t) |-> IF k = 0 THEN ExplodeStart ELSE ExplodeRound(t, d, ExplodeRounds(t, d)[k - 1])]
BY SMTT(30), ExplodeRoundsExists DEF ExplodeRounds

LEMMA ExplodeRoundsSteps ==
  ASSUME NEW t, NEW d, Len(t) \in Nat
  PROVE  /\ ExplodeRounds(t, d)[0] = ExplodeStart
         /\ \A k \in 1 .. Len(t) : ExplodeRounds(t, d)[k] = ExplodeRound(t, d, ExplodeRounds(t, d)[k - 1])
BY ExplodeRoundsDef

LEMMA ImplosionExists ==
  ASSUME NEW s, NEW c, NEW n \in Nat
  PROVE  \E g : g = [k \in 0 .. n |-> IF k = 0 THEN <<>> ELSE ImplodeRound(s, c, k, g[k - 1])]
<1> DEFINE Is(g, m) == g = [k \in 0 .. m |-> IF k = 0 THEN <<>> ELSE ImplodeRound(s, c, k, g[k - 1])]
           S == {m \in 0 .. n : \E g : Is(g, m)}
<1>1. 0 \in S
  <2>1. Is([k \in 0 .. 0 |-> <<>>], 0)
    OBVIOUS
  <2> HIDE DEF Is
  <2>2. \E g : Is(g, 0)
    BY <2>1
  <2> QED BY <2>2
<1>2. ASSUME NEW m \in 1 .. n, m - 1 \in S PROVE m \in S
  <2>1. PICK g : Is(g, m - 1)
    BY <1>2
  <2> DEFINE h == [k \in 0 .. m |-> IF k = 0 THEN <<>> ELSE ImplodeRound(s, c, k, g[k - 1])]
  <2>2. \A k \in 0 .. m - 1 : h[k] = g[k]
    BY <2>1
  <2>3. ASSUME NEW k \in 0 .. m
        PROVE  (IF k = 0 THEN <<>> ELSE ImplodeRound(s, c, k, g[k - 1])) = (IF k = 0 THEN <<>> ELSE ImplodeRound(s, c, k, h[k - 1]))
    <3>1. CASE k = 0
      BY <3>1
    <3>2. CASE k # 0
      <4>1. k - 1 \in 0 .. m - 1
        BY <3>2
      <4> HIDE DEF h
      <4>2. g[k - 1] = h[k - 1]
        BY <2>2, <4>1
      <4> QED BY <3>2, <4>2
    <3> QED BY <3>1, <3>2
  <2>4. Is(h, m)
    BY <2>3
  <2> HIDE DEF Is
  <2>5. \E gg : Is(gg, m)
    BY <2>4
  <2> QED BY <2>5
<1>3. n \in S
  <2> HIDE DEF S
  <2> QED BY <1>1, <1>2, UpTo
<1> QED BY <1>3

LEMMA ImplosionDef ==
  ASSUME NEW s, NEW c, Len(s) \in Nat
  PROVE  Implosion(s, c) = [k \in 0 .. Len(s) |-> IF k = 0 THEN <<>> ELSE ImplodeRound(s, c, k, Implosion(s, c)[k - 1])]
BY ImplosionExists DEF Implosion

LEMMA ImplosionSteps ==
  ASSUME NEW s, NEW c, Len(s) \in Nat
  PROVE  /\ Implosion(s, c)[0] = <<>>
         /\ \A k \in 1 .. Len(s) : Implosion(s, c)[k] = ImplodeRound(s, c, k, Implosion(s, c)[k - 1])
BY ImplosionDef

LEMMA GluingExists ==
  ASSUME NEW s, NEW d, NEW n \in Nat
  PROVE  \E g : g = [k \in 1 .. n |-> IF k = 1 THEN s[1] ELSE GluedTo(g[k - 1], d, s[k])]
<1> DEFINE Is(g, m) == g = [k \in 1 .. m |-> IF k = 1 THEN s[1] ELSE GluedTo(g[k - 1], d, s[k])]
           S == {m \in 0 .. n : \E g : Is(g, m)}
<1>1. 0 \in S
  <2>1. Is([k \in 1 .. 0 |-> s[1]], 0)
    OBVIOUS
  <2> HIDE DEF Is
  <2>2. \E g : Is(g, 0)
    BY <2>1
  <2> QED BY <2>2
<1>2. ASSUME NEW m \in 1 .. n, m - 1 \in S PROVE m \in S
  <2>1. PICK g : Is(g, m - 1)
    BY <1>2
  <2> DEFINE h == [k \in 1 .. m |-> IF k = 1 THEN s[1] ELSE GluedTo(g[k - 1], d, s[k])]
  <2>2. \A k \in 1 .. m - 1 : h[k] = g[k]
    BY <2>1
  <2>3. ASSUME NEW k \in 1 .. m
        PROVE  (IF k = 1 THEN s[1] ELSE GluedTo(g[k - 1], d, s[k])) = (IF k = 1 THEN s[1] ELSE GluedTo(h[k - 1], d, s[k]))
    <3>1. CASE k = 1
      BY <3>1
    <3>2. CASE k # 1
      <4>1. k - 1 \in 1 .. m - 1
        BY <3>2
      <4> HIDE DEF h
      <4>2. g[k - 1] = h[k - 1]
        BY <2>2, <4>1
      <4> QED BY <3>2, <4>2
    <3> QED BY <3>1, <3>2
  <2>4. Is(h, m)
    BY <2>3
  <2> HIDE DEF Is
  <2>5. \E gg : Is(gg, m)
    BY <2>4
  <2> QED BY <2>5
<1>3. n \in S
  <2> HIDE DEF S
  <2> QED BY <1>1, <1>2, UpTo
<1> QED BY <1>3

LEMMA GluingDef ==
  ASSUME NEW s, NEW d, Len(s) \in Nat
  PROVE  Gluing(s, d) = [k \in 1 .. Len(s) |-> IF k = 1 THEN s[1] ELSE GluedTo(Gluing(s, d)[k - 1], d, s[k])]
BY GluingExists DEF Gluing

LEMMA GluingSteps ==
  ASSUME NEW s, NEW d, Len(s) \in Nat, Len(s) > 0
  PROVE  /\ Gluing(s, d)[1] = s[1]
         /\ \A k \in 2 .. Len(s) : Gluing(s, d)[k] = GluedTo(Gluing(s, d)[k - 1], d, s[k])
BY GluingDef

LEMMA EscapeRoundsExists ==
  ASSUME NEW t, NEW w, NEW n \in Nat
  PROVE  \E g : g = [k \in 0 .. n |-> IF k = 0 THEN FromStart(t) ELSE EscapeRound(w, g[k - 1])]
<1> DEFINE Is(g, m) == g = [k \in 0 .. m |-> IF k = 0 THEN FromStart(t) ELSE EscapeRound(w, g[k - 1])]
           S == {m \in 0 .. n : \E g : Is(g, m)}
<1>1. 0 \in S
  <2>1. Is([k \in 0 .. 0 |-> FromStart(t)], 0)
    OBVIOUS
  <2> HIDE DEF Is
  <2>2. \E g : Is(g, 0)
    BY <2>1
  <2> QED BY <2>2
<1>2. ASSUME NEW m \in 1 .. n, m - 1 \in S PROVE m \in S
  <2>1. PICK g : Is(g, m - 1)
    BY <1>2
  <2> DEFINE h == [k \in 0 .. m |-> IF k = 0 THEN FromStart(t) ELSE EscapeRound(w, g[k - 1])]
  <2>2. \A k \in 0 .. m - 1 : h[k] = g[k]
    BY <2>1
  <2>3. ASSUME NEW k \in 0 .. m
        PROVE  (IF k = 0 THEN FromStart(t) ELSE EscapeRound(w, g[k - 1])) = (IF k = 0 THEN FromStart(t) ELSE EscapeRound(w, h[k - 1]))
    <3>1. CASE k = 0
      BY <3>1
    <3>2. CASE k # 0
      <4>1. k - 1 \in 0 .. m - 1
        BY <3>2
      <4> HIDE DEF h
      <4>2. g[k - 1] = h[k - 1]
        BY <2>2, <4>1
      <4> QED BY <3>2, <4>2
    <3> QED BY <3>1, <3>2
  <2>4. Is(h, m)
    BY <2>3
  <2> HIDE DEF Is
  <2>5. \E gg : Is(gg, m)
    BY <2>4
  <2> QED BY <2>5
<1>3. n \in S
  <2> HIDE DEF S
  <2> QED BY <1>1, <1>2, UpTo
<1> QED BY <1>3

LEMMA EscapeRoundsDef ==
  ASSUME NEW t, NEW w, Len(t) \in Nat
  PROVE  EscapeRounds(t, w) = [k \in 0 .. Len(t) |-> IF k = 0 THEN FromStart(t) ELSE EscapeRound(w, EscapeRounds(t, w)[k - 1])]
BY SMTT(30), EscapeRoundsExists DEF EscapeRounds

LEMMA EscapeRoundsSteps ==
  ASSUME NEW t, NEW w, Len(t) \in Nat
  PROVE  /\ EscapeRounds(t, w)[0] = FromStart(t)
         /\ \A k \in 1 .. Len(t) : EscapeRounds(t, w)[k] = EscapeRound(w, EscapeRounds(t, w)[k - 1])
BY EscapeRoundsDef

LEMMA EscapeWordsExists ==
  ASSUME NEW t, NEW ws, NEW n \in Nat
  PROVE  \E g : g = [k \in 0 .. n |-> IF k = 0 THEN t ELSE EscapeWord(g[k - 1], ws[k])]
<1> DEFINE Is(g, m) == g = [k \in 0 .. m |-> IF k = 0 THEN t ELSE EscapeWord(g[k - 1], ws[k])]
           S == {m \in 0 .. n : \E g : Is(g, m)}
<1>1. 0 \in S
  <2>1. Is([k \in 0 .. 0 |-> t], 0)
    OBVIOUS
  <2> HIDE DEF Is
  <2>2. \E g : Is(g, 0)
    BY <2>1
  <2> QED BY <2>2
<1>2. ASSUME NEW m \in 1 .. n, m - 1 \in S PROVE m \in S
  <2>1. PICK g : Is(g, m - 1)
    BY <1>2
  <2> DEFINE h == [k \in 0 .. m |-> IF k = 0 THEN t ELSE EscapeWord(g[k - 1], ws[k])]
  <2>2. \A k \in 0 .. m - 1 : h[k] = g[k]
    BY <2>1
  <2>3. ASSUME NEW k \in 0 .. m
        PROVE  (IF k = 0 THEN t ELSE EscapeWord(g[k - 1], ws[k])) = (IF k = 0 THEN t ELSE EscapeWord(h[k - 1], ws[k]))
    <3>1. CASE k = 0
      BY <3>1
    <3>2. CASE k # 0
      <4>1. k - 1 \in 0 .. m - 1
        BY <3>2
      <4> HIDE DEF h
      <4>2. g[k - 1] = h[k - 1]
        BY <2>2, <4>1
      <4> QED BY <3>2, <4>2
    <3> QED BY <3>1, <3>2
  <2>4. Is(h, m)
    BY <2>3
  <2> HIDE DEF Is
  <2>5. \E gg : Is(gg, m)
    BY <2>4
  <2> QED BY <2>5
<1>3. n \in S
  <2> HIDE DEF S
  <2> QED BY <1>1, <1>2, UpTo
<1> QED BY <1>3

LEMMA EscapeWordsDef ==
  ASSUME NEW t, NEW ws, Len(ws) \in Nat
  PROVE  EscapeWords(t, ws) = [k \in 0 .. Len(ws) |-> IF k = 0 THEN t ELSE EscapeWord(EscapeWords(t, ws)[k - 1], ws[k])]
BY EscapeWordsExists DEF EscapeWords

LEMMA EscapeWordsSteps ==
  ASSUME NEW t, NEW ws, Len(ws) \in Nat
  PROVE  /\ EscapeWords(t, ws)[0] = t
         /\ \A k \in 1 .. Len(ws) : EscapeWords(t, ws)[k] = EscapeWord(EscapeWords(t, ws)[k - 1], ws[k])
BY EscapeWordsDef

LEMMA UnescapeRoundsExists ==
  ASSUME NEW t, NEW w, NEW n \in Nat
  PROVE  \E g : g = [k \in 0 .. n |-> IF k = 0 THEN FromStart(t) ELSE UnescapeRound(w, g[k - 1])]
<1> DEFINE Is(g, m) == g = [k \in 0 .. m |-> IF k = 0 THEN FromStart(t) ELSE UnescapeRound(w, g[k - 1])]
           S == {m \in 0 .. n : \E g : Is(g, m)}
<1>1. 0 \in S
  <2>1. Is([k \in 0 .. 0 |-> FromStart(t)], 0)
    OBVIOUS
  <2> HIDE DEF Is
  <2>2. \E g : Is(g, 0)
    BY <2>1
  <2> QED BY <2>2
<1>2. ASSUME NEW m \in 1 .. n, m - 1 \in S PROVE m \in S
  <2>1. PICK g : Is(g, m - 1)
    BY <1>2
  <2> DEFINE h == [k \in 0 .. m |-> IF k = 0 THEN FromStart(t) ELSE UnescapeRound(w, g[k - 1])]
  <2>2. \A k \in 0 .. m - 1 : h[k] = g[k]
    BY <2>1
  <2>3. ASSUME NEW k \in 0 .. m
        PROVE  (IF k = 0 THEN FromStart(t) ELSE UnescapeRound(w, g[k - 1])) = (IF k = 0 THEN FromStart(t) ELSE UnescapeRound(w, h[k - 1]))
    <3>1. CASE k = 0
      BY <3>1
    <3>2. CASE k # 0
      <4>1. k - 1 \in 0 .. m - 1
        BY <3>2
      <4> HIDE DEF h
      <4>2. g[k - 1] = h[k - 1]
        BY <2>2, <4>1
      <4> QED BY <3>2, <4>2
    <3> QED BY <3>1, <3>2
  <2>4. Is(h, m)
    BY <2>3
  <2> HIDE DEF Is
  <2>5. \E gg : Is(gg, m)
    BY <2>4
  <2> QED BY <2>5
<1>3. n \in S
  <2> HIDE DEF S
  <2> QED BY <1>1, <1>2, UpTo
<1> QED BY <1>3

LEMMA UnescapeRoundsDef ==
  ASSUME NEW t, NEW w, Len(t) \in Nat
  PROVE  UnescapeRounds(t, w) = [k \in 0 .. Len(t) |-> IF k = 0 THEN FromStart(t) ELSE UnescapeRound(w, UnescapeRounds(t, w)[k - 1])]
BY SMTT(30), UnescapeRoundsExists DEF UnescapeRounds

LEMMA UnescapeRoundsSteps ==
  ASSUME NEW t, NEW w, Len(t) \in Nat
  PROVE  /\ UnescapeRounds(t, w)[0] = FromStart(t)
         /\ \A k \in 1 .. Len(t) : UnescapeRounds(t, w)[k] = UnescapeRound(w, UnescapeRounds(t, w)[k - 1])
BY UnescapeRoundsDef

LEMMA UnescapeWordsExists ==
  ASSUME NEW t, NEW ws, NEW n \in Nat
  PROVE  \E g : g = [k \in 0 .. n |-> IF k = 0 THEN t ELSE UnescapeWord(g[k - 1], ws[k])]
<1> DEFINE Is(g, m) == g = [k \in 0 .. m |-> IF k = 0 THEN t ELSE UnescapeWord(g[k - 1], ws[k])]
           S == {m \in 0 .. n : \E g : Is(g, m)}
<1>1. 0 \in S
  <2>1. Is([k \in 0 .. 0 |-> t], 0)
    OBVIOUS
  <2> HIDE DEF Is
  <2>2. \E g : Is(g, 0)
    BY <2>1
  <2> QED BY <2>2
<1>2. ASSUME NEW m \in 1 .. n, m - 1 \in S PROVE m \in S
  <2>1. PICK g : Is(g, m - 1)
    BY <1>2
  <2> DEFINE h == [k \in 0 .. m |-> IF k = 0 THEN t ELSE UnescapeWord(g[k - 1], ws[k])]
  <2>2. \A k \in 0 .. m - 1 : h[k] = g[k]
    BY <2>1
  <2>3. ASSUME NEW k \in 0 .. m
        PROVE  (IF k = 0 THEN t ELSE UnescapeWord(g[k - 1], ws[k])) = (IF k = 0 THEN t ELSE UnescapeWord(h[k - 1], ws[k]))
    <3>1. CASE k = 0
      BY <3>1
    <3>2. CASE k # 0
      <4>1. k - 1 \in 0 .. m - 1
        BY <3>2
      <4> HIDE DEF h
      <4>2. g[k - 1] = h[k - 1]
        BY <2>2, <4>1
      <4> QED BY <3>2, <4>2
    <3> QED BY <3>1, <3>2
  <2>4. Is(h, m)
    BY <2>3
  <2> HIDE DEF Is
  <2>5. \E gg : Is(gg, m)
    BY <2>4
  <2> QED BY <2>5
<1>3. n \in S
  <2> HIDE DEF S
  <2> QED BY <1>1, <1>2, UpTo
<1> QED BY <1>3

LEMMA UnescapeWordsDef ==
  ASSUME NEW t, NEW ws, Len(ws) \in Nat
  PROVE  UnescapeWords(t, ws) = [k \in 0 .. Len(ws) |-> IF k = 0 THEN t ELSE UnescapeWord(UnescapeWords(t, ws)[k - 1], ws[k])]
BY UnescapeWordsExists DEF UnescapeWords

LEMMA UnescapeWordsSteps ==
  ASSUME NEW t, NEW ws, Len(ws) \in Nat
  PROVE  /\ UnescapeWords(t, ws)[0] = t
         /\ \A k \in 1 .. Len(ws) : UnescapeWords(t, ws)[k] = UnescapeWord(UnescapeWords(t, ws)[k - 1], ws[k])
BY UnescapeWordsDef

-----------------------------------------------------------------------------
(* Numbers.                                                                *)

Numerals == {"0", "1", "2"}

(* The value of a numeral is a digit.                                      *)
LEMMA ValueMeans ==
  /\ DOMAIN Value = Numerals
  /\ \A c \in Numerals : Value[c] \in Nat
BY DEF Value, Numerals

(* After k digits, result is ten times their number, and never less than   *)
(* after k - 1.                                                            *)
LEMMA ResultsMean ==
  ASSUME NEW t \in Seq(Numerals)
  PROVE  /\ \A k \in 0 .. Len(t) : /\ Numbers(t)[k] \in Nat
                                   /\ Results(t)[k] = 10 * Numbers(t)[k]
         /\ \A k \in 1 .. Len(t) : Numbers(t)[k - 1] <= Numbers(t)[k]
<1>1. Len(t) \in Nat /\ \A k \in 1 .. Len(t) : Value[t[k]] \in Nat
  BY ValueMeans, LenProperties, ElementOfSeq
<1> DEFINE n == Len(t)
           r == Results(t)
           f == Numbers(t)
<1>2. r[0] = 0 /\ \A k \in 1 .. n : r[k] = (r[k - 1] + Value[t[k]]) * 10
  BY <1>1, ResultsSteps DEF ResultRound
<1>3. f[0] = 0 /\ \A k \in 1 .. n : f[k] = 10 * f[k - 1] + Value[t[k]]
  BY <1>1, NumbersSteps DEF WithDigit
<1> HIDE DEF n, r, f
<1>4. ASSUME NEW k \in 1 .. n, f[k - 1] \in Nat, r[k - 1] = 10 * f[k - 1]
      PROVE  f[k] \in Nat /\ r[k] = 10 * f[k] /\ f[k - 1] <= f[k]
  <2>1. PICK v \in Nat : v = Value[t[k]]
    BY <1>1 DEF n
  <2>2. PICK a \in Nat : a = f[k - 1]
    BY <1>4
  <2>3. f[k] = 10 * a + v /\ r[k] = (10 * a + v) * 10
    BY <1>2, <1>3, <1>4, <2>1, <2>2
  <2> QED BY SMTT(30), <2>2, <2>3
<1> DEFINE S == {k \in 0 .. n : f[k] \in Nat /\ r[k] = 10 * f[k]}
<1>5. 0 .. n \subseteq S
  <2>1. 0 \in S
    BY <1>1, <1>2, <1>3 DEF n
  <2>2. \A k \in 1 .. n : k - 1 \in S => k \in S
    BY <1>4
  <2>3. n \in Nat
    BY <1>1 DEF n
  <2> HIDE DEF S
  <2> QED BY <2>1, <2>2, <2>3, UpTo
<1>6. \A k \in 0 .. n : f[k] \in Nat /\ r[k] = 10 * f[k]
  BY <1>5
<1>7. \A k \in 1 .. n : f[k - 1] <= f[k]
  <2> SUFFICES ASSUME NEW k \in 1 .. n PROVE f[k - 1] <= f[k]
    OBVIOUS
  <2>1. k - 1 \in 0 .. n
    BY <1>1 DEF n
  <2> QED BY <1>4, <1>6, <2>1
<1> QED BY <1>6, <1>7 DEF n, r, f

(* So if the last result is an int, each one is.                           *)
LEMMA LastIsLargest ==
  ASSUME NEW t \in Seq(Numerals)
  PROVE  \A k \in 0 .. Len(t) : Numbers(t)[k] <= Numbers(t)[Len(t)]
<1> DEFINE n == Len(t)
           f == Numbers(t)
           S == {d \in 0 .. n : f[n - d] <= f[n]}
<1>1. n \in Nat
  BY LenProperties
<1>2. /\ \A k \in 0 .. n : f[k] \in Nat
      /\ \A k \in 1 .. n : f[k - 1] <= f[k]
  BY ResultsMean
<1> HIDE DEF n, f
<1>3. 0 \in S
  BY <1>1, <1>2
<1>4. ASSUME NEW d \in 1 .. n, d - 1 \in S PROVE d \in S
  <2>1. PICK k \in 1 .. n : k = n - (d - 1)
    BY <1>1
  <2>2. f[k] <= f[n] /\ f[k - 1] <= f[k] /\ k - 1 = n - d
    BY <1>1, <1>2, <1>4, <2>1
  <2>3. f[k] \in Nat /\ f[n] \in Nat /\ f[k - 1] \in Nat
    <3>1. k \in 0 .. n /\ n \in 0 .. n /\ k - 1 \in 0 .. n
      BY <1>1
    <3> QED BY <1>2, <3>1
  <2>4. f[n - d] <= f[n]
    BY <2>2, <2>3
  <2> QED BY <2>4
<1>5. 0 .. n \subseteq S
  <2> HIDE DEF S
  <2> QED BY <1>1, <1>3, <1>4, UpTo
<1>6. ASSUME NEW k \in 0 .. n PROVE f[k] <= f[n]
  <2>1. PICK d \in 0 .. n : d = n - k
    BY <1>1
  <2>2. n - d = k
    BY <1>1, <2>1
  <2>3. f[n - d] <= f[n]
    BY <1>5, <2>1
  <2> QED BY <2>2, <2>3
<1> QED BY <1>6 DEF n, f

(* What Digits makes of numerals is the number they write.                 *)
LEMMA DigitsAreTheNumber ==
  ASSUME NEW t \in Seq(Numerals)
  PROVE  /\ Digits(t).value = Numbers(t)[Len(t)]
         /\ Numbers(t)[Len(t)] \in Nat
         /\ 10 * Numbers(t)[Len(t)] <= IntMax => Digits(t).defined
<1> DEFINE n == Len(t)
           f == Numbers(t)
           r == Results(t)
<1>1. n \in Nat
  BY LenProperties
<1>2. \A k \in 0 .. n : f[k] \in Nat /\ r[k] = 10 * f[k] /\ f[k] <= f[n]
  BY ResultsMean, LastIsLargest
<1>3. Digits(t) = [value |-> r[n] \div 10, defined |-> \A k \in 0 .. n : r[k] <= IntMax]
  BY DEF Digits
<1> HIDE DEF n, f, r
<1>4. PICK a \in Nat : a = f[n]
  BY <1>1, <1>2
<1>5. r[n] = 10 * a
  BY <1>1, <1>2, <1>4
<1>6. Digits(t).value = a
  <2>1. (10 * a) \div 10 = a
    OBVIOUS
  <2> QED BY <1>3, <1>5, <2>1
<1>7. ASSUME 10 * a <= IntMax PROVE \A k \in 0 .. n : r[k] <= IntMax
  <2> SUFFICES ASSUME NEW k \in 0 .. n PROVE r[k] <= IntMax
    OBVIOUS
  <2>1. PICK b \in Nat : b = f[k]
    BY <1>2
  <2>2. b <= a /\ r[k] = 10 * b
    BY <1>2, <1>4, <2>1
  <2> QED BY <1>7, <2>2, WordsAssumption
<1>8. 10 * a <= IntMax => Digits(t).defined
  BY <1>3, <1>7
<1> QED BY <1>4, <1>6, <1>8 DEF n, f

(* Inputs are texts.                                                       *)
LEMMA InputsAreTexts == Inputs \subseteq Seq(Alphabet)
<1> SUFFICES ASSUME NEW n \in 0 .. MaxText, NEW t \in [1 .. n -> Alphabet]
             PROVE  t \in Seq(Alphabet)
  BY DEF Inputs
<1>1. n \in Nat
  BY WordsAssumption
<1> QED BY <1>1, SeqDef

(* The number of the digits of t, without a minus.                         *)
NumberOf(t, p) ==
  /\ p.success =>
       LET n == Written(t)
       IN  (10 * n <= IntMax /\ 10 * n >= -IntMax) => (p.defined /\ p.value = n)
  /\ ~p.success => p.value = 0

(* A text that is taken as a number is the one that is written there.      *)
LEMMA ParsedIsWritten ==
  ASSUME NEW t \in Seq(Alphabet), t # <<>>
  PROVE  NumberOf(t, ParsedAs(t))
<1> DEFINE minus == t[1] = "-"
           rest  == IF minus THEN Tail(t) ELSE t
           n     == Digits(rest)
           refused == \/ rest # <<>> /\ rest[1] = "0" /\ (Len(rest) > 1 \/ minus)
                      \/ \E i \in 1 .. Len(rest) : rest[i] \notin DOMAIN Value
           w == Numbers(rest)[Len(rest)]
<1>1. ParsedAs(t) = IF refused THEN Failed
                    ELSE [success |-> TRUE, value |-> IF minus THEN -n.value ELSE n.value,
                          defined |-> n.defined]
  BY DEF ParsedAs
<1>2. Written(t) = IF minus THEN -w ELSE w
  BY DEF Written
<1>3. CASE refused
  <2>1. ParsedAs(t) = Failed
    BY <1>1, <1>3
  <2> QED BY <2>1 DEF Failed, NumberOf
<1>4. CASE ~refused
  <2>1. rest \in Seq(Alphabet)
    BY HeadTailProperties
  <2>2. \A i \in 1 .. Len(rest) : rest[i] \in Numerals
    BY <1>4, ValueMeans
  <2> HIDE DEF rest
  <2>3. rest \in Seq(Numerals)
    BY <2>1, <2>2, SeqDef, LenProperties, IsASeq
  <2>4. n.value = w /\ w \in Nat /\ (10 * w <= IntMax => n.defined)
    BY <2>3, DigitsAreTheNumber
  <2> HIDE DEF n, w, refused
  <2>5. ParsedAs(t).success /\ ParsedAs(t).defined = n.defined
        /\ ParsedAs(t).value = IF minus THEN -n.value ELSE n.value
    BY <1>1, <1>4
  <2>6. ParsedAs(t).value = Written(t)
    BY <1>2, <2>4, <2>5
  <2>7. (10 * Written(t) <= IntMax /\ 10 * Written(t) >= -IntMax) => 10 * w <= IntMax
    BY <1>2, <2>4, WordsAssumption
  <2> QED BY <2>4, <2>5, <2>6, <2>7 DEF NumberOf
<1> QED BY <1>3, <1>4

-----------------------------------------------------------------------------
(* Cuts of a text.                                                         *)

LEMMA CutMeans ==
  ASSUME NEW C, NEW t \in Seq(C), NEW a \in 0 .. Len(t), NEW b \in a .. Len(t)
  PROVE  /\ SubSeq(t, a + 1, b) \in Seq(C)
         /\ Len(SubSeq(t, a + 1, b)) = b - a
         /\ \A i \in 1 .. b - a : SubSeq(t, a + 1, b)[i] = t[a + i]
<1>1. Len(t) \in Nat
  BY LenProperties
<1>2. \A i \in a + 1 .. b : t[i] \in C
  BY <1>1, ElementOfSeq
<1>3. a + 1 \in Int /\ b \in Int
  BY <1>1
<1>4. /\ SubSeq(t, a + 1, b) \in Seq(C)
      /\ Len(SubSeq(t, a + 1, b)) = IF a + 1 <= b THEN b - (a + 1) + 1 ELSE 0
      /\ \A i \in 1 .. b - (a + 1) + 1 : SubSeq(t, a + 1, b)[i] = t[(a + 1) + i - 1]
  BY <1>2, <1>3, SubSeqProperties
<1>5. ASSUME NEW i \in 1 .. b - a PROVE SubSeq(t, a + 1, b)[i] = t[a + i]
  <2>1. i \in 1 .. b - (a + 1) + 1 /\ (a + 1) + i - 1 = a + i
    BY <1>1
  <2>2. SubSeq(t, a + 1, b)[i] = t[(a + 1) + i - 1]
    BY <1>4, <2>1
  <2> QED BY <2>1, <2>2
<1>6. Len(SubSeq(t, a + 1, b)) = b - a
  BY <1>1, <1>4
<1> QED BY <1>4, <1>5, <1>6

(* Two cuts that meet are one.                                             *)
LEMMA CutsJoin ==
  ASSUME NEW C, NEW t \in Seq(C), NEW a \in 0 .. Len(t), NEW b \in a .. Len(t),
         NEW c \in b .. Len(t)
  PROVE  SubSeq(t, a + 1, b) \o SubSeq(t, b + 1, c) = SubSeq(t, a + 1, c)
<1>1. Len(t) \in Nat
  BY LenProperties
<1>2. a + 1 \in 1 .. Len(t) + 1 /\ b \in (a + 1) - 1 .. Len(t)
  BY <1>1
<1> QED BY <1>2, ConcatAdjacentSubSeq

(* Two cuts that meet are one, from the start of the text.                 *)
LEMMA FirstCutsJoin ==
  ASSUME NEW C, NEW t \in Seq(C), NEW b \in 0 .. Len(t), NEW c \in b .. Len(t)
  PROVE  SubSeq(t, 1, b) \o SubSeq(t, b + 1, c) = SubSeq(t, 1, c)
<1>1. PICK a \in 0 .. Len(t) : a = 0
  BY LenProperties
<1>2. SubSeq(t, a + 1, b) \o SubSeq(t, b + 1, c) = SubSeq(t, a + 1, c)
  <2>1. b \in a .. Len(t)
    BY <1>1
  <2> QED BY <2>1, CutsJoin
<1>3. a + 1 = 1
  BY <1>1
<1> QED BY <1>2, <1>3

-----------------------------------------------------------------------------
(* Finding.                                                                *)

(* How far a place agrees with p.                                          *)
LEMMA AgreeingMeans ==
  ASSUME NEW t, NEW p, NEW s \in Nat, Len(t) \in Nat, Len(p) \in Nat
  PROVE  /\ Agreeing(t, p, s) = Len(p) <=>
              \A k \in 1 .. Len(p) : s + k <= Len(t) /\ t[s + k] = p[k]
<1> DEFINE Same(k) == s + k <= Len(t) /\ t[s + k] = p[k]
           Good(n) == /\ \A k \in 1 .. n : Same(k)
                      /\ n = Len(p) \/ ~(s + n + 1 <= Len(t) /\ t[s + n + 1] = p[n + 1])
           m == Len(p)
           K == {k \in 1 .. m : ~Same(k)}
<1>1. Agreeing(t, p, s) = CHOOSE n \in 0 .. m : Good(n)
  BY DEF Agreeing
<1>2. \E n \in 0 .. m : Good(n)
  <2>1. CASE K = {}
    <3>1. Good(m)
      BY <2>1
    <3> QED BY SMTT(30), <3>1
  <2>2. CASE K # {}
    <3>1. K \subseteq Nat
      OBVIOUS
    <3>2. PICK k \in K : \A y \in K : k <= y
      <4> HIDE DEF K
      <4> QED BY <2>2, <3>1, LeastOf
    <3>3. PICK n \in 0 .. m : n = k - 1
      BY <3>2
    <3>4. \A x \in 1 .. n : Same(x)
      <4> TAKE x \in 1 .. n
      <4>1. x \in 1 .. m /\ ~(k <= x)
        BY <3>2, <3>3
      <4> QED BY <3>2, <4>1
    <3>5. s + n + 1 = s + k /\ n + 1 = k
      BY <3>2, <3>3
    <3>6. ~(s + n + 1 <= Len(t) /\ t[s + n + 1] = p[n + 1])
      BY <3>2, <3>5
    <3> QED BY <3>4, <3>6
  <2> QED BY <2>1, <2>2
<1> HIDE DEF Good
<1>3. Agreeing(t, p, s) \in 0 .. m /\ Good(Agreeing(t, p, s))
  BY <1>1, <1>2
<1>4. ASSUME Agreeing(t, p, s) = m PROVE \A k \in 1 .. m : Same(k)
  BY <1>3, <1>4 DEF Good
<1>5. ASSUME \A k \in 1 .. m : Same(k) PROVE Agreeing(t, p, s) = m
  <2>1. PICK n \in 0 .. m : n = Agreeing(t, p, s)
    BY <1>3
  <2>2. n = m \/ ~(s + n + 1 <= Len(t) /\ t[s + n + 1] = p[n + 1])
    BY <1>3, <2>1 DEF Good
  <2>3. n # m => n + 1 \in 1 .. m /\ s + n + 1 = s + (n + 1)
    OBVIOUS
  <2>4. n # m => Same(n + 1)
    BY <1>5, <2>3
  <2> QED BY <2>1, <2>2, <2>3, <2>4
<1> QED BY <1>4, <1>5

(* IsHere says that all of p follows behind place s.                       *)
LEMMA IsHereMeans ==
  ASSUME NEW t, NEW p, Len(t) \in Nat, Len(p) \in Nat, Len(p) > 0,
         NEW s \in 0 .. Len(t) - 1
  PROVE  IsHere(t, p, s) <=>
           s <= Len(t) - Len(p) /\ \A k \in 1 .. Len(p) : t[s + k] = p[k]
<1>1. ASSUME IsHere(t, p, s)
      PROVE  s <= Len(t) - Len(p) /\ \A k \in 1 .. Len(p) : t[s + k] = p[k]
  <2>1. Agreeing(t, p, s) = Len(p) /\ Len(t) - (s + 1) >= Len(p) - 1
    BY <1>1 DEF IsHere
  <2>2. \A k \in 1 .. Len(p) : t[s + k] = p[k]
    BY <2>1, AgreeingMeans
  <2> QED BY <2>1, <2>2
<1>2. ASSUME s <= Len(t) - Len(p), \A k \in 1 .. Len(p) : t[s + k] = p[k]
      PROVE  IsHere(t, p, s)
  <2>1. \A k \in 1 .. Len(p) : s + k <= Len(t)
    BY <1>2
  <2>2. Agreeing(t, p, s) = Len(p)
    BY <1>2, <2>1, AgreeingMeans
  <2>3. 1 \in 1 .. Len(p) /\ Len(t) - (s + 1) >= Len(p) - 1
    BY <1>2
  <2> QED BY <1>2, <2>2, <2>3 DEF IsHere
<1> QED BY <1>1, <1>2

(* Where all of p follows, from place s on.                                *)
Places(t, p, s) ==
  {r \in s .. Len(t) - Len(p) : \A k \in 1 .. Len(p) : t[r + k] = p[k]}

FirstPlace(S, x) == (x = -1 /\ S = {}) \/ (x \in S /\ \A q \in S : x <= q)

(* find() returns the first of them.                                       *)
LEMMA FindingIsFirst ==
  ASSUME NEW t, NEW p, Len(t) \in Nat, Len(p) \in Nat, Len(p) > 0
  PROVE  \A n \in 0 .. Len(t) : FirstPlace(Places(t, p, Len(t) - n), Finding(t, p)[n])
<1> DEFINE f == Finding(t, p)
<1>1. PICK m \in Nat : m = Len(t)
  OBVIOUS
<1>2. f[0] = -1 /\ \A n \in 1 .. m : f[n] = FindRound(t, p, m - n, f[n - 1])
  BY <1>1, FindingSteps
<1> HIDE DEF f
<1> DEFINE T == {n \in 0 .. m : FirstPlace(Places(t, p, m - n), f[n])}
<1>3. 0 \in T
  <2>1. Places(t, p, m - 0) = {}
    BY <1>1 DEF Places
  <2> QED BY <1>2, <2>1 DEF FirstPlace
<1>4. ASSUME NEW n \in 1 .. m, n - 1 \in T PROVE n \in T
  <2>1. PICK s \in 0 .. m - 1 : s = m - n
    OBVIOUS
  <2>2. PICK z \in 1 .. m : z = m - (n - 1) /\ z = s + 1
    BY <2>1
  <2>3. FirstPlace(Places(t, p, z), f[n - 1])
    BY <1>4, <2>2
  <2>4. f[n] = IF IsHere(t, p, s) THEN s ELSE f[n - 1]
    BY <1>2, <2>1 DEF FindRound
  <2>5. IsHere(t, p, s) <=> s \in Places(t, p, s)
    <3>1. s \in 0 .. Len(t) - 1
      BY <1>1
    <3>2. IsHere(t, p, s) <=> (s <= Len(t) - Len(p) /\ \A k \in 1 .. Len(p) : t[s + k] = p[k])
      BY <3>1, IsHereMeans
    <3>3. s <= Len(t) - Len(p) <=> s \in s .. Len(t) - Len(p)
      BY <1>1
    <3> QED BY <3>2, <3>3 DEF Places
  <2>6. \A r \in Places(t, p, s) : r = s \/ r \in Places(t, p, z)
    BY <1>1, <2>2 DEF Places
  <2>7. \A r \in Places(t, p, z) : r \in Places(t, p, s) /\ r >= s /\ r # s
    BY <1>1, <2>2 DEF Places
  <2>8. \A r \in Places(t, p, s) : s <= r
    BY <1>1, <2>1 DEF Places
  <2>9. FirstPlace(Places(t, p, s), f[n])
    <3>1. CASE IsHere(t, p, s)
      BY <2>4, <2>5, <2>8, <3>1 DEF FirstPlace
    <3>2. CASE ~IsHere(t, p, s)
      <4>1. Places(t, p, s) = Places(t, p, z)
        BY <2>5, <2>6, <2>7, <3>2
      <4> QED BY <2>3, <2>4, <3>2, <4>1
    <3> QED BY <3>1, <3>2
  <2> QED BY <2>1, <2>9
<1>5. 0 .. m \subseteq T
  <2> HIDE DEF T
  <2> QED BY <1>3, <1>4, UpTo
<1> QED BY <1>1, <1>5 DEF f

(* find() from any place: the first one at or behind it, or -1.            *)
LEMMA FindMeans ==
  ASSUME NEW C, NEW t \in Seq(C), NEW p \in Seq(C), Len(p) > 0, NEW s \in Nat
  PROVE  \/ Find(t, p, s) = -1 /\ Places(t, p, s) = {}
         \/ /\ Find(t, p, s) \in Places(t, p, s)
            /\ \A q \in Places(t, p, s) : Find(t, p, s) <= q
            /\ Find(t, p, s) # -1
            /\ Find(t, p, s) \in s .. Len(t) - Len(p)
<1>1. Len(t) \in Nat /\ Len(p) \in Nat
  BY LenProperties
<1>2. CASE s >= Len(t)
  <2>1. Places(t, p, s) = {}
    BY <1>1, <1>2 DEF Places
  <2> QED BY <1>2, <2>1 DEF Find
<1>3. CASE ~(s >= Len(t))
  <2>1. PICK n \in 0 .. Len(t) : n = Len(t) - s
    <3>1. Len(t) - s \in 0 .. Len(t)
      BY <1>1, <1>3
    <3> QED BY <3>1
  <2>2. Len(t) - n = s
    BY <1>1, <2>1
  <2>3. Find(t, p, s) = Finding(t, p)[n]
    BY <1>3, <2>1 DEF Find
  <2>4. FirstPlace(Places(t, p, s), Find(t, p, s))
    BY <1>1, <2>2, <2>3, FindingIsFirst
  <2>5. \A r \in Places(t, p, s) : r \in s .. Len(t) - Len(p) /\ r # -1
    BY <1>1 DEF Places
  <2> QED BY <2>4, <2>5 DEF FirstPlace
<1> QED BY <1>2, <1>3

(* At a place of p, the text has p.                                        *)
LEMMA PlacesAreHere ==
  ASSUME NEW C, NEW t \in Seq(C), NEW p \in Seq(C), NEW s \in Nat
  PROVE  \A q \in Int :
           q \in Places(t, p, s) <=>
             q \in s .. Len(t) - Len(p) /\ SubSeq(t, q + 1, q + Len(p)) = p
<1> SUFFICES ASSUME NEW q \in s .. Len(t) - Len(p)
             PROVE  SubSeq(t, q + 1, q + Len(p)) = p
                      <=> \A k \in 1 .. Len(p) : p[k] = t[q + k]
  BY DEF Places
<1>1. Len(t) \in Nat /\ Len(p) \in Nat
  BY LenProperties
<1>2. q \in 0 .. Len(t) /\ q + Len(p) \in q .. Len(t) /\ (q + Len(p)) - q = Len(p)
  BY <1>1
<1> DEFINE u == SubSeq(t, q + 1, q + Len(p))
<1>3. u \in Seq(C) /\ Len(u) = Len(p) /\ \A k \in 1 .. Len(p) : u[k] = t[q + k]
  BY <1>2, CutMeans
<1> HIDE DEF u
<1>4. ASSUME \A k \in 1 .. Len(p) : p[k] = t[q + k] PROVE u = p
  BY <1>3, <1>4, SeqEqual
<1>5. ASSUME u = p PROVE \A k \in 1 .. Len(p) : p[k] = t[q + k]
  BY <1>3, <1>5
<1> QED BY <1>4, <1>5 DEF u

(* Before the first place, there is none.                                  *)
LEMMA NoneWithin ==
  ASSUME NEW C, NEW t \in Seq(C), NEW p \in Seq(C), Len(p) > 0,
         NEW a \in 0 .. Len(t), NEW b \in a .. Len(t),
         \A q \in Places(t, p, a) : q >= b
  PROVE  ~Within(SubSeq(t, a + 1, b), p)
<1> DEFINE u == SubSeq(t, a + 1, b)
<1>1. Len(t) \in Nat /\ Len(p) \in Nat
  BY LenProperties
<1>2. u \in Seq(C) /\ Len(u) = b - a /\ \A i \in 1 .. b - a : u[i] = t[a + i]
  BY CutMeans
<1> HIDE DEF u
<1> SUFFICES ASSUME NEW s \in 0 .. Len(u) - Len(p), SubSeq(u, s + 1, s + Len(p)) = p
             PROVE  FALSE
  BY DEF Within, u
<1>3. s \in 0 .. Len(u) /\ s + Len(p) \in s .. Len(u) /\ (s + Len(p)) - s = Len(p)
  BY <1>1, <1>2
<1>4. \A k \in 1 .. Len(p) : p[k] = u[s + k]
  <2>1. PICK e \in s .. Len(u) : e = s + Len(p)
    BY <1>3
  <2>2. \A k \in 1 .. e - s : SubSeq(u, s + 1, e)[k] = u[s + k]
    BY <1>2, <1>3, CutMeans
  <2>3. e - s = Len(p) /\ SubSeq(u, s + 1, e) = p
    BY <1>1, <1>3, <2>1
  <2> QED BY <2>2, <2>3
<1>5. ASSUME NEW k \in 1 .. Len(p) PROVE p[k] = t[(a + s) + k]
  <2>1. s + k \in 1 .. b - a /\ a + (s + k) = (a + s) + k
    BY <1>1, <1>2
  <2>2. u[s + k] = t[a + (s + k)]
    BY <1>2, <2>1
  <2> QED BY <1>4, <2>1, <2>2
<1>6. PICK q \in a .. Len(t) - Len(p) : q = a + s
  BY <1>1, <1>2
<1>7. \A k \in 1 .. Len(p) : t[q + k] = p[k]
  BY <1>5, <1>6
<1>8. q \in Places(t, p, a)
  BY <1>6, <1>7 DEF Places
<1>9. q < b
  BY <1>1, <1>2, <1>6
<1> QED BY <1>1, <1>8, <1>9

-----------------------------------------------------------------------------
(* Gluing.                                                                 *)

LEMMA GluingIsText ==
  ASSUME NEW C, NEW s \in Seq(Seq(C)), NEW d \in Seq(C)
  PROVE  \A k \in 1 .. Len(s) : Gluing(s, d)[k] \in Seq(C)
<1> DEFINE n == Len(s)
           g == Gluing(s, d)
           S == {k \in 0 .. n : k = 0 \/ g[k] \in Seq(C)}
<1>1. n \in Nat /\ \A k \in 1 .. n : s[k] \in Seq(C)
  BY LenProperties, ElementOfSeq
<1>2. n > 0 => g[1] = s[1] /\ \A k \in 2 .. n : g[k] = GluedTo(g[k - 1], d, s[k])
  BY <1>1, GluingSteps
<1> HIDE DEF n, g
<1>3. ASSUME NEW m \in 1 .. n, m - 1 \in S PROVE m \in S
  <2>1. n > 0
    BY <1>1
  <2>2. CASE m = 1
    <3>1. g[m] \in Seq(C)
      BY <1>1, <1>2, <2>1, <2>2
    <3> QED BY <1>1, <3>1
  <2>3. CASE m # 1
    <3>1. m \in 2 .. n /\ m - 1 # 0
      BY <1>1, <2>3
    <3>2. g[m - 1] \in Seq(C) /\ s[m] \in Seq(C)
      BY <1>1, <1>3, <3>1
    <3>3. g[m] = (g[m - 1] \o d) \o s[m]
      BY <1>2, <2>1, <3>1 DEF GluedTo
    <3>4. g[m - 1] \o d \in Seq(C)
      BY <3>2, ConcatProperties
    <3>5. g[m] \in Seq(C)
      BY <3>2, <3>3, <3>4, ConcatProperties
    <3> QED BY <1>1, <3>5
  <2> QED BY <2>2, <2>3
<1>4. 0 \in S
  BY <1>1
<1>5. 0 .. n \subseteq S
  <2> HIDE DEF S
  <2> QED BY <1>1, <1>3, <1>4, UpTo
<1>6. \A k \in 1 .. n : g[k] \in Seq(C)
  BY <1>1, <1>5
<1> QED BY <1>6 DEF n, g

LEMMA GluedIsText ==
  ASSUME NEW C, NEW s \in Seq(Seq(C)), NEW d \in Seq(C)
  PROVE  Glued(s, d) \in Seq(C)
<1>1. CASE s = <<>>
  BY <1>1, EmptySeq DEF Glued
<1>2. CASE s # <<>>
  <2>1. Len(s) \in 1 .. Len(s)
    BY <1>2, EmptySeq
  <2>2. Gluing(s, d)[Len(s)] \in Seq(C)
    BY <2>1, GluingIsText
  <2> QED BY <1>2, <2>2 DEF Glued
<1> QED BY <1>1, <1>2

(* One piece glued is that piece.                                          *)
LEMMA GluedFirst ==
  ASSUME NEW p, NEW d
  PROVE  Glued(<<p>>, d) = p
<1>1. Len(<<p>>) = 1 /\ <<p>> # <<>> /\ <<p>>[1] = p
  OBVIOUS
<1> DEFINE s == <<p>>
<1> HIDE DEF s
<1>2. Gluing(s, d)[1] = s[1]
  BY <1>1, GluingSteps DEF s
<1> QED BY <1>1, <1>2 DEF Glued, s

(* A further piece is glued to the others behind a delimiter.              *)
LEMMA GluedNext ==
  ASSUME NEW C, NEW s \in Seq(Seq(C)), NEW d \in Seq(C), NEW p \in Seq(C),
         NEW q \in Seq(Seq(C)), q = Append(s, p), s # <<>>
  PROVE  Glued(q, d) = GluedTo(Glued(s, d), d, p)
<1> DEFINE n == Len(s)
           g == Gluing(s, d)
           h == Gluing(q, d)
<1>1. /\ n \in Nat /\ q \in Seq(Seq(C)) /\ q # <<>> /\ Len(q) = n + 1
      /\ \A k \in 1 .. n : q[k] = s[k]
      /\ q[n + 1] = p
  BY LenProperties, AppendProperties
<1>2. Glued(q, d) = h[n + 1]
  BY <1>1 DEF Glued
<1>3. h[1] = q[1] /\ \A k \in 2 .. n + 1 : h[k] = GluedTo(h[k - 1], d, q[k])
  <2>1. Len(q) \in Nat /\ Len(q) > 0
    BY <1>1
  <2>2. h[1] = q[1] /\ \A k \in 2 .. Len(q) : h[k] = GluedTo(h[k - 1], d, q[k])
    BY <2>1, GluingSteps
  <2> HIDE DEF h, n
  <2> QED BY <1>1, <2>2
<1>4. n > 0 => g[1] = s[1] /\ \A k \in 2 .. n : g[k] = GluedTo(g[k - 1], d, s[k])
  BY <1>1, GluingSteps
<1>5. s = <<>> <=> n = 0
  BY <1>1, EmptySeq
<1>6. s # <<>> => Glued(s, d) = g[n]
  BY DEF Glued
<1> HIDE DEF n, g, h
<1>8. n # 0
  BY <1>5
<1>9. h[n + 1] = GluedTo(g[n], d, p)
  <2> DEFINE S == {k \in 0 .. n : k = 0 \/ h[k] = g[k]}
  <2>1. ASSUME NEW m \in 1 .. n, m - 1 \in S PROVE m \in S
    <3>1. CASE m = 1
      <4>1. h[1] = q[1] /\ g[1] = s[1] /\ 1 \in 1 .. n
        BY <1>1, <1>3, <1>4, <1>8
      <4>2. h[m] = g[m]
        BY <1>1, <3>1, <4>1
      <4> QED BY <1>1, <4>2
    <3>2. CASE m # 1
      <4>1. m \in 2 .. n /\ m \in 2 .. n + 1 /\ m - 1 # 0 /\ n > 0
        BY <1>1, <3>2
      <4>2. h[m - 1] = g[m - 1] /\ q[m] = s[m]
        BY <1>1, <2>1, <4>1
      <4>3. h[m] = GluedTo(h[m - 1], d, q[m]) /\ g[m] = GluedTo(g[m - 1], d, s[m])
        BY <1>3, <1>4, <4>1
      <4>4. h[m] = g[m]
        BY <4>2, <4>3
      <4> QED BY <1>1, <4>4
    <3> QED BY <3>1, <3>2
  <2>2. 0 \in S
    BY <1>1
  <2>3. 0 .. n \subseteq S
    <3> HIDE DEF S
    <3> QED BY <1>1, <2>1, <2>2, UpTo
  <2>4. h[n] = g[n]
    BY <1>1, <1>8, <2>3
  <2>5. n + 1 \in 2 .. n + 1 /\ (n + 1) - 1 = n
    BY <1>1, <1>8
  <2>6. h[n + 1] = GluedTo(h[(n + 1) - 1], d, q[n + 1])
    BY <1>3, <2>5
  <2>7. h[n + 1] = GluedTo(g[n], d, p)
    BY <1>1, <2>4, <2>5, <2>6
  <2> QED BY <2>7
<1> QED BY <1>2, <1>6, <1>9

-----------------------------------------------------------------------------
(* Exploding.                                                              *)

(* The text up to the offset is the pieces, each with a delimiter behind.  *)
CutUp(C, t, d, r) ==
  /\ r.offset \in 0 .. Len(t)
  /\ r.res \in Seq(Seq(C))
  /\ SubSeq(t, 1, r.offset) = IF r.res = <<>> THEN <<>> ELSE Glued(r.res, d) \o d
  /\ \A i \in 1 .. Len(r.res) : ~Within(r.res[i], d)

(* A further piece, with its delimiter behind.                             *)
LEMMA PieceAppended ==
  ASSUME NEW C, NEW s \in Seq(Seq(C)), NEW d, NEW p \in Seq(C), ~Within(p, d),
         \A i \in 1 .. Len(s) : ~Within(s[i], d)
  PROVE  /\ Append(s, p) \in Seq(Seq(C)) /\ Append(s, p) # <<>>
         /\ \A i \in 1 .. Len(Append(s, p)) : ~Within(Append(s, p)[i], d)
<1>1. Len(s) \in Nat
  BY LenProperties
<1>2. /\ Append(s, p) \in Seq(Seq(C)) /\ Append(s, p) # <<>>
      /\ Len(Append(s, p)) = Len(s) + 1
      /\ \A i \in 1 .. Len(s) : Append(s, p)[i] = s[i]
      /\ Append(s, p)[Len(s) + 1] = p
  BY AppendProperties
<1>3. ASSUME NEW i \in 1 .. Len(Append(s, p)) PROVE ~Within(Append(s, p)[i], d)
  <2>1. i \in 1 .. Len(s) \/ i = Len(s) + 1
    BY <1>1, <1>2
  <2> QED BY <1>2, <2>1
<1> QED BY <1>2, <1>3

(* A round keeps that, and goes on if there is a delimiter.                *)
LEMMA RoundCutsUp ==
  ASSUME NEW C, NEW t \in Seq(C), NEW d \in Seq(C), Len(d) > 0,
         NEW r, CutUp(C, t, d, r)
  PROVE  /\ CutUp(C, t, d, ExplodeRound(t, d, r))
         /\ \/ Find(t, d, ExplodeRound(t, d, r).offset) = -1
            \/ ExplodeRound(t, d, r).offset > r.offset
<1> DEFINE o == r.offset
           s == r.res
           pos == Find(t, d, o)
           u == SubSeq(t, o + 1, pos)
<1>1. Len(t) \in Nat /\ Len(d) \in Nat
  BY LenProperties
<1>2. o \in Nat /\ o \in 0 .. Len(t) /\ s \in Seq(Seq(C))
  BY <1>1 DEF CutUp
<1>3. CASE pos = -1
  <2>1. ExplodeRound(t, d, r) = r
    BY <1>3 DEF ExplodeRound
  <2> QED BY <1>3, <2>1
<1>4. CASE pos # -1
  <2>1. ExplodeRound(t, d, r) = [offset |-> pos + Len(d), res |-> Append(s, u)]
    BY <1>4 DEF ExplodeRound
  <2>12. ExplodeRound(t, d, r).offset = pos + Len(d) /\ ExplodeRound(t, d, r).res = Append(s, u)
    <3> HIDE DEF pos, o, s, u
    <3> QED BY <2>1
  <2>2. pos \in o .. Len(t) - Len(d) /\ pos \in Places(t, d, o)
        /\ \A q \in Places(t, d, o) : pos <= q
    <3> HIDE DEF o
    <3> QED BY <1>2, <1>4, FindMeans
  <2> HIDE DEF pos, o, s
  <2>3. pos \in o .. Len(t) /\ pos \in Int /\ pos \in 0 .. Len(t)
        /\ pos + Len(d) \in pos .. Len(t) /\ pos + Len(d) \in 0 .. Len(t)
    BY <1>1, <1>2, <2>2
  <2>4. u \in Seq(C) /\ ~Within(u, d)
    <3>1. \A q \in Places(t, d, o) : q >= pos
      BY <1>1, <1>2, <2>2, <2>3 DEF Places
    <3>2. ~Within(u, d)
      BY <1>2, <2>3, <3>1, NoneWithin
    <3> QED BY <1>2, <2>3, <3>2, CutMeans
  <2>5. SubSeq(t, pos + 1, pos + Len(d)) = d
    BY <1>2, <2>2, <2>3, PlacesAreHere
  <2>6. SubSeq(t, 1, pos + Len(d)) = SubSeq(t, 1, pos) \o d
    <3>1. SubSeq(t, 1, pos) \o SubSeq(t, pos + 1, pos + Len(d)) = SubSeq(t, 1, pos + Len(d))
      BY <1>1, <2>3, FirstCutsJoin
    <3> QED BY <2>5, <3>1
  <2>7. SubSeq(t, 1, pos) = SubSeq(t, 1, o) \o u
    <3>1. SubSeq(t, 1, o) \o SubSeq(t, o + 1, pos) = SubSeq(t, 1, pos)
      BY <1>1, <1>2, <2>3, FirstCutsJoin
    <3> QED BY <3>1
  <2>8. SubSeq(t, 1, o) = IF s = <<>> THEN <<>> ELSE Glued(s, d) \o d
    BY DEF CutUp, o, s
  <2>9. \A i \in 1 .. Len(s) : ~Within(s[i], d)
    BY DEF CutUp, s
  <2> HIDE DEF u
  <2>10. SubSeq(t, 1, pos) = Glued(Append(s, u), d)
    <3>1. PICK q \in Seq(Seq(C)) : q = Append(s, u)
      BY <1>2, <2>4, <2>9, PieceAppended
    <3>4. CASE s = <<>>
      <4>1. Append(s, u) = <<u>>
        BY <3>4
      <4>2. <<>> \o u = u
        BY <2>4, ConcatEmptySeq
      <4> QED BY <2>7, <2>8, <3>4, <4>1, <4>2, GluedFirst
    <3>5. CASE s # <<>>
      <4>1. PICK x : x = Glued(s, d)
        OBVIOUS
      <4>2. GluedTo(x, d, u) = (x \o d) \o u
        BY DEF GluedTo
      <4>3. SubSeq(t, 1, o) = x \o d
        BY <2>8, <3>5, <4>1
      <4>4. SubSeq(t, 1, pos) = (x \o d) \o u
        BY <2>7, <4>3
      <4>5. Glued(q, d) = GluedTo(Glued(s, d), d, u)
        <5>1. PICK v \in Seq(Seq(C)), w \in Seq(C) : v = s /\ w = u
          BY <1>2, <2>4
        <5>2. q = Append(v, w) /\ v # <<>>
          BY <3>1, <3>5, <5>1
        <5>3. Glued(q, d) = GluedTo(Glued(v, d), d, w)
          BY <5>2, GluedNext
        <5> QED BY <5>1, <5>3
      <4> QED BY <3>1, <4>1, <4>2, <4>4, <4>5
    <3> QED BY <3>4, <3>5
  <2>11. /\ Append(s, u) \in Seq(Seq(C)) /\ Append(s, u) # <<>>
         /\ \A i \in 1 .. Len(Append(s, u)) : ~Within(Append(s, u)[i], d)
    BY <1>2, <2>4, <2>9, PieceAppended
  <2>13. CutUp(C, t, d, ExplodeRound(t, d, r))
    BY <2>3, <2>6, <2>10, <2>11, <2>12 DEF CutUp
  <2>14. pos + Len(d) > o
    BY <1>1, <1>2, <2>2
  <2> QED BY <2>12, <2>13, <2>14 DEF o
<1> QED BY <1>3, <1>4

(* As many rounds as the text has characters are enough.                   *)
LEMMA RoundsCutUp ==
  ASSUME NEW C, NEW t \in Seq(C), NEW d \in Seq(C), Len(d) > 0
  PROVE  /\ CutUp(C, t, d, ExplodeRounds(t, d)[Len(t)])
         /\ Places(t, d, ExplodeRounds(t, d)[Len(t)].offset) = {}
<1> DEFINE n == Len(t)
           f == ExplodeRounds(t, d)
           Over(k) == Find(t, d, f[k].offset) = -1
           S == {k \in 0 .. n : CutUp(C, t, d, f[k]) /\ (Over(k) \/ f[k].offset >= k)}
<1>1. n \in Nat /\ Len(d) \in Nat
  BY LenProperties
<1>2. f[0] = ExplodeStart /\ \A k \in 1 .. n : f[k] = ExplodeRound(t, d, f[k - 1])
  BY <1>1, ExplodeRoundsSteps
<1> HIDE DEF f
<1>3. 0 \in S
  <2>1. f[0].offset = 0 /\ f[0].res = <<>>
    BY <1>2 DEF ExplodeStart
  <2>2. SubSeq(t, 1, 0) = <<>>
    BY SubSeqEmpty
  <2>3. <<>> \in Seq(Seq(C)) /\ Len(<<>>) = 0
    BY EmptySeq
  <2>4. CutUp(C, t, d, f[0])
    BY <1>1, <2>1, <2>2, <2>3 DEF CutUp
  <2> QED BY <1>1, <2>1, <2>4
<1>4. ASSUME NEW k \in 1 .. n, k - 1 \in S PROVE k \in S
  <2>1. CutUp(C, t, d, f[k - 1]) /\ (Over(k - 1) \/ f[k - 1].offset >= k - 1)
    BY <1>4
  <2>2. f[k] = ExplodeRound(t, d, f[k - 1])
    BY <1>2
  <2>3. /\ CutUp(C, t, d, f[k])
        /\ Find(t, d, f[k].offset) = -1 \/ f[k].offset > f[k - 1].offset
    BY <2>1, <2>2, RoundCutsUp
  <2>4. CASE Over(k - 1)
    <3>1. f[k] = f[k - 1]
      BY <2>2, <2>4 DEF ExplodeRound
    <3> QED BY <2>3, <2>4, <3>1
  <2>5. CASE f[k - 1].offset >= k - 1
    <3>1. PICK a, b \in Nat : a = f[k - 1].offset /\ b = f[k].offset
      BY SMTT(30), <1>1, <2>1, <2>3 DEF CutUp
    <3>2. Over(k) \/ f[k].offset >= k
      BY <1>1, <2>3, <2>5, <3>1
    <3> QED BY <2>3, <3>2
  <2> QED BY <2>1, <2>4, <2>5
<1>5. 0 .. n \subseteq S
  <2> HIDE DEF S
  <2> QED BY <1>1, <1>3, <1>4, UpTo
<1>6. CutUp(C, t, d, f[n]) /\ (Over(n) \/ f[n].offset >= n)
  BY <1>1, <1>5
<1>7. PICK o \in 0 .. n : o = f[n].offset
  BY <1>6 DEF CutUp
<1>8. Places(t, d, o) = {}
  <2>1. CASE Over(n)
    BY <1>1, <1>7, <2>1, FindMeans
  <2>2. CASE ~Over(n)
    <3>1. o = n
      BY <1>1, <1>6, <1>7, <2>2
    <3> QED BY <1>1, <3>1 DEF Places
  <2> QED BY <2>1, <2>2
<1> QED BY <1>6, <1>7, <1>8 DEF f

(* In the end the pieces, glued, are the text, but for a delimiter at its  *)
(* end; no piece has the delimiter in it.                                  *)
LEMMA ExplodedRestores ==
  ASSUME NEW C, NEW t \in Seq(C), NEW d \in Seq(C), Len(d) > 0
  PROVE  /\ Exploded(t, d) \in Seq(Seq(C))
         /\ t = Glued(Exploded(t, d), d) \/ t = Glued(Exploded(t, d), d) \o d
         /\ \A i \in 1 .. Len(Exploded(t, d)) : ~Within(Exploded(t, d)[i], d)
<1> DEFINE last == ExplodeRounds(t, d)[Len(t)]
           o == last.offset
           s == last.res
           u == SubSeq(t, o + 1, Len(t))
           x == Exploded(t, d)
<1>1. Len(t) \in Nat
  BY LenProperties
<1>2. /\ o \in 0 .. Len(t) /\ s \in Seq(Seq(C))
      /\ SubSeq(t, 1, o) = IF s = <<>> THEN <<>> ELSE Glued(s, d) \o d
      /\ \A i \in 1 .. Len(s) : ~Within(s[i], d)
      /\ Places(t, d, o) = {}
  BY RoundsCutUp DEF CutUp
<1>3. x = IF o < Len(t) THEN Append(s, u) ELSE s
  BY DEF Exploded, Drop
<1> HIDE DEF o, s, x
<1>4. CASE o < Len(t)
  <2>1. u \in Seq(C)
    BY <1>1, <1>2, CutMeans
  <2>2. ~Within(u, d)
    BY <1>1, <1>2, NoneWithin
  <2>3. t = SubSeq(t, 1, o) \o u
    <3>1. SubSeq(t, 1, o) \o u = SubSeq(t, 1, Len(t))
      <4>1. PICK b \in 0 .. Len(t), c \in 0 .. Len(t) : c >= b /\ b = o /\ c = Len(t)
        BY <1>1, <1>2
      <4>2. SubSeq(t, 1, b) \o SubSeq(t, b + 1, c) = SubSeq(t, 1, c)
        <5>1. c \in b .. Len(t)
          BY <1>1, <4>1
        <5> QED BY <5>1, FirstCutsJoin
      <4> QED BY <4>1, <4>2
    <3> HIDE DEF u
    <3> QED BY <3>1, SubSeqFull
  <2> HIDE DEF u
  <2>4. /\ Append(s, u) \in Seq(Seq(C))
        /\ \A i \in 1 .. Len(Append(s, u)) : ~Within(Append(s, u)[i], d)
    BY <1>2, <2>1, <2>2, PieceAppended
  <2>5. t = Glued(Append(s, u), d)
    <3>1. CASE s = <<>>
      <4>1. Append(s, u) = <<u>>
        BY <3>1
      <4>2. <<>> \o u = u
        BY <2>1, ConcatEmptySeq
      <4> QED BY <1>2, <2>3, <3>1, <4>1, <4>2, GluedFirst
    <3>2. CASE s # <<>>
      <4>1. PICK v \in Seq(Seq(C)), w \in Seq(C), q \in Seq(Seq(C)) :
              v = s /\ w = u /\ q = Append(s, u)
        BY <1>2, <2>1, <2>4
      <4>2. q = Append(v, w) /\ v # <<>>
        BY <3>2, <4>1
      <4>3. Glued(q, d) = GluedTo(Glued(v, d), d, w)
        BY <4>2, GluedNext
      <4>4. PICK y : y = Glued(v, d)
        OBVIOUS
      <4>5. GluedTo(y, d, w) = (y \o d) \o w
        BY DEF GluedTo
      <4>6. SubSeq(t, 1, o) = y \o d
        BY <1>2, <3>2, <4>1, <4>4
      <4>7. t = (y \o d) \o w
        BY <2>3, <4>1, <4>6
      <4> QED BY <4>1, <4>3, <4>4, <4>5, <4>7
    <3> QED BY <3>1, <3>2
  <2>6. x = Append(s, u)
    BY <1>3, <1>4 DEF u
  <2> QED BY <2>4, <2>5, <2>6 DEF x
<1>5. CASE ~(o < Len(t))
  <2>1. x = s
    BY <1>3, <1>5
  <2>2. t = SubSeq(t, 1, o)
    <3>1. o = Len(t)
      BY <1>1, <1>2, <1>5
    <3> QED BY <3>1, SubSeqFull
  <2>3. s = <<>> => t = Glued(s, d)
    BY <1>2, <2>2 DEF Glued
  <2>4. s # <<>> => t = Glued(s, d) \o d
    BY <1>2, <2>2
  <2> QED BY <1>2, <2>1, <2>3, <2>4 DEF x
<1> QED BY <1>4, <1>5

-----------------------------------------------------------------------------
(* Imploding.                                                              *)

LEMMA ImplodedIsGlued ==
  ASSUME NEW C, NEW s \in Seq(Seq(C)), s # <<>>, NEW d \in Seq(C), Len(d) = 1
  PROVE  Imploded(s, d[1]) = Glued(s, d)
<1> DEFINE n == Len(s)
           f == Implosion(s, d[1])
           g == Gluing(s, d)
           End(k) == IF k = n THEN <<>> ELSE d
           Ended(k) == g[k] \o End(k)
           S == {k \in 0 .. n : k = 0 \/ f[k] = Ended(k)}
<1>1. n \in Nat /\ n > 0 /\ \A k \in 1 .. n : s[k] \in Seq(C)
  BY LenProperties, EmptySeq, ElementOfSeq
<1>2. d = <<d[1]>>
  BY LenProperties
<1>3. f[0] = <<>> /\ \A k \in 1 .. n : f[k] = ImplodeRound(s, d[1], k, f[k - 1])
  BY <1>1, ImplosionSteps
<1>4. g[1] = s[1] /\ \A k \in 2 .. n : g[k] = GluedTo(g[k - 1], d, s[k])
  BY <1>1, GluingSteps
<1>5. \A k \in 1 .. n : g[k] \in Seq(C)
  BY GluingIsText
<1>6. ASSUME NEW k \in 1 .. n, NEW b, b = f[k - 1], NEW e, e = End(k)
      PROVE  f[k] = (b \o s[k]) \o e
  <2>1. f[k] = ImplodeRound(s, d[1], k, b)
    BY <1>3, <1>6
  <2>2. e = IF k = n THEN <<>> ELSE <<d[1]>>
    BY <1>2, <1>6
  <2> HIDE DEF f
  <2> QED BY <2>1, <2>2 DEF ImplodeRound
<1> HIDE DEF n, f, g, Ended
<1>7. ASSUME NEW k \in 1 .. n, k - 1 \in S PROVE k \in S
  <2>1. PICK b, e : b = f[k - 1] /\ e = End(k)
    OBVIOUS
  <2>2. f[k] = (b \o s[k]) \o e
    BY <1>6, <2>1
  <2>3. b \o s[k] = g[k]
    <3>1. CASE k = 1
      <4>1. b = <<>>
        BY <1>3, <2>1, <3>1
      <4>2. <<>> \o s[k] = s[k]
        BY <1>1, ConcatEmptySeq
      <4>3. s[k] = g[k]
        BY <1>4, <3>1
      <4> QED BY <4>1, <4>2, <4>3
    <3>2. CASE k # 1
      <4>1. k \in 2 .. n /\ k - 1 # 0 /\ k - 1 # n
        BY <1>1, <3>2
      <4>2. PICK a : a = g[k - 1]
        OBVIOUS
      <4>3. b = a \o d
        BY <1>7, <2>1, <4>1, <4>2 DEF Ended
      <4>4. g[k] = (a \o d) \o s[k]
        BY <1>4, <4>1, <4>2 DEF GluedTo
      <4> QED BY <4>3, <4>4
    <3> QED BY <3>1, <3>2
  <2>4. f[k] = Ended(k)
    BY <2>1, <2>2, <2>3 DEF Ended
  <2> HIDE DEF End
  <2> QED BY <1>1, <2>4
<1>8. 0 \in S
  BY <1>1
<1>9. 0 .. n \subseteq S
  <2> HIDE DEF S
  <2> QED BY <1>1, <1>7, <1>8, UpTo
<1>10. f[n] = g[n] \o <<>>
  <2>1. f[n] = Ended(n)
    BY <1>1, <1>9
  <2>2. End(n) = <<>>
    OBVIOUS
  <2> HIDE DEF End
  <2> QED BY <2>1, <2>2 DEF Ended
<1>11. g[n] \o <<>> = g[n]
  BY <1>1, <1>5, ConcatEmptySeq
<1>12. Imploded(s, d[1]) = f[n] /\ Glued(s, d) = g[n]
  BY DEF Imploded, Glued, f, g, n
<1> QED BY <1>10, <1>11, <1>12

-----------------------------------------------------------------------------
(* What the client holds is what the last call made of its text.           *)
PiecesInv ==
  /\ pieces = NoPieces \/ (delim \in Delimiters /\ pieces = Exploded(input, delim))
  /\ joined # Nothing =>
       /\ pieces \notin {NoPieces, <<>>} /\ Len(delim) = 1
       /\ joined = Imploded(pieces, delim[1])

EscapeInv ==
  /\ escaped # Nothing => words \in WordLists /\ escaped = Escaped(input, words)
  /\ plain # Nothing => escaped # Nothing /\ plain = Unescaped(escaped, words)

ParsedInv == parsed = Failed \/ (input # <<>> /\ parsed = ParsedAs(input))

LexInv == input \in Inputs /\ PiecesInv /\ EscapeInv /\ ParsedInv

(* The invariant: what the client holds comes from its text.               *)
LEMMA LexInvHolds == LexSpec => []LexInv
<1>1. LexInit => LexInv
  BY DEF LexInit, LexInv, PiecesInv, EscapeInv, ParsedInv
<1>2. LexInv /\ [LexNext]_lexVars => LexInv'
  <2> SUFFICES ASSUME LexInv, [LexNext]_lexVars PROVE LexInv'
    OBVIOUS
  <2>1. CASE Explode
    <3>1. PICK d \in Delimiters : delim' = d /\ pieces' = Exploded(input, d)
      BY <2>1 DEF Explode
    <3>2. joined' = Nothing /\ input' = input /\ words' = words /\ escaped' = escaped
          /\ plain' = plain /\ parsed' = parsed
      BY <2>1 DEF Explode
    <3>3. PiecesInv'
      BY <3>1, <3>2 DEF PiecesInv
    <3> QED BY <3>2, <3>3 DEF LexInv, EscapeInv, ParsedInv
  <2>2. CASE Implode
    <3>1. PiecesInv'
      BY <2>2 DEF Implode, LexInv, PiecesInv
    <3> QED BY <2>2, <3>1 DEF Implode, LexInv, EscapeInv, ParsedInv
  <2>3. CASE Escape
    <3>1. EscapeInv'
      BY <2>3 DEF Escape, LexInv, EscapeInv
    <3> QED BY <2>3, <3>1 DEF Escape, LexInv, PiecesInv, ParsedInv
  <2>4. CASE Unescape
    <3>1. EscapeInv'
      BY <2>4 DEF Unescape, LexInv, EscapeInv
    <3> QED BY <2>4, <3>1 DEF Unescape, LexInv, PiecesInv, ParsedInv
  <2>5. CASE Parse
    <3>1. ParsedInv'
      BY <2>5 DEF Parse, LexInv, ParsedInv
    <3> QED BY <2>5, <3>1 DEF Parse, LexInv, PiecesInv, EscapeInv
  <2>6. CASE UNCHANGED lexVars
    BY <2>6 DEF lexVars, LexInv, PiecesInv, EscapeInv, ParsedInv
  <2> QED BY <2>1, <2>2, <2>3, <2>4, <2>5, <2>6 DEF LexNext
<1> QED BY <1>1, <1>2, PTL DEF LexSpec

(* A number that ATOI takes is the one that is written there, for every    *)
(* text whose number times ten is an int, minus signs and zeros included   *)
(* (ATOI_::operator(), lexUtils.inl:67-93).                                *)
THEOREM NumberTheorem == LexSpec => []NumberIsParsed
<1>1. LexInv => NumberIsParsed
  <2> SUFFICES ASSUME LexInv PROVE NumberIsParsed
    OBVIOUS
  <2>1. NumberOf(input, parsed) => NumberIsParsed
    BY DEF NumberOf, NumberIsParsed
  <2>2. CASE parsed = Failed
    BY <2>1, <2>2 DEF NumberOf, Failed
  <2>3. CASE input # <<>> /\ parsed = ParsedAs(input)
    <3>1. input \in Seq(Alphabet)
      BY InputsAreTexts DEF LexInv
    <3> QED BY <2>1, <2>3, <3>1, ParsedIsWritten
  <2> QED BY <2>2, <2>3 DEF LexInv, ParsedInv
<1> QED BY <1>1, LexInvHolds, PTL

(* The pieces str_explode() cuts any text into, glued with any delimiter,  *)
(* are the text again, but for a delimiter at its end; no piece has the    *)
(* delimiter in it; str_implode() glues them so (lexUtils.inl:5-33, with   *)
(* find(), lexUtils.h:116-142).                                            *)
THEOREM PiecesTheorem == LexSpec => []PiecesRestoreText
<1>1. LexInv => PiecesRestoreText
  <2> SUFFICES ASSUME LexInv, pieces # NoPieces PROVE PiecesRestoreText
    BY DEF PiecesRestoreText
  <2>1. input \in Seq(Alphabet)
    BY InputsAreTexts DEF LexInv
  <2>2. delim \in Seq(Alphabet) /\ delim # <<>> /\ pieces = Exploded(input, delim)
    BY WordsAssumption DEF LexInv, PiecesInv
  <2>3. Len(delim) > 0
    BY <2>2, EmptySeq
  <2>4. /\ pieces \in Seq(Seq(Alphabet))
        /\ input = Glued(pieces, delim) \/ input = Glued(pieces, delim) \o delim
        /\ \A i \in 1 .. Len(pieces) : ~Within(pieces[i], delim)
    BY <2>1, <2>2, <2>3, ExplodedRestores
  <2>5. joined # Nothing => joined = Glued(pieces, delim)
    BY <2>2, <2>4, ImplodedIsGlued DEF LexInv, PiecesInv
  <2> QED BY <2>4, <2>5 DEF PiecesRestoreText
<1> QED BY <1>1, LexInvHolds, PTL

-----------------------------------------------------------------------------
(* Escaping and unescaping, by how many backslashes are behind each        *)
(* character of the text.                                                  *)

Matching(t, w, g) ==
  /\ g \in 1 .. Len(t) /\ g + Len(w) - 1 <= Len(t)
  /\ \A k \in 1 .. Len(w) : t[g + k - 1] = w[k]

(* With e[x] backslashes behind character x, find() finds w at g.          *)
Findable(t, w, e) ==
  {g \in 1 .. Len(t) : /\ Matching(t, w, g)
                       /\ \A x \in g .. g + Len(w) - 2 : e[x] = 0}

(* It finds w with a backslash behind its first character.                 *)
Erasable(t, w, e) ==
  {g \in 1 .. Len(t) : /\ Matching(t, w, g)
                       /\ e[g] >= 1 /\ (Len(w) > 1 => e[g] = 1)
                       /\ \A x \in g + 1 .. g + Len(w) - 2 : e[x] = 0}

(* M is what a search for words of n characters takes of the places in F,  *)
(* when it goes on behind each word.                                       *)
TakenPlaces(F, n, M) ==
  /\ M \subseteq F
  /\ \A g, h \in M : g < h => g + n <= h
  /\ \A g \in F : \E h \in M : h <= g /\ g < h + n

(* e[i] and u[i] count the backslashes when i words have been escaped and  *)
(* unescaped; M[i] and S[i] are the places of word i then.                 *)
BackslashCounts(t, ws, e, u) ==
  /\ \A i \in 0 .. Len(ws), x \in 1 .. Len(t) : e[i][x] \in Nat /\ u[i][x] \in Nat
  /\ \A x \in 1 .. Len(t) : e[0][x] = 0 /\ u[0][x] = e[Len(ws)][x]

EscapedAt(t, ws, e, M) ==
  \A i \in 1 .. Len(ws) :
    /\ TakenPlaces(Findable(t, ws[i], e[i - 1]), Len(ws[i]), M[i])
    /\ \A x \in 1 .. Len(t) : e[i][x] = e[i - 1][x] + (IF x \in M[i] THEN 1 ELSE 0)

UnescapedAt(t, ws, u, S) ==
  \A i \in 1 .. Len(ws) :
    /\ TakenPlaces(Erasable(t, ws[i], u[i - 1]), Len(ws[i]), S[i])
    /\ \A x \in 1 .. Len(t) : u[i][x] = u[i - 1][x] - (IF x \in S[i] THEN 1 ELSE 0)

(* The words of an escaper.                                                *)
WordsGood(ws) ==
  /\ ws \in Seq(Seq(Alphabet) \ {<<>>})
  /\ \A i, j \in 1 .. Len(ws) : i < j => ~Splits(ws[j], ws[i])

(* All of them together.                                                   *)
History(t, ws, e, u, M, S) ==
  /\ t \in Seq(Alphabet) /\ WordsGood(ws)
  /\ BackslashCounts(t, ws, e, u) /\ EscapedAt(t, ws, e, M) /\ UnescapedAt(t, ws, u, S)

(* A word has characters of the text.                                      *)
LEMMA WordHasCharacters ==
  ASSUME NEW ws, WordsGood(ws), NEW i \in 1 .. Len(ws)
  PROVE  ws[i] \in Seq(Alphabet) /\ Len(ws[i]) \in Nat /\ Len(ws[i]) > 0
<1>1. ws[i] \in Seq(Alphabet) /\ ws[i] # <<>>
  BY ElementOfSeq DEF WordsGood
<1> QED BY <1>1, EmptySeq, LenProperties

LEMMA TextHasCharacters ==
  ASSUME NEW t, NEW ws, t \in Seq(Alphabet), WordsGood(ws)
  PROVE  Len(t) \in Nat /\ Len(ws) \in Nat
BY LenProperties DEF WordsGood

(* GapCounts rise while words are escaped and fall while they are unescaped.  *)
LEMMA EscapeCountsRise ==
  ASSUME NEW t, NEW ws, NEW e, NEW u, NEW M, NEW S, History(t, ws, e, u, M, S),
         NEW i \in 0 .. Len(ws), NEW j \in i .. Len(ws), NEW x \in 1 .. Len(t)
  PROVE  /\ e[i][x] \in Nat /\ e[j][x] \in Nat /\ e[i][x] <= e[j][x]
         /\ e[i][x] < e[j][x] => \E k \in i + 1 .. j : x \in M[k]
<1> DEFINE n == Len(ws)
           m == Len(t)
<1>1. n \in Nat /\ m \in Nat
  BY TextHasCharacters DEF History
<1>2. \A k \in 0 .. n, y \in 1 .. m : e[k][y] \in Nat
  BY DEF History, BackslashCounts
<1>3. \A k \in 1 .. n, y \in 1 .. m :
         e[k][y] = e[k - 1][y] + (IF y \in M[k] THEN 1 ELSE 0)
  BY DEF History, EscapedAt
<1>4. i \in 0 .. n /\ x \in 1 .. m
  BY <1>1
<1> HIDE DEF n, m
<1> DEFINE T == {d \in 0 .. n - i : /\ e[i][x] <= e[i + d][x]
                                    /\ e[i][x] < e[i + d][x] =>
                                         \E k \in i + 1 .. i + d : x \in M[k]}
<1>5. 0 \in T
  BY <1>4, <1>1, <1>2
<1>6. ASSUME NEW d \in 1 .. n - i, d - 1 \in T PROVE d \in T
  <2>1. PICK z \in 1 .. n : z = i + d
    BY <1>4, <1>1
  <2>2. z - 1 = i + (d - 1) /\ z - 1 \in 0 .. n /\ z \in 0 .. n /\ i \in 0 .. n
    BY <1>4, <1>1, <2>1
  <2>3. /\ e[i][x] <= e[z - 1][x]
        /\ e[i][x] < e[z - 1][x] => \E k \in i + 1 .. z - 1 : x \in M[k]
    BY <1>6, <2>2
  <2>4. PICK a, b, c \in Nat : a = e[i][x] /\ b = e[z - 1][x] /\ c = e[z][x]
    BY <1>4, <1>2, <2>2
  <2>5. c = b + (IF x \in M[z] THEN 1 ELSE 0)
    BY <1>4, <1>3, <2>4
  <2>6. a <= c
    BY SMTT(30), <2>3, <2>4, <2>5
  <2>7. ASSUME a < c PROVE \E k \in i + 1 .. z : x \in M[k]
    <3>1. CASE x \in M[z]
      BY <2>1, <3>1
    <3>2. CASE x \notin M[z]
      <4>1. a < b
        BY <2>5, <2>7, <3>2
      <4> QED BY SMTT(30), <2>1, <2>3, <2>4, <4>1
    <3> QED BY <3>1, <3>2
  <2> QED BY <2>1, <2>4, <2>6, <2>7
<1>7. 0 .. n - i \subseteq T
  <2>1. n - i \in Nat
    BY <1>4, <1>1
  <2> HIDE DEF T
  <2> QED BY <1>5, <1>6, <2>1, UpTo
<1>8. PICK d \in 0 .. n - i : d = j - i
  BY <1>4, <1>1 DEF n
<1>9. d \in T /\ i + d = j
  BY <1>4, <1>1, <1>7, <1>8
<1>10. i \in 0 .. n /\ j \in 0 .. n
  BY <1>1 DEF n
<1> QED BY <1>4, <1>2, <1>9, <1>10

LEMMA UnescapeCountsFall ==
  ASSUME NEW t, NEW ws, NEW e, NEW u, NEW M, NEW S, History(t, ws, e, u, M, S),
         NEW i \in 0 .. Len(ws), NEW j \in i .. Len(ws), NEW x \in 1 .. Len(t)
  PROVE  /\ u[i][x] \in Nat /\ u[j][x] \in Nat /\ u[j][x] <= u[i][x]
         /\ u[j][x] < u[i][x] => \E k \in i + 1 .. j : x \in S[k]
<1> DEFINE n == Len(ws)
           m == Len(t)
<1>1. n \in Nat /\ m \in Nat
  BY TextHasCharacters DEF History
<1>2. \A k \in 0 .. n, y \in 1 .. m : u[k][y] \in Nat
  BY DEF History, BackslashCounts
<1>3. \A k \in 1 .. n, y \in 1 .. m :
         u[k][y] = u[k - 1][y] - (IF y \in S[k] THEN 1 ELSE 0)
  BY DEF History, UnescapedAt
<1>4. i \in 0 .. n /\ x \in 1 .. m
  BY <1>1
<1> HIDE DEF n, m
<1> DEFINE T == {d \in 0 .. n - i : /\ u[i + d][x] <= u[i][x]
                                    /\ u[i + d][x] < u[i][x] =>
                                         \E k \in i + 1 .. i + d : x \in S[k]}
<1>5. 0 \in T
  BY <1>4, <1>1, <1>2
<1>6. ASSUME NEW d \in 1 .. n - i, d - 1 \in T PROVE d \in T
  <2>1. PICK z \in 1 .. n : z = i + d
    BY <1>4, <1>1
  <2>2. z - 1 = i + (d - 1) /\ z - 1 \in 0 .. n /\ z \in 0 .. n /\ i \in 0 .. n
    BY <1>4, <1>1, <2>1
  <2>3. /\ u[z - 1][x] <= u[i][x]
        /\ u[z - 1][x] < u[i][x] => \E k \in i + 1 .. z - 1 : x \in S[k]
    BY <1>6, <2>2
  <2>4. PICK a, b, c \in Nat : a = u[i][x] /\ b = u[z - 1][x] /\ c = u[z][x]
    BY <1>4, <1>2, <2>2
  <2>5. c = b - (IF x \in S[z] THEN 1 ELSE 0)
    BY <1>4, <1>3, <2>4
  <2>6. c <= a
    BY SMTT(30), <2>3, <2>4, <2>5
  <2>7. ASSUME c < a PROVE \E k \in i + 1 .. z : x \in S[k]
    <3>1. CASE x \in S[z]
      BY <2>1, <3>1
    <3>2. CASE x \notin S[z]
      <4>1. b < a
        BY <2>5, <2>7, <3>2
      <4> QED BY SMTT(30), <2>1, <2>3, <2>4, <4>1
    <3> QED BY <3>1, <3>2
  <2> QED BY <2>1, <2>4, <2>6, <2>7
<1>7. 0 .. n - i \subseteq T
  <2>1. n - i \in Nat
    BY <1>4, <1>1
  <2> HIDE DEF T
  <2> QED BY <1>5, <1>6, <2>1, UpTo
<1>8. PICK d \in 0 .. n - i : d = j - i
  BY <1>4, <1>1 DEF n
<1>9. d \in T /\ i + d = j
  BY <1>4, <1>1, <1>7, <1>8
<1>10. i \in 0 .. n /\ j \in 0 .. n
  BY <1>1 DEF n
<1> QED BY <1>4, <1>2, <1>9, <1>10

(* The places of a word.                                                   *)
LEMMA PlacesOfWord ==
  ASSUME NEW t, NEW ws, NEW e, NEW u, NEW M, NEW S, History(t, ws, e, u, M, S),
         NEW i \in 1 .. Len(ws)
  PROVE  /\ \A g \in M[i] : /\ Matching(t, ws[i], g)
                            /\ g \in 1 .. Len(t)
                            /\ \A x \in g .. g + Len(ws[i]) - 2 : e[i - 1][x] = 0
                            /\ e[i][g] = e[i - 1][g] + 1
         /\ \A g, h \in M[i] : g < h => g + Len(ws[i]) <= h
         /\ \A g \in Findable(t, ws[i], e[i - 1]) :
              \E h \in M[i] : h <= g /\ g < h + Len(ws[i])
         /\ \A x \in 1 .. Len(t) : x \notin M[i] => e[i][x] = e[i - 1][x] + 0
         /\ \A g \in S[i] : /\ Matching(t, ws[i], g)
                            /\ g \in 1 .. Len(t)
                            /\ u[i - 1][g] >= 1
                            /\ Len(ws[i]) > 1 => u[i - 1][g] = 1
                            /\ \A x \in g + 1 .. g + Len(ws[i]) - 2 : u[i - 1][x] = 0
                            /\ u[i][g] = u[i - 1][g] - 1
         /\ \A g, h \in S[i] : g < h => g + Len(ws[i]) <= h
         /\ \A g \in Erasable(t, ws[i], u[i - 1]) :
              \E h \in S[i] : h <= g /\ g < h + Len(ws[i])
<1>1. /\ TakenPlaces(Findable(t, ws[i], e[i - 1]), Len(ws[i]), M[i])
      /\ \A x \in 1 .. Len(t) : e[i][x] = e[i - 1][x] + (IF x \in M[i] THEN 1 ELSE 0)
  BY DEF History, EscapedAt
<1>2. /\ TakenPlaces(Erasable(t, ws[i], u[i - 1]), Len(ws[i]), S[i])
      /\ \A x \in 1 .. Len(t) : u[i][x] = u[i - 1][x] - (IF x \in S[i] THEN 1 ELSE 0)
  BY DEF History, UnescapedAt
<1>3. /\ \A g \in M[i] : /\ Matching(t, ws[i], g)
                         /\ g \in 1 .. Len(t)
                         /\ \A x \in g .. g + Len(ws[i]) - 2 : e[i - 1][x] = 0
  BY <1>1 DEF TakenPlaces, Findable
<1>4. /\ \A g \in S[i] : /\ Matching(t, ws[i], g)
                         /\ g \in 1 .. Len(t)
                         /\ u[i - 1][g] >= 1
                         /\ Len(ws[i]) > 1 => u[i - 1][g] = 1
                         /\ \A x \in g + 1 .. g + Len(ws[i]) - 2 : u[i - 1][x] = 0
  BY <1>2 DEF TakenPlaces, Erasable
<1>5. /\ \A g, h \in M[i] : g < h => g + Len(ws[i]) <= h
      /\ \A g \in Findable(t, ws[i], e[i - 1]) :
              \E h \in M[i] : h <= g /\ g < h + Len(ws[i])
  BY <1>1 DEF TakenPlaces
<1>6. /\ \A g, h \in S[i] : g < h => g + Len(ws[i]) <= h
      /\ \A g \in Erasable(t, ws[i], u[i - 1]) :
              \E h \in S[i] : h <= g /\ g < h + Len(ws[i])
  BY <1>2 DEF TakenPlaces
<1> QED BY <1>1, <1>2, <1>3, <1>4, <1>5, <1>6

(* No later word is found in an earlier one.                               *)
LEMMA NoneSplit ==
  ASSUME NEW t, NEW ws, NEW e, NEW u, NEW M, NEW S, History(t, ws, e, u, M, S),
         NEW i \in 1 .. Len(ws), NEW j \in i + 1 .. Len(ws),
         NEW g \in M[i], NEW h \in M[j], g <= h, h <= g + Len(ws[i]) - 2
  PROVE  FALSE
<1> DEFINE v == ws[i]
           w == ws[j]
<1>1. Len(ws) \in Nat /\ Len(t) \in Nat /\ j \in 1 .. Len(ws) /\ i < j
  BY TextHasCharacters DEF History
<1>2. Len(v) \in Nat /\ Len(w) \in Nat /\ Len(w) > 0
  BY <1>1, WordHasCharacters DEF History
<1>3. Matching(t, v, g) /\ g \in 1 .. Len(t) /\ e[i][g] = e[i - 1][g] + 1
  BY PlacesOfWord
<1>4. Matching(t, w, h) /\ h \in 1 .. Len(t)
      /\ \A x \in h .. h + Len(w) - 2 : e[j - 1][x] = 0
  BY <1>1, PlacesOfWord
<1> HIDE DEF v, w
<1>5. h = g => Len(w) = 1
  <2> SUFFICES ASSUME h = g, Len(w) # 1 PROVE FALSE
    OBVIOUS
  <2>1. e[j - 1][g] = 0
    <3>1. PICK l \in Nat : l = Len(w) /\ l > 0
      BY <1>2
    <3>2. g \in h .. h + l - 2
      <4>1. g \in Int
        BY <1>1, <1>3
      <4>2. l > 1
        <5>1. l # 1
          BY <3>1
        <5> QED BY <3>1, <5>1
      <4>3. g \in g .. g + l - 2
        BY <4>1, <4>2
      <4> QED BY <4>3
    <3> QED BY <1>4, <3>1, <3>2
  <2>2. e[i][g] <= e[j - 1][g] /\ e[j - 1][g] \in Nat /\ e[i][g] \in Nat
    <3>1. i \in 0 .. Len(ws) /\ j - 1 \in i .. Len(ws)
      BY <1>1
    <3> QED BY <1>3, <3>1, EscapeCountsRise
  <2>3. e[i - 1][g] \in Nat
    <3>1. i - 1 \in 0 .. Len(ws)
      BY <1>1
    <3> QED BY <1>3, <3>1 DEF History, BackslashCounts
  <2> QED BY SMTT(30), <1>3, <2>1, <2>2, <2>3
<1>6. PICK s \in 0 .. Len(v) - 2 : s = h - g
  BY SMTT(30), <1>2, <1>3, <1>4 DEF v
<1>7. ASSUME NEW k \in 1 .. Len(w), s + k <= Len(v) PROVE v[s + k] = w[k]
  <2>1. t[h + k - 1] = w[k]
    BY <1>4 DEF Matching
  <2>2. PICK l \in 1 .. Len(v) : l = s + k
    BY <1>2, <1>6, <1>7
  <2>3. t[g + l - 1] = v[l]
    BY <1>3 DEF Matching
  <2>4. g + l - 1 = h + k - 1
    BY <1>2, <1>3, <1>4, <1>6, <2>2
  <2> QED BY <2>1, <2>2, <2>3, <2>4
<1>8. s > 0 \/ Len(w) = 1
  BY <1>3, <1>4, <1>5, <1>6
<1>9. Splits(w, v)
  BY <1>6, <1>7, <1>8 DEF Splits
<1> QED BY <1>1, <1>9 DEF History, WordsGood, v, w

(* So in the end each place has its backslash, and no other.               *)
LEMMA InTheEnd ==
  ASSUME NEW t, NEW ws, NEW e, NEW u, NEW M, NEW S, History(t, ws, e, u, M, S),
         NEW i \in 1 .. Len(ws), NEW g \in M[i],
         NEW x \in g .. g + Len(ws[i]) - 2
  PROVE  e[Len(ws)][x] = IF x = g THEN 1 ELSE 0
<1> DEFINE n == Len(ws)
           L == Len(ws[i])
<1>1. n \in Nat /\ Len(t) \in Nat /\ L \in Nat
  BY TextHasCharacters, WordHasCharacters DEF History
<1>2. /\ g \in 1 .. Len(t) /\ g + L - 1 <= Len(t)
      /\ e[i - 1][x] = 0
      /\ e[i][g] = e[i - 1][g] + 1
  BY PlacesOfWord DEF Matching
<1>3. x \in 1 .. Len(t)
  BY <1>1, <1>2
<1>4. e[i][x] = IF x = g THEN 1 ELSE 0
  <2>1. CASE x = g
    BY <1>2, <2>1
  <2>2. CASE x # g
    <3>1. x \notin M[i]
      <4>1. x \in M[i] => g + L <= x
        <5>1. g < x
          BY <1>1, <1>2, <2>2
        <5> QED BY <5>1, PlacesOfWord
      <4> QED BY <1>1, <1>2, <4>1
    <3>2. e[i][x] = e[i - 1][x] + 0
      BY <1>3, <3>1, PlacesOfWord
    <3> QED BY <1>2, <2>2, <3>2
  <2> QED BY <2>1, <2>2
<1>5. i \in 0 .. n /\ n \in i .. n
  BY <1>1
<1>6. /\ e[i][x] \in Nat /\ e[n][x] \in Nat /\ e[i][x] <= e[n][x]
      /\ e[i][x] < e[n][x] => \E k \in i + 1 .. n : x \in M[k]
  BY <1>3, <1>5, EscapeCountsRise
<1>7. ASSUME NEW k \in i + 1 .. n, x \in M[k] PROVE FALSE
  BY SMTT(30), <1>7, <1>1, <1>2, NoneSplit
<1>8. e[n][x] = e[i][x]
  BY <1>6, <1>7
<1> QED BY <1>4, <1>8

(* unescape() takes each place of word i whose backslash is still there.   *)
EachTaken(u, M, S, i) == \A g \in M[i] : u[i - 1][g] >= 1 => g \in S[i]

(* A backslash that is gone already had none at the end of its word.       *)
NoneInTheWay(ws, u, M, i) ==
  \A p \in M[i] :
    Len(ws[i]) > 1 /\ u[i - 1][p] = 0 => u[i - 1][p + Len(ws[i]) - 1] = 0

(* Only backslashes of later words are there still.                        *)
OnlyLater(t, ws, e, u, i) ==
  \A x \in 1 .. Len(t) : u[i][x] + e[i][x] <= e[Len(ws)][x]

(* So none of them comes in the way of word i.                             *)
LEMMA NothingComesInTheWay ==
  ASSUME NEW t, NEW ws, NEW e, NEW u, NEW M, NEW S, History(t, ws, e, u, M, S),
         NEW i \in 1 .. Len(ws),
         \A k \in 1 .. i - 1 : EachTaken(u, M, S, k) /\ NoneInTheWay(ws, u, M, k)
  PROVE  NoneInTheWay(ws, u, M, i)
<1> DEFINE n == Len(ws)
           m == Len(t)
           L == Len(ws[i])
<1> SUFFICES ASSUME NEW p \in M[i], L > 1, u[i - 1][p] = 0, u[i - 1][p + L - 1] # 0
             PROVE  FALSE
  BY DEF NoneInTheWay
<1>1. n \in Nat /\ m \in Nat /\ L \in Nat
  BY TextHasCharacters, WordHasCharacters DEF History
<1>2. /\ p \in 1 .. m /\ p + L - 1 <= m
      /\ \A x \in p .. p + L - 2 : e[i - 1][x] = 0
      /\ e[i][p] = e[i - 1][p] + 1
  BY PlacesOfWord DEF Matching
<1>3. 0 \in 0 .. n /\ i - 1 \in 0 .. n /\ i \in 0 .. n /\ n \in i .. n
  BY <1>1
<1> HIDE DEF n, m, L
<1>4. PICK y \in 1 .. m : y = p + L - 1
  BY <1>1, <1>2
<1>5. u[i - 1][y] >= 1
  <2>1. u[i - 1][y] \in Nat
    BY <1>3, <1>4 DEF History, BackslashCounts, n, m
  <2>2. u[i - 1][y] # 0
    BY <1>4 DEF L
  <2> QED BY <2>1, <2>2
<1>6. PICK k \in 1 .. i - 1 : p \in S[k]
  <2>1. e[n][p] = 1
    <3>1. p \in p .. p + L - 2
      BY <1>1, <1>2
    <3> QED BY SMTT(30), <3>1, InTheEnd DEF n, L
  <2>2. u[0][p] = 1
    BY <1>2, <2>1 DEF History, BackslashCounts, n, m
  <2>3. i - 1 \in 0 .. n
    BY <1>3
  <2>4. u[i - 1][p] < u[0][p] => \E k \in 0 + 1 .. i - 1 : p \in S[k]
    BY <1>2, <1>3, <2>3, UnescapeCountsFall DEF n, m
  <2> QED BY <2>2, <2>4
<1>7. k \in 1 .. n /\ k \in 0 .. n /\ k - 1 \in 0 .. n /\ k < i /\ i \in k + 1 .. n
      /\ i - 1 \in k - 1 .. n /\ i - 1 \in k .. n
  BY <1>1, <1>3 DEF n
<1> DEFINE K == Len(ws[k])
<1>8. K \in Nat /\ K > 0
  BY <1>7, WordHasCharacters DEF History, n
<1>9. /\ Matching(t, ws[k], p)
      /\ u[k - 1][p] >= 1
      /\ \A x \in p + 1 .. p + K - 2 : u[k - 1][x] = 0
  BY <1>6, <1>7, PlacesOfWord DEF n
<1> HIDE DEF K
<1>10. K <= L
  <2>1. u[i - 1][y] <= u[k - 1][y] /\ u[k - 1][y] \in Nat /\ u[i - 1][y] \in Nat
    BY <1>4, <1>7, UnescapeCountsFall DEF n, m
  <2>2. y \notin p + 1 .. p + K - 2
    BY <1>5, <1>9, <2>1
  <2> QED BY <1>1, <1>2, <1>4, <1>8, <2>2
<1>11. ASSUME NEW x \in p .. p + K - 2 PROVE e[k - 1][x] = 0
  <2>1. x \in p .. p + L - 2 /\ x \in 1 .. m
    BY <1>1, <1>2, <1>8, <1>10
  <2>2. e[i - 1][x] = 0
    BY <1>2, <2>1
  <2>3. e[k - 1][x] <= e[i - 1][x] /\ e[k - 1][x] \in Nat
    BY <1>7, <2>1, EscapeCountsRise DEF n, m
  <2> QED BY <2>2, <2>3
<1>12. PICK q \in M[k] : q <= p /\ p < q + K
  <2>1. p \in Findable(t, ws[k], e[k - 1])
    BY <1>2, <1>9, <1>11 DEF Findable, m, K
  <2>2. \A g \in Findable(t, ws[k], e[k - 1]) :
          \E h \in M[k] : h <= g /\ g < h + Len(ws[k])
    <3>1. k \in 1 .. Len(ws)
      BY <1>7 DEF n
    <3>2. TakenPlaces(Findable(t, ws[k], e[k - 1]), Len(ws[k]), M[k])
      BY <3>1 DEF History, EscapedAt
    <3> QED BY <3>2 DEF TakenPlaces
  <2> QED BY <2>1, <2>2 DEF K
<1>13. q \in 1 .. m /\ e[k][q] = e[k - 1][q] + 1
  BY <1>7, PlacesOfWord DEF n, m
<1>14. q < p
  <2>1. q # p
    <3> SUFFICES ASSUME q = p PROVE FALSE
      OBVIOUS
    <3>1. e[k][p] <= e[i - 1][p] /\ e[k][p] \in Nat
      BY <1>2, <1>7, EscapeCountsRise DEF n, m
    <3>2. e[k - 1][p] \in Nat
      BY <1>2, <1>7 DEF History, BackslashCounts, n, m
    <3>3. e[i - 1][p] = 0
      BY SMTT(30), <1>1, <1>2
    <3> QED BY SMTT(30), <1>13, <3>1, <3>2, <3>3
  <2> QED BY <1>1, <1>2, <1>12, <1>13, <2>1
<1>15. p = q + K - 1 /\ K > 1
  <2>1. ~(p <= q + K - 2)
    BY <1>7, <1>12, NoneSplit DEF n, K
  <2> QED BY <1>1, <1>2, <1>8, <1>12, <1>13, <1>14, <2>1
<1>16. CASE u[k - 1][q] = 0
  <2>1. u[k - 1][q + K - 1] = 0
    BY <1>15, <1>16 DEF NoneInTheWay, K
  <2> QED BY <1>9, <1>15, <2>1
<1>17. CASE u[k - 1][q] # 0
  <2>1. u[k - 1][q] \in Nat
    BY <1>7, <1>13 DEF History, BackslashCounts, n, m
  <2>2. q \in S[k]
    BY <1>17, <2>1 DEF EachTaken
  <2>3. q + K <= p
    BY <1>6, <1>7, <1>14, <2>2, PlacesOfWord DEF n, K
  <2> QED BY <1>1, <1>2, <1>8, <1>12, <1>13, <2>3
<1> QED BY <1>16, <1>17

(* One word later: what it takes, and what is erased for it.               *)
LEMMA TakenNext ==
  ASSUME NEW t, NEW ws, NEW e, NEW u, NEW M, NEW S, History(t, ws, e, u, M, S),
         NEW i \in 1 .. Len(ws), NEW g \in Findable(t, ws[i], e[i - 1])
  PROVE  \E h \in M[i] : h <= g /\ g < h + Len(ws[i])
<1>1. TakenPlaces(Findable(t, ws[i], e[i - 1]), Len(ws[i]), M[i])
  BY DEF History, EscapedAt
<1> QED BY <1>1 DEF TakenPlaces

LEMMA ErasedNext ==
  ASSUME NEW t, NEW ws, NEW e, NEW u, NEW M, NEW S, History(t, ws, e, u, M, S),
         NEW i \in 1 .. Len(ws), NEW g \in Erasable(t, ws[i], u[i - 1])
  PROVE  \E h \in S[i] : h <= g /\ g < h + Len(ws[i])
<1>1. TakenPlaces(Erasable(t, ws[i], u[i - 1]), Len(ws[i]), S[i])
  BY DEF History, UnescapedAt
<1> QED BY <1>1 DEF TakenPlaces

(* In a place of word i whose backslash is there, it can be erased.        *)
LEMMA CanBeErased ==
  ASSUME NEW t, NEW ws, NEW e, NEW u, NEW M, NEW S, History(t, ws, e, u, M, S),
         NEW i \in 1 .. Len(ws), NEW g \in M[i], u[i - 1][g] >= 1
  PROVE  /\ g \in Erasable(t, ws[i], u[i - 1])
         /\ Len(ws[i]) > 1 => u[i - 1][g] = 1
<1> DEFINE n == Len(ws)
           m == Len(t)
           L == Len(ws[i])
<1>1. n \in Nat /\ m \in Nat /\ L \in Nat /\ L > 0
  BY TextHasCharacters, WordHasCharacters DEF History
<1>2. Matching(t, ws[i], g) /\ g \in 1 .. m /\ g + L - 1 <= m
  BY PlacesOfWord DEF Matching
<1>3. 0 \in 0 .. n /\ i - 1 \in 0 .. n
  BY <1>1
<1> HIDE DEF L, n, m
<1>4. ASSUME NEW x \in g .. g + L - 2
      PROVE  u[i - 1][x] <= (IF x = g THEN 1 ELSE 0) /\ u[i - 1][x] \in Nat
  <2>1. x \in 1 .. m
    BY <1>1, <1>2
  <2>2. e[n][x] = IF x = g THEN 1 ELSE 0
    BY InTheEnd DEF n, L
  <2>3. u[0][x] = e[n][x]
    BY <2>1 DEF History, BackslashCounts, n, m
  <2>4. u[i - 1][x] <= u[0][x] /\ u[i - 1][x] \in Nat
    BY <1>3, <2>1, UnescapeCountsFall DEF n, m
  <2> QED BY <2>2, <2>3, <2>4
<1>5. L > 1 => u[i - 1][g] = 1
  <2> SUFFICES ASSUME L > 1 PROVE u[i - 1][g] = 1
    OBVIOUS
  <2>1. g \in g .. g + L - 2
    BY <1>1, <1>2
  <2>2. u[i - 1][g] <= 1 /\ u[i - 1][g] \in Nat
    BY <1>4, <2>1
  <2> QED BY <2>2
<1>6. ASSUME NEW x \in g + 1 .. g + L - 2 PROVE u[i - 1][x] = 0
  <2>1. x \in g .. g + L - 2 /\ x # g
    BY <1>1, <1>2
  <2>2. u[i - 1][x] <= 0 /\ u[i - 1][x] \in Nat
    BY <1>4, <2>1
  <2> QED BY <2>2
<1> QED BY <1>2, <1>5, <1>6 DEF Erasable, L, m

(* So each place of word i whose backslash is there is taken.              *)
LEMMA EachPlaceIsTaken ==
  ASSUME NEW t, NEW ws, NEW e, NEW u, NEW M, NEW S, History(t, ws, e, u, M, S),
         NEW i \in 1 .. Len(ws), NoneInTheWay(ws, u, M, i), OnlyLater(t, ws, e, u, i - 1)
  PROVE  EachTaken(u, M, S, i)
<1> DEFINE n == Len(ws)
           m == Len(t)
           L == Len(ws[i])
           Missed == {g \in M[i] : u[i - 1][g] >= 1 /\ g \notin S[i]}
<1> SUFFICES ASSUME Missed # {} PROVE FALSE
  BY DEF EachTaken
<1>1. n \in Nat /\ m \in Nat /\ L \in Nat /\ L > 0
  BY TextHasCharacters, WordHasCharacters DEF History
<1>2. PICK g \in Missed : \A x \in Missed : g <= x
  <2>1. Missed \subseteq Nat
    <3>1. \A x \in M[i] : x \in 1 .. m
      BY PlacesOfWord
    <3> QED BY <1>1, <3>1
  <2> HIDE DEF Missed
  <2> QED BY <2>1, LeastOf
<1>3. /\ g \in M[i] /\ u[i - 1][g] >= 1 /\ g \notin S[i]
      /\ \A x \in M[i] : u[i - 1][x] >= 1 /\ x < g => x \in S[i]
  <2>1. \A x \in M[i] : x \in 1 .. m
    BY PlacesOfWord
  <2> QED BY <1>1, <1>2, <2>1
<1> HIDE DEF Missed
<1>4. /\ Matching(t, ws[i], g) /\ g \in 1 .. m /\ g + L - 1 <= m
      /\ \A x \in g .. g + L - 2 : e[i - 1][x] = 0
      /\ \A k \in 1 .. L : t[g + k - 1] = ws[i][k]
  BY <1>3, PlacesOfWord DEF Matching
<1>5. 0 \in 0 .. n /\ i - 1 \in 0 .. n /\ i \in 0 .. n /\ n \in i .. n /\ i \in 1 .. n
      /\ n \in 0 .. n
  BY <1>1
<1> HIDE DEF n, m, L
<1>6. PICK f \in S[i] : f <= g /\ g < f + L
  <2>1. g \in Erasable(t, ws[i], u[i - 1])
    BY <1>3, CanBeErased
  <2> QED BY <2>1, ErasedNext DEF L
<1>7. /\ Matching(t, ws[i], f) /\ f \in 1 .. m /\ f + L - 1 <= m
      /\ u[i - 1][f] >= 1
      /\ \A x \in f + 1 .. f + L - 2 : u[i - 1][x] = 0
      /\ \A k \in 1 .. L : t[f + k - 1] = ws[i][k]
  BY SMTT(30), <1>6, PlacesOfWord DEF Matching, m, L
<1>8. f < g /\ L > 1
  <2>1. f # g
    BY <1>3, <1>6
  <2> QED BY SMTT(30), <1>1, <1>4, <1>6, <1>7, <2>1
<1>9. g = f + L - 1
  <2>1. g \notin f + 1 .. f + L - 2
    BY <1>3, <1>7
  <2> QED BY <1>1, <1>4, <1>6, <1>7, <1>8, <2>1
<1>10. f \notin M[i]
  <2>1. f \in M[i] => f + L <= g
    BY <1>3, <1>8, PlacesOfWord DEF L
  <2> QED BY <1>1, <1>4, <1>7, <1>9, <2>1
<1>11. /\ u[i - 1][f] \in Nat /\ e[i - 1][f] \in Nat /\ e[i][f] \in Nat /\ e[n][f] \in Nat
       /\ e[i][f] = e[i - 1][f]
  <2>1. e[i][f] = e[i - 1][f] + 0
    BY <1>7, <1>10, PlacesOfWord DEF m
  <2>2. u[i - 1][f] \in Nat /\ e[i - 1][f] \in Nat /\ e[i][f] \in Nat /\ e[n][f] \in Nat
    BY <1>5, <1>7 DEF History, BackslashCounts, n, m
  <2> QED BY <2>1, <2>2
<1>12. e[i][f] < e[n][f]
  <2>1. u[i - 1][f] + e[i - 1][f] <= e[n][f]
    BY <1>7 DEF OnlyLater, n, m
  <2> QED BY <1>7, <1>11, <2>1
<1>13. PICK j \in i + 1 .. n : f \in M[j]
  BY <1>5, <1>7, <1>12, EscapeCountsRise DEF n, m
<1>14. j \in 1 .. n /\ j - 1 \in 0 .. n /\ j \in 0 .. n /\ i < j /\ j - 1 \in i .. n /\ j - 1 \in i - 1 .. n
  BY <1>1, <1>5
<1> DEFINE w == ws[j]
<1>15. Len(w) \in Nat /\ Len(w) > 0
  BY <1>14, WordHasCharacters DEF History, n
<1>16. /\ Matching(t, w, f)
       /\ \A x \in f .. f + Len(w) - 2 : e[j - 1][x] = 0
  BY <1>13, <1>14, PlacesOfWord DEF n
<1> HIDE DEF w
(* Word j has more than one character, or it would be found in word i.     *)
<1>17. Len(w) # 1
  <2> SUFFICES ASSUME Len(w) = 1 PROVE FALSE
    OBVIOUS
  <2>1. w[1] = t[f]
    <3>1. t[f + 1 - 1] = w[1]
      BY <1>16 DEF Matching
    <3>2. f + 1 - 1 = f
      BY <1>1, <1>7
    <3> QED BY <3>1, <3>2
  <2>2. ws[i][1] = t[f]
    <3>1. t[f + 1 - 1] = ws[i][1]
      BY <1>1, <1>7
    <3>2. f + 1 - 1 = f
      BY <1>1, <1>7
    <3> QED BY <3>1, <3>2
  <2>3. Splits(w, ws[i])
    <3>1. PICK s \in 0 .. Len(ws[i]) - 2 : s = 0
      BY <1>1, <1>8 DEF L
    <3>2. \A k \in 1 .. Len(w) : s + k <= Len(ws[i]) => ws[i][s + k] = w[k]
      <4>1. \A k \in 1 .. Len(w) : k = 1 /\ s + k = 1
        BY <3>1
      <4> QED BY <2>1, <2>2, <4>1
    <3> QED BY <3>2 DEF Splits
  <2> QED BY <1>5, <1>14, <2>3 DEF History, WordsGood, w, n
<1>18. e[j - 1][f] = 0
  <2>1. PICK l \in Nat : l = Len(w)
    BY <1>15
  <2>2. l # 1 /\ l > 0
    BY <1>15, <1>17, <2>1
  <2>3. f \in f .. f + l - 2
    BY <1>1, <1>7, <2>2
  <2> QED BY <1>16, <2>1, <2>3
<1>19. CASE \A x \in f .. f + L - 2 : e[i - 1][x] = 0
  <2>1. PICK h \in M[i] : h <= f /\ f < h + L
    <3>1. f \in Findable(t, ws[i], e[i - 1])
      BY <1>7, <1>19 DEF Findable, L, m
    <3> QED BY <3>1, TakenNext DEF L
  <2>2. h \in 1 .. m /\ h < f
    <3>1. h # f
      BY <1>10
    <3>2. h \in 1 .. m
      BY PlacesOfWord DEF m
    <3> QED BY <1>1, <1>7, <2>1, <3>1, <3>2
  <2>3. f = h + L - 1
    <3>1. f \notin h .. h + L - 2
      <4>1. f \in h .. h + L - 2 => e[n][f] = IF f = h THEN 1 ELSE 0
        BY InTheEnd DEF n, L
      <4> QED BY <1>11, <1>12, <2>2, <4>1
    <3> QED BY <1>1, <1>7, <2>1, <2>2, <3>1
  <2>4. CASE u[i - 1][h] = 0
    <3>1. u[i - 1][h + L - 1] = 0
      BY <1>8, <2>4 DEF NoneInTheWay, L
    <3> QED BY <1>7, <2>3, <3>1
  <2>5. CASE u[i - 1][h] # 0
    <3>1. u[i - 1][h] \in Nat
      BY <1>5, <2>2 DEF History, BackslashCounts, n, m
    <3>2. u[i - 1][h] >= 1
      BY <2>5, <3>1
    <3>3. h \in S[i]
      BY <1>1, <1>3, <1>4, <1>7, <1>8, <2>2, <3>2
    <3>4. h + L <= f
      BY <1>6, <2>2, <3>3, PlacesOfWord DEF L
    <3> QED BY <1>1, <1>7, <2>2, <2>3, <3>4
  <2> QED BY <2>4, <2>5
<1>20. CASE ~ \A x \in f .. f + L - 2 : e[i - 1][x] = 0
  <2>1. PICK h \in f .. f + L - 2 : e[i - 1][h] # 0
    BY <1>20
  <2>2. h \in 1 .. m
    BY SMTT(30), <1>1, <1>7
  <2>3. PICK k \in 1 .. i - 1 : h \in M[k]
    <3>1. e[0][h] = 0 /\ e[i - 1][h] \in Nat
      BY <1>5, <2>2 DEF History, BackslashCounts, n, m
    <3>2. e[0][h] < e[i - 1][h] => \E k \in 0 + 1 .. i - 1 : h \in M[k]
      BY <1>5, <2>2, EscapeCountsRise DEF n, m
    <3> QED BY <2>1, <3>1, <3>2
  <2>4. k \in 1 .. n /\ k - 1 \in 0 .. n /\ k \in 0 .. n /\ i \in k + 1 .. n
        /\ i - 1 \in k - 1 .. n /\ i - 1 \in k .. n
    BY <1>1, <1>5
  <2> DEFINE K == Len(ws[k])
  <2>5. K \in Nat /\ K > 0
    BY <2>4, WordHasCharacters DEF History, n
  <2> HIDE DEF K
  <2>6. /\ Matching(t, ws[k], h)
        /\ \A a \in 1 .. K : t[h + a - 1] = ws[k][a]
    <3>1. Matching(t, ws[k], h)
      BY <2>3, <2>4, PlacesOfWord DEF n
    <3> QED BY <3>1 DEF Matching, K
  <2>7. h > f
    <3>1. e[i - 1][f] <= e[j - 1][f] /\ e[i - 1][f] \in Nat /\ e[j - 1][f] \in Nat
      BY <1>5, <1>7, <1>14, EscapeCountsRise DEF n, m
    <3>2. h # f
      BY <1>18, <2>1, <3>1
    <3> QED BY <1>1, <1>7, <3>2
  (* The place ends before g does, or word i would be found in word k.     *)
  <2>8. h + K - 1 <= g
    <3>1. ~(g <= h + K - 2)
      <4>1. h <= g
        BY <1>1, <1>7, <1>9
      <4> QED BY <1>3, <2>3, <2>4, <4>1, NoneSplit DEF n, K
    <3> QED BY <1>1, <1>4, <2>2, <2>5, <3>1
  (* So word k is at x, too, as far behind g as h is behind f.             *)
  <2>9. PICK x \in 1 .. m : x = g + (h - f)
    BY <1>1, <1>4, <1>7, <1>9, <2>2, <2>5, <2>7, <2>8
  <2>10. g < x /\ x + K - 1 <= g + L - 1 /\ x <= g + L - 2
    <3>1. PICK d \in Nat : d = h - f /\ d > 0 /\ d <= L - 2
      BY <1>1, <1>7, <2>1, <2>2, <2>7
    <3>2. x = g + d /\ h = f + d
      BY <1>7, <2>2, <2>9, <3>1
    <3>3. d + K <= L
      BY <1>1, <1>4, <1>7, <1>9, <2>5, <2>8, <3>1, <3>2
    <3>4. g \in Int /\ L \in Int /\ K \in Int
      BY <1>1, <1>4, <2>5
    <3>5. g < g + d /\ g + d + K - 1 <= g + L - 1 /\ g + d <= g + L - 2
      BY SMTT(30), <3>1, <3>3, <3>4
    <3> QED BY <3>2, <3>5
  <2>11. Matching(t, ws[k], x)
    <3>1. ASSUME NEW a \in 1 .. K PROVE t[x + a - 1] = ws[k][a]
      <4>1. PICK b \in 1 .. L : b = h - f + a
        BY <1>1, <1>4, <1>7, <1>9, <2>2, <2>5, <2>7, <2>8
      <4>2. f + b - 1 = h + a - 1 /\ g + b - 1 = x + a - 1
        BY <1>1, <1>4, <1>7, <2>2, <2>5, <2>9, <4>1
      <4>3. t[f + b - 1] = ws[i][b] /\ t[g + b - 1] = ws[i][b]
        BY <1>4, <1>7
      <4>4. t[h + a - 1] = ws[k][a]
        BY <2>6
      <4> QED BY <4>2, <4>3, <4>4
    <3>2. x + K - 1 <= m
      BY <1>1, <1>4, <2>5, <2>10
    <3> QED BY <3>1, <3>2 DEF Matching, K, m
  <2>12. ASSUME NEW y \in x .. x + K - 2 PROVE e[k - 1][y] = 0
    <3>1. y \in g .. g + L - 2 /\ y \in 1 .. m
      BY <1>1, <1>4, <2>5, <2>10
    <3>2. e[i - 1][y] = 0
      BY <1>4, <3>1
    <3>3. e[k - 1][y] <= e[i - 1][y] /\ e[k - 1][y] \in Nat
      BY <2>4, <3>1, EscapeCountsRise DEF n, m
    <3> QED BY <3>2, <3>3
  <2>13. PICK q \in M[k] : q <= x /\ x < q + K
    <3>1. x \in Findable(t, ws[k], e[k - 1])
      BY <2>11, <2>12 DEF Findable, m, K
    <3>2. k \in 1 .. Len(ws)
      BY <2>4 DEF n
    <3> QED BY <3>1, <3>2, TakenNext DEF K
  <2>14. q \in 1 .. m /\ e[k][q] = e[k - 1][q] + 1
    BY SMTT(30), <2>4, PlacesOfWord DEF n, m
  <2>15. q < g
    <3>1. e[k][q] <= e[i - 1][q] /\ e[k][q] \in Nat
      BY <2>4, <2>14, EscapeCountsRise DEF n, m
    <3>2. e[k - 1][q] \in Nat
      BY <2>4, <2>14 DEF History, BackslashCounts, n, m
    <3>3. e[i - 1][q] # 0
      <4>1. e[i - 1][q] \in Nat
        BY <1>5, <2>14 DEF History, BackslashCounts, n, m
      <4>2. PICK a, b, c \in Nat : a = e[k - 1][q] /\ b = e[k][q] /\ c = e[i - 1][q]
        BY <3>1, <3>2, <4>1
      <4>3. b = a + 1 /\ b <= c
        BY <2>14, <3>1, <4>2
      <4>4. c # 0
        BY <4>3
      <4> QED BY <4>2, <4>4
    <3>4. q \notin g .. g + L - 2
      BY <1>4, <3>3
    <3> QED BY SMTT(30), <1>1, <1>4, <2>5, <2>10, <2>13, <2>14, <3>4
  <2>16. g <= q + K - 2
    BY <1>1, <1>4, <2>5, <2>10, <2>13, <2>14, <2>15
  <2>17. q <= g
    BY <1>1, <1>4, <2>14, <2>15
  <2> QED BY <1>3, <2>4, <2>16, <2>17, NoneSplit DEF n, K
<1> QED BY <1>19, <1>20

(* After word i is unescaped, only later words have backslashes left.      *)
LEMMA OnlyLaterNext ==
  ASSUME NEW t, NEW ws, NEW e, NEW u, NEW M, NEW S, History(t, ws, e, u, M, S),
         NEW i \in 1 .. Len(ws), EachTaken(u, M, S, i), OnlyLater(t, ws, e, u, i - 1)
  PROVE  OnlyLater(t, ws, e, u, i)
<1> DEFINE n == Len(ws)
           m == Len(t)
<1> SUFFICES ASSUME NEW x \in 1 .. m PROVE u[i][x] + e[i][x] <= e[n][x]
  BY DEF OnlyLater
<1>1. n \in Nat /\ m \in Nat
  BY TextHasCharacters DEF History
<1>2. i - 1 \in 0 .. n /\ i \in 0 .. n /\ n \in 0 .. n /\ n \in i .. n /\ i \in i - 1 .. n
  BY <1>1
<1>3. u[i - 1][x] + e[i - 1][x] <= e[n][x]
  BY DEF OnlyLater
<1>4. /\ u[i - 1][x] \in Nat /\ e[i - 1][x] \in Nat /\ e[n][x] \in Nat
      /\ u[i][x] \in Nat /\ e[i][x] \in Nat
  BY <1>2 DEF History, BackslashCounts
<1>5. e[i][x] = e[i - 1][x] + (IF x \in M[i] THEN 1 ELSE 0)
  BY DEF History, EscapedAt
<1>6. u[i][x] = u[i - 1][x] - (IF x \in S[i] THEN 1 ELSE 0)
  BY DEF History, UnescapedAt
<1>7. e[i][x] <= e[n][x]
  BY <1>2, EscapeCountsRise
<1>8. x \in M[i] => u[i - 1][x] = 0 \/ x \in S[i]
  BY <1>4 DEF EachTaken
<1> HIDE DEF n
<1>9. PICK a, b, c, d, f \in Nat : /\ a = u[i - 1][x] /\ b = e[i - 1][x] /\ c = e[n][x]
                                   /\ d = u[i][x] /\ f = e[i][x]
  BY <1>4
<1>10. a + b <= c /\ f <= c
  BY <1>3, <1>7, <1>9
<1>11. (x \in M[i] => f = b + 1) /\ (x \notin M[i] => f = b + 0)
  BY <1>5, <1>9
<1>12. (x \in S[i] => d = a - 1) /\ (x \notin S[i] => d = a - 0)
  BY <1>6, <1>9
<1>13. d + f <= c
  <2>1. CASE x \notin M[i]
    <3>1. f = b /\ d <= a
      BY <1>11, <1>12, <2>1
    <3> QED BY <1>10, <3>1
  <2>2. CASE x \in M[i] /\ x \in S[i]
    <3>1. f = b + 1 /\ d = a - 1
      BY <1>11, <1>12, <2>2
    <3> QED BY <1>10, <3>1
  <2>3. CASE x \in M[i] /\ x \notin S[i]
    <3>1. a = 0
      BY <1>8, <1>9, <2>3
    <3>2. d = 0
      BY <1>12, <2>3, <3>1
    <3> QED BY <1>10, <3>2
  <2> QED BY <2>1, <2>2, <2>3
<1> QED BY <1>9, <1>13

(* In the end no backslash is left.                                        *)
LEMMA NoneIsLeft ==
  ASSUME NEW t, NEW ws, NEW e, NEW u, NEW M, NEW S, History(t, ws, e, u, M, S)
  PROVE  \A x \in 1 .. Len(t) : u[Len(ws)][x] = 0
<1> DEFINE n == Len(ws)
           T == {i \in 0 .. n : /\ OnlyLater(t, ws, e, u, i)
                                /\ \A k \in 1 .. i : EachTaken(u, M, S, k)
                                                     /\ NoneInTheWay(ws, u, M, k)}
<1>1. n \in Nat /\ Len(t) \in Nat
  BY TextHasCharacters DEF History
<1>2. \A i \in 0 .. n, x \in 1 .. Len(t) : e[i][x] \in Nat /\ u[i][x] \in Nat
  BY DEF History, BackslashCounts
<1>3. 0 \in T
  <2>1. OnlyLater(t, ws, e, u, 0)
    <3>1. ASSUME NEW x \in 1 .. Len(t) PROVE u[0][x] + e[0][x] <= e[n][x]
      <4>1. e[0][x] = 0 /\ u[0][x] = e[n][x]
        BY DEF History, BackslashCounts
      <4>2. e[n][x] \in Nat
        BY <1>1, <1>2
      <4> QED BY <4>1, <4>2
    <3> QED BY <3>1 DEF OnlyLater
  <2> QED BY <1>1, <2>1
<1>4. ASSUME NEW i \in 1 .. n, i - 1 \in T PROVE i \in T
  <2>1. /\ OnlyLater(t, ws, e, u, i - 1)
        /\ \A k \in 1 .. i - 1 : EachTaken(u, M, S, k) /\ NoneInTheWay(ws, u, M, k)
    BY <1>4
  <2>2. NoneInTheWay(ws, u, M, i)
    BY <2>1, NothingComesInTheWay
  <2>3. EachTaken(u, M, S, i)
    BY <2>1, <2>2, EachPlaceIsTaken
  <2>4. OnlyLater(t, ws, e, u, i)
    BY <2>1, <2>3, OnlyLaterNext
  <2>5. \A k \in 1 .. i : k \in 1 .. i - 1 \/ k = i
    BY <1>1
  <2>6. \A k \in 1 .. i : EachTaken(u, M, S, k) /\ NoneInTheWay(ws, u, M, k)
    BY <2>1, <2>2, <2>3, <2>5
  <2> QED BY <1>1, <2>4, <2>6
<1>5. 0 .. n \subseteq T
  <2> HIDE DEF n, T
  <2> QED BY <1>1, <1>3, <1>4, UpTo
<1>6. OnlyLater(t, ws, e, u, n)
  BY <1>1, <1>5
<1> SUFFICES ASSUME NEW x \in 1 .. Len(t) PROVE u[n][x] = 0
  OBVIOUS
<1>7. u[n][x] + e[n][x] <= e[n][x]
  BY <1>6 DEF OnlyLater
<1>8. u[n][x] \in Nat /\ e[n][x] \in Nat
  BY <1>1, <1>2
<1> HIDE DEF n
<1> QED BY <1>7, <1>8

-----------------------------------------------------------------------------
(* Texts with backslashes, and where the text is in them.                  *)
EscapedLetters == Alphabet \cup {Backslash}

(* s is t with backslashes behind its characters; character g is at a[g].  *)
Spread(t, a, s) ==
  /\ s \in Seq(EscapedLetters)
  /\ a \in [1 .. Len(t) + 1 -> Nat]
  /\ a[1] = 1 /\ a[Len(t) + 1] = Len(s) + 1
  /\ \A g, h \in 1 .. Len(t) + 1 : g < h => a[g] < a[h]
  /\ \A g \in 1 .. Len(t) : s[a[g]] = t[g]
  /\ \A g \in 1 .. Len(t) : \A x \in a[g] + 1 .. a[g + 1] - 1 : s[x] = Backslash

GapCounts(t, a) == [g \in 1 .. Len(t) |-> a[g + 1] - a[g] - 1]

(* A count is the number of backslashes behind a character.                *)
LEMMA CountMeans ==
  ASSUME NEW t \in Seq(Alphabet), NEW a, NEW s, Spread(t, a, s), NEW g \in 1 .. Len(t)
  PROVE  /\ a[g] \in Nat /\ a[g + 1] \in Nat /\ a[g] < a[g + 1]
         /\ GapCounts(t, a)[g] \in Nat
         /\ a[g + 1] = a[g] + GapCounts(t, a)[g] + 1
         /\ a[g] \in 1 .. Len(s) /\ t[g] \in Alphabet /\ Len(s) \in Nat /\ Len(t) \in Nat
<1>1. Len(t) \in Nat /\ Len(s) \in Nat /\ t[g] \in Alphabet
  BY LenProperties, ElementOfSeq DEF Spread
<1>2. g \in 1 .. Len(t) + 1 /\ g + 1 \in 1 .. Len(t) + 1 /\ g < g + 1
      /\ 1 \in 1 .. Len(t) + 1 /\ Len(t) + 1 \in 1 .. Len(t) + 1
  BY <1>1
<1>3. a[g] \in Nat /\ a[g + 1] \in Nat /\ a[g] < a[g + 1]
  BY <1>2 DEF Spread
<1>4. GapCounts(t, a)[g] = a[g + 1] - a[g] - 1
  BY DEF GapCounts
<1>5. a[g] >= 1
  <2>1. g = 1 \/ 1 < g
    BY <1>1
  <2>2. 1 < g => a[1] < a[g]
    BY <1>2 DEF Spread
  <2> QED BY <1>3, <2>1, <2>2 DEF Spread
<1>6. a[g] <= Len(s)
  <2>1. g < Len(t) + 1
    BY <1>1
  <2>2. a[g] < a[Len(t) + 1]
    BY <1>2, <2>1 DEF Spread
  <2>3. a[Len(t) + 1] = Len(s) + 1
    BY DEF Spread
  <2> QED BY <1>1, <1>3, <2>2, <2>3
<1>7. PICK y, z \in Nat : y = a[g] /\ z = a[g + 1]
  BY <1>3
<1>8. GapCounts(t, a)[g] = z - y - 1 /\ y < z
  BY <1>3, <1>4, <1>7
<1>9. GapCounts(t, a)[g] \in Nat /\ a[g + 1] = a[g] + GapCounts(t, a)[g] + 1
  <2>1. PICK c \in Nat : c = z - y - 1
    BY <1>8
  <2>2. z = y + c + 1
    BY <2>1
  <2> QED BY <1>7, <1>8, <2>1, <2>2
<1> QED BY <1>1, <1>3, <1>5, <1>6, <1>9

(* Each character of s is one of t or a backslash behind one.              *)
LEMMA Covered ==
  ASSUME NEW t \in Seq(Alphabet), NEW a, NEW s, Spread(t, a, s), NEW x \in 1 .. Len(s)
  PROVE  \E g \in 1 .. Len(t) : a[g] <= x /\ x < a[g + 1]
<1> DEFINE m == Len(t)
           H == {h \in 1 .. m + 1 : x < a[h]}
<1>1. m \in Nat /\ Len(s) \in Nat
  BY LenProperties DEF Spread
<1>2. \A h \in 1 .. m + 1 : a[h] \in Nat
  BY DEF Spread
<1>3. a[1] = 1 /\ a[m + 1] = Len(s) + 1
  BY DEF Spread
<1>4. m + 1 \in H /\ H \subseteq Nat
  BY <1>1, <1>3
<1>5. PICK h \in H : \A y \in H : h <= y
  <2> HIDE DEF H
  <2> QED BY <1>4, LeastOf
<1>6. h # 1
  BY <1>1, <1>3, <1>5
<1>7. PICK g \in 1 .. m : g = h - 1
  BY <1>1, <1>5, <1>6
<1>8. g + 1 = h /\ ~(h <= g)
  BY <1>1, <1>5, <1>7
<1>9. g \notin H
  BY <1>5, <1>8
<1>10. ~(x < a[g]) /\ a[g] \in Nat
  BY <1>1, <1>2, <1>7, <1>9
<1> QED BY <1>1, <1>5, <1>7, <1>8, <1>10

(* No backslash is behind the n characters from g.                         *)
Unbroken(t, a, g, n) == \A x \in g .. g + n - 1 : GapCounts(t, a)[x] = 0

(* Without backslashes, characters are next to each other.                 *)
LEMMA NextToEachOther ==
  ASSUME NEW t \in Seq(Alphabet), NEW a, NEW s, Spread(t, a, s),
         NEW n \in Nat, NEW g \in 1 .. Len(t) + 1, g + n <= Len(t) + 1,
         Unbroken(t, a, g, n)
  PROVE  \A d \in 0 .. n : a[g + d] = a[g] + d
<1> DEFINE T == {d \in 0 .. n : a[g + d] = a[g] + d}
<1>1. Len(t) \in Nat /\ a[g] \in Nat
  BY LenProperties DEF Spread
<1>2. 0 \in T
  BY <1>1
<1>3. ASSUME NEW d \in 1 .. n, d - 1 \in T PROVE d \in T
  <2>1. PICK x \in g .. g + n - 1 : x = g + (d - 1)
    BY <1>1
  <2>2. x \in 1 .. Len(t) /\ x + 1 = g + d
    BY <1>1, <2>1
  <2>3. GapCounts(t, a)[x] = 0
    BY <2>1 DEF Unbroken
  <2>4. a[x + 1] = a[x] + 0 + 1 /\ a[x] \in Nat
    BY <2>2, <2>3, CountMeans
  <2>5. a[x] = a[g] + (d - 1)
    BY <1>3, <2>1
  <2>6. PICK y \in Nat : y = a[g]
    BY <1>1
  <2>7. a[x + 1] = y + d
    BY <2>4, <2>5, <2>6
  <2>8. a[g + d] = a[g] + d
    BY <2>2, <2>6, <2>7
  <2> QED BY <2>8
<1>4. 0 .. n \subseteq T
  <2> HIDE DEF T
  <2> QED BY <1>2, <1>3, UpTo
<1> QED BY <1>4

(* And the other way round.                                                *)
LEMMA NothingBetween ==
  ASSUME NEW t \in Seq(Alphabet), NEW a, NEW s, Spread(t, a, s),
         NEW n \in Nat, NEW g \in 1 .. Len(t), a[g] + n <= Len(s),
         \A d \in 1 .. n : s[a[g] + d] # Backslash
  PROVE  /\ g + n <= Len(t)
         /\ \A d \in 0 .. n : a[g + d] = a[g] + d
         /\ \A x \in g .. g + n - 1 : GapCounts(t, a)[x] = 0
<1> DEFINE T == {d \in 0 .. n : /\ g + d <= Len(t) /\ a[g + d] = a[g] + d
                                /\ \A x \in g .. g + d - 1 : GapCounts(t, a)[x] = 0}
<1>1. Len(t) \in Nat /\ Len(s) \in Nat /\ a[g] \in Nat
  BY CountMeans
<1>2. 0 \in T
  BY <1>1
<1>3. ASSUME NEW d \in 1 .. n, d - 1 \in T PROVE d \in T
  <2>1. PICK x \in 1 .. Len(t) : x = g + (d - 1)
    BY <1>1, <1>3
  <2>2. x + 1 = g + d
    BY <1>1, <2>1
  <2>3. a[x] = a[g] + (d - 1) /\ \A z \in g .. x - 1 : GapCounts(t, a)[z] = 0
    BY <1>3, <2>1
  <2>4. PICK y \in Nat : y = a[g]
    BY <1>1
  <2>5. PICK z \in Nat : z = a[x + 1]
    BY <2>1, CountMeans
  <2>12. PICK b \in Nat : b = a[x]
    BY <2>1, CountMeans
  <2>13. b = y + (d - 1) /\ d \in Nat
    BY <2>3, <2>4, <2>12
  <2>6. PICK c \in Nat : c = GapCounts(t, a)[x] /\ z = b + c + 1
    <3>1. GapCounts(t, a)[x] \in Nat /\ a[x + 1] = a[x] + GapCounts(t, a)[x] + 1
      BY <2>1, CountMeans
    <3>2. PICK c \in Nat : c = GapCounts(t, a)[x]
      BY <3>1
    <3>3. z = b + c + 1
      BY <3>1, <3>2, <2>5, <2>12
    <3> QED BY <3>2, <3>3
  <2>7. c = 0
    <3> SUFFICES ASSUME c # 0 PROVE FALSE
      OBVIOUS
    <3>1. PICK v : v = y + d
      OBVIOUS
    <3>2. v \in b + 1 .. z - 1
      BY <2>13, <2>6, <3>1
    <3>3. s[v] = Backslash
      BY <2>1, <2>5, <2>12, <3>2 DEF Spread
    <3> QED BY <2>4, <3>1, <3>3
  <2>8. z = y + d
    BY <2>6, <2>7, <2>13
  <2>9. x # Len(t)
    <3>1. a[Len(t) + 1] = Len(s) + 1
      BY DEF Spread
    <3>2. PICK l \in Nat : l = Len(s)
      BY <1>1
    <3>3. y + d <= l
      BY <2>4, <3>2, <2>13
    <3>4. x = Len(t) => z = l + 1
      BY <2>5, <3>1, <3>2
    <3> QED BY <2>8, <3>3, <3>4, <2>13
  <2>10. g + d <= Len(t) /\ a[g + d] = a[g] + d
    <3>1. a[g + d] = y + d
      BY <2>2, <2>5, <2>8
    <3>2. x + 1 <= Len(t)
      <4>1. PICK l \in Nat : l = Len(t)
        BY <1>1
      <4>2. x \in 1 .. l /\ x # l
        BY <2>1, <2>9, <4>1
      <4>3. x + 1 <= l
        BY <4>2
      <4> QED BY <4>1, <4>3
    <3> QED BY <2>2, <2>4, <3>1, <3>2
  <2>11. \A v \in g .. g + d - 1 : GapCounts(t, a)[v] = 0
    <3>1. \A v \in g .. g + d - 1 : v \in g .. x - 1 \/ v = x
      BY <1>1, <2>1
    <3> QED BY <2>3, <2>6, <2>7, <3>1
  <2> QED BY <2>10, <2>11
<1>4. 0 .. n \subseteq T
  <2> HIDE DEF T
  <2> QED BY <1>2, <1>3, UpTo
<1>5. n \in T
  BY <1>4
<1> QED BY <1>4, <1>5

(* p is in s behind place r.                                               *)
SeenAt(s, p, r) ==
  /\ r \in 0 .. Len(s) - Len(p)
  /\ \A k \in 1 .. Len(p) : s[r + k] = p[k]

(* A character that is no backslash is one of the text.                    *)
LEMMA CharacterOfText ==
  ASSUME WordsAssumption, NEW t \in Seq(Alphabet), NEW a, NEW s, Spread(t, a, s),
         NEW x \in 1 .. Len(s), s[x] # Backslash
  PROVE  \E g \in 1 .. Len(t) : a[g] = x /\ t[g] = s[x]
<1>1. PICK g \in 1 .. Len(t) : a[g] <= x /\ x < a[g + 1]
  BY Covered
<1>2. PICK y, z \in Nat : y = a[g] /\ z = a[g + 1]
  BY CountMeans
<1>3. y <= x /\ x < z /\ x \in Nat
  BY <1>1, <1>2, CountMeans
<1>4. ASSUME y # x PROVE FALSE
  <2>1. x \in y + 1 .. z - 1
    BY <1>2, <1>3, <1>4
  <2>2. s[x] = Backslash
    BY <1>2, <2>1 DEF Spread
  <2> QED BY <2>2
<1>5. a[g] = x
  BY <1>2, <1>4
<1>6. s[a[g]] = t[g]
  BY DEF Spread
<1> QED BY <1>5, <1>6

(* A word that is seen is one of the text without backslashes in it, and   *)
(* the other way round.                                                    *)
LEMMA SeenIsFindable ==
  ASSUME WordsAssumption, NEW t \in Seq(Alphabet), NEW a, NEW s, Spread(t, a, s),
         NEW w \in Seq(Alphabet), Len(w) > 0, NEW r \in Int, SeenAt(s, w, r)
  PROVE  \E g \in Findable(t, w, GapCounts(t, a)) : a[g] = r + 1
<1>1. Len(t) \in Nat /\ Len(s) \in Nat /\ Len(w) \in Nat
  BY LenProperties DEF Spread
<1>2. \A k \in 1 .. Len(w) : w[k] \in Alphabet /\ w[k] # Backslash /\ s[r + k] = w[k]
  BY ElementOfSeq DEF SeenAt, WordsAssumption
<1>3. PICK N \in Nat : N = Len(w)
  BY <1>1
<1>4. PICK l \in Nat : l = Len(s)
  BY <1>1
<1>5. r \in 0 .. l - N /\ N > 0
  BY <1>3, <1>4 DEF SeenAt
<1>6. PICK x \in 1 .. Len(s) : x = r + 1
  BY <1>3, <1>4, <1>5
<1>7. s[x] # Backslash
  <2>1. 1 \in 1 .. Len(w)
    BY <1>3, <1>5
  <2> QED BY <1>2, <1>6, <2>1
<1>8. PICK g \in 1 .. Len(t) : a[g] = x
  BY <1>7, CharacterOfText
<1>9. PICK n \in Nat : n = N - 1
  BY <1>5
<1>10. a[g] + n <= Len(s)
  BY <1>4, <1>5, <1>6, <1>8, <1>9
<1>11. \A d \in 1 .. n : s[a[g] + d] # Backslash
  <2> TAKE d \in 1 .. n
  <2>1. d + 1 \in 1 .. Len(w) /\ r + (d + 1) = x + d
    BY <1>3, <1>6, <1>9
  <2> QED BY <1>2, <1>8, <2>1
<1>12. /\ g + n <= Len(t)
       /\ \A d \in 0 .. n : a[g + d] = a[g] + d
       /\ \A y \in g .. g + n - 1 : GapCounts(t, a)[y] = 0
  BY <1>10, <1>11, NothingBetween
<1>13. Matching(t, w, g)
  <2>1. ASSUME NEW k \in 1 .. Len(w) PROVE t[g + k - 1] = w[k]
    <3>1. PICK d \in 0 .. n : d = k - 1
      BY <1>3, <1>9
    <3>2. PICK h \in 1 .. Len(t) : h = g + d
      BY <1>1, <1>12, <3>1
    <3>3. h = g + k - 1 /\ x + d = r + k
      BY <1>6, <3>1, <3>2
    <3>4. a[h] = x + d
      BY <1>8, <1>12, <3>2
    <3>5. s[a[h]] = t[h]
      BY DEF Spread
    <3> QED BY <1>2, <3>3, <3>4, <3>5
  <2>2. g + Len(w) - 1 = g + n
    BY <1>3, <1>9
  <2> QED BY <1>12, <2>1, <2>2 DEF Matching
<1>14. g + Len(w) - 2 = g + n - 1
  BY <1>3, <1>9
<1>15. g \in Findable(t, w, GapCounts(t, a))
  BY <1>12, <1>13, <1>14 DEF Findable
<1> QED BY <1>6, <1>8, <1>15

LEMMA FindableIsSeen ==
  ASSUME NEW t \in Seq(Alphabet), NEW a, NEW s, Spread(t, a, s),
         NEW w \in Seq(Alphabet), Len(w) > 0, NEW g \in Findable(t, w, GapCounts(t, a))
  PROVE  SeenAt(s, w, a[g] - 1) /\ a[g + Len(w) - 1] = a[g] + (Len(w) - 1)
<1>1. Len(t) \in Nat /\ Len(s) \in Nat /\ Len(w) \in Nat
  BY LenProperties DEF Spread
<1>2. PICK N \in Nat : N = Len(w)
  BY <1>1
<1>3. PICK n \in Nat : n = N - 1
  BY <1>2
<1>4. g \in 1 .. Len(t) /\ g + N - 1 <= Len(t) /\ \A k \in 1 .. N : t[g + k - 1] = w[k]
  BY <1>2 DEF Findable, Matching
<1>5. g \in 1 .. Len(t) + 1 /\ g + n <= Len(t) /\ g + n <= Len(t) + 1
  BY <1>1, <1>3, <1>4
<1>6. \A y \in g .. g + n - 1 : GapCounts(t, a)[y] = 0
  <2>1. g + n - 1 = g + Len(w) - 2
    BY <1>2, <1>3, <1>4
  <2> QED BY <2>1 DEF Findable
<1>7. \A d \in 0 .. n : a[g + d] = a[g] + d
  <2>1. Unbroken(t, a, g, n)
    BY <1>6 DEF Unbroken
  <2>2. n \in Nat
    BY <1>3
  <2>3. g \in 1 .. Len(t) + 1
    BY <1>5
  <2>4. g + n <= Len(t) + 1
    BY <1>5
  <2> QED BY <2>1, <2>2, <2>3, <2>4, NextToEachOther
<1>8. PICK y \in Nat : y = a[g] /\ y >= 1
  <2>1. a[g] \in Nat /\ a[g] \in 1 .. Len(s)
    BY <1>4, CountMeans
  <2> QED BY <2>1
<1>9. a[g + n] = y + n /\ g + n \in 1 .. Len(t)
  BY <1>1, <1>4, <1>5, <1>7, <1>8
<1>10. y + n <= Len(s)
  <2>1. a[g + n] \in 1 .. Len(s)
    BY <1>9, CountMeans
  <2> QED BY <1>1, <1>9, <2>1
<1>11. y - 1 \in 0 .. Len(s) - Len(w)
  BY <1>1, <1>2, <1>3, <1>8, <1>10
<1>12. ASSUME NEW k \in 1 .. Len(w) PROVE s[(y - 1) + k] = w[k]
  <2>1. PICK d \in 0 .. n : d = k - 1
    BY <1>2, <1>3, <1>12
  <2>2. PICK h \in 1 .. Len(t) : h = g + d
    BY <1>1, <1>4, <1>5, <2>1
  <2>3. h = g + k - 1 /\ (y - 1) + k = y + d
    BY <1>12, <1>4, <2>1, <2>2
  <2>4. a[h] = y + d
    BY <1>7, <1>8, <2>1, <2>2
  <2>5. s[a[h]] = t[h]
    BY DEF Spread
  <2>6. t[h] = w[k]
    BY <1>2, <1>4, <2>3
  <2> QED BY <2>3, <2>4, <2>5, <2>6
<1>13. g + Len(w) - 1 = g + n /\ y + n = y + (Len(w) - 1)
  BY <1>2, <1>3, <1>4
<1> QED BY <1>8, <1>9, <1>11, <1>12, <1>13 DEF SeenAt

(* The word with its backslash.                                            *)
LEMMA EscapedPatMeans ==
  ASSUME NEW w \in Seq(Alphabet), Len(w) > 0
  PROVE  /\ EscapedPat(w) \in Seq(EscapedLetters)
         /\ Len(EscapedPat(w)) = Len(w) + 1
         /\ EscapedPat(w)[1] = w[1] /\ EscapedPat(w)[2] = Backslash
         /\ \A k \in 2 .. Len(w) : EscapedPat(w)[k + 1] = w[k]
<1>1. Len(w) \in Nat /\ w[1] \in Alphabet
  BY LenProperties, ElementOfSeq
<1>2. w # <<>>
  BY EmptySeq
<1>3. Tail(w) \in Seq(Alphabet) /\ Len(Tail(w)) = Len(w) - 1
      /\ \A i \in 1 .. Len(w) - 1 : Tail(w)[i] = w[i + 1]
  BY <1>2, HeadTailProperties
<1> DEFINE p == <<w[1], Backslash>>
           q == Tail(w)
<1>4. p \in Seq(EscapedLetters) /\ Len(p) = 2 /\ p[1] = w[1] /\ p[2] = Backslash
  BY <1>1 DEF EscapedLetters
<1>5. q \in Seq(EscapedLetters)
  BY <1>3 DEF EscapedLetters
<1>6. Len(q) = Len(w) - 1 /\ \A i \in 1 .. Len(w) - 1 : q[i] = w[i + 1]
  BY <1>3
<1> HIDE DEF p, q
<1>7. p \o q \in Seq(EscapedLetters) /\ Len(p \o q) = 2 + (Len(w) - 1)
      /\ \A i \in 1 .. 2 + (Len(w) - 1) : (p \o q)[i] = IF i <= 2 THEN p[i] ELSE q[i - 2]
  <2>1. /\ p \o q \in Seq(EscapedLetters) /\ Len(p \o q) = Len(p) + Len(q)
        /\ \A i \in 1 .. Len(p) + Len(q) : (p \o q)[i] = IF i <= Len(p) THEN p[i] ELSE q[i - Len(p)]
    BY <1>4, <1>5, ConcatProperties
  <2> QED BY <1>4, <1>6, <2>1
<1>8. EscapedPat(w) = p \o q
  BY DEF EscapedPat, p, q
<1>9. (p \o q)[1] = p[1] /\ (p \o q)[2] = p[2]
  BY <1>1, <1>7
<1>10. ASSUME NEW k \in 2 .. Len(w) PROVE (p \o q)[k + 1] = w[k]
  <2>1. k + 1 \in 1 .. 2 + (Len(w) - 1) /\ ~(k + 1 <= 2) /\ (k + 1) - 2 = k - 1
        /\ k - 1 \in 1 .. Len(w) - 1 /\ (k - 1) + 1 = k
    BY <1>1
  <2> QED BY <1>6, <1>7, <2>1
<1>11. 2 + (Len(w) - 1) = Len(w) + 1
  BY <1>1
<1> QED BY <1>4, <1>7, <1>8, <1>9, <1>10, <1>11

(* A word that is seen with a backslash in it is one of the text with a    *)
(* backslash there, and the other way round.                               *)
LEMMA SeenIsErasable ==
  ASSUME WordsAssumption, NEW t \in Seq(Alphabet), NEW a, NEW s, Spread(t, a, s),
         NEW w \in Seq(Alphabet), Len(w) > 0, NEW r \in Int, SeenAt(s, EscapedPat(w), r)
  PROVE  \E g \in Erasable(t, w, GapCounts(t, a)) : a[g] = r + 1
<1> DEFINE p == EscapedPat(w)
<1>1. Len(t) \in Nat /\ Len(s) \in Nat /\ Len(w) \in Nat
  BY LenProperties DEF Spread
<1>2. \A k \in 1 .. Len(w) : w[k] \in Alphabet /\ w[k] # Backslash
  BY ElementOfSeq DEF WordsAssumption
<1>3. PICK N \in Nat : N = Len(w)
  BY <1>1
<1>4. PICK l \in Nat : l = Len(s)
  BY <1>1
<1>5. Len(p) = N + 1 /\ p[1] = w[1] /\ p[2] = Backslash /\ \A k \in 2 .. N : p[k + 1] = w[k]
  BY <1>3, EscapedPatMeans
<1>6. r \in 0 .. l - (N + 1) /\ \A k \in 1 .. N + 1 : s[r + k] = p[k]
  BY <1>4, <1>5 DEF SeenAt
<1> HIDE DEF p
<1>7. N >= 1
  BY <1>3
<1>8. PICK x \in 1 .. Len(s) : x = r + 1
  BY <1>3, <1>4, <1>6, <1>7
<1>9. x + 1 = r + 2 /\ x + 1 \in 1 .. Len(s) /\ x + N <= l /\ x \in Nat
  BY <1>3, <1>4, <1>6, <1>7, <1>8
<1>10. s[x] = w[1] /\ s[x] # Backslash /\ s[x + 1] = Backslash
  <2>1. 1 \in 1 .. N + 1 /\ 2 \in 1 .. N + 1 /\ 1 \in 1 .. Len(w)
    BY <1>3, <1>7
  <2>2. s[r + 1] = p[1] /\ s[r + 2] = p[2]
    BY <1>6, <2>1
  <2> QED BY <1>2, <1>5, <1>8, <1>9, <2>1, <2>2
<1>11. PICK g \in 1 .. Len(t) : a[g] = x /\ t[g] = s[x]
  BY <1>10, CharacterOfText
<1>12. PICK z \in Nat : z = a[g + 1]
  BY CountMeans
<1>13. PICK c \in Nat : c = GapCounts(t, a)[g]
  BY CountMeans
<1>14. z = x + c + 1
  BY SMTT(30), <1>11, <1>12, <1>13, CountMeans
<1>15. c >= 1
  <2> SUFFICES ASSUME z = x + 1 PROVE FALSE
    BY SMTT(30), <1>13, <1>14, <1>9
  <2>1. CASE g = Len(t)
    <3>1. z = l + 1
      BY <1>4, <1>12, <2>1 DEF Spread
    <3> QED BY <1>3, <1>7, <1>9, <3>1
  <2>2. CASE g # Len(t)
    <3>1. g + 1 \in 1 .. Len(t)
      BY <1>1, <2>2
    <3>2. s[a[g + 1]] = t[g + 1] /\ t[g + 1] \in Alphabet
      BY <3>1, ElementOfSeq DEF Spread
    <3> QED BY <1>10, <1>12, <3>2 DEF WordsAssumption
  <2> QED BY <2>1, <2>2
<1>16. ASSUME N > 1
       PROVE  /\ c = 1 /\ g + N - 1 <= Len(t)
              /\ \A k \in 2 .. N : t[g + k - 1] = w[k]
              /\ \A y \in g + 1 .. g + N - 2 : GapCounts(t, a)[y] = 0
  <2>1. \A k \in 2 .. N : s[x + k] = w[k]
    <3> TAKE k \in 2 .. N
    <3>1. k + 1 \in 1 .. N + 1 /\ r + (k + 1) = x + k
      BY <1>6, <1>8, <1>3
    <3>2. s[r + (k + 1)] = p[k + 1]
      BY <1>6, <3>1
    <3> QED BY <1>5, <3>1, <3>2
  <2>2. \A k \in 2 .. N : w[k] # Backslash
    BY <1>2, <1>3
  <2>3. c = 1
    <3> SUFFICES ASSUME c > 1 PROVE FALSE
      BY <1>13, <1>15
    <3>1. 2 \in 2 .. N
      BY <1>3, <1>16
    <3>2. PICK v : v = x + 2
      OBVIOUS
    <3>3. v \in x + 1 .. z - 1
      BY SMTT(30), <1>9, <1>13, <1>14, <3>2
    <3>4. s[v] = Backslash
      BY <1>11, <1>12, <3>3 DEF Spread
    <3> QED BY <2>1, <2>2, <3>1, <3>2, <3>4
  <2>4. z = x + 2
    BY <1>9, <1>14, <2>3
  <2>5. g # Len(t)
    <3>1. g = Len(t) => z = l + 1
      BY <1>4, <1>12 DEF Spread
    <3> QED BY <1>3, <1>9, <1>16, <2>4, <3>1
  <2>6. PICK h \in 1 .. Len(t) : h = g + 1
    BY <1>1, <2>5
  <2>7. PICK n \in Nat : n = N - 2
    BY <1>3, <1>16
  <2>8. a[h] = x + 2
    BY <1>12, <2>4, <2>6
  <2>9. a[h] + n <= Len(s)
    BY <1>3, <1>4, <1>9, <2>7, <2>8
  <2>10. \A d \in 1 .. n : s[a[h] + d] # Backslash
    <3> TAKE d \in 1 .. n
    <3>1. d + 2 \in 2 .. N /\ x + (d + 2) = (x + 2) + d
      BY <1>3, <1>9, <2>7
    <3> QED BY <2>1, <2>2, <2>8, <3>1
  <2>11. /\ h + n <= Len(t)
         /\ \A d \in 0 .. n : a[h + d] = a[h] + d
         /\ \A y \in h .. h + n - 1 : GapCounts(t, a)[y] = 0
    BY <2>7, <2>9, <2>10, NothingBetween
  <2>12. h + n = g + N - 1 /\ h + n - 1 = g + N - 2
    BY <1>3, <2>6, <2>7
  <2>13. ASSUME NEW k \in 2 .. N PROVE t[g + k - 1] = w[k]
    <3>1. PICK d \in 0 .. n : d = k - 2
      BY <1>3, <2>7
    <3>2. PICK y \in 1 .. Len(t) : y = h + d
      BY <1>1, <2>7, <2>11, <3>1
    <3>3. y = g + k - 1 /\ (x + 2) + d = x + k
      BY <1>9, <2>6, <3>1, <3>2
    <3>4. a[y] = (x + 2) + d
      BY <2>8, <2>11, <3>2
    <3>5. s[a[y]] = t[y]
      BY DEF Spread
    <3> QED BY <2>1, <3>3, <3>4, <3>5
  <2> QED BY <2>3, <2>6, <2>11, <2>12, <2>13
<1>17. Matching(t, w, g)
  <2>1. g + N - 1 <= Len(t)
    BY <1>1, <1>7, <1>16
  <2>2. ASSUME NEW k \in 1 .. N PROVE t[g + k - 1] = w[k]
    <3>1. k = 1 => g + k - 1 = g
      BY <1>1
    <3>2. k # 1 => k \in 2 .. N /\ N > 1
      BY <1>3
    <3> QED BY <1>10, <1>11, <1>16, <3>1, <3>2
  <2> QED BY <1>3, <2>1, <2>2 DEF Matching
<1>18. \A y \in g + 1 .. g + N - 2 : GapCounts(t, a)[y] = 0
  <2>1. N = 1 => g + 1 .. g + N - 2 = {}
    BY <1>1
  <2>2. N = 1 \/ N > 1
    BY <1>3, <1>7
  <2> QED BY <1>16, <2>1, <2>2
<1>19. g \in Erasable(t, w, GapCounts(t, a))
  BY <1>3, <1>13, <1>15, <1>16, <1>17, <1>18 DEF Erasable
<1> QED BY <1>8, <1>11, <1>19

LEMMA ErasableIsSeen ==
  ASSUME NEW t \in Seq(Alphabet), NEW a, NEW s, Spread(t, a, s),
         NEW w \in Seq(Alphabet), Len(w) > 0, NEW g \in Erasable(t, w, GapCounts(t, a))
  PROVE  /\ SeenAt(s, EscapedPat(w), a[g] - 1)
         /\ Len(w) > 1 => a[g + Len(w) - 1] = a[g] + Len(w)
<1> DEFINE p == EscapedPat(w)
<1>1. Len(t) \in Nat /\ Len(s) \in Nat /\ Len(w) \in Nat
  BY LenProperties DEF Spread
<1>2. PICK N \in Nat : N = Len(w)
  BY <1>1
<1>3. Len(p) = N + 1 /\ p[1] = w[1] /\ p[2] = Backslash /\ \A k \in 2 .. N : p[k + 1] = w[k]
  BY <1>2, EscapedPatMeans
<1> HIDE DEF p
<1>4. g \in 1 .. Len(t) /\ g + N - 1 <= Len(t) /\ \A k \in 1 .. N : t[g + k - 1] = w[k]
  BY <1>2 DEF Erasable, Matching
<1>5. N >= 1
  BY <1>2
<1>6. PICK y \in Nat : y = a[g] /\ y >= 1
  <2>1. a[g] \in Nat /\ a[g] \in 1 .. Len(s)
    BY <1>4, CountMeans
  <2> QED BY <2>1
<1>7. PICK z \in Nat : z = a[g + 1]
  BY <1>4, CountMeans
<1>8. PICK c \in Nat : c = GapCounts(t, a)[g]
  BY <1>4, CountMeans
<1>9. z = y + c + 1
  BY <1>4, <1>6, <1>7, <1>8, CountMeans
<1>10. c >= 1 /\ (N > 1 => c = 1)
  BY <1>2, <1>8 DEF Erasable
<1>11. PICK l \in Nat : l = Len(s)
  BY <1>1
<1>12. z <= l + 1
  <2>1. g = Len(t) => z = l + 1
    BY <1>7, <1>11 DEF Spread
  <2>2. g # Len(t) => g + 1 \in 1 .. Len(t)
    BY <1>1, <1>4
  <2>3. g # Len(t) => z \in 1 .. l
    BY <1>7, <1>11, <2>2, CountMeans
  <2> QED BY <1>7, <1>11, <2>1, <2>3
<1>13. s[y] = w[1] /\ s[y + 1] = Backslash
  <2>1. 1 \in 1 .. N /\ g + 1 - 1 = g
    BY <1>2, <1>4, <1>5
  <2>2. s[y] = t[g] /\ t[g] = w[1]
    BY <1>4, <1>6, <2>1 DEF Spread
  <2>3. PICK v : v = y + 1
    OBVIOUS
  <2>4. v \in y + 1 .. z - 1
    BY SMTT(30), <1>9, <1>8, <1>6, <1>10, <2>3
  <2>5. s[v] = Backslash
    BY <1>4, <1>6, <1>7, <2>4 DEF Spread
  <2> QED BY <2>2, <2>3, <2>5
<1>14. ASSUME N > 1
       PROVE  /\ a[g + N - 1] = y + N /\ y + N <= l
              /\ \A k \in 2 .. N : s[y + k] = w[k]
  <2>1. PICK n \in Nat : n = N - 2
    BY <1>2, <1>14
  <2>2. PICK h \in 1 .. Len(t) : h = g + 1
    BY <1>1, <1>2, <1>4, <1>14
  <2>3. PICK b \in Nat : b = a[h] /\ b = y + 2
    <3>1. c = 1
      BY <1>10, <1>14
    <3>2. z = y + 2
      BY <1>6, <1>9, <3>1
    <3> QED BY <1>7, <2>2, <3>2
  <2>4. h + n = g + N - 1
    BY <1>2, <1>4, <2>1, <2>2
  <2>5. Unbroken(t, a, h, n)
    <3>1. h + n - 1 = g + Len(w) - 2
      BY <1>2, <1>4, <2>1, <2>2
    <3> QED BY <2>2, <3>1 DEF Unbroken, Erasable
  <2>6. n \in Nat /\ h \in 1 .. Len(t) + 1
    BY <1>1, <2>1
  <2>7. h + n <= Len(t) + 1
    BY <1>1, <1>2, <1>4, <2>4
  <2>8. \A d \in 0 .. n : a[h + d] = a[h] + d
    BY <2>5, <2>6, <2>7, NextToEachOther
  <2>9. ASSUME NEW d \in 0 .. n PROVE a[h + d] = y + (d + 2) /\ h + d \in 1 .. Len(t)
    <3>1. (y + 2) + d = y + (d + 2)
      BY <1>6, <2>1
    <3>2. h + d \in 1 .. Len(t)
      BY SMTT(30), <1>1, <1>2, <1>4, <2>1, <2>4
    <3> QED BY <2>3, <2>8, <3>1, <3>2
  <2>10. n \in 0 .. n /\ y + (n + 2) = y + N
    BY <1>2, <1>6, <2>1
  <2>11. a[g + N - 1] = y + N /\ g + N - 1 \in 1 .. Len(t)
    BY <2>4, <2>9, <2>10
  <2>12. y + N <= l
    <3>1. a[g + N - 1] \in 1 .. Len(s)
      BY <2>11, CountMeans
    <3> QED BY <1>11, <2>11, <3>1
  <2>13. ASSUME NEW k \in 2 .. N PROVE s[y + k] = w[k]
    <3>1. PICK d \in 0 .. n : d = k - 2
      BY <1>2, <2>1
    <3>2. PICK v \in 1 .. Len(t) : v = h + d
      BY <2>9, <3>1
    <3>3. v = g + k - 1 /\ y + (d + 2) = y + k /\ k \in 1 .. N
      BY <1>4, <1>6, <2>2, <3>1, <3>2
    <3>4. a[v] = y + k
      BY <2>9, <3>2, <3>3
    <3>5. s[a[v]] = t[v] /\ t[v] = w[k]
      BY <1>4, <3>3 DEF Spread
    <3> QED BY <3>4, <3>5
  <2> QED BY <2>11, <2>12, <2>13
<1>15. y + N <= l
  <2>1. N = 1 => y + N <= l
    BY SMTT(30), <1>6, <1>8, <1>9, <1>10, <1>11, <1>12
  <2>2. N = 1 \/ N > 1
    BY <1>2, <1>5
  <2> QED BY <1>14, <2>1, <2>2
<1>16. y - 1 \in 0 .. l - (N + 1)
  BY <1>2, <1>6, <1>11, <1>15
<1>17. ASSUME NEW k \in 1 .. N + 1 PROVE s[(y - 1) + k] = p[k]
  <2>1. CASE k = 1
    <3>1. (y - 1) + 1 = y
      BY <1>6
    <3> QED BY <1>3, <1>13, <2>1, <3>1
  <2>2. CASE k = 2
    <3>1. (y - 1) + 2 = y + 1
      BY <1>6
    <3> QED BY <1>3, <1>13, <2>2, <3>1
  <2>3. CASE k \notin {1, 2}
    <3>1. PICK j \in 2 .. N : k = j + 1
      <4>1. k - 1 \in 2 .. N /\ k = (k - 1) + 1
        BY <1>2, <1>17, <2>3
      <4> QED BY <4>1
    <3>2. (y - 1) + (j + 1) = y + j /\ N > 1
      BY SMTT(30), <1>2, <1>6, <3>1
    <3> QED BY <1>3, <1>14, <3>1, <3>2
  <2> QED BY <2>1, <2>2, <2>3
<1>18. SeenAt(s, p, y - 1)
  BY <1>3, <1>11, <1>16, <1>17 DEF SeenAt
<1> QED BY <1>2, <1>6, <1>14, <1>18 DEF p

(* s with a backslash put in behind character y, and with the one that is  *)
(* there taken out.                                                        *)
PutIn(s, y) == SubSeq(s, 1, y) \o <<Backslash>> \o Drop(s, y)
TakenOut(s, y) == SubSeq(s, 1, y) \o Drop(s, y + 1)

(* Their characters.                                                       *)
LEMMA PutInMeans ==
  ASSUME NEW s \in Seq(EscapedLetters), NEW y \in 1 .. Len(s)
  PROVE  /\ PutIn(s, y) \in Seq(EscapedLetters) /\ Len(PutIn(s, y)) = Len(s) + 1
         /\ \A x \in 1 .. y : PutIn(s, y)[x] = s[x]
         /\ PutIn(s, y)[y + 1] = Backslash
         /\ \A x \in y + 2 .. Len(s) + 1 : PutIn(s, y)[x] = s[x - 1]
<1> DEFINE p == SubSeq(s, 1, y)
           q == Drop(s, y)
           b == <<Backslash>>
<1>1. PICK l \in Nat : l = Len(s)
  BY LenProperties
<1>2. y \in 1 .. l /\ y \in Nat
  BY <1>1
<1>3. p \in Seq(EscapedLetters) /\ Len(p) = y /\ \A i \in 1 .. y : p[i] = s[i]
  <2>1. PICK z \in 0 .. l : z = 0
    BY <1>1
  <2>2. z + 1 = 1 /\ y - z = y /\ y \in z .. Len(s) /\ z \in 0 .. Len(s)
    BY <1>1, <1>2, <2>1
  <2>3. /\ SubSeq(s, z + 1, y) \in Seq(EscapedLetters)
        /\ Len(SubSeq(s, z + 1, y)) = y - z
        /\ \A i \in 1 .. y - z : SubSeq(s, z + 1, y)[i] = s[z + i]
    BY <2>2, CutMeans
  <2>4. \A i \in 1 .. y : z + i = i
    BY <2>1
  <2> QED BY <2>2, <2>3, <2>4
<1>4. q \in Seq(EscapedLetters) /\ Len(q) = l - y /\ \A i \in 1 .. l - y : q[i] = s[y + i]
  <2>1. y \in 0 .. Len(s) /\ Len(s) \in y .. Len(s)
    BY <1>1, <1>2
  <2>2. q = SubSeq(s, y + 1, Len(s))
    BY DEF Drop
  <2> QED BY <1>1, <2>1, <2>2, CutMeans
<1>5. b \in Seq(EscapedLetters) /\ Len(b) = 1 /\ b[1] = Backslash
  BY DEF EscapedLetters
<1> HIDE DEF p, q, b
<1> DEFINE h == p \o b
<1>6. /\ h \in Seq(EscapedLetters) /\ Len(h) = y + 1
      /\ \A i \in 1 .. y + 1 : h[i] = IF i <= y THEN p[i] ELSE b[i - y]
  <2>1. /\ h \in Seq(EscapedLetters) /\ Len(h) = Len(p) + Len(b)
        /\ \A i \in 1 .. Len(p) + Len(b) : h[i] = IF i <= Len(p) THEN p[i] ELSE b[i - Len(p)]
    BY <1>3, <1>5, ConcatProperties
  <2> QED BY <1>3, <1>5, <2>1
<1> HIDE DEF h
<1> DEFINE f == h \o q
<1>7. /\ f \in Seq(EscapedLetters) /\ Len(f) = (y + 1) + (l - y)
      /\ \A i \in 1 .. (y + 1) + (l - y) : f[i] = IF i <= y + 1 THEN h[i] ELSE q[i - (y + 1)]
  <2>1. /\ f \in Seq(EscapedLetters) /\ Len(f) = Len(h) + Len(q)
        /\ \A i \in 1 .. Len(h) + Len(q) : f[i] = IF i <= Len(h) THEN h[i] ELSE q[i - Len(h)]
    BY <1>6, <1>4, ConcatProperties
  <2> QED BY <1>6, <1>4, <2>1
<1>8. PutIn(s, y) = f
  BY DEF PutIn, p, q, b, h, f
<1> HIDE DEF f
<1>9. (y + 1) + (l - y) = l + 1
  BY <1>2, <1>1
<1>10. ASSUME NEW x \in 1 .. y PROVE f[x] = s[x]
  <2>1. x \in 1 .. (y + 1) + (l - y) /\ x <= y + 1 /\ x \in 1 .. y + 1 /\ x <= y
    BY <1>1, <1>2
  <2> QED BY <1>3, <1>6, <1>7, <2>1
<1>11. f[y + 1] = Backslash
  <2>1. y + 1 \in 1 .. (y + 1) + (l - y) /\ y + 1 <= y + 1 /\ y + 1 \in 1 .. y + 1
        /\ ~(y + 1 <= y) /\ (y + 1) - y = 1
    BY <1>1, <1>2
  <2>2. f[y + 1] = h[y + 1]
    BY <1>7, <2>1
  <2>3. h[y + 1] = b[1]
    BY <1>6, <2>1
  <2> QED BY <1>5, <2>2, <2>3
<1>12. ASSUME NEW x \in y + 2 .. l + 1 PROVE f[x] = s[x - 1]
  <2>1. x \in 1 .. (y + 1) + (l - y) /\ ~(x <= y + 1) /\ x - (y + 1) \in 1 .. l - y
        /\ y + (x - (y + 1)) = x - 1
    BY <1>1, <1>2
  <2>2. f[x] = q[x - (y + 1)]
    BY <1>7, <2>1
  <2> QED BY <1>4, <2>1, <2>2
<1> QED BY <1>1, <1>7, <1>8, <1>9, <1>10, <1>11, <1>12

LEMMA TakenOutMeans ==
  ASSUME NEW s \in Seq(EscapedLetters), NEW y \in 1 .. Len(s) - 1
  PROVE  /\ TakenOut(s, y) \in Seq(EscapedLetters) /\ Len(TakenOut(s, y)) = Len(s) - 1
         /\ \A x \in 1 .. y : TakenOut(s, y)[x] = s[x]
         /\ \A x \in y + 1 .. Len(s) - 1 : TakenOut(s, y)[x] = s[x + 1]
<1> DEFINE p == SubSeq(s, 1, y)
           q == Drop(s, y + 1)
<1>1. PICK l \in Nat : l = Len(s)
  BY LenProperties
<1>2. y \in 1 .. l - 1 /\ y \in Nat
  BY <1>1
<1>3. p \in Seq(EscapedLetters) /\ Len(p) = y /\ \A i \in 1 .. y : p[i] = s[i]
  <2>1. PICK z \in 0 .. l : z = 0
    BY <1>1
  <2>2. z + 1 = 1 /\ y - z = y /\ y \in z .. Len(s) /\ z \in 0 .. Len(s)
    BY <1>1, <1>2, <2>1
  <2>3. /\ SubSeq(s, z + 1, y) \in Seq(EscapedLetters)
        /\ Len(SubSeq(s, z + 1, y)) = y - z
        /\ \A i \in 1 .. y - z : SubSeq(s, z + 1, y)[i] = s[z + i]
    BY <2>2, CutMeans
  <2>4. \A i \in 1 .. y : z + i = i
    BY <2>1
  <2> QED BY <2>2, <2>3, <2>4
<1>4. q \in Seq(EscapedLetters) /\ Len(q) = l - (y + 1) /\ \A i \in 1 .. l - (y + 1) : q[i] = s[(y + 1) + i]
  <2>1. PICK v \in 0 .. Len(s) : v = y + 1
    BY <1>1, <1>2
  <2>2. Len(s) \in v .. Len(s)
    BY <1>1, <2>1
  <2>3. /\ SubSeq(s, v + 1, Len(s)) \in Seq(EscapedLetters)
        /\ Len(SubSeq(s, v + 1, Len(s))) = Len(s) - v
        /\ \A i \in 1 .. Len(s) - v : SubSeq(s, v + 1, Len(s))[i] = s[v + i]
    BY <2>2, CutMeans
  <2>4. q = SubSeq(s, v + 1, Len(s))
    BY <2>1 DEF Drop
  <2> QED BY <1>1, <2>1, <2>3, <2>4
<1> HIDE DEF p, q
<1> DEFINE f == p \o q
<1>5. /\ f \in Seq(EscapedLetters) /\ Len(f) = y + (l - (y + 1))
      /\ \A i \in 1 .. y + (l - (y + 1)) : f[i] = IF i <= y THEN p[i] ELSE q[i - y]
  <2>1. /\ f \in Seq(EscapedLetters) /\ Len(f) = Len(p) + Len(q)
        /\ \A i \in 1 .. Len(p) + Len(q) : f[i] = IF i <= Len(p) THEN p[i] ELSE q[i - Len(p)]
    BY <1>3, <1>4, ConcatProperties
  <2> QED BY <1>3, <1>4, <2>1
<1>6. TakenOut(s, y) = f
  BY DEF TakenOut, p, q, f
<1> HIDE DEF f
<1>7. y + (l - (y + 1)) = l - 1
  BY <1>2, <1>1
<1>8. ASSUME NEW x \in 1 .. y PROVE f[x] = s[x]
  <2>1. x \in 1 .. y + (l - (y + 1)) /\ x <= y
    BY <1>1, <1>2
  <2> QED BY <1>3, <1>5, <2>1
<1>9. ASSUME NEW x \in y + 1 .. l - 1 PROVE f[x] = s[x + 1]
  <2>1. x \in 1 .. y + (l - (y + 1)) /\ ~(x <= y) /\ x - y \in 1 .. l - (y + 1)
        /\ (y + 1) + (x - y) = x + 1
    BY <1>1, <1>2
  <2>2. f[x] = q[x - y]
    BY <1>5, <2>1
  <2> QED BY <1>4, <2>1, <2>2
<1> QED BY <1>1, <1>5, <1>6, <1>7, <1>8, <1>9

(* Where the characters of the text are then.                              *)
PutAt(t, a, g) == [x \in 1 .. Len(t) + 1 |-> IF x <= g THEN a[x] ELSE a[x] + 1]
TakenAt(t, a, g) == [x \in 1 .. Len(t) + 1 |-> IF x <= g THEN a[x] ELSE a[x] - 1]

(* Characters keep their order.                                            *)
LEMMA InOrder ==
  ASSUME NEW t \in Seq(Alphabet), NEW a, NEW s, Spread(t, a, s)
  PROVE  /\ Len(t) \in Nat /\ Len(s) \in Nat
         /\ \A x \in 1 .. Len(t) + 1 : a[x] \in Nat /\ 1 <= a[x] /\ a[x] <= Len(s) + 1
         /\ \A x, z \in 1 .. Len(t) + 1 : x < z => a[x] < a[z]
<1>1. Len(t) \in Nat /\ Len(s) \in Nat
  BY LenProperties DEF Spread
<1>2. /\ \A x \in 1 .. Len(t) + 1 : a[x] \in Nat
      /\ a[1] = 1 /\ a[Len(t) + 1] = Len(s) + 1
      /\ \A x, z \in 1 .. Len(t) + 1 : x < z => a[x] < a[z]
  BY DEF Spread
<1>3. ASSUME NEW x \in 1 .. Len(t) + 1 PROVE 1 <= a[x] /\ a[x] <= Len(s) + 1
  <2>1. 1 \in 1 .. Len(t) + 1 /\ Len(t) + 1 \in 1 .. Len(t) + 1
    BY <1>1
  <2>2. x = 1 \/ 1 < x
    BY <1>1
  <2>3. x = Len(t) + 1 \/ x < Len(t) + 1
    BY <1>1
  <2>4. a[1] <= a[x]
    BY <1>2, <2>1, <2>2
  <2>5. a[x] <= a[Len(t) + 1]
    BY <1>2, <2>1, <2>3
  <2> QED BY <1>2, <2>4, <2>5
<1> QED BY <1>1, <1>2, <1>3

(* A backslash more, or one less, behind one character.                    *)
LEMMA BackslashPut ==
  ASSUME NEW t \in Seq(Alphabet), NEW a, NEW s, Spread(t, a, s), NEW g \in 1 .. Len(t)
  PROVE  Spread(t, PutAt(t, a, g), PutIn(s, a[g]))
<1>1. PICK m \in Nat : m = Len(t)
  BY InOrder
<1>2. PICK l \in Nat : l = Len(s)
  BY InOrder
<1>3. /\ \A x \in 1 .. m + 1 : a[x] \in Nat /\ 1 <= a[x] /\ a[x] <= l + 1
      /\ \A x, z \in 1 .. m + 1 : x < z => a[x] < a[z]
      /\ a[1] = 1 /\ a[m + 1] = l + 1
      /\ \A x \in 1 .. m : s[a[x]] = t[x]
      /\ \A x \in 1 .. m : \A v \in a[x] + 1 .. a[x + 1] - 1 : s[v] = Backslash
      /\ s \in Seq(EscapedLetters)
  BY <1>1, <1>2, InOrder DEF Spread
<1>4. g \in 1 .. m /\ g \in 1 .. m + 1 /\ 1 \in 1 .. m + 1 /\ m + 1 \in 1 .. m + 1
      /\ 1 <= g /\ ~(m + 1 <= g)
  BY <1>1
<1>5. PICK y \in 1 .. l : y = a[g]
  <2>1. a[g] < a[m + 1]
    BY <1>3, <1>4
  <2> QED BY <1>2, <1>3, <1>4, <2>1
<1> DEFINE u == PutIn(s, y)
           b == PutAt(t, a, g)
<1>6. /\ u \in Seq(EscapedLetters) /\ Len(u) = l + 1
      /\ \A x \in 1 .. y : u[x] = s[x]
      /\ u[y + 1] = Backslash
      /\ \A x \in y + 2 .. l + 1 : u[x] = s[x - 1]
  BY <1>2, <1>3, <1>5, PutInMeans
<1>7. \A x \in 1 .. m + 1 : b[x] = IF x <= g THEN a[x] ELSE a[x] + 1
  BY <1>1 DEF PutAt
<1>8. b \in [1 .. m + 1 -> Nat]
  BY <1>1, <1>3 DEF PutAt
<1> HIDE DEF u, b
<1>9. ASSUME NEW x \in 1 .. m + 1
      PROVE  \/ x <= g /\ b[x] = a[x] /\ a[x] <= y
             \/ x > g /\ b[x] = a[x] + 1 /\ a[x] > y
  <2>1. x < g \/ x = g \/ g < x
    BY <1>4
  <2>2. x < g => a[x] < y
    BY <1>3, <1>4, <1>5
  <2>3. g < x => y < a[x]
    BY <1>3, <1>4, <1>5
  <2>4. a[x] \in Nat
    BY <1>3
  <2> QED BY <1>4, <1>5, <1>7, <2>1, <2>2, <2>3, <2>4
<1>10. b[1] = 1 /\ b[m + 1] = Len(u) + 1
  <2>1. b[1] = 1
    BY <1>3, <1>4, <1>7
  <2>2. b[m + 1] = (l + 1) + 1
    BY <1>3, <1>4, <1>7
  <2> QED BY <1>6, <2>1, <2>2
<1>11. ASSUME NEW x \in 1 .. m + 1, NEW z \in 1 .. m + 1, x < z PROVE b[x] < b[z]
  <2>1. a[x] < a[z] /\ a[x] \in Nat /\ a[z] \in Nat
    BY <1>3, <1>11
  <2>2. PICK p, q \in Nat : p = a[x] /\ q = a[z]
    BY <2>1
  <2>3. p < q
    BY <2>1, <2>2
  <2>4. b[x] = p \/ (b[x] = p + 1 /\ x > g)
    BY <1>9, <2>2
  <2>5. x > g => z > g
    BY <1>4, <1>11
  <2>6. (z <= g /\ b[z] = q) \/ (z > g /\ b[z] = q + 1)
    BY <1>9, <2>2
  <2>7. ~(z <= g /\ z > g)
    BY <1>4
  <2> QED BY <2>3, <2>4, <2>5, <2>6, <2>7
<1>12. ASSUME NEW x \in 1 .. m PROVE u[b[x]] = t[x]
  <2>1. x \in 1 .. m + 1 /\ x < m + 1
    BY <1>1
  <2>2. PICK p \in Nat : p = a[x] /\ 1 <= p /\ p <= l
    <3>1. a[x] < a[m + 1] /\ a[x] \in Nat /\ 1 <= a[x]
      BY <1>3, <1>4, <2>1
    <3> QED BY <1>3, <3>1
  <2>3. s[p] = t[x]
    BY <1>3, <2>2
  <2>4. CASE b[x] = p /\ p <= y
    <3>1. p \in 1 .. y
      BY <1>5, <2>2, <2>4
    <3> QED BY <1>6, <2>3, <2>4, <3>1
  <2>5. CASE b[x] = p + 1 /\ p > y
    <3>1. p + 1 \in y + 2 .. l + 1 /\ (p + 1) - 1 = p
      BY SMTT(30), <1>5, <2>2, <2>5
    <3>2. u[p + 1] = s[p]
      BY <1>6, <3>1
    <3> QED BY <2>3, <2>5, <3>2
  <2> QED BY <1>9, <2>1, <2>2, <2>4, <2>5
<1>13. ASSUME NEW x \in 1 .. m, NEW v \in b[x] + 1 .. b[x + 1] - 1 PROVE u[v] = Backslash
  <2>1. x \in 1 .. m + 1 /\ x + 1 \in 1 .. m + 1
    BY <1>1
  <2>2. PICK p, q \in Nat : p = a[x] /\ q = a[x + 1] /\ 1 <= p /\ q <= l + 1
    BY <1>3, <2>1
  <2>3. \A z \in p + 1 .. q - 1 : s[z] = Backslash
    BY <1>3, <2>2
  <2>4. CASE x < g
    <3>1. x <= g /\ x + 1 <= g
      BY <1>4, <2>4
    <3>2. b[x] = p /\ b[x + 1] = q /\ q <= y
      <4>1. b[x] = p
        BY <1>7, <2>1, <2>2, <3>1
      <4>2. b[x + 1] = q
        BY <1>7, <2>1, <2>2, <3>1
      <4>3. ~(x + 1 > g)
        BY <1>4, <3>1
      <4>4. a[x + 1] <= y
        BY <1>9, <2>1, <4>3
      <4> QED BY <2>2, <4>1, <4>2, <4>4
    <3>3. v \in p + 1 .. q - 1
      BY <3>2
    <3>4. v \in 1 .. y
      BY SMTT(30), <1>5, <2>2, <3>2, <3>3
    <3> QED BY <1>6, <2>3, <3>3, <3>4
  <2>5. CASE x = g
    <3>1. b[x] = p /\ p = y
      BY <1>4, <1>5, <1>7, <2>1, <2>2, <2>5
    <3>2. ~(x + 1 <= g)
      BY <1>4, <2>5
    <3>3. b[x + 1] = q + 1
      BY <1>7, <2>1, <2>2, <3>2
    <3>4. v \in y + 1 .. q
      BY <2>2, <3>1, <3>3
    <3>5. CASE v = y + 1
      BY <1>6, <3>5
    <3>6. CASE v # y + 1
      <4>1. v \in Int /\ y + 2 <= v /\ v <= q
        BY <1>5, <2>2, <3>4, <3>6
      <4>2. v \in y + 2 .. l + 1
        BY <1>5, <2>2, <4>1
      <4>3. v - 1 \in p + 1 .. q - 1
        BY <2>2, <3>1, <4>1
      <4> QED BY <1>6, <2>3, <4>2, <4>3
    <3> QED BY <3>5, <3>6
  <2>6. CASE x > g
    <3>1. ~(x <= g) /\ ~(x + 1 <= g)
      BY <1>4, <2>6
    <3>2. b[x] = p + 1 /\ p > y
      BY <1>9, <2>1, <2>2, <3>1
    <3>3. b[x + 1] = q + 1
      BY <1>7, <2>1, <2>2, <3>1
    <3>4. v \in (p + 1) + 1 .. (q + 1) - 1
      BY <3>2, <3>3
    <3>5. v \in Int /\ p + 2 <= v /\ v <= q
      BY <2>2, <3>4
    <3>6. v \in y + 2 .. l + 1
      BY SMTT(30), <1>5, <2>2, <3>2, <3>5
    <3>7. v - 1 \in p + 1 .. q - 1
      BY SMTT(30), <2>2, <3>5
    <3> QED BY <1>6, <2>3, <3>6, <3>7
  <2> QED BY <1>4, <2>4, <2>5, <2>6
<1>14. Spread(t, b, u)
  BY <1>1, <1>6, <1>8, <1>10, <1>11, <1>12, <1>13 DEF Spread
<1> QED BY <1>5, <1>14 DEF u, b

LEMMA BackslashTaken ==
  ASSUME NEW t \in Seq(Alphabet), NEW a, NEW s, Spread(t, a, s), NEW g \in 1 .. Len(t),
         GapCounts(t, a)[g] >= 1
  PROVE  Spread(t, TakenAt(t, a, g), TakenOut(s, a[g]))
<1>1. PICK m \in Nat : m = Len(t)
  BY InOrder
<1>2. PICK l \in Nat : l = Len(s)
  BY InOrder
<1>3. /\ \A x \in 1 .. m + 1 : a[x] \in Nat /\ 1 <= a[x] /\ a[x] <= l + 1
      /\ \A x, z \in 1 .. m + 1 : x < z => a[x] < a[z]
      /\ a[1] = 1 /\ a[m + 1] = l + 1
      /\ \A x \in 1 .. m : s[a[x]] = t[x]
      /\ \A x \in 1 .. m : \A v \in a[x] + 1 .. a[x + 1] - 1 : s[v] = Backslash
      /\ s \in Seq(EscapedLetters)
  BY <1>1, <1>2, InOrder DEF Spread
<1>4. g \in 1 .. m /\ g \in 1 .. m + 1 /\ 1 \in 1 .. m + 1 /\ m + 1 \in 1 .. m + 1
      /\ 1 <= g /\ ~(m + 1 <= g) /\ g + 1 \in 1 .. m + 1
  BY <1>1
<1>15. PICK w \in Nat : w = a[g + 1] /\ w <= l + 1 /\ w >= a[g] + 2
  <2>1. PICK c \in Nat : c = GapCounts(t, a)[g] /\ c >= 1
    BY CountMeans
  <2>2. a[g + 1] = a[g] + c + 1 /\ a[g] \in Nat
    BY <2>1, CountMeans
  <2>3. a[g + 1] >= a[g] + 2
    BY <2>1, <2>2
  <2> QED BY <1>3, <1>4, <2>3
<1>5. PICK y \in 1 .. l - 1 : y = a[g]
  BY <1>2, <1>3, <1>4, <1>15
<1>16. w >= y + 2
  BY <1>15, <1>5
<1> DEFINE u == TakenOut(s, y)
           b == TakenAt(t, a, g)
<1>6. /\ u \in Seq(EscapedLetters) /\ Len(u) = l - 1
      /\ \A x \in 1 .. y : u[x] = s[x]
      /\ \A x \in y + 1 .. l - 1 : u[x] = s[x + 1]
  BY <1>2, <1>3, <1>5, TakenOutMeans
<1>7. \A x \in 1 .. m + 1 : b[x] = IF x <= g THEN a[x] ELSE a[x] - 1
  BY <1>1 DEF TakenAt
<1>8. b \in [1 .. m + 1 -> Nat]
  <2>1. \A x \in 1 .. m + 1 : a[x] \in Nat /\ a[x] - 1 \in Nat
    BY <1>3
  <2> QED BY <1>1, <2>1 DEF TakenAt
<1> HIDE DEF u, b
<1>9. ASSUME NEW x \in 1 .. m + 1
      PROVE  \/ x <= g /\ b[x] = a[x] /\ a[x] <= y
             \/ x > g /\ b[x] = a[x] - 1 /\ a[x] >= y + 2
  <2>1. x < g \/ x = g \/ g < x
    BY <1>4
  <2>2. x < g => a[x] < y
    BY <1>3, <1>4, <1>5
  <2>3. g < x => g + 1 = x \/ g + 1 < x
    BY <1>4
  <2>4. a[x] \in Nat
    BY <1>3
  <2>5. g < x => y + 2 <= a[x]
    <3>1. g + 1 < x => w < a[x]
      BY <1>3, <1>4, <1>15
    <3> QED BY SMTT(30), <1>5, <1>15, <1>16, <2>3, <2>4, <3>1
  <2> QED BY <1>4, <1>5, <1>7, <2>1, <2>2, <2>4, <2>5
<1>10. b[1] = 1 /\ b[m + 1] = Len(u) + 1
  <2>1. b[1] = 1
    BY <1>3, <1>4, <1>7
  <2>2. b[m + 1] = (l + 1) - 1
    BY <1>3, <1>4, <1>7
  <2> QED BY <1>6, <2>1, <2>2
<1>11. ASSUME NEW x \in 1 .. m + 1, NEW z \in 1 .. m + 1, x < z PROVE b[x] < b[z]
  <2>1. a[x] < a[z] /\ a[x] \in Nat /\ a[z] \in Nat
    BY <1>3, <1>11
  <2>2. PICK p, q \in Nat : p = a[x] /\ q = a[z]
    BY <2>1
  <2>3. p < q
    BY <2>1, <2>2
  <2>4. (x <= g /\ b[x] = p /\ p <= y) \/ (b[x] = p - 1 /\ x > g)
    BY <1>9, <2>2
  <2>5. x > g => z > g
    BY <1>4, <1>11
  <2>6. (z <= g /\ b[z] = q) \/ (z > g /\ b[z] = q - 1 /\ q >= y + 2)
    BY <1>9, <2>2
  <2>7. ~(z <= g /\ z > g)
    BY <1>4
  <2> QED BY <1>5, <2>3, <2>4, <2>5, <2>6, <2>7
<1>12. ASSUME NEW x \in 1 .. m PROVE u[b[x]] = t[x]
  <2>1. x \in 1 .. m + 1 /\ x < m + 1
    BY <1>1
  <2>2. PICK p \in Nat : p = a[x] /\ 1 <= p /\ p <= l
    <3>1. a[x] < a[m + 1] /\ a[x] \in Nat /\ 1 <= a[x]
      BY <1>3, <1>4, <2>1
    <3> QED BY <1>3, <3>1
  <2>3. s[p] = t[x]
    BY <1>3, <2>2
  <2>4. CASE b[x] = p /\ p <= y
    <3>1. p \in 1 .. y
      BY <1>5, <2>2, <2>4
    <3> QED BY <1>6, <2>3, <2>4, <3>1
  <2>5. CASE b[x] = p - 1 /\ p >= y + 2
    <3>1. p - 1 \in y + 1 .. l - 1 /\ (p - 1) + 1 = p
      BY SMTT(30), <1>5, <2>2, <2>5
    <3>2. u[p - 1] = s[p]
      BY <1>6, <3>1
    <3> QED BY <2>3, <2>5, <3>2
  <2> QED BY <1>9, <2>1, <2>2, <2>4, <2>5
<1>13. ASSUME NEW x \in 1 .. m, NEW v \in b[x] + 1 .. b[x + 1] - 1 PROVE u[v] = Backslash
  <2>1. x \in 1 .. m + 1 /\ x + 1 \in 1 .. m + 1
    BY <1>1
  <2>2. PICK p, q \in Nat : p = a[x] /\ q = a[x + 1] /\ 1 <= p /\ q <= l + 1
    BY <1>3, <2>1
  <2>3. \A z \in p + 1 .. q - 1 : s[z] = Backslash
    BY <1>3, <2>2
  <2>4. CASE x < g
    <3>1. x <= g /\ x + 1 <= g
      BY <1>4, <2>4
    <3>2. b[x] = p /\ b[x + 1] = q /\ q <= y
      <4>1. b[x] = p
        BY <1>7, <2>1, <2>2, <3>1
      <4>2. b[x + 1] = q
        BY <1>7, <2>1, <2>2, <3>1
      <4>3. ~(x + 1 > g)
        BY <1>4, <3>1
      <4>4. a[x + 1] <= y
        BY <1>9, <2>1, <4>3
      <4> QED BY <2>2, <4>1, <4>2, <4>4
    <3>3. v \in p + 1 .. q - 1
      BY <3>2
    <3>4. v \in 1 .. y
      BY SMTT(30), <1>5, <2>2, <3>2, <3>3
    <3> QED BY <1>6, <2>3, <3>3, <3>4
  <2>5. CASE x = g
    <3>1. b[x] = p /\ p = y
      BY <1>4, <1>5, <1>7, <2>1, <2>2, <2>5
    <3>2. ~(x + 1 <= g)
      BY <1>4, <2>5
    <3>3. b[x + 1] = q - 1
      BY <1>7, <2>1, <2>2, <3>2
    <3>4. v \in y + 1 .. (q - 1) - 1
      BY <2>2, <3>1, <3>3
    <3>5. v \in Int /\ y + 1 <= v /\ v + 2 <= q
      BY <1>5, <2>2, <3>4
    <3>6. v \in y + 1 .. l - 1
      BY <1>5, <2>2, <3>5
    <3>7. v + 1 \in p + 1 .. q - 1
      BY <2>2, <3>1, <3>5
    <3> QED BY <1>6, <2>3, <3>6, <3>7
  <2>6. CASE x > g
    <3>1. ~(x <= g) /\ ~(x + 1 <= g)
      BY <1>4, <2>6
    <3>2. b[x] = p - 1 /\ p >= y + 2
      BY <1>9, <2>1, <2>2, <3>1
    <3>3. b[x + 1] = q - 1
      BY <1>7, <2>1, <2>2, <3>1
    <3>4. v \in (p - 1) + 1 .. (q - 1) - 1
      BY <3>2, <3>3
    <3>5. v \in Int /\ p <= v /\ v + 2 <= q
      BY SMTT(30), <2>2, <3>4
    <3>6. v \in y + 1 .. l - 1
      <4>1. y + 1 <= v
        BY SMTT(30), <1>5, <2>2, <3>2, <3>5
      <4>2. v <= l - 1
        BY <1>2, <2>2, <3>5
      <4> QED BY <1>5, <1>2, <3>5, <4>1, <4>2
    <3>7. v + 1 \in p + 1 .. q - 1
      BY SMTT(30), <2>2, <3>5
    <3> QED BY <1>6, <2>3, <3>6, <3>7
  <2> QED BY <1>4, <2>4, <2>5, <2>6
<1>14. Spread(t, b, u)
  BY <1>1, <1>6, <1>8, <1>10, <1>11, <1>12, <1>13 DEF Spread
<1> QED BY <1>5, <1>14 DEF u, b

(* GapCounts after the search took the places M: one more, or one less.       *)
Raised(t, a, b, M) ==
  \A x \in 1 .. Len(t) : GapCounts(t, b)[x] = GapCounts(t, a)[x] + (IF x \in M THEN 1 ELSE 0)

Lowered(t, a, b, M) ==
  \A x \in 1 .. Len(t) : GapCounts(t, b)[x] = GapCounts(t, a)[x] - (IF x \in M THEN 1 ELSE 0)

(* The search goes on at character c.                                      *)
Reached(t, a, f, c) ==
  /\ f \in Nat /\ c \in 1 .. Len(t) + 1
  /\ \A x \in 1 .. Len(t) + 1 : x < c <=> a[x] <= f

(* F are the characters of t where p is seen.                              *)
Shown(t, a, s, p, F) ==
  /\ F \subseteq 1 .. Len(t)
  /\ \A r \in Int : SeenAt(s, p, r) => \E g \in F : a[g] = r + 1
  /\ \A g \in F : SeenAt(s, p, a[g] - 1)

(* What the search took up to character c.                                 *)
TakenUpTo(F, n, M, c) ==
  /\ M \subseteq F
  /\ \A g, h \in M : g < h => g + n <= h
  /\ \A g \in M : g + n <= c
  /\ \A g \in F : g < c => \E h \in M : h <= g /\ g < h + n

LEMMA CountsMove ==
  ASSUME NEW p \in Int, NEW q \in Int
  PROVE  /\ (q + 1) - p - 1 = q - p - 1 + 1
         /\ (q + 1) - (p + 1) - 1 = q - p - 1 + 0
         /\ q - p - 1 = q - p - 1 + 0
         /\ (q - 1) - p - 1 = q - p - 1 - 1
         /\ (q - 1) - (p - 1) - 1 = q - p - 1 - 0
         /\ q - p - 1 = q - p - 1 - 0
OBVIOUS

(* So they do when one more is taken.                                      *)
LEMMA CountsPut ==
  ASSUME NEW t \in Seq(Alphabet), NEW a, NEW s, Spread(t, a, s), NEW g \in 1 .. Len(t)
  PROVE  Raised(t, a, PutAt(t, a, g), {g})
<1> DEFINE b == PutAt(t, a, g)
<1>1. PICK m \in Nat : m = Len(t)
  BY InOrder
<1> SUFFICES ASSUME NEW x \in 1 .. m
             PROVE  GapCounts(t, b)[x] = GapCounts(t, a)[x] + (IF x \in {g} THEN 1 ELSE 0)
  BY <1>1 DEF Raised
<1>2. x \in 1 .. m + 1 /\ x + 1 \in 1 .. m + 1 /\ g \in 1 .. m
  BY <1>1
<1>3. PICK p, q \in Nat : p = a[x] /\ q = a[x + 1]
  BY <1>1, <1>2, InOrder
<1>9. p \in Int /\ q \in Int
  BY <1>3
<1>4. GapCounts(t, b)[x] = b[x + 1] - b[x] - 1 /\ GapCounts(t, a)[x] = q - p - 1
  BY <1>1, <1>3 DEF GapCounts
<1>5. /\ b[x] = IF x <= g THEN p ELSE p + 1
      /\ b[x + 1] = IF x + 1 <= g THEN q ELSE q + 1
  BY <1>1, <1>2, <1>3 DEF PutAt
<1> HIDE DEF b
<1>6. CASE x < g
  <2>1. x <= g /\ x + 1 <= g /\ x # g
    BY <1>2, <1>6
  <2>2. GapCounts(t, b)[x] = q - p - 1
    BY <1>4, <1>5, <2>1
  <2>3. q - p - 1 = q - p - 1 + 0
    BY <1>9, CountsMove
  <2> QED BY <1>4, <2>1, <2>2, <2>3
<1>7. CASE x = g
  <2>1. x <= g /\ ~(x + 1 <= g)
    BY <1>2, <1>7
  <2>2. GapCounts(t, b)[x] = (q + 1) - p - 1
    BY <1>4, <1>5, <2>1
  <2>3. (q + 1) - p - 1 = q - p - 1 + 1
    BY <1>9, CountsMove
  <2> QED BY <1>4, <1>7, <2>2, <2>3
<1>8. CASE x > g
  <2>1. ~(x <= g) /\ ~(x + 1 <= g) /\ x # g
    BY <1>2, <1>8
  <2>2. GapCounts(t, b)[x] = (q + 1) - (p + 1) - 1
    BY <1>4, <1>5, <2>1
  <2>3. (q + 1) - (p + 1) - 1 = q - p - 1 + 0
    BY <1>9, CountsMove
  <2> QED BY <1>4, <2>1, <2>2, <2>3
<1> QED BY <1>2, <1>6, <1>7, <1>8

LEMMA CountsTaken ==
  ASSUME NEW t \in Seq(Alphabet), NEW a, NEW s, Spread(t, a, s), NEW g \in 1 .. Len(t)
  PROVE  Lowered(t, a, TakenAt(t, a, g), {g})
<1> DEFINE b == TakenAt(t, a, g)
<1>1. PICK m \in Nat : m = Len(t)
  BY InOrder
<1> SUFFICES ASSUME NEW x \in 1 .. m
             PROVE  GapCounts(t, b)[x] = GapCounts(t, a)[x] - (IF x \in {g} THEN 1 ELSE 0)
  BY <1>1 DEF Lowered
<1>2. x \in 1 .. m + 1 /\ x + 1 \in 1 .. m + 1 /\ g \in 1 .. m
  BY <1>1
<1>3. PICK p, q \in Nat : p = a[x] /\ q = a[x + 1]
  BY <1>1, <1>2, InOrder
<1>9. p \in Int /\ q \in Int
  BY <1>3
<1>4. GapCounts(t, b)[x] = b[x + 1] - b[x] - 1 /\ GapCounts(t, a)[x] = q - p - 1
  BY <1>1, <1>3 DEF GapCounts
<1>5. /\ b[x] = IF x <= g THEN p ELSE p - 1
      /\ b[x + 1] = IF x + 1 <= g THEN q ELSE q - 1
  BY <1>1, <1>2, <1>3 DEF TakenAt
<1> HIDE DEF b
<1>6. CASE x < g
  <2>1. x <= g /\ x + 1 <= g /\ x # g
    BY <1>2, <1>6
  <2>2. GapCounts(t, b)[x] = q - p - 1
    BY <1>4, <1>5, <2>1
  <2>3. q - p - 1 = q - p - 1 - 0
    BY <1>9, CountsMove
  <2> QED BY <1>4, <2>1, <2>2, <2>3
<1>7. CASE x = g
  <2>1. x <= g /\ ~(x + 1 <= g)
    BY <1>2, <1>7
  <2>2. GapCounts(t, b)[x] = (q - 1) - p - 1
    BY <1>4, <1>5, <2>1
  <2>3. (q - 1) - p - 1 = q - p - 1 - 1
    BY <1>9, CountsMove
  <2> QED BY <1>4, <1>7, <2>2, <2>3
<1>8. CASE x > g
  <2>1. ~(x <= g) /\ ~(x + 1 <= g) /\ x # g
    BY <1>2, <1>8
  <2>2. GapCounts(t, b)[x] = (q - 1) - (p - 1) - 1
    BY <1>4, <1>5, <2>1
  <2>3. (q - 1) - (p - 1) - 1 = q - p - 1 - 0
    BY <1>9, CountsMove
  <2> QED BY <1>4, <2>1, <2>2, <2>3
<1> QED BY <1>2, <1>6, <1>7, <1>8

(* Where the characters are in s is the only way to read it.               *)
LEMMA OnlyOneSpread ==
  ASSUME WordsAssumption, NEW t \in Seq(Alphabet), NEW a, NEW b, NEW s,
         Spread(t, a, s), Spread(t, b, s)
  PROVE  a = b
<1>1. PICK m \in Nat : m = Len(t)
  BY InOrder
<1> DEFINE T == {g \in 0 .. m : a[g + 1] = b[g + 1]}
<1>2. 0 \in T
  BY <1>1 DEF Spread
<1>3. \A g \in 1 .. m : t[g] # Backslash
  BY <1>1, ElementOfSeq DEF WordsAssumption
<1>4. ASSUME NEW c, NEW d, Spread(t, c, s), Spread(t, d, s),
             NEW g \in 1 .. m, c[g] = d[g], c[g + 1] < d[g + 1]
      PROVE  FALSE
  <2>1. g \in 1 .. m + 1 /\ g + 1 \in 1 .. m + 1
    OBVIOUS
  <2>2. PICK x, y, z \in Nat : x = c[g] /\ y = c[g + 1] /\ z = d[g + 1]
    BY <1>1, <1>4, <2>1, InOrder
  <2>3. x < y /\ y < z
    <3>1. g < g + 1
      OBVIOUS
    <3>2. c[g] < c[g + 1]
      BY <1>1, <1>4, <2>1, <3>1, InOrder
    <3> QED BY <1>4, <2>2, <3>2
  <2>4. y \in x + 1 .. z - 1
    BY <2>2, <2>3
  <2>5. s[y] = Backslash
    BY <1>1, <1>4, <2>2, <2>4 DEF Spread
  <2>6. g = m => y = z
    BY <1>1, <1>4, <2>2 DEF Spread
  <2>7. g # m => g + 1 \in 1 .. m
    OBVIOUS
  <2>8. g # m => s[y] = t[g + 1]
    BY <1>1, <1>4, <2>2, <2>7 DEF Spread
  <2> QED BY <1>3, <2>2, <2>3, <2>5, <2>6, <2>7, <2>8
<1>5. ASSUME NEW g \in 1 .. m, g - 1 \in T PROVE g \in T
  <2>1. (g - 1) + 1 = g
    OBVIOUS
  <2>2. a[g] = b[g]
    BY <1>5, <2>1
  <2>3. g + 1 \in 1 .. m + 1
    OBVIOUS
  <2>4. a[g + 1] \in Nat /\ b[g + 1] \in Nat
    BY <1>1, <2>3, InOrder
  <2>5. ~(a[g + 1] < b[g + 1]) /\ ~(b[g + 1] < a[g + 1])
    BY <1>4, <2>2
  <2> QED BY <2>4, <2>5
<1>6. 0 .. m \subseteq T
  <2> HIDE DEF T
  <2> QED BY <1>2, <1>5, UpTo
<1>7. \A x \in 1 .. m + 1 : a[x] = b[x]
  <2> TAKE x \in 1 .. m + 1
  <2>1. PICK g \in 0 .. m : x = g + 1
    <3>1. x - 1 \in 0 .. m /\ x = (x - 1) + 1
      OBVIOUS
    <3> QED BY <3>1
  <2> QED BY <1>6, <2>1
<1>8. a \in [1 .. m + 1 -> Nat] /\ b \in [1 .. m + 1 -> Nat]
  BY <1>1 DEF Spread
<1> QED BY <1>7, <1>8

(* Words are seen where they are findable, or erasable.                    *)
LEMMA WordsShown ==
  ASSUME WordsAssumption, NEW t \in Seq(Alphabet), NEW a, NEW s, Spread(t, a, s),
         NEW w \in Seq(Alphabet), Len(w) > 0
  PROVE  Shown(t, a, s, w, Findable(t, w, GapCounts(t, a)))
<1>1. Findable(t, w, GapCounts(t, a)) \subseteq 1 .. Len(t)
  BY DEF Findable
<1>2. \A r \in Int : SeenAt(s, w, r) => \E g \in Findable(t, w, GapCounts(t, a)) : a[g] = r + 1
  BY SeenIsFindable
<1>3. \A g \in Findable(t, w, GapCounts(t, a)) : SeenAt(s, w, a[g] - 1)
  BY FindableIsSeen
<1> QED BY <1>1, <1>2, <1>3 DEF Shown

LEMMA EscapedShown ==
  ASSUME WordsAssumption, NEW t \in Seq(Alphabet), NEW a, NEW s, Spread(t, a, s),
         NEW w \in Seq(Alphabet), Len(w) > 0
  PROVE  Shown(t, a, s, EscapedPat(w), Erasable(t, w, GapCounts(t, a)))
<1>1. Erasable(t, w, GapCounts(t, a)) \subseteq 1 .. Len(t)
  BY DEF Erasable
<1>2. \A r \in Int : SeenAt(s, EscapedPat(w), r)
                       => \E g \in Erasable(t, w, GapCounts(t, a)) : a[g] = r + 1
  BY SeenIsErasable
<1>3. \A g \in Erasable(t, w, GapCounts(t, a)) : SeenAt(s, EscapedPat(w), a[g] - 1)
  BY ErasableIsSeen
<1> QED BY <1>1, <1>2, <1>3 DEF Shown

(* A search finds the first of them from character c on, if any is left.   *)
LEMMA SearchMeans ==
  ASSUME NEW t \in Seq(Alphabet), NEW a, NEW s, Spread(t, a, s),
         NEW p \in Seq(EscapedLetters), Len(p) > 0, NEW F, Shown(t, a, s, p, F),
         NEW f, NEW c, Reached(t, a, f, c)
  PROVE  \/ Find(s, p, f) = -1 /\ \A g \in F : ~(c <= g)
         \/ /\ Find(s, p, f) # -1
            /\ \E g \in F : /\ c <= g /\ a[g] = Find(s, p, f) + 1
                            /\ \A h \in F : c <= h => g <= h
<1> DEFINE S == Places(s, p, f)
           x == Find(s, p, f)
<1>1. PICK m \in Nat : m = Len(t)
  BY InOrder
<1>2. /\ \A y \in 1 .. m + 1 : a[y] \in Nat /\ 1 <= a[y]
      /\ \A y, z \in 1 .. m + 1 : y < z => a[y] < a[z]
  BY <1>1, InOrder
<1>3. f \in Nat /\ c \in 1 .. m + 1 /\ \A y \in 1 .. m + 1 : y < c <=> a[y] <= f
  BY <1>1 DEF Reached
<1>4. s \in Seq(EscapedLetters) /\ Len(s) \in Nat /\ Len(p) \in Nat
  BY LenProperties DEF Spread
<1>5. \A r \in Int : r \in S <=> (r >= f /\ SeenAt(s, p, r))
  <2> TAKE r \in Int
  <2>1. r \in f .. Len(s) - Len(p) <=> (r >= f /\ r \in 0 .. Len(s) - Len(p))
    BY <1>3, <1>4
  <2> QED BY <2>1 DEF Places, SeenAt
<1>6. \/ x = -1 /\ S = {}
      \/ x \in S /\ (\A q \in S : x <= q) /\ x # -1 /\ x \in f .. Len(s) - Len(p)
  BY <1>3, <1>4, FindMeans
<1> HIDE DEF S, x
<1>7. /\ F \subseteq 1 .. m
      /\ \A r \in Int : SeenAt(s, p, r) => \E g \in F : a[g] = r + 1
      /\ \A g \in F : SeenAt(s, p, a[g] - 1)
  BY <1>1 DEF Shown
<1>8. ASSUME NEW h \in F, c <= h PROVE a[h] - 1 \in S
  <2>1. h \in 1 .. m + 1 /\ ~(h < c)
    BY <1>1, <1>3, <1>7, <1>8
  <2>2. PICK y \in Nat : y = a[h]
    BY <1>2, <2>1
  <2>3. y - 1 \in Int /\ y - 1 >= f
    BY <1>3, <2>1, <2>2
  <2> QED BY <1>5, <1>7, <2>2, <2>3
<1>9. CASE x = -1 /\ S = {}
  BY <1>8, <1>9 DEF x
<1>10. CASE x \in S /\ (\A q \in S : x <= q) /\ x # -1 /\ x \in f .. Len(s) - Len(p)
  <2>1. x \in Int /\ x >= f
    BY <1>3, <1>4, <1>10
  <2>2. SeenAt(s, p, x)
    BY <1>5, <1>10, <2>1
  <2>3. PICK g \in F : a[g] = x + 1
    BY <1>7, <2>1, <2>2
  <2>4. g \in 1 .. m + 1
    BY <1>1, <1>7
  <2>5. ~(a[g] <= f)
    BY <1>3, <2>1, <2>3
  <2>6. c <= g
    BY <1>3, <2>4, <2>5
  <2>7. ASSUME NEW h \in F, c <= h PROVE g <= h
    <3>1. x <= a[h] - 1
      BY <1>8, <1>10, <2>7
    <3>2. h \in 1 .. m + 1
      BY <1>1, <1>7
    <3>3. PICK y \in Nat : y = a[h]
      BY <1>2, <3>2
    <3>4. ~(a[h] < a[g])
      BY <2>1, <2>3, <3>1, <3>3
    <3>5. ~(h < g)
      BY <1>2, <2>4, <3>2, <3>4
    <3> QED BY <2>4, <3>2, <3>5
  <2> QED BY <1>10, <2>3, <2>6, <2>7 DEF x
<1> QED BY <1>6, <1>9, <1>10

(* The first of F from c on.                                               *)
FirstFrom(F, c, g) == g \in F /\ c <= g /\ \A h \in F : c <= h => g <= h

(* What is taken when the search takes the next one.                       *)
LEMMA NextOneTaken ==
  ASSUME NEW m \in Nat, NEW F \in SUBSET (1 .. m), NEW n \in Nat, n > 0, NEW M,
         NEW c \in 1 .. m + 1, TakenUpTo(F, n, M, c), NEW g, FirstFrom(F, c, g)
  PROVE  g \notin M /\ TakenUpTo(F, n, M \cup {g}, g + n)
<1>1. /\ M \subseteq F
      /\ \A x, h \in M : x < h => x + n <= h
      /\ \A x \in M : x + n <= c
      /\ \A x \in F : x < c => \E h \in M : h <= x /\ x < h + n
  BY DEF TakenUpTo
<1>8. g \in F /\ c <= g /\ (\A h \in F : c <= h => g <= h) /\ F \subseteq 1 .. m
  BY DEF FirstFrom
<1>2. \A x \in M : x + n <= g /\ x \in 1 .. m
  BY <1>1, <1>8
<1>3. g \notin M
  BY <1>2
<1>4. M \cup {g} \subseteq F
  BY <1>1, <1>8
<1>5. ASSUME NEW x \in M \cup {g}, NEW h \in M \cup {g}, x < h PROVE x + n <= h
  <2>1. CASE x \in M /\ h \in M
    BY <1>1, <1>5, <2>1
  <2>2. CASE h = g
    BY <1>2, <1>5, <1>8, <2>2
  <2>3. CASE x = g /\ h \in M
    <3>1. h + n <= g /\ h \in 1 .. m
      BY <1>2, <2>3
    <3> QED BY <1>5, <1>8, <2>3, <3>1
  <2> QED BY <2>1, <2>2, <2>3
<1>6. \A x \in M \cup {g} : x + n <= g + n
  BY <1>2, <1>8
<1>7. ASSUME NEW x \in F, x < g + n PROVE \E h \in M \cup {g} : h <= x /\ x < h + n
  <2>1. CASE x < c
    BY <1>1, <2>1
  <2>2. CASE ~(x < c)
    <3>1. g <= x
      BY <1>8, <2>2
    <3> QED BY <1>7, <1>8, <3>1
  <2> QED BY <2>1, <2>2
<1> QED BY <1>3, <1>4, <1>5, <1>6, <1>7 DEF TakenUpTo

(* When none is ahead, all are taken.                                      *)
LEMMA AllTaken ==
  ASSUME NEW F, NEW n, NEW M, NEW c, TakenUpTo(F, n, M, c), \A g \in F : g < c
  PROVE  TakenPlaces(F, n, M)
BY DEF TakenUpTo, TakenPlaces

(* The search goes on behind what it took.                                 *)
LEMMA NextReached ==
  ASSUME NEW t \in Seq(Alphabet), NEW b, NEW s, Spread(t, b, s), NEW f \in Nat,
         NEW d \in 1 .. Len(t), b[d] <= f, f < b[d + 1]
  PROVE  Reached(t, b, f, d + 1)
<1>1. PICK m \in Nat : m = Len(t)
  BY InOrder
<1>2. d + 1 \in 1 .. m + 1 /\ d \in 1 .. m + 1
  BY <1>1
<1>3. ASSUME NEW x \in 1 .. m + 1 PROVE x < d + 1 <=> b[x] <= f
  <2>1. b[x] \in Nat /\ b[d] \in Nat /\ b[d + 1] \in Nat
    BY <1>1, <1>2, InOrder
  <2>2. x < d => b[x] < b[d]
    BY <1>1, <1>2, InOrder
  <2>3. d + 1 < x => b[d + 1] < b[x]
    BY <1>1, <1>2, InOrder
  <2>4. x < d \/ x = d \/ x = d + 1 \/ d + 1 < x
    BY <1>2
  <2>5. x < d \/ x = d => b[x] <= f
    BY <2>1, <2>2
  <2>6. x = d + 1 \/ d + 1 < x => ~(b[x] <= f)
    BY <2>1, <2>3
  <2>7. (x < d \/ x = d) <=> x < d + 1
    BY <1>2
  <2> QED BY <2>4, <2>5, <2>6, <2>7
<1> QED BY <1>1, <1>2, <1>3 DEF Reached

(* From the place the search has reached the same is ahead.                *)
LEMMA StillAhead ==
  ASSUME NEW t, Len(t) \in Nat, NEW w, Len(w) \in Nat, NEW e, NEW f, NEW c \in Nat,
         \A x \in 1 .. Len(t) : x >= c => e[x] = f[x], NEW g \in 1 .. Len(t), g >= c
  PROVE  /\ g \in Findable(t, w, e) <=> g \in Findable(t, w, f)
         /\ g \in Erasable(t, w, e) <=> g \in Erasable(t, w, f)
<1>1. Matching(t, w, g) => \A x \in g .. g + Len(w) - 2 : x \in 1 .. Len(t) /\ x >= c
  BY DEF Matching
<1>2. Matching(t, w, g) => \A x \in g .. g + Len(w) - 2 : e[x] = f[x]
  BY <1>1
<1>3. \A x \in g + 1 .. g + Len(w) - 2 : x \in g .. g + Len(w) - 2
  OBVIOUS
<1>4. e[g] = f[g]
  OBVIOUS
<1>5. g \in Findable(t, w, e) <=> g \in Findable(t, w, f)
  BY <1>2 DEF Findable
<1>6. g \in Erasable(t, w, e) <=> g \in Erasable(t, w, f)
  BY <1>2, <1>3, <1>4 DEF Erasable
<1> QED BY <1>5, <1>6

-----------------------------------------------------------------------------
(* During escape(): b are the places of the characters now, a when the     *)
(* word began, and M the words that were escaped, all before character c.  *)
EscapeState(t, a, w, r, b, M, c) ==
  /\ Spread(t, b, r.dest) /\ Reached(t, b, r.found, c)
  /\ TakenUpTo(Findable(t, w, GapCounts(t, a)), Len(w), M, c) /\ Raised(t, a, b, M)

UnescapeState(t, a, w, r, b, M, c) ==
  /\ Spread(t, b, r.dest) /\ Reached(t, b, r.found, c)
  /\ TakenUpTo(Erasable(t, w, GapCounts(t, a)), Len(w), M, c) /\ Lowered(t, a, b, M)

(* Escaped texts are no shorter, so there are rounds enough.               *)
LEMMA TextIsShorter ==
  ASSUME NEW t \in Seq(Alphabet), NEW a, NEW s, Spread(t, a, s)
  PROVE  Len(t) <= Len(s)
<1>1. PICK m \in Nat : m = Len(t)
  BY InOrder
<1> DEFINE T == {d \in 0 .. m : a[d + 1] >= d + 1}
<1>2. 0 \in T
  BY <1>1 DEF Spread
<1>3. ASSUME NEW d \in 1 .. m, d - 1 \in T PROVE d \in T
  <2>1. (d - 1) + 1 = d /\ d \in 1 .. m + 1 /\ d + 1 \in 1 .. m + 1 /\ d < d + 1
    OBVIOUS
  <2>2. a[d] >= d
    BY <1>3, <2>1
  <2>3. a[d] < a[d + 1] /\ a[d] \in Nat /\ a[d + 1] \in Nat
    BY <1>1, <2>1, InOrder
  <2>4. a[d + 1] >= d + 1
    BY <2>2, <2>3
  <2> QED BY <2>4
<1>4. 0 .. m \subseteq T
  <2> HIDE DEF T
  <2> QED BY <1>2, <1>3, UpTo
<1>5. a[m + 1] >= m + 1
  BY <1>4
<1>6. a[m + 1] = Len(s) + 1 /\ Len(s) \in Nat
  BY <1>1, InOrder DEF Spread
<1> QED BY <1>1, <1>5, <1>6

(* A round of escape() takes the next place, or leaves all as it is.       *)
LEMMA EscapeRoundMeans ==
  ASSUME WordsAssumption, NEW t \in Seq(Alphabet), NEW a, NEW s, Spread(t, a, s),
         NEW w \in Seq(Alphabet), Len(w) > 0, NEW r, NEW b, NEW M, NEW c,
         EscapeState(t, a, w, r, b, M, c)
  PROVE  \/ /\ EscapeRound(w, r) = r
            /\ \A g \in Findable(t, w, GapCounts(t, a)) : ~(c <= g)
         \/ \E g \in Findable(t, w, GapCounts(t, a)) :
              /\ c <= g /\ g + Len(w) \in 1 .. Len(t) + 1
              /\ EscapeState(t, a, w, EscapeRound(w, r), PutAt(t, b, g), M \cup {g}, g + Len(w))
<1> DEFINE F == Findable(t, w, GapCounts(t, a))
           G == Findable(t, w, GapCounts(t, b))
           pos == Find(r.dest, w, r.found)
<1>1. PICK m \in Nat : m = Len(t)
  BY InOrder
<1>2. PICK N \in Nat : N = Len(w) /\ N >= 1
  BY LenProperties
<1>3. /\ Spread(t, b, r.dest) /\ Reached(t, b, r.found, c)
      /\ TakenUpTo(F, N, M, c) /\ Raised(t, a, b, M)
  BY <1>2 DEF EscapeState
<1>4. F \subseteq 1 .. m /\ G \subseteq 1 .. m
  BY <1>1 DEF Findable
<1>5. c \in 1 .. m + 1
  BY <1>1, <1>3 DEF Reached
<1>6. \A x \in 1 .. m : x >= c => GapCounts(t, b)[x] = GapCounts(t, a)[x]
  <2> SUFFICES ASSUME NEW x \in 1 .. m, x >= c PROVE GapCounts(t, b)[x] = GapCounts(t, a)[x]
    OBVIOUS
  <2>1. x \notin M
    <3> SUFFICES ASSUME x \in M PROVE FALSE
      OBVIOUS
    <3>1. x + N <= c
      BY <1>3 DEF TakenUpTo
    <3> QED BY <1>2, <1>5, <3>1
  <2>2. GapCounts(t, b)[x] = GapCounts(t, a)[x] + 0
    BY <1>1, <1>3, <2>1 DEF Raised
  <2>3. GapCounts(t, a)[x] \in Nat
    BY <1>1, CountMeans
  <2> QED BY <2>2, <2>3
<1>7. \A g \in 1 .. m : g >= c => (g \in G <=> g \in F)
  <2> SUFFICES ASSUME NEW g \in 1 .. m, g >= c PROVE g \in G <=> g \in F
    OBVIOUS
  <2> DEFINE e == GapCounts(t, b)
             f == GapCounts(t, a)
  <2>1. \A x \in 1 .. Len(t) : x >= c => e[x] = f[x]
    BY <1>1, <1>6
  <2>2. c \in Nat /\ Len(t) \in Nat /\ Len(w) \in Nat /\ g \in 1 .. Len(t)
    BY <1>1, <1>2, <1>5
  <2> HIDE DEF e, f
  <2>3. g \in Findable(t, w, e) <=> g \in Findable(t, w, f)
    BY <2>1, <2>2, StillAhead
  <2> QED BY <2>3 DEF e, f
<1>8. w \in Seq(EscapedLetters)
  BY DEF EscapedLetters
<1>9. Shown(t, b, r.dest, w, G)
  BY <1>3, WordsShown
<1>10. \/ pos = -1 /\ \A g \in G : ~(c <= g)
       \/ pos # -1 /\ \E g \in G : /\ c <= g /\ b[g] = pos + 1
                                  /\ \A h \in G : c <= h => g <= h
  <2> HIDE DEF G
  <2> QED BY <1>3, <1>8, <1>9, SearchMeans
<1>11. CASE pos = -1 /\ \A g \in G : ~(c <= g)
  <2>1. EscapeRound(w, r) = r
    BY <1>11 DEF EscapeRound
  <2>2. \A g \in F : ~(c <= g)
    <3> HIDE DEF F, G
    <3> QED BY <1>4, <1>5, <1>7, <1>11
  <2> QED BY <2>1, <2>2
<1>12. CASE pos # -1 /\ \E g \in G : /\ c <= g /\ b[g] = pos + 1
                                     /\ \A h \in G : c <= h => g <= h
  <2>1. PICK g \in G : /\ c <= g /\ b[g] = pos + 1
                       /\ \A h \in G : c <= h => g <= h
    BY <1>12
  <2>2. g \in F /\ \A h \in F : c <= h => g <= h
    <3> HIDE DEF F, G
    <3> QED BY <1>4, <1>5, <1>7, <2>1
  <2>3. g \in 1 .. m /\ g \in 1 .. Len(t)
    BY <1>1, <1>4
  <2>4. PICK y \in Nat : y = b[g]
    BY <1>3, <2>3, CountMeans
  <2> DEFINE z == PutAt(t, b, g)
             q == EscapeRound(w, r)
  <2>5. pos \in Int
    <3>1. r.dest \in Seq(EscapedLetters) /\ r.found \in Nat
      BY <1>3 DEF Spread, Reached
    <3>2. pos \in r.found .. Len(r.dest) - Len(w) /\ Len(r.dest) \in Nat
      BY <1>8, <1>12, <3>1, FindMeans, LenProperties
    <3> QED BY <1>2, <3>1, <3>2
  <2>6. q.dest = PutIn(r.dest, y) /\ q.found = y + N
    <3>1. q = [dest  |-> SubSeq(r.dest, 1, pos + 1) \o <<Backslash>> \o Drop(r.dest, pos + 1),
               found |-> pos + Len(w) + 1]
      BY <1>12 DEF EscapeRound
    <3>2. pos + 1 = y /\ pos + Len(w) + 1 = y + N
      BY <1>2, <2>1, <2>4, <2>5
    <3> HIDE DEF pos, q
    <3> QED BY <3>1, <3>2 DEF PutIn
  <2>7. Spread(t, z, q.dest)
    BY <1>3, <2>3, <2>4, <2>6, BackslashPut
  <2>8. g \notin M /\ TakenUpTo(F, N, M \cup {g}, g + N)
    <3> HIDE DEF F
    <3>1. F \subseteq 1 .. m /\ c \in 1 .. m + 1 /\ N \in Nat /\ N > 0 /\ m \in Nat
      BY <1>1, <1>2, <1>4, <1>5
    <3>2. TakenUpTo(F, N, M, c)
      BY <1>3
    <3>3. FirstFrom(F, c, g)
      BY <2>1, <2>2 DEF FirstFrom
    <3> QED BY <3>1, <3>2, <3>3, NextOneTaken
  <2>9. Raised(t, a, z, M \cup {g})
    <3> SUFFICES ASSUME NEW x \in 1 .. Len(t)
                 PROVE  GapCounts(t, z)[x] = GapCounts(t, a)[x] + (IF x \in M \cup {g} THEN 1 ELSE 0)
      BY DEF Raised
    <3>1. Raised(t, b, z, {g})
      BY <1>3, <2>3, CountsPut
    <3>2. GapCounts(t, z)[x] = GapCounts(t, b)[x] + (IF x \in {g} THEN 1 ELSE 0)
      BY <3>1 DEF Raised
    <3>3. GapCounts(t, b)[x] = GapCounts(t, a)[x] + (IF x \in M THEN 1 ELSE 0)
      BY <1>3 DEF Raised
    <3>4. GapCounts(t, a)[x] \in Nat
      BY CountMeans
    <3> HIDE DEF z
    <3>5. PICK i \in Nat : i = GapCounts(t, a)[x]
      BY <3>4
    <3>6. CASE x = g
      <4>1. GapCounts(t, b)[x] = i + 0
        BY <2>8, <3>3, <3>5, <3>6
      <4>2. GapCounts(t, z)[x] = (i + 0) + 1
        BY <3>2, <3>6, <4>1
      <4> QED BY <3>5, <3>6, <4>2
    <3>7. CASE x # g
      <4>1. GapCounts(t, z)[x] = GapCounts(t, b)[x] + 0
        BY <3>2, <3>7
      <4>2. (x \in M => GapCounts(t, b)[x] = i + 1) /\ (x \notin M => GapCounts(t, b)[x] = i + 0)
        BY <3>3, <3>5
      <4>3. (x \in M => GapCounts(t, z)[x] = i + 1) /\ (x \notin M => GapCounts(t, z)[x] = i + 0)
        BY <4>1, <4>2
      <4>4. x \in M <=> x \in M \cup {g}
        BY <3>7
      <4> QED BY <3>5, <4>3, <4>4
    <3> QED BY <3>6, <3>7
  <2>10. PICK d \in 1 .. m : d = g + N - 1
    <3>1. g + N - 1 <= Len(t)
      BY <1>2 DEF Findable, Matching
    <3>2. g + N - 1 \in 1 .. m
      BY <1>1, <1>2, <2>3, <3>1
    <3> QED BY <3>2
  <2>11. b[d] = y + (N - 1)
    BY <1>2, <1>3, <2>4, <2>10, FindableIsSeen
  <2>12. d \in 1 .. m + 1 /\ d + 1 \in 1 .. m + 1 /\ d < d + 1 /\ ~(d + 1 <= g) /\ d + 1 = g + N
    BY <1>2, <2>3, <2>10
  <2>13. PICK p \in Nat : p = b[d + 1] /\ p >= y + N
    <3>1. b[d] < b[d + 1] /\ b[d + 1] \in Nat
      BY <1>1, <1>3, <2>12, InOrder
    <3>2. PICK p \in Nat : p = b[d + 1]
      BY <3>1
    <3>3. y + (N - 1) < p
      BY <2>11, <3>1, <3>2
    <3>4. p >= y + N
      BY <1>2, <2>4, <3>2, <3>3
    <3> QED BY <3>2, <3>4
  <2>14. z[d] <= y + N
    <3>1. z[d] = IF d <= g THEN b[d] ELSE b[d] + 1
      BY <1>1, <2>12 DEF PutAt
    <3> HIDE DEF z
    <3> QED BY <1>2, <2>4, <2>11, <3>1
  <2>15. y + N < z[d + 1]
    <3>1. z[d + 1] = IF d + 1 <= g THEN b[d + 1] ELSE b[d + 1] + 1
      BY <1>1, <2>12 DEF PutAt
    <3> HIDE DEF z
    <3> QED BY <1>2, <2>4, <2>12, <2>13, <3>1
  <2>16. Reached(t, z, q.found, g + N)
    <3>1. q.found \in Nat /\ d \in 1 .. Len(t)
      BY <1>1, <1>2, <2>4, <2>6
    <3> HIDE DEF z, q
    <3>2. Reached(t, z, q.found, d + 1)
      BY <2>6, <2>7, <2>14, <2>15, <3>1, NextReached
    <3> QED BY <2>12, <3>2
  <2>17. EscapeState(t, a, w, q, z, M \cup {g}, g + N)
    BY <1>2, <2>7, <2>8, <2>9, <2>16 DEF EscapeState
  <2>18. g + N \in 1 .. Len(t) + 1
    BY <1>1, <2>12
  <2> QED BY <1>2, <2>1, <2>2, <2>17, <2>18
<1> QED BY <1>10, <1>11, <1>12

(* A round of unescape() takes the next place, or leaves all as it is.     *)
LEMMA UnescapeRoundMeans ==
  ASSUME WordsAssumption, NEW t \in Seq(Alphabet), NEW a, NEW s, Spread(t, a, s),
         NEW w \in Seq(Alphabet), Len(w) > 0, NEW r, NEW b, NEW M, NEW c,
         UnescapeState(t, a, w, r, b, M, c)
  PROVE  \/ /\ UnescapeRound(w, r) = r
            /\ \A g \in Erasable(t, w, GapCounts(t, a)) : ~(c <= g)
         \/ \E g \in Erasable(t, w, GapCounts(t, a)) :
              /\ c <= g /\ g + Len(w) \in 1 .. Len(t) + 1
              /\ UnescapeState(t, a, w, UnescapeRound(w, r), TakenAt(t, b, g), M \cup {g}, g + Len(w))
<1> DEFINE F == Erasable(t, w, GapCounts(t, a))
           G == Erasable(t, w, GapCounts(t, b))
           pos == Find(r.dest, EscapedPat(w), r.found)
<1>1. PICK m \in Nat : m = Len(t)
  BY InOrder
<1>2. PICK N \in Nat : N = Len(w) /\ N >= 1
  BY LenProperties
<1>3. /\ Spread(t, b, r.dest) /\ Reached(t, b, r.found, c)
      /\ TakenUpTo(F, N, M, c) /\ Lowered(t, a, b, M)
  BY <1>2 DEF UnescapeState
<1>4. F \subseteq 1 .. m /\ G \subseteq 1 .. m
  BY <1>1 DEF Erasable
<1>5. c \in 1 .. m + 1
  BY <1>1, <1>3 DEF Reached
<1>6. \A x \in 1 .. m : x >= c => GapCounts(t, b)[x] = GapCounts(t, a)[x]
  <2> SUFFICES ASSUME NEW x \in 1 .. m, x >= c PROVE GapCounts(t, b)[x] = GapCounts(t, a)[x]
    OBVIOUS
  <2>1. x \notin M
    <3> SUFFICES ASSUME x \in M PROVE FALSE
      OBVIOUS
    <3>1. x + N <= c
      BY <1>3 DEF TakenUpTo
    <3> QED BY <1>2, <1>5, <3>1
  <2>2. GapCounts(t, b)[x] = GapCounts(t, a)[x] - 0
    BY <1>1, <1>3, <2>1 DEF Lowered
  <2>3. GapCounts(t, a)[x] \in Nat
    BY <1>1, CountMeans
  <2> QED BY <2>2, <2>3
<1>7. \A g \in 1 .. m : g >= c => (g \in G <=> g \in F)
  <2> SUFFICES ASSUME NEW g \in 1 .. m, g >= c PROVE g \in G <=> g \in F
    OBVIOUS
  <2> DEFINE e == GapCounts(t, b)
             f == GapCounts(t, a)
  <2>1. \A x \in 1 .. Len(t) : x >= c => e[x] = f[x]
    BY <1>1, <1>6
  <2>2. c \in Nat /\ Len(t) \in Nat /\ Len(w) \in Nat /\ g \in 1 .. Len(t)
    BY <1>1, <1>2, <1>5
  <2> HIDE DEF e, f
  <2>3. g \in Erasable(t, w, e) <=> g \in Erasable(t, w, f)
    BY <2>1, <2>2, StillAhead
  <2> QED BY <2>3 DEF e, f
<1>8. EscapedPat(w) \in Seq(EscapedLetters) /\ Len(EscapedPat(w)) = N + 1
  BY <1>2, EscapedPatMeans
<1>9. Shown(t, b, r.dest, EscapedPat(w), G)
  BY <1>3, EscapedShown
<1>10. \/ pos = -1 /\ \A g \in G : ~(c <= g)
       \/ pos # -1 /\ \E g \in G : /\ c <= g /\ b[g] = pos + 1
                                  /\ \A h \in G : c <= h => g <= h
  <2> HIDE DEF G
  <2> QED BY SMTT(30), <1>3, <1>8, <1>9, SearchMeans
<1>11. CASE pos = -1 /\ \A g \in G : ~(c <= g)
  <2>1. UnescapeRound(w, r) = r
    BY <1>11 DEF UnescapeRound
  <2>2. \A g \in F : ~(c <= g)
    <3> HIDE DEF F, G
    <3> QED BY <1>4, <1>5, <1>7, <1>11
  <2> QED BY <2>1, <2>2
<1>12. CASE pos # -1 /\ \E g \in G : /\ c <= g /\ b[g] = pos + 1
                                     /\ \A h \in G : c <= h => g <= h
  <2>1. PICK g \in G : /\ c <= g /\ b[g] = pos + 1
                       /\ \A h \in G : c <= h => g <= h
    BY <1>12
  <2>2. g \in F /\ \A h \in F : c <= h => g <= h
    <3> HIDE DEF F, G
    <3> QED BY <1>4, <1>5, <1>7, <2>1
  <2>3. g \in 1 .. m /\ g \in 1 .. Len(t)
    BY <1>1, <1>4
  <2>4. PICK y \in Nat : y = b[g]
    BY <1>3, <2>3, CountMeans
  <2> DEFINE z == TakenAt(t, b, g)
             q == UnescapeRound(w, r)
  <2>5. pos \in Int
    <3>1. r.dest \in Seq(EscapedLetters) /\ r.found \in Nat
      BY <1>3 DEF Spread, Reached
    <3>2. pos \in r.found .. Len(r.dest) - Len(EscapedPat(w)) /\ Len(r.dest) \in Nat
      BY SMTT(30), <1>8, <1>12, <3>1, FindMeans, LenProperties
    <3> QED BY <1>2, <1>8, <3>1, <3>2
  <2>6. q.dest = TakenOut(r.dest, y) /\ q.found = (y - 1) + N
    <3>1. q = [dest  |-> SubSeq(r.dest, 1, pos + 1) \o Drop(r.dest, pos + 2),
               found |-> pos + Len(w)]
      BY <1>12 DEF UnescapeRound
    <3>2. pos + 1 = y /\ pos + 2 = y + 1 /\ pos + Len(w) = (y - 1) + N
      <4> HIDE DEF pos
      <4>1. y = pos + 1
        BY <2>1, <2>4
      <4>2. pos = y - 1
        BY <2>5, <4>1
      <4> QED BY <1>2, <2>4, <4>1, <4>2
    <3> HIDE DEF pos, q
    <3> QED BY <3>1, <3>2 DEF TakenOut
  <2>19. PICK k \in Nat : k = GapCounts(t, b)[g] /\ k >= 1
    <3>1. GapCounts(t, b)[g] \in Nat
      BY <1>3, <2>3, CountMeans
    <3> QED BY <3>1 DEF Erasable
  <2>7. Spread(t, z, q.dest)
    BY <1>3, <2>3, <2>4, <2>6, <2>19, BackslashTaken
  <2>8. g \notin M /\ TakenUpTo(F, N, M \cup {g}, g + N)
    <3> HIDE DEF F
    <3>1. F \subseteq 1 .. m /\ c \in 1 .. m + 1 /\ N \in Nat /\ N > 0 /\ m \in Nat
      BY <1>1, <1>2, <1>4, <1>5
    <3>2. TakenUpTo(F, N, M, c)
      BY <1>3
    <3>3. FirstFrom(F, c, g)
      BY <2>1, <2>2 DEF FirstFrom
    <3> QED BY <3>1, <3>2, <3>3, NextOneTaken
  <2>9. Lowered(t, a, z, M \cup {g})
    <3> SUFFICES ASSUME NEW x \in 1 .. Len(t)
                 PROVE  GapCounts(t, z)[x] = GapCounts(t, a)[x] - (IF x \in M \cup {g} THEN 1 ELSE 0)
      BY DEF Lowered
    <3>1. Lowered(t, b, z, {g})
      BY <1>3, <2>3, CountsTaken
    <3>2. GapCounts(t, z)[x] = GapCounts(t, b)[x] - (IF x \in {g} THEN 1 ELSE 0)
      BY <3>1 DEF Lowered
    <3>3. GapCounts(t, b)[x] = GapCounts(t, a)[x] - (IF x \in M THEN 1 ELSE 0)
      BY <1>3 DEF Lowered
    <3>4. GapCounts(t, a)[x] \in Nat
      BY CountMeans
    <3> HIDE DEF z
    <3>5. PICK i \in Nat : i = GapCounts(t, a)[x]
      BY <3>4
    <3>6. CASE x = g
      <4>1. GapCounts(t, b)[x] = i - 0
        BY <2>8, <3>3, <3>5, <3>6
      <4>2. GapCounts(t, z)[x] = (i - 0) - 1
        BY <3>2, <3>6, <4>1
      <4> QED BY <3>5, <3>6, <4>2
    <3>7. CASE x # g
      <4>1. GapCounts(t, z)[x] = GapCounts(t, b)[x] - 0
        BY <3>2, <3>7
      <4>2. (x \in M => GapCounts(t, b)[x] = i - 1) /\ (x \notin M => GapCounts(t, b)[x] = i - 0)
        BY <3>3, <3>5
      <4>3. (x \in M => GapCounts(t, z)[x] = i - 1) /\ (x \notin M => GapCounts(t, z)[x] = i - 0)
        BY <4>1, <4>2
      <4>4. x \in M <=> x \in M \cup {g}
        BY <3>7
      <4> QED BY <3>5, <4>3, <4>4
    <3> QED BY <3>6, <3>7
  <2>10. PICK d \in 1 .. m : d = g + N - 1
    <3>1. g + N - 1 <= Len(t)
      BY <1>2 DEF Erasable, Matching
    <3>2. g + N - 1 \in 1 .. m
      BY <1>1, <1>2, <2>3, <3>1
    <3> QED BY <3>2
  <2>11. N > 1 => b[d] = y + N
    BY <1>2, <1>3, <2>4, <2>10, ErasableIsSeen
  <2>12. d \in 1 .. m + 1 /\ d + 1 \in 1 .. m + 1 /\ d < d + 1 /\ ~(d + 1 <= g) /\ d + 1 = g + N
         /\ (N > 1 => ~(d <= g)) /\ (N = 1 => d = g)
    BY SMTT(30), <1>2, <2>3, <2>10
  <2>13. PICK p \in Nat : p = b[d + 1] /\ p >= y + N + 1
    <3>1. b[d] < b[d + 1] /\ b[d + 1] \in Nat
      BY <1>1, <1>3, <2>12, InOrder
    <3>2. PICK p \in Nat : p = b[d + 1]
      BY <3>1
    <3>3. N > 1 => y + N < p
      BY <2>11, <3>1, <3>2
    <3>4. N = 1 => p = y + k + 1
      <4>1. b[g + 1] = b[g] + k + 1
        BY <1>3, <2>3, <2>19, CountMeans
      <4> QED BY <2>4, <2>12, <3>2, <4>1
    <3>5. p >= y + N + 1
      <4>1. N > 1 => p >= y + N + 1
        BY <1>2, <2>4, <3>2, <3>3
      <4>2. N = 1 => p >= y + N + 1
        BY <2>4, <2>19, <3>2, <3>4
      <4> QED BY <1>2, <4>1, <4>2
    <3> QED BY <3>2, <3>5
  <2>14. z[d] <= (y - 1) + N
    <3>1. z[d] = IF d <= g THEN b[d] ELSE b[d] - 1
      BY <1>1, <2>12 DEF TakenAt
    <3> HIDE DEF z
    <3>2. N = 1 => z[d] = y
      BY <2>3, <2>4, <2>12, <3>1
    <3>3. N > 1 => z[d] = (y + N) - 1
      BY <2>11, <2>12, <3>1
    <3>4. N = 1 \/ N > 1
      BY <1>2
    <3> QED BY <1>2, <2>4, <3>2, <3>3, <3>4
  <2>15. (y - 1) + N < z[d + 1]
    <3>1. z[d + 1] = IF d + 1 <= g THEN b[d + 1] ELSE b[d + 1] - 1
      BY <1>1, <2>12 DEF TakenAt
    <3> HIDE DEF z
    <3>2. z[d + 1] = p - 1
      BY <2>12, <2>13, <3>1
    <3> QED BY SMTT(30), <1>2, <2>4, <2>13, <3>2
  <2>16. Reached(t, z, q.found, g + N)
    <3>1. q.found \in Nat /\ d \in 1 .. Len(t)
      BY <1>1, <1>2, <2>4, <2>6
    <3> HIDE DEF z, q
    <3>2. Reached(t, z, q.found, d + 1)
      BY <2>6, <2>7, <2>14, <2>15, <3>1, NextReached
    <3> QED BY <2>12, <3>2
  <2>17. UnescapeState(t, a, w, q, z, M \cup {g}, g + N)
    BY <1>2, <2>7, <2>8, <2>9, <2>16 DEF UnescapeState
  <2>18. g + N \in 1 .. Len(t) + 1
    BY <1>1, <2>12
  <2> QED BY <1>2, <2>1, <2>2, <2>17, <2>18
<1> QED BY <1>10, <1>11, <1>12

(* After k rounds k characters are behind, or there is nothing ahead.      *)
EscapeReady(t, a, w, r, k) ==
  \E b, M, c :
     /\ EscapeState(t, a, w, r, b, M, c)
     /\ c >= k + 1 \/ \A g \in Findable(t, w, GapCounts(t, a)) : ~(c <= g)

LEMMA EscapeStarts ==
  ASSUME NEW t \in Seq(Alphabet), NEW a, NEW s, Spread(t, a, s), NEW w
  PROVE  EscapeReady(t, a, w, FromStart(s), 0)
<1> DEFINE r == FromStart(s)
<1>1. r.dest = s /\ r.found = 0
  BY DEF FromStart
<1> HIDE DEF r
<1>2. PICK m \in Nat : m = Len(t)
  BY InOrder
<1>3. PICK c \in Nat : c = 1
  OBVIOUS
<1>4. Reached(t, a, r.found, c)
  <2>1. \A x \in 1 .. m + 1 : a[x] \in Nat /\ 1 <= a[x]
    BY <1>2, InOrder
  <2>2. \A x \in 1 .. m + 1 : ~(x < c) /\ ~(a[x] <= r.found)
    BY <1>1, <1>3, <2>1
  <2>3. r.found \in Nat /\ c \in 1 .. m + 1
    BY <1>1, <1>2, <1>3
  <2> QED BY <1>2, <2>2, <2>3 DEF Reached
<1>5. Raised(t, a, a, {})
  <2> SUFFICES ASSUME NEW x \in 1 .. Len(t)
               PROVE  GapCounts(t, a)[x] = GapCounts(t, a)[x] + (IF x \in {} THEN 1 ELSE 0)
    BY DEF Raised
  <2>1. PICK i \in Nat : i = GapCounts(t, a)[x]
    BY CountMeans
  <2>2. i = i + (IF x \in {} THEN 1 ELSE 0)
    BY <2>1
  <2> QED BY <2>1, <2>2
<1>6. TakenUpTo(Findable(t, w, GapCounts(t, a)), Len(w), {}, c)
  <2>1. \A g \in Findable(t, w, GapCounts(t, a)) : ~(g < c)
    <3>1. \A g \in Findable(t, w, GapCounts(t, a)) : g \in 1 .. m
      BY <1>2 DEF Findable
    <3> QED BY <1>3, <3>1
  <2> QED BY <2>1 DEF TakenUpTo
<1>7. EscapeState(t, a, w, r, a, {}, c)
  BY <1>1, <1>4, <1>5, <1>6 DEF EscapeState
<1>8. c >= 0 + 1
  BY <1>3
<1> QED BY <1>7, <1>8 DEF EscapeReady, r

LEMMA EscapeGoesOn ==
  ASSUME WordsAssumption, NEW t \in Seq(Alphabet), NEW a, NEW s, Spread(t, a, s),
         NEW w \in Seq(Alphabet), Len(w) > 0, NEW r, NEW k \in Nat, NEW l \in Nat, l = k + 1,
         EscapeReady(t, a, w, r, k)
  PROVE  EscapeReady(t, a, w, EscapeRound(w, r), l)
<1> DEFINE F == Findable(t, w, GapCounts(t, a))
<1>1. PICK b, M, c : /\ EscapeState(t, a, w, r, b, M, c)
                     /\ c >= k + 1 \/ \A g \in F : ~(c <= g)
  BY DEF EscapeReady
<1>2. c \in Nat
  <2>1. c \in 1 .. Len(t) + 1 /\ Len(t) \in Nat
    BY <1>1, InOrder DEF EscapeState, Reached
  <2> QED BY <2>1
<1>3. CASE EscapeRound(w, r) = r /\ \A g \in F : ~(c <= g)
  BY <1>1, <1>3 DEF EscapeReady
<1>4. ASSUME NEW g \in F, c <= g, g + Len(w) \in 1 .. Len(t) + 1,
             EscapeState(t, a, w, EscapeRound(w, r), PutAt(t, b, g), M \cup {g}, g + Len(w))
      PROVE  EscapeReady(t, a, w, EscapeRound(w, r), l)
  <2>1. c >= k + 1
    BY <1>1, <1>4
  <2>2. g \in Nat /\ Len(w) \in Nat
    <3>1. g \in 1 .. Len(t) /\ Len(t) \in Nat
      BY InOrder DEF Findable
    <3> QED BY <3>1, LenProperties
  <2>3. g + Len(w) >= l + 1
    BY <1>2, <1>4, <2>1, <2>2
  <2> QED BY <1>4, <2>3 DEF EscapeReady
<1> QED BY <1>1, <1>3, <1>4, EscapeRoundMeans

(* All rounds: a word is escaped at each place the search takes.           *)
LEMMA EscapeWordMeans ==
  ASSUME WordsAssumption, NEW t \in Seq(Alphabet), NEW a, NEW s, Spread(t, a, s),
         NEW w \in Seq(Alphabet), Len(w) > 0
  PROVE  \E b, M : /\ Spread(t, b, EscapeWord(s, w))
                   /\ TakenPlaces(Findable(t, w, GapCounts(t, a)), Len(w), M)
                   /\ Raised(t, a, b, M)
<1> DEFINE F == Findable(t, w, GapCounts(t, a))
           R == EscapeRounds(s, w)
<1>1. PICK m, n \in Nat : m = Len(t) /\ n = Len(s) /\ m <= n
  BY InOrder, TextIsShorter
<1>2. R[0] = FromStart(s) /\ \A k \in 1 .. n : R[k] = EscapeRound(w, R[k - 1])
  BY <1>1, EscapeRoundsSteps
<1>3. EscapeWord(s, w) = R[n].dest
  BY <1>1 DEF EscapeWord
<1> HIDE DEF R
<1> DEFINE T == {k \in 0 .. n : EscapeReady(t, a, w, R[k], k)}
<1>4. 0 \in T
  BY <1>2, EscapeStarts
<1>5. ASSUME NEW k \in 1 .. n, k - 1 \in T PROVE k \in T
  <2>1. PICK j \in Nat : j = k - 1
    OBVIOUS
  <2>2. EscapeReady(t, a, w, R[j], j) /\ k \in Nat /\ k = j + 1
    BY <1>5, <2>1
  <2>3. EscapeReady(t, a, w, EscapeRound(w, R[j]), k)
    BY <2>1, <2>2, EscapeGoesOn
  <2> QED BY <1>2, <2>1, <2>3
<1>6. 0 .. n \subseteq T
  <2> HIDE DEF T
  <2> QED BY <1>4, <1>5, UpTo
<1>7. EscapeReady(t, a, w, R[n], n)
  BY <1>6
<1>8. PICK b, M, c : /\ EscapeState(t, a, w, R[n], b, M, c)
                     /\ c >= n + 1 \/ \A g \in F : ~(c <= g)
  BY <1>7 DEF EscapeReady
<1>9. c \in Nat /\ F \subseteq 1 .. m
  <2>1. c \in 1 .. Len(t) + 1
    BY <1>8 DEF EscapeState, Reached
  <2> QED BY <1>1, <2>1 DEF Findable
<1>10. \A g \in F : g < c
  <2> HIDE DEF F
  <2> QED BY <1>1, <1>8, <1>9
<1>11. TakenUpTo(F, Len(w), M, c)
  BY <1>8 DEF EscapeState
<1>12. TakenPlaces(F, Len(w), M)
  <2> HIDE DEF F
  <2> QED BY <1>10, <1>11, AllTaken
<1> QED BY <1>3, <1>8, <1>12 DEF EscapeState
(* The same for unescape().                                                *)
UnescapeReady(t, a, w, r, k) ==
  \E b, M, c :
     /\ UnescapeState(t, a, w, r, b, M, c)
     /\ c >= k + 1 \/ \A g \in Erasable(t, w, GapCounts(t, a)) : ~(c <= g)

LEMMA UnescapeStarts ==
  ASSUME NEW t \in Seq(Alphabet), NEW a, NEW s, Spread(t, a, s), NEW w
  PROVE  UnescapeReady(t, a, w, FromStart(s), 0)
<1> DEFINE r == FromStart(s)
<1>1. r.dest = s /\ r.found = 0
  BY DEF FromStart
<1> HIDE DEF r
<1>2. PICK m \in Nat : m = Len(t)
  BY InOrder
<1>3. PICK c \in Nat : c = 1
  OBVIOUS
<1>4. Reached(t, a, r.found, c)
  <2>1. \A x \in 1 .. m + 1 : a[x] \in Nat /\ 1 <= a[x]
    BY <1>2, InOrder
  <2>2. \A x \in 1 .. m + 1 : ~(x < c) /\ ~(a[x] <= r.found)
    BY <1>1, <1>3, <2>1
  <2>3. r.found \in Nat /\ c \in 1 .. m + 1
    BY <1>1, <1>2, <1>3
  <2> QED BY <1>2, <2>2, <2>3 DEF Reached
<1>5. Lowered(t, a, a, {})
  <2> SUFFICES ASSUME NEW x \in 1 .. Len(t)
               PROVE  GapCounts(t, a)[x] = GapCounts(t, a)[x] - (IF x \in {} THEN 1 ELSE 0)
    BY DEF Lowered
  <2>1. PICK i \in Nat : i = GapCounts(t, a)[x]
    BY CountMeans
  <2>2. i = i - (IF x \in {} THEN 1 ELSE 0)
    BY <2>1
  <2> QED BY <2>1, <2>2
<1>6. TakenUpTo(Erasable(t, w, GapCounts(t, a)), Len(w), {}, c)
  <2>1. \A g \in Erasable(t, w, GapCounts(t, a)) : ~(g < c)
    <3>1. \A g \in Erasable(t, w, GapCounts(t, a)) : g \in 1 .. m
      BY <1>2 DEF Erasable
    <3> QED BY <1>3, <3>1
  <2> QED BY <2>1 DEF TakenUpTo
<1>7. UnescapeState(t, a, w, r, a, {}, c)
  BY <1>1, <1>4, <1>5, <1>6 DEF UnescapeState
<1>8. c >= 0 + 1
  BY <1>3
<1> QED BY <1>7, <1>8 DEF UnescapeReady, r

LEMMA UnescapeGoesOn ==
  ASSUME WordsAssumption, NEW t \in Seq(Alphabet), NEW a, NEW s, Spread(t, a, s),
         NEW w \in Seq(Alphabet), Len(w) > 0, NEW r, NEW k \in Nat, NEW l \in Nat, l = k + 1,
         UnescapeReady(t, a, w, r, k)
  PROVE  UnescapeReady(t, a, w, UnescapeRound(w, r), l)
<1> DEFINE F == Erasable(t, w, GapCounts(t, a))
<1>1. PICK b, M, c : /\ UnescapeState(t, a, w, r, b, M, c)
                     /\ c >= k + 1 \/ \A g \in F : ~(c <= g)
  BY DEF UnescapeReady
<1>2. c \in Nat
  <2>1. c \in 1 .. Len(t) + 1 /\ Len(t) \in Nat
    BY <1>1, InOrder DEF UnescapeState, Reached
  <2> QED BY <2>1
<1>3. CASE UnescapeRound(w, r) = r /\ \A g \in F : ~(c <= g)
  BY <1>1, <1>3 DEF UnescapeReady
<1>4. ASSUME NEW g \in F, c <= g, g + Len(w) \in 1 .. Len(t) + 1,
             UnescapeState(t, a, w, UnescapeRound(w, r), TakenAt(t, b, g), M \cup {g}, g + Len(w))
      PROVE  UnescapeReady(t, a, w, UnescapeRound(w, r), l)
  <2>1. c >= k + 1
    BY <1>1, <1>4
  <2>2. g \in Nat /\ Len(w) \in Nat
    <3>1. g \in 1 .. Len(t) /\ Len(t) \in Nat
      BY InOrder DEF Erasable
    <3> QED BY <3>1, LenProperties
  <2>3. g + Len(w) >= l + 1
    BY <1>2, <1>4, <2>1, <2>2
  <2> QED BY <1>4, <2>3 DEF UnescapeReady
<1> QED BY <1>1, <1>3, <1>4, UnescapeRoundMeans

(* All rounds: the backslash is erased at each place the search takes.     *)
LEMMA UnescapeWordMeans ==
  ASSUME WordsAssumption, NEW t \in Seq(Alphabet), NEW a, NEW s, Spread(t, a, s),
         NEW w \in Seq(Alphabet), Len(w) > 0
  PROVE  \E b, M : /\ Spread(t, b, UnescapeWord(s, w))
                   /\ TakenPlaces(Erasable(t, w, GapCounts(t, a)), Len(w), M)
                   /\ Lowered(t, a, b, M)
<1> DEFINE F == Erasable(t, w, GapCounts(t, a))
           R == UnescapeRounds(s, w)
<1>1. PICK m, n \in Nat : m = Len(t) /\ n = Len(s) /\ m <= n
  BY InOrder, TextIsShorter
<1>2. R[0] = FromStart(s) /\ \A k \in 1 .. n : R[k] = UnescapeRound(w, R[k - 1])
  BY <1>1, UnescapeRoundsSteps
<1>3. UnescapeWord(s, w) = R[n].dest
  BY <1>1 DEF UnescapeWord
<1> HIDE DEF R
<1> DEFINE T == {k \in 0 .. n : UnescapeReady(t, a, w, R[k], k)}
<1>4. 0 \in T
  BY <1>2, UnescapeStarts
<1>5. ASSUME NEW k \in 1 .. n, k - 1 \in T PROVE k \in T
  <2>1. PICK j \in Nat : j = k - 1
    OBVIOUS
  <2>2. UnescapeReady(t, a, w, R[j], j) /\ k \in Nat /\ k = j + 1
    BY <1>5, <2>1
  <2>3. UnescapeReady(t, a, w, UnescapeRound(w, R[j]), k)
    BY <2>1, <2>2, UnescapeGoesOn
  <2> QED BY <1>2, <2>1, <2>3
<1>6. 0 .. n \subseteq T
  <2> HIDE DEF T
  <2> QED BY <1>4, <1>5, UpTo
<1>7. UnescapeReady(t, a, w, R[n], n)
  BY <1>6
<1>8. PICK b, M, c : /\ UnescapeState(t, a, w, R[n], b, M, c)
                     /\ c >= n + 1 \/ \A g \in F : ~(c <= g)
  BY <1>7 DEF UnescapeReady
<1>9. c \in Nat /\ F \subseteq 1 .. m
  <2>1. c \in 1 .. Len(t) + 1
    BY <1>8 DEF UnescapeState, Reached
  <2> QED BY <1>1, <2>1 DEF Erasable
<1>10. \A g \in F : g < c
  <2> HIDE DEF F
  <2> QED BY <1>1, <1>8, <1>9
<1>11. TakenUpTo(F, Len(w), M, c)
  BY <1>8 DEF UnescapeState
<1>12. TakenPlaces(F, Len(w), M)
  <2> HIDE DEF F
  <2> QED BY <1>10, <1>11, AllTaken
<1> QED BY <1>3, <1>8, <1>12 DEF UnescapeState

-----------------------------------------------------------------------------
(* Where the characters of t are in s.                                     *)
At(t, s) == CHOOSE a : Spread(t, a, s)

LEMMA AtMeans ==
  ASSUME WordsAssumption, NEW t \in Seq(Alphabet), NEW a, NEW s, Spread(t, a, s)
  PROVE  At(t, s) = a
<1>1. Spread(t, At(t, s), s)
  BY DEF At
<1> HIDE DEF At
<1> QED BY <1>1, OnlyOneSpread

(* What is not taken keeps its count.                                      *)
LEMMA Untouched ==
  ASSUME WordsAssumption, NEW t \in Seq(Alphabet)
  PROVE  /\ Spread(t, At(t, t), t)
         /\ \A x \in 1 .. Len(t) : GapCounts(t, At(t, t))[x] = 0
<1>1. PICK m \in Nat : m = Len(t)
  BY LenProperties
<1> DEFINE a == [g \in 1 .. m + 1 |-> g]
<1>2. a \in [1 .. m + 1 -> Nat] /\ \A x \in 1 .. m + 1 : a[x] = x
  OBVIOUS
<1> HIDE DEF a
<1>3. 1 \in 1 .. m + 1 /\ m + 1 \in 1 .. m + 1
  OBVIOUS
<1>4. \A x \in 1 .. m : x \in 1 .. m + 1 /\ x + 1 \in 1 .. m + 1
  OBVIOUS
<1>5. \A x \in 1 .. m : a[x] + 1 .. a[x + 1] - 1 = {}
  <2> TAKE x \in 1 .. m
  <2>1. a[x] = x /\ a[x + 1] = x + 1
    BY <1>2, <1>4
  <2> QED BY <2>1
<1>6. t \in Seq(EscapedLetters)
  BY DEF EscapedLetters
<1>7. a[1] = 1 /\ a[m + 1] = m + 1
  BY <1>2, <1>3
<1>8. \A x, z \in 1 .. m + 1 : x < z => a[x] < a[z]
  BY <1>2
<1>9. \A x \in 1 .. m : t[a[x]] = t[x]
  BY <1>2, <1>4
<1>10. Spread(t, a, t)
  BY <1>1, <1>2, <1>5, <1>6, <1>7, <1>8, <1>9 DEF Spread
<1>11. \A x \in 1 .. m : GapCounts(t, a)[x] = 0
  <2> TAKE x \in 1 .. m
  <2>1. a[x] = x /\ a[x + 1] = x + 1
    BY <1>2, <1>4
  <2>2. GapCounts(t, a)[x] = (x + 1) - x - 1
    BY <1>1, <2>1 DEF GapCounts
  <2> QED BY <2>2
<1>12. At(t, t) = a
  BY <1>10, AtMeans
<1> QED BY <1>1, <1>10, <1>11, <1>12

LEMMA TouchedNowhere ==
  ASSUME NEW t \in Seq(Alphabet), NEW a, NEW s, Spread(t, a, s),
         \A x \in 1 .. Len(t) : GapCounts(t, a)[x] = 0
  PROVE  s = t
<1>1. PICK m \in Nat : m = Len(t)
  BY InOrder
<1>2. PICK one \in 1 .. m + 1 : one = 1
  BY <1>1
<1>3. Unbroken(t, a, one, m)
  <2>1. \A x \in one .. one + m - 1 : x \in 1 .. Len(t)
    BY <1>1, <1>2
  <2> QED BY <2>1 DEF Unbroken
<1>4. m \in Nat /\ one \in 1 .. Len(t) + 1 /\ one + m <= Len(t) + 1
  BY <1>1, <1>2
<1>5. \A d \in 0 .. m : a[one + d] = a[one] + d
  BY <1>3, <1>4, NextToEachOther
<1>6. a[one] = 1 /\ a[m + 1] = Len(s) + 1 /\ Len(s) \in Nat
  BY <1>1, <1>2, InOrder DEF Spread
<1>7. \A x \in 1 .. m + 1 : a[x] = x
  <2> TAKE x \in 1 .. m + 1
  <2>1. PICK d \in 0 .. m : x = one + d
    <3>1. x - 1 \in 0 .. m /\ x = one + (x - 1)
      BY <1>2
    <3> QED BY <3>1
  <2>2. a[x] = 1 + d
    BY <1>5, <1>6, <2>1
  <2> QED BY <1>2, <2>1, <2>2
<1>8. Len(s) = m
  <2>1. a[m + 1] = m + 1
    BY <1>7
  <2> QED BY <1>6, <2>1
<1>9. \A x \in 1 .. m : s[x] = t[x]
  <2> TAKE x \in 1 .. m
  <2>1. a[x] = x
    BY <1>7
  <2>2. s[a[x]] = t[x]
    BY <1>1 DEF Spread
  <2> QED BY <2>1, <2>2
<1>10. s \in Seq(EscapedLetters) /\ t \in Seq(EscapedLetters)
  BY DEF EscapedLetters, Spread
<1> QED BY <1>1, <1>8, <1>9, <1>10, SeqEqual

LEMMA RaisedThere ==
  ASSUME NEW t \in Seq(Alphabet), NEW a, NEW s, Spread(t, a, s), NEW b, NEW M,
         M \in SUBSET (1 .. Len(t)), Raised(t, a, b, M)
  PROVE  M = {x \in 1 .. Len(t) : GapCounts(t, b)[x] # GapCounts(t, a)[x]}
<1> SUFFICES ASSUME NEW x \in 1 .. Len(t)
             PROVE  x \in M <=> GapCounts(t, b)[x] # GapCounts(t, a)[x]
  OBVIOUS
<1>1. PICK i \in Nat : i = GapCounts(t, a)[x]
  BY CountMeans
<1>2. GapCounts(t, b)[x] = i + (IF x \in M THEN 1 ELSE 0)
  BY <1>1 DEF Raised
<1>3. (x \in M => GapCounts(t, b)[x] = i + 1) /\ (x \notin M => GapCounts(t, b)[x] = i + 0)
  BY <1>2
<1> QED BY <1>1, <1>3

LEMMA LoweredThere ==
  ASSUME NEW t \in Seq(Alphabet), NEW a, NEW s, Spread(t, a, s), NEW b, NEW M,
         M \in SUBSET (1 .. Len(t)), Lowered(t, a, b, M)
  PROVE  M = {x \in 1 .. Len(t) : GapCounts(t, b)[x] # GapCounts(t, a)[x]}
<1> SUFFICES ASSUME NEW x \in 1 .. Len(t)
             PROVE  x \in M <=> GapCounts(t, b)[x] # GapCounts(t, a)[x]
  OBVIOUS
<1>1. PICK i \in Nat : i = GapCounts(t, a)[x]
  BY CountMeans
<1>2. GapCounts(t, b)[x] = i - (IF x \in M THEN 1 ELSE 0)
  BY <1>1 DEF Lowered
<1>3. (x \in M => GapCounts(t, b)[x] = i - 1) /\ (x \notin M => GapCounts(t, b)[x] = i - 0)
  BY <1>2
<1> QED BY <1>1, <1>3

(* One word escaped in s, a text between t and its escaped form.           *)
EscapeStep(t, w, s, u) ==
  LET e == GapCounts(t, At(t, s))
      f == GapCounts(t, At(t, u))
      M == {x \in 1 .. Len(t) : f[x] # e[x]}
  IN  /\ TakenPlaces(Findable(t, w, e), Len(w), M)
      /\ \A x \in 1 .. Len(t) : f[x] = e[x] + (IF x \in M THEN 1 ELSE 0)

UnescapeStep(t, w, s, u) ==
  LET e == GapCounts(t, At(t, s))
      f == GapCounts(t, At(t, u))
      M == {x \in 1 .. Len(t) : f[x] # e[x]}
  IN  /\ TakenPlaces(Erasable(t, w, e), Len(w), M)
      /\ \A x \in 1 .. Len(t) : f[x] = e[x] - (IF x \in M THEN 1 ELSE 0)

LEMMA EscapeSteps ==
  ASSUME WordsAssumption, NEW t \in Seq(Alphabet), NEW s, Spread(t, At(t, s), s),
         NEW w \in Seq(Alphabet), Len(w) > 0, NEW u, u = EscapeWord(s, w)
  PROVE  Spread(t, At(t, u), u) /\ EscapeStep(t, w, s, u)
<1> DEFINE a == At(t, s)
           e == GapCounts(t, a)
           F == Findable(t, w, e)
<1>1. PICK b, M : Spread(t, b, u) /\ TakenPlaces(F, Len(w), M) /\ Raised(t, a, b, M)
  BY EscapeWordMeans
<1>2. At(t, u) = b
  BY <1>1, AtMeans
<1>3. M \in SUBSET (1 .. Len(t))
  BY <1>1 DEF TakenPlaces, Findable
<1>4. M = {x \in 1 .. Len(t) : GapCounts(t, b)[x] # e[x]}
  <2> HIDE DEF a
  <2> QED BY <1>1, <1>3, RaisedThere DEF a
<1>5. \A x \in 1 .. Len(t) : GapCounts(t, b)[x] = e[x] + (IF x \in M THEN 1 ELSE 0)
  BY <1>1 DEF Raised
<1> HIDE DEF a, e, F
<1>6. EscapeStep(t, w, s, u) <=>
        (/\ TakenPlaces(F, Len(w), {x \in 1 .. Len(t) : GapCounts(t, b)[x] # e[x]})
         /\ \A x \in 1 .. Len(t) :
              GapCounts(t, b)[x] = e[x] + (IF x \in {y \in 1 .. Len(t) : GapCounts(t, b)[y] # e[y]}
                                          THEN 1 ELSE 0))
  BY <1>2 DEF EscapeStep, a, e, F
<1> QED BY <1>1, <1>2, <1>4, <1>5, <1>6

LEMMA UnescapeSteps ==
  ASSUME WordsAssumption, NEW t \in Seq(Alphabet), NEW s, Spread(t, At(t, s), s),
         NEW w \in Seq(Alphabet), Len(w) > 0, NEW u, u = UnescapeWord(s, w)
  PROVE  Spread(t, At(t, u), u) /\ UnescapeStep(t, w, s, u)
<1> DEFINE a == At(t, s)
           e == GapCounts(t, a)
           F == Erasable(t, w, e)
<1>1. PICK b, M : Spread(t, b, u) /\ TakenPlaces(F, Len(w), M) /\ Lowered(t, a, b, M)
  BY UnescapeWordMeans
<1>2. At(t, u) = b
  BY <1>1, AtMeans
<1>3. M \in SUBSET (1 .. Len(t))
  BY <1>1 DEF TakenPlaces, Erasable
<1>4. M = {x \in 1 .. Len(t) : GapCounts(t, b)[x] # e[x]}
  <2> HIDE DEF a
  <2> QED BY <1>1, <1>3, LoweredThere DEF a
<1>5. \A x \in 1 .. Len(t) : GapCounts(t, b)[x] = e[x] - (IF x \in M THEN 1 ELSE 0)
  BY <1>1 DEF Lowered
<1> HIDE DEF a, e, F
<1>6. UnescapeStep(t, w, s, u) <=>
        (/\ TakenPlaces(F, Len(w), {x \in 1 .. Len(t) : GapCounts(t, b)[x] # e[x]})
         /\ \A x \in 1 .. Len(t) :
              GapCounts(t, b)[x] = e[x] - (IF x \in {y \in 1 .. Len(t) : GapCounts(t, b)[y] # e[y]}
                                          THEN 1 ELSE 0))
  BY <1>2 DEF UnescapeStep, a, e, F
<1> QED BY <1>1, <1>2, <1>4, <1>5, <1>6

(* How many backslashes are behind each character after i words.           *)
CountsIn(t, E, n) == [i \in 0 .. n |-> GapCounts(t, At(t, E[i]))]
PlacesIn(t, e, n) == [i \in 1 .. n |-> {x \in 1 .. Len(t) : e[i][x] # e[i - 1][x]}]

(* Escaping and then unescaping a list of words is such a history.         *)
LEMMA EscapeHistory ==
  ASSUME WordsAssumption, NEW t \in Seq(Alphabet), NEW ws, WordsGood(ws)
  PROVE  History(t, ws,
                 CountsIn(t, EscapeWords(t, ws), Len(ws)),
                 CountsIn(t, UnescapeWords(Escaped(t, ws), ws), Len(ws)),
                 PlacesIn(t, CountsIn(t, EscapeWords(t, ws), Len(ws)), Len(ws)),
                 PlacesIn(t, CountsIn(t, UnescapeWords(Escaped(t, ws), ws), Len(ws)), Len(ws)))
         /\ Spread(t, At(t, Unescaped(Escaped(t, ws), ws)), Unescaped(Escaped(t, ws), ws))
<1>1. PICK n \in Nat : n = Len(ws)
  BY LenProperties DEF WordsGood
<1> DEFINE E == EscapeWords(t, ws)
           U == UnescapeWords(Escaped(t, ws), ws)
           e == CountsIn(t, E, n)
           u == CountsIn(t, U, n)
           M == PlacesIn(t, e, n)
           S == PlacesIn(t, u, n)
<1>2. E[0] = t /\ \A i \in 1 .. n : E[i] = EscapeWord(E[i - 1], ws[i])
  BY <1>1, EscapeWordsSteps
<1>3. Escaped(t, ws) = E[n]
  BY <1>1 DEF Escaped
<1>4. U[0] = E[n] /\ \A i \in 1 .. n : U[i] = UnescapeWord(U[i - 1], ws[i])
  <2> DEFINE q == Escaped(t, ws)
  <2> HIDE DEF q
  <2>1. /\ UnescapeWords(q, ws)[0] = q
        /\ \A i \in 1 .. n : UnescapeWords(q, ws)[i] = UnescapeWord(UnescapeWords(q, ws)[i - 1], ws[i])
    BY <1>1, UnescapeWordsSteps
  <2>2. U = UnescapeWords(q, ws) /\ q = E[n]
    BY <1>3 DEF q
  <2> HIDE DEF U, E
  <2> QED BY <2>1, <2>2
<1>5. Unescaped(Escaped(t, ws), ws) = U[n]
  BY <1>1 DEF Unescaped
<1>6. \A i \in 1 .. n : ws[i] \in Seq(Alphabet) /\ Len(ws[i]) > 0
  BY <1>1, WordHasCharacters
<1> HIDE DEF E, U
<1>7. \A i \in 0 .. n : e[i] = GapCounts(t, At(t, E[i])) /\ u[i] = GapCounts(t, At(t, U[i]))
  BY DEF CountsIn
<1>8. \A i \in 1 .. n : /\ M[i] = {x \in 1 .. Len(t) : e[i][x] # e[i - 1][x]}
                        /\ S[i] = {x \in 1 .. Len(t) : u[i][x] # u[i - 1][x]}
  <2> HIDE DEF e, u
  <2> QED BY DEF PlacesIn
<1> HIDE DEF e, u, M, S
<1>9. \A i \in 1 .. n : i \in 0 .. n /\ i - 1 \in 0 .. n
  OBVIOUS
<1>10. \A i \in 0 .. n : Spread(t, At(t, E[i]), E[i])
  <2> DEFINE T == {i \in 0 .. n : Spread(t, At(t, E[i]), E[i])}
  <2>1. 0 \in T
    BY <1>2, Untouched
  <2>2. ASSUME NEW i \in 1 .. n, i - 1 \in T PROVE i \in T
    <3>1. PICK p, q : p = E[i - 1] /\ q = E[i]
      OBVIOUS
    <3>2. Spread(t, At(t, p), p) /\ q = EscapeWord(p, ws[i])
      BY <1>2, <2>2, <3>1
    <3>3. Spread(t, At(t, q), q)
      BY <1>6, <3>2, EscapeSteps
    <3> QED BY <3>1, <3>3
  <2>3. 0 .. n \subseteq T
    <3> HIDE DEF T
    <3> QED BY <2>1, <2>2, UpTo
  <2> QED BY <2>3
<1>11. \A i \in 0 .. n : Spread(t, At(t, U[i]), U[i])
  <2> DEFINE T == {i \in 0 .. n : Spread(t, At(t, U[i]), U[i])}
  <2>1. 0 \in T
    BY <1>4, <1>10
  <2>2. ASSUME NEW i \in 1 .. n, i - 1 \in T PROVE i \in T
    <3>1. PICK p, q : p = U[i - 1] /\ q = U[i]
      OBVIOUS
    <3>2. Spread(t, At(t, p), p) /\ q = UnescapeWord(p, ws[i])
      BY <1>4, <2>2, <3>1
    <3>3. Spread(t, At(t, q), q)
      BY <1>6, <3>2, UnescapeSteps
    <3> QED BY <3>1, <3>3
  <2>3. 0 .. n \subseteq T
    <3> HIDE DEF T
    <3> QED BY <2>1, <2>2, UpTo
  <2> QED BY <2>3
<1>12. \A i \in 1 .. n : EscapeStep(t, ws[i], E[i - 1], E[i])
  <2> TAKE i \in 1 .. n
  <2>1. PICK p, q : p = E[i - 1] /\ q = E[i]
    OBVIOUS
  <2>2. Spread(t, At(t, p), p) /\ q = EscapeWord(p, ws[i])
    BY <1>2, <1>9, <1>10, <2>1
  <2>3. EscapeStep(t, ws[i], p, q)
    BY <1>6, <2>2, EscapeSteps
  <2> QED BY <2>1, <2>3
<1>13. \A i \in 1 .. n : UnescapeStep(t, ws[i], U[i - 1], U[i])
  <2> TAKE i \in 1 .. n
  <2>1. PICK p, q : p = U[i - 1] /\ q = U[i]
    OBVIOUS
  <2>2. Spread(t, At(t, p), p) /\ q = UnescapeWord(p, ws[i])
    BY <1>4, <1>9, <1>11, <2>1
  <2>3. UnescapeStep(t, ws[i], p, q)
    BY <1>6, <2>2, UnescapeSteps
  <2> QED BY <2>1, <2>3
<1>14. BackslashCounts(t, ws, e, u)
  <2>1. \A i \in 0 .. n, x \in 1 .. Len(t) : e[i][x] \in Nat /\ u[i][x] \in Nat
    BY <1>7, <1>10, <1>11, CountMeans
  <2>2. 0 \in 0 .. n /\ n \in 0 .. n
    OBVIOUS
  <2>3. \A x \in 1 .. Len(t) : e[0][x] = 0
    BY <1>2, <1>7, <2>2, Untouched
  <2>4. u[0] = e[n]
    BY <1>4, <1>7, <2>2
  <2> QED BY <1>1, <2>1, <2>3, <2>4 DEF BackslashCounts
<1>15. EscapedAt(t, ws, e, M)
  <2>1. ASSUME NEW i \in 1 .. n
        PROVE  /\ TakenPlaces(Findable(t, ws[i], e[i - 1]), Len(ws[i]), M[i])
               /\ \A x \in 1 .. Len(t) : e[i][x] = e[i - 1][x] + (IF x \in M[i] THEN 1 ELSE 0)
    <3>1. EscapeStep(t, ws[i], E[i - 1], E[i])
      BY <1>12
    <3>2. e[i] = GapCounts(t, At(t, E[i])) /\ e[i - 1] = GapCounts(t, At(t, E[i - 1]))
      BY <1>7, <1>9
    <3>3. M[i] = {x \in 1 .. Len(t) : e[i][x] # e[i - 1][x]}
      BY <1>8
    <3> QED BY <3>1, <3>2, <3>3 DEF EscapeStep
  <2> QED BY <1>1, <2>1 DEF EscapedAt
<1>16. UnescapedAt(t, ws, u, S)
  <2>1. ASSUME NEW i \in 1 .. n
        PROVE  /\ TakenPlaces(Erasable(t, ws[i], u[i - 1]), Len(ws[i]), S[i])
               /\ \A x \in 1 .. Len(t) : u[i][x] = u[i - 1][x] - (IF x \in S[i] THEN 1 ELSE 0)
    <3>1. UnescapeStep(t, ws[i], U[i - 1], U[i])
      BY <1>13
    <3>2. u[i] = GapCounts(t, At(t, U[i])) /\ u[i - 1] = GapCounts(t, At(t, U[i - 1]))
      BY <1>7, <1>9
    <3>3. S[i] = {x \in 1 .. Len(t) : u[i][x] # u[i - 1][x]}
      BY <1>8
    <3> QED BY <3>1, <3>2, <3>3 DEF UnescapeStep
  <2> QED BY <1>1, <2>1 DEF UnescapedAt
<1>17. History(t, ws, e, u, M, S)
  BY <1>14, <1>15, <1>16 DEF History
<1>18. Spread(t, At(t, U[n]), U[n])
  BY <1>11
<1> QED BY <1>1, <1>5, <1>17, <1>18 DEF e, u, M, S, E, U

(* So no backslash is left, and the text is back.                          *)
LEMMA EscapeUndone ==
  ASSUME WordsAssumption, NEW t \in Seq(Alphabet), NEW ws, WordsGood(ws)
  PROVE  Unescaped(Escaped(t, ws), ws) = t
<1>1. PICK n \in Nat : n = Len(ws)
  BY LenProperties DEF WordsGood
<1> DEFINE U == UnescapeWords(Escaped(t, ws), ws)
           u == CountsIn(t, U, Len(ws))
           v == Unescaped(Escaped(t, ws), ws)
<1>2. \A x \in 1 .. Len(t) : u[Len(ws)][x] = 0
  BY EscapeHistory, NoneIsLeft
<1>3. v = U[n]
  BY <1>1 DEF Unescaped
<1>4. u[n] = GapCounts(t, At(t, U[n]))
  BY <1>1 DEF CountsIn
<1>5. Spread(t, At(t, v), v)
  BY EscapeHistory
<1> HIDE DEF U, u, v
<1>6. \A x \in 1 .. Len(t) : GapCounts(t, At(t, v))[x] = 0
  BY <1>1, <1>2, <1>3, <1>4
<1>7. v = t
  BY <1>5, <1>6, TouchedNowhere
<1> QED BY <1>7 DEF v

(* unescape() gives back every text that escape() was given, for all lists *)
(* of words of which none splits an earlier one: they may overlap, contain *)
(* each other, repeat, and be found where a backslash was erased           *)
(* (lexUtils.h:199-244).                                                   *)
THEOREM EscapeTheorem == LexSpec => []EscapeRestoresText
<1>1. LexInv => EscapeRestoresText
  <2> SUFFICES ASSUME LexInv, plain # Nothing PROVE plain = input
    BY DEF EscapeRestoresText
  <2>1. input \in Seq(Alphabet)
    BY InputsAreTexts DEF LexInv
  <2>2. words \in WordLists /\ plain = Unescaped(Escaped(input, words), words)
    BY DEF LexInv, EscapeInv
  <2>3. WordsGood(words)
    BY <2>2, WordsAssumption DEF WordsAssumption, WordsGood
  <2> QED BY <2>1, <2>2, <2>3, WordsAssumption, EscapeUndone
<1> QED BY <1>1, LexInvHolds, PTL

=============================================================================
