--------------------------- MODULE SpliterProofs ---------------------------
(***************************************************************************)
(* Proofs about the file splitter, for every buffer, file and partition    *)
(* size.  What its buffer does is known from CircularBufferProofs.         *)
(***************************************************************************)
EXTENDS Spliter, SequenceTheorems, WellFoundedInduction, TLAPS

Ring == INSTANCE CircularBufferProofs

Running == pc \in {"loop", "copy", "write", "seek"}
InRound == pc \in {"write", "seek"}

(* Characters in the buffer that were not written yet, and the number of   *)
(* the last one before them.                                               *)
Unread == Buffer!Dist(cur, end)
Place == taken - Unread

(* What one round should write, and what it writes.                        *)
RoundSize == IF InTail THEN TailPart ELSE cap
RoundText == Smaller(RoundSize, Unread)

(* What the copy loop writes for a partition, and what it should have      *)
(* written after `pass' rounds.                                            *)
PartSize == iterCount * cap + TailPart
Copied == IF pass <= iterCount THEN pass * cap ELSE PartSize

Opened == starts[Len(starts)]

(* The stream has ended and all that was read from it is written.          *)
Exhausted == ~good /\ Unread = 0

-----------------------------------------------------------------------------
(* The inductive invariant.                                                *)

(* The buffer is a real one, and its read position is in its window.       *)
RingIsSound ==
  /\ Buffer!TypeOK /\ Buffer!CursorsInWindow
  /\ cap > 0 /\ alloc > 0

(* A call that is running, or has opened a partition, works with its own   *)
(* parameters.                                                             *)
CallIsSound ==
  /\ size \in Nat \ {0} /\ iterCount \in Nat
  /\ Running => calls > 0
  /\ Running \/ starts # <<>> =>
       /\ size \in PartSizes /\ fileSize \in FileSizes
       /\ segNum = SegNum[fileSize][size]
       /\ iterCount = IterCount[size][cap]

(* The stream is in this file; when it has ended, all that was in the file *)
(* throughout the call has been read.                                      *)
StreamInFile ==
  /\ base \in Nat /\ base <= taken
  /\ supplied <= calls * 2^Width
  /\ Running => base + 2^Width <= calls * 2^Width
  /\ least \in Int /\ base + least <= supplied
  /\ ~good => base + least <= taken
  /\ Running => least <= fileSize

(* Between rounds the buffer has room; in a round it starts at the read    *)
(* position, and is full unless the stream has ended.                      *)
RoundsHaveRoom ==
  /\ ~InRound => Unread < cap
  /\ InRound => RoundLeft /\ beg = cur /\ (good => Unread = cap)

Inv ==
  /\ TypeOK /\ RingIsSound /\ CallIsSound /\ StreamInFile /\ RoundsHaveRoom

(* The buffer holds what comes next in the file, and what was written ends *)
(* where it begins.                                                        *)
UnreadIsFile ==
  clean =>
    /\ \A i \in 0 .. Unread - 1 : slots[Buffer!At(cur, i)] = Place + 1 + i
    /\ pc \in {"loop", "copy", "write"} => base + Len(written) = Place
    /\ pc = "seek" => base + Len(written) = Place + RoundText

(* The last partition has got n characters, or all that was left.          *)
Holds(n) ==
  \/ Len(written) = Opened + n
  \/ Exhausted /\ Len(written) <= Opened + n

(* Every partition was closed after PartSize characters, or at the end of  *)
(* the stream; the last one has what its rounds should have brought.       *)
PartsAreCut ==
  /\ \A n \in 1 .. Len(starts) : starts[n] <= Len(written)
  /\ \A n \in 1 .. Len(starts) - 1 :
       \/ starts[n + 1] = starts[n] + PartSize
       \/ /\ Exhausted /\ starts[n + 1] = Len(written)
          /\ starts[n + 1] <= starts[n] + PartSize
  /\ pc = "loop" /\ starts # <<>> => Holds(PartSize)
  /\ pc \in {"copy", "write", "seek"} => starts # <<>>
  /\ pc \in {"copy", "write"} => Holds(Copied)
  /\ pc = "seek" =>
       \/ Len(written) = Opened + Copied + RoundSize
       \/ /\ ~good /\ RoundText = Unread
          /\ Len(written) <= Opened + Copied + RoundSize

(* `part' whole partitions are written, or the stream has ended.           *)
PartsAreCounted ==
  /\ pc = "loop" => Len(written) >= part * PartSize \/ Exhausted
  /\ pc \in {"copy", "write", "seek"} =>
       Opened >= part * PartSize \/ Exhausted

-----------------------------------------------------------------------------
(* The buffer of the model and the one of CircularBufferProofs.            *)

LEMMA RingBounds ==
  /\ SegmentSize \in Nat \ {0} /\ MaxSize = SegmentSize
  /\ MaxInput \in Nat /\ MaxOffset \in Nat
BY SplitAssumption, PowerAssumption DEF MaxSize, MaxInput, MaxOffset

(* The buffer of the model and the one of the proofs are the same.         *)
LEMMA SameRing ==
  /\ \A a, b : Buffer!Dist(a, b) = Ring!Dist(a, b)
  /\ \A a, i : Buffer!At(a, i) = Ring!At(a, i)
  /\ \A c, k : Buffer!Advance(c, k) = Ring!Advance(c, k)
BY DEF Buffer!Dist, Ring!Dist, Buffer!At, Ring!At,
       Buffer!Advance, Ring!Advance, Buffer!Smaller, Ring!Smaller

LEMMA SameTypes == Buffer!TypeOK <=> Ring!TypeOK
BY DEF Buffer!TypeOK, Ring!TypeOK, Buffer!Slot, Ring!Slot,
       Buffer!Dangling, Ring!Dangling, Buffer!Outcomes, Ring!Outcomes

LEMMA SameCursors == Buffer!CursorsInWindow <=> Ring!CursorsInWindow
BY SameRing DEF Buffer!CursorsInWindow, Ring!CursorsInWindow

LEMMA SameFill == Buffer!TryFill => Ring!TryFill
<1> USE DEF Buffer!Done, Ring!Done, Buffer!Underflow, Ring!Underflow,
            Buffer!Overflow, Ring!Overflow, Buffer!bufVars, Ring!bufVars,
            Buffer!streamVars, Ring!streamVars
<1>1. Buffer!FillThrows => Ring!FillThrows
  BY DEF Buffer!FillThrows, Ring!FillThrows
<1>2. Buffer!FillStarts => Ring!FillStarts
  BY DEF Buffer!FillStarts, Ring!FillStarts
<1>3. /\ \A a, b : Buffer!Smaller(a, b) = Ring!Smaller(a, b)
      /\ \A n : Buffer!StaysGood(n) <=> Ring!StaysGood(n)
  BY DEF Buffer!Smaller, Ring!Smaller, Buffer!StaysGood, Ring!StaysGood
<1>4. \A n : Buffer!Got(n) = Ring!Got(n)
  BY <1>3 DEF Buffer!Got, Ring!Got
<1>5. \A s, a, n, t : Buffer!Stored(s, a, n, t) = Ring!Stored(s, a, n, t)
  BY DEF Buffer!Stored, Ring!Stored, Buffer!Slot, Ring!Slot
<1>6. Buffer!Garbage = Ring!Garbage
  BY DEF Buffer!Garbage, Ring!Garbage
<1>7. Buffer!FillGap => Ring!FillGap
  BY <1>2, <1>3, <1>4, <1>5 DEF Buffer!FillGap, Ring!FillGap
<1>8. Buffer!FillTail => Ring!FillTail
  BY <1>2, <1>3, <1>4, <1>5 DEF Buffer!FillTail, Ring!FillTail
<1>9. Buffer!FillTailThenEof => Ring!FillTailThenEof
  BY <1>2, <1>3, <1>4, <1>5, <1>6
     DEF Buffer!FillTailThenEof, Ring!FillTailThenEof
<1>10. Buffer!FillWrap => Ring!FillWrap
  BY <1>2, <1>3, <1>4, <1>5 DEF Buffer!FillWrap, Ring!FillWrap
<1> QED BY <1>1, <1>7, <1>8, <1>9, <1>10 DEF Buffer!TryFill, Ring!TryFill

-----------------------------------------------------------------------------
(* What the steps of the copy loop do to the buffer.                       *)

LEMMA Numbers ==
  ASSUME RingIsSound
  PROVE  /\ cap \in Nat \ {0} /\ cap <= SegmentSize
         /\ beg \in 0 .. cap /\ cur \in 0 .. cap /\ end \in 0 .. cap
         /\ taken \in Nat /\ supplied \in Nat /\ MaxInput \in Nat
         /\ taken <= supplied /\ supplied <= MaxInput
         /\ slots \in [Buffer!Slot -> 0 .. MaxInput]
         /\ 0 .. cap \subseteq Buffer!Slot
         /\ good \in BOOLEAN
BY RingBounds DEF RingIsSound, Buffer!TypeOK, Buffer!Slot

LEMMA UnreadRange ==
  ASSUME RingIsSound
  PROVE  /\ Unread \in 0 .. cap
         /\ Unread = 0 <=> cur = end
         /\ Buffer!At(cur, Unread) = end
         /\ Buffer!Dist(beg, cur) \in 0 .. cap
         /\ Buffer!Dist(beg, end) \in 0 .. cap
         /\ Buffer!Dist(beg, cur) + Unread = Buffer!Dist(beg, end)
         /\ Place \in 0 .. taken
<1>1. /\ Buffer!Dist(beg, cur) + Unread = Buffer!Dist(beg, end)
      /\ Buffer!Dist(beg, end) <= taken
  BY DEF RingIsSound, Buffer!CursorsInWindow, Unread
<1>2. /\ Unread \in 0 .. cap
      /\ Unread = 0 <=> cur = end
      /\ Buffer!At(cur, Unread) = end
      /\ Buffer!Dist(beg, cur) \in 0 .. cap
      /\ Buffer!Dist(beg, end) \in 0 .. cap
  BY Numbers DEF Unread, Buffer!Dist, Buffer!At
<1>3. Place \in 0 .. taken
  BY <1>1, <1>2, Numbers DEF Place
<1> QED BY <1>1, <1>2, <1>3

(* A fill that finds room appends what the stream has of that room.        *)
FillBrings(n) ==
  /\ n = IF good THEN Smaller(cap - Unread, supplied - taken) ELSE 0
  /\ good' = (good /\ supplied - taken >= cap - Unread)
  /\ beg' = cur /\ cur' = cur /\ cap' = cap /\ supplied' = supplied
  /\ taken' = taken + n /\ taken' <= supplied
  /\ Unread' = Unread + n
  /\ \A i \in 0 .. Unread - 1 :
       slots'[Buffer!At(cur, i)] = slots[Buffer!At(cur, i)]
  /\ \A i \in 0 .. n - 1 :
       slots'[Buffer!At(cur, Unread + i)] = taken + 1 + i

LEMMA FillIsNotRefused ==
  ASSUME RingIsSound, Unread < cap
  PROVE  ~Buffer!Underflow /\ ~Buffer!Overflow
<1>1. ~Buffer!Underflow
  BY DEF RingIsSound, Buffer!Underflow
<1>2. ~Buffer!Overflow
  BY Numbers DEF Buffer!Overflow, Unread, Buffer!Dist
<1> QED BY <1>1, <1>2

LEMMA FillMeaning ==
  ASSUME RingIsSound, Unread < cap, Buffer!TryFill
  PROVE  RingIsSound' /\ \E n \in Nat : FillBrings(n)
<1>1. Ring!TypeOK /\ Ring!TryFill
  BY SameTypes, SameFill DEF RingIsSound
<1>2. ~Ring!FillThrows
  BY FillIsNotRefused
     DEF Ring!FillThrows, Ring!Underflow, Ring!Overflow,
         Buffer!Underflow, Buffer!Overflow
<1>3. PICK n \in Nat : Ring!FillMeans(n) /\ Ring!FillAmount(n)
  BY <1>1, <1>2, RingBounds, Ring!TryFillAmount
<1>4. /\ beg' = cur /\ cur' = cur /\ cap' = cap /\ alloc' = alloc
      /\ supplied' = supplied /\ good' \in BOOLEAN
      /\ taken' = taken + n /\ taken' <= supplied
      /\ end' \in 0 .. cap
      /\ slots' \in [Ring!Slot -> 0 .. MaxInput]
      /\ it' = it /\ fresh' = (fresh /\ cur = beg)
      /\ ret' = Ring!Done("tryfill", 0)
  BY <1>3 DEF Ring!FillMeans
<1>5. Unread' = Unread + n
  <2>1. Ring!Dist(cur, end)' = Ring!Dist(cur, end) + n
    BY <1>3 DEF Ring!FillMeans
  <2> QED BY <2>1 DEF Unread, Buffer!Dist, Ring!Dist
<1>6. n = IF good THEN Smaller(cap - Unread, supplied - taken) ELSE 0
  BY <1>3, SameRing DEF Ring!FillAmount, Ring!Smaller, Smaller, Unread
<1>7. good' = (good /\ supplied - taken >= cap - Unread)
  BY <1>3, SameRing DEF Ring!FillAmount, Ring!StaysGood, Unread
<1>8. \A i \in 0 .. Unread - 1 :
        slots'[Buffer!At(cur, i)] = slots[Buffer!At(cur, i)]
  BY <1>3, SameRing DEF Ring!FillMeans, Unread
<1>9. \A i \in 0 .. n - 1 :
        slots'[Buffer!At(cur, Unread + i)] = taken + 1 + i
  BY <1>3, SameRing DEF Ring!FillMeans, Unread
<1>10. FillBrings(n)
  BY <1>4, <1>5, <1>6, <1>7, <1>8, <1>9 DEF FillBrings
<1>11. Buffer!TypeOK'
  <2>1. slots' \in [Buffer!Slot -> 0 .. MaxInput]
    BY <1>4 DEF Ring!Slot, Buffer!Slot
  <2>2. ret' \in [op : Buffer!Outcomes, n : Int]
    BY <1>4 DEF Ring!Done, Buffer!Outcomes
  <2>3. taken' \in 0 .. supplied'
    BY <1>3, <1>4, Numbers
  <2>4. /\ alloc' \in 0 .. MaxSize + 1
        /\ cap' \in 0 .. MaxSize /\ (cap' < alloc' \/ cap' = 0)
        /\ supplied' \in 0 .. MaxInput
        /\ it' \in [beg : 0 .. Buffer!Dangling, cur : Buffer!Slot,
                    at : 0 .. MaxInput]
        /\ fresh' \in BOOLEAN
    BY <1>4 DEF RingIsSound, Buffer!TypeOK
  <2>5. beg' \in 0 .. cap' /\ cur' \in 0 .. cap' /\ end' \in 0 .. cap'
    BY <1>4, Numbers
  <2> QED BY <1>4, <2>1, <2>2, <2>3, <2>4, <2>5 DEF Buffer!TypeOK
<1>12. Buffer!CursorsInWindow'
  <2>1. /\ Buffer!Dist(beg, cur)' = 0
        /\ Buffer!Dist(beg, end)' = Unread'
        /\ Buffer!Dist(cur, end)' = Unread'
    BY <1>4, Numbers DEF Buffer!Dist, Unread
  <2>2. Unread + n \in Nat /\ Unread + n <= taken + n
    BY <1>3, UnreadRange, Numbers DEF Place
  <2>3. /\ Buffer!Dist(beg, cur)' + Buffer!Dist(cur, end)'
             = Buffer!Dist(beg, end)'
        /\ Buffer!Dist(beg, end)' <= taken'
    BY <1>4, <1>5, <2>1, <2>2
  <2> QED BY <2>3 DEF Buffer!CursorsInWindow
<1> QED BY <1>3, <1>4, <1>10, <1>11, <1>12 DEF RingIsSound

(* Skipping k characters skips what there is of them.                      *)
LEMMA AdvanceMeaning ==
  ASSUME RingIsSound, NEW k \in Nat
  PROVE  /\ Buffer!Advance(cur, k) = Buffer!At(cur, Smaller(k, Unread))
         /\ Buffer!Advance(cur, k) \in 0 .. cap
         /\ Buffer!Dist(Buffer!Advance(cur, k), end)
              = Unread - Smaller(k, Unread)
         /\ Buffer!Dist(beg, Buffer!Advance(cur, k))
              = Buffer!Dist(beg, cur) + Smaller(k, Unread)
<1>1. Buffer!Dist(beg, cur) + Buffer!Dist(cur, end) = Buffer!Dist(beg, end)
  BY DEF RingIsSound, Buffer!CursorsInWindow
<1> QED BY <1>1, Numbers
        DEF Buffer!Advance, Buffer!At, Buffer!Dist, Unread, Smaller,
            Buffer!Smaller

LEMMA SeekMeaning ==
  ASSUME RingIsSound, NEW k \in Nat, Buffer!SeekOff(k)
  PROVE  /\ RingIsSound'
         /\ cur' = Buffer!At(cur, Smaller(k, Unread))
         /\ Unread' = Unread - Smaller(k, Unread)
         /\ UNCHANGED <<alloc, cap, beg, end, slots, taken, supplied, good>>
<1>1. /\ cur' = Buffer!Advance(cur, k)
      /\ ret' = Buffer!Done("seekoff",
                   Buffer!Dist(beg, cur') - Buffer!Dist(beg, cur))
      /\ UNCHANGED <<alloc, cap, beg, end, slots, taken, supplied, good, it,
                     fresh>>
  BY DEF Buffer!SeekOff, Buffer!streamVars
<1>2. Unread' = Buffer!Dist(cur', end)
  BY <1>1 DEF Unread, Buffer!Dist
<1>3. Smaller(k, Unread) \in 0 .. Unread /\ Unread \in Nat
  BY UnreadRange DEF Smaller
<1>4. Buffer!TypeOK'
  <2>1. ret' \in [op : Buffer!Outcomes, n : Int]
    BY <1>1, <1>3, AdvanceMeaning, UnreadRange DEF Buffer!Done, Buffer!Outcomes
  <2> QED BY <2>1, <1>1, AdvanceMeaning DEF Buffer!TypeOK, RingIsSound
<1>5. Buffer!CursorsInWindow'
  <2>1. /\ Buffer!Dist(beg, cur)' = Buffer!Dist(beg, cur')
        /\ Buffer!Dist(beg, end)' = Buffer!Dist(beg, end)
        /\ Buffer!Dist(cur, end)' = Buffer!Dist(cur', end)
    BY <1>1 DEF Buffer!Dist
  <2>2. Buffer!Dist(beg, end) <= taken
    BY DEF RingIsSound, Buffer!CursorsInWindow
  <2> QED BY <1>1, <1>3, <2>1, <2>2, AdvanceMeaning, UnreadRange
          DEF Buffer!CursorsInWindow
<1> QED BY <1>1, <1>2, <1>4, <1>5, AdvanceMeaning DEF RingIsSound

(* A slice of an array, as a sequence.                                     *)
LEMMA ArrayIsSeq ==
  ASSUME NEW S, NEW n \in Nat, NEW f \in [1 .. n -> S]
  PROVE  f \in Seq(S) /\ Len(f) = n
<1>1. f \in Seq(S)
  BY SeqDef
<1>2. DOMAIN f = 1 .. n
  OBVIOUS
<1>3. DOMAIN f = 1 .. Len(f) /\ Len(f) \in Nat
  BY <1>1, LenProperties
<1> QED BY <1>1, <1>2, <1>3

(* What operator<< writes are the slots from the read position on.         *)
LEMMA TextMeaning ==
  ASSUME RingIsSound, NEW n \in 0 .. Unread
  PROVE  LET text == Buffer!Text(cur, Buffer!At(cur, n))
         IN  /\ text \in Seq(0 .. MaxInput) /\ Len(text) = n
             /\ \A i \in 1 .. n : text[i] = slots[Buffer!At(cur, i - 1)]
<1> DEFINE last == Buffer!At(cur, n)
           text == Buffer!Text(cur, last)
           all == [i \in 1 .. last |-> slots[i - 1]]
           tail == [i \in 1 .. cap - cur + 1 |-> slots[cur + i - 1]]
<1>1. /\ n \in Nat /\ n <= cap /\ last \in 0 .. cap
      /\ cur + n <= cap => last = cur + n
      /\ cur + n > cap => last = cur + n - cap - 1
  BY Numbers, UnreadRange DEF Buffer!At
<1>2. \A x \in 0 .. cap : slots[x] \in 0 .. MaxInput
  BY Numbers
<1>3. /\ cap \in Nat /\ cur \in 0 .. cap /\ last \in Nat
      /\ cap - cur + 1 \in Nat
  BY <1>1, Numbers
<1>4. \A i \in 1 .. n : Buffer!At(cur, i - 1) =
        IF cur + (i - 1) <= cap THEN cur + (i - 1) ELSE cur + (i - 1) - cap - 1
  BY DEF Buffer!At
<1>5. text = IF last >= cur THEN SubSeq(all, cur + 1, last) ELSE tail \o all
  BY DEF Buffer!Text
<1>6. all \in [1 .. last -> 0 .. MaxInput]
  BY <1>1, <1>2, <1>3
<1>7. tail \in [1 .. cap - cur + 1 -> 0 .. MaxInput]
  BY <1>1, <1>2, <1>3
<1>8. /\ \A i \in 1 .. cap - cur + 1 : tail[i] = slots[cur + i - 1]
      /\ \A i \in 1 .. last : all[i] = slots[i - 1]
  OBVIOUS
<1> HIDE DEF all, tail, last, text
<1>9. all \in Seq(0 .. MaxInput) /\ Len(all) = last
  BY <1>3, <1>6, ArrayIsSeq
<1>10. tail \in Seq(0 .. MaxInput) /\ Len(tail) = cap - cur + 1
  BY <1>3, <1>7, ArrayIsSeq
<1>11. CASE cur + n <= cap
  <2>1. text = SubSeq(all, cur + 1, last) /\ last = cur + n
    BY <1>1, <1>3, <1>5, <1>11
  <2>2. \A i \in cur + 1 .. last : all[i] \in 0 .. MaxInput
    BY <1>3, <1>6
  <2>3. /\ text \in Seq(0 .. MaxInput)
        /\ Len(text) = IF cur + 1 <= last THEN last - (cur + 1) + 1 ELSE 0
        /\ \A i \in 1 .. last - (cur + 1) + 1 : text[i] = all[cur + 1 + i - 1]
    <3>1. cur + 1 \in Int /\ last \in Int
      BY <1>3
    <3> QED BY <2>1, <2>2, <3>1, SubSeqProperties
  <2>4. Len(text) = n
    BY <1>1, <1>3, <2>1, <2>3
  <2>5. ASSUME NEW i \in 1 .. n
        PROVE  text[i] = slots[Buffer!At(cur, i - 1)]
    <3>1. text[i] = all[cur + i]
      BY <1>1, <1>3, <2>1, <2>3
    <3>2. cur + i \in 1 .. last
      BY <1>1, <1>3, <2>1
    <3>3. all[cur + i] = slots[cur + i - 1]
      <4> DEFINE j == cur + i
      <4>1. j \in 1 .. last
        BY <3>2
      <4> HIDE DEF j
      <4>2. all[j] = slots[j - 1]
        BY <4>1, <1>8
      <4>3. j - 1 = cur + i - 1
        BY <1>1, <1>3 DEF j
      <4> QED BY <4>2, <4>3 DEF j
    <3>4. Buffer!At(cur, i - 1) = cur + i - 1
      BY <1>1, <1>3, <1>4, <1>11
    <3> QED BY <3>1, <3>3, <3>4
  <2> QED BY <2>3, <2>4, <2>5 DEF text, last
<1>12. CASE cur + n > cap
  <2>1. text = tail \o all /\ last = cur + n - cap - 1
    BY <1>1, <1>3, <1>5, <1>12
  <2>2. /\ text \in Seq(0 .. MaxInput)
        /\ Len(text) = Len(tail) + Len(all)
        /\ \A i \in 1 .. Len(tail) + Len(all) :
             text[i] = IF i <= Len(tail) THEN tail[i] ELSE all[i - Len(tail)]
    BY <1>9, <1>10, <2>1, ConcatProperties
  <2>3. Len(text) = n
    BY <1>1, <1>3, <1>9, <1>10, <2>1, <2>2
  <2>4. ASSUME NEW i \in 1 .. n
        PROVE  text[i] = slots[Buffer!At(cur, i - 1)]
    <3>1. text[i] = IF i <= cap - cur + 1 THEN tail[i]
                    ELSE all[i - (cap - cur + 1)]
      BY <1>1, <1>3, <1>9, <1>10, <2>1, <2>2
    <3>2. i <= cap - cur + 1 => tail[i] = slots[cur + i - 1]
      BY <1>1, <1>3, <1>8
    <3>3. ~(i <= cap - cur + 1) =>
            all[i - (cap - cur + 1)] = slots[i - (cap - cur + 1) - 1]
      <4>1. ~(i <= cap - cur + 1) => i - (cap - cur + 1) \in 1 .. last
        BY <1>1, <1>3, <2>1
      <4> QED BY <4>1, <1>8
    <3>4. Buffer!At(cur, i - 1) = IF i <= cap - cur + 1 THEN cur + i - 1
                                  ELSE i - (cap - cur + 1) - 1
      BY <1>1, <1>3, <1>4
    <3> QED BY <3>1, <3>2, <3>3, <3>4
  <2> QED BY <2>2, <2>3, <2>4 DEF text, last
<1> QED BY <1>1, <1>3, <1>11, <1>12

-----------------------------------------------------------------------------
(* Float arithmetic.                                                       *)

LEMMA LeastOf ==
  ASSUME NEW T, T \subseteq Nat, T # {}
  PROVE  \E x \in T : \A y \in T : x <= y
<1>1. IsWellFoundedOn(OpToRel(<, Nat), Nat)
  BY NatLessThanWellFounded
<1>2. PICK x \in T : \A y \in T : ~ (<<y, x>> \in OpToRel(<, Nat))
  BY <1>1, WFMin
<1>3. \A y \in T : y < x => <<y, x>> \in OpToRel(<, Nat)
  BY DEF OpToRel
<1>4. ASSUME NEW y \in T PROVE x <= y
  <2>1. ~(y < x)
    BY <1>2, <1>3
  <2>2. x \in Nat /\ y \in Nat
    OBVIOUS
  <2> QED BY <2>1, <2>2
<1> QED BY <1>4

(* The scale k at which x/b is rounded: its mantissa just fits.            *)
ScaleOf(x, b, k) ==
  /\ x < b * 2^(FloatBits + k)
  /\ k = 0 \/ x >= b * 2^(FloatBits + k - 1)

LEMMA ScaleExists ==
  ASSUME NEW x \in Nat, NEW b \in Nat,
         x < b * 2^(2 * (Width + FloatBits))
  PROVE  \E k \in 0 .. 2 * Width + FloatBits : ScaleOf(x, b, k)
<1> DEFINE top == 2 * Width + FloatBits
           fits == {k \in 0 .. top : x < b * 2^(FloatBits + k)}
<1>1. FloatBits \in Nat /\ Width \in Nat /\ top \in Nat
  BY SplitAssumption
<1>2. FloatBits + top = 2 * (Width + FloatBits)
  BY <1>1
<1>3. top \in fits
  BY <1>1, <1>2
<1>4. PICK k \in fits : \A j \in fits : k <= j
  <2>1. fits \subseteq 0 .. top
    OBVIOUS
  <2> HIDE DEF fits
  <2>2. fits \subseteq Nat
    BY <1>1, <2>1
  <2>3. fits # {}
    BY <1>3
  <2> QED BY <2>2, <2>3, LeastOf
<1>5. k \in 0 .. top /\ x < b * 2^(FloatBits + k)
  OBVIOUS
<1>6. ASSUME k # 0 PROVE x >= b * 2^(FloatBits + k - 1)
  <2>1. k - 1 \in 0 .. top /\ k - 1 \notin fits
    BY <1>1, <1>4, <1>5, <1>6
  <2>2. ~(x < b * 2^(FloatBits + (k - 1)))
    BY <2>1
  <2>3. /\ FloatBits + (k - 1) \in 0 .. 2 * (Width + FloatBits)
        /\ FloatBits + (k - 1) = FloatBits + k - 1
    BY <1>1, <1>2, <1>5, <1>6
  <2>4. 2^(FloatBits + (k - 1)) \in Nat
    BY <2>3, PowerAssumption
  <2> DEFINE w == 2^(FloatBits + (k - 1))
  <2>5. w \in Nat /\ ~(x < b * w) /\ w = 2^(FloatBits + k - 1)
    BY <2>2, <2>3, <2>4
  <2> HIDE DEF w
  <2>6. b * w \in Nat
    BY <2>5
  <2>7. x >= b * w
    BY <2>5, <2>6
  <2> QED BY <2>5, <2>7
<1> QED BY <1>5, <1>6 DEF ScaleOf

(* Rounding is to a neighbouring multiple of 2^k, up only when x/b is at   *)
(* least halfway there.                                                    *)
LEMMA RoundedMeaning ==
  ASSUME NEW x \in Nat, NEW b \in Nat \ {0},
         x < b * 2^(2 * (Width + FloatBits))
  PROVE  \E k \in 0 .. 2 * Width + FloatBits, q \in Nat, r \in Nat, up \in {0, 1} :
           /\ ScaleOf(x, b, k)
           /\ x = (b * 2^k) * q + r /\ r < b * 2^k
           /\ up = 1 => 2 * r >= b * 2^k
           /\ Rounded(x, b) = (q + up) * 2^k
<1> DEFINE k == CHOOSE e \in 0 .. 2 * Width + FloatBits :
                   /\ x < b * 2^(FloatBits + e)
                   /\ e = 0 \/ x >= b * 2^(FloatBits + e - 1)
           d == b * 2^k
           q == x \div d
           r == x % d
           up == IF 2 * r > d \/ (2 * r = d /\ q % 2 = 1) THEN 1 ELSE 0
<1>1. k \in 0 .. 2 * Width + FloatBits /\ ScaleOf(x, b, k)
  BY ScaleExists DEF ScaleOf
<1>2. 2^k \in Nat \ {0}
  <2>1. k \in 0 .. 2 * (Width + FloatBits)
    BY <1>1, SplitAssumption
  <2> QED BY <2>1, PowerAssumption
<1>3. Rounded(x, b) = (q + up) * 2^k
  <2>1. Rounded(x, b) =
          (IF 2 * r > d \/ (2 * r = d /\ q % 2 = 1) THEN q + 1 ELSE q) * 2^k
    BY DEF Rounded
  <2>2. q + 0 = q
    <3>1. q \in Int
      BY <1>2
    <3> QED BY <3>1
  <2> HIDE DEF q, r, d, k
  <2> QED BY <2>1, <2>2
<1> DEFINE w == 2^k
<1> HIDE DEF k
<1>4. d \in Nat \ {0}
  <2>1. w \in Nat \ {0} /\ d = b * w
    BY <1>2
  <2> HIDE DEF w, d
  <2> QED BY <2>1
<1> HIDE DEF d
<1>5. q \in Nat /\ r \in Nat /\ x = d * q + r /\ r < d
  BY <1>4
<1> HIDE DEF q, r
<1>6. up \in {0, 1} /\ (up = 1 => 2 * r >= d)
  BY <1>4, <1>5
<1> HIDE DEF up
<1> QED BY <1>1, <1>3, <1>5, <1>6 DEF d

-----------------------------------------------------------------------------
(* Products and powers of two.                                             *)

LEMMA TimesMonotonic ==
  ASSUME NEW a \in Nat, NEW b \in Nat, NEW c \in Nat, a <= b
  PROVE  /\ a * c \in Nat /\ b * c \in Nat /\ a * c <= b * c
         /\ c * a = a * c /\ c * b = b * c
<1>1. PICK e \in Nat : b = a + e
  <2>1. b - a \in Nat /\ b = a + (b - a)
    OBVIOUS
  <2> QED BY <2>1
<1>2. b * c = a * c + e * c
  BY <1>1
<1>3. a * c \in Nat /\ e * c \in Nat
  BY <1>1
<1> QED BY <1>2, <1>3

LEMMA TimesCancel ==
  ASSUME NEW a \in Nat, NEW b \in Nat, NEW c \in Nat, c * a < c * b
  PROVE  a < b
<1> SUFFICES ASSUME b <= a PROVE FALSE
  OBVIOUS
<1>1. c * b <= c * a /\ c * a \in Nat /\ c * b \in Nat
  BY TimesMonotonic
<1> QED BY <1>1

(* A quotient of a number that is large enough is large enough.            *)
LEMMA QuotientAtLeast ==
  ASSUME NEW d \in Nat, NEW q \in Nat, NEW r \in Nat, r < d,
         NEW m \in Nat, d * q + r >= d * m
  PROVE  q >= m
<1> SUFFICES ASSUME q + 1 <= m PROVE FALSE
  OBVIOUS
<1>1. d * (q + 1) <= d * m /\ d * m \in Nat
  BY TimesMonotonic
<1>2. d * (q + 1) = d * q + d /\ d * q \in Nat
  OBVIOUS
<1> QED BY <1>1, <1>2

LEMMA Exponents ==
  /\ Width \in Nat /\ FloatBits \in Nat \ {0}
  /\ \A a \in Nat, b \in Nat :
       a + b <= 2 * (Width + FloatBits) =>
         /\ 2^a \in Nat \ {0} /\ 2^b \in Nat \ {0}
         /\ 2^(a + b) \in Nat \ {0}
         /\ 2^(a + b) = 2^a * 2^b
         /\ 2^a <= 2^(a + b)
<1>1. Width \in Nat /\ FloatBits \in Nat \ {0}
  BY SplitAssumption
<1>2. SUFFICES ASSUME NEW a \in Nat, NEW b \in Nat,
                      a + b <= 2 * (Width + FloatBits)
               PROVE  /\ 2^a \in Nat \ {0} /\ 2^b \in Nat \ {0}
                      /\ 2^(a + b) \in Nat \ {0}
                      /\ 2^(a + b) = 2^a * 2^b
                      /\ 2^a <= 2^(a + b)
  BY <1>1
<1>3. /\ a \in 0 .. 2 * (Width + FloatBits)
      /\ b \in 0 .. 2 * (Width + FloatBits)
      /\ a + b \in 0 .. 2 * (Width + FloatBits)
      /\ a \in 0 .. a + b /\ (a + b) - a = b
  BY <1>1, <1>2
<1>4. /\ 2^a \in Nat \ {0} /\ 2^b \in Nat \ {0} /\ 2^(a + b) \in Nat \ {0}
      /\ 2^(a + b) = 2^a * 2^((a + b) - a)
  BY <1>3, PowerAssumption
<1>5. 2^(a + b) = 2^a * 2^b
  BY <1>3, <1>4
<1> DEFINE u == 2^a
           v == 2^b
<1>6. u \in Nat /\ v \in Nat /\ 1 <= v /\ 2^(a + b) = u * v
  BY <1>4, <1>5
<1> HIDE DEF u, v
<1>7. 1 * u <= v * u /\ u * v = v * u /\ 1 * u = u
  BY <1>6, TimesMonotonic
<1>8. u <= 2^(a + b)
  BY <1>6, <1>7
<1> QED BY <1>4, <1>5, <1>8 DEF u

(* Where the units are: 2^k divides Unit, unless x/b is too large for a    *)
(* float to hold its units.                                                *)
LEMMA ScaleDividesUnit ==
  ASSUME NEW x \in Nat, NEW b \in Nat \ {0}, NEW k \in Nat,
         k <= 2 * Width + FloatBits, ScaleOf(x, b, k),
         x < b * (2^FloatBits * Unit)
  PROVE  \E u \in Nat \ {0} : Unit = 2^k * u
<1>1. Width \in Nat /\ FloatBits \in Nat \ {0}
  BY Exponents
<1>2. k <= Width + FloatBits
  <2> SUFFICES ASSUME k > Width + FloatBits PROVE FALSE
    BY <1>1
  <2> DEFINE e == Width + FloatBits
             g == k - 1 - e
             t == FloatBits + e
  <2>1. /\ e \in Nat /\ g \in Nat /\ t \in Nat /\ FloatBits \in Nat
        /\ FloatBits + k - 1 = t + g /\ k # 0 /\ t = FloatBits + e
        /\ t + g <= 2 * (Width + FloatBits)
        /\ FloatBits + e <= 2 * (Width + FloatBits)
    BY <1>1
  <2>2. x >= b * 2^(t + g)
    <3>1. x >= b * 2^(FloatBits + k - 1)
      BY <2>1 DEF ScaleOf
    <3> QED BY <3>1, <2>1
  <2> HIDE DEF e, g, t
  <2>3. /\ 2^(t + g) \in Nat /\ 2^t \in Nat /\ 2^t <= 2^(t + g)
        /\ 2^t = 2^FloatBits * 2^e
    <3>1. 2^(FloatBits + e) = 2^FloatBits * 2^e
      BY <2>1, Exponents
    <3>2. 2^(t + g) \in Nat /\ 2^t \in Nat /\ 2^t <= 2^(t + g)
      BY <2>1, Exponents
    <3> QED BY <2>1, <3>1, <3>2
  <2>4. x < b * 2^t
    BY <2>3 DEF Unit, e
  <2> DEFINE y == 2^t
             z == 2^(t + g)
  <2>5. y \in Nat /\ z \in Nat /\ y <= z /\ x < b * y /\ x >= b * z
    BY <2>2, <2>3, <2>4
  <2> HIDE DEF y, z
  <2>6. b * y <= b * z /\ b * y \in Nat /\ b * z \in Nat
    BY <2>5, TimesMonotonic
  <2> QED BY <2>5, <2>6
<1>3. PICK j \in Nat : Width + FloatBits = k + j
  <2>1. Width + FloatBits - k \in Nat
    BY <1>1, <1>2
  <2> QED BY <1>1, <2>1
<1>4. 2^j \in Nat \ {0} /\ 2^(k + j) = 2^k * 2^j
  <2>1. k + j <= 2 * (Width + FloatBits)
    BY <1>1, <1>3
  <2> QED BY <2>1, Exponents
<1> QED BY <1>3, <1>4 DEF Unit

(* The largest quotient is a number of units too large for no scale.       *)
LEMMA UnitRange ==
  /\ Unit \in Nat \ {0} /\ 2^FloatBits \in Nat \ {0} /\ 2^Width \in Nat \ {0}
  /\ 2^FloatBits * Unit \in Nat
  /\ 2^FloatBits * Unit <= 2^(2 * (Width + FloatBits))
  /\ 2^(2 * (Width + FloatBits)) \in Nat
  /\ 2^Width <= Unit
<1>1. Width \in Nat /\ FloatBits \in Nat \ {0}
  BY Exponents
<1> DEFINE e == Width + FloatBits
           t == FloatBits + e
<1>2. /\ e \in Nat /\ t \in Nat /\ FloatBits \in Nat
      /\ 2 * (Width + FloatBits) = t + Width
      /\ FloatBits + e <= 2 * (Width + FloatBits)
      /\ t + Width <= 2 * (Width + FloatBits) /\ t = FloatBits + e
      /\ Width + FloatBits <= 2 * (Width + FloatBits) /\ e = Width + FloatBits
  BY <1>1
<1> HIDE DEF e, t
<1>3. /\ 2^FloatBits \in Nat \ {0} /\ 2^e \in Nat \ {0}
      /\ 2^t = 2^FloatBits * 2^e /\ 2^t \in Nat
  BY <1>2, Exponents
<1>4. 2^t <= 2^(t + Width) /\ 2^(t + Width) \in Nat
  BY <1>1, <1>2, Exponents
<1>5. 2^Width \in Nat \ {0} /\ 2^Width <= 2^e
  BY <1>1, <1>2, Exponents
<1> QED BY <1>2, <1>3, <1>4, <1>5 DEF Unit

LEMMA BelowEveryScale ==
  ASSUME NEW x \in Nat, NEW b \in Nat, x < b * (2^FloatBits * Unit)
  PROVE  x < b * 2^(2 * (Width + FloatBits))
<1> DEFINE y == 2^FloatBits * Unit
           z == 2^(2 * (Width + FloatBits))
<1>1. y \in Nat /\ z \in Nat /\ y <= z
  BY UnitRange
<1> HIDE DEF z
<1>2. x < b * y
  OBVIOUS
<1> HIDE DEF y
<1>3. b * y <= b * z /\ b * y \in Nat /\ b * z \in Nat
  BY <1>1, TimesMonotonic
<1>4. x < b * z
  BY <1>2, <1>3
<1> QED BY <1>4 DEF z

(* The rounding of x/b when its units fit into the mantissa: w is the      *)
(* value of the last bit, a part of the unit.                              *)
RoundsTo(x, b, w, u, q, r, up) ==
  /\ Unit = w * u
  /\ x = (b * w) * q + r /\ r < b * w
  /\ up = 1 => 2 * r >= b * w
  /\ Rounded(x, b) = (q + up) * w
  /\ w = 1 \/ 2 * x >= (b * w) * 2^FloatBits

LEMMA RoundedInUnits ==
  ASSUME NEW x \in Nat, NEW b \in Nat \ {0}, x < b * (2^FloatBits * Unit)
  PROVE  \E w \in Nat \ {0}, u \in Nat \ {0}, q \in Nat, r \in Nat,
            up \in {0, 1} : RoundsTo(x, b, w, u, q, r, up)
<1>1. PICK k \in 0 .. 2 * Width + FloatBits, q \in Nat, r \in Nat, up \in {0, 1} :
           /\ ScaleOf(x, b, k)
           /\ x = (b * 2^k) * q + r /\ r < b * 2^k
           /\ up = 1 => 2 * r >= b * 2^k
           /\ Rounded(x, b) = (q + up) * 2^k
  BY BelowEveryScale, RoundedMeaning
<1>2. k \in Nat /\ k <= 2 * Width + FloatBits
      /\ Width \in Nat /\ FloatBits \in Nat \ {0}
  BY Exponents
<1>3. PICK u \in Nat \ {0} : Unit = 2^k * u
  BY <1>1, <1>2, ScaleDividesUnit
<1>4. 2^k \in Nat \ {0}
  <2>1. k \in 0 .. 2 * (Width + FloatBits)
    BY <1>2
  <2> QED BY <2>1, PowerAssumption
<1>5. 2^k = 1 \/ 2 * x >= (b * 2^k) * 2^FloatBits
  <2>1. CASE k = 0
    BY <2>1, PowerAssumption
  <2>2. CASE k # 0
    <3> DEFINE j == k - 1
               v == 2^j
               t == 2^FloatBits
               s == 2^(FloatBits + j)
    <3>1. /\ j \in Nat /\ k = 1 + j /\ FloatBits + k - 1 = FloatBits + j
          /\ FloatBits \in Nat
          /\ 1 + j <= 2 * (Width + FloatBits)
          /\ FloatBits + j <= 2 * (Width + FloatBits)
      BY <1>2, <2>2
    <3>2. x >= b * s
      BY <1>1, <2>2, <3>1 DEF ScaleOf
    <3> HIDE DEF j
    <3>3. v \in Nat /\ t \in Nat /\ s = t * v
      BY <3>1, Exponents
    <3>4. 2^k = 2 * v
      <4>1. 2^(1 + j) = 2^1 * 2^j
        BY <3>1, Exponents
      <4> QED BY <3>1, <4>1, PowerAssumption
    <3> HIDE DEF v, t, s
    <3>5. (b * (2 * v)) * t = 2 * (b * (t * v)) /\ b * (t * v) \in Nat
      BY <3>3
    <3>6. 2 * x >= (b * (2 * v)) * t
      BY <3>2, <3>3, <3>5
    <3> QED BY <3>4, <3>6 DEF t
  <2> QED BY <2>1, <2>2
<1> QED BY <1>1, <1>3, <1>4, <1>5 DEF RoundsTo

(* If x/b is at least n units, so is its rounding.                         *)
LEMMA RoundedAtLeast ==
  ASSUME NEW x \in Nat, NEW b \in Nat \ {0}, NEW n \in Nat,
         x < b * (2^FloatBits * Unit), x >= b * (n * Unit)
  PROVE  Rounded(x, b) \in Nat /\ Rounded(x, b) >= n * Unit
<1>0. PICK w \in Nat \ {0}, u \in Nat \ {0}, q \in Nat, r \in Nat,
           up \in {0, 1} : RoundsTo(x, b, w, u, q, r, up)
  BY RoundedInUnits
<1>1. /\ Unit = w * u
      /\ x = (b * w) * q + r /\ r < b * w
      /\ Rounded(x, b) = (q + up) * w
  BY <1>0 DEF RoundsTo
<1> DEFINE d == b * w
<1>2. d \in Nat /\ b * (n * Unit) = d * (u * n) /\ u * n \in Nat
  BY <1>1
<1>3. x = d * q + r /\ r < d
  BY <1>1
<1> HIDE DEF d
<1>4. q >= u * n
  BY <1>2, <1>3, QuotientAtLeast
<1>5. (u * n) * w <= (q + up) * w /\ (q + up) * w \in Nat
  BY <1>2, <1>4, TimesMonotonic
<1>6. (u * n) * w = n * Unit
  BY <1>1
<1> QED BY <1>1, <1>5, <1>6

(* n units are below the largest quotient when n has at most FloatBits bits. *)
LEMMA UnitsFit ==
  ASSUME NEW b \in Nat \ {0}, NEW n \in Nat, n < 2^FloatBits
  PROVE  b * (n * Unit) \in Nat /\ b * (n * Unit) < b * (2^FloatBits * Unit)
<1> DEFINE t == 2^FloatBits
<1>1. t \in Nat /\ Unit \in Nat \ {0} /\ n < t
  BY UnitRange
<1> HIDE DEF t
<1> DEFINE y == n * Unit
           z == t * Unit
<1>2. y \in Nat /\ z \in Nat /\ y + 1 <= z
  <2>1. (n + 1) * Unit <= t * Unit /\ t * Unit \in Nat
    BY <1>1, TimesMonotonic
  <2>2. (n + 1) * Unit = n * Unit + Unit /\ n * Unit \in Nat
    BY <1>1
  <2> QED BY <1>1, <2>1, <2>2
<1> HIDE DEF y, z
<1>3. (y + 1) * b <= z * b /\ b * z = z * b
  BY <1>2, TimesMonotonic
<1>4. (y + 1) * b = b * y + b /\ b * y \in Nat
  BY <1>2
<1>5. b * y < b * z /\ b * y \in Nat
  BY <1>2, <1>3, <1>4
<1> QED BY <1>5 DEF y, z, t

(* A quotient that is a whole number of units is not changed.              *)
LEMMA RoundedIsExact ==
  ASSUME NEW b \in Nat \ {0}, NEW n \in Nat, n < 2^FloatBits
  PROVE  Rounded(b * (n * Unit), b) = n * Unit
<1> DEFINE x == b * (n * Unit)
<1>1. x \in Nat /\ x < b * (2^FloatBits * Unit)
  BY UnitsFit
<1> HIDE DEF x
<1>0. PICK w \in Nat \ {0}, u \in Nat \ {0}, q \in Nat, r \in Nat,
           up \in {0, 1} : RoundsTo(x, b, w, u, q, r, up)
  BY <1>1, RoundedInUnits
<1>2. /\ Unit = w * u
      /\ x = (b * w) * q + r /\ r < b * w
      /\ up = 1 => 2 * r >= b * w
      /\ Rounded(x, b) = (q + up) * w
  BY <1>0 DEF RoundsTo
<1> DEFINE d == b * w
<1>3. d \in Nat \ {0} /\ x = d * (u * n) /\ u * n \in Nat
  BY <1>2 DEF x
<1>4. x = d * q + r /\ r < d /\ (up = 1 => 2 * r >= d)
  BY <1>2
<1> HIDE DEF d
<1>5. q = u * n
  <2>1. q >= u * n
    BY <1>3, <1>4, QuotientAtLeast
  <2>2. d * q \in Nat /\ d * (u * n) \in Nat /\ d * q <= d * (u * n)
    BY <1>3, <1>4
  <2>3. ~(u * n + 1 <= q)
    <3> SUFFICES ASSUME u * n + 1 <= q PROVE FALSE
      OBVIOUS
    <3>1. d * (u * n + 1) <= d * q
      BY <1>3, TimesMonotonic
    <3>2. d * (u * n + 1) = d * (u * n) + d
      BY <1>3
    <3> QED BY <1>3, <2>2, <3>1, <3>2
  <2> QED BY <1>3, <2>1, <2>3
<1>6. r = 0
  <2>1. d * q \in Nat
    BY <1>3
  <2> QED BY <1>3, <1>4, <1>5, <2>1
<1>7. up = 0
  BY <1>3, <1>4, <1>6
<1>8. Rounded(x, b) = (u * n) * w
  BY <1>2, <1>3, <1>5, <1>7
<1>9. (u * n) * w = n * Unit
  BY <1>2
<1> QED BY <1>8, <1>9 DEF x

(* Rounding does not reach the next whole number of units when the rest of *)
(* the division is at least one unit and the numerator is in the mantissa. *)
LEMMA RoundedStaysBelow ==
  ASSUME NEW a \in Nat, NEW b \in Nat \ {0}, NEW n \in Nat,
         a < 2^FloatBits, b < 2^Width, a < b * n
  PROVE  Rounded(a * Unit, b) \in Nat /\ Rounded(a * Unit, b) < n * Unit
<1> DEFINE x == a * Unit
           t == 2^FloatBits
<1>1. Unit \in Nat \ {0} /\ t \in Nat \ {0} /\ b < Unit /\ a < t
  BY UnitRange
<1>2. x \in Nat /\ x < b * (2^FloatBits * Unit)
  <2>1. 1 * (a * Unit) \in Nat /\ 1 * (a * Unit) < 1 * (t * Unit)
    BY UnitsFit
  <2> DEFINE z == t * Unit
  <2>2. z \in Nat /\ x \in Nat /\ x < z
    BY <1>1, <2>1
  <2> HIDE DEF x, z
  <2>3. 1 * z <= b * z /\ b * z \in Nat
    BY <2>2, TimesMonotonic
  <2>4. x < b * z
    BY <2>2, <2>3
  <2> QED BY <2>2, <2>4 DEF z
<1>3. x + Unit <= b * (n * Unit)
  <2>1. b * n \in Nat
    OBVIOUS
  <2>2. (a + 1) * Unit <= (b * n) * Unit
    BY <1>1, <2>1, TimesMonotonic
  <2>3. (a + 1) * Unit = a * Unit + Unit /\ (b * n) * Unit = b * (n * Unit)
    BY <1>1
  <2> QED BY <2>2, <2>3
<1>4. 2 * x < t * (2 * Unit)
  <2>1. (a + 1) * (2 * Unit) <= t * (2 * Unit) /\ t * (2 * Unit) \in Nat
    BY <1>1, TimesMonotonic
  <2>2. (a + 1) * (2 * Unit) = 2 * (a * Unit) + 2 * Unit /\ a * Unit \in Nat
    BY <1>1
  <2> QED BY <1>1, <2>1, <2>2
<1> HIDE DEF x
<1>5. PICK w \in Nat \ {0}, u \in Nat \ {0}, q \in Nat, r \in Nat,
           up \in {0, 1} : RoundsTo(x, b, w, u, q, r, up)
  BY <1>2, RoundedInUnits
<1>6. /\ Unit = w * u
      /\ x = (b * w) * q + r /\ r < b * w
      /\ up = 1 => 2 * r >= b * w
      /\ Rounded(x, b) = (q + up) * w
      /\ w = 1 \/ 2 * x >= (b * w) * t
  BY <1>5 DEF RoundsTo
<1> HIDE DEF t
<1> DEFINE d == b * w
           m == u * n
<1>7. d \in Nat \ {0} /\ m \in Nat /\ b * (n * Unit) = d * m
  BY <1>6
<1>8. d < 2 * Unit
  <2>1. CASE w = 1
    <3>1. d = b
      BY <2>1
    <3> QED BY <3>1, <1>1
  <2>2. CASE w # 1
    <3>1. 2 * x >= d * t
      BY <1>6, <2>2
    <3> HIDE DEF d
    <3> DEFINE v == 2 * Unit
    <3>2. v \in Nat /\ 2 * x < t * v
      BY <1>1, <1>4
    <3> HIDE DEF v
    <3>3. d * t = t * d /\ t * d \in Nat /\ t * v \in Nat
      BY <1>1, <1>7, <3>2
    <3>4. t * d < t * v
      BY <1>2, <3>1, <3>2, <3>3
    <3>5. d < v
      BY <1>1, <1>7, <3>2, <3>4, TimesCancel
    <3> QED BY <3>5 DEF v
  <2> QED BY <2>1, <2>2
<1>9. /\ x = d * q + r /\ r < d /\ (up = 1 => 2 * r >= d)
      /\ x + Unit <= d * m
  BY <1>3, <1>6, <1>7
<1> HIDE DEF d, m
<1>10. d * q \in Nat /\ d * m \in Nat
  BY <1>7
<1>11. q < m
  <2>1. d * q < d * m
    BY <1>1, <1>9, <1>10
  <2> QED BY <1>7, <2>1, TimesCancel
<1>12. q + up < m
  <2>1. CASE up = 0
    BY <1>11, <2>1
  <2>2. CASE up = 1
    <3> SUFFICES ASSUME m = q + 1 PROVE FALSE
      BY <1>7, <1>11, <2>2
    <3>1. d * m = d * q + d
      BY <1>7
    <3>2. d * q + r + Unit <= d * q + d
      BY <1>9, <3>1
    <3>3. r + Unit <= d
      BY <1>1, <1>7, <1>10, <3>2
    <3> QED BY <1>1, <1>7, <1>8, <1>9, <2>2, <3>3
  <2> QED BY <2>1, <2>2
<1>13. (q + up) * w < n * Unit /\ (q + up) * w \in Nat
  <2> DEFINE p == q + up
  <2>1. p \in Nat /\ p + 1 <= m
    BY <1>7, <1>12
  <2> HIDE DEF p
  <2>2. (p + 1) * w <= m * w /\ m * w \in Nat
    BY <1>7, <2>1, TimesMonotonic
  <2>3. (p + 1) * w = p * w + w /\ p * w \in Nat
    BY <2>1
  <2>4. m * w = n * Unit
    BY <1>6 DEF m
  <2>5. p * w < n * Unit /\ p * w \in Nat
    BY <2>2, <2>3, <2>4
  <2> QED BY <2>5 DEF p
<1> QED BY <1>6, <1>13 DEF x

(* Rounding at most doubles a quotient, and keeps it at least one unit.    *)
LEMMA RoundedRange ==
  ASSUME NEW x \in Nat, NEW b \in Nat \ {0},
         x < b * 2^(2 * (Width + FloatBits))
  PROVE  /\ Rounded(x, b) \in Nat
         /\ Rounded(x, b) <= 2 * x
         /\ x >= b * Unit => Rounded(x, b) >= Unit
<1>1. PICK k \in 0 .. 2 * Width + FloatBits, q \in Nat, r \in Nat, up \in {0, 1} :
           /\ ScaleOf(x, b, k)
           /\ x = (b * 2^k) * q + r /\ r < b * 2^k
           /\ up = 1 => 2 * r >= b * 2^k
           /\ Rounded(x, b) = (q + up) * 2^k
  BY RoundedMeaning
<1>2. k \in Nat /\ k <= 2 * Width + FloatBits
      /\ Width \in Nat /\ FloatBits \in Nat \ {0}
  BY Exponents
<1> DEFINE w == 2^k
           d == b * w
<1>3. w \in Nat \ {0}
  <2>1. k \in 0 .. 2 * (Width + FloatBits)
    BY <1>2
  <2> QED BY <2>1, PowerAssumption
<1>4. /\ x = d * q + r /\ r < d /\ (up = 1 => 2 * r >= d)
      /\ Rounded(x, b) = (q + up) * w
  BY <1>1
<1>5. ASSUME x >= b * Unit, k <= Width + FloatBits
      PROVE  Rounded(x, b) >= Unit
  <2>1. PICK j \in Nat : Width + FloatBits = k + j
    <3>1. Width + FloatBits - k \in Nat
      BY <1>2, <1>5
    <3> QED BY <1>2, <3>1
  <2>2. 2^j \in Nat \ {0} /\ 2^(k + j) = 2^k * 2^j
    <3>1. k + j <= 2 * (Width + FloatBits)
      BY <1>2, <2>1
    <3> QED BY <1>2, <3>1, Exponents
  <2> DEFINE u == 2^j
  <2>3. u \in Nat /\ Unit = w * u
    BY <2>1, <2>2 DEF Unit
  <2> HIDE DEF u, w
  <2>4. d \in Nat /\ b * Unit = d * u
    BY <1>3, <2>3
  <2> HIDE DEF d
  <2>5. q >= u
    <3>1. d * q + r >= d * u
      BY <1>4, <1>5, <2>4
    <3> QED BY <1>4, <2>3, <2>4, <3>1, QuotientAtLeast
  <2>6. u * w <= (q + up) * w /\ (q + up) * w \in Nat
    BY <1>3, <2>3, <2>5, TimesMonotonic
  <2>7. Rounded(x, b) >= Unit
    <3>1. u * w = Unit
      BY <1>3, <2>3
    <3> QED BY <1>4, <2>6, <3>1
  <2> QED BY <2>7
<1>6. ASSUME k > Width + FloatBits PROVE Rounded(x, b) >= Unit
  <2> DEFINE g == k - (Width + FloatBits)
             f == FloatBits - 1
             s == 2^(k + f)
  <2>1. /\ g \in Nat /\ Width + FloatBits \in Nat
        /\ k = (Width + FloatBits) + g /\ f \in Nat
        /\ k + f = FloatBits + k - 1 /\ k # 0
        /\ (Width + FloatBits) + g <= 2 * (Width + FloatBits)
        /\ k + f <= 2 * (Width + FloatBits)
    BY <1>2, <1>6
  <2>2. x >= b * s
    <3>1. x >= b * 2^(FloatBits + k - 1)
      BY <1>1, <2>1 DEF ScaleOf
    <3> QED BY <2>1, <3>1
  <2> HIDE DEF g, f
  <2>3. s \in Nat /\ w <= s
    BY <1>2, <2>1, Exponents
  <2>4. Unit <= w /\ Unit \in Nat
    BY <2>1, Exponents DEF Unit
  <2> HIDE DEF s, w
  <2>5. b * w <= b * s /\ b * w \in Nat /\ b * s \in Nat
    BY <1>3, <2>3, TimesMonotonic
  <2>6. q >= 1
    <3>1. d \in Nat /\ d * q + r >= d * 1
      BY <1>3, <1>4, <2>2, <2>5
    <3> HIDE DEF d
    <3> QED BY <1>4, <3>1, QuotientAtLeast
  <2>7. 1 * w <= (q + up) * w /\ (q + up) * w \in Nat /\ 1 * w = w
    BY <1>3, <2>6, TimesMonotonic
  <2>8. Rounded(x, b) >= Unit
    BY <1>3, <1>4, <2>4, <2>7
  <2> QED BY <2>8
<1> HIDE DEF w
<1>7. Rounded(x, b) \in Nat
  BY <1>3, <1>4
<1>8. Rounded(x, b) <= 2 * x
  <2>1. w <= d /\ d \in Nat
    <3>1. 1 * w <= b * w /\ b * w \in Nat /\ 1 * w = w
      BY <1>3, TimesMonotonic
    <3> QED BY <3>1
  <2>2. w * q <= d * q /\ d * q \in Nat /\ q * w = w * q /\ w * q \in Nat
    BY <1>3, <2>1, TimesMonotonic
  <2> HIDE DEF d
  <2>3. CASE up = 0
    <3>1. Rounded(x, b) = w * q
      BY <1>3, <1>4, <2>2, <2>3
    <3> QED BY <1>4, <2>2, <3>1
  <2>4. CASE up = 1
    <3>1. (q + 1) * w = w * q + w
      BY <1>3
    <3>2. Rounded(x, b) = w * q + w
      BY <1>4, <2>4, <3>1
    <3> QED BY <1>3, <1>4, <2>1, <2>2, <2>4, <3>2
  <2> QED BY <2>3, <2>4
<1>9. x >= b * Unit => Rounded(x, b) >= Unit
  <2>1. k <= Width + FloatBits \/ k > Width + FloatBits
    BY <1>2
  <2> QED BY <1>5, <1>6, <2>1
<1> QED BY <1>7, <1>8, <1>9

(* What rounding takes away is at most an ulp: 2/2^FloatBits of the        *)
(* number, or a unit.                                                      *)
LEMMA RoundedIsClose ==
  ASSUME NEW x \in Nat, NEW b \in Nat \ {0},
         x < b * 2^(2 * (Width + FloatBits))
  PROVE  /\ Rounded(x, b) \in Nat
         /\ 2^FloatBits * x <= 2^FloatBits * (b * Rounded(x, b)) + 2 * x
                               + 2^FloatBits * b
<1>1. PICK k \in 0 .. 2 * Width + FloatBits, q \in Nat, r \in Nat, up \in {0, 1} :
           /\ ScaleOf(x, b, k)
           /\ x = (b * 2^k) * q + r /\ r < b * 2^k
           /\ up = 1 => 2 * r >= b * 2^k
           /\ Rounded(x, b) = (q + up) * 2^k
  BY RoundedMeaning
<1> DEFINE w == 2^k
           d == b * w
           t == 2^FloatBits
           low == b * Rounded(x, b)
<1>2. k \in Nat /\ k <= 2 * Width + FloatBits
      /\ Width \in Nat /\ FloatBits \in Nat \ {0}
  BY Exponents
<1>3. w \in Nat \ {0} /\ t \in Nat \ {0}
  <2>1. k \in 0 .. 2 * (Width + FloatBits)
    BY <1>2
  <2> QED BY <2>1, PowerAssumption, UnitRange
<1>4. x = d * q + r /\ r < d /\ Rounded(x, b) = (q + up) * w
  BY <1>1
<1>5. k # 0 => t * d <= 2 * x
  <2> SUFFICES ASSUME k # 0 PROVE t * d <= 2 * x
    OBVIOUS
  <2> DEFINE g == k - 1
             s == 2^(FloatBits + g)
  <2>1. /\ g \in Nat /\ k = g + 1 /\ FloatBits + g = FloatBits + k - 1
        /\ FloatBits + g \in Nat /\ FloatBits + k = (FloatBits + g) + 1
        /\ (FloatBits + g) + 1 <= 2 * (Width + FloatBits)
        /\ FloatBits + k <= 2 * (Width + FloatBits)
    BY <1>2
  <2>2. x >= b * s
    <3>1. x >= b * 2^(FloatBits + k - 1)
      BY <1>1 DEF ScaleOf
    <3> QED BY <2>1, <3>1
  <2> HIDE DEF g
  <2>3. 2^(FloatBits + k) = t * w
    BY <1>2, <2>1, Exponents
  <2>4. 2^((FloatBits + g) + 1) = s * 2^1 /\ s \in Nat
    BY <2>1, Exponents
  <2>5. t * w = 2 * s
    BY <2>1, <2>3, <2>4, PowerAssumption
  <2> HIDE DEF s, w, t
  <2>6. t * d = 2 * (b * s) /\ b * s \in Nat
    <3>1. t * (b * w) = b * (t * w) /\ b * (2 * s) = 2 * (b * s)
      BY <1>3, <2>4
    <3> QED BY <2>4, <2>5, <3>1
  <2> QED BY <2>2, <2>6
<1>6. k = 0 => d = b
  BY PowerAssumption
<1> HIDE DEF w, t
<1>7. Rounded(x, b) \in Nat
  BY <1>3, <1>4
<1>8. d \in Nat /\ d * q \in Nat /\ d * q <= low /\ low \in Nat
  <2>1. d \in Nat
    BY <1>3
  <2>2. low = d * (q + up)
    BY <1>3, <1>4
  <2> HIDE DEF d
  <2>3. q * d <= (q + up) * d /\ d * q = q * d /\ (q + up) * d = d * (q + up)
        /\ q * d \in Nat /\ (q + up) * d \in Nat
    BY <2>1, TimesMonotonic
  <2> QED BY <2>1, <2>2, <2>3
<1> HIDE DEF low
<1>9. x <= low + d
  <2> HIDE DEF d
  <2> QED BY <1>4, <1>8
<1> HIDE DEF d
<1>10. t * x <= t * low + t * d /\ t * low \in Nat /\ t * d \in Nat
  <2>1. x * t <= (low + d) * t /\ t * x = x * t /\ t * (low + d) = (low + d) * t
    BY <1>3, <1>8, <1>9, TimesMonotonic
  <2>2. t * (low + d) = t * low + t * d
    BY <1>3, <1>8
  <2> QED BY <1>3, <1>8, <2>1, <2>2
<1>11. t * x <= t * low + 2 * x + t * b
  <2>1. t * x \in Nat /\ t * b \in Nat
    BY <1>3
  <2>2. t * d <= 2 * x \/ t * d = t * b
    BY <1>5, <1>6
  <2> QED BY <1>10, <2>1, <2>2
<1> QED BY <1>7, <1>11 DEF t, low

-----------------------------------------------------------------------------
(* What the floats of the splitter count.                                  *)

LEMMA SizesRange ==
  /\ \A file \in FileSizes : file \in Nat /\ file < 2^Width
  /\ \A sz \in PartSizes : sz \in Nat \ {0} /\ sz < 2^Width
  /\ SegmentSize \in Nat \ {0} /\ SegmentSize < 2^Width
  /\ 2^Width \in Nat
BY SplitAssumption, UnitRange

LEMMA FloatOfIsExact ==
  ASSUME NEW n \in Nat, n <= 2^Width, n < 2^FloatBits
  PROVE  FloatOf[n] = n * Unit
<1>1. n \in 0 .. 2^Width
  BY SizesRange
<1>2. FloatOf[n] = Rounded(n * Unit, 1)
  BY <1>1 DEF FloatOf
<1>3. 1 * (n * Unit) = n * Unit
  BY UnitRange
<1> QED BY <1>2, <1>3, RoundedIsExact

LEMMA TopRange ==
  /\ 2^(2 * (Width + FloatBits)) = (2^FloatBits * Unit) * 2^Width
  /\ 2^FloatBits >= 2
<1> DEFINE e == Width + FloatBits
           f == FloatBits - 1
<1>1. /\ e \in Nat /\ Width \in Nat /\ FloatBits \in Nat /\ f \in Nat
      /\ FloatBits + e \in Nat /\ e = Width + FloatBits
      /\ 2 * (Width + FloatBits) = (FloatBits + e) + Width
      /\ FloatBits + e <= 2 * (Width + FloatBits)
      /\ (FloatBits + e) + Width <= 2 * (Width + FloatBits)
      /\ FloatBits = 1 + f /\ 1 + f <= 2 * (Width + FloatBits)
  BY Exponents
<1> HIDE DEF e, f
<1>2. 2^((FloatBits + e) + Width) = 2^(FloatBits + e) * 2^Width
  BY <1>1, Exponents
<1>3. 2^(FloatBits + e) = 2^FloatBits * 2^e
  BY <1>1, Exponents
<1>4. 2^1 <= 2^(1 + f)
  BY <1>1, Exponents
<1>5. 2^FloatBits >= 2
  BY <1>1, <1>4, PowerAssumption
<1> QED BY <1>1, <1>2, <1>3, <1>5 DEF Unit

LEMMA FloatOfRange ==
  ASSUME NEW n \in Nat \ {0}, n < 2^Width
  PROVE  /\ FloatOf[n] \in Nat /\ FloatOf[n] >= Unit
         /\ FloatOf[n] < 2^(2 * (Width + FloatBits))
<1> DEFINE v == 2^Width
           t == 2^FloatBits
           top == 2^(2 * (Width + FloatBits))
           x == n * Unit
<1>1. /\ v \in Nat /\ Unit \in Nat \ {0} /\ top \in Nat /\ n + 1 <= v
      /\ t \in Nat \ {0}
  BY UnitRange
<1>2. top = (t * Unit) * v /\ t >= 2
  BY TopRange
<1> HIDE DEF v, t, top
<1>3. x \in Nat /\ x >= Unit /\ 2 * x < top
  <2>1. (n + 1) * Unit <= v * Unit /\ v * Unit \in Nat
        /\ 1 * Unit <= n * Unit /\ n * Unit \in Nat
    BY <1>1, TimesMonotonic
  <2>2. (n + 1) * Unit = x + Unit /\ 1 * Unit = Unit
    BY <1>1
  <2>3. 2 * (v * Unit) <= t * (v * Unit)
    BY <1>1, <1>2, <2>1, TimesMonotonic
  <2>4. t * (v * Unit) = top
    BY <1>1, <1>2
  <2> DEFINE y == v * Unit
  <2>5. y \in Nat /\ x + Unit <= y /\ 2 * y <= top
    BY <2>1, <2>2, <2>3, <2>4
  <2> HIDE DEF y, x
  <2>6. x \in Nat /\ x >= Unit
    BY <2>1, <2>2 DEF x
  <2> QED BY <1>1, <2>5, <2>6
<1>4. FloatOf[n] = Rounded(x, 1)
  <2>1. n \in 0 .. 2^Width
    BY SizesRange
  <2> QED BY <2>1 DEF FloatOf
<1> HIDE DEF x
<1>5. x < 1 * top /\ x >= 1 * Unit
  BY <1>1, <1>3
<1>6. /\ Rounded(x, 1) \in Nat /\ Rounded(x, 1) <= 2 * x
      /\ Rounded(x, 1) >= Unit
  BY <1>3, <1>5, RoundedRange DEF top
<1> QED BY <1>1, <1>3, <1>4, <1>6 DEF top

LEMMA Division ==
  ASSUME NEW a \in Nat, NEW b \in Nat \ {0}
  PROVE  /\ a \div b \in Nat /\ a % b \in 0 .. b - 1
         /\ a = b * (a \div b) + (a % b)
         /\ b * (a \div b) \in Nat /\ b * (a \div b + 1) \in Nat
         /\ b * (a \div b) <= a /\ a < b * (a \div b + 1)
<1>1. /\ a \div b \in Nat /\ a % b \in 0 .. b - 1
      /\ a = b * (a \div b) + (a % b)
  OBVIOUS
<1> DEFINE q == a \div b
           r == a % b
<1> HIDE DEF q, r
<1>2. b * (q + 1) = b * q + b /\ b * q \in Nat
  BY <1>1 DEF q
<1>3. q \in Nat /\ r \in 0 .. b - 1 /\ a = b * q + r
  BY <1>1 DEF q, r
<1>4. b * q <= a /\ a < b * (q + 1) /\ b * (q + 1) \in Nat
  BY <1>2, <1>3
<1> QED BY <1>1, <1>2, <1>4 DEF q

(* A quotient of two positive integers by a unit is what it should be.     *)
LEMMA DivisionIs ==
  ASSUME NEW a \in Nat, NEW b \in Nat \ {0}, NEW n \in Nat,
         n * b <= a, a < (n + 1) * b
  PROVE  a \div b = n
<1> DEFINE q == a \div b
<1>1. q \in Nat /\ b * q <= a /\ a < b * (q + 1)
      /\ b * q \in Nat /\ b * (q + 1) \in Nat
  BY Division
<1> HIDE DEF q
<1>2. /\ n * b = b * n /\ b * n \in Nat
      /\ (n + 1) * b = b * (n + 1) /\ b * (n + 1) \in Nat
  OBVIOUS
<1>3. b * q < b * (n + 1) /\ b * n < b * (q + 1)
  BY <1>1, <1>2
<1>4. q < n + 1 /\ n < q + 1
  BY <1>1, <1>3, TimesCancel
<1> QED BY <1>1, <1>4 DEF q

(* The capacity in units of a float, brought back to an integer.           *)
LEMMA CapacityRange ==
  ASSUME NEW c \in 1 .. SegmentSize
  PROVE  /\ c \in Nat \ {0} /\ c < 2^Width
         /\ FloatOf[c] \div Unit \in Nat \ {0}
         /\ c < 2^FloatBits => FloatOf[c] \div Unit = c
<1>1. c \in Nat \ {0} /\ c < 2^Width /\ c <= 2^Width
  BY SizesRange
<1>2. FloatOf[c] \in Nat /\ FloatOf[c] >= Unit /\ Unit \in Nat \ {0}
  BY <1>1, FloatOfRange, UnitRange
<1>3. FloatOf[c] \div Unit \in Nat \ {0}
  <2> DEFINE f == FloatOf[c]
             q == f \div Unit
  <2>1. f \in Nat /\ f >= Unit
    BY <1>2
  <2> HIDE DEF f
  <2>2. q \in Nat /\ f < Unit * (q + 1)
    BY <1>2, <2>1, Division
  <2> HIDE DEF q
  <2>3. q # 0
    <3>1. q = 0 => Unit * (q + 1) = Unit
      BY <1>2
    <3> QED BY <1>2, <2>1, <2>2, <3>1
  <2> QED BY <2>2, <2>3 DEF q, f
<1>4. ASSUME c < 2^FloatBits PROVE FloatOf[c] \div Unit = c
  <2>1. FloatOf[c] = c * Unit
    BY <1>1, <1>4, FloatOfIsExact
  <2> DEFINE x == c * Unit
  <2>2. x \in Nat /\ c * Unit <= x /\ x < (c + 1) * Unit
    <3>1. (c + 1) * Unit = c * Unit + Unit /\ c * Unit \in Nat
      BY <1>1, <1>2
    <3> QED BY <1>2, <3>1
  <2> HIDE DEF x
  <2>3. x \div Unit = c
    BY <1>1, <1>2, <2>2, DivisionIs
  <2> QED BY <2>1, <2>3 DEF x
<1> QED BY <1>1, <1>3, <1>4

LEMMA IterCountType ==
  ASSUME NEW sz \in PartSizes, NEW c \in 1 .. SegmentSize
  PROVE  IterCount[sz][c] \in Nat
<1> DEFINE x == FloatOf[sz]
           b == FloatOf[c] \div Unit
           top == 2^(2 * (Width + FloatBits))
<1>1. x \in Nat /\ x < top /\ top \in Nat
  BY SizesRange, FloatOfRange, UnitRange
<1>2. b \in Nat \ {0}
  BY CapacityRange
<1>3. IterCount[sz][c] = Rounded(x, b) \div Unit
  BY DEF IterCount
<1> HIDE DEF x, b
<1>4. x < b * top
  <2> HIDE DEF top
  <2>1. 1 * top <= b * top /\ b * top \in Nat /\ 1 * top = top
    BY <1>1, <1>2, TimesMonotonic
  <2> QED BY <1>1, <2>1
<1>5. Rounded(x, b) \in Nat
  BY <1>1, <1>2, <1>4, RoundedRange
<1> QED BY <1>3, <1>5, Division, UnitRange

(* floorf(size / (float) capacity) is the quotient of the integers as long *)
(* as both have at most FloatBits bits.                                    *)
THEOREM FloatCountsBuffers ==
  \A sz \in PartSizes, c \in 1 .. SegmentSize :
    sz < 2^FloatBits /\ c < 2^FloatBits => IterCount[sz][c] = sz \div c
<1> SUFFICES ASSUME NEW sz \in PartSizes, NEW c \in 1 .. SegmentSize,
                    sz < 2^FloatBits, c < 2^FloatBits
             PROVE  IterCount[sz][c] = sz \div c
  OBVIOUS
<1> DEFINE n == sz \div c
           x == sz * Unit
<1>1. /\ sz \in Nat \ {0} /\ sz < 2^Width /\ sz <= 2^Width
      /\ c \in Nat \ {0} /\ c < 2^Width /\ Unit \in Nat \ {0}
      /\ 2^FloatBits \in Nat
  BY SizesRange, CapacityRange, UnitRange
<1>2. n \in Nat /\ c * n <= sz /\ sz < c * (n + 1)
  BY <1>1, Division
<1> HIDE DEF n
<1>3. FloatOf[sz] = x /\ FloatOf[c] \div Unit = c
  BY <1>1, FloatOfIsExact, CapacityRange
<1>4. IterCount[sz][c] = Rounded(x, c) \div Unit
  BY <1>3 DEF IterCount
<1>5. x \in Nat /\ x < c * (2^FloatBits * Unit) /\ x >= c * (n * Unit)
  <2> DEFINE t == 2^FloatBits
  <2>1. 1 * (sz * Unit) \in Nat /\ 1 * (sz * Unit) < 1 * (t * Unit)
    BY <1>1, UnitsFit
  <2> HIDE DEF t
  <2>2. (c * n) * Unit <= sz * Unit /\ c * n \in Nat
    <3>1. c * n \in Nat
      BY <1>1, <1>2
    <3> QED BY <1>1, <1>2, <3>1, TimesMonotonic
  <2>3. (c * n) * Unit = c * (n * Unit)
    BY <1>1, <1>2
  <2> DEFINE z == t * Unit
  <2>4. z \in Nat /\ x \in Nat /\ x < z
    <3>1. t \in Nat
      BY <1>1 DEF t
    <3> QED BY <1>1, <2>1, <3>1
  <2> HIDE DEF z
  <2>5. 1 * z <= c * z /\ c * z \in Nat /\ 1 * z = z
    BY <1>1, <2>4, TimesMonotonic
  <2>6. x < c * z
    BY <2>4, <2>5
  <2> QED BY <2>2, <2>3, <2>4, <2>6 DEF z, t
<1>6. Rounded(x, c) \in Nat /\ n * Unit <= Rounded(x, c)
  BY <1>1, <1>2, <1>5, RoundedAtLeast
<1>7. Rounded(x, c) < (n + 1) * Unit
  <2> DEFINE m == n + 1
  <2>1. m \in Nat /\ sz < c * m
    BY <1>2
  <2> HIDE DEF m
  <2>2. Rounded(x, c) < m * Unit
    BY <1>1, <2>1, RoundedStaysBelow
  <2> QED BY <2>2 DEF m
<1> HIDE DEF x
<1>8. Rounded(x, c) \div Unit = n
  BY <1>1, <1>2, <1>6, <1>7, DivisionIs
<1> QED BY <1>4, <1>8 DEF n

(* As long as n partitions are not the whole file, the loop counts on: for *)
(* sizes of at most FloatBits bits the estimate is never too small.        *)
(* The estimate for sizes that a float tells apart.                        *)
LEMMA SegNumOfSmallFile ==
  ASSUME NEW file \in FileSizes, NEW sz \in PartSizes,
         file < 2^FloatBits, sz < 2^FloatBits,
         NEW n \in Nat, n * sz < file
  PROVE  /\ FloatOf[n] \in Int /\ SegNum[file][sz] \in Int
         /\ FloatOf[n] < SegNum[file][sz]
<1> DEFINE q == file \div sz
           x == file * Unit
           t == 2^FloatBits
           est == Rounded(x, sz)
<1>1. /\ sz \in Nat \ {0} /\ sz < 2^Width /\ sz <= 2^Width /\ sz < t
      /\ file \in Nat /\ file < 2^Width /\ file <= 2^Width /\ file < t
      /\ Unit \in Nat \ {0} /\ t \in Nat \ {0} /\ 2^Width \in Nat
  BY SizesRange, UnitRange
<1>2. n < file /\ n <= 2^Width /\ n < t
  <2>1. n * 1 <= n * sz /\ n * sz \in Nat /\ n * 1 = n
    <3>1. 1 * n <= sz * n /\ n * sz = sz * n /\ n * 1 = n /\ sz * n \in Nat
      BY <1>1, TimesMonotonic
    <3> QED BY <3>1
  <2> HIDE DEF t
  <2> QED BY <1>1, <2>1
<1>3. FloatOf[n] = n * Unit /\ n * Unit \in Nat
  BY <1>1, <1>2, FloatOfIsExact
<1>4. FloatOf[file] = x /\ x \in Nat
  BY <1>1, FloatOfIsExact
<1>5. FloatOf[sz] \div Unit = sz
  <2>1. FloatOf[sz] = sz * Unit
    BY <1>1, FloatOfIsExact
  <2> DEFINE y == sz * Unit
  <2>2. y \in Nat /\ sz * Unit <= y /\ y < (sz + 1) * Unit
    <3>1. (sz + 1) * Unit = sz * Unit + Unit /\ sz * Unit \in Nat
      BY <1>1
    <3> QED BY <1>1, <3>1
  <2> HIDE DEF y
  <2>3. y \div Unit = sz
    BY <1>1, <2>2, DivisionIs
  <2> QED BY <2>1, <2>3 DEF y
<1>6. SegNum[file][sz] =
        IF file % sz = 0 THEN est ELSE Rounded(est + Unit, 1)
  BY <1>4, <1>5 DEF SegNum
<1>7. /\ q \in Nat /\ file % sz \in 0 .. sz - 1
      /\ file = sz * q + (file % sz)
      /\ sz * q \in Nat /\ sz * (q + 1) \in Nat
      /\ sz * q <= file /\ file < sz * (q + 1)
  BY <1>1, Division
<1> HIDE DEF q
<1>8. x < sz * (t * Unit) /\ x >= sz * (q * Unit)
  <2>1. 1 * (file * Unit) \in Nat /\ 1 * (file * Unit) < 1 * (t * Unit)
    BY <1>1, UnitsFit
  <2> HIDE DEF t
  <2>2. (sz * q) * Unit <= file * Unit
    BY <1>1, <1>7, TimesMonotonic
  <2>3. (sz * q) * Unit = sz * (q * Unit)
    BY <1>1, <1>7
  <2> DEFINE z == t * Unit
  <2>4. z \in Nat /\ x < z
    BY <1>1, <1>4, <2>1
  <2> HIDE DEF z
  <2>5. 1 * z <= sz * z /\ sz * z \in Nat /\ 1 * z = z
    BY <1>1, <2>4, TimesMonotonic
  <2>6. x < sz * z
    BY <1>4, <2>4, <2>5
  <2> QED BY <2>2, <2>3, <2>6 DEF z
<1>9. est \in Nat /\ est >= q * Unit
  BY <1>1, <1>4, <1>7, <1>8, RoundedAtLeast
<1>10. CASE file % sz = 0
  <2>1. n < q
    <3>1. sz * n < sz * q
      <4>1. sz * n = n * sz
        BY <1>1
      <4> QED BY <1>7, <1>10, <4>1
    <3> QED BY <1>1, <1>7, <3>1, TimesCancel
  <2>2. (n + 1) * Unit <= q * Unit /\ q * Unit \in Nat
    BY <1>1, <1>7, <2>1, TimesMonotonic
  <2>3. (n + 1) * Unit = n * Unit + Unit
    BY <1>1
  <2>4. n * Unit < est /\ est \in Int
    BY <1>1, <1>3, <1>9, <2>2, <2>3
  <2> HIDE DEF est
  <2> QED BY <1>3, <1>6, <1>10, <2>4
<1>11. CASE file % sz # 0
  <2> DEFINE m == q + 1
  <2>1. m \in Nat /\ n <= q /\ n < m /\ file < sz * m
    <3>1. sz * n < sz * (q + 1)
      <4>1. sz * n = n * sz /\ n * sz \in Nat
        BY <1>1
      <4> QED BY <1>1, <1>7, <4>1
    <3>2. n < q + 1
      BY <1>1, <1>7, <3>1, TimesCancel
    <3> QED BY <1>7, <3>2
  <2>2. m + 1 <= t
    <3>1. 2 * q <= sz * q /\ 2 * q \in Nat
      <4>1. 2 <= sz
        BY <1>1, <1>7, <1>11
      <4> QED BY <1>1, <1>7, <4>1, TimesMonotonic
    <3>2. 2 * q + 1 <= file
      BY <1>1, <1>7, <1>11, <3>1
    <3>3. q = 0 => t >= 2
      BY <1>1, <3>2
    <3> HIDE DEF t
    <3> QED BY <1>1, <1>7, <3>2, <3>3
  <2> HIDE DEF m
  <2>3. est < m * Unit /\ m * Unit \in Nat
    <3>1. Rounded(file * Unit, sz) < m * Unit
      BY <1>1, <2>1, RoundedStaysBelow
    <3>2. m * Unit \in Nat
      BY <1>1, <2>1
    <3> QED BY <3>1, <3>2
  <2>4. est + Unit >= m * Unit
    <3>1. m * Unit = q * Unit + Unit /\ q * Unit \in Nat
      BY <1>1, <1>7 DEF m
    <3> HIDE DEF est
    <3> QED BY <1>1, <1>9, <3>1
  <2>5. est + Unit < t * Unit
    <3>1. (m + 1) * Unit <= t * Unit /\ t * Unit \in Nat
      BY <1>1, <2>1, <2>2, TimesMonotonic
    <3>2. (m + 1) * Unit = m * Unit + Unit
      BY <1>1, <2>1
    <3> HIDE DEF est, t
    <3> QED BY <1>1, <1>9, <2>3, <3>1, <3>2
  <2> DEFINE y == est + Unit
  <2>6. y \in Nat
    BY <1>1, <1>9
  <2>7. y < 1 * (2^FloatBits * Unit) /\ y >= 1 * (m * Unit)
    <3> HIDE DEF y
    <3>1. y < t * Unit /\ y >= m * Unit
      BY <2>4, <2>5 DEF y
    <3> DEFINE a == 2^FloatBits * Unit
               b == m * Unit
    <3>2. a \in Nat /\ b \in Nat /\ y < a /\ y >= b
      BY <1>1, <2>3, <3>1
    <3> HIDE DEF a, b
    <3>3. y < 1 * a /\ y >= 1 * b
      BY <3>2
    <3> QED BY <3>3 DEF a, b
  <2> HIDE DEF y
  <2>8. Rounded(y, 1) \in Nat /\ Rounded(y, 1) >= m * Unit
    BY <2>1, <2>6, <2>7, RoundedAtLeast
  <2>9. n * Unit < m * Unit
    <3>1. (n + 1) * Unit <= m * Unit
      BY <1>1, <2>1, TimesMonotonic
    <3>2. (n + 1) * Unit = n * Unit + Unit
      BY <1>1
    <3> QED BY <1>1, <1>3, <2>3, <3>1, <3>2
  <2>10. SegNum[file][sz] = Rounded(y, 1)
    BY <1>6, <1>11 DEF y
  <2> QED BY <1>3, <2>3, <2>8, <2>9, <2>10
<1> QED BY <1>10, <1>11

(* A number of a file's size is estimated to a part in 2^FloatBits/6.      *)
LEMMA QuotientIsClose ==
  ASSUME NEW file \in FileSizes, NEW sz \in PartSizes, 32 <= 2^FloatBits
  PROVE  LET low == Rounded(FloatOf[file], sz)
         IN  /\ low \in Nat
             /\ low + Unit < 1 * 2^(2 * (Width + FloatBits))
             /\ 2^FloatBits * (file * Unit)
                  <= 2^FloatBits * (sz * low) + 6 * (file * Unit)
                     + 2 * (2^FloatBits * sz)
<1> DEFINE x == file * Unit
           f == FloatOf[file]
           low == Rounded(f, sz)
           t == 2^FloatBits
           v == 2^Width
           top == 2^(2 * (Width + FloatBits))
<1>1. /\ sz \in Nat \ {0} /\ file \in Nat /\ file + 1 <= v /\ v \in Nat \ {0}
      /\ Unit \in Nat \ {0} /\ t \in Nat \ {0} /\ top \in Nat
      /\ top = (t * Unit) * v /\ t >= 32
  BY SizesRange, UnitRange, TopRange
<1>2. f = Rounded(x, 1)
  <2>1. file \in 0 .. 2^Width
    BY <1>1
  <2> QED BY <2>1 DEF FloatOf
<1> HIDE DEF t, v, top
<1>3. x \in Nat /\ 4 * x + Unit < top
  <2> DEFINE y == v * Unit
  <2>1. x + Unit <= y /\ x \in Nat /\ y \in Nat
    <3>1. (file + 1) * Unit <= v * Unit /\ v * Unit \in Nat
      BY <1>1, TimesMonotonic
    <3>2. (file + 1) * Unit = x + Unit
      BY <1>1
    <3> QED BY <1>1, <3>1, <3>2
  <2>2. 32 * y <= t * y /\ t * y \in Nat
    BY <1>1, <2>1, TimesMonotonic
  <2>3. t * y = top
    BY <1>1
  <2> HIDE DEF y, x
  <2> QED BY <1>1, <2>1, <2>2, <2>3
<1> HIDE DEF x
<1>4. x < 1 * top /\ f \in Nat /\ f <= 2 * x
      /\ t * x <= t * (1 * f) + 2 * x + t * 1
  <2>1. x < 1 * top
    BY <1>1, <1>3
  <2> QED BY <1>1, <1>2, <1>3, <2>1, RoundedRange, RoundedIsClose DEF top, t
<1> HIDE DEF f
<1>5. f < sz * top
  <2>1. 1 * top <= sz * top /\ sz * top \in Nat /\ 1 * top = top
    BY <1>1, TimesMonotonic
  <2> QED BY <1>1, <1>3, <1>4, <2>1
<1>6. /\ low \in Nat /\ low <= 2 * f
      /\ t * f <= t * (sz * low) + 2 * f + t * sz
  BY <1>1, <1>4, <1>5, RoundedRange, RoundedIsClose DEF top, t
<1> HIDE DEF low
<1>7. low + Unit < 1 * top
  BY <1>1, <1>3, <1>4, <1>6
<1>8. t * x <= t * (sz * low) + 6 * x + 2 * (t * sz)
  <2>1. 1 * t <= sz * t /\ sz * t = t * sz /\ 1 * t = t /\ sz * t \in Nat
    BY <1>1, TimesMonotonic
  <2>2. t * (1 * f) = t * f /\ t * f \in Nat /\ t * x \in Nat
        /\ t * (sz * low) \in Nat
    BY <1>1, <1>3, <1>4, <1>6
  <2> DEFINE a == t * x
             b == t * f
             c == t * (sz * low)
             d == t * sz
  <2>3. a \in Nat /\ b \in Nat /\ c \in Nat /\ d \in Nat /\ t <= d
        /\ a <= b + 2 * x + t /\ b <= c + 2 * f + d
    <3>1. t * 1 = t
      BY <1>1
    <3>2. t * x <= t * f + 2 * x + t
      BY <1>4, <2>2, <3>1
    <3> QED BY <1>1, <1>6, <2>1, <2>2, <3>2
  <2> HIDE DEF a, b, c, d
  <2>4. a <= c + 6 * x + 2 * d
    BY <1>1, <1>3, <1>4, <2>3
  <2> QED BY <2>4 DEF a, c, d
<1> QED BY <1>6, <1>7, <1>8 DEF low, f, x, t, top

(* The estimate for a file of any size, when it is cut into far fewer      *)
(* partitions than a float tells apart: what rounding loses is less than   *)
(* the partition that the code counts on top.                              *)
LEMMA SegNumOfFewParts ==
  ASSUME NEW file \in FileSizes, NEW sz \in PartSizes, sz < 2^FloatBits,
         16 * (file \div sz + 2) <= 2^FloatBits,
         NEW n \in Nat, n * sz < file
  PROVE  /\ FloatOf[n] \in Int /\ SegNum[file][sz] \in Int
         /\ FloatOf[n] < SegNum[file][sz]
<1> DEFINE m == file \div sz
           x == file * Unit
           y == sz * Unit
           t == 2^FloatBits
           low == Rounded(FloatOf[file], sz)
<1>1. /\ sz \in Nat \ {0} /\ sz <= 2^Width /\ sz < t
      /\ file \in Nat /\ file < 2^Width
      /\ Unit \in Nat \ {0} /\ t \in Nat \ {0} /\ 2^Width \in Nat
      /\ x \in Nat /\ y \in Nat \ {0}
  <2>1. /\ sz \in Nat \ {0} /\ sz <= 2^Width /\ sz < t
        /\ file \in Nat /\ file < 2^Width
        /\ Unit \in Nat \ {0} /\ t \in Nat \ {0} /\ 2^Width \in Nat
    BY SizesRange, UnitRange
  <2> HIDE DEF t
  <2> QED BY <2>1
<1>2. /\ m \in Nat /\ file % sz \in 0 .. sz - 1
      /\ file = sz * m + (file % sz)
      /\ sz * m \in Nat /\ sz * (m + 1) \in Nat
      /\ sz * m <= file /\ file < sz * (m + 1)
  BY <1>1, Division
<1>3. 16 * (m + 2) <= t /\ t >= 32
  BY <1>1, <1>2
<1>4. /\ low \in Nat /\ low + Unit < 1 * 2^(2 * (Width + FloatBits))
      /\ t * x <= t * (sz * low) + 6 * x + 2 * (t * sz)
  BY <1>3, QuotientIsClose
<1>5. FloatOf[sz] \div Unit = sz
  <2>1. FloatOf[sz] = y
    BY <1>1, FloatOfIsExact
  <2>2. sz * Unit <= y /\ y < (sz + 1) * Unit
    <3>1. (sz + 1) * Unit = sz * Unit + Unit
      BY <1>1
    <3> QED BY <1>1, <3>1
  <2>3. y \div Unit = sz
    <3> HIDE DEF y
    <3> QED BY <1>1, <2>2, DivisionIs
  <2> QED BY <2>1, <2>3
<1>6. SegNum[file][sz] =
        IF file % sz = 0 THEN low ELSE Rounded(low + Unit, 1)
  BY <1>5 DEF SegNum
<1> HIDE DEF m
<1>7. n <= m /\ (file % sz = 0 => n + 1 <= m)
  <2>1. sz * n = n * sz /\ n * sz \in Nat
    BY <1>1
  <2>2. n < m + 1
    BY <1>1, <1>2, <2>1, TimesCancel
  <2>3. file % sz = 0 => sz * n < sz * m
    BY <1>1, <1>2, <2>1
  <2>4. file % sz = 0 => n < m
    BY <1>1, <1>2, <2>3, TimesCancel
  <2> QED BY <1>2, <2>2, <2>4
<1>8. FloatOf[n] = n * Unit /\ n * Unit \in Nat
  <2>1. n < t
    BY <1>1, <1>2, <1>3, <1>7
  <2>2. n <= 2^Width
    <3>1. 1 * n <= sz * n /\ sz * n = n * sz /\ 1 * n = n /\ n * sz \in Nat
      BY <1>1, TimesMonotonic
    <3> QED BY <1>1, <3>1
  <2> QED BY <1>1, <2>1, <2>2, FloatOfIsExact
<1>9. 64 * sz <= y
  <2>1. Unit >= 64
    <3>1. PICK v \in Nat : v = 2^Width /\ v >= 2 /\ Unit = v * t
      <4>1. 2^Width >= 2
        BY <1>1, <1>2, <1>7, SizesRange
      <4>2. Unit = 2^Width * t
        BY Exponents DEF Unit
      <4> QED BY <1>1, <4>1, <4>2
    <3>2. 2 * t <= v * t
      BY <1>1, <3>1, TimesMonotonic
    <3> HIDE DEF t
    <3> QED BY <1>1, <1>3, <3>1, <3>2
  <2>2. 64 * sz <= Unit * sz /\ Unit * sz = y
    BY <1>1, <2>1, TimesMonotonic
  <2> QED BY <2>2
<1> HIDE DEF t, low
(* All that is compared, in products of t*y, the size of a partition.      *)
<1>10. /\ m * y \in Nat /\ m * y <= x /\ x <= (m + 1) * y
       /\ t * y \in Nat \ {0}
  <2>1. (sz * m) * Unit <= file * Unit /\ file * Unit <= (sz * (m + 1)) * Unit
    BY <1>1, <1>2, TimesMonotonic
  <2>2. /\ (sz * m) * Unit = m * y /\ (sz * (m + 1)) * Unit = (m + 1) * y
    BY <1>1, <1>2
  <2> HIDE DEF y
  <2>3. m * y \in Nat /\ t * y \in Nat \ {0}
    BY <1>1, <1>2
  <2> QED BY <2>1, <2>2, <2>3
<1>11. 16 * ((m + 2) * y) <= t * y /\ (m + 2) * y = (m + 1) * y + y
       /\ (m + 1) * y \in Nat
  <2> HIDE DEF y
  <2>1. (16 * (m + 2)) * y <= t * y
    BY <1>1, <1>2, <1>3, TimesMonotonic
  <2> QED BY <1>1, <1>2, <2>1
<1>12. 64 * (t * sz) <= t * y /\ t * sz \in Nat
  <2>1. (64 * sz) * t <= y * t /\ y * t = t * y
    <3> HIDE DEF y
    <3> QED BY <1>1, <1>9, TimesMonotonic
  <2> HIDE DEF y
  <2> QED BY <1>1, <2>1
<1>13. 16 * (t * x) <= 16 * (t * (sz * low)) + 7 * (t * y)
       /\ t * x \in Nat /\ t * (sz * low) \in Nat
  <2>1. t * x \in Nat /\ t * (sz * low) \in Nat
    BY <1>1, <1>4
  <2> DEFINE a == t * x
             b == t * (sz * low)
             c == t * sz
             d == t * y
             e == (m + 1) * y
  <2> HIDE DEF x, y
  <2>2. a \in Nat /\ b \in Nat /\ c \in Nat /\ d \in Nat /\ e \in Nat
        /\ a <= b + 6 * x + 2 * c /\ 64 * c <= d
        /\ x <= e /\ 16 * (e + y) <= d
    BY <1>1, <1>4, <1>10, <1>11, <1>12, <2>1
  <2> HIDE DEF a, b, c, d, e
  <2>3. 16 * a <= 16 * b + 7 * d
    BY <1>1, <2>2
  <2> QED BY <2>1, <2>3 DEF a, b, d
<1>14. t * (m * y) <= t * x /\ t * (m * y) \in Nat
  <2> HIDE DEF x, y
  <2> QED BY <1>1, <1>10, TimesMonotonic
<1>15. CASE file % sz = 0
  <2> SUFFICES ASSUME low <= n * Unit PROVE FALSE
    <3>1. low \in Nat /\ SegNum[file][sz] = low
      BY <1>4, <1>6, <1>15
    <3> QED BY <1>8, <3>1
  <2>1. t * (sz * low) <= t * (n * y)
    <3>1. low * sz <= (n * Unit) * sz /\ low * sz = sz * low
          /\ (n * Unit) * sz \in Nat
      BY <1>1, <1>4, <1>8, TimesMonotonic
    <3>2. (n * Unit) * sz = n * y
      BY <1>1
    <3>3. sz * low <= n * y /\ sz * low \in Nat /\ n * y \in Nat
      BY <1>1, <1>4, <3>1, <3>2
    <3> HIDE DEF y
    <3> QED BY <1>1, <3>3, TimesMonotonic
  <2>2. t * (n * y) + t * y <= t * (m * y) /\ t * (n * y) \in Nat
    <3> HIDE DEF y
    <3>1. (n + 1) * (t * y) <= m * (t * y)
      BY <1>2, <1>7, <1>10, <1>15, TimesMonotonic
    <3>2. /\ (n + 1) * (t * y) = t * (n * y) + t * y
          /\ m * (t * y) = t * (m * y) /\ t * (n * y) \in Nat
      BY <1>1, <1>2
    <3> QED BY <3>1, <3>2
  <2> DEFINE a == t * x
             b == t * (sz * low)
             c == t * (m * y)
             d == t * y
             e == t * (n * y)
  <2>3. a \in Nat /\ b \in Nat /\ c \in Nat /\ d \in Nat \ {0} /\ e \in Nat
        /\ 16 * a <= 16 * b + 7 * d /\ c <= a /\ b <= e /\ e + d <= c
    BY <1>10, <1>13, <1>14, <2>1, <2>2
  <2> HIDE DEF a, b, c, d, e
  <2> QED BY <2>3
<1>16. CASE file % sz # 0
  <2> DEFINE z == low + Unit
             r == Rounded(z, 1)
  <2>1. z \in Nat /\ z < 1 * 2^(2 * (Width + FloatBits))
    BY <1>1, <1>4
  <2>2. r \in Nat /\ t * z <= t * (1 * r) + 2 * z + t * 1
    <3> HIDE DEF z
    <3> QED BY <2>1, RoundedIsClose DEF t
  <2>3. SegNum[file][sz] = r
    BY <1>6, <1>16
  <2> HIDE DEF r, z
  <2>4. n * Unit <= m * Unit /\ m * Unit \in Nat
    BY <1>1, <1>2, <1>7, TimesMonotonic
  <2> SUFFICES ASSUME r <= m * Unit PROVE FALSE
    BY <1>8, <2>2, <2>3, <2>4
  <2>5. t * z <= t * (m * Unit) + 2 * z + t
        /\ t * (m * Unit) \in Nat /\ t * z \in Nat
    <3>1. t * r <= t * (m * Unit) /\ t * (m * Unit) \in Nat /\ t * r \in Nat
      BY <1>1, <2>2, <2>4, TimesMonotonic
    <3>2. t * (1 * r) = t * r /\ t * 1 = t /\ t * z \in Nat
      BY <1>1, <2>1, <2>2
    <3> QED BY <1>1, <2>1, <2>2, <3>1, <3>2
  <2>6. CASE z <= (m + 2) * Unit
    <3>1. t * z <= t * (m * Unit) + 2 * ((m + 2) * Unit) + t
          /\ (m + 2) * Unit \in Nat
      <4>1. (m + 2) * Unit \in Nat
        BY <1>1, <1>2
      <4> QED BY <1>1, <2>1, <2>5, <2>6, <4>1
    <3> DEFINE p == t * (m * Unit) + 2 * ((m + 2) * Unit) + t
    <3>2. (t * z) * sz <= p * sz
      <4>1. p \in Nat
        BY <1>1, <2>5, <3>1
      <4> QED BY <1>1, <2>5, <3>1, <4>1, TimesMonotonic
    <3>3. (t * z) * sz = t * (sz * low) + t * y
      BY <1>1, <1>4 DEF z
    <3>4. p * sz = t * (m * y) + 2 * ((m + 2) * y) + t * sz
      <4>1. /\ (t * (m * Unit)) * sz = t * (m * y)
            /\ ((m + 2) * Unit) * sz = (m + 2) * y
        BY <1>1, <1>2
      <4> DEFINE a == t * (m * Unit)
                 b == (m + 2) * Unit
      <4>2. a \in Nat /\ b \in Nat
        BY <2>5, <3>1
      <4> HIDE DEF a, b
      <4>3. (a + 2 * b + t) * sz = a * sz + 2 * (b * sz) + t * sz
        BY <1>1, <4>2
      <4> QED BY <4>1, <4>3 DEF a, b
    <3> DEFINE a == t * x
               b == t * (sz * low)
               c == t * (m * y)
               d == t * y
               e == (m + 2) * y
               g == t * sz
    <3>5. e \in Nat
      BY <1>1, <1>11
    <3>6. a \in Nat /\ b \in Nat /\ c \in Nat /\ d \in Nat \ {0} /\ g \in Nat
          /\ 16 * a <= 16 * b + 7 * d /\ c <= a
          /\ b + d <= c + 2 * e + g /\ 16 * e <= d /\ 64 * g <= d
      BY <1>10, <1>11, <1>12, <1>13, <1>14, <3>2, <3>3, <3>4
    <3> HIDE DEF a, b, c, d, e, g
    <3> QED BY <3>5, <3>6
  <2>7. CASE z >= (m + 2) * Unit
    <3> DEFINE s == t - 2
    <3>1. s \in Nat /\ t = s + 2
      BY <1>1, <1>3
    <3> HIDE DEF s
    <3>2. ((m + 2) * Unit) * s <= z * s /\ z * s = s * z
          /\ s * z \in Nat /\ ((m + 2) * Unit) * s \in Nat
      <4>1. (m + 2) * Unit \in Nat
        BY <1>1, <1>2
      <4> QED BY <2>1, <2>7, <3>1, <4>1, TimesMonotonic
    <3>3. t * z = s * z + 2 * z
      BY <2>1, <3>1
    <3>4. ((m + 2) * Unit) * s = t * (m * Unit) + 2 * (t * Unit)
                                 - 2 * ((m + 2) * Unit)
      BY <1>1, <1>2, <3>1
    <3>5. 16 * ((m + 2) * Unit) <= t * Unit /\ t * Unit \in Nat
          /\ (m + 2) * Unit \in Nat
      <4>1. (16 * (m + 2)) * Unit <= t * Unit
        BY <1>1, <1>2, <1>3, TimesMonotonic
      <4> QED BY <1>1, <1>2, <4>1
    <3>6. 1 * t <= Unit * t /\ 1 * t = t /\ Unit * t = t * Unit
      BY <1>1, TimesMonotonic
    <3> DEFINE a == t * (m * Unit)
               b == t * Unit
               c == (m + 2) * Unit
               d == s * z
    <3>7. /\ a \in Nat /\ b \in Nat /\ c \in Nat /\ d \in Nat
          /\ d + 2 * z <= a + 2 * z + t /\ a + 2 * b - 2 * c <= d
          /\ 16 * c <= b /\ t <= b
      BY <2>5, <3>2, <3>3, <3>4, <3>5, <3>6
    <3> HIDE DEF a, b, c, d
    <3> QED BY <1>1, <2>1, <3>7
  <2>8. z <= (m + 2) * Unit \/ z >= (m + 2) * Unit
    <3>1. (m + 2) * Unit \in Nat
      BY <1>1, <1>2
    <3> QED BY <2>1, <3>1
  <2> QED BY <2>6, <2>7, <2>8
<1> QED BY <1>15, <1>16

(* The loop does not end before its partitions reach the end of the file.  *)
LEMMA SegNumIsEnough ==
  ASSUME NEW file \in FileSizes, NEW sz \in PartSizes, sz < 2^FloatBits,
         \/ file < 2^FloatBits
         \/ 16 * (file \div sz + 2) <= 2^FloatBits,
         NEW n \in Nat, n * sz < file
  PROVE  /\ FloatOf[n] \in Int /\ SegNum[file][sz] \in Int
         /\ FloatOf[n] < SegNum[file][sz]
BY SegNumOfSmallFile, SegNumOfFewParts

-----------------------------------------------------------------------------
(* The invariant is inductive.                                             *)

LEMMA RoundRange ==
  ASSUME Inv
  PROVE  /\ TailPart \in 0 .. cap - 1 /\ RoundSize \in 0 .. cap
         /\ RoundText \in 0 .. Unread
         /\ pass \in Nat /\ iterCount \in Nat
         /\ InTail \/ TailPart > 0 => RoundSize <= cap
         /\ RoundLeft => RoundSize > 0 /\ pass <= iterCount
<1>1. /\ size \in Nat /\ iterCount \in Nat /\ pass \in 0 .. iterCount + 1
      /\ RingIsSound
  BY DEF Inv, TypeOK, CallIsSound
<1>2. cap \in Nat \ {0} /\ Unread \in 0 .. cap
  BY <1>1, Numbers, UnreadRange
<1>3. TailPart \in 0 .. cap - 1
  BY <1>1, <1>2 DEF TailPart
<1> QED BY <1>1, <1>2, <1>3
        DEF RoundSize, RoundText, RoundLeft, InTail, Smaller

LEMMA BufferKept ==
  ASSUME UNCHANGED bufVars
  PROVE  /\ RingIsSound' = RingIsSound
         /\ Unread' = Unread /\ Place' = Place
BY DEF bufVars, RingIsSound, Unread, Place, Buffer!TypeOK,
       Buffer!CursorsInWindow, Buffer!Dist

(* A round writes the characters from the read position on.                *)
LEMMA WriteMeaning ==
  ASSUME Inv, Write
  PROVE  \E text \in Seq(0 .. MaxInput) :
           /\ written' = written \o text /\ Len(text) = RoundText
           /\ \A i \in 1 .. RoundText :
                text[i] = slots[Buffer!At(cur, i - 1)]
<1> DEFINE text == Buffer!Text(cur, Buffer!At(cur, RoundText))
<1>1. RingIsSound /\ InRound /\ beg = cur
  BY DEF Inv, Write, RoundsHaveRoom, InRound
<1>2. TailPart \in Nat /\ RoundText \in 0 .. Unread
  BY RoundRange
<1>3. written' = written \o text
  <2>1. CASE InTail
    <3>1. written' = written \o Buffer!Text(beg, Buffer!Moved(beg, TailPart))
      BY <2>1 DEF Write
    <3>2. Buffer!Moved(beg, TailPart) = Buffer!Advance(cur, TailPart)
      BY <1>1, <1>2 DEF Buffer!Moved
    <3>3. Buffer!Advance(cur, TailPart) = Buffer!At(cur, RoundText)
      BY <1>1, <1>2, <2>1, AdvanceMeaning DEF RoundText, RoundSize
    <3> QED BY <1>1, <3>1, <3>2, <3>3
  <2>2. CASE ~InTail
    <3>1. written' = written \o Buffer!Text(cur, end)
      BY <2>2 DEF Write
    <3>2. RoundText = Unread
      BY <1>1, <2>2, UnreadRange, Numbers DEF RoundText, RoundSize, Smaller
    <3> QED BY <1>1, <3>1, <3>2, UnreadRange
  <2> QED BY <2>1, <2>2
<1>4. /\ text \in Seq(0 .. MaxInput) /\ Len(text) = RoundText
      /\ \A i \in 1 .. RoundText : text[i] = slots[Buffer!At(cur, i - 1)]
  BY <1>1, <1>2, TextMeaning
<1> QED BY <1>3, <1>4

LEMMA InitInv == Init => Inv
<1> SUFFICES ASSUME Init PROVE Inv
  OBVIOUS
<1>1. /\ alloc = IF cap = 0 THEN 0 ELSE cap + 1
      /\ beg = 0 /\ cur = 0 /\ end = 0 /\ taken = 0 /\ supplied = 0
      /\ slots = [x \in Buffer!Slot |-> Buffer!Garbage]
      /\ good = TRUE /\ it = [beg |-> 0, cur |-> 0, at |-> 0]
      /\ fresh = TRUE /\ ret = Buffer!Done("none", 0)
  BY DEF Init, Buffer!Init
<1>2. cap \in 1 .. SegmentSize /\ SegmentSize \in Nat
  BY RingBounds DEF Init
<1>3. Buffer!TypeOK
  <2>1. slots \in [Buffer!Slot -> 0 .. MaxInput]
    BY <1>1, RingBounds DEF Buffer!Garbage
  <2>2. ret \in [op : Buffer!Outcomes, n : Int]
    BY <1>1 DEF Buffer!Done, Buffer!Outcomes
  <2>3. it \in [beg : 0 .. Buffer!Dangling, cur : Buffer!Slot,
                at : 0 .. MaxInput]
    BY <1>1, RingBounds DEF Buffer!Dangling, Buffer!Slot
  <2> QED BY <1>1, <1>2, <2>1, <2>2, <2>3, RingBounds DEF Buffer!TypeOK
<1>4. RingIsSound /\ Unread = 0
  BY <1>1, <1>2, <1>3
     DEF RingIsSound, Unread, Buffer!CursorsInWindow, Buffer!Dist
<1>5. /\ pc = "idle" /\ calls = 0 /\ size = 1 /\ iterCount = 0 /\ base = 0
      /\ part = 0 /\ pass = 0 /\ written = <<>> /\ starts = <<>>
      /\ lastPartLen = 0 /\ failed = FALSE /\ clean = TRUE /\ least = 0
  BY DEF Init
<1>6. TypeOK
  <2>1. written \in Seq(0 .. MaxInput) /\ starts \in Seq(Nat)
    BY <1>5, EmptySeq
  <2>2. calls \in 0 .. MaxCalls
    BY <1>5, SplitAssumption
  <2>3. part \in Nat /\ pass \in 0 .. iterCount + 1 /\ lastPartLen \in Nat
    <3>1. part = 0 /\ pass = 0 /\ iterCount = 0 /\ lastPartLen = 0
      BY <1>5
    <3> QED BY <3>1
  <2>4. {failed, clean} \subseteq BOOLEAN
    <3>1. failed = FALSE /\ clean = TRUE
      BY <1>5
    <3> QED BY <3>1, Zenon
  <2> QED BY <1>3, <1>5, <2>1, <2>2, <2>3, <2>4 DEF TypeOK
<1>7. ~Running /\ ~InRound
  BY <1>5 DEF Running, InRound
<1>8. CallIsSound
  BY <1>5, <1>7 DEF CallIsSound
<1>9. StreamInFile
  <2>1. calls * 2^Width = 0
    BY <1>5, UnitRange
  <2> QED BY <1>1, <1>5, <1>7, <2>1 DEF StreamInFile
<1>10. RoundsHaveRoom
  BY <1>2, <1>4, <1>7 DEF RoundsHaveRoom
<1> QED BY <1>4, <1>6, <1>8, <1>9, <1>10 DEF Inv

(* The steps of a call keep its parameters.                                *)
LEMMA ParametersKept ==
  ASSUME CallIsSound, Running' => Running,
         starts' = starts \/ Running,
         UNCHANGED <<size, fileSize, segNum, iterCount, calls, cap>>
  PROVE  CallIsSound'
BY DEF CallIsSound

LEMMA StreamKept ==
  ASSUME StreamInFile, Running' => Running, RingIsSound,
         UNCHANGED <<fileSize, calls, base, supplied, least>>,
         taken' \in Nat, taken <= taken', ~good' => good = good' \/ taken' = supplied
  PROVE  StreamInFile'
BY Numbers DEF StreamInFile

LEMMA ZeroInRange == \A n \in Nat : 0 \in 0 .. n + 1
OBVIOUS

LEMMA OpenPartInv ==
  ASSUME Inv, OpenPart
  PROVE  Inv'
<1>1. /\ pc = "loop" /\ pc' = "copy" /\ pass' = 0
      /\ starts' = Append(starts, Len(written))
      /\ UNCHANGED <<bufVars, callVars, part, written>>
  BY DEF OpenPart
<1>2. RingIsSound' /\ Unread' = Unread /\ RingIsSound
  BY <1>1, BufferKept DEF Inv
<1>3. /\ Running
      /\ ~InRound /\ ~InRound'
  BY <1>1 DEF Running, InRound
<1>4. CallIsSound'
  BY <1>1, <1>3, ParametersKept DEF Inv, callVars, inputVars, bufVars
<1>5. StreamInFile'
  BY <1>1, <1>3 DEF Inv, StreamInFile, callVars, inputVars, fileVars, bufVars
<1>6. RoundsHaveRoom'
  BY <1>1, <1>2, <1>3 DEF Inv, RoundsHaveRoom, bufVars
<1>7. TypeOK'
  <2>1. starts' \in Seq(Nat)
    <3>1. starts \in Seq(Nat) /\ Len(written) \in Nat
      BY LenProperties DEF Inv, TypeOK
    <3> QED BY <1>1, <3>1, AppendProperties
  <2>2. pass' \in 0 .. iterCount' + 1
    <3>1. iterCount' \in Nat
      BY <1>4 DEF CallIsSound
    <3>2. pass' = 0
      BY <1>1
    <3> QED BY <3>1, <3>2, ZeroInRange
  <2> QED BY <1>1, <1>2, <2>1, <2>2
          DEF Inv, TypeOK, RingIsSound, callVars, inputVars
<1> QED BY <1>2, <1>4, <1>5, <1>6, <1>7 DEF Inv

LEMMA OpenFailsInv ==
  ASSUME Inv, OpenFails
  PROVE  Inv'
<1>1. /\ pc = "loop" /\ pc' = "done" /\ failed' = TRUE /\ lastPartLen' = 0
      /\ UNCHANGED <<bufVars, inputVars, fileVars, part, pass, written,
                     starts>>
  BY DEF OpenFails
<1>2. RingIsSound' /\ Unread' = Unread
  BY <1>1, BufferKept DEF Inv
<1>3. ~Running' /\ ~InRound /\ ~InRound'
  BY <1>1 DEF Running, InRound
<1>4. CallIsSound'
  BY <1>1, <1>3, ParametersKept DEF Inv, inputVars, bufVars
<1>5. StreamInFile'
  BY <1>1, <1>3 DEF Inv, StreamInFile, inputVars, fileVars, bufVars
<1>6. RoundsHaveRoom'
  BY <1>1, <1>2, <1>3 DEF Inv, RoundsHaveRoom, bufVars
<1>7. TypeOK'
  BY <1>1, <1>2 DEF Inv, TypeOK, RingIsSound, inputVars
<1> QED BY <1>2, <1>4, <1>5, <1>6, <1>7 DEF Inv

LEMMA FillInv ==
  ASSUME Inv, Fill
  PROVE  Inv'
<1>1. /\ pc = "copy" /\ pc' = "write" /\ RoundLeft /\ Buffer!TryFill
      /\ UNCHANGED <<callVars, part, pass, written, starts>>
  BY DEF Fill
<1>2. RingIsSound /\ ~InRound /\ InRound' /\ Unread < cap /\ (Running' => Running)
  BY <1>1 DEF Inv, RoundsHaveRoom, InRound, Running
<1>3. RingIsSound'
  BY <1>1, <1>2, FillMeaning
<1>4. PICK n \in Nat : FillBrings(n)
  BY <1>1, <1>2, FillMeaning
<1>5. CallIsSound'
  BY <1>1, <1>2, <1>4, ParametersKept
     DEF Inv, callVars, inputVars, FillBrings
<1>6. StreamInFile'
  <2>1. ~good' => good = good' \/ taken' = supplied
    BY <1>2, <1>4, Numbers, UnreadRange DEF FillBrings, Smaller
  <2>2. taken' \in Nat /\ taken <= taken'
    BY <1>2, <1>4, Numbers DEF FillBrings
  <2> QED BY <1>1, <1>2, <1>4, <2>1, <2>2, StreamKept
          DEF Inv, callVars, inputVars, fileVars, FillBrings
<1>7. RoundsHaveRoom'
  <2>1. good' => Unread' = cap'
    <3>1. good' => n = Smaller(cap - Unread, supplied - taken)
                   /\ supplied - taken >= cap - Unread
      BY <1>4 DEF FillBrings
    <3>2. Unread' = Unread + n /\ cap' = cap
      BY <1>4 DEF FillBrings
    <3> QED BY <1>2, <3>1, <3>2, Numbers, UnreadRange DEF Smaller
  <2>2. beg' = cur'
    BY <1>4 DEF FillBrings
  <2>3. RoundLeft'
    BY <1>1, <1>4
       DEF RoundLeft, InTail, TailPart, callVars, inputVars, FillBrings
  <2> QED BY <1>2, <2>1, <2>2, <2>3 DEF RoundsHaveRoom
<1>8. TypeOK'
  BY <1>1, <1>3 DEF Inv, TypeOK, RingIsSound, callVars, inputVars
<1> QED BY <1>3, <1>5, <1>6, <1>7, <1>8 DEF Inv

LEMMA WriteInv ==
  ASSUME Inv, Write
  PROVE  Inv'
<1>1. /\ pc = "write" /\ pc' = "seek"
      /\ UNCHANGED <<bufVars, callVars, part, pass, starts>>
  BY DEF Write
<1>2. RingIsSound' /\ Unread' = Unread
  BY <1>1, BufferKept DEF Inv
<1>3. Running /\ InRound /\ InRound'
  BY <1>1 DEF Running, InRound
<1>4. CallIsSound'
  BY <1>1, <1>3, ParametersKept DEF Inv, callVars, inputVars, bufVars
<1>5. StreamInFile'
  BY <1>1, <1>3 DEF Inv, StreamInFile, callVars, inputVars, fileVars, bufVars
<1>6. RoundsHaveRoom'
  BY <1>1, <1>2, <1>3
     DEF Inv, RoundsHaveRoom, RoundLeft, InTail, TailPart, bufVars, callVars,
         inputVars
<1>7. TypeOK'
  <2>1. written' \in Seq(0 .. MaxInput)
    <3>1. written \in Seq(0 .. MaxInput)
      BY DEF Inv, TypeOK
    <3> QED BY <3>1, WriteMeaning, ConcatProperties
  <2> QED BY <1>1, <1>2, <2>1
          DEF Inv, TypeOK, RingIsSound, callVars, inputVars
<1> QED BY <1>2, <1>4, <1>5, <1>6, <1>7 DEF Inv

LEMMA SeekInv ==
  ASSUME Inv, Seek
  PROVE  Inv'
<1>1. /\ pc = "seek" /\ pc' = "copy" /\ pass' = pass + 1
      /\ Buffer!SeekOff(RoundSize)
      /\ UNCHANGED <<callVars, part, written, starts>>
  BY DEF Seek, RoundSize
<1>2. /\ RingIsSound /\ InRound /\ ~InRound' /\ RoundLeft
      /\ Running' => Running
  BY <1>1 DEF Inv, RoundsHaveRoom, InRound, Running
<1>3. RoundSize \in Nat \ {0} /\ RoundText = Smaller(RoundSize, Unread)
  BY <1>2, RoundRange, Numbers DEF RoundText
<1>4. /\ RingIsSound' /\ Unread' = Unread - RoundText
      /\ UNCHANGED <<alloc, cap, beg, end, slots, taken, supplied, good>>
  BY <1>1, <1>2, <1>3, SeekMeaning
<1>5. CallIsSound'
  BY <1>1, <1>2, <1>4, ParametersKept DEF Inv, callVars, inputVars
<1>6. StreamInFile'
  BY <1>1, <1>2, <1>4
     DEF Inv, StreamInFile, callVars, inputVars, fileVars
<1>7. RoundsHaveRoom'
  <2>1. Unread' < cap'
    BY <1>2, <1>3, <1>4, Numbers, UnreadRange DEF Smaller
  <2> QED BY <1>2, <2>1 DEF RoundsHaveRoom
<1>8. TypeOK'
  <2>1. pass' \in 0 .. iterCount' + 1
    <3>1. pass \in Nat /\ iterCount \in Nat /\ pass <= iterCount
      BY <1>2, RoundRange
    <3>2. pass' = pass + 1 /\ iterCount' = iterCount
      BY <1>1 DEF callVars, inputVars
    <3> QED BY <3>1, <3>2
  <2> QED BY <1>1, <1>4, <2>1
          DEF Inv, TypeOK, RingIsSound, callVars, inputVars
<1> QED BY <1>4, <1>5, <1>6, <1>7, <1>8 DEF Inv

LEMMA ClosePartInv ==
  ASSUME Inv, ClosePart
  PROVE  Inv'
<1>1. /\ pc = "copy" /\ pc' = "loop" /\ part' = part + 1
      /\ lastPartLen' = IF FloatOf[part + 1] = segNum
                        THEN iterCount * cap + TailPart ELSE lastPartLen
      /\ UNCHANGED <<bufVars, inputVars, fileVars, failed, pass, written,
                     starts>>
  BY DEF ClosePart
<1>2. RingIsSound' /\ Unread' = Unread /\ RingIsSound
  BY <1>1, BufferKept DEF Inv
<1>3. Running /\ ~InRound /\ ~InRound'
  BY <1>1 DEF Running, InRound
<1>4. CallIsSound'
  BY <1>1, <1>3, ParametersKept DEF Inv, inputVars, bufVars
<1>5. StreamInFile'
  BY <1>1, <1>3 DEF Inv, StreamInFile, inputVars, fileVars, bufVars
<1>6. RoundsHaveRoom'
  BY <1>1, <1>2, <1>3 DEF Inv, RoundsHaveRoom, bufVars
<1>7. TypeOK'
  <2>1. part' \in Nat
    <3>1. part \in Nat /\ part' = part + 1
      BY <1>1 DEF Inv, TypeOK
    <3> QED BY <3>1
  <2>2. lastPartLen' \in Nat
    <3>1. lastPartLen \in Nat
      BY DEF Inv, TypeOK
    <3>2. iterCount * cap + TailPart \in Nat
      BY <1>2, RoundRange, Numbers
    <3> QED BY <1>1, <3>1, <3>2
  <2> QED BY <1>1, <1>2, <2>1, <2>2 DEF Inv, TypeOK, RingIsSound, inputVars
<1> QED BY <1>2, <1>4, <1>5, <1>6, <1>7 DEF Inv

LEMMA ReturnInv ==
  ASSUME Inv, Return
  PROVE  Inv'
<1>1. /\ pc = "loop" /\ pc' = "done"
      /\ beg' = 0 /\ cur' = 0 /\ end' = 0 /\ fresh' = FALSE
      /\ UNCHANGED <<alloc, cap, slots, taken, supplied, good, it, ret>>
      /\ UNCHANGED <<callVars, part, pass, written, starts>>
  BY DEF Return, Buffer!Clear, Buffer!streamVars
<1>2. ~Running' /\ ~InRound'
  BY <1>1 DEF Running, InRound
<1>3. RingIsSound /\ cap \in Nat \ {0} /\ taken \in Nat
  BY Numbers DEF Inv
<1>4. RingIsSound' /\ Unread' = 0
  <2>1. /\ beg' \in 0 .. cap' /\ cur' \in 0 .. cap' /\ end' \in 0 .. cap'
    BY <1>1, <1>3
  <2>2. Buffer!TypeOK'
    BY <1>1, <1>3, <2>1 DEF RingIsSound, Buffer!TypeOK
  <2>3. Unread' = 0 /\ Buffer!CursorsInWindow'
    BY <1>1, <1>3 DEF Unread, Buffer!CursorsInWindow, Buffer!Dist
  <2> QED BY <1>1, <1>3, <2>2, <2>3 DEF RingIsSound
<1>5. CallIsSound'
  BY <1>1, <1>2, ParametersKept DEF Inv, callVars, inputVars
<1>6. StreamInFile'
  BY <1>1, <1>2 DEF Inv, StreamInFile, callVars, inputVars, fileVars
<1>7. RoundsHaveRoom'
  BY <1>1, <1>2, <1>3, <1>4 DEF RoundsHaveRoom
<1>8. TypeOK'
  BY <1>1, <1>4 DEF Inv, TypeOK, RingIsSound, callVars, inputVars
<1> QED BY <1>4, <1>5, <1>6, <1>7, <1>8 DEF Inv

LEMMA CallFailsInv ==
  ASSUME Inv, CallFails
  PROVE  Inv'
<1>1. /\ calls < MaxCalls /\ calls' = calls + 1 /\ pc' = "done"
      /\ written' = <<>> /\ starts' = <<>>
      /\ lastPartLen' = 0 /\ failed' = TRUE
      /\ UNCHANGED <<bufVars, size, fileSize, segNum, iterCount, base, part,
                     pass, clean, fileVars>>
  BY DEF CallFails
<1>2. pc \in {"idle", "done"}
  BY DEF CallFails
<1>3. ~Running' /\ ~InRound' /\ ~InRound
  BY <1>1, <1>2 DEF Running, InRound
<1>4. RingIsSound' /\ Unread' = Unread /\ RingIsSound
  BY <1>1, BufferKept DEF Inv
<1>5. CallIsSound'
  BY <1>1, <1>3 DEF Inv, CallIsSound
<1>6. calls \in Nat /\ calls' \in 0 .. MaxCalls
  BY <1>1, SplitAssumption DEF Inv, TypeOK
<1>7. StreamInFile'
  <2>1. supplied <= calls * 2^Width
    BY DEF Inv, StreamInFile
  <2>2. calls * 2^Width \in Nat /\ calls * 2^Width <= calls' * 2^Width
        /\ calls' * 2^Width \in Nat
    BY <1>1, <1>6, UnitRange, TimesMonotonic
  <2>3. supplied <= calls' * 2^Width
    BY <1>4, <2>1, <2>2, Numbers
  <2> QED BY <1>1, <1>3, <2>3 DEF Inv, StreamInFile, fileVars, bufVars
<1>8. RoundsHaveRoom'
  BY <1>1, <1>3, <1>4 DEF Inv, RoundsHaveRoom, bufVars
<1>9. TypeOK'
  <2>1. written' \in Seq(0 .. MaxInput) /\ starts' \in Seq(Nat)
    BY <1>1, EmptySeq
  <2> QED BY <1>1, <1>4, <1>6, <2>1 DEF Inv, TypeOK, RingIsSound
<1> QED BY <1>4, <1>5, <1>7, <1>8, <1>9 DEF Inv

LEMMA FileChangesInv ==
  ASSUME Inv, FileChanges
  PROVE  Inv'
<1>1. /\ supplied' \in taken .. base + 2^Width - 1
      /\ least' = Smaller(least, supplied' - base)
      /\ UNCHANGED <<alloc, cap, beg, cur, end, slots, taken, good, it, fresh,
                     ret, inputVars, lastPartLen, failed, pc, part, pass,
                     written, starts>>
  BY DEF FileChanges
<1>2. Running
  BY DEF FileChanges, Running, Inv, TypeOK
<1>3. /\ RingIsSound /\ base \in Nat /\ calls \in 0 .. MaxCalls
      /\ base + 2^Width <= calls * 2^Width
  BY <1>2 DEF Inv, StreamInFile, TypeOK
<1>4. /\ calls * 2^Width \in Nat /\ calls * 2^Width <= MaxInput
      /\ MaxInput \in Nat
  <2>1. calls \in Nat /\ MaxCalls \in Nat /\ calls <= MaxCalls
    BY <1>3, SplitAssumption
  <2> QED BY <2>1, UnitRange, TimesMonotonic, RingBounds DEF MaxInput
<1>5. /\ supplied' \in Nat /\ taken <= supplied'
      /\ supplied' <= calls * 2^Width /\ supplied' <= MaxInput
  BY <1>1, <1>3, <1>4, Numbers, UnitRange
<1> PICK given \in Nat : supplied' = given
  BY <1>5
<1>6. RingIsSound' /\ Unread' = Unread
  <2>1. supplied' \in 0 .. MaxInput /\ taken' \in 0 .. supplied'
    BY <1>1, <1>3, <1>4, <1>5, Numbers
  <2>2. Buffer!TypeOK' /\ Buffer!CursorsInWindow'
    BY <1>1, <2>1 DEF Inv, RingIsSound, Buffer!TypeOK,
                      Buffer!CursorsInWindow, Buffer!Dist
  <2> QED BY <1>1, <2>2 DEF Inv, RingIsSound, Unread, Buffer!Dist
<1>7. /\ Running' /\ InRound' = InRound
      /\ RoundLeft' = RoundLeft
  BY <1>1, <1>2
     DEF Running, InRound, RoundLeft, InTail, TailPart, inputVars
<1>8. CallIsSound'
  BY <1>1, <1>2, ParametersKept DEF Inv, inputVars
<1>9. StreamInFile'
  <2>1. /\ least \in Int /\ least <= fileSize
        /\ ~good => base + least <= taken
    BY <1>2 DEF Inv, StreamInFile
  <2>2. fileSize \in Nat
    BY <1>2, SizesRange DEF Inv, CallIsSound
  <2>3. /\ least' \in Int /\ base + least' <= supplied'
        /\ ~good' => base + least' <= taken
        /\ least' <= fileSize
    <3>1. least' = Smaller(least, given - base) /\ good' = good
      BY <1>1
    <3>2. taken \in Nat
      BY <1>3, Numbers
    <3>3. /\ least' \in Int /\ base + least' <= given
          /\ least' <= least /\ least' <= fileSize
      BY <1>3, <2>1, <2>2, <3>1 DEF Smaller
    <3>4. PICK few \in Int : least' = few
      BY <3>3
    <3> QED BY <1>3, <2>1, <3>1, <3>2, <3>3, <3>4
  <2> QED BY <1>1, <1>3, <1>5, <1>7, <2>3 DEF Inv, StreamInFile, inputVars
<1>10. RoundsHaveRoom'
  BY <1>1, <1>6, <1>7 DEF Inv, RoundsHaveRoom
<1>11. TypeOK'
  BY <1>1, <1>6 DEF Inv, TypeOK, RingIsSound, inputVars
<1> QED BY <1>6, <1>8, <1>9, <1>10, <1>11 DEF Inv

LEMMA CallInv ==
  ASSUME Inv, Call
  PROVE  Inv'
<1>1. /\ calls < MaxCalls /\ calls' = calls + 1
      /\ size' \in PartSizes /\ fileSize' \in FileSizes
      /\ segNum' = SegNum[fileSize'][size']
      /\ iterCount' = IterCount[size'][cap]
      /\ base' = supplied /\ supplied' = supplied + fileSize'
      /\ taken' = supplied /\ good' = TRUE
      /\ least' = fileSize'
      /\ UNCHANGED <<alloc, cap, beg, cur, end, slots, it, fresh, ret>>
  BY DEF Call
<1>2. /\ pc' = "loop" /\ part' = 0 /\ pass' = 0
      /\ written' = <<>> /\ starts' = <<>>
      /\ lastPartLen' = 0 /\ failed' = FALSE /\ clean' = (cur = end)
      /\ pc \in {"idle", "done"}
  BY DEF Call
<1>3. Running' /\ ~InRound' /\ ~InRound
  BY <1>2 DEF Running, InRound
<1>4. /\ calls \in Nat /\ calls' = calls + 1 /\ calls' \in 1 .. MaxCalls
      /\ MaxCalls \in Nat /\ supplied <= calls * 2^Width /\ RingIsSound
  <2>1. /\ supplied <= calls * 2^Width /\ RingIsSound
        /\ calls \in 0 .. MaxCalls /\ MaxCalls \in Nat
    BY SplitAssumption DEF Inv, TypeOK, StreamInFile
  <2>2. calls < MaxCalls /\ calls' = calls + 1
    BY <1>1
  <2> QED BY <2>1, <2>2
<1>5. fileSize' \in Nat /\ fileSize' < 2^Width /\ size' \in Nat \ {0}
  BY <1>1, SizesRange
<1> PICK f \in Nat : fileSize' = f
  BY <1>5
<1> PICK limit \in Nat : calls' * 2^Width = limit
  <2>1. calls' * 2^Width \in Nat
    BY <1>4, UnitRange
  <2> QED BY <2>1
<1>6. /\ supplied \in Nat /\ supplied + 2^Width <= calls' * 2^Width
      /\ calls' * 2^Width \in Nat
      /\ calls' * 2^Width <= MaxInput /\ MaxInput \in Nat
  <2> DEFINE m == 2^Width
  <2>1. m \in Nat \ {0}
    BY UnitRange
  <2>2. supplied <= calls * m
    BY <1>4
  <2>3. calls' * m \in Nat /\ calls' * m <= MaxInput /\ MaxInput \in Nat
    <3>1. calls' \in Nat /\ calls' <= MaxCalls
      BY <1>4
    <3> QED BY <1>4, <2>1, <3>1, TimesMonotonic, RingBounds DEF MaxInput
  <2> HIDE DEF m
  <2>4. calls' * m = calls * m + m
    BY <1>1, <1>4, <2>1
  <2>5. supplied \in Nat
    BY <1>4, Numbers
  <2>6. supplied + m <= calls' * m
    <3>1. calls * m \in Nat
      BY <1>4, <2>1
    <3> QED BY <2>1, <2>2, <2>4, <2>5, <3>1
  <2> QED BY <2>3, <2>5, <2>6 DEF m
<1>7. supplied' \in Nat /\ supplied' <= calls' * 2^Width
      /\ supplied' <= MaxInput /\ taken' = supplied
  <2>1. supplied' = supplied + f /\ taken' = supplied
    BY <1>1
  <2>2. f < 2^Width /\ supplied + 2^Width <= limit
    BY <1>5, <1>6
  <2> QED BY <1>6, <2>1, <2>2, UnitRange
<1>8. RingIsSound' /\ Unread' = Unread
  <2>1. supplied' \in 0 .. MaxInput /\ taken' \in 0 .. supplied'
        /\ taken <= taken'
    <3>1. supplied' = supplied + f
      BY <1>1
    <3> QED BY <1>4, <1>6, <1>7, <3>1, Numbers
  <2>2. Buffer!TypeOK'
    BY <1>1, <2>1 DEF Inv, RingIsSound, Buffer!TypeOK
  <2>3. Buffer!CursorsInWindow'
    <3>1. /\ Buffer!Dist(beg, cur) + Buffer!Dist(cur, end)
               = Buffer!Dist(beg, end)
          /\ Buffer!Dist(beg, end) <= taken
      BY DEF Inv, RingIsSound, Buffer!CursorsInWindow
    <3>2. Buffer!Dist(beg, end) <= taken'
      BY <1>1, <1>4, <2>1, <3>1, Numbers, UnreadRange
    <3> QED BY <1>1, <3>1, <3>2 DEF Buffer!CursorsInWindow, Buffer!Dist
  <2> QED BY <1>1, <2>2, <2>3 DEF Inv, RingIsSound, Unread, Buffer!Dist
<1>9. iterCount' \in Nat
  <2>1. cap \in 1 .. SegmentSize
    BY <1>4, Numbers
  <2> QED BY <1>1, <2>1, IterCountType
<1>10. CallIsSound'
  <2>1. calls' > 0
    BY <1>4
  <2> QED BY <1>1, <1>5, <1>9, <2>1 DEF CallIsSound
<1>11. StreamInFile'
  <2>1. /\ base' = supplied /\ supplied' = supplied + f
        /\ good' = TRUE /\ least' = f
    BY <1>1
  <2>2. /\ base' \in Nat /\ base' <= taken' /\ least' \in Int
        /\ base' + least' <= supplied' /\ least' <= fileSize'
    BY <1>5, <1>6, <1>7, <2>1
  <2>3. base' + 2^Width <= calls' * 2^Width
    BY <1>6, <2>1
  <2> QED BY <1>7, <2>1, <2>2, <2>3 DEF StreamInFile
<1>12. RoundsHaveRoom'
  BY <1>1, <1>3, <1>8 DEF Inv, RoundsHaveRoom
<1>13. TypeOK'
  <2>1. written' \in Seq(0 .. MaxInput) /\ starts' \in Seq(Nat)
    BY <1>2, EmptySeq
  <2>2. /\ pass' \in 0 .. iterCount' + 1 /\ part' \in Nat
        /\ lastPartLen' \in Nat /\ calls' \in 0 .. MaxCalls
    <3>1. pass' = 0 /\ part' = 0 /\ lastPartLen' = 0
      BY <1>2
    <3>2. pass' \in 0 .. iterCount' + 1
      BY <1>9, <3>1, ZeroInRange
    <3>3. part' \in Nat /\ lastPartLen' \in Nat
      BY <3>1
    <3> QED BY <1>4, <3>2, <3>3
  <2>3. {failed', clean'} \subseteq BOOLEAN
    <3>1. failed' = FALSE /\ clean' = (cur = end)
      BY <1>2
    <3> QED BY <3>1, Zenon
  <2> QED BY <1>2, <1>8, <2>1, <2>2, <2>3 DEF TypeOK, RingIsSound
<1> QED BY <1>8, <1>10, <1>11, <1>12, <1>13 DEF Inv

LEMMA NextInv == Inv /\ [Next]_vars => Inv'
<1> SUFFICES ASSUME Inv, [Next]_vars
             PROVE  Inv'
  OBVIOUS
<1>1. CASE Call
  BY <1>1, CallInv
<1>2. CASE CallFails
  BY <1>2, CallFailsInv
<1>3. CASE FileChanges
  BY <1>3, FileChangesInv
<1>4. CASE OpenPart
  BY <1>4, OpenPartInv
<1>5. CASE OpenFails
  BY <1>5, OpenFailsInv
<1>6. CASE Fill
  BY <1>6, FillInv
<1>7. CASE Write
  BY <1>7, WriteInv
<1>8. CASE Seek
  BY <1>8, SeekInv
<1>9. CASE ClosePart
  BY <1>9, ClosePartInv
<1>10. CASE Return
  BY <1>10, ReturnInv
<1>11. CASE UNCHANGED vars
  <2>1. UNCHANGED <<bufVars, calls, size, fileSize, segNum, iterCount, base,
                    clean, least, changes, lastPartLen, failed, pc, part,
                    pass, written, starts>>
    BY <1>11 DEF vars, callVars, inputVars, fileVars
  <2>2. UNCHANGED <<alloc, cap, beg, cur, end, slots, taken, supplied, good>>
    BY <2>1 DEF bufVars
  <2>3. /\ RingIsSound' /\ Unread' = Unread
        /\ Running' = Running /\ InRound' = InRound
    BY <2>1, BufferKept DEF Inv, Running, InRound
  <2>4. CallIsSound' /\ StreamInFile'
    BY <2>1, <2>2, <2>3 DEF Inv, CallIsSound, StreamInFile
  <2>5. RoundsHaveRoom'
    BY <2>1, <2>2, <2>3
       DEF Inv, RoundsHaveRoom, RoundLeft, InTail, TailPart
  <2>6. TypeOK'
    BY <2>1, <2>3 DEF Inv, TypeOK, RingIsSound
  <2> QED BY <2>3, <2>4, <2>5, <2>6 DEF Inv
<1> QED
  BY <1>1, <1>2, <1>3, <1>4, <1>5, <1>6, <1>7, <1>8, <1>9, <1>10, <1>11
     DEF Next, Run

LEMMA Invariance == Spec => []Inv
BY InitInv, NextInv, PTL DEF Spec

(* Types: the loop counters, the text and the buffer's cursors stay in     *)
(* their ranges for every size, whatever changed the file.                 *)
THEOREM SplitterTypes == Spec => []TypeOK
<1>1. Inv => TypeOK
  BY DEF Inv
<1> QED BY <1>1, Invariance, PTL

(* tryfill never throws in the copy loop.                                  *)
THEOREM FillNeverThrows == Spec => []FillHasRoom
<1>1. Inv => FillHasRoom
  <2> SUFFICES ASSUME Inv, pc = "copy"
               PROVE  ~Buffer!Underflow /\ ~Buffer!Overflow
    BY DEF FillHasRoom
  <2>1. RingIsSound /\ Unread < cap
    BY DEF Inv, RoundsHaveRoom, InRound
  <2> QED BY <2>1, FillIsNotRefused
<1> QED BY <1>1, Invariance, PTL

-----------------------------------------------------------------------------
(* What is written is the file, and the buffer goes on where it ends.      *)

LEMMA NothingIsFile ==
  ASSUME written' = <<>>
  PROVE  WritesThatFile' /\ Len(written') = 0
<1>1. <<>> \in Seq(Int) /\ Len(<<>>) = 0
  BY EmptySeq
<1> QED BY <1>1 DEF WritesThatFile

LEMMA FileKept ==
  ASSUME UnreadIsFile, PartsAreFile,
         UNCHANGED <<cap, cur, end, slots, taken, clean, base, written>>,
         pc' \in {"loop", "copy", "write"} => pc \in {"loop", "copy", "write"},
         pc' = "seek" => pc = "seek" /\ RoundText' = RoundText
  PROVE  UnreadIsFile' /\ PartsAreFile'
<1>1. Unread' = Unread /\ Place' = Place
  BY DEF Unread, Place, Buffer!Dist
<1>2. \A i : Buffer!At(cur, i)' = Buffer!At(cur, i)
  BY DEF Buffer!At
<1>3. PartsAreFile'
  BY DEF PartsAreFile, WritesThatFile
<1>4. clean' => \A i \in 0 .. Unread - 1 :
        slots'[Buffer!At(cur, i)'] = Place' + 1 + i
  BY <1>1, <1>2 DEF UnreadIsFile
<1>5. /\ pc' \in {"loop", "copy", "write"} /\ clean'
           => base' + Len(written') = Place'
      /\ pc' = "seek" /\ clean' => base' + Len(written') = Place' + RoundText'
  BY <1>1 DEF UnreadIsFile
<1> QED BY <1>1, <1>3, <1>4, <1>5 DEF UnreadIsFile

LEMMA FillKeepsFile ==
  ASSUME Inv, UnreadIsFile, PartsAreFile, Fill
  PROVE  UnreadIsFile' /\ PartsAreFile'
<1>1. /\ pc = "copy" /\ pc' = "write" /\ Buffer!TryFill
      /\ UNCHANGED <<clean, base, written>>
  BY DEF Fill, callVars, inputVars
<1>2. RingIsSound /\ Unread < cap
  BY <1>1 DEF Inv, RoundsHaveRoom, InRound
<1>3. PICK n \in Nat : FillBrings(n)
  BY <1>1, <1>2, FillMeaning
<1>4. /\ cap' = cap /\ cur' = cur /\ taken' = taken + n
      /\ Unread' = Unread + n
  BY <1>3 DEF FillBrings
<1>5. Unread \in Nat /\ taken \in Nat /\ Place \in Nat /\ Place' = Place
  BY <1>2, <1>4, UnreadRange, Numbers DEF Place
<1>6. ASSUME clean, NEW i \in 0 .. Unread' - 1
      PROVE  slots'[Buffer!At(cur, i)] = Place' + 1 + i
  <2>1. CASE i \in 0 .. Unread - 1
    <3>1. slots'[Buffer!At(cur, i)] = slots[Buffer!At(cur, i)]
      BY <1>3, <2>1 DEF FillBrings
    <3> QED BY <1>5, <1>6, <2>1, <3>1 DEF UnreadIsFile
  <2>2. CASE i \notin 0 .. Unread - 1
    <3> DEFINE j == i - Unread
    <3>1. j \in 0 .. n - 1 /\ Unread + j = i
      BY <1>4, <1>5, <2>2
    <3>2. slots'[Buffer!At(cur, Unread + j)] = taken + 1 + j
      BY <1>3, <3>1 DEF FillBrings
    <3>3. taken + 1 + j = Place + 1 + i
      BY <1>5, <3>1 DEF Place
    <3> QED BY <1>5, <3>1, <3>2, <3>3
  <2> QED BY <2>1, <2>2
<1>7. \A i : Buffer!At(cur, i)' = Buffer!At(cur, i)
  BY <1>4 DEF Buffer!At
<1>8. clean => base + Len(written) = Place
  BY <1>1 DEF UnreadIsFile
<1>9. UnreadIsFile'
  BY <1>1, <1>5, <1>6, <1>7, <1>8 DEF UnreadIsFile
<1>10. PartsAreFile'
  BY <1>1 DEF PartsAreFile, WritesThatFile
<1> QED BY <1>9, <1>10

LEMMA WriteKeepsFile ==
  ASSUME Inv, UnreadIsFile, PartsAreFile, Write
  PROVE  UnreadIsFile' /\ PartsAreFile'
<1>1. /\ pc = "write" /\ pc' = "seek" /\ UNCHANGED <<bufVars, clean, base>>
      /\ RoundText' = RoundText
  BY DEF Write, callVars, inputVars, bufVars, RoundText, RoundSize, Unread,
         InTail, TailPart, Buffer!Dist
<1>2. /\ Unread' = Unread /\ Place' = Place
      /\ UNCHANGED <<cap, cur, slots>>
  BY <1>1, BufferKept DEF bufVars
<1>3. PICK text \in Seq(0 .. MaxInput) :
        /\ written' = written \o text /\ Len(text) = RoundText
        /\ \A i \in 1 .. RoundText : text[i] = slots[Buffer!At(cur, i - 1)]
  BY WriteMeaning
<1>4. /\ written \in Seq(0 .. MaxInput) /\ base \in Nat /\ Place \in Nat
      /\ RoundText \in 0 .. Unread /\ Unread \in Nat
  BY UnreadRange, RoundRange DEF Inv, TypeOK, StreamInFile
<1> PICK len \in Nat : Len(written) = len
  BY <1>4, LenProperties
<1>5. /\ Len(written') = len + RoundText
      /\ written' \in Seq(0 .. MaxInput)
      /\ \A i \in 1 .. len + RoundText :
           written'[i] = IF i <= len THEN written[i] ELSE text[i - len]
  BY <1>3, <1>4, ConcatProperties
<1>6. SUFFICES ASSUME clean
               PROVE  UnreadIsFile' /\ WritesThatFile'
  BY <1>1 DEF UnreadIsFile, PartsAreFile
<1>7. base + len = Place
  BY <1>1, <1>6 DEF UnreadIsFile
<1>8. UnreadIsFile'
  <2>1. base + (len + RoundText) = Place + RoundText
    BY <1>4, <1>7
  <2>2. base' + Len(written') = Place' + RoundText'
    BY <1>1, <1>2, <1>5, <2>1
  <2>3. \A i \in 0 .. Unread - 1 : slots[Buffer!At(cur, i)] = Place + 1 + i
    BY <1>6 DEF UnreadIsFile
  <2>4. \A i : Buffer!At(cur, i)' = Buffer!At(cur, i)
    BY <1>2 DEF Buffer!At
  <2> QED BY <1>1, <1>2, <2>2, <2>3, <2>4 DEF UnreadIsFile
<1>9. WritesThatFile'
  <2>1. written = [n \in 1 .. len |-> base + n]
    BY <1>6 DEF PartsAreFile, WritesThatFile
  <2>2. ASSUME NEW i \in 1 .. len + RoundText
        PROVE  written'[i] = base + i
    <3>1. CASE i <= len
      BY <1>4, <1>5, <2>1, <3>1
    <3>2. CASE ~(i <= len)
      <4> DEFINE j == i - len
      <4>1. j \in 1 .. RoundText /\ j - 1 \in 0 .. Unread - 1 /\ i = len + j
        BY <1>4, <3>2
      <4>2. written'[i] = text[j]
        BY <1>5, <3>2
      <4>3. text[j] = slots[Buffer!At(cur, j - 1)]
        BY <1>3, <4>1
      <4>4. slots[Buffer!At(cur, j - 1)] = Place + 1 + (j - 1)
        BY <1>6, <4>1 DEF UnreadIsFile
      <4> HIDE DEF j
      <4>5. Place + 1 + (j - 1) = base + i
        BY <1>4, <1>7, <4>1
      <4> QED BY <4>2, <4>3, <4>4, <4>5
    <3> QED BY <3>1, <3>2
  <2>3. DOMAIN written' = 1 .. len + RoundText /\ Len(written') = len + RoundText
    BY <1>5, LenProperties
  <2>4. written' = [i \in 1 .. len + RoundText |-> written'[i]]
    BY <1>5, <2>3, LenProperties
  <2>5. written' = [i \in 1 .. len + RoundText |-> base + i]
    BY <2>2, <2>4
  <2> QED BY <1>1, <2>3, <2>5 DEF WritesThatFile
<1> QED BY <1>8, <1>9

LEMMA SeekKeepsFile ==
  ASSUME Inv, UnreadIsFile, PartsAreFile, Seek
  PROVE  UnreadIsFile' /\ PartsAreFile'
<1>1. /\ pc = "seek" /\ pc' = "copy" /\ Buffer!SeekOff(RoundSize)
      /\ UNCHANGED <<clean, base, written>>
  BY DEF Seek, RoundSize, callVars, inputVars
<1>2. RingIsSound /\ RoundSize \in Nat /\ RoundText \in 0 .. Unread
  BY RoundRange, Numbers DEF Inv
<1>3. /\ cur' = Buffer!At(cur, RoundText) /\ Unread' = Unread - RoundText
      /\ UNCHANGED <<cap, slots, taken>>
  BY <1>1, <1>2, SeekMeaning DEF RoundText
<1>4. /\ Unread \in 0 .. cap /\ cap \in Nat /\ cur \in 0 .. cap
      /\ taken \in Nat /\ Place \in Nat
      /\ Place' = Place + RoundText
  BY <1>2, <1>3, UnreadRange, Numbers DEF Place
<1>5. ASSUME clean, NEW i \in 0 .. Unread' - 1
      PROVE  slots'[Buffer!At(cur, i)'] = Place' + 1 + i
  <2>1. RoundText + i \in 0 .. Unread - 1
    BY <1>2, <1>3, <1>4
  <2>2. Buffer!At(cur, i)' = Buffer!At(cur, RoundText + i)
    BY <1>2, <1>3, <1>4, <2>1 DEF Buffer!At
  <2>3. slots[Buffer!At(cur, RoundText + i)] = Place + 1 + (RoundText + i)
    BY <1>5, <2>1 DEF UnreadIsFile
  <2> QED BY <1>2, <1>3, <1>4, <2>2, <2>3
<1>6. clean => base + Len(written) = Place + RoundText
  BY <1>1 DEF UnreadIsFile
<1>7. UnreadIsFile'
  BY <1>1, <1>4, <1>5, <1>6 DEF UnreadIsFile
<1>8. PartsAreFile'
  BY <1>1 DEF PartsAreFile, WritesThatFile
<1> QED BY <1>7, <1>8

LEMMA CallStartsFile ==
  ASSUME Inv, Call
  PROVE  UnreadIsFile' /\ PartsAreFile'
<1>1. /\ base' = supplied /\ taken' = supplied /\ clean' = (cur = end)
      /\ written' = <<>> /\ pc' = "loop" /\ UNCHANGED <<cap, cur, end>>
  BY DEF Call
<1>2. RingIsSound /\ supplied \in Nat /\ Unread' = Unread
  BY <1>1, Numbers DEF Inv, Unread, Buffer!Dist
<1>3. WritesThatFile' /\ Len(written') = 0
  BY <1>1, NothingIsFile
<1>4. ASSUME clean' PROVE UnreadIsFile'
  <2>1. Unread' = 0
    BY <1>1, <1>2, <1>4, UnreadRange
  <2>2. base' + Len(written') = Place'
    BY <1>1, <1>2, <1>3, <2>1 DEF Place
  <2>3. 0 .. Unread' - 1 = {}
    BY <2>1
  <2> QED BY <1>1, <2>2, <2>3 DEF UnreadIsFile
<1> QED BY <1>3, <1>4 DEF UnreadIsFile, PartsAreFile

LEMMA FileInit == Init => UnreadIsFile /\ PartsAreFile
<1> SUFFICES ASSUME Init PROVE UnreadIsFile /\ PartsAreFile
  OBVIOUS
<1>1. cur = 0 /\ end = 0 /\ pc = "idle" /\ written = <<>>
  BY DEF Init, Buffer!Init
<1>2. 0 .. Unread - 1 = {}
  <2>1. Unread = 0
    BY <1>1 DEF Unread, Buffer!Dist
  <2> QED BY <2>1
<1>3. WritesThatFile
  <2>1. <<>> \in Seq(Int) /\ Len(<<>>) = 0
    BY EmptySeq
  <2> QED BY <1>1, <2>1 DEF WritesThatFile
<1> QED BY <1>1, <1>2, <1>3 DEF UnreadIsFile, PartsAreFile

LEMMA FileNext ==
  ASSUME Inv, UnreadIsFile, PartsAreFile, [Next]_vars
  PROVE  UnreadIsFile' /\ PartsAreFile'
<1>1. CASE Call
  BY <1>1, CallStartsFile
<1>2. CASE CallFails
  <2>1. /\ written' = <<>> /\ pc' = "done"
        /\ UNCHANGED <<cap, cur, end, slots, taken, clean, base>>
    BY <1>2 DEF CallFails, bufVars
  <2>2. WritesThatFile'
    BY <2>1, NothingIsFile
  <2>3. Unread' = Unread /\ Place' = Place
    BY <2>1 DEF Unread, Place, Buffer!Dist
  <2>4. \A i : Buffer!At(cur, i)' = Buffer!At(cur, i)
    BY <2>1 DEF Buffer!At
  <2> QED BY <2>1, <2>2, <2>3, <2>4 DEF UnreadIsFile, PartsAreFile
<1>3. CASE FileChanges
  <2>1. /\ pc' = pc
        /\ UNCHANGED <<cap, cur, end, slots, taken, clean, base, written>>
        /\ UNCHANGED <<size, iterCount, pass>>
    BY <1>3 DEF FileChanges, inputVars
  <2>2. RoundText' = RoundText
    BY <2>1 DEF RoundText, RoundSize, Unread, InTail, TailPart, Buffer!Dist
  <2> QED BY <2>1, <2>2, FileKept
<1>4. CASE OpenPart
  <2>1. /\ pc' = "copy" /\ pc = "loop"
        /\ UNCHANGED <<cap, cur, end, slots, taken, clean, base, written>>
    BY <1>4 DEF OpenPart, bufVars, callVars, inputVars
  <2> QED BY <2>1, FileKept
<1>5. CASE OpenFails
  <2>1. /\ pc' = "done"
        /\ UNCHANGED <<cap, cur, end, slots, taken, clean, base, written>>
    BY <1>5 DEF OpenFails, bufVars, inputVars
  <2> QED BY <2>1, FileKept
<1>6. CASE Fill
  BY <1>6, FillKeepsFile
<1>7. CASE Write
  BY <1>7, WriteKeepsFile
<1>8. CASE Seek
  BY <1>8, SeekKeepsFile
<1>9. CASE ClosePart
  <2>1. /\ pc' = "loop" /\ pc = "copy"
        /\ UNCHANGED <<cap, cur, end, slots, taken, clean, base, written>>
    BY <1>9 DEF ClosePart, bufVars, inputVars
  <2> QED BY <2>1, FileKept
<1>10. CASE Return
  <2>1. /\ pc' = "done" /\ cur' = 0 /\ end' = 0
        /\ UNCHANGED <<clean, base, written>>
    BY <1>10 DEF Return, Buffer!Clear, callVars, inputVars
  <2>2. 0 .. Unread' - 1 = {}
    <3>1. Unread' = 0
      BY <2>1 DEF Unread, Buffer!Dist
    <3> QED BY <3>1
  <2> QED BY <2>1, <2>2 DEF UnreadIsFile, PartsAreFile, WritesThatFile
<1>11. CASE UNCHANGED vars
  <2>1. /\ pc' = pc
        /\ UNCHANGED <<cap, cur, end, slots, taken, clean, base, written>>
        /\ UNCHANGED <<size, iterCount, pass>>
    BY <1>11 DEF vars, bufVars, callVars, inputVars
  <2>2. RoundText' = RoundText
    BY <2>1 DEF RoundText, RoundSize, Unread, InTail, TailPart, Buffer!Dist
  <2> QED BY <2>1, <2>2, FileKept
<1> QED
  BY <1>1, <1>2, <1>3, <1>4, <1>5, <1>6, <1>7, <1>8, <1>9, <1>10, <1>11
     DEF Next, Run

(* The partitions, one after the other, are the beginning of the file, for *)
(* every size of buffer, file and partition.                               *)
THEOREM PartitionsAreTheFile == Spec => []PartsAreFile
BY FileInit, FileNext, Invariance, PTL DEF Spec

-----------------------------------------------------------------------------
(* Where the partitions are cut.                                           *)

LEMMA NothingIsCut ==
  ASSUME starts' = <<>>, pc' \in {"loop", "done"}
  PROVE  PartsAreCut'
<1>1. Len(starts') = 0
  <2>1. <<>> \in Seq(Nat) /\ Len(<<>>) = 0
    BY EmptySeq
  <2> QED BY <2>1
<1>2. 1 .. Len(starts') = {} /\ 1 .. Len(starts') - 1 = {}
  BY <1>1
<1> QED BY <1>2 DEF PartsAreCut

LEMMA CutKept ==
  ASSUME PartsAreCut,
         UNCHANGED <<written, starts, PartSize>>, Exhausted => Exhausted',
         pc' \in {pc, "done"},
         pc' \in {"copy", "write"} => Copied' = Copied,
         pc' = "seek" => UNCHANGED <<Copied, RoundSize, RoundText, Unread, good>>
  PROVE  PartsAreCut'
<1>1. Opened' = Opened
  BY DEF Opened
<1>2. \A n : Holds(n) => Holds(n)'
  BY <1>1 DEF Holds
<1>3. /\ \A n \in 1 .. Len(starts') : starts'[n] <= Len(written')
      /\ \A n \in 1 .. Len(starts') - 1 :
           \/ starts'[n + 1] = starts'[n] + PartSize'
           \/ /\ Exhausted' /\ starts'[n + 1] = Len(written')
              /\ starts'[n + 1] <= starts'[n] + PartSize'
  BY DEF PartsAreCut
<1>4. pc' = "loop" /\ starts' # <<>> => Holds(PartSize)'
  BY <1>2 DEF PartsAreCut
<1> QED BY <1>1, <1>2, <1>3, <1>4 DEF PartsAreCut

LEMMA PartSizeRange ==
  ASSUME Inv
  PROVE  /\ PartSize \in Nat /\ Copied \in Nat
         /\ pass = 0 => Copied = 0
         /\ RoundLeft /\ pass' = pass + 1 /\ UNCHANGED <<iterCount, cap, size>>
              => Copied' = Copied + RoundSize
         /\ ~RoundLeft => Copied = PartSize
<1>1. /\ cap \in Nat /\ TailPart \in 0 .. cap - 1
      /\ pass \in Nat /\ iterCount \in Nat
  BY Numbers, RoundRange DEF Inv
<1>2. /\ PartSize \in Nat /\ Copied \in Nat
      /\ pass = 0 => Copied = 0
      /\ ~RoundLeft => Copied = PartSize
  BY <1>1 DEF PartSize, Copied, RoundLeft, InTail
<1>3. ASSUME RoundLeft, pass' = pass + 1, UNCHANGED <<iterCount, cap, size>>
      PROVE  Copied' = Copied + RoundSize
  <2>1. /\ PartSize' = PartSize
        /\ Copied' = IF pass + 1 <= iterCount THEN (pass + 1) * cap
                                              ELSE PartSize
    BY <1>3 DEF PartSize, TailPart, Copied
  <2>2. (pass + 1) * cap = pass * cap + cap
    BY <1>1
  <2> QED BY <1>1, <1>3, <2>1, <2>2
          DEF PartSize, Copied, RoundLeft, InTail, RoundSize
<1> QED BY <1>2, <1>3

LEMMA StartsRange ==
  ASSUME TypeOK
  PROVE  /\ Len(written) \in Nat /\ Len(starts) \in Nat
         /\ \A n \in 1 .. Len(starts) : starts[n] \in Nat
         /\ starts # <<>> => Len(starts) > 0 /\ Opened \in Nat
<1>1. /\ written \in Seq(0 .. MaxInput) /\ starts \in Seq(Nat)
  BY DEF TypeOK
<1>2. /\ Len(written) \in Nat /\ Len(starts) \in Nat
      /\ \A n \in 1 .. Len(starts) : starts[n] \in Nat
  BY <1>1, LenProperties, ElementOfSeq
<1>3. starts # <<>> => Len(starts) > 0
  BY <1>1, EmptySeq
<1> QED BY <1>2, <1>3 DEF Opened

LEMMA OpenPartCuts ==
  ASSUME Inv, PartsAreCut, OpenPart
  PROVE  /\ PartsAreCut' /\ Opened' = Len(written)
         /\ PartSize' = PartSize /\ (Exhausted' <=> Exhausted)
<1>1. /\ pc = "loop" /\ pc' = "copy" /\ pass' = 0
      /\ starts' = Append(starts, Len(written))
      /\ UNCHANGED <<bufVars, iterCount, size, written>>
  BY DEF OpenPart, callVars, inputVars
<1>2. /\ PartSize' = PartSize /\ (Exhausted' <=> Exhausted)
  BY <1>1, BufferKept DEF PartSize, TailPart, Exhausted, bufVars
<1> PICK len \in Nat : Len(starts) = len
  BY StartsRange DEF Inv
<1> PICK text \in Nat : Len(written) = text
  BY StartsRange DEF Inv
<1>3. /\ starts' # <<>> /\ Len(starts') = len + 1
      /\ \A n \in 1 .. len : starts'[n] = starts[n]
      /\ starts'[len + 1] = text
  <2>1. starts \in Seq(Nat)
    BY DEF Inv, TypeOK
  <2> QED BY <1>1, <2>1, AppendProperties
<1>4. \A n \in 1 .. len + 1 : starts'[n] <= text
  <2>1. \A n \in 1 .. len : starts'[n] <= text
    BY <1>3 DEF PartsAreCut
  <2>2. starts'[len + 1] <= text
    BY <1>3
  <2>3. \A n \in 1 .. len + 1 : n \in 1 .. len \/ n = len + 1
    OBVIOUS
  <2> QED BY <2>1, <2>2, <2>3
<1>5. ASSUME NEW n \in 1 .. len
      PROVE  \/ starts'[n + 1] = starts'[n] + PartSize
             \/ /\ Exhausted /\ starts'[n + 1] = text
                /\ starts'[n + 1] <= starts'[n] + PartSize
  <2>1. CASE n + 1 <= len
    <3>1. n \in 1 .. len - 1 /\ n + 1 \in 1 .. len
      BY <2>1
    <3> QED BY <1>3, <3>1 DEF PartsAreCut
  <2>2. CASE ~(n + 1 <= len)
    <3>1. n = len /\ len > 0
      BY <2>2
    <3>2. starts # <<>>
      BY <3>1, EmptySeq
    <3>3. Holds(PartSize)
      BY <1>1, <3>2 DEF PartsAreCut
    <3>4. starts'[n + 1] = text /\ starts'[n] = Opened
      BY <1>3, <3>1 DEF Opened
    <3> QED BY <3>3, <3>4 DEF Holds
  <2> QED BY <2>1, <2>2
<1>6. Opened' = text
  BY <1>3 DEF Opened
<1>7. Holds(Copied)'
  <2>1. Copied' = 0
    <3>1. pass' = 0 /\ iterCount' \in Nat /\ cap' \in Nat
      BY <1>1, RoundRange, Numbers DEF Inv, bufVars
    <3> PICK i \in Nat : iterCount' = i
      BY <3>1
    <3> PICK c \in Nat : cap' = c
      BY <3>1
    <3>2. 0 <= i /\ 0 * c = 0
      OBVIOUS
    <3> QED BY <3>1, <3>2 DEF Copied
  <2>2. Len(written') = Opened' + Copied'
    BY <1>1, <1>6, <2>1
  <2> QED BY <2>2 DEF Holds
<1>8. (len + 1) - 1 = len
  OBVIOUS
<1>9. /\ \A n \in 1 .. Len(starts') : starts'[n] <= Len(written')
      /\ \A n \in 1 .. Len(starts') - 1 :
           \/ starts'[n + 1] = starts'[n] + PartSize'
           \/ /\ Exhausted' /\ starts'[n + 1] = Len(written')
              /\ starts'[n + 1] <= starts'[n] + PartSize'
  BY <1>1, <1>2, <1>3, <1>4, <1>5, <1>8
<1> QED BY <1>1, <1>2, <1>3, <1>6, <1>7, <1>9 DEF PartsAreCut

LEMMA FillKeepsCuts ==
  ASSUME Inv, PartsAreCut, Fill
  PROVE  /\ PartsAreCut' /\ UNCHANGED <<written, starts, PartSize>>
         /\ Exhausted => Exhausted'
<1>1. /\ pc = "copy" /\ pc' = "write" /\ Buffer!TryFill
      /\ UNCHANGED <<written, starts, pass, iterCount, size>>
  BY DEF Fill, callVars, inputVars
<1>2. RingIsSound /\ Unread < cap
  BY <1>1 DEF Inv, RoundsHaveRoom, InRound
<1>3. PICK n \in Nat : FillBrings(n)
  BY <1>1, <1>2, FillMeaning
<1>4. Exhausted => Exhausted'
  <2>1. ~good => ~good' /\ n = 0
    BY <1>3 DEF FillBrings
  <2>2. Unread' = Unread + n
    BY <1>3 DEF FillBrings
  <2> QED BY <2>1, <2>2 DEF Exhausted
<1>5. UNCHANGED <<PartSize, Copied, Opened>>
  BY <1>1, <1>3 DEF FillBrings, PartSize, Copied, TailPart, Opened
<1>6. Holds(Copied)'
  BY <1>1, <1>4, <1>5 DEF PartsAreCut, Holds
<1>7. /\ \A m \in 1 .. Len(starts') : starts'[m] <= Len(written')
      /\ \A m \in 1 .. Len(starts') - 1 :
           \/ starts'[m + 1] = starts'[m] + PartSize'
           \/ /\ Exhausted' /\ starts'[m + 1] = Len(written')
              /\ starts'[m + 1] <= starts'[m] + PartSize'
  BY <1>1, <1>4, <1>5 DEF PartsAreCut
<1> QED BY <1>1, <1>4, <1>5, <1>6, <1>7 DEF PartsAreCut

LEMMA WriteCuts ==
  ASSUME Inv, PartsAreCut, Write
  PROVE  /\ PartsAreCut' /\ UNCHANGED <<starts, PartSize>>
         /\ Exhausted => Exhausted'
<1>1. /\ pc = "write" /\ pc' = "seek"
      /\ UNCHANGED <<bufVars, starts, pass, iterCount, size>>
  BY DEF Write, callVars, inputVars
<1>2. /\ Unread' = Unread /\ good' = good /\ cap' = cap
  BY <1>1, BufferKept DEF bufVars
<1>3. /\ Opened' = Opened /\ PartSize' = PartSize /\ Copied' = Copied
      /\ RoundSize' = RoundSize /\ RoundText' = RoundText
  BY <1>1, <1>2
     DEF Opened, PartSize, Copied, RoundSize, RoundText, TailPart, InTail
<1>4. /\ RoundText \in 0 .. Unread /\ RoundText = Smaller(RoundSize, Unread)
      /\ RoundSize \in 0 .. cap /\ cap \in Nat /\ Unread \in 0 .. cap
      /\ PartSize \in Nat /\ Copied \in Nat
  BY RoundRange, PartSizeRange, Numbers, UnreadRange DEF Inv, RoundText
<1>5. /\ starts # <<>> /\ Holds(Copied)
      /\ Len(written) \in Nat /\ Opened \in Nat
      /\ \A n \in 1 .. Len(starts) : starts[n] \in Nat
  BY <1>1, StartsRange DEF Inv, PartsAreCut
<1> PICK text \in Nat : Len(written) = text
  BY <1>5
<1>6. Len(written') = text + RoundText
  <2>1. written \in Seq(0 .. MaxInput)
    BY DEF Inv, TypeOK
  <2> QED BY <2>1, WriteMeaning, ConcatProperties
<1>7. Exhausted => RoundText = 0 /\ Exhausted'
  BY <1>2, <1>4 DEF Exhausted
<1>8. \A n \in 1 .. Len(starts) : starts[n] <= text + RoundText
  BY <1>4, <1>5 DEF PartsAreCut
<1>9. \A n \in 1 .. Len(starts) - 1 :
        \/ starts[n + 1] = starts[n] + PartSize
        \/ /\ Exhausted /\ starts[n + 1] = text + RoundText
           /\ starts[n + 1] <= starts[n] + PartSize
  <2>1. Exhausted => text + RoundText = text
    BY <1>7
  <2> QED BY <2>1 DEF PartsAreCut
<1>10. \/ text + RoundText = Opened + Copied + RoundSize
       \/ /\ ~good /\ RoundText = Unread
          /\ text + RoundText <= Opened + Copied + RoundSize
  <2>1. CASE Exhausted
    <3>1. text <= Opened + Copied
      BY <1>4, <1>5, <2>1 DEF Holds
    <3>2. ~good /\ RoundText = Unread /\ RoundText = 0
      BY <1>4, <1>7, <2>1 DEF Exhausted
    <3>3. text + RoundText <= Opened + Copied + RoundSize
      BY <1>4, <1>5, <3>1, <3>2
    <3> QED BY <3>2, <3>3
  <2>2. CASE ~Exhausted
    <3>1. text = Opened + Copied
      BY <1>5, <2>2 DEF Holds
    <3>2. CASE RoundSize <= Unread
      BY <1>4, <1>5, <3>1, <3>2 DEF Smaller
    <3>3. CASE ~(RoundSize <= Unread)
      <4>1. RoundText = Unread /\ Unread < cap /\ Unread <= RoundSize
        BY <1>4, <3>3 DEF Smaller
      <4>2. ~good
        BY <1>1, <1>4, <4>1 DEF Inv, RoundsHaveRoom, InRound
      <4>3. text + RoundText <= Opened + Copied + RoundSize
        BY <1>4, <1>5, <3>1, <4>1
      <4> QED BY <4>1, <4>2, <4>3
    <3> QED BY <3>2, <3>3
  <2> QED BY <2>1, <2>2
<1>11. /\ \A n \in 1 .. Len(starts') : starts'[n] <= Len(written')
       /\ \A n \in 1 .. Len(starts') - 1 :
            \/ starts'[n + 1] = starts'[n] + PartSize'
            \/ /\ Exhausted' /\ starts'[n + 1] = Len(written')
               /\ starts'[n + 1] <= starts'[n] + PartSize'
  BY <1>1, <1>3, <1>6, <1>7, <1>8, <1>9
<1>12. \/ Len(written') = Opened' + Copied' + RoundSize'
       \/ /\ ~good' /\ RoundText' = Unread'
          /\ Len(written') <= Opened' + Copied' + RoundSize'
  BY <1>2, <1>3, <1>6, <1>10
<1> QED BY <1>1, <1>3, <1>5, <1>7, <1>11, <1>12 DEF PartsAreCut

LEMMA SeekKeepsCuts ==
  ASSUME Inv, PartsAreCut, Seek
  PROVE  /\ PartsAreCut' /\ UNCHANGED <<written, starts, PartSize>>
         /\ Exhausted => Exhausted'
<1>1. /\ pc = "seek" /\ pc' = "copy" /\ Buffer!SeekOff(RoundSize)
      /\ pass' = pass + 1
      /\ UNCHANGED <<written, starts, size, iterCount>>
  BY DEF Seek, RoundSize, callVars, inputVars
<1>2. RingIsSound /\ RoundSize \in Nat /\ RoundLeft /\ Unread \in Nat
  BY <1>1, RoundRange, Numbers, UnreadRange
     DEF Inv, RoundsHaveRoom, InRound
<1>3. /\ Unread' = Unread - RoundText /\ cap' = cap /\ good' = good
  BY <1>1, <1>2, SeekMeaning DEF RoundText
<1>4. /\ Opened' = Opened /\ PartSize' = PartSize
      /\ Copied' = Copied + RoundSize
      /\ Copied \in Nat /\ Opened \in Nat /\ starts # <<>>
  BY <1>1, <1>2, <1>3, PartSizeRange, StartsRange
     DEF Inv, Opened, PartSize, TailPart, PartsAreCut
<1>5. Exhausted => Exhausted'
  <2>1. Unread = 0 => Unread' = 0
    BY <1>2, <1>3, RoundRange DEF Inv
  <2> QED BY <1>3, <2>1 DEF Exhausted
<1>6. Holds(Copied)'
  <2>1. Opened + Copied + RoundSize = Opened + (Copied + RoundSize)
    BY <1>2, <1>4
  <2>2. CASE Len(written) = Opened + Copied + RoundSize
    BY <1>1, <1>4, <2>1, <2>2 DEF Holds
  <2>3. CASE /\ ~good /\ RoundText = Unread
             /\ Len(written) <= Opened + Copied + RoundSize
    <3>1. Unread' = 0 /\ ~good'
      BY <1>2, <1>3, <2>3
    <3> QED BY <1>1, <1>4, <2>1, <2>3, <3>1 DEF Holds, Exhausted
  <2> QED BY <1>1, <2>2, <2>3 DEF PartsAreCut
<1>7. /\ \A n \in 1 .. Len(starts') : starts'[n] <= Len(written')
      /\ \A n \in 1 .. Len(starts') - 1 :
           \/ starts'[n + 1] = starts'[n] + PartSize'
           \/ /\ Exhausted' /\ starts'[n + 1] = Len(written')
              /\ starts'[n + 1] <= starts'[n] + PartSize'
  BY <1>1, <1>4, <1>5 DEF PartsAreCut
<1> QED BY <1>1, <1>4, <1>5, <1>6, <1>7 DEF PartsAreCut

LEMMA ClosePartCuts ==
  ASSUME Inv, PartsAreCut, ClosePart
  PROVE  /\ PartsAreCut' /\ UNCHANGED <<written, starts, PartSize>>
         /\ Exhausted' = Exhausted /\ Opened \in Nat /\ Holds(PartSize)
<1>1. /\ pc = "copy" /\ pc' = "loop" /\ ~RoundLeft
      /\ UNCHANGED <<bufVars, written, starts, size, iterCount>>
  BY DEF ClosePart, inputVars
<1>2. /\ Exhausted' = Exhausted /\ PartSize' = PartSize /\ Opened' = Opened
  BY <1>1, BufferKept DEF Exhausted, PartSize, TailPart, Opened, bufVars
<1>3. Holds(PartSize) /\ starts # <<>>
  BY <1>1, PartSizeRange DEF PartsAreCut
<1>4. Holds(PartSize)' /\ Opened \in Nat
  BY <1>1, <1>2, <1>3, StartsRange DEF Inv, Holds
<1>5. /\ \A n \in 1 .. Len(starts') : starts'[n] <= Len(written')
      /\ \A n \in 1 .. Len(starts') - 1 :
           \/ starts'[n + 1] = starts'[n] + PartSize'
           \/ /\ Exhausted' /\ starts'[n + 1] = Len(written')
              /\ starts'[n + 1] <= starts'[n] + PartSize'
  BY <1>1, <1>2 DEF PartsAreCut
<1> QED BY <1>1, <1>2, <1>3, <1>4, <1>5 DEF PartsAreCut

LEMMA ReturnKeepsCuts ==
  ASSUME PartsAreCut, Return
  PROVE  PartsAreCut' /\ (Exhausted => Exhausted')
<1>1. /\ pc' = "done" /\ cur' = 0 /\ end' = 0
      /\ UNCHANGED <<good, cap, size, iterCount, written, starts>>
  BY DEF Return, Buffer!Clear, Buffer!streamVars, callVars, inputVars
<1>2. Exhausted => Exhausted'
  BY <1>1 DEF Exhausted, Unread, Buffer!Dist
<1>3. PartSize' = PartSize
  BY <1>1 DEF PartSize, TailPart
<1> QED BY <1>1, <1>2, <1>3, CutKept

LEMMA CutInit == Init => PartsAreCut
<1> SUFFICES ASSUME Init PROVE PartsAreCut
  OBVIOUS
<1>1. pc = "idle" /\ starts = <<>>
  BY DEF Init
<1>2. Len(starts) = 0
  <2>1. <<>> \in Seq(Nat) /\ Len(<<>>) = 0
    BY EmptySeq
  <2> QED BY <1>1, <2>1
<1>3. 1 .. Len(starts) = {} /\ 1 .. Len(starts) - 1 = {}
  BY <1>2
<1> QED BY <1>1, <1>3 DEF PartsAreCut

(* Steps that touch neither the text nor what the loop counts.             *)
LEMMA IdleKeepsCuts ==
  ASSUME PartsAreCut, OpenFails \/ FileChanges \/ UNCHANGED vars
  PROVE  PartsAreCut' /\ Exhausted' = Exhausted
<1>1. /\ pc' \in {pc, "done"}
      /\ UNCHANGED <<cap, cur, end, good, size, iterCount, pass, written,
                     starts>>
  BY DEF OpenFails, FileChanges, vars, bufVars, callVars, inputVars
<1>2. Unread' = Unread
  BY <1>1 DEF Unread, Buffer!Dist
<1>3. UNCHANGED <<PartSize, Copied, RoundSize, RoundText, Exhausted>>
  BY <1>1, <1>2 DEF PartSize, Copied, RoundSize, RoundText, TailPart, InTail,
                    Exhausted
<1> QED BY <1>1, <1>2, <1>3, CutKept

LEMMA CutNext ==
  ASSUME Inv, PartsAreCut, [Next]_vars
  PROVE  PartsAreCut'
<1>1. CASE Call
  BY <1>1, NothingIsCut DEF Call
<1>2. CASE CallFails
  BY <1>2, NothingIsCut DEF CallFails
<1> QED
  BY <1>1, <1>2, IdleKeepsCuts, OpenPartCuts, FillKeepsCuts, WriteCuts,
     SeekKeepsCuts, ClosePartCuts, ReturnKeepsCuts
     DEF Next, Run

LEMMA CutsHold == Spec => []PartsAreCut
BY CutInit, CutNext, Invariance, PTL DEF Spec

(* Sizes that a float tells apart.                                         *)
SizesFitFloat ==
  SegmentSize < 2^FloatBits /\ \A sz \in PartSizes : sz < 2^FloatBits

LEMMA PartSizeIsSize ==
  ASSUME Inv, SizesFitFloat, Running \/ starts # <<>>
  PROVE  PartSize = size /\ size \in PartSizes
<1>1. /\ size \in PartSizes /\ iterCount = IterCount[size][cap]
      /\ RingIsSound
  BY DEF Inv, CallIsSound
<1>2. cap \in 1 .. SegmentSize /\ size \in Nat
  BY <1>1, Numbers, SizesRange
<1>3. cap < 2^FloatBits
  BY <1>2, UnitRange, SplitAssumption DEF SizesFitFloat
<1>4. iterCount = size \div cap
  BY <1>1, <1>2, <1>3, FloatCountsBuffers DEF SizesFitFloat
<1>5. /\ size \div cap \in Nat /\ size % cap \in Nat
      /\ size = cap * (size \div cap) + (size % cap)
  <2>1. size \in Nat /\ cap \in Nat \ {0}
    BY <1>1, <1>2, Numbers
  <2>2. \A a \in Nat, b \in Nat \ {0} :
          /\ a \div b \in Nat /\ a % b \in Nat
          /\ a = b * (a \div b) + (a % b)
    BY Division
  <2> QED BY <2>1, <2>2, Zenon
<1>6. cap * (size \div cap) = (size \div cap) * cap
  <2> DEFINE q == size \div cap
  <2>1. q \in Nat /\ cap \in Nat
    BY <1>2, <1>5
  <2> HIDE DEF q
  <2>2. cap * q = q * cap
    BY <2>1
  <2> QED BY <2>2 DEF q
<1> QED BY <1>1, <1>4, <1>5, <1>6 DEF PartSize, TailPart

(* Every partition that is followed by more text has the size asked for,   *)
(* when buffer and partitions are below the precision of a float: the code *)
(* counts the buffers in a partition with a float.                         *)
THEOREM PartitionsHaveTheSize == SizesFitFloat => (Spec => []PartsHaveSize)
<1> SUFFICES ASSUME SizesFitFloat
             PROVE  Spec => []PartsHaveSize
  OBVIOUS
<1>1. Inv /\ PartsAreCut => PartsHaveSize
  <2> SUFFICES ASSUME Inv, PartsAreCut, NEW n \in 1 .. Len(starts) - 1
               PROVE  starts[n + 1] = Smaller(starts[n] + size, Len(written))
    BY DEF PartsHaveSize
  <2>1. Len(starts) \in Nat /\ Len(written) \in Nat
    BY StartsRange DEF Inv
  <2>2. n \in 1 .. Len(starts) /\ n + 1 \in 1 .. Len(starts)
    BY <2>1
  <2>3. starts # <<>>
    BY <2>1, <2>2, EmptySeq
  <2>4. PartSize = size /\ size \in Nat
    BY <2>3, PartSizeIsSize, SizesRange
  <2>5. /\ starts[n] \in Nat /\ starts[n + 1] \in Nat
        /\ starts[n + 1] <= Len(written)
    BY <2>2, StartsRange DEF Inv, PartsAreCut
  <2>6. \/ starts[n + 1] = starts[n] + size
        \/ /\ starts[n + 1] = Len(written)
           /\ starts[n + 1] <= starts[n] + size
    BY <2>4 DEF PartsAreCut
  <2> QED BY <2>1, <2>4, <2>5, <2>6 DEF Smaller
<1> QED BY <1>1, Invariance, CutsHold, PTL

-----------------------------------------------------------------------------
(* How many partitions the loop makes.                                     *)

LEMMA CountNext ==
  ASSUME Inv, PartsAreCut, PartsAreCounted, [Next]_vars
  PROVE  PartsAreCounted'
<1> USE DEF PartsAreCounted
<1>1. CASE Call
  <2>1. /\ part' = 0 /\ pc' = "loop" /\ written' = <<>>
        /\ UNCHANGED cap
    BY <1>1 DEF Call
  <2>2. Len(written') = 0
    BY <2>1, NothingIsFile
  <2>3. PartSize' \in Nat
    <3>1. iterCount' \in Nat /\ size' \in Nat \ {0} /\ cap \in Nat \ {0}
      BY <1>1, CallInv, Numbers DEF Inv, CallIsSound
    <3> PICK i \in Nat, s \in Nat : iterCount' = i /\ size' = s
      BY <3>1
    <3>2. i * cap + (s % cap) \in Nat
      BY <3>1
    <3> QED BY <2>1, <3>2 DEF PartSize, TailPart
  <2>4. part' * PartSize' = 0
    <3> PICK p \in Nat : PartSize' = p
      BY <2>3
    <3>1. 0 * p = 0
      OBVIOUS
    <3> QED BY <2>1, <3>1
  <2> QED BY <2>1, <2>2, <2>4
<1>2. CASE CallFails \/ OpenFails \/ Return
  BY <1>2 DEF CallFails, OpenFails, Return
<1>3. CASE FileChanges \/ UNCHANGED vars
  <2>1. UNCHANGED <<pc, part, cap, size, iterCount, written, starts>>
    BY <1>3 DEF FileChanges, vars, bufVars, callVars, inputVars
  <2>2. UNCHANGED <<PartSize, Opened>> /\ Exhausted' = Exhausted
    BY <1>3, <2>1, IdleKeepsCuts DEF PartSize, TailPart, Opened
  <2> QED BY <2>1, <2>2
<1>4. CASE OpenPart
  <2>1. pc = "loop" /\ pc' = "copy" /\ UNCHANGED part
    BY <1>4 DEF OpenPart
  <2> QED BY <1>4, <2>1, OpenPartCuts
<1>5. CASE Fill \/ Write \/ Seek
  <2>1. /\ pc \in {"copy", "write", "seek"} /\ pc' \in {"copy", "write", "seek"}
        /\ UNCHANGED part
    BY <1>5 DEF Fill, Write, Seek
  <2>2. UNCHANGED <<starts, PartSize>> /\ (Exhausted => Exhausted')
    BY <1>5, FillKeepsCuts, WriteCuts, SeekKeepsCuts
  <2> QED BY <2>1, <2>2 DEF Opened
<1>6. CASE ClosePart
  <2>1. pc = "copy" /\ pc' = "loop" /\ part' = part + 1
    BY <1>6 DEF ClosePart
  <2>2. /\ UNCHANGED <<written, PartSize>> /\ Exhausted' = Exhausted
        /\ Opened \in Nat /\ Holds(PartSize)
    BY <1>6, ClosePartCuts
  <2>3. part \in Nat /\ PartSize \in Nat
    BY PartSizeRange DEF Inv, TypeOK
  <2>4. (part + 1) * PartSize = part * PartSize + PartSize
    BY <2>3
  <2>5. SUFFICES ASSUME ~Exhausted
                 PROVE  Len(written) >= (part + 1) * PartSize
    BY <2>1, <2>2
  <2>6. Opened >= part * PartSize /\ Len(written) = Opened + PartSize
    BY <2>1, <2>2, <2>5 DEF Holds
  <2> QED BY <2>2, <2>3, <2>4, <2>6
<1> QED BY <1>1, <1>2, <1>3, <1>4, <1>5, <1>6 DEF Next, Run

LEMMA CountHolds == Spec => []PartsAreCounted
<1>1. Init => PartsAreCounted
  BY DEF Init, PartsAreCounted
<1> QED BY <1>1, CountNext, CutsHold, Invariance, PTL DEF Spec

(* Files that a float tells apart, or that make no more partitions than a  *)
(* sixteenth of the numbers it tells apart.                                *)
PartsFitFloat ==
  \A file \in FileSizes, sz \in PartSizes :
    \/ file < 2^FloatBits
    \/ 16 * (file \div sz + 2) <= 2^FloatBits

(* A call returns when it has written all of the file.                     *)
LEMMA ReturnIsWhole ==
  ASSUME SizesFitFloat, PartsFitFloat, Inv, UnreadIsFile, PartsAreCounted,
         Return, clean
  PROVE  Len(written) >= least
<1>1. pc = "loop" /\ FloatOf[part] >= segNum
  BY DEF Return
<1>2. /\ segNum = SegNum[fileSize][size] /\ size \in PartSizes
      /\ fileSize \in FileSizes /\ PartSize = size
      /\ least <= fileSize /\ least \in Int
      /\ ~good => base + least <= taken
  BY <1>1, PartSizeIsSize DEF Inv, CallIsSound, StreamInFile, Running
<1>3. /\ part \in Nat /\ Len(written) \in Nat /\ base \in Nat
      /\ size \in Nat \ {0} /\ fileSize \in Nat /\ taken \in Nat
  BY <1>2, StartsRange, SizesRange, Numbers DEF Inv, TypeOK, StreamInFile
<1>4. CASE Exhausted
  <2>1. base + Len(written) = taken
    <3>1. base + Len(written) = Place /\ Unread = 0
      BY <1>1, <1>4 DEF UnreadIsFile, Exhausted
    <3>2. taken - 0 = taken
      BY <1>3
    <3> QED BY <3>1, <3>2 DEF Place
  <2>2. base + least <= taken
    BY <1>2, <1>4 DEF Exhausted
  <2> QED BY <1>2, <1>3, <2>1, <2>2
<1>5. CASE ~Exhausted
  <2>1. Len(written) >= part * size
    BY <1>1, <1>2, <1>5 DEF PartsAreCounted
  <2>2. ~(part * size < fileSize)
    <3> SUFFICES ASSUME part * size < fileSize PROVE FALSE
      OBVIOUS
    <3>1. /\ size < 2^FloatBits
          /\ \/ fileSize < 2^FloatBits
             \/ 16 * (fileSize \div size + 2) <= 2^FloatBits
      BY <1>2 DEF SizesFitFloat, PartsFitFloat
    <3>2. /\ FloatOf[part] \in Int /\ segNum \in Int
          /\ FloatOf[part] < segNum
      BY <1>2, <1>3, <3>1, SegNumIsEnough
    <3> QED BY <1>1, <3>2
  <2>3. part * size \in Nat
    BY <1>3
  <2> QED BY <1>2, <1>3, <2>1, <2>2, <2>3
<1> QED BY <1>4, <1>5

(* A call that does not fail copies all that was in the file throughout    *)
(* the call, for every buffer and partition size below the precision of a  *)
(* float, when the file is that small too or is cut into few partitions.   *)
THEOREM SplitIsWhole ==
  SizesFitFloat /\ PartsFitFloat => (Spec => []SplitIsComplete)
<1> SUFFICES ASSUME SizesFitFloat, PartsFitFloat
             PROVE  Spec => []SplitIsComplete
  OBVIOUS
<1>1. Init => SplitIsComplete
  BY DEF Init, SplitIsComplete
<1>2. ASSUME Inv, UnreadIsFile, PartsAreCounted, SplitIsComplete, [Next]_vars
      PROVE  SplitIsComplete'
  <2> USE DEF SplitIsComplete
  <2>1. CASE Return
    <3>1. UNCHANGED <<clean, written, least>>
      BY <2>1 DEF Return, callVars, inputVars, fileVars
    <3> QED BY <1>2, <2>1, <3>1, ReturnIsWhole
  <2>2. CASE OpenFails \/ CallFails
    BY <2>2 DEF OpenFails, CallFails
  <2>3. CASE Call \/ OpenPart \/ Fill \/ Write \/ Seek \/ ClosePart
    BY <2>3 DEF Call, OpenPart, Fill, Write, Seek, ClosePart
  <2>4. CASE FileChanges
    BY <2>4 DEF FileChanges
  <2>5. CASE UNCHANGED vars
    BY <1>2, <2>5 DEF vars, callVars, inputVars, fileVars
  <2> QED BY <1>2, <2>1, <2>2, <2>3, <2>4, <2>5 DEF Next, Run
<1>3. Spec => [](UnreadIsFile /\ PartsAreFile)
  BY FileInit, FileNext, Invariance, PTL DEF Spec
<1> QED BY <1>1, <1>2, <1>3, Invariance, CountHolds, PTL DEF Spec

=============================================================================
