------------------------ MODULE CircularBufferProofs ------------------------
(***************************************************************************)
(* Proofs about the circular buffer, for every capacity and every input.   *)
(***************************************************************************)
EXTENDS CircularBuffer, TLAPS

(* The inductive invariant: the cursors are in order on the ring, the ring *)
(* holds a slice of the stream, and a fresh iterator names its place.      *)
Inv ==
  /\ TypeOK
  /\ CursorsInWindow
  /\ WindowMatchesStream
  /\ IteratorKeepsPlace

-----------------------------------------------------------------------------
(* Ring arithmetic.                                                        *)

(* Dist counts at most cap slots, and walking that far arrives.            *)
LEMMA DistRange ==
  ASSUME cap \in Nat, NEW a \in 0 .. cap, NEW b \in 0 .. cap
  PROVE  /\ Dist(a, b) \in 0 .. cap
         /\ At(a, Dist(a, b)) = b
         /\ Dist(a, b) = 0 <=> a = b
BY DEF Dist, At

(* Steps on the ring stay on it and are counted exactly.                   *)
LEMMA AtRange ==
  ASSUME cap \in Nat, NEW a \in 0 .. cap, NEW i \in 0 .. cap
  PROVE  /\ At(a, i) \in 0 .. cap
         /\ Dist(a, At(a, i)) = i
BY DEF Dist, At

(* Two walks one after the other are one walk.                             *)
LEMMA AtCompose ==
  ASSUME cap \in Nat, NEW a \in 0 .. cap,
         NEW i \in 0 .. cap, NEW j \in 0 .. cap, i + j <= cap
  PROVE  At(At(a, i), j) = At(a, i + j)
BY DEF At

(* Walking the unread part walks the tail of the window.                   *)
LEMMA UnreadInWindow ==
  ASSUME TypeOK, CursorsInWindow, WindowMatchesStream,
         NEW i \in 0 .. Dist(cur, end) - 1
  PROVE  /\ At(cur, i) \in 0 .. cap
         /\ slots[At(cur, i)] = Pos + 1 + i
<1>1. /\ cap \in Nat /\ taken \in Nat
      /\ beg \in 0 .. cap /\ cur \in 0 .. cap /\ end \in 0 .. cap
  BY DEF TypeOK
<1>2. /\ Dist(beg, cur) \in 0 .. cap /\ Dist(cur, end) \in 0 .. cap
      /\ Dist(beg, end) \in 0 .. cap
      /\ At(beg, Dist(beg, cur)) = cur
  BY <1>1, DistRange
<1>3. Dist(beg, cur) + Dist(cur, end) = Dist(beg, end)
  BY DEF CursorsInWindow
<1>4. At(cur, i) = At(beg, Dist(beg, cur) + i)
  BY <1>1, <1>2, <1>3, AtCompose
<1>5. Dist(beg, cur) + i \in 0 .. Dist(beg, end) - 1
  BY <1>2, <1>3
<1>6. slots[At(cur, i)] = Lo + 1 + (Dist(beg, cur) + i)
  BY <1>4, <1>5 DEF WindowMatchesStream
<1>7. At(cur, i) \in 0 .. cap
  BY <1>1, <1>2, AtRange
<1> QED BY <1>1, <1>2, <1>3, <1>6, <1>7 DEF Lo, Pos

(* Advancing a slot of the window is a clamped addition to its position.   *)
LEMMA AdvanceMeaning ==
  ASSUME TypeOK, CursorsInWindow,
         NEW c \in 0 .. cap, Dist(beg, c) <= Dist(beg, end), NEW off \in Nat
  PROVE  /\ Advance(c, off) \in 0 .. cap
         /\ Dist(beg, Advance(c, off))
              = Smaller(Dist(beg, c) + off, Dist(beg, end))
BY DEF TypeOK, Advance, Dist, Smaller

LEMMA RetreatMeaning ==
  ASSUME TypeOK, CursorsInWindow,
         NEW c \in 0 .. cap, Dist(beg, c) <= Dist(beg, end), NEW off \in Nat
  PROVE  /\ Retreat(c, off) \in 0 .. cap
         /\ Dist(beg, Retreat(c, off))
              = IF off <= Dist(beg, c) THEN Dist(beg, c) - off ELSE 0
BY DEF TypeOK, Retreat, Dist
-----------------------------------------------------------------------------
(* The inductive invariant holds initially and is kept by every action.    *)

LEMMA InitInv == Init => Inv
<1> SUFFICES ASSUME Init PROVE Inv
  OBVIOUS
<1> USE BoundsAssumption DEF Init
<1>1. TypeOK
  BY DEF TypeOK, Slot, Garbage, Dangling, Done, Outcomes
<1>2. CursorsInWindow
  BY DEF CursorsInWindow, Dist
<1>3. WindowMatchesStream
  BY DEF WindowMatchesStream, Dist
<1>4. IteratorKeepsPlace
  BY DEF IteratorKeepsPlace, IsValid, Lo, Hi, Dist
<1> QED BY <1>1, <1>2, <1>3, <1>4 DEF Inv

(* What a fill does to the ring, whichever path the code took: the unread  *)
(* characters stay, n more follow them, and the window starts at cur_.     *)
FillMeans(n) ==
  /\ beg' = cur /\ cur' = cur /\ cap' = cap /\ alloc' = alloc
  /\ supplied' = supplied /\ good' \in BOOLEAN
  /\ taken' = taken + n /\ taken' <= supplied
  /\ end' \in 0 .. cap
  /\ slots' \in [Slot -> 0 .. MaxInput]
  /\ Dist(cur, end)' = Dist(cur, end) + n
  /\ \A i \in 0 .. Dist(cur, end) - 1 : slots'[At(cur, i)] = slots[At(cur, i)]
  /\ \A i \in 0 .. n - 1 :
       slots'[At(cur, Dist(cur, end) + i)] = taken + 1 + i
  /\ it' = it /\ fresh' = (fresh /\ cur = beg)
  /\ ret' = Done("tryfill", 0)

(* The numbers of the state, as the provers want them.                     *)
LEMMA Numbers ==
  ASSUME TypeOK
  PROVE  /\ cap \in Nat /\ cap <= MaxSize /\ MaxSize \in Nat
         /\ beg \in 0 .. cap /\ cur \in 0 .. cap /\ end \in 0 .. cap
         /\ taken \in Nat /\ supplied \in Nat /\ MaxInput \in Nat
         /\ taken <= supplied /\ supplied <= MaxInput
         /\ slots \in [Slot -> 0 .. MaxInput]
         /\ 0 .. cap \subseteq Slot
         /\ it.beg \in Nat /\ it.cur \in Nat /\ it.at \in Nat
BY BoundsAssumption DEF TypeOK, Slot, Dangling

(* n characters stored behind end_, up to cur_ or to the end of the array. *)
(* The slot behind the last one is not part of the content.                *)
LEMMA AppendMeans ==
  ASSUME TypeOK, NEW n \in Nat, taken + n <= supplied,
         cur > end => n <= cur - 1 - end,
         cur <= end => n <= cap - end,
         NEW s \in [Slot -> 0 .. MaxInput],
         \A x \in Slot : x # end + n => s[x] = Stored(slots, end, n, taken)[x]
  PROVE  /\ end + n \in 0 .. cap
         /\ Dist(cur, end + n) = Dist(cur, end) + n
         /\ \A i \in 0 .. Dist(cur, end) - 1 : s[At(cur, i)] = slots[At(cur, i)]
         /\ \A i \in 0 .. n - 1 :
              s[At(cur, Dist(cur, end) + i)] = taken + 1 + i
<1>1. /\ cap \in Nat /\ cur \in 0 .. cap /\ end \in 0 .. cap /\ taken \in Nat
      /\ 0 .. cap \subseteq Slot
  BY Numbers
<1>2. end + n \in 0 .. cap /\ Dist(cur, end + n) = Dist(cur, end) + n
  BY <1>1 DEF Dist
<1>3. \A x \in 0 .. cap : x # end + n =>
        s[x] = IF end <= x /\ x < end + n
               THEN taken + 1 + (x - end) ELSE slots[x]
  BY <1>1 DEF Stored
<1>4. ASSUME NEW i \in 0 .. Dist(cur, end) - 1
      PROVE  s[At(cur, i)] = slots[At(cur, i)]
  <2>1. /\ At(cur, i) \in 0 .. cap
        /\ At(cur, i) < end \/ At(cur, i) > end + n
    BY <1>1 DEF Dist, At
  <2> QED BY <2>1, <1>1, <1>3
<1>5. ASSUME NEW i \in 0 .. n - 1
      PROVE  s[At(cur, Dist(cur, end) + i)] = taken + 1 + i
  <2>1. At(cur, Dist(cur, end) + i) = end + i
    BY <1>1 DEF Dist, At
  <2>2. end + i \in 0 .. cap /\ end <= end + i /\ end + i < end + n
    BY <1>1, <1>2
  <2> QED BY <2>1, <2>2, <1>1, <1>3
<1> QED BY <1>2, <1>4, <1>5

(* Storing characters the stream has been given keeps the slots' type.     *)
LEMMA StoredType ==
  ASSUME MaxInput \in Nat, NEW s \in [Slot -> 0 .. MaxInput],
         NEW a \in Nat, NEW n \in Nat, NEW t \in Nat, t + n <= MaxInput
  PROVE  Stored(s, a, n, t) \in [Slot -> 0 .. MaxInput]
BY BoundsAssumption DEF Stored, Slot

LEMMA GotRange ==
  ASSUME TypeOK, NEW n \in Nat
  PROVE  Got(n) \in 0 .. n /\ taken + Got(n) <= supplied
BY Numbers DEF Got, Smaller

LEMMA FillGapMeans ==
  ASSUME TypeOK, FillGap
  PROVE  \E n \in Nat : FillMeans(n)
<1> DEFINE n == Got(cur - 1 - end)
<1>1. /\ cur > end /\ cur - 1 # end
      /\ slots' = Stored(slots, end, n, taken)
      /\ end' = end + n /\ taken' = taken + n
      /\ beg' = cur /\ cur' = cur /\ cap' = cap /\ alloc' = alloc
      /\ supplied' = supplied /\ it' = it /\ ret' = Done("tryfill", 0)
  BY DEF FillGap, FillStarts, Overflow
<1>2. fresh' = (fresh /\ cur = beg) /\ good' \in BOOLEAN
  BY DEF FillGap, FillStarts, StaysGood
<1>3. n \in 0 .. cur - 1 - end /\ n \in Nat /\ taken + n <= supplied
  BY <1>1, Numbers, GotRange
<1> HIDE DEF n
<1>4. slots' \in [Slot -> 0 .. MaxInput]
  <2>1. end \in Nat /\ taken \in Nat /\ taken + n <= MaxInput
    BY <1>3, Numbers
  <2> QED BY <2>1, <1>1, <1>3, Numbers, StoredType
<1>5. /\ end' \in 0 .. cap
      /\ Dist(cur, end') = Dist(cur, end) + n
      /\ \A i \in 0 .. Dist(cur, end) - 1 : slots'[At(cur, i)] = slots[At(cur, i)]
      /\ \A i \in 0 .. n - 1 :
           slots'[At(cur, Dist(cur, end) + i)] = taken + 1 + i
  BY <1>1, <1>3, <1>4, Numbers, AppendMeans
<1>6. Dist(cur, end)' = Dist(cur, end')
  BY <1>1 DEF Dist
<1>7. FillMeans(n)
  BY <1>1, <1>2, <1>3, <1>4, <1>5, <1>6 DEF FillMeans
<1> QED BY <1>3, <1>7

LEMMA FillTailMeans ==
  ASSUME TypeOK, FillTail
  PROVE  \E n \in Nat : FillMeans(n)
<1> DEFINE n == Got(cap - end)
<1>1. /\ cur <= end
      /\ slots' = Stored(slots, end, n, taken)
      /\ end' = end + n /\ taken' = taken + n
      /\ beg' = cur /\ cur' = cur /\ cap' = cap /\ alloc' = alloc
      /\ supplied' = supplied /\ it' = it /\ ret' = Done("tryfill", 0)
  BY DEF FillTail, FillStarts
<1>2. fresh' = (fresh /\ cur = beg) /\ good' \in BOOLEAN
  BY DEF FillTail, FillStarts, StaysGood
<1>3. n \in 0 .. cap - end /\ n \in Nat /\ taken + n <= supplied
  BY <1>1, Numbers, GotRange
<1> HIDE DEF n
<1>4. slots' \in [Slot -> 0 .. MaxInput]
  <2>1. end \in Nat /\ taken \in Nat /\ taken + n <= MaxInput
    BY <1>3, Numbers
  <2> QED BY <2>1, <1>1, <1>3, Numbers, StoredType
<1>5. /\ end' \in 0 .. cap
      /\ Dist(cur, end') = Dist(cur, end) + n
      /\ \A i \in 0 .. Dist(cur, end) - 1 : slots'[At(cur, i)] = slots[At(cur, i)]
      /\ \A i \in 0 .. n - 1 :
           slots'[At(cur, Dist(cur, end) + i)] = taken + 1 + i
  BY <1>1, <1>3, <1>4, Numbers, AppendMeans
<1>6. Dist(cur, end)' = Dist(cur, end')
  BY <1>1 DEF Dist
<1>7. FillMeans(n)
  BY <1>1, <1>2, <1>3, <1>4, <1>5, <1>6 DEF FillMeans
<1> QED BY <1>3, <1>7

(* The failed get() spoils the slot behind the content, not the content.   *)
LEMMA FillTailThenEofMeans ==
  ASSUME TypeOK, FillTailThenEof
  PROVE  \E n \in Nat : FillMeans(n)
<1> DEFINE n == cap - end
<1> DEFINE s == Stored(slots, end, n, taken)
<1>1. /\ cur <= end /\ supplied = taken + n
      /\ slots' = [s EXCEPT ![cap] = Garbage]
      /\ end' = end + n /\ taken' = taken + n
      /\ beg' = cur /\ cur' = cur /\ cap' = cap /\ alloc' = alloc
      /\ supplied' = supplied /\ it' = it /\ ret' = Done("tryfill", 0)
  BY DEF FillTailThenEof, FillStarts
<1>2. fresh' = (fresh /\ cur = beg) /\ good' \in BOOLEAN
  BY DEF FillTailThenEof, FillStarts
<1>3. n \in Nat /\ taken + n <= supplied /\ n <= cap - end /\ cap = end + n
  BY <1>1, Numbers
<1> HIDE DEF n
<1>4. s \in [Slot -> 0 .. MaxInput]
  <2>1. end \in Nat /\ taken \in Nat /\ taken + n <= MaxInput
    BY <1>3, Numbers
  <2> QED BY <2>1, <1>1, <1>3, Numbers, StoredType
<1> HIDE DEF s
<1>5. /\ slots' \in [Slot -> 0 .. MaxInput]
      /\ \A x \in Slot : x # end + n => slots'[x] = s[x]
  BY <1>1, <1>3, <1>4, Numbers DEF Garbage
<1>6. /\ end' \in 0 .. cap
      /\ Dist(cur, end') = Dist(cur, end) + n
      /\ \A i \in 0 .. Dist(cur, end) - 1 : slots'[At(cur, i)] = slots[At(cur, i)]
      /\ \A i \in 0 .. n - 1 :
           slots'[At(cur, Dist(cur, end) + i)] = taken + 1 + i
  <2>1. \A x \in Slot :
          x # end + n => slots'[x] = Stored(slots, end, n, taken)[x]
    BY <1>5 DEF s
  <2>2. ~(cur > end)
    BY <1>1, Numbers
  <2> QED BY <2>1, <2>2, <1>1, <1>3, <1>5, AppendMeans
<1>7. Dist(cur, end)' = Dist(cur, end')
  BY <1>1 DEF Dist
<1>8. FillMeans(n)
  BY <1>1, <1>2, <1>3, <1>5, <1>6, <1>7 DEF FillMeans
<1> QED BY <1>3, <1>8

(* The wrapped fill: the tail of the array and the extra slot, then the    *)
(* slots from bufBeg_ on, are consecutive on the ring.                     *)
LEMMA FillWrapMeans ==
  ASSUME TypeOK, FillWrap
  PROVE  \E n \in Nat : FillMeans(n)
<1> DEFINE h == cap - end + 1
           m == Smaller(cur - 1, supplied - taken - h)
           n == h + m
           s == Stored(slots, end, h, taken)
<1>1. /\ cur <= end /\ cur > 0 /\ supplied - taken >= h
      /\ slots' = Stored(s, 0, m, taken + h)
      /\ end' = m /\ taken' = taken + h + m
      /\ beg' = cur /\ cur' = cur /\ cap' = cap /\ alloc' = alloc
      /\ supplied' = supplied /\ it' = it /\ ret' = Done("tryfill", 0)
  BY Numbers DEF FillWrap, FillStarts, StaysGood
<1>2. fresh' = (fresh /\ cur = beg) /\ good' \in BOOLEAN
  BY DEF FillWrap, FillStarts, StaysGood
<1>3. /\ h \in Nat /\ h = cap - end + 1 /\ m \in Nat /\ m < cur
      /\ n \in Nat /\ taken + h + m <= supplied
  BY <1>1, Numbers DEF Smaller
<1> HIDE DEF h, m
<1>4. s \in [Slot -> 0 .. MaxInput]
  <2>1. end \in Nat /\ taken \in Nat /\ taken + h <= MaxInput
    BY <1>3, Numbers
  <2> QED BY <2>1, <1>3, Numbers, StoredType
<1>5. slots' \in [Slot -> 0 .. MaxInput]
  <2>1. taken + h \in Nat /\ (taken + h) + m <= MaxInput
    BY <1>3, Numbers
  <2> HIDE DEF s
  <2> QED BY <2>1, <1>1, <1>3, <1>4, Numbers, StoredType
<1>6. \A x \in 0 .. cap :
        slots'[x] = IF x < m THEN taken + h + 1 + x
                    ELSE IF end <= x THEN taken + 1 + (x - end)
                    ELSE slots[x]
  BY <1>1, <1>3, Numbers DEF Stored
<1>7. end' \in 0 .. cap /\ Dist(cur, end)' = Dist(cur, end) + n
  BY <1>1, <1>3, Numbers DEF Dist
<1>8. ASSUME NEW i \in 0 .. Dist(cur, end) - 1
      PROVE  slots'[At(cur, i)] = slots[At(cur, i)]
  <2>1. At(cur, i) \in 0 .. cap /\ At(cur, i) >= m /\ At(cur, i) < end
    BY <1>1, <1>3, Numbers DEF Dist, At
  <2> QED BY <2>1, <1>3, <1>6, Numbers
<1>9. ASSUME NEW i \in 0 .. n - 1
      PROVE  slots'[At(cur, Dist(cur, end) + i)] = taken + 1 + i
  <2>1. At(cur, Dist(cur, end) + i) = IF i < h THEN end + i ELSE i - h
    BY <1>1, <1>3, Numbers DEF Dist, At
  <2>2. CASE i < h
    <3>1. end + i \in 0 .. cap /\ end + i >= m /\ end <= end + i
      BY <2>2, <1>1, <1>3, Numbers
    <3> QED BY <3>1, <2>1, <2>2, <1>3, <1>6, Numbers
  <2>3. CASE i >= h
    <3>1. i - h \in 0 .. cap /\ i - h < m
      BY <2>3, <1>1, <1>3, Numbers
    <3> QED BY <3>1, <2>1, <2>3, <1>3, <1>6, Numbers
  <2> QED BY <2>2, <2>3, <1>3
<1> HIDE DEF s
<1>10. FillMeans(n)
  <2>1. taken' = taken + n /\ taken' <= supplied
    BY <1>1, <1>3, Numbers
  <2> HIDE DEF n
  <2> QED BY <2>1, <1>1, <1>2, <1>5, <1>7, <1>8, <1>9 DEF FillMeans
<1> QED BY <1>3, <1>10

(* Every fill that is not refused appends.                                 *)
LEMMA TryFillMeans ==
  ASSUME TypeOK, TryFill
  PROVE  FillThrows \/ \E n \in Nat : FillMeans(n)
BY FillGapMeans, FillTailMeans, FillTailThenEofMeans, FillWrapMeans DEF TryFill

-----------------------------------------------------------------------------
(* Each action keeps the invariant.                                        *)

LEMMA FillKeepsInv ==
  ASSUME Inv, NEW n \in Nat, FillMeans(n)
  PROVE  Inv'
<1> USE DEF Inv
<1>1. /\ beg' = cur /\ cur' = cur /\ cap' = cap /\ alloc' = alloc
      /\ supplied' = supplied /\ taken' = taken + n /\ taken' <= supplied
      /\ it' = it /\ end' \in 0 .. cap
      /\ Dist(cur, end)' = Dist(cur, end) + n
  BY DEF FillMeans
<1>2. /\ Dist(beg, cur) \in 0 .. cap /\ Dist(cur, end) \in 0 .. cap
      /\ Dist(beg, end) \in 0 .. cap /\ Dist(cur, cur) = 0
      /\ Dist(beg, cur) = 0 <=> beg = cur
      /\ Dist(beg, cur) + Dist(cur, end) = Dist(beg, end)
      /\ Dist(beg, end) <= taken
  BY Numbers, DistRange DEF CursorsInWindow
<1>3. Dist(beg, end)' = Dist(cur, end) + n /\ Dist(beg, cur)' = 0
  BY <1>1, <1>2 DEF Dist
<1>4. TypeOK'
  <2>1. ret' \in [op : Outcomes, n : Int] /\ good' \in BOOLEAN
        /\ slots' \in [Slot -> 0 .. MaxInput]
    BY DEF FillMeans, Done, Outcomes
  <2>2. taken' \in 0 .. supplied'
    BY <1>1, Numbers
  <2>3. fresh' \in BOOLEAN
    BY DEF FillMeans
  <2> QED BY <2>1, <2>2, <2>3, <1>1 DEF TypeOK
<1>5. CursorsInWindow'
  BY <1>1, <1>2, <1>3, Numbers DEF CursorsInWindow
<1>6. Lo' = Pos
  BY <1>1, <1>2, <1>3, Numbers DEF Lo, Pos
<1>7. WindowMatchesStream'
  <2> SUFFICES ASSUME NEW i \in 0 .. Dist(cur, end) + n - 1
               PROVE  slots'[At(cur, i)] = Pos + 1 + i
    <3> SUFFICES ASSUME NEW i \in 0 .. (Dist(beg, end)' - 1)
                 PROVE  slots'[At(beg, i)'] = Lo' + 1 + i
      BY DEF WindowMatchesStream
    <3>1. i \in 0 .. Dist(cur, end) + n - 1
      BY <1>2, <1>3, Numbers
    <3>2. At(beg, i)' = At(cur, i)
      BY <1>1 DEF At
    <3>3. slots'[At(cur, i)] = Pos + 1 + i
      BY <3>1
    <3> QED BY <3>2, <3>3, <1>6
  <2>1. CASE i < Dist(cur, end)
    <3>1. i \in 0 .. Dist(cur, end) - 1
      BY <2>1, <1>2
    <3>2. slots'[At(cur, i)] = slots[At(cur, i)]
      BY <3>1 DEF FillMeans
    <3> QED BY <3>1, <3>2, UnreadInWindow
  <2>2. CASE i >= Dist(cur, end)
    <3> DEFINE j == i - Dist(cur, end)
    <3>1. j \in 0 .. n - 1 /\ Dist(cur, end) + j = i
      BY <2>2, <1>2
    <3>2. slots'[At(cur, Dist(cur, end) + j)] = taken + 1 + j
      BY <3>1 DEF FillMeans
    <3>3. taken + 1 + j = Pos + 1 + i
      BY <1>2, Numbers DEF Pos
    <3> QED BY <3>1, <3>2, <3>3
  <2> QED BY <2>1, <2>2, <1>2
<1>8. IteratorKeepsPlace'
  <2> SUFFICES ASSUME fresh, cur = beg
               PROVE  /\ it.beg = cur /\ it.cur <= cap
                      /\ it.at = Pos + Dist(cur, it.cur)
                      /\ it.at \in Pos .. taken + n
    <3>1. fresh' = (fresh /\ cur = beg)
      BY DEF FillMeans
    <3> QED BY <3>1, <1>1, <1>6 DEF IteratorKeepsPlace, IsValid, Hi, Dist
  <2>1. Pos = Lo
    BY DEF Pos, Lo
  <2>2. /\ it.beg = beg /\ it.at = Lo + Dist(beg, it.cur) /\ it.cur <= cap
        /\ it.at \in Lo .. taken
    BY DEF IteratorKeepsPlace, IsValid, Hi
  <2>3. Lo \in Int
    BY <1>2, Numbers DEF Lo
  <2> QED BY <2>1, <2>2, <2>3, Numbers
<1> QED BY <1>4, <1>5, <1>7, <1>8

LEMMA FillThrowsKeepsInv ==
  ASSUME Inv, FillThrows
  PROVE  Inv'
<1>1. UNCHANGED <<bufVars, streamVars, it, fresh>>
  BY DEF FillThrows
<1>2. ret' \in [op : Outcomes, n : Int]
  BY DEF FillThrows, Done, Outcomes
<1> QED BY <1>1, <1>2 DEF Inv, TypeOK, CursorsInWindow, WindowMatchesStream,
           IteratorKeepsPlace, IsValid, Lo, Hi, Dist, At, bufVars, streamVars

LEMMA SupplyKeepsInv ==
  ASSUME Inv, Supply
  PROVE  Inv'
<1>1. /\ UNCHANGED <<bufVars, taken, it, fresh, ret>>
      /\ good' \in BOOLEAN /\ supplied' \in supplied .. MaxInput
  BY DEF Supply
<1>2. supplied' \in 0 .. MaxInput /\ taken \in 0 .. supplied'
  BY <1>1, Numbers DEF Inv
<1> QED BY <1>1, <1>2 DEF Inv, TypeOK, CursorsInWindow, WindowMatchesStream,
           IteratorKeepsPlace, IsValid, Lo, Hi, Dist, At, bufVars

LEMMA SeekOffKeepsInv ==
  ASSUME Inv, NEW k \in Nat, SeekOff(k)
  PROVE  Inv'
<1> USE DEF Inv
<1>1. /\ cur' = Advance(cur, k)
      /\ ret' = Done("seekoff", Dist(beg, cur') - Dist(beg, cur))
      /\ UNCHANGED <<alloc, cap, beg, end, slots, streamVars, it, fresh>>
  BY DEF SeekOff
<1>2. /\ Dist(beg, cur) \in 0 .. cap /\ Dist(cur, end) \in 0 .. cap
      /\ Dist(beg, end) \in 0 .. cap
      /\ Dist(beg, cur) + Dist(cur, end) = Dist(beg, end)
      /\ Dist(beg, end) <= taken
  BY Numbers, DistRange DEF CursorsInWindow
<1>3. /\ cur' \in 0 .. cap
      /\ Dist(beg, cur') = Smaller(Dist(beg, cur) + k, Dist(beg, end))
  BY <1>1, <1>2, Numbers, AdvanceMeaning
<1>4. Dist(beg, cur') \in 0 .. Dist(beg, end)
  BY <1>2, <1>3 DEF Smaller
<1>5. Dist(beg, cur') + Dist(cur', end) = Dist(beg, end)
  BY <1>3, <1>4, Numbers DEF Dist
<1>6. CursorsInWindow'
  BY <1>1, <1>2, <1>5 DEF CursorsInWindow, Dist, streamVars
<1>7. TypeOK'
  <2>1. ret' \in [op : Outcomes, n : Int]
    BY <1>1, <1>2, <1>4 DEF Done, Outcomes
  <2> QED BY <2>1, <1>1, <1>3 DEF TypeOK, streamVars
<1> QED BY <1>1, <1>6, <1>7 DEF WindowMatchesStream, IteratorKeepsPlace,
           IsValid, Lo, Hi, Dist, At, streamVars

(* After clear() and resize() the window is empty and the iterator stale.  *)
LEMMA ClearKeepsInv ==
  ASSUME Inv, Clear
  PROVE  Inv'
<1> USE DEF Inv
<1>1. /\ beg' = 0 /\ cur' = 0 /\ end' = 0 /\ fresh' = FALSE
      /\ UNCHANGED <<alloc, cap, slots, streamVars, it, ret>>
  BY DEF Clear
<1>2. TypeOK'
  <2>1. beg' \in 0 .. cap' /\ cur' \in 0 .. cap' /\ end' \in 0 .. cap'
    BY <1>1, Numbers
  <2>2. fresh' \in BOOLEAN
    BY <1>1
  <2> QED BY <2>1, <2>2, <1>1 DEF TypeOK, streamVars
<1> QED BY <1>1, <1>2, Numbers DEF CursorsInWindow, WindowMatchesStream,
           IteratorKeepsPlace, Dist, streamVars

LEMMA ResizeKeepsInv ==
  ASSUME Inv, NEW m \in 0 .. MaxSize, Resize(m)
  PROVE  Inv'
<1> USE DEF Inv
<1>1. /\ beg' = 0 /\ cur' = 0 /\ end' = 0 /\ fresh' = FALSE /\ cap' = m
      /\ UNCHANGED <<streamVars, ret>>
  BY DEF Resize
<1>2. /\ cap' \in 0 .. MaxSize /\ fresh' \in BOOLEAN
      /\ beg' \in 0 .. cap' /\ cur' \in 0 .. cap' /\ end' \in 0 .. cap'
  <2>1. fresh' \in BOOLEAN
    BY <1>1
  <2>2. m \in Nat /\ cap' = m /\ beg' = 0 /\ cur' = 0 /\ end' = 0
    BY <1>1, BoundsAssumption
  <2> QED BY <2>1, <2>2
<1>3. ASSUME TypeOK' PROVE Inv'
  BY <1>1, <1>3, Numbers DEF CursorsInWindow,
     WindowMatchesStream, IteratorKeepsPlace, Dist, streamVars
<1>4. CASE cap < m
  <2>1. /\ alloc' = m + 1 /\ slots' = [x \in Slot |-> Garbage]
        /\ \E p \in {it.beg, Dangling} : it' = [it EXCEPT !.beg = p]
    BY <1>4, Numbers DEF Resize
  <2>2. alloc' \in 0 .. MaxSize + 1 /\ cap' < alloc'
    BY <2>1, <1>1, BoundsAssumption
  <2>3. slots' \in [Slot -> 0 .. MaxInput]
    BY <2>1, BoundsAssumption DEF Garbage
  <2>4. it' \in [beg : 0 .. Dangling, cur : Slot, at : 0 .. MaxInput]
    BY <2>1, BoundsAssumption DEF TypeOK, Dangling
  <2>5. TypeOK'
    BY <2>2, <2>3, <2>4, <1>1, <1>2 DEF TypeOK, streamVars
  <2> QED BY <2>5, <1>3
<1>5. CASE cap >= m
  <2>1. UNCHANGED <<alloc, slots, it>>
    BY <1>5, Numbers DEF Resize
  <2>2. cap' < alloc' \/ cap' = 0
    BY <2>1, <1>1, <1>5, Numbers, BoundsAssumption DEF TypeOK
  <2>3. TypeOK'
    BY <2>1, <2>2, <1>1, <1>2 DEF TypeOK, streamVars
  <2> QED BY <2>3, <1>3
<1> QED BY <1>4, <1>5, Numbers

LEMMA TakeIteratorKeepsInv ==
  ASSUME Inv, NEW c \in {beg, cur, end}, TakeIterator(c)
  PROVE  Inv'
<1> USE DEF Inv
<1>1. /\ it' = [beg |-> beg, cur |-> c, at |-> Lo + Dist(beg, c)]
      /\ fresh' = TRUE /\ UNCHANGED <<bufVars, streamVars, ret>>
  BY DEF TakeIterator
<1>2. /\ Dist(beg, c) \in 0 .. Dist(beg, end) /\ Dist(beg, end) <= taken
      /\ Dist(beg, end) \in Nat
  BY Numbers DEF CursorsInWindow, Dist
<1>3. Lo + Dist(beg, c) \in Lo .. Hi /\ Lo \in Nat /\ Hi \in 0 .. MaxInput
  BY <1>2, Numbers DEF Lo, Hi
<1>4. it' \in [beg : 0 .. Dangling, cur : Slot, at : 0 .. MaxInput]
  BY <1>1, <1>3, Numbers DEF Dangling
<1>5. TypeOK'
  BY <1>1, <1>4 DEF TypeOK, bufVars, streamVars
<1>6. it'.cur <= cap'
  BY <1>1, Numbers DEF bufVars
<1> QED BY <1>1, <1>3, <1>5, <1>6 DEF CursorsInWindow, WindowMatchesStream,
           IteratorKeepsPlace, IsValid, Lo, Hi, Dist, At, bufVars, streamVars

(* A fresh iterator stands on a slot of the window.                        *)
LEMMA FreshInWindow ==
  ASSUME Inv, fresh
  PROVE  /\ it.cur \in 0 .. cap
         /\ it.beg = beg
         /\ it.at = Lo + Dist(beg, it.cur)
         /\ Dist(beg, it.cur) \in 0 .. Dist(beg, end)
<1>1. /\ it.beg = beg /\ it.at = Lo + Dist(beg, it.cur)
      /\ it.at \in Lo .. taken /\ it.cur <= cap
  BY DEF Inv, IteratorKeepsPlace, IsValid, Hi
<1>2. Dist(beg, end) \in 0 .. cap /\ Lo \in Int
  BY Numbers, DistRange DEF Inv, Lo
<1>3. Dist(beg, it.cur) \in 0 .. Dist(beg, end)
  BY <1>1, <1>2, Numbers DEF Inv, Lo, Dist
<1>4. it.cur \in 0 .. cap
  BY <1>1, Numbers DEF Inv
<1> QED BY <1>1, <1>3, <1>4

(* += and -= clamp to the window.                                          *)
LEMMA MovedMeaning ==
  ASSUME TypeOK, CursorsInWindow, NEW d \in Int,
         NEW c \in 0 .. cap, Dist(beg, c) <= Dist(beg, end)
  PROVE  /\ Moved(c, d) \in 0 .. cap
         /\ Dist(beg, Moved(c, d)) \in 0 .. Dist(beg, end)
         /\ Dist(beg, Moved(c, d)) =
              IF Dist(beg, c) + d < 0 THEN 0
              ELSE Smaller(Dist(beg, c) + d, Dist(beg, end))
<1>1. Dist(beg, c) \in 0 .. cap /\ Dist(beg, end) \in 0 .. cap
  BY Numbers, DistRange
<1>2. CASE d < 0
  <2>1. -d \in Nat /\ Moved(c, d) = Retreat(c, -d)
    BY <1>2 DEF Moved
  <2>2. /\ Retreat(c, -d) \in 0 .. cap
        /\ Dist(beg, Retreat(c, -d))
             = IF -d <= Dist(beg, c) THEN Dist(beg, c) - (-d) ELSE 0
    BY <2>1, RetreatMeaning
  <2> QED BY <2>1, <2>2, <1>1, <1>2, Numbers DEF Smaller
<1>3. CASE d >= 0
  <2>1. d \in Nat /\ Moved(c, d) = Advance(c, d)
    BY <1>3 DEF Moved
  <2>2. /\ Advance(c, d) \in 0 .. cap
        /\ Dist(beg, Advance(c, d)) = Smaller(Dist(beg, c) + d, Dist(beg, end))
    BY <2>1, AdvanceMeaning
  <2> QED BY <2>1, <2>2, <1>1, <1>3, Numbers DEF Smaller
<1> QED BY <1>2, <1>3

LEMMA MoveIteratorKeepsInv ==
  ASSUME Inv, NEW d \in Int, MoveIterator(d)
  PROVE  Inv'
<1> DEFINE c == Moved(it.cur, d)
<1> USE DEF Inv
<1>1. /\ it' = [it EXCEPT !.cur = c,
                          !.at = @ + Dist(beg, c) - Dist(beg, it.cur)]
      /\ fresh /\ fresh' = fresh
      /\ UNCHANGED <<bufVars, streamVars, ret>>
  BY DEF MoveIterator
<1>2. /\ it.cur \in 0 .. cap /\ it.beg = beg
      /\ it.at = Lo + Dist(beg, it.cur)
      /\ Dist(beg, it.cur) \in 0 .. Dist(beg, end)
  BY <1>1, FreshInWindow
<1>3. c \in 0 .. cap /\ Dist(beg, c) \in 0 .. Dist(beg, end)
  BY <1>2, MovedMeaning
<1>4. Dist(beg, end) \in 0 .. cap /\ Dist(beg, end) <= taken
  BY Numbers, DistRange DEF CursorsInWindow
<1> HIDE DEF c
<1>5. /\ it.at + Dist(beg, c) - Dist(beg, it.cur) = Lo + Dist(beg, c)
      /\ Lo + Dist(beg, c) \in Lo .. Hi
      /\ Lo + Dist(beg, c) \in 0 .. MaxInput
  BY <1>2, <1>3, <1>4, Numbers DEF Lo, Hi
<1>6. it \in [beg : 0 .. Dangling, cur : Slot, at : 0 .. MaxInput]
  BY DEF TypeOK
<1>7. /\ it'.cur = c /\ it'.beg = beg /\ it'.at = Lo + Dist(beg, c)
      /\ it' \in [beg : 0 .. Dangling, cur : Slot, at : 0 .. MaxInput]
  BY <1>1, <1>2, <1>3, <1>5, <1>6, Numbers
<1>8. TypeOK'
  BY <1>1, <1>7 DEF TypeOK, bufVars, streamVars
<1>9. it'.cur <= cap'
  BY <1>1, <1>3, <1>7, Numbers DEF bufVars
<1> QED BY <1>1, <1>5, <1>7, <1>8, <1>9 DEF CursorsInWindow, WindowMatchesStream,
           IteratorKeepsPlace, IsValid, Lo, Hi, Dist, At, bufVars, streamVars

LEMMA DistanceKeepsInv ==
  ASSUME Inv, NEW c \in {beg, cur, end}, Distance(c)
  PROVE  Inv'
<1>1. UNCHANGED <<bufVars, streamVars, it, fresh>>
  BY DEF Distance
<1>2. Dist(beg, it.cur) \in Int /\ Dist(beg, c) \in Int
  BY Numbers DEF Inv, Dist
<1>3. ret' \in [op : Outcomes, n : Int]
  BY <1>2 DEF Distance, Done, Outcomes
<1> QED BY <1>1, <1>3 DEF Inv, TypeOK, CursorsInWindow, WindowMatchesStream,
           IteratorKeepsPlace, IsValid, Lo, Hi, Dist, At, bufVars, streamVars

LEMMA StutterKeepsInv ==
  ASSUME Inv, UNCHANGED vars
  PROVE  Inv'
BY DEF vars, bufVars, streamVars, Inv, TypeOK, CursorsInWindow,
       WindowMatchesStream, IteratorKeepsPlace, IsValid, Lo, Hi, Dist, At

LEMMA NextKeepsInv == Inv /\ [Next]_vars => Inv'
<1> SUFFICES ASSUME Inv, [Next]_vars PROVE Inv'
  OBVIOUS
<1>1. CASE Supply
  BY <1>1, SupplyKeepsInv
<1>2. CASE TryFill
  BY <1>2, TryFillMeans, FillThrowsKeepsInv, FillKeepsInv DEF Inv
<1>3. ASSUME NEW k \in 0 .. MaxOffset, SeekOff(k) PROVE Inv'
  BY <1>3, SeekOffKeepsInv, BoundsAssumption
<1>4. ASSUME NEW c \in {beg, cur, end}, TakeIterator(c) PROVE Inv'
  BY <1>4, TakeIteratorKeepsInv
<1>5. ASSUME NEW c \in {beg, cur, end}, Distance(c) PROVE Inv'
  BY <1>5, DistanceKeepsInv
<1>6. ASSUME NEW d \in -MaxOffset .. MaxOffset, MoveIterator(d) PROVE Inv'
  BY <1>6, MoveIteratorKeepsInv, BoundsAssumption
<1>7. CASE Clear
  BY <1>7, ClearKeepsInv
<1>8. ASSUME NEW m \in 0 .. MaxSize, Resize(m) PROVE Inv'
  BY <1>8, ResizeKeepsInv
<1>9. CASE UNCHANGED vars
  BY <1>9, StutterKeepsInv
<1> QED
  BY <1>1, <1>2, <1>3, <1>4, <1>5, <1>6, <1>7, <1>8, <1>9
     DEF Next, StreamingNext

-----------------------------------------------------------------------------
(* The theorems.                                                           *)

LEMMA Invariance == Spec => []Inv
BY InitInv, NextKeepsInv, PTL DEF Spec

(* The cursors and the iterator never leave the allocated array: the state *)
(* has its types after every sequence of calls.                            *)
THEOREM TypesHold == Spec => []TypeOK
<1>1. Inv => TypeOK
  BY DEF Inv
<1> QED BY <1>1, Invariance, PTL

(* The read position stays between window start and window end, wrapped or *)
(* not.                                                                    *)
THEOREM CursorsStayInWindow == Spec => []CursorsInWindow
<1>1. Inv => CursorsInWindow
  BY DEF Inv
<1> QED BY <1>1, Invariance, PTL

(* For every capacity, the ring holds consecutive characters of the stream *)
(* up to the last one extracted: tryfill loses and doubles nothing.        *)
THEOREM WindowHoldsStream == Spec => []WindowMatchesStream
<1>1. Inv => WindowMatchesStream
  BY DEF Inv
<1> QED BY <1>1, Invariance, PTL

(* An iterator made since the window start last moved is valid and names   *)
(* the stream position it was made for, whatever was appended since.       *)
THEOREM IteratorsKeepPlace == Spec => []IteratorKeepsPlace
<1>1. Inv => IteratorKeepsPlace
  BY DEF Inv
<1> QED BY <1>1, Invariance, PTL

(* No fill writes over a character that is still unread.                   *)
THEOREM UnreadCharactersSurvive == Spec => UnreadSurvivesFill
<1> DEFINE Kept == TryFill =>
                     \A i \in 0 .. Dist(cur, end) - 1 :
                       slots'[At(cur, i)] = slots[At(cur, i)]
<1>1. Inv /\ [Next]_vars => [Kept]_vars
  <2> SUFFICES ASSUME Inv, TryFill
               PROVE  \A i \in 0 .. Dist(cur, end) - 1 :
                        slots'[At(cur, i)] = slots[At(cur, i)]
    OBVIOUS
  <2>1. CASE FillThrows
    BY <2>1 DEF FillThrows, bufVars
  <2>2. ASSUME NEW n \in Nat, FillMeans(n)
        PROVE  \A i \in 0 .. Dist(cur, end) - 1 :
                 slots'[At(cur, i)] = slots[At(cur, i)]
    BY <2>2 DEF FillMeans
  <2> QED BY <2>1, <2>2, TryFillMeans DEF Inv
<1> QED BY <1>1, Invariance, PTL DEF Spec, UnreadSurvivesFill

-----------------------------------------------------------------------------
(* Refinement: every step of the buffer is a step of StreamWindow.         *)

LEMMA WindowBounds ==
  ASSUME Inv
  PROVE  /\ Lo \in Nat /\ Pos \in Lo .. Hi /\ Hi \in Nat
         /\ Hi - Pos = Dist(cur, end) /\ Pos - Lo = Dist(beg, cur)
         /\ Hi - Lo = Dist(beg, end)
         /\ Dist(beg, cur) \in 0 .. cap /\ Dist(cur, end) \in 0 .. cap
         /\ Dist(beg, end) \in 0 .. cap
<1>1. /\ Dist(beg, cur) \in 0 .. cap /\ Dist(cur, end) \in 0 .. cap
      /\ Dist(beg, end) \in 0 .. cap /\ cap \in Nat /\ taken \in Nat
  BY Numbers, DistRange DEF Inv
<1>2. /\ Dist(beg, cur) + Dist(cur, end) = Dist(beg, end)
      /\ Dist(beg, end) <= taken
  BY DEF Inv, CursorsInWindow
<1> QED BY <1>1, <1>2 DEF Lo, Pos, Hi

LEMMA InitRefines == Init => Window!Init
<1> SUFFICES ASSUME Init PROVE Window!Init
  OBVIOUS
<1>1. Dist(beg, end) = 0 /\ Dist(cur, end) = 0
  BY DEF Init, Dist
<1>2. Lo = 0 /\ Pos = 0 /\ Hi = 0
  BY <1>1 DEF Init, Lo, Pos, Hi
<1>3. ret = Window!Done("none", 0)
  BY DEF Init, Done, Window!Done
<1>4. it.at = 0
  BY DEF Init
<1> QED BY <1>2, <1>3, <1>4 DEF Init, Window!Init

LEMMA SupplyRefines ==
  ASSUME Supply
  PROVE  Window!Supply
BY DEF Supply, Window!Supply, Lo, Pos, Hi, Dist, bufVars

LEMMA FillThrowsRefines ==
  ASSUME Inv, FillThrows
  PROVE  Window!Refuse
<1>1. UNCHANGED <<cap, Lo, Pos, Hi, supplied, good, it.at, fresh>>
  BY DEF FillThrows, bufVars, streamVars, Lo, Pos, Hi, Dist
<1>2. CASE Underflow
  <2>1. cap = 0 /\ ret' = Done("underflow", 0)
    BY <1>2, Numbers DEF FillThrows, Underflow, Inv, TypeOK
  <2>2. Window!Room = 0
    BY <2>1, WindowBounds, Numbers DEF Window!Room, Inv
  <2> QED BY <2>1, <2>2, <1>1 DEF Window!Refuse, Window!Done, Done
<1>3. CASE ~Underflow
  <2>1. ret' = Done("overflow", 0) /\ Overflow
    BY <1>3 DEF FillThrows
  <2>2. Dist(cur, end) = cap
    BY <2>1, Numbers DEF Overflow, Dist, Inv
  <2>3. Window!Room = 0
    BY <2>2, WindowBounds, Numbers DEF Window!Room, Inv
  <2> QED BY <2>1, <2>3, <1>1 DEF Window!Refuse, Window!Done, Done
<1> QED BY <1>2, <1>3

(* A fill that is not refused finds room, and gets what the stream has of  *)
(* that room; the stream stays good exactly when it had enough.            *)
FillAmount(n) ==
  LET room == cap - Dist(cur, end)
  IN  /\ room > 0
      /\ n = IF good THEN Smaller(room, supplied - taken) ELSE 0
      /\ good' = StaysGood(room)

LEMMA RoomLeft ==
  ASSUME TypeOK, FillStarts
  PROVE  Dist(cur, end) < cap
<1>1. cur - 1 # end /\ end - cur # cap
  BY DEF FillStarts, Overflow
<1> QED BY <1>1, Numbers DEF Dist

LEMMA FillGapAmount ==
  ASSUME TypeOK, FillGap, NEW n \in Nat, FillMeans(n)
  PROVE  FillAmount(n)
<1>1. cap - Dist(cur, end) = cur - 1 - end
  BY Numbers DEF FillGap, Dist
<1>2. taken' = taken + Got(cur - 1 - end) /\ good' = StaysGood(cur - 1 - end)
  BY DEF FillGap
<1>3. n = Got(cur - 1 - end)
  <2>1. Got(cur - 1 - end) \in Int
    BY Numbers DEF Got, Smaller
  <2> QED BY <2>1, <1>2, Numbers DEF FillMeans
<1>4. cap - Dist(cur, end) > 0
  BY RoomLeft, Numbers, DistRange DEF FillGap
<1> QED BY <1>1, <1>2, <1>3, <1>4 DEF FillAmount, Got

LEMMA FillWrapAmount ==
  ASSUME TypeOK, FillWrap, NEW n \in Nat, FillMeans(n)
  PROVE  FillAmount(n)
<1> DEFINE h == cap - end + 1
           room == h + (cur - 1)
<1>1. cap - Dist(cur, end) = room
  BY Numbers DEF FillWrap, Dist
<1>2. /\ good /\ supplied - taken >= h
      /\ taken' = taken + h + Smaller(cur - 1, supplied - taken - h)
      /\ good' = StaysGood(room)
  BY Numbers DEF FillWrap, StaysGood
<1>3. n = Smaller(room, supplied - taken)
  BY <1>2, Numbers DEF FillMeans, Smaller
<1>4. room > 0
  BY Numbers DEF FillWrap
<1> HIDE DEF room
<1> QED BY <1>1, <1>2, <1>3, <1>4 DEF FillAmount

LEMMA FillTailThenEofAmount ==
  ASSUME TypeOK, FillTailThenEof, NEW n \in Nat, FillMeans(n)
  PROVE  FillAmount(n)
<1>1. cap - Dist(cur, end) = cap - end + cur
  BY Numbers DEF FillTailThenEof, Dist
<1>2. /\ good /\ supplied = taken + (cap - end) /\ good' = FALSE /\ cur > 0
      /\ taken' = taken + (cap - end)
  BY DEF FillTailThenEof, StaysGood
<1>3. n = Smaller(cap - end + cur, supplied - taken)
  BY <1>2, Numbers DEF FillMeans, Smaller
<1>4. cap - end + cur > 0 /\ supplied - taken < cap - end + cur
  BY <1>2, Numbers
<1>5. good' = StaysGood(cap - end + cur)
  <2>1. ~(supplied - taken >= cap - end + cur)
    BY <1>4, Numbers
  <2> QED BY <2>1, <1>2 DEF StaysGood
<1>6. n = IF good THEN Smaller(cap - end + cur, supplied - taken) ELSE 0
  BY <1>2, <1>3
<1> QED BY <1>1, <1>4, <1>5, <1>6 DEF FillAmount

LEMMA FillTailAmount ==
  ASSUME TypeOK, FillTail, NEW n \in Nat, FillMeans(n)
  PROVE  FillAmount(n)
<1> DEFINE r == cap - end
<1>1. cap - Dist(cur, end) = r + cur
  BY Numbers DEF FillTail, Dist
<1>2. /\ taken' = taken + Got(r) /\ good' = StaysGood(r)
      /\ ~StaysGood(r) \/ cur = 0
  BY DEF FillTail
<1>3. r + cur > 0
  BY <1>1, RoomLeft, Numbers, DistRange DEF FillTail
<1>4. n = Got(r)
  <2>1. Got(r) \in Int
    BY Numbers DEF Got, Smaller
  <2> QED BY <2>1, <1>2, Numbers DEF FillMeans
<1>5. Got(r) = IF good THEN Smaller(r + cur, supplied - taken) ELSE 0
  BY <1>2, Numbers DEF Got, Smaller, StaysGood
<1>6. StaysGood(r) = StaysGood(r + cur)
  <2>1. CASE cur = 0
    BY <2>1, Numbers
  <2>2. CASE ~StaysGood(r)
    <3>1. ~good \/ supplied - taken < r
      BY <2>2, Numbers DEF StaysGood
    <3>2. ~good \/ ~(supplied - taken >= r + cur)
      BY <3>1, Numbers
    <3> QED BY <3>2, <2>2 DEF StaysGood
  <2> QED BY <2>1, <2>2, <1>2
<1> HIDE DEF r
<1> QED BY <1>1, <1>2, <1>3, <1>4, <1>5, <1>6 DEF FillAmount

(* Whichever path a fill took, it is refused or brings what it should.     *)
LEMMA TryFillAmount ==
  ASSUME TypeOK, TryFill
  PROVE  FillThrows \/ \E n \in Nat : FillMeans(n) /\ FillAmount(n)
<1>1. CASE FillGap
  <2>1. PICK n \in Nat : FillMeans(n)
    BY <1>1, FillGapMeans
  <2> QED BY <2>1, <1>1, FillGapAmount
<1>2. CASE FillTail
  <2>1. PICK n \in Nat : FillMeans(n)
    BY <1>2, FillTailMeans
  <2> QED BY <2>1, <1>2, FillTailAmount
<1>3. CASE FillTailThenEof
  <2>1. PICK n \in Nat : FillMeans(n)
    BY <1>3, FillTailThenEofMeans
  <2> QED BY <2>1, <1>3, FillTailThenEofAmount
<1>4. CASE FillWrap
  <2>1. PICK n \in Nat : FillMeans(n)
    BY <1>4, FillWrapMeans
  <2> QED BY <2>1, <1>4, FillWrapAmount
<1> QED BY <1>1, <1>2, <1>3, <1>4 DEF TryFill

LEMMA FillRefines ==
  ASSUME Inv, NEW n \in Nat, FillMeans(n), FillAmount(n)
  PROVE  Window!Fill
<1>1. /\ beg' = cur /\ cur' = cur /\ cap' = cap /\ supplied' = supplied
      /\ taken' = taken + n /\ it' = it
      /\ Dist(cur, end)' = Dist(cur, end) + n
  BY DEF FillMeans
<1>2. fresh' = (fresh /\ cur = beg) /\ ret' = Done("tryfill", 0)
  BY DEF FillMeans
<1>3. /\ Lo' = Pos /\ Pos' = Pos /\ Hi' = Hi + n
  <2>1. Dist(beg, end)' = Dist(cur, end)'
    BY <1>1 DEF Dist
  <2> QED BY <2>1, <1>1, WindowBounds, Numbers DEF Lo, Pos, Hi, Inv
<1>4. Window!Room = cap - Dist(cur, end)
  BY WindowBounds DEF Window!Room
<1>5. Lo = Pos <=> cur = beg
  <2>1. Dist(beg, cur) = 0 <=> beg = cur
    BY Numbers, DistRange DEF Inv
  <2> QED BY <2>1, WindowBounds
<1>6. /\ Window!Room > 0
      /\ n = IF good THEN Window!Smaller(Window!Room, supplied - Hi) ELSE 0
  BY <1>4 DEF FillAmount, Hi, Window!Smaller, Smaller
<1>7. good' = (good /\ supplied - Hi >= Window!Room)
  BY <1>4 DEF FillAmount, Hi, StaysGood
<1>8. Hi' = IF good THEN Hi + Window!Smaller(Window!Room, supplied - Hi) ELSE Hi
  BY <1>3, <1>6, WindowBounds
<1>9. fresh' = (fresh /\ Lo = Pos)
  BY <1>2, <1>5
<1>10. ret' = Window!Done("tryfill", 0)
  BY <1>2 DEF Done, Window!Done
<1> QED BY <1>1, <1>3, <1>6, <1>7, <1>8, <1>9, <1>10 DEF Window!Fill

LEMMA TryFillRefines ==
  ASSUME Inv, TryFill
  PROVE  Window!Refuse \/ Window!Fill
<1>1. CASE FillThrows
  BY <1>1, FillThrowsRefines
<1>2. ASSUME NEW n \in Nat, FillMeans(n), FillAmount(n)
      PROVE  Window!Fill
  BY <1>2, FillRefines
<1> QED BY <1>1, <1>2, TryFillAmount DEF Inv

LEMMA SeekOffRefines ==
  ASSUME Inv, NEW k \in Nat, SeekOff(k)
  PROVE  Window!Seek(k)
<1>1. /\ cur' = Advance(cur, k)
      /\ ret' = Done("seekoff", Dist(beg, cur') - Dist(beg, cur))
      /\ UNCHANGED <<alloc, cap, beg, end, slots, streamVars, it, fresh>>
  BY DEF SeekOff
<1>2. /\ cur' \in 0 .. cap
      /\ Dist(beg, cur') = Smaller(Dist(beg, cur) + k, Dist(beg, end))
  <2>1. cur \in 0 .. cap /\ Dist(beg, cur) <= Dist(beg, end)
    BY WindowBounds, Numbers DEF Inv
  <2> QED BY <2>1, <1>1, AdvanceMeaning DEF Inv
<1>3. Dist(beg, cur') - Dist(beg, cur) = Window!Smaller(k, Hi - Pos)
  BY <1>2, WindowBounds, Numbers DEF Smaller, Window!Smaller, Inv
<1>4. Dist(cur', end) = Dist(beg, end) - Dist(beg, cur')
  <2>1. Dist(beg, cur') \in 0 .. Dist(beg, end)
    BY <1>2, WindowBounds DEF Smaller
  <2> QED BY <2>1, <1>2, Numbers DEF Dist, Inv
<1>5. /\ Lo' = Lo /\ Hi' = Hi /\ Pos' = Hi - Dist(cur', end)
  BY <1>1 DEF Lo, Hi, Pos, Dist, streamVars
<1>6. Pos' = Pos + Window!Smaller(k, Hi - Pos)
  <2>1. Dist(beg, cur') \in Int
    BY <1>2, Numbers DEF Dist, Inv
  <2> QED BY <2>1, <1>3, <1>4, <1>5, WindowBounds
<1>7. ret' = Window!Done("seekoff", Window!Smaller(k, Hi - Pos))
  BY <1>1, <1>3 DEF Done, Window!Done
<1> QED BY <1>1, <1>5, <1>6, <1>7 DEF Window!Seek, streamVars

LEMMA ClearRefines ==
  ASSUME Inv, Clear
  PROVE  Window!Drop(cap)
<1>1. /\ beg' = 0 /\ cur' = 0 /\ end' = 0 /\ fresh' = FALSE
      /\ UNCHANGED <<alloc, cap, slots, streamVars, it, ret>>
  BY DEF Clear
<1>2. Lo' = Hi /\ Pos' = Hi /\ Hi' = Hi
  BY <1>1, Numbers DEF Lo, Pos, Hi, Dist, streamVars, Inv
<1> QED BY <1>1, <1>2 DEF Window!Drop, streamVars

LEMMA ResizeRefines ==
  ASSUME Inv, NEW m \in 0 .. MaxSize, Resize(m)
  PROVE  Window!Drop(m)
<1>1. /\ cap' = m /\ beg' = 0 /\ cur' = 0 /\ end' = 0 /\ fresh' = FALSE
      /\ UNCHANGED <<streamVars, ret>>
  BY DEF Resize
<1>2. Lo' = Hi /\ Pos' = Hi /\ Hi' = Hi
  BY <1>1, Numbers DEF Lo, Pos, Hi, Dist, streamVars, Inv
<1>3. it'.at = it.at
  <2>1. ASSUME NEW p \in {it.beg, Dangling}, it' = [it EXCEPT !.beg = p]
        PROVE  it'.at = it.at
    BY <2>1 DEF Inv, TypeOK
  <2> QED BY <2>1 DEF Resize
<1> QED BY <1>1, <1>2, <1>3 DEF Window!Drop, streamVars

LEMMA TakeIteratorRefines ==
  ASSUME Inv, NEW c \in {beg, cur, end}, TakeIterator(c)
  PROVE  \E p \in {Lo, Pos, Hi} : Window!Take(p)
<1>1. /\ it'.at = Lo + Dist(beg, c)
      /\ fresh' = TRUE /\ UNCHANGED <<bufVars, streamVars, ret>>
  BY DEF TakeIterator
<1>2. Lo + Dist(beg, c) \in {Lo, Pos, Hi}
  <2>1. Dist(beg, beg) = 0
    BY Numbers DEF Dist, Inv
  <2> QED BY <2>1, WindowBounds
<1>3. Lo' = Lo /\ Pos' = Pos /\ Hi' = Hi
  BY <1>1 DEF Lo, Pos, Hi, Dist, bufVars, streamVars
<1>4. Window!Take(Lo + Dist(beg, c))
  BY <1>1, <1>3 DEF Window!Take, bufVars, streamVars
<1> QED BY <1>2, <1>4

LEMMA DistanceRefines ==
  ASSUME Inv, NEW c \in {beg, cur, end}, Distance(c)
  PROVE  \E p \in {Lo, Pos, Hi} : Window!Distance(p)
<1> DEFINE p == Lo + Dist(beg, c)
<1>1. UNCHANGED <<bufVars, streamVars, it, fresh>>
  BY DEF Distance
<1>2. p \in {Lo, Pos, Hi}
  <2>1. Dist(beg, beg) = 0
    BY Numbers DEF Dist, Inv
  <2> QED BY <2>1, WindowBounds
<1>3. Lo' = Lo /\ Pos' = Pos /\ Hi' = Hi
  BY <1>1 DEF Lo, Pos, Hi, Dist, bufVars, streamVars
<1>4. CASE fresh
  <2>1. IsValid /\ it.at = Lo + Dist(beg, it.cur)
    BY <1>4 DEF Inv, IteratorKeepsPlace
  <2>2. ret' = Done("distance", Dist(beg, it.cur) - Dist(beg, c))
    BY <2>1 DEF Distance
  <2>3. Dist(beg, it.cur) - Dist(beg, c) = it.at - p
    <3>1. Dist(beg, it.cur) \in Int /\ Dist(beg, c) \in Int
      BY Numbers DEF Dist, Inv
    <3> QED BY <3>1, <2>1, WindowBounds
  <2>4. ret' = Window!Done("distance", it.at - p)
    BY <2>2, <2>3 DEF Done, Window!Done
  <2>5. Window!Distance(p)
    BY <2>4, <1>1, <1>3, <1>4 DEF Window!Distance, bufVars, streamVars
  <2> QED BY <2>5, <1>2
<1>5. CASE ~fresh
  <2>1. ret'.op \in {"distance", "stale"}
    BY DEF Distance, Done
  <2>2. Window!Distance(p)
    BY <2>1, <1>1, <1>3, <1>5 DEF Window!Distance, bufVars, streamVars
  <2> QED BY <2>2, <1>2
<1> QED BY <1>4, <1>5

LEMMA MoveIteratorRefines ==
  ASSUME Inv, NEW d \in Int, MoveIterator(d)
  PROVE  Window!Move(d)
<1> DEFINE c == Moved(it.cur, d)
<1>1. /\ it' = [it EXCEPT !.cur = c,
                          !.at = @ + Dist(beg, c) - Dist(beg, it.cur)]
      /\ fresh /\ fresh' = fresh
      /\ UNCHANGED <<bufVars, streamVars, ret>>
  BY DEF MoveIterator
<1>2. /\ it.cur \in 0 .. cap
      /\ it.at = Lo + Dist(beg, it.cur)
      /\ Dist(beg, it.cur) \in 0 .. Dist(beg, end)
  BY <1>1, FreshInWindow
<1>3. Dist(beg, c) = IF Dist(beg, it.cur) + d < 0 THEN 0
                     ELSE Smaller(Dist(beg, it.cur) + d, Dist(beg, end))
  <2>1. Dist(beg, it.cur) <= Dist(beg, end)
    BY <1>2, WindowBounds
  <2> QED BY <2>1, <1>2, MovedMeaning DEF Inv
<1> HIDE DEF c
<1>4. it'.at = it.at + Dist(beg, c) - Dist(beg, it.cur)
  BY <1>1 DEF Inv, TypeOK
<1>5. it'.at = Window!Larger(Lo, Window!Smaller(Hi, it.at + d))
  BY <1>2, <1>3, <1>4, WindowBounds
     DEF Smaller, Window!Smaller, Window!Larger
<1>6. Lo' = Lo /\ Pos' = Pos /\ Hi' = Hi
  BY <1>1 DEF Lo, Pos, Hi, Dist, bufVars, streamVars
<1> QED BY <1>1, <1>5, <1>6 DEF Window!Move, bufVars, streamVars

LEMMA NextRefines == Inv /\ [Next]_vars => [Window!Next]_(Window!vars)
<1> SUFFICES ASSUME Inv, [Next]_vars
             PROVE  Window!Next \/ UNCHANGED Window!vars
  OBVIOUS
<1>1. CASE Supply
  BY <1>1, SupplyRefines DEF Window!Next
<1>2. CASE TryFill
  BY <1>2, TryFillRefines DEF Window!Next
<1>3. ASSUME NEW k \in 0 .. MaxOffset, SeekOff(k) PROVE Window!Next
  BY <1>3, SeekOffRefines, BoundsAssumption DEF Window!Next
<1>4. ASSUME NEW c \in {beg, cur, end}, TakeIterator(c) PROVE Window!Next
  BY <1>4, TakeIteratorRefines DEF Window!Next
<1>5. ASSUME NEW c \in {beg, cur, end}, Distance(c) PROVE Window!Next
  BY <1>5, DistanceRefines DEF Window!Next
<1>6. ASSUME NEW d \in -MaxOffset .. MaxOffset, MoveIterator(d)
      PROVE  Window!Next
  BY <1>6, MoveIteratorRefines, BoundsAssumption DEF Window!Next
<1>7. CASE Clear
  <2>1. cap \in 0 .. MaxSize
    BY DEF Inv, TypeOK
  <2> QED BY <2>1, <1>7, ClearRefines DEF Window!Next
<1>8. ASSUME NEW m \in 0 .. MaxSize, Resize(m) PROVE Window!Next
  BY <1>8, ResizeRefines DEF Window!Next
<1>9. CASE UNCHANGED vars
  BY <1>9 DEF vars, bufVars, streamVars, Window!vars, Lo, Pos, Hi, Dist
<1> QED
  BY <1>1, <1>2, <1>3, <1>4, <1>5, <1>6, <1>7, <1>8, <1>9
     DEF Next, StreamingNext

(* The ring buffer implements the window: seen through stream positions,   *)
(* every sequence of fills, seeks, iterator moves, clears and resizes is   *)
(* one the window specification allows.                                    *)
THEOREM BufferImplementsWindow == Spec => ImplementsWindow
BY InitRefines, Invariance, NextRefines, PTL
   DEF Spec, Window!Spec, ImplementsWindow
=============================================================================
