--------------------------- MODULE CircularBuffer ---------------------------
(***************************************************************************)
(* circular_buffer and circular_iterator (container.h, container.inl) with *)
(* the istream that fills them.  A pointer into the buffer is the index of *)
(* its slot, bufBeg_ being 0 and bufEnd_ being cap; the buffer owns one    *)
(* slot more than its capacity.  A slot holds the number of the stream     *)
(* character stored in it.                                                 *)
(***************************************************************************)
EXTENDS Integers, Sequences

CONSTANTS
  MaxSize,    \* largest capacity a client asks for
  MaxInput,   \* bound: characters the stream may deliver in total
  MaxOffset   \* bound: largest distance a client moves by

ASSUME BoundsAssumption ==
  /\ MaxSize \in Nat
  /\ MaxInput \in Nat
  /\ MaxOffset \in Nat

VARIABLES
  alloc,      \* slots allocated, 0 while bufBeg_ is null
  cap,        \* bufEnd_ - bufBeg_
  beg, cur, end,
  slots,      \* the allocated memory
  taken,      \* characters extracted from the stream
  supplied,   \* characters the stream has been given
  good,       \* !is.fail()
  it,         \* a circular_iterator held by a client; `at' is history, the
              \* stream position it stands for
  fresh,      \* history: the window start has not moved since it was made
  ret         \* outcome of the last call

bufVars == <<alloc, cap, beg, cur, end, slots>>
streamVars == <<taken, supplied, good>>
vars == <<bufVars, streamVars, it, fresh, ret>>

Garbage == 0          \* content of a slot nobody has written
Slot == 0 .. MaxSize
Dangling == MaxSize + 1

Outcomes == {"none", "tryfill", "overflow", "underflow",
             "seekoff", "distance", "stale"}

Smaller(a, b) == IF a <= b THEN a ELSE b
Done(op, n) == [op |-> op, n |-> n]

-----------------------------------------------------------------------------
(* The ring.                                                               *)

(* Slots from a forward to b: how the code counts positions from beg_.     *)
Dist(a, b) == IF b < a THEN b + (cap - a) + 1 ELSE b - a

(* The slot i places after a.                                              *)
At(a, i) == IF a + i <= cap THEN a + i ELSE a + i - cap - 1

Hi == taken
Lo == taken - Dist(beg, end)
Pos == taken - Dist(cur, end)

(* What operator<< writes for the slots from first up to last.             *)
Text(first, last) ==
  IF last >= first
  THEN SubSeq([i \in 1 .. last |-> slots[i - 1]], first + 1, last)
  ELSE [i \in 1 .. cap - first + 1 |-> slots[first + i - 1]]
         \o [i \in 1 .. last |-> slots[i - 1]]

-----------------------------------------------------------------------------
(* The istream the buffer is filled from.                                  *)

Got(n) == IF good THEN Smaller(n, supplied - taken) ELSE 0
StaysGood(n) == good /\ supplied - taken >= n

(* s after the n characters that follow number t were stored from slot a.  *)
Stored(s, a, n, t) ==
  [x \in Slot |-> IF a <= x /\ x < a + n THEN t + 1 + (x - a) ELSE s[x]]

(* The owner clears a failed stream and gives it more input.               *)
Supply ==
  /\ ~good
  /\ good' = TRUE
  /\ supplied' \in supplied .. MaxInput
  /\ UNCHANGED <<bufVars, taken, it, fresh, ret>>

-----------------------------------------------------------------------------
(* tryfill                                                                 *)

Underflow == alloc = 0
Overflow == cur - 1 = end \/ end - cur = cap

FillThrows ==
  /\ \/ Underflow /\ ret' = Done("underflow", 0)
     \/ ~Underflow /\ Overflow /\ ret' = Done("overflow", 0)
  /\ UNCHANGED <<bufVars, streamVars, it, fresh>>

FillStarts ==
  /\ ~Underflow /\ ~Overflow
  /\ beg' = cur
  /\ fresh' = (fresh /\ cur = beg)
  /\ ret' = Done("tryfill", 0)
  /\ UNCHANGED <<alloc, cap, cur, supplied, it>>

(* The free slots lie between end_ and cur_.                               *)
FillGap ==
  /\ cur > end
  /\ LET n == cur - 1 - end
     IN  /\ slots' = Stored(slots, end, Got(n), taken)
         /\ end' = end + Got(n)
         /\ taken' = taken + Got(n)
         /\ good' = StaysGood(n)
  /\ FillStarts

(* The slots up to bufEnd_ are all there are, or all the stream can fill.  *)
FillTail ==
  /\ cur <= end
  /\ LET n == cap - end
     IN  /\ ~StaysGood(n) \/ cur = 0
         /\ slots' = Stored(slots, end, Got(n), taken)
         /\ end' = end + Got(n)
         /\ taken' = taken + Got(n)
         /\ good' = StaysGood(n)
  /\ FillStarts

(* The stream ends where the array does: get() fails and leaves the EOF    *)
(* value in the extra slot.                                                *)
FillTailThenEof ==
  /\ cur <= end /\ cur > 0
  /\ LET n == cap - end
     IN  /\ StaysGood(n)
         /\ supplied = taken + n
         /\ slots' = [Stored(slots, end, n, taken) EXCEPT ![cap] = Garbage]
         /\ end' = end + n
         /\ taken' = taken + n
         /\ good' = FALSE
  /\ FillStarts

(* Wrong variant: the character for the extra slot is not stored.          *)
FillWrap_LosesChar ==
  /\ cur <= end /\ cur > 0
  /\ LET n == cap - end
         m == Smaller(cur - 1, supplied - taken - (n + 1))
     IN  /\ StaysGood(n + 1)
         /\ slots' = Stored(Stored(slots, end, n, taken), 0, m, taken + n + 1)
         /\ end' = m
         /\ taken' = taken + n + 1 + m
         /\ good' = StaysGood(n + 1 + (cur - 1))
  /\ FillStarts

(* Wrong variant: no slot is left free, so a full ring looks empty.        *)
FillWrap_NoFreeSlot ==
  /\ cur <= end /\ cur > 0
  /\ LET n == cap - end
         m == Smaller(cur, supplied - taken - (n + 1))
     IN  /\ StaysGood(n + 1)
         /\ slots' = Stored(Stored(slots, end, n + 1, taken),
                            0, m, taken + n + 1)
         /\ end' = m
         /\ taken' = taken + n + 1 + m
         /\ good' = StaysGood(n + 1 + cur)
  /\ FillStarts

(* Fill up to bufEnd_, put one character into the extra slot and go on at  *)
(* bufBeg_, leaving one slot free before cur_.                             *)
FillWrap ==
  /\ cur <= end /\ cur > 0
  /\ LET n == cap - end
         m == Smaller(cur - 1, supplied - taken - (n + 1))
     IN  /\ StaysGood(n + 1)
         /\ slots' = Stored(Stored(slots, end, n + 1, taken),
                            0, m, taken + n + 1)
         /\ end' = m
         /\ taken' = taken + n + 1 + m
         /\ good' = StaysGood(n + 1 + (cur - 1))
  /\ FillStarts

-----------------------------------------------------------------------------
(* Iterator arithmetic on a slot c, clamped to the window.                 *)

Advance(c, off) ==
  IF c <= end
  THEN Smaller(c + off, end)
  ELSE IF cap - c < off
       THEN Smaller(off - (cap - c + 1), end)
       ELSE c + off

Retreat(c, off) ==
  LET clamped(x) == IF x < beg THEN beg ELSE x
  IN  IF c < beg
      THEN IF c < off THEN clamped(cap - off + (c + 1)) ELSE c - off
      ELSE clamped(c - off)

(* Wrong variant: the sign of a negative offset is not turned.             *)
Moved_SignKept(c, d) == IF d < 0 THEN Retreat(c, d) ELSE Advance(c, d)

Moved(c, d) == IF d < 0 THEN Retreat(c, -d) ELSE Advance(c, d)

IsValid == it.beg = beg

-----------------------------------------------------------------------------
(* The other operations.                                                   *)

SeekOff(k) ==
  /\ cur' = Advance(cur, k)
  /\ ret' = Done("seekoff", Dist(beg, Advance(cur, k)) - Dist(beg, cur))
  /\ UNCHANGED <<alloc, cap, beg, end, slots, streamVars, it, fresh>>

Clear ==
  /\ beg' = 0 /\ cur' = 0 /\ end' = 0
  /\ fresh' = FALSE
  /\ UNCHANGED <<alloc, cap, slots, streamVars, it, ret>>

(* A larger buffer is a new one; whether an old pointer compares equal to  *)
(* its first slot is up to the allocator.                                  *)
Resize(n) ==
  /\ cap' = n
  /\ beg' = 0 /\ cur' = 0 /\ end' = 0
  /\ \/ /\ cap < n
        /\ alloc' = n + 1
        /\ slots' = [x \in Slot |-> Garbage]
        /\ \E p \in {it.beg, Dangling} : it' = [it EXCEPT !.beg = p]
     \/ /\ cap >= n
        /\ UNCHANGED <<alloc, slots, it>>
  /\ fresh' = FALSE
  /\ UNCHANGED <<streamVars, ret>>

(* begin(), current() and end().                                           *)
TakeIterator(c) ==
  /\ it' = [beg |-> beg, cur |-> c, at |-> Lo + Dist(beg, c)]
  /\ fresh' = TRUE
  /\ UNCHANGED <<bufVars, streamVars, ret>>

(* += and -= on an iterator that may still be used.                        *)
MoveIterator(d) ==
  /\ fresh
  /\ LET c == Moved(it.cur, d)
     IN  it' = [it EXCEPT !.cur = c,
                          !.at = @ + Dist(beg, c) - Dist(beg, it.cur)]
  /\ UNCHANGED <<bufVars, streamVars, fresh, ret>>

(* it - from, for from one of the buffer's own iterators.                  *)
Distance(c) ==
  /\ \/ IsValid /\ ret' = Done("distance", Dist(beg, it.cur) - Dist(beg, c))
     \/ ~IsValid /\ ret' = Done("stale", 0)
  /\ UNCHANGED <<bufVars, streamVars, it, fresh>>

-----------------------------------------------------------------------------

(* Both constructors: no buffer at all, or one of a given size.            *)
Init ==
  /\ cap \in 0 .. MaxSize
  /\ alloc = IF cap = 0 THEN 0 ELSE cap + 1
  /\ beg = 0 /\ cur = 0 /\ end = 0
  /\ slots = [x \in Slot |-> Garbage]
  /\ taken = 0
  /\ supplied \in 0 .. MaxInput
  /\ good = TRUE
  /\ it = [beg |-> 0, cur |-> 0, at |-> 0]
  /\ fresh = TRUE
  /\ ret = Done("none", 0)

TryFill == FillThrows \/ FillGap \/ FillTail \/ FillTailThenEof \/ FillWrap

(* A client that streams: it fills, reads and looks around, and never drops *)
(* the content.                                                            *)
StreamingNext ==
  \/ Supply
  \/ TryFill
  \/ \E k \in 0 .. MaxOffset : SeekOff(k)
  \/ \E c \in {beg, cur, end} : TakeIterator(c) \/ Distance(c)
  \/ \E d \in -MaxOffset .. MaxOffset : MoveIterator(d)

Next ==
  \/ StreamingNext
  \/ Clear
  \/ \E n \in 0 .. MaxSize : Resize(n)

Spec == Init /\ [][Next]_vars
StreamingSpec == Init /\ [][StreamingNext]_vars
-----------------------------------------------------------------------------
(* Types of the state; a pointer never leaves bufBeg_ .. bufEnd_, and the   *)
(* slot at bufEnd_, which tryfill writes, is allocated.                     *)
TypeOK ==
  /\ alloc \in 0 .. MaxSize + 1
  /\ cap \in 0 .. MaxSize /\ (cap < alloc \/ cap = 0)
  /\ beg \in 0 .. cap /\ cur \in 0 .. cap /\ end \in 0 .. cap
  /\ slots \in [Slot -> 0 .. MaxInput]
  /\ supplied \in 0 .. MaxInput
  /\ taken \in 0 .. supplied
  /\ good \in BOOLEAN
  /\ it \in [beg : 0 .. Dangling, cur : Slot, at : 0 .. MaxInput]
  /\ fresh \in BOOLEAN
  /\ ret \in [op : Outcomes, n : Int]

(* The read position lies between window start and window end on the ring, *)
(* whatever wrapped: seekoff and tryfill never let cur_ overtake end_, and *)
(* the window never claims more than was extracted from the stream.        *)
CursorsInWindow ==
  /\ Dist(beg, cur) + Dist(cur, end) = Dist(beg, end)
  /\ Dist(beg, end) <= taken

(* Whatever fills, reads and wraps came before, walking the ring from beg_ *)
(* to end_ meets consecutive characters of the stream, the last one being  *)
(* the last one extracted: nothing is lost, doubled or out of order.       *)
WindowMatchesStream ==
  \A i \in 0 .. Dist(beg, end) - 1 : slots[At(beg, i)] = Lo + 1 + i

(* While the window start stands still an iterator stays valid and keeps   *)
(* naming the same place of the stream, even when fills append behind it.  *)
IteratorKeepsPlace ==
  fresh =>
    /\ IsValid
    /\ it.cur <= cap
    /\ it.at = Lo + Dist(beg, it.cur)
    /\ it.at \in Lo .. Hi

(* tryfill never writes over a character the client has not read yet.      *)
UnreadSurvivesFill ==
  [][TryFill =>
       \A i \in 0 .. Dist(cur, end) - 1 :
         slots'[At(cur, i)] = slots[At(cur, i)]]_vars

(* The buffer implements the window specification: fills are refused       *)
(* exactly when nothing fits, a stream still good after a fill means a     *)
(* full buffer, seekoff returns what it skipped, distances are exact.      *)
Window == INSTANCE StreamWindow WITH
            lo <- Lo, pos <- Pos, hi <- Hi,
            at <- it.at

ImplementsWindow == Window!Spec

(* container.h says an iterator is valid when the buffer it was made from  *)
(* has not changed; the code compares beg_ only, which can come back to    *)
(* the same slot with another part of the stream in the buffer.            *)
ValidIteratorKeepsPlace == IsValid => it.at = Lo + Dist(beg, it.cur)
=============================================================================
