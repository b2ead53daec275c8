---------------------------- MODULE StreamWindow ----------------------------
(***************************************************************************)
(* What circular_buffer promises, without slots: a window over an input    *)
(* stream.  Characters of the stream are numbered 1, 2, ...; the window    *)
(* holds lo+1 .. hi, of which lo+1 .. pos were read by the client and      *)
(* pos+1 .. hi are still unread.  A fill forgets what was read and appends *)
(* the next characters until `cap' of them are unread or the stream ends.  *)
(***************************************************************************)
EXTENDS Integers

CONSTANTS
  MaxSize,    \* largest capacity a client asks for
  MaxInput,   \* number of characters the stream may deliver in total
  MaxOffset   \* largest distance a client moves a cursor or an iterator

VARIABLES
  cap,        \* capacity of the buffer
  lo, pos, hi,\* window start, read position, window end
  supplied,   \* characters the stream has been given so far
  good,       \* the stream is in a good state
  at,         \* stream position of an iterator a client holds
  fresh,      \* the window start has not moved since it was made
  ret         \* outcome of the last call

vars == <<cap, lo, pos, hi, supplied, good, at, fresh, ret>>

Smaller(a, b) == IF a <= b THEN a ELSE b
Larger(a, b) == IF a >= b THEN a ELSE b

Done(op, n) == [op |-> op, n |-> n]

Init ==
  /\ cap \in 0 .. MaxSize
  /\ lo = 0 /\ pos = 0 /\ hi = 0
  /\ supplied \in 0 .. MaxInput
  /\ good = TRUE
  /\ at = 0 /\ fresh = TRUE
  /\ ret = Done("none", 0)

(* The owner of a stream that ran dry gives it more input and clears it.   *)
Supply ==
  /\ ~good
  /\ good' = TRUE
  /\ supplied' \in supplied .. MaxInput
  /\ UNCHANGED <<cap, lo, pos, hi, at, fresh, ret>>

Room == cap - (hi - pos)

Fill ==
  /\ Room > 0
  /\ lo' = pos
  /\ hi' = IF good THEN hi + Smaller(Room, supplied - hi) ELSE hi
  /\ good' = (good /\ supplied - hi >= Room)
  /\ fresh' = (fresh /\ lo = pos)
  /\ ret' = Done("tryfill", 0)
  /\ UNCHANGED <<cap, pos, supplied, at>>

(* A fill is refused exactly when nothing could be added.                  *)
Refuse ==
  /\ Room = 0
  /\ \/ ret' = Done("overflow", 0)
     \/ cap = 0 /\ ret' = Done("underflow", 0)
  /\ UNCHANGED <<cap, lo, pos, hi, supplied, good, at, fresh>>

Seek(k) ==
  /\ pos' = pos + Smaller(k, hi - pos)
  /\ ret' = Done("seekoff", Smaller(k, hi - pos))
  /\ UNCHANGED <<cap, lo, hi, supplied, good, at, fresh>>

Drop(n) ==
  /\ cap' = n
  /\ lo' = hi /\ pos' = hi
  /\ fresh' = FALSE
  /\ UNCHANGED <<hi, at, supplied, good, ret>>

Take(p) ==
  /\ at' = p /\ fresh' = TRUE
  /\ UNCHANGED <<cap, lo, pos, hi, supplied, good, ret>>

Move(d) ==
  /\ fresh
  /\ at' = Larger(lo, Smaller(hi, at + d))
  /\ UNCHANGED <<cap, lo, pos, hi, supplied, good, fresh, ret>>

(* Distances are exact from an iterator whose window has not moved; from   *)
(* another one nothing is promised.                                        *)
Distance(p) ==
  /\ IF fresh THEN ret' = Done("distance", at - p)
              ELSE ret'.op \in {"distance", "stale"}
  /\ UNCHANGED <<cap, lo, pos, hi, supplied, good, at, fresh>>

Next ==
  \/ Supply
  \/ Fill
  \/ Refuse
  \/ \E k \in 0 .. MaxOffset : Seek(k)
  \/ \E n \in 0 .. MaxSize : Drop(n)
  \/ \E p \in {lo, pos, hi} : Take(p) \/ Distance(p)
  \/ \E d \in -MaxOffset .. MaxOffset : Move(d)

Spec == Init /\ [][Next]_vars
=============================================================================
