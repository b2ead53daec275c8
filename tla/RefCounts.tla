------------------------------- MODULE RefCounts -------------------------------
(***************************************************************************)
(* The ownership policies TwoRefCounts and LockableTwoRefCounts            *)
(* (loki/src/StrongPtr.cpp, StrongPtr.h): the co-pointers of an object     *)
(* share a TwoRefCountInfo, which has the pointer and counts the strong    *)
(* and the weak ones.  Each operator is what the lockable policy does      *)
(* between one Lock and Unlock of its mutex.                               *)
(***************************************************************************)
EXTENDS Copointers, Integers, FiniteSets

VARIABLES
  block,      \* m_counts: the TwoRefCountInfo of each node, 0 if there is none
  info        \* the TwoRefCountInfo blocks

countVars == <<block, info>>

Blocks == 1..Cardinality(Nodes)

NoInfo == [used |-> FALSE, pointer |-> Null, strong |-> 0, weak |-> 0]

CountsInit ==
  /\ block = [n \in Nodes |-> 0]
  /\ info = [b \in Blocks |-> NoInfo]

One(b) == IF b THEN 1 ELSE 0

Counted(i, strong, by) ==
  [i EXCEPT !.strong = @ + One(strong) * by, !.weak = @ + One(~strong) * by]

\* TwoRefCounts(p, strong) with an info of its own.
CountsNew(n, o, strong) ==
  LET b == CHOOSE x \in Blocks : ~info[x].used IN
  /\ block' = [block EXCEPT ![n] = b]
  /\ info' = [info EXCEPT ![b] =
                Counted([NoInfo EXCEPT !.used = TRUE, !.pointer = o], strong, 1)]

\* TwoRefCounts(rhs, strong): IncStrongCount or IncWeakCount.
CountsShare(n, q, strong) ==
  /\ block' = [block EXCEPT ![n] = block[q]]
  /\ info' = [info EXCEPT ![block[q]] = Counted(@, strong, 1)]

\* DecStrongCount or DecWeakCount.
CountsLess(n, strong) ==
  info' = [info EXCEPT ![block[n]] = Counted(@, strong, -1)]

CountsSwap(n, m) ==
  /\ block' = [block EXCEPT ![n] = block[m], ![m] = block[n]]
  /\ UNCHANGED info

CountsStrong(n) == info[block[n]].strong > 0

CountsPointer(n) == info[block[n]].pointer

CountsSet(n, o) ==
  /\ info' = [info EXCEPT ![block[n]].pointer = o]
  /\ UNCHANGED block

\* operator delete of the last one's info.
CountsFree(n) ==
  /\ info' = [info EXCEPT ![block[n]] = NoInfo]
  /\ block' = [block EXCEPT ![n] = 0]

CountsGone(n) == block' = [block EXCEPT ![n] = 0]
===============================================================================
