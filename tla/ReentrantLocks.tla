---------------------------- MODULE ReentrantLocks ----------------------------
(***************************************************************************)
(* What mutexes that a thread may lock again promise: a thread is inside a *)
(* mutex as often as it went in and has not left, and while it is inside,  *)
(* nobody else is.  LevelMutex implements this specification; levels,      *)
(* lists and waiting are not part of it.                                   *)
(***************************************************************************)
EXTENDS Integers

CONSTANTS
  Threads,   \* the threads
  Mutexes    \* the mutexes

VARIABLES
  depth      \* depth[t][m]: how often t went into m and has not left

Init == depth = [t \in Threads |-> [m \in Mutexes |-> 0]]

\* A thread goes into mutexes that nobody else is inside of.
Enter(t, S) ==
  /\ \A m \in S : \A u \in Threads \ {t} : depth[u][m] = 0
  /\ depth' = [depth EXCEPT ![t] =
                 [m \in Mutexes |-> IF m \in S THEN @[m] + 1 ELSE @[m]]]

\* A thread leaves one that it is inside of.
Leave(t, n) ==
  /\ depth[t][n] > 0
  /\ depth' = [depth EXCEPT ![t] =
                 [m \in Mutexes |-> IF m = n THEN @[m] - 1 ELSE @[m]]]

Next ==
  \E t \in Threads :
     \/ \E S \in SUBSET Mutexes : Enter(t, S)
     \/ \E n \in Mutexes : Leave(t, n)

Spec == Init /\ [][Next]_depth
===============================================================================
