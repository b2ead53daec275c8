----------------------------- MODULE MCLevelMutex -----------------------------
(***************************************************************************)
(* Two threads can do to each other all that these mutexes can suffer: a   *)
(* wait is for one owner.  Three mutexes: two of one level, which are      *)
(* locked together or apart, and one of another level, above or below.     *)
(***************************************************************************)
EXTENDS LevelMutex

LevelBelow == [m \in Mutexes |-> IF m = 2 THEN 2 ELSE 1]
===============================================================================
