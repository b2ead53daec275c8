------------------------------ MODULE Profiler ------------------------------
(***************************************************************************)
(* src/src/profiler.cpp: a table of named periods.  begin() notes the      *)
(* time, end() adds what has passed since to the period of that name; a    *)
(* time is a timeval of seconds and microseconds.  dump() only prints.     *)
(*                                                                         *)
(* gettimeofday() reads the time of day, which an administrator sets back  *)
(* at will: two readings may come in any order.                            *)
(***************************************************************************)
EXTENDS Integers

CONSTANTS
  Names      \* the names the program measures

SUBSECPREC == 1000000

VARIABLES
  table,     \* the names begin() has seen, each with its record
  measured   \* history: microseconds between each end() and the begin()
             \* before it, summed up for each name

vars == <<table, measured>>

Sub == 0 .. SUBSECPREC - 1
Time == [sec : Int, sub : Sub]
Zero == [sec |-> 0, sub |-> 0]

Micro(t) == SUBSECPREC * t.sec + t.sub

-----------------------------------------------------------------------------
(* end - beg, with a borrow from the seconds                               *)
TvOff(beg, end) ==
  IF end.sub < beg.sub
    THEN [sec |-> end.sec - beg.sec - 1, sub |-> end.sub + SUBSECPREC - beg.sub]
    ELSE [sec |-> end.sec - beg.sec, sub |-> end.sub - beg.sub]

(* x + y, with a carry into the seconds                                    *)
TvAdd(x, y) ==
  [sec |-> x.sec + y.sec + ((x.sub + y.sub) \div SUBSECPREC),
   sub |-> (x.sub + y.sub) % SUBSECPREC]

-----------------------------------------------------------------------------
Known == DOMAIN table

Init ==
  /\ table = [n \in {} |-> [beg |-> Zero, period |-> Zero]]
  /\ measured = [n \in Names |-> 0]

(* A name that was begun before keeps its period and is begun anew.        *)
Begin(name) ==
  /\ \E now \in Time :
       table' = [n \in Known \cup {name} |->
                   IF n # name THEN table[n]
                   ELSE [beg |-> now,
                         period |-> IF n \in Known THEN table[n].period ELSE Zero]]
  /\ UNCHANGED measured

(* The period grows at every end(), also at the second one after a begin().*)
End(name) ==
  /\ name \in Known
  /\ \E now \in Time :
       /\ table' = [table EXCEPT ![name].period =
                      TvAdd(@, TvOff(table[name].beg, now))]
       /\ measured' = [measured EXCEPT ![name] =
                         @ + (Micro(now) - Micro(table[name].beg))]

Next == \E name \in Names : Begin(name) \/ End(name)

Spec == Init /\ [][Next]_vars

-----------------------------------------------------------------------------
(* The period of a name is what was measured under it, to the microsecond, *)
(* and its microseconds are less than a second, through every borrow and   *)
(* carry and with clocks that go back (tv_off, tv_add, :21-40).            *)
PeriodIsMeasured ==
  \A n \in Known :
    /\ table[n].period.sub \in Sub
    /\ Micro(table[n].period) = measured[n]
=============================================================================
