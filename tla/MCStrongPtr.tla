------------------------------ MODULE MCStrongPtr ------------------------------
(***************************************************************************)
(* Two objects, three strong pointers 1, 3, 5 and two weak ones 2, 4.  3   *)
(* and 4 may be inside the object o1, so that it may have pointers to      *)
(* itself; 5 is the pointer of the second thread.                          *)
(***************************************************************************)
EXTENDS StrongPtr

CONSTANTS t1, t2, o1, o2

UserOf == [p \in Pointers |-> IF p = 5 THEN t2 ELSE t1]
InsideOf == [p \in Pointers |-> IF p \in {3, 4} THEN o1 ELSE Null]

When(links, pointers, calls) ==
  [links |-> links, pointers |-> pointers, calls |-> calls]

\* Either policy with pointers inside an object; counts that are reset; links
\* that are merged; counts that two threads share, with strong pointers only.
AllConditions ==
  {When(TRUE, 1..4, {"members"}), When(FALSE, {1, 3, 4}, {"members"}),
   When(FALSE, {1, 2}, {"reset", "cast"}), When(FALSE, {2, 4}, {"reset", "cast"}),
   When(TRUE, 1..4, {"cast", "merge"}),
   When(FALSE, {1, 5}, {})}

\* The theorems about pointers are about such clients.
ASSUME ClientsAreMeant == \A c \in AllConditions : UsedWell(c)

\* Two threads destroy the last strong and the last weak pointer.
StrongAndWeak == {When(FALSE, {1, 2, 5}, {})}

\* A cycle of three and a cycle of two become one.
LongCycles == {When(TRUE, 1..5, {"merge"})}
===============================================================================
