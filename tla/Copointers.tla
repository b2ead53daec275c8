------------------------------ MODULE Copointers ------------------------------
(***************************************************************************)
(* What the ownership policies of StrongPtr (loki/include/loki/            *)
(* StrongPtr.h) have in common: nodes, the base-class parts of strong and  *)
(* weak pointers, and the objects that they lead to.                       *)
(***************************************************************************)
EXTENDS FiniteSets

CONSTANTS
  Pointers,   \* the StrongPtr variables of the program
  Threads,    \* its threads; t is also the name of the temporary of t
  Objects,    \* the objects, each of them its own address
  Null        \* the null pointer

\* Whatever has an ownership policy.
Nodes == Pointers \cup Threads

ASSUME NodesAssumption ==
  /\ IsFiniteSet(Nodes) /\ Pointers \cap Threads = {}
  /\ Null \notin Nodes /\ Null \notin Objects
===============================================================================
