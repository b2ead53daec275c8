-------------------------------- MODULE Heap --------------------------------
(***************************************************************************)
(* What a client of the small-object allocator relies on: areas of memory  *)
(* are got from the system and given back to it, a block of an area is     *)
(* handed out to one holder at a time, and no area is given back while     *)
(* someone holds a block of it.  How blocks are found is left open.        *)
(***************************************************************************)
EXTENDS Integers

CONSTANTS
  Area,   \* the areas the system has
  Slot    \* the places of blocks in an area

VARIABLES
  memory,   \* the areas got from the system
  holders   \* how many holders each block has

vars == <<memory, holders>>
Block == Area \X Slot

Init ==
  /\ memory = {}
  /\ holders = [b \in Block |-> 0]

Give(b) ==
  /\ holders[b] = 0
  /\ holders' = [holders EXCEPT ![b] = 1]
  /\ b[1] \in memory'

TakeBack(b) ==
  /\ holders[b] = 1
  /\ holders' = [holders EXCEPT ![b] = 0]

(* Areas come and go in any step, but only without holders.                *)
MemoryMoves ==
  /\ memory' \subseteq Area
  /\ \A a \in memory \ memory' : \A i \in Slot : holders'[<<a, i>>] = 0

Next ==
  /\ \/ \E b \in Block : Give(b) \/ TakeBack(b)
     \/ UNCHANGED holders
  /\ MemoryMoves

Spec == Init /\ [][Next]_vars
=============================================================================
