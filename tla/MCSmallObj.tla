----------------------------- MODULE MCSmallObj -----------------------------
(***************************************************************************)
(* The small-object allocator for TLC: two pools, whose chunks have three  *)
(* and two blocks, and three areas, so that one pool can have three chunks,*)
(* two of them empty in either order, while the other one uses memory too. *)
(* Areas are interchangeable.                                              *)
(***************************************************************************)
EXTENDS SmallObj, TLC

Interchangeable == Permutations(Area)
=============================================================================
