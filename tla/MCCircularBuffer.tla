-------------------------- MODULE MCCircularBuffer --------------------------
(***************************************************************************)
(* The circular buffer for TLC.  A capacity of 3 gives every layout: cur_  *)
(* at either end of the array or inside, wrapped or not, one to three free *)
(* slots; six characters turn the ring of four slots one and a half times, *)
(* and offsets up to 4 go beyond the largest window.                       *)
(***************************************************************************)
EXTENDS CircularBuffer
=============================================================================
