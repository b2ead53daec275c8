----------------------------- MODULE MCSpliter -----------------------------
(***************************************************************************)
(* The file splitter for TLC: a buffer of three characters, files of up to *)
(* six or seven, which may change while they are split, and partitions of  *)
(* 1 to 7, so that a partition is smaller than the buffer, as large, or    *)
(* larger with and without a rest.  Two calls share one buffer.  With 6    *)
(* bits in a float all sizes below 8 and their quotients are told apart,   *)
(* as sizes far below 2^24 are in the program.                             *)
(***************************************************************************)
EXTENDS Spliter
=============================================================================
