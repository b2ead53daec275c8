------------------------------ MODULE MCDigest ------------------------------
(***************************************************************************)
(* Bytes and words of four bits, blocks of four bytes, a length of two:    *)
(* the low word wraps with every block, both words together after 64       *)
(* bytes, and MaxGiven lets that happen.  Every number of waiting bytes    *)
(* meets every size: what leaves the buffer short, fills it exactly,       *)
(* overfills it, and sends one or two blocks past it; two places lie below *)
(* the padding boundary and two at or above it.  A chunk is two blocks.    *)
(***************************************************************************)
EXTENDS Digest
=============================================================================
