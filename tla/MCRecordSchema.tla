--------------------------- MODULE MCRecordSchema ---------------------------
(***************************************************************************)
(* Schemas and records for TLC: schemas with up to two fields at a time,   *)
(* out of two names defined in either order and two types, two records.    *)
(* Schemas, records and types are interchangeable.                         *)
(***************************************************************************)
EXTENDS RecordSchema, TLC

TwoNames == <<"A", "B">>

Interchangeable ==
  Permutations(Schemas) \cup Permutations(Records) \cup Permutations(Types)

=============================================================================
