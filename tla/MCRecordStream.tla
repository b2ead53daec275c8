--------------------------- MODULE MCRecordStream ---------------------------
(***************************************************************************)
(* Record streams for TLC: all texts of up to MaxText letters out of two,  *)
(* so every placing of patterns and every overlap of them occurs.  With a  *)
(* get area two characters shorter than the longest texts, patterns and    *)
(* records are torn in every way.                                          *)
(***************************************************************************)
EXTENDS RecordStream

CONSTANTS MaxText, MaxNewText

TextsUpTo(n) == UNION {[1 .. m -> {"a", "b"}] : m \in 0 .. n}
AllTexts == TextsUpTo(MaxText)
ShortTexts == TextsUpTo(MaxNewText)

(* The first cannot overlap with itself, the second can; the third is      *)
(* longer.                                                                 *)
AB == <<"a", "b">>
AA == <<"a", "a">>
ABA == <<"a", "b", "a">>
TwoSizes == {AA, ABA}
OnlyAB == {AB}

EveryClient ==
  {{"copy", "research", "begin_pattern"}, {"pointer", "research"},
   {"copy", "open"}, {"pointer", "open"},
   {"copy", "str", "research"}, {"pointer", "str", "research"}}
OnlyCopies == {{"copy"}}
=============================================================================
