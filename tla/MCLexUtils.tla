----------------------------- MODULE MCLexUtils -----------------------------
(***************************************************************************)
(* All texts of up to five of five characters: delimiters of one and of    *)
(* two characters that meet at the start, at the end, next to each other   *)
(* and overlapping; words of one to three characters that are next to each *)
(* other and overlap with themselves and with each other.  Ten times a     *)
(* number of two digits is an int, ten times one of three is not.          *)
(***************************************************************************)
EXTENDS LexUtils

SomeDelimiters == {<<"a">>, <<"a", "a">>, <<"a", "b">>}
SomeWords ==
  {<<<<"a">>>>, <<<<"a", "b">>, <<"b", "a">>>>, <<<<"a", "b", "a">>, <<"1">>>>,
   <<<<"1">>, <<"b", "a">>>>}
=============================================================================
