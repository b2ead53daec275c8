------------------------------ MODULE LexUtils ------------------------------
(***************************************************************************)
(* The lexical utilities (include/GAISUtils/lexUtils.h, lexUtils.inl): a   *)
(* text is cut into pieces at a delimiter and put together again, words in *)
(* it are escaped and unescaped, and it is read as a number.               *)
(*                                                                         *)
(* A text is a sequence of characters.  Texts and escaped texts stay below *)
(* the size at which a string is moved to other memory: escape() uses an   *)
(* iterator after an insertion, and in a string that was moved it would    *)
(* point nowhere.                                                          *)
(***************************************************************************)
EXTENDS Integers, Sequences

CONSTANTS
  Alphabet,    \* characters of texts
  MaxText,     \* bound: characters of a text
  Delimiters,  \* the delimiters texts are cut at
  WordLists,   \* the lists of words an escaper may be made with
  IntMax       \* largest int (2^31 - 1)

Backslash == "\\"

(* Escaping w puts a backslash into v, which was escaped before it.        *)
Splits(w, v) ==
  \E s \in 0 .. Len(v) - 2 :
     /\ \A k \in 1 .. Len(w) : s + k <= Len(v) => v[s + k] = w[k]
     /\ s > 0 \/ Len(w) = 1

(* Delimiters and words have characters.  Words have no backslash, and no  *)
(* word splits an earlier one: escape() and unescape() both take the words *)
(* from first to last (lexUtils.h:205, :231), and the first would no       *)
(* longer be found.                                                        *)
ASSUME WordsAssumption ==
  /\ MaxText \in Nat /\ IntMax \in Nat
  /\ Backslash \notin Alphabet
  /\ Delimiters \subseteq Seq(Alphabet) \ {<<>>}
  /\ \A ws \in WordLists :
       /\ ws \in Seq(Seq(Alphabet) \ {<<>>})
       /\ \A i, j \in 1 .. Len(ws) : i < j => ~Splits(ws[j], ws[i])

VARIABLES
  input,       \* the text of the client
  delim,       \* the delimiter of the last str_explode
  pieces,      \* its results
  joined,      \* what str_implode made of them
  words,       \* the words of the escaper
  escaped,     \* what escape() made of the text
  plain,       \* what unescape() made of that
  parsed       \* what ATOI made of the text

lexVars == <<input, delim, pieces, joined, words, escaped, plain, parsed>>

Nothing == <<"nothing">>
NoPieces == <<Nothing>>

Inputs == UNION {[1 .. n -> Alphabet] : n \in 0 .. MaxText}

-----------------------------------------------------------------------------
(* find(): a place is passed over early if its first character differs or  *)
(* too few are left; otherwise as many characters as agree are compared.   *)
Agreeing(t, p, s) ==
  CHOOSE n \in 0 .. Len(p) :
    /\ \A k \in 1 .. n : s + k <= Len(t) /\ t[s + k] = p[k]
    /\ n = Len(p) \/ ~(s + n + 1 <= Len(t) /\ t[s + n + 1] = p[n + 1])

IsHere(t, p, s) ==
  /\ t[s + 1] = p[1] /\ Len(t) - (s + 1) >= Len(p) - 1
  /\ Agreeing(t, p, s) = Len(p)

FindRound(t, p, s, r) == IF IsHere(t, p, s) THEN s ELSE r

(* What it finds when n characters are left.                               *)
Finding(t, p) ==
  LET found[n \in 0 .. Len(t)] ==
        IF n = 0 THEN -1 ELSE FindRound(t, p, Len(t) - n, found[n - 1])
  IN  found

(* From place s on.                                                        *)
Find(t, p, s) == IF s >= Len(t) THEN -1 ELSE Finding(t, p)[Len(t) - s]

Drop(t, n) == SubSeq(t, n + 1, Len(t))

\* Wrong variant of ExplodeRound: a step of one character past the delimiter.
ExplodeRound_OneChar(t, d, r) ==
  LET pos == Find(t, d, r.offset)
  IN  IF pos = -1 THEN r
      ELSE [offset |-> pos + 1,
            res    |-> Append(r.res, SubSeq(t, r.offset + 1, pos))]

(* A round of str_explode(): a piece up to the next delimiter.             *)
ExplodeRound(t, d, r) ==
  LET pos == Find(t, d, r.offset)
  IN  IF pos = -1 THEN r
      ELSE [offset |-> pos + Len(d),
            res    |-> Append(r.res, SubSeq(t, r.offset + 1, pos))]

ExplodeStart == [offset |-> 0, res |-> <<>>]

ExplodeRounds(t, d) ==
  LET after[k \in 0 .. Len(t)] ==
        IF k = 0 THEN ExplodeStart
        ELSE ExplodeRound(t, d, after[k - 1])
  IN  after

(* At last the rest, if there is any.                                      *)
Exploded(t, d) ==
  LET last == ExplodeRounds(t, d)[Len(t)]
  IN  IF last.offset < Len(t) THEN Append(last.res, Drop(t, last.offset))
      ELSE last.res

(* str_implode(): each piece but the last is followed by the character c.  *)
ImplodeRound(s, c, k, r) == r \o s[k] \o (IF k = Len(s) THEN <<>> ELSE <<c>>)

Implosion(s, c) ==
  LET res[k \in 0 .. Len(s)] ==
        IF k = 0 THEN <<>> ELSE ImplodeRound(s, c, k, res[k - 1])
  IN  res

Imploded(s, c) == Implosion(s, c)[Len(s)]

-----------------------------------------------------------------------------
(* escaper: a backslash after the first character of a word, and the       *)
(* search goes on behind the word.                                         *)
EscapeRound(w, r) ==
  LET pos == Find(r.dest, w, r.found)
  IN  IF pos = -1 THEN r
      ELSE [dest  |-> SubSeq(r.dest, 1, pos + 1) \o <<Backslash>> \o Drop(r.dest, pos + 1),
            found |-> pos + Len(w) + 1]

FromStart(t) == [dest |-> t, found |-> 0]

EscapeRounds(t, w) ==
  LET after[k \in 0 .. Len(t)] ==
        IF k = 0 THEN FromStart(t) ELSE EscapeRound(w, after[k - 1])
  IN  after

EscapeWord(t, w) == EscapeRounds(t, w)[Len(t)].dest

EscapeWords(t, ws) ==
  LET after[i \in 0 .. Len(ws)] ==
        IF i = 0 THEN t ELSE EscapeWord(after[i - 1], ws[i])
  IN  after

Escaped(t, ws) == EscapeWords(t, ws)[Len(ws)]

EscapedPat(w) == <<w[1], Backslash>> \o Tail(w)

\* Wrong variant of UnescapeRound: goes on where escape() would.
UnescapeRound_OneTooFar(w, r) ==
  LET pos == Find(r.dest, EscapedPat(w), r.found)
  IN  IF pos = -1 THEN r
      ELSE [dest  |-> SubSeq(r.dest, 1, pos + 1) \o Drop(r.dest, pos + 2),
            found |-> pos + Len(w) + 1]

UnescapeRound(w, r) ==
  LET pos == Find(r.dest, EscapedPat(w), r.found)
  IN  IF pos = -1 THEN r
      ELSE [dest  |-> SubSeq(r.dest, 1, pos + 1) \o Drop(r.dest, pos + 2),
            found |-> pos + Len(w)]

UnescapeRounds(t, w) ==
  LET after[k \in 0 .. Len(t)] ==
        IF k = 0 THEN FromStart(t) ELSE UnescapeRound(w, after[k - 1])
  IN  after

UnescapeWord(t, w) == UnescapeRounds(t, w)[Len(t)].dest

UnescapeWords(t, ws) ==
  LET after[i \in 0 .. Len(ws)] ==
        IF i = 0 THEN t ELSE UnescapeWord(after[i - 1], ws[i])
  IN  after

Unescaped(t, ws) == UnescapeWords(t, ws)[Len(ws)]

-----------------------------------------------------------------------------
(* ATOI.                                                                   *)
Value == [c \in {"0", "1", "2"} |-> IF c = "0" THEN 0 ELSE IF c = "1" THEN 1 ELSE 2]

Failed == [success |-> FALSE, value |-> 0, defined |-> TRUE]

(* result += digit; result *= 10 for each digit.                           *)
ResultRound(c, r) == (r + Value[c]) * 10

Results(t) ==
  LET result[k \in 0 .. Len(t)] ==
        IF k = 0 THEN 0 ELSE ResultRound(t[k], result[k - 1])
  IN  result

\* Wrong variant of Digits: the last product is not taken back.
Digits_NoDivision(t) == [value |-> Results(t)[Len(t)], defined |-> TRUE]

(* And / 10 in the end: the product after the last digit overflows first.  *)
Digits(t) ==
  [value   |-> Results(t)[Len(t)] \div 10,
   defined |-> \A k \in 0 .. Len(t) : Results(t)[k] <= IntMax]

ParsedAs(t) ==
  LET minus == t[1] = "-"
      rest  == IF minus THEN Tail(t) ELSE t
      n     == Digits(rest)
  IN  IF \/ rest # <<>> /\ rest[1] = "0" /\ (Len(rest) > 1 \/ minus)
         \/ \E i \in 1 .. Len(rest) : rest[i] \notin DOMAIN Value
        THEN Failed
        ELSE [success |-> TRUE, value |-> IF minus THEN -n.value ELSE n.value,
              defined |-> n.defined]

-----------------------------------------------------------------------------
LexInit ==
  /\ input \in Inputs
  /\ delim = Nothing /\ pieces = NoPieces /\ joined = Nothing
  /\ words = Nothing /\ escaped = Nothing /\ plain = Nothing
  /\ parsed = Failed

Explode ==
  /\ \E d \in Delimiters :
       /\ delim' = d
       /\ pieces' = Exploded(input, d)
  /\ joined' = Nothing
  /\ UNCHANGED <<input, words, escaped, plain, parsed>>

(* Of no pieces at all str_implode would read past the end.                *)
Implode ==
  /\ pieces \notin {NoPieces, <<>>} /\ Len(delim) = 1
  /\ joined' = Imploded(pieces, delim[1])
  /\ UNCHANGED <<input, delim, pieces, words, escaped, plain, parsed>>

Escape ==
  /\ \E ws \in WordLists :
       /\ words' = ws
       /\ escaped' = Escaped(input, ws)
  /\ plain' = Nothing
  /\ UNCHANGED <<input, delim, pieces, joined, parsed>>

Unescape ==
  /\ escaped # Nothing
  /\ plain' = Unescaped(escaped, words)
  /\ UNCHANGED <<input, delim, pieces, joined, words, escaped, parsed>>

(* Of an empty text the first character would be read past the end.        *)
Parse ==
  /\ input # <<>>
  /\ parsed' = ParsedAs(input)
  /\ UNCHANGED <<input, delim, pieces, joined, words, escaped, plain>>

LexNext == Explode \/ Implode \/ Escape \/ Unescape \/ Parse

LexSpec == LexInit /\ [][LexNext]_lexVars

-----------------------------------------------------------------------------
Within(t, p) == \E s \in 0 .. Len(t) - Len(p) : SubSeq(t, s + 1, s + Len(p)) = p

GluedTo(t, d, p) == t \o d \o p

Gluing(s, d) ==
  LET whole[k \in 1 .. Len(s)] ==
        IF k = 1 THEN s[1] ELSE GluedTo(whole[k - 1], d, s[k])
  IN  whole

Glued(s, d) == IF s = <<>> THEN <<>> ELSE Gluing(s, d)[Len(s)]

(* Pieces and delimiters together are the text, but for a delimiter at its *)
(* end, which leaves no piece behind; no piece has the delimiter in it     *)
(* (str_explode, lexUtils.inl:23-32), and str_implode puts the pieces      *)
(* together in the same way.                                               *)
PiecesRestoreText ==
  pieces # NoPieces =>
    LET t == Glued(pieces, delim)
    IN  /\ input = t \/ input = t \o delim
        /\ \A i \in 1 .. Len(pieces) : ~Within(pieces[i], delim)
        /\ joined # Nothing => joined = t

(* Unescaping gives the text back, whether words are next to each other,   *)
(* overlap or repeat (lexUtils.h:199-243).                                 *)
EscapeRestoresText == plain # Nothing => plain = input

(* A number that ATOI takes is the one that is written there, as long as   *)
(* ten times as much is an int (lexUtils.inl:82-92); a text it refuses     *)
(* leaves no number behind.                                                *)
WithDigit(n, c) == 10 * n + Value[c]

Numbers(t) ==
  LET n[k \in 0 .. Len(t)] == IF k = 0 THEN 0 ELSE WithDigit(n[k - 1], t[k])
  IN  n

Written(t) ==
  LET minus == t[1] = "-"
      ds    == IF minus THEN Tail(t) ELSE t
      n     == Numbers(ds)[Len(ds)]
  IN  IF minus THEN -n ELSE n

NumberIsParsed ==
  /\ parsed.success =>
       LET n == Written(input)
       IN  (10 * n <= IntMax /\ 10 * n >= -IntMax) => (parsed.defined /\ parsed.value = n)
  /\ ~parsed.success => parsed.value = 0
=============================================================================
