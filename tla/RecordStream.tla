---------------------------- MODULE RecordStream ----------------------------
(***************************************************************************)
(* irstream (rstream.h, rstream.cpp): cuts a text into records, each of    *)
(* which begins behind a pattern.  The text reaches the stream in pieces,  *)
(* the get area of its streambuf, and searching never looks beyond it.     *)
(* The text is numbered from 1; gptr is the last character that has been   *)
(* read, egptr the last one of the get area.                               *)
(***************************************************************************)
EXTENDS Integers, Sequences

CONSTANTS
  Letters,   \* the characters of texts and patterns
  Nul,       \* the character that ends a string, in no text
  Patterns,  \* the patterns records can begin with
  Texts,     \* the texts that are tried
  NewTexts,  \* those of them a stream that was in use is given
  Chunk,     \* size of the get area
  Sizes,     \* sizes of the client's output buffers
  Clients    \* for each client, what it calls besides clear

(* Only a stream on a file has open() and close(), only one on a string    *)
(* has str().                                                              *)
ASSUME StreamAssumption ==
  /\ Nul \notin Letters
  /\ Patterns \subseteq Seq(Letters) /\ Texts \subseteq Seq(Letters)
  /\ \A q \in Patterns : Len(q) >= 2
  /\ Chunk \in Nat /\ Chunk >= 2
  /\ Sizes \subseteq Nat \ {0}
  /\ Clients \subseteq
       SUBSET {"copy", "pointer", "research", "begin_pattern", "open", "str"}
  /\ \A c \in Clients : "open" \notin c \/ "str" \notin c
  /\ NewTexts \subseteq Texts /\ <<>> \in Texts
  /\ \A t \in Texts : \A i \in 0 .. Len(t) : SubSeq(t, i + 1, Len(t)) \in Texts

VARIABLES
  client,             \* the client's calls
  pattern,            \* pattern_, of psize_ characters
  asked,              \* history: the pattern that was asked for
  isOpen,             \* is_open(), of a file stream
  text, gptr, egptr,
  eof, failed,        \* the stream's state bits
  state,              \* state_
  searching, found,   \* on_searching_, found
  off,                \* output_off
  room,               \* the size getrecord was called with, less one
  maxRec,             \* max_rec_size_
  pc,
  piece,              \* history: what this call has put out
  record,             \* history: what was put out for a record so far
  records,            \* history: the complete records
  lost,               \* history: a part of a record was thrown away
  base, start,        \* history: where searching began, where it first matched
  distance            \* what getrecord(beg) returned last

setup == <<client, pattern, asked, isOpen>>
streamVars == <<text, gptr, egptr, eof>>
searchVars == <<searching, found>>
history == <<record, records, lost, base, start>>
vars == <<setup, streamVars, searchVars, history, failed, state, off, room,
          maxRec, pc, piece, distance>>

P == Len(pattern)
None == -1
Smaller(a, b) == IF a <= b THEN a ELSE b
Larger(a, b) == IF a >= b THEN a ELSE b
Avail == egptr - gptr

(* Where a pattern begins, counted from place p of the text; what lies     *)
(* beyond the get area does not count.                                     *)
Search(p) ==
  LET hits == {i \in 0 .. egptr - p - P :
                 SubSeq(text, p + i + 1, p + i + P) = pattern}
  IN  IF hits = {} THEN None
      ELSE CHOOSE i \in hits : \A j \in hits : i <= j

(* The get area is filled again as soon as it has been read.               *)
Filled(g) ==
  IF g = egptr THEN Smaller(Len(text), egptr + Chunk) ELSE egptr

(* Read n characters of the get area and look at the next one.             *)
Consume(n) ==
  /\ gptr' = gptr + n
  /\ egptr' = Filled(gptr + n)
  /\ UNCHANGED text

AtEnd(n) == gptr + n = Len(text)
Chars(n) == SubSeq(text, gptr + 1, gptr + n)

-----------------------------------------------------------------------------
Init ==
  /\ client \in Clients /\ pattern \in Patterns /\ asked = pattern
  /\ isOpen = TRUE
  /\ text \in Texts
  /\ gptr = 0 /\ egptr = Smaller(Len(text), Chunk)
  /\ eof = FALSE /\ failed = FALSE
  /\ state \in {"INITED", "UNINITED"}   \* open() calls research, str() does not
  /\ searching = 0 /\ found = TRUE
  /\ off = 0 /\ room = 0 /\ maxRec = 0
  /\ pc = "idle"
  /\ piece = <<>> /\ record = <<>> /\ records = <<>> /\ lost = FALSE
  /\ base = 0 /\ start = 0 /\ distance = 0

-----------------------------------------------------------------------------
(* getrecord(output, size)                                                 *)

GetRecord(size) ==
  /\ "copy" \in client
  /\ pc = "idle" /\ ~failed /\ ~eof
  /\ room' = size - 1 /\ off' = 0 /\ piece' = <<>>
  /\ pc' = "copy"
  /\ UNCHANGED <<streamVars, searchVars, history, failed, state, maxRec,
                 distance>>

Uninited ==
  /\ pc \in {"copy", "pointer"} /\ state = "UNINITED"
  /\ pc' = "idle"
  /\ UNCHANGED <<streamVars, searchVars, history, failed, state, off, room,
                 maxRec, piece, distance>>

(* Wrong variant: the area is dropped and nobody looks for the end.        *)
SkipArea_NoPeek ==
  /\ pc = "copy" /\ state = "INITED" /\ Search(gptr) = None
  /\ Consume(Avail)
  /\ UNCHANGED <<eof, searchVars, history, failed, state, off, room, maxRec,
                 pc, piece, distance>>

(* Nothing of the get area precedes a record: take the next one.           *)
SkipArea ==
  /\ pc = "copy" /\ state = "INITED" /\ Search(gptr) = None
  /\ Consume(Avail)
  /\ eof' = AtEnd(Avail)
  /\ pc' = IF eof' THEN "idle" ELSE "copy"
  /\ UNCHANGED <<searchVars, history, failed, state, off, room, maxRec,
                 piece, distance>>

FirstMatch ==
  /\ pc = "copy" /\ state = "INITED" /\ Search(gptr) # None
  /\ Consume(Search(gptr) + P)
  /\ state' = "PMATCH"
  /\ start' = gptr + Search(gptr)
  /\ UNCHANGED <<eof, searchVars, record, records, lost, base, failed, off,
                 room, maxRec, pc, piece, distance>>

Copying == pc = "copy" /\ state = "PMATCH"
CopyFrame == UNCHANGED <<searchVars, state, room, base, start, distance>>

Complete(r) ==
  /\ records' = Append(records, record \o r)
  /\ record' = <<>>
  /\ UNCHANGED lost

(* Wrong variant: the last record is not handed out at the end of the text *)
Gather_EofIgnored ==
  /\ Copying /\ Search(gptr) = None /\ off < room
  /\ LET n == Smaller(room - off, Avail)
     IN  /\ Consume(n)
         /\ off' = off + n
         /\ piece' = piece \o Chars(n)
         /\ eof' = AtEnd(n)
  /\ pc' = IF eof' THEN "idle" ELSE pc
  /\ UNCHANGED <<failed, record, records, lost, maxRec>>
  /\ CopyFrame

(* No pattern in the get area: all of it that fits belongs to the record.  *)
Gather ==
  /\ Copying /\ Search(gptr) = None /\ off < room
  /\ LET n == Smaller(room - off, Avail)
     IN  /\ Consume(n)
         /\ off' = off + n
         /\ piece' = piece \o Chars(n)
         /\ eof' = AtEnd(n)
  /\ \/ /\ eof' /\ Complete(piece')
        /\ maxRec' = Larger(off', maxRec)
        /\ pc' = "idle"
     \/ ~eof' /\ UNCHANGED <<record, records, lost, maxRec, pc>>
  /\ UNCHANGED failed
  /\ CopyFrame

(* The output is full and no pattern in sight: the get area is dropped.    *)
Overflow ==
  /\ Copying /\ Search(gptr) = None /\ off >= room
  /\ Consume(Avail)
  /\ off' = 0
  /\ eof' = AtEnd(Avail)
  /\ failed' = TRUE
  /\ lost' = TRUE /\ record' = <<>>
  /\ pc' = "idle"
  /\ UNCHANGED <<records, maxRec, piece>>
  /\ CopyFrame

(* Wrong variant: one more character is read than the output takes.        *)
PartOfRecord_OffByOne ==
  /\ Copying /\ Search(gptr) > room - off
  /\ Consume(room - off + 1)
  /\ off' = room
  /\ piece' = piece \o Chars(room - off)
  /\ record' = record \o piece'
  /\ failed' = TRUE
  /\ pc' = "idle"
  /\ UNCHANGED <<eof, lost, records, maxRec>>
  /\ CopyFrame

(* The record ends in the get area but does not fit: hand out what fits.   *)
PartOfRecord ==
  /\ Copying /\ Search(gptr) > room - off
  /\ Consume(room - off)
  /\ off' = room
  /\ piece' = piece \o Chars(room - off)
  /\ record' = record \o piece'
  /\ failed' = TRUE
  /\ pc' = "idle"
  /\ UNCHANGED <<eof, lost, records, maxRec>>
  /\ CopyFrame

EndOfRecord ==
  /\ Copying /\ Search(gptr) \in 0 .. room - off
  /\ LET n == Search(gptr)
     IN  /\ Consume(n + P)
         /\ off' = off + n
         /\ piece' = piece \o Chars(n)
  /\ Complete(piece')
  /\ maxRec' = Larger(off', maxRec)
  /\ pc' = "idle"
  /\ UNCHANGED <<eof, failed>>
  /\ CopyFrame

-----------------------------------------------------------------------------
(* getrecord(beg): nothing is read, a second search position advances.     *)

PtrHead == gptr + searching

GetPointer ==
  /\ "pointer" \in client
  /\ pc = "idle" /\ ~failed /\ ~eof
  /\ PtrHead <= egptr   \* else, after str, the search is undefined
  /\ pc' = "pointer"
  /\ UNCHANGED <<streamVars, searchVars, history, failed, state, off, room,
                 maxRec, piece, distance>>

SearchNptr == IF found THEN Search(PtrHead) ELSE None
PointerFrame == UNCHANGED <<streamVars, record, lost, base, start, room, piece>>

NoFirstPointer ==
  /\ pc = "pointer" /\ state = "INITED" /\ SearchNptr = None
  /\ found' = FALSE /\ failed' = TRUE
  /\ distance' = 0
  /\ pc' = "idle"
  /\ UNCHANGED <<searching, state, off, maxRec, records>>
  /\ PointerFrame

FirstPointer ==
  /\ pc = "pointer" /\ state = "INITED" /\ SearchNptr # None
  /\ searching' = searching + SearchNptr + P
  /\ state' = "PMATCH"
  /\ UNCHANGED <<found, failed, off, maxRec, records, pc, distance>>
  /\ PointerFrame

Pointer ==
  /\ pc = "pointer" /\ state = "PMATCH" /\ SearchNptr # None
  /\ LET n == SearchNptr
     IN  /\ records' = Append(records, SubSeq(text, PtrHead + 1, PtrHead + n))
         /\ searching' = searching + n + P
         /\ off' = n /\ distance' = n
         /\ maxRec' = Larger(n, maxRec)
  /\ pc' = "idle"
  /\ UNCHANGED <<found, failed, state>>
  /\ PointerFrame

(* Wrong variant: counted from the read position.                          *)
NoMorePointer_FromGptr ==
  /\ pc = "pointer" /\ state = "PMATCH" /\ SearchNptr = None
  /\ found' = FALSE /\ failed' = TRUE
  /\ distance' = Avail
  /\ pc' = "idle"
  /\ UNCHANGED <<searching, state, off, maxRec, records>>
  /\ PointerFrame

NoMorePointer ==
  /\ pc = "pointer" /\ state = "PMATCH" /\ SearchNptr = None
  /\ found' = FALSE /\ failed' = TRUE
  /\ distance' = egptr - PtrHead
  /\ pc' = "idle"
  /\ UNCHANGED <<searching, state, off, maxRec, records>>
  /\ PointerFrame

-----------------------------------------------------------------------------
(* The client.                                                             *)

Restarted ==
  /\ state' = "INITED" /\ eof' = FALSE
  /\ searching' = 0 /\ found' = TRUE
  /\ records' = <<>> /\ record' = <<>> /\ lost' = FALSE

(* The room for the pattern only grows, and so does psize_.                *)
Overwritten(q) ==
  [i \in 1 .. Larger(P, Len(q)) |->
     IF i <= Len(q) THEN q[i] ELSE IF i = Len(q) + 1 THEN Nul ELSE pattern[i]]

(* clear() after a failure, to go on with the record or the next one.      *)
Clear ==
  /\ pc = "idle" /\ failed
  /\ failed' = FALSE /\ eof' = FALSE
  /\ UNCHANGED <<setup, text, gptr, egptr, searchVars, history, state, off,
                 room, maxRec, pc, piece, distance>>

Research ==
  /\ "research" \in client /\ pc = "idle"
  /\ Restarted /\ failed' = FALSE
  /\ base' = gptr
  /\ UNCHANGED <<setup, text, gptr, egptr, start, off, room, maxRec, pc, piece,
                 distance>>

(* begin_pattern.  Bound: between two searches.                            *)
BeginPattern(q) ==
  /\ "begin_pattern" \in client
  /\ pc = "idle" /\ state # "PMATCH" /\ gptr = base
  /\ asked' = q
  /\ pattern' = Overwritten(q)
  /\ UNCHANGED <<client, isOpen, streamVars, searchVars, history, failed, state,
                 off, room, maxRec, pc, piece, distance>>

(* Another text from its beginning.                                        *)
NewText(t) ==
  /\ text' = t /\ gptr' = 0 /\ egptr' = Smaller(Len(t), Chunk)
  /\ base' = 0 /\ start' = 0 /\ piece' = <<>>
  /\ UNCHANGED <<off, room, maxRec, pc, distance>>

(* open(filename).  Bound: the client has closed the last file.            *)
Open(t) ==
  /\ "open" \in client /\ pc = "idle" /\ ~isOpen
  /\ NewText(t)
  /\ Restarted /\ failed' = FALSE
  /\ isOpen' = TRUE
  /\ UNCHANGED <<client, pattern, asked>>

OpenFails ==
  /\ "open" \in client /\ pc = "idle" /\ ~isOpen
  /\ failed' = TRUE
  /\ UNCHANGED <<setup, streamVars, searchVars, history, state, off, room,
                 maxRec, pc, piece, distance>>

(* Wrong variant: the search goes on where it was in the last file.        *)
Close_NoRestart ==
  /\ "open" \in client /\ pc = "idle"
  /\ NewText(<<>>)
  /\ eof' = FALSE /\ records' = <<>> /\ record' = <<>> /\ lost' = FALSE
  /\ failed' = ~isOpen
  /\ isOpen' = FALSE
  /\ UNCHANGED <<client, pattern, asked, searchVars, state>>

(* research, then close: of a closed file there is nothing to read.        *)
Close ==
  /\ "open" \in client /\ pc = "idle"
  /\ NewText(<<>>)
  /\ Restarted /\ failed' = ~isOpen
  /\ isOpen' = FALSE
  /\ UNCHANGED <<client, pattern, asked>>

(* str(s): nothing is restarted, so what follows are no records before the *)
(* client calls research.                                                  *)
Str(t) ==
  /\ "str" \in client /\ pc = "idle"
  /\ NewText(t)
  /\ records' = <<>> /\ record' = <<>> /\ lost' = TRUE
  /\ UNCHANGED <<setup, eof, failed, searchVars, state>>

-----------------------------------------------------------------------------
Copy ==
  SkipArea \/ FirstMatch \/ Gather \/ Overflow \/ PartOfRecord \/ EndOfRecord
PointTo == NoFirstPointer \/ FirstPointer \/ Pointer \/ NoMorePointer
Step == Copy \/ PointTo \/ Uninited

Get ==
  /\ Step \/ GetPointer \/ (\E size \in Sizes : GetRecord(size))
  /\ UNCHANGED setup

Next ==
  \/ Get
  \/ Clear
  \/ Research
  \/ \E q \in Patterns : BeginPattern(q)
  \/ \E t \in NewTexts : Open(t) \/ Str(t)
  \/ OpenFails \/ Close

Spec == Init /\ [][Next]_vars

(* A client that reads to the end of the stream, resuming after failures.  *)
Reading == Clear \/ ((\E size \in Sizes : GetRecord(size)) /\ UNCHANGED setup)
FairSpec == Spec /\ WF_vars(Step /\ UNCHANGED setup) /\ WF_vars(Reading)

-----------------------------------------------------------------------------
(* The reference: where the pattern q occurs in t, taken from left to      *)
(* right without overlaps, and the records between.                        *)
WithPlace(q, t, before, i) ==
  LET free == before = <<>> \/ before[Len(before)] + Len(q) <= i
  IN  IF free /\ SubSeq(t, i, i + Len(q) - 1) = q
      THEN Append(before, i) ELSE before

OccurrencesUpTo(q, t) ==
  LET upTo[i \in 0 .. Len(t)] ==
        IF i = 0 THEN <<>> ELSE WithPlace(q, t, upTo[i - 1], i)
  IN  upTo

Occurrences(q, t) == OccurrencesUpTo(q, t)[Larger(0, Len(t) - Len(q) + 1)]

Split ==
  [q \in Patterns |-> [t \in Texts |->
     LET at == Occurrences(q, t)
     IN  [i \in 1 .. Len(at) |->
            SubSeq(t, at[i] + Len(q),
                   IF i < Len(at) THEN at[i + 1] - 1 ELSE Len(t))]]]

Reference == Split[asked][SubSeq(text, base + 1, Len(text))]

(* The search is for what was asked for, and all of it is in view.         *)
InView == Len(text) <= Chunk /\ ~lost /\ pattern = asked

(* Records with their patterns, one after the other.                       *)
WithRecord(q, r, before) == before \o (q \o r)

JoinedUpTo(q, rs) ==
  LET upTo[i \in 0 .. Len(rs)] ==
        IF i = 0 THEN <<>> ELSE WithRecord(q, rs[i], upTo[i - 1])
  IN  upTo

Joined(q, rs) == JoinedUpTo(q, rs)[Len(rs)]

TypeOK ==
  /\ client \in Clients /\ asked \in Patterns /\ Len(pattern) >= Len(asked)
  /\ text \in Texts /\ isOpen \in BOOLEAN
  /\ egptr \in 0 .. Len(text) /\ gptr \in 0 .. egptr
  /\ egptr - gptr <= Chunk /\ (gptr = egptr => gptr = Len(text))
  /\ {eof, failed, found, lost} \subseteq BOOLEAN
  /\ state \in {"INITED", "PMATCH", "UNINITED"}
  /\ searching \in Nat /\ room \in Nat /\ off \in Nat
  /\ pc = "copy" => off <= room
  /\ maxRec \in Nat
  /\ pc \in {"idle", "copy", "pointer"}
  /\ base \in 0 .. gptr /\ start \in 0 .. Len(text) /\ distance \in Int

(* As long as the text fits into the get area, complete records are the    *)
(* records of the text, in order, whether they were fetched at once or     *)
(* resumed after failures, copied or pointed to, in a first file or one    *)
(* that was opened later, until an overflow without a pattern in sight     *)
(* drops a part of one, or a shorter pattern is asked for.                 *)
RecordsAreSplit ==
  InView => \A i \in 1 .. Len(records) :
              i <= Len(Reference) /\ records[i] = Reference[i]

(* A client that met the end of such a text has had every record, unless   *)
(* it was told of an overflow without a pattern in sight.                  *)
NoRecordMissing ==
  InView /\ eof /\ pc = "idle" => Len(records) = Len(Reference)

(* What was handed out, with its patterns, is the text up to the read      *)
(* position, even where a pattern was torn by the end of the get area.     *)
PiecesInOrder ==
  state = "PMATCH" /\ ~lost /\ "copy" \in client =>
    LET open == record \o (IF pc = "copy" THEN piece ELSE <<>>)
    IN  SubSeq(text, start + 1, gptr) =
          Joined(pattern, records) \o (IF eof THEN <<>> ELSE pattern \o open)

(* When no pattern follows, getrecord(beg) returns how much of the text    *)
(* lies behind the last pattern.                                           *)
DistanceIsRest ==
  (/\ pc = "idle" /\ failed /\ state = "PMATCH" /\ InView
   /\ "pointer" \in client)
  => distance = Len(Reference[Len(Reference)])

(* rstream_test.cpp: what was cut off for want of room can be resumed.     *)
ResumeLosesNothing == "str" \notin client => ~lost

(* rstream.h: begin_pattern() is the pattern of the size that was given.   *)
SearchesWhatWasAsked == pattern = asked

(* A client that opened a file and reads on reaches the end of it.         *)
ReachesEnd ==
  state = "INITED" /\ "copy" \in client /\ client \cap {"open", "str"} = {}
    => <>eof
=============================================================================
