------------------------------ MODULE Spliter ------------------------------
(***************************************************************************)
(* spliter (fileUtils.cpp): cuts a file into partitions of a given size,   *)
(* copying it through a circular buffer.  The buffer's variables are those *)
(* of CircularBuffer, whose actions are the steps of the copy loop.  The   *)
(* files of successive calls share one numbering of characters, so a       *)
(* character that strays into another file's partitions is recognised.     *)
(***************************************************************************)
EXTENDS Integers, Sequences

CONSTANTS
  SegmentSize, \* SEGMENT_SIZE: the largest buffer, and the default one
  FloatBits,   \* bits of a float's mantissa
  Width,       \* bound: file, partition and buffer sizes are below 2^Width
  FileSizes, PartSizes,   \* bounds: the sizes that are tried
  MaxCalls,    \* bound: calls made on one spliter
  MaxChanges   \* bound: changes of files while they are split

ASSUME SplitAssumption ==
  /\ SegmentSize \in 1 .. 2^Width - 1 /\ FloatBits \in Nat \ {0}
  /\ Width \in Nat /\ MaxCalls \in Nat /\ MaxChanges \in Nat
  /\ FileSizes \subseteq 0 .. 2^Width - 1
  /\ PartSizes \subseteq 1 .. 2^Width - 1

(* What is used of powers of two.                                          *)
ASSUME PowerAssumption ==
  /\ 2^0 = 1 /\ 2^1 = 2
  /\ \A n \in 0 .. 2 * (Width + FloatBits) :
       /\ 2^n \in Nat \ {0}
       /\ \A i \in 0 .. n : 2^n = 2^i * 2^(n - i)

VARIABLES
  alloc, cap, beg, cur, end, slots, taken, supplied, good, it, fresh, ret,
  pc,          \* the statement the call is at
  calls,       \* calls made
  size,        \* the parameter size
  fileSize,    \* st_size, when the call began
  segNum,      \* number of partitions the loop counts to, in 1/Unit
  iterCount,   \* whole buffers in a partition
  base,        \* characters of files before this one
  part,        \* index i of the partition
  pass,        \* index j of the copy loop
  written,     \* text written by this call, over all partitions
  starts,      \* Len(written) when each partition was opened
  lastPartLen, failed,
  clean,       \* history: the buffer was empty when the call began
  least,       \* history: the smallest size of the file during this call
  changes      \* changes of files so far

Smaller(a, b) == IF a <= b THEN a ELSE b

MaxSize == SegmentSize
MaxInput == MaxCalls * 2^Width
MaxOffset == 2^Width

bufVars == <<alloc, cap, beg, cur, end, slots, taken, supplied, good, it,
             fresh, ret>>
inputVars == <<calls, size, fileSize, segNum, iterCount, base, clean>>
fileVars == <<least, changes>>
callVars == <<inputVars, fileVars, lastPartLen, failed>>
vars == <<bufVars, callVars, pc, part, pass, written, starts>>

Buffer == INSTANCE CircularBuffer

-----------------------------------------------------------------------------
(* Float arithmetic, in units of 1/Unit: x/b to FloatBits bits, half to    *)
(* even.                                                                   *)
Unit == 2^(Width + FloatBits)

Rounded(x, b) ==
  LET k == CHOOSE e \in 0 .. 2 * Width + FloatBits :
             /\ x < b * 2^(FloatBits + e)
             /\ e = 0 \/ x >= b * 2^(FloatBits + e - 1)
      d == b * 2^k
      q == x \div d
      r == 2 * (x % d)
  IN  (IF r > d \/ (r = d /\ q % 2 = 1) THEN q + 1 ELSE q) * 2^k

FloatOf == [n \in 0 .. 2^Width |-> Rounded(n * Unit, 1)]

(* Wrong variant: integers divided, the partition at the end not counted.  *)
SegNum_Truncated ==
  [file \in FileSizes |-> [sz \in PartSizes |-> Unit * (file \div sz)]]

(* The estimate of the number of partitions.                               *)
SegNum ==
  [file \in FileSizes |-> [sz \in PartSizes |->
     LET quotient == Rounded(FloatOf[file], FloatOf[sz] \div Unit)
     IN  IF file % sz = 0 THEN quotient ELSE Rounded(quotient + Unit, 1)]]

(* Wrong variant: rounded up, so a partition gets one buffer too many.     *)
IterCount_Ceil ==
  [sz \in PartSizes |-> [c \in 1 .. SegmentSize |->
     -((-Rounded(FloatOf[sz], FloatOf[c] \div Unit)) \div Unit)]]

(* The whole buffers in a partition.                                       *)
IterCount ==
  [sz \in PartSizes |-> [c \in 1 .. SegmentSize |->
     Rounded(FloatOf[sz], FloatOf[c] \div Unit) \div Unit]]

TailPart == size % cap

-----------------------------------------------------------------------------

Init ==
  /\ Buffer!Init
  /\ \E bufsize \in 0 .. SegmentSize + 1 :
       cap = IF bufsize > SegmentSize \/ bufsize = 0
             THEN SegmentSize ELSE bufsize
  /\ supplied = 0
  /\ pc = "idle" /\ calls = 0
  /\ size = 1 /\ fileSize = 0 /\ segNum = 0 /\ iterCount = 0 /\ base = 0
  /\ part = 0 /\ pass = 0 /\ written = <<>> /\ starts = <<>>
  /\ lastPartLen = 0 /\ failed = FALSE /\ clean = TRUE
  /\ least = 0 /\ changes = 0

(* A call opens the file: a new stream, nothing of it read yet.            *)
Call ==
  /\ pc \in {"idle", "done"} /\ calls < MaxCalls
  /\ calls' = calls + 1
  /\ size' \in PartSizes
  /\ fileSize' \in FileSizes
  /\ segNum' = SegNum[fileSize'][size']
  /\ iterCount' = IterCount[size'][cap]
  /\ base' = supplied
  /\ supplied' = supplied + fileSize'
  /\ taken' = supplied
  /\ good' = TRUE
  /\ clean' = (cur = end)
  /\ part' = 0 /\ pass' = 0 /\ written' = <<>> /\ starts' = <<>>
  /\ lastPartLen' = 0 /\ failed' = FALSE
  /\ least' = fileSize'
  /\ pc' = "loop"
  /\ UNCHANGED <<alloc, cap, beg, cur, end, slots, it, fresh, ret, changes>>

(* The file cannot be opened: the call fails before it touches anything.   *)
CallFails ==
  /\ pc \in {"idle", "done"} /\ calls < MaxCalls
  /\ calls' = calls + 1
  /\ written' = <<>> /\ starts' = <<>>
  /\ lastPartLen' = 0 /\ failed' = TRUE
  /\ pc' = "done"
  /\ UNCHANGED <<bufVars, size, fileSize, segNum, iterCount, base, part, pass,
                 clean, fileVars>>

(* Another program makes the file longer, or cuts off what has not been    *)
(* read yet.                                                               *)
FileChanges ==
  /\ pc \notin {"idle", "done"} /\ changes < MaxChanges
  /\ supplied' \in taken .. base + 2^Width - 1
  /\ least' = Smaller(least, supplied' - base)
  /\ changes' = changes + 1
  /\ UNCHANGED <<alloc, cap, beg, cur, end, slots, taken, good, it, fresh, ret,
                 inputVars, lastPartLen, failed, pc, part, pass, written,
                 starts>>

(* out.open() of the next partition.                                       *)
OpenPart ==
  /\ pc = "loop" /\ FloatOf[part] < segNum
  /\ starts' = Append(starts, Len(written))
  /\ pass' = 0
  /\ pc' = "copy"
  /\ UNCHANGED <<bufVars, callVars, part, written>>

(* It cannot be opened: the call ends here, before buf_.clear().           *)
OpenFails ==
  /\ pc = "loop" /\ FloatOf[part] < segNum
  /\ failed' = TRUE
  /\ lastPartLen' = 0
  /\ pc' = "done"
  /\ UNCHANGED <<bufVars, inputVars, fileVars, part, pass, written, starts>>

(* One round fills the buffer, writes from it and moves on: IterCount      *)
(* rounds of a whole buffer, then one for the rest of the partition.       *)
InTail == pass >= iterCount

RoundLeft == ~InTail \/ (pass = iterCount /\ TailPart > 0)

Fill ==
  /\ pc = "copy" /\ RoundLeft
  /\ Buffer!TryFill
  /\ pc' = "write"
  /\ UNCHANGED <<callVars, part, pass, written, starts>>

(* Wrong variant: the rest of a partition is written without its end.      *)
Write_TailUnbounded ==
  /\ pc = "write"
  /\ written' = written \o Buffer!Text(beg, end)
  /\ pc' = "seek"
  /\ UNCHANGED <<bufVars, callVars, part, pass, starts>>

Write ==
  /\ pc = "write"
  /\ written' = written \o
       IF InTail THEN Buffer!Text(beg, Buffer!Moved(beg, TailPart))
                 ELSE Buffer!Text(cur, end)
  /\ pc' = "seek"
  /\ UNCHANGED <<bufVars, callVars, part, pass, starts>>

(* Wrong variant: only whole buffers are skipped after they were written.  *)
Seek_TailNotSkipped ==
  /\ pc = "seek"
  /\ Buffer!SeekOff(IF InTail THEN 0 ELSE cap)
  /\ pass' = pass + 1
  /\ pc' = "copy"
  /\ UNCHANGED <<callVars, part, written, starts>>

(* Wrong variant: the copy loop does not count its rounds.                 *)
Seek_NotCounted ==
  /\ pc = "seek"
  /\ Buffer!SeekOff(IF InTail THEN TailPart ELSE cap)
  /\ pc' = "copy"
  /\ UNCHANGED <<callVars, part, pass, written, starts>>

Seek ==
  /\ pc = "seek"
  /\ Buffer!SeekOff(IF InTail THEN TailPart ELSE cap)
  /\ pass' = pass + 1
  /\ pc' = "copy"
  /\ UNCHANGED <<callVars, part, written, starts>>

ClosePart ==
  /\ pc = "copy" /\ ~RoundLeft
  /\ lastPartLen' = IF FloatOf[part + 1] = segNum
                    THEN iterCount * cap + TailPart ELSE lastPartLen
  /\ part' = part + 1
  /\ pc' = "loop"
  /\ UNCHANGED <<bufVars, inputVars, fileVars, failed, pass, written, starts>>

Return ==
  /\ pc = "loop" /\ FloatOf[part] >= segNum
  /\ Buffer!Clear
  /\ pc' = "done"
  /\ UNCHANGED <<callVars, part, pass, written, starts>>

Run == OpenPart \/ OpenFails \/ Fill \/ Write \/ Seek \/ ClosePart \/ Return

Next == Call \/ CallFails \/ FileChanges \/ Run

Spec == Init /\ [][Next]_vars

(* A call that has begun runs on; whether there is another one is up to    *)
(* the caller.                                                             *)
FairSpec == Spec /\ WF_vars(Run)

-----------------------------------------------------------------------------
TypeOK ==
  /\ Buffer!TypeOK
  /\ pc \in {"idle", "loop", "copy", "write", "seek", "done"}
  /\ calls \in 0 .. MaxCalls /\ part \in Nat /\ pass \in 0 .. iterCount + 1
  /\ written \in Seq(0 .. MaxInput) /\ starts \in Seq(Nat)
  /\ lastPartLen \in Nat /\ {failed, clean} \subseteq BOOLEAN

(* fileUtils.h: what is partitioned is the file that was named, and no     *)
(* character of any other file gets into its partitions.                   *)
WritesThatFile == written = [n \in 1 .. Len(written) |-> base + n]

(* The partitions, one after the other, are the beginning of the file: no  *)
(* character is lost or doubled, whatever fill, tail and wrap came before, *)
(* in a later call on the same buffer too, unless an earlier call failed   *)
(* at a partition and left the buffer full.                                *)
PartsAreFile == clean => WritesThatFile

(* A call that does not fail copies all that was in the file throughout    *)
(* the call: the estimated number of partitions is never too small, and a  *)
(* file that grows does not lose what it had.                              *)
SplitIsComplete ==
  clean /\ pc = "done" /\ ~failed /\ calls > 0 => Len(written) >= least

(* tryfill never throws: each round reads out what makes room for the next *)
(* fill, even when the buffer was left full by a call that failed.         *)
FillHasRoom ==
  pc = "copy" /\ RoundLeft => ~Buffer!Underflow /\ ~Buffer!Overflow

(* Every partition that is followed by more text has the size the caller   *)
(* asked for.                                                              *)
PartsHaveSize ==
  clean =>
    \A n \in 1 .. Len(starts) - 1 :
      starts[n + 1] = Smaller(starts[n] + size, Len(written))

(* Every call ends, for every file and partition size and after every      *)
(* failure: the loop counts an int up to a float.                          *)
CallEnds == pc = "loop" ~> pc = "done"
=============================================================================
