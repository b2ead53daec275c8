# A verification project for GAISUtils

GAISUtils is a C++ library of text-processing utilities: a circular buffer
that is filled from a stream, a file splitter built on it, streams that cut a
text into records, records with schemas that can change at run time, lexical
helpers, MD5, a profiler, and a class that turns a program into a daemon. It
brings Loki along, whose small-object allocator it takes its memory from, and
whose mutexes and pointers its programs may use. This directory holds TLA+
modules for those parts, configurations that check them with TLC, and proofs
that TLAPS checks. Paths below are relative to the repository's root, which is
`src/` in `PROJECT.json`.

## 1. Inventory

| Component | Code | State it keeps | Operations | Talks to |
|---|---|---|---|---|
| circular buffer | `include/GAISUtils/container.h`, `container.inl` | five pointers into an array of capacity + 1 slots; iterators copy one of them | `tryfill`, `seekoff`, `operator<<`, `resize`, `clear`, iterator arithmetic, `isValid` | an `istream` it reads, an `ostream` it writes |
| file splitter | `src/fileUtils.cpp` | a circular buffer that outlives a call | `operator()` | the buffer, the file system |
| daemon (Unix) | `daemon/daemon_unix.cc` | two flags, a pipe, a pidfile shared by all processes | `daemonize`, `runningOk`, `shutdown` from an exit handler or a destructor | its own launcher (pipe), other starts of the program (pidfile), signals |
| record streams | `src/rstream.cpp`, `rstream.h` | a position in the streambuf's get area, a second search position, a small state machine, the size of what was put out | `getrecord` (copying), `getrecord` (pointing), `research`, `open`, `close`, `str`, `begin_pattern` | a `streambuf` that is refilled in pieces, a client that clears failures and resumes |
| records and schemas | `src/rschema.cpp`, `record.h`, `rschema.h` | per schema a prototype, three maps between names, places and types, and a version; per record its fields, a schema pointer and a version | `define_field`, `undefine_field`, `make`, `operator<<`, `operator>>`, record assignment, copy, lookup | each other: records outlive changes of the schema they came from; the allocator |
| small-object allocator | `loki/src/SmallObj.cpp`, `SmallObj.h`, `allocator.h` | per block size a vector of chunks and three raw pointers into it; in each chunk a list of free blocks | `Allocate`, both `Deallocate`, `TrimExcessMemory`, the retry after `bad_alloc` | `malloc`, `new`; fields of records |
| level mutexes | `loki/src/LevelMutex.cpp`, `LevelMutex.h` | per mutex a count and a level; per thread a list of what it has locked | single and multiple locks: waiting, trying, timed; relocks; unlocks; lockers | the pthread mutex inside; other threads |
| strong pointers | `loki/src/StrongPtr.cpp`, `StrongPtr.h` | counts of strong and weak co-pointers, or a doubly linked cycle of them | construct, copy, cast, assign, swap, destroy, `ReleaseAll`, `ResetAll`, `Merge` | destructors of objects that have pointers inside; other threads |
| lexical utilities | `src/lexUtils.cpp`, `lexUtils.h`, `lexUtils.inl` | the words of an escaper; `ATOI.success` | `find`, `str_explode`, `str_implode`, `escaper`, `ATOI`, `coder` | – |
| MD5 | `MD5/md5.cc` | the hash so far, a partial block, a count of bits in two words, a flag | `update` (array, file, streams), `finalize`, constructors | a file or stream it reads |
| profiler | `src/profiler.cpp` | begin and total per name | `begin`, `end`, `dump` | the clock |
| record serialisation | `rserialize.h`, `find_field` in `record.h` | none | `fromGAISRecord`, `toGAISRecord` | records and schemas |
| daemon (Windows) | `daemon/daemon_windows.cc` | handles of the service manager | install, run | the service control manager |
| helpers | RE2 visitor, type traits, time zone, the rest of Loki | none of interest | – | – |

What is hard in this code:

* **Concurrency** between processes: several starts of one daemon, its launcher,
  its pidfile, `SIGKILL`, process ids that are used again. And between threads:
  mutexes locked in groups, and counts that two threads share. The rest is
  sequential, and is made hard by long sequences of legal calls.
* **Wrapping** (circular buffer): five pointers, one slot that is always free,
  four branches in `tryfill`, and a stream that can end in any of them.
* **Boundaries** (record streams, MD5): the get area can end anywhere, in the
  middle of a pattern too, and so can the client's output buffer; a message is
  cut anywhere, and its length fits into its last block or just does not.
* **Staleness**: iterators across fills, search positions across reads, records
  across changes of a schema, pidfiles across crashes, a buffer across calls,
  pointers into a vector of chunks that shrinks and moves.
* **Re-entrance**: the destructor of an object destroys pointers to the object
  while the destructor that deletes it is at work; a thread locks again what it
  has.
* **Partial failure**: a partition that cannot be opened, a pidfile that cannot
  be written, a schema whose text stops making sense half way, a group of
  mutexes of which only some are to be had, an allocation that fails twice.
* **Numbers**: sizes in floats, places in an `unsigned char`, a carry between
  words, a borrow between seconds and microseconds.

What makes each part correct is stated in section 4; the hazards, each with its
line, are in `PROJECT.json`.

## 2. Plan

Done, in this order:

1. `StreamWindow`, `CircularBuffer`, `CircularBufferProofs`: abstract
   specification, pointers, proofs.
2. `Spliter`, composing the copy loop with the buffer; later with files that
   change while they are split.
3. `Daemon`; later with one set of conditions per behaviour, so that one run
   covers the program as designed and as built.
4. `RecordStream`; later with `begin_pattern` in mid-stream, `open`, `close` and
   `str` on streams that were in use.
5. `RecordSchema`; `RecordProofs`, about this module.
6. `Heap`, `SmallObj`, `SmallObjProofs`.
7. `ReentrantLocks`, `LevelMutex`; `ExclusionProofs`, about this module and
   `Daemon`.
8. `SharedObjects`, `Copointers`, `RefCounts`, `RefLinks`, `StrongPtr`.
9. `MessageBlocks`, `Digest`.
10. `LexUtils`; later with the loops of `find`, `escape` and the others as
    recursive functions, which can be proved about.
11. `Profiler`; `UtilityProofs`, about this module and `Digest`.
12. `SpliterProofs`, on the lemmas of `CircularBufferProofs`.
13. `RecordProofs`, about `RecordStream` too.
14. `StrongPtrProofs`; on it `SharedProofs`, the refinement of `SharedObjects`.
15. `UtilityProofs`, about `LexUtils` too.

Left: an abstract specification of mutual exclusion that `Daemon` implements when
`Guarded`.

## 3. Modules

| Module | Models | Correspondence |
|---|---|---|
| `StreamWindow` | what the circular buffer promises | a window `lo .. pos .. hi` over a numbered stream; no slots |
| `CircularBuffer` | `container.inl` | `beg`, `cur`, `end` are the pointers as slot numbers, `cap` is `bufEnd_ - bufBeg_`, `alloc` what `safeBuffer` allocated. `tryfill` is one action per branch: `FillGap` (:278), `FillTail` (:281-284), `FillTailThenEof` (:285-291), `FillWrap` (:292-294), `FillThrows` (:272-275). A slot holds the number of the character stored in it, so that "lost, doubled, out of order" can be said. `it` is an iterator that a client holds; `it.at` and `fresh` are history |
| `Spliter` | `fileUtils.cpp` | `INSTANCE CircularBuffer` supplies the buffer's actions; `pc` walks through the loop: open, fill, write, seek, close. Float arithmetic is modelled by rounding to `FloatBits` bits, half to even. `FileChanges` is another program that makes the file longer or shorter |
| `Daemon` | `daemon_unix.cc` | one process per start, a `pc` over the system calls other processes can see; `launcher` and `pipe` belong to the parent that waits in `waitForChild`. `file` is the pidfile, in the directory the name leads to. `cond` is the condition the behaviour is under: whether exit handlers learn the status, how the application ends, whether the pidfile's name is relative, whether starts overlap, whether the pidfile may be unwritable |
| `RecordStream` | `rstream.cpp`, `rstream.h` | `gptr` and `egptr` as in the streambuf; each pass of `getrecord`'s `Dispatch` is an action, one per branch. `searching` and `found` belong to the pointing form. `client` says which calls a behaviour's client makes |
| `RecordSchema` | `rschema.cpp`, `record.h` | `layout`, `idx`, `ridx`, `types`, `version` are the members; `operator>>` is a begin, a step per field and an end, since it can stop in between. A field is its type and the type its memory was allocated for |
| `Heap` | what an allocator promises | areas come from and go to the system, blocks have one holder |
| `SmallObj` | `SmallObj.cpp` | a pool per block size; `chunks` is the vector, `room` its capacity, `allocChunk`, `deallocChunk`, `emptyChunk` the three pointers as places in it (`Null` or `Wild` outside), `chunk` a chunk's free list. Every branch of `Allocate` and of `DoDeallocate` is an action |
| `ReentrantLocks` | what mutexes promise | how often each thread is inside of each mutex |
| `LevelMutex` | `LevelMutex.cpp` | `list` is `s_currentMutex` and what `m_previous` leads to, `count` is `m_count`, `owner` the pthread mutex. A call of a locker locks or unlocks one mutex after the other; `pc` tells whether the mutex in hand is already in the list. A call that its checks refuse changes nothing and is a step that is not enabled |
| `SharedObjects` | what strong and weak pointers promise | the objects and which pointers lead to them; no counts, no links |
| `Copointers`, `RefCounts`, `RefLinks` | the ownership policies | `TwoRefCounts` and `LockableTwoRefCounts` as info blocks, `TwoRefLinks` as `prev` and `next` |
| `StrongPtr` | `StrongPtr.h` | a call is a stack of frames, since a destructor may run others; each critical section of the lockable policy is a step |
| `MessageBlocks` | what MD5 promises to hash | the whole blocks of a numbered message, in the end with mark, zeros and length |
| `Digest` | `md5.cc` | `count`, `buffer` and `finalized` are the members; `hashed` is the sequence of bytes that went through `transform`, in place of `state` |
| `LexUtils` | `lexUtils.h`, `lexUtils.inl` | one operator per function and one per round of its loop, one action per call, on one text. `find` is the loop of the code with its early skip; that it finds the first place is proved |
| `Profiler` | `profiler.cpp` | `table` is `table_`; the clock gives any time of day at any call |
| `...Proofs` | – | theorems about the module of that name; `ExclusionProofs` about `Daemon` and `LevelMutex`, `RecordProofs` about `RecordSchema` and `RecordStream`, `SharedProofs` about `StrongPtr` and `SharedObjects`, `UtilityProofs` about `Digest`, `Profiler` and `LexUtils` |
| `MC...` | – | each extends its module and says why its bounds are enough |

Definitions whose name has an underscore and a comment "Wrong variant" are
plausible bugs. They take no part in any specification; `PROJECT.json` pairs
each with the property that notices when it replaces the right definition.

Points where the model had to decide something:

* **Circular buffer.** Whether an enlarged buffer gets its old address is a
  free choice (`Resize`), because `isValid` compares addresses. An iterator is
  moved only while the window start has not moved; the code says nothing about
  older ones, and only `isValid` and the distance are asked of them.
* **Daemon.** Reading the pidfile (`stat` and reading it) is one action: what
  can happen between the two has the outcomes that reading an empty or a missing
  file has. Truncating and filling the pidfile are two actions. A process id is
  given to any process, of this program or not, as soon as it is free. Syslog
  is left out.
* **Record streams.** Refilling is modelled after libstdc++: a read that empties
  the get area is followed by a `peek`, which refills it or finds the end. The
  pattern and the get area have at least two characters, because `ignore(1)` of
  a last character behaves differently there. A client that moves the read
  position itself, by `ignore`, is not modelled.
* **Schemas.** Assigning a default-constructed record to another one
  dereferences a null pointer; erasing a place that is not there is undefined.
  Neither is modelled beyond the guard that says so.
* **Small objects.** Areas are what `malloc` returns, in any order and again
  after they were freed. A vector that grows may move, and a pointer into it
  that is not set anew is `Wild`. Only blocks that are held are deallocated.
* **Level mutexes.** A timed lock may give up at any time while it waits, since
  nothing is said of the clock. Which of several threads gets a mutex is open.
* **Strong pointers.** Which pointers are inside which object, which thread uses
  which and which of the optional calls are made is a condition of the
  behaviour. The pointers inside an object are destroyed in any order.
* **MD5.** A read may deliver any number of bytes up to what was asked for; that
  a stream ends or fails is the same to the code, and so it is here.
* **Lexical utilities.** Strings stay where they are while `escape` inserts into
  them. Words escape and unescape in the order of the list, and no word splits
  an earlier one (`WordsAssumption`); section 4 says what happens otherwise.

## 4. Runs

Bounds are named as constants; nothing else is bounded. Deadlock is checked
except where the system really stops: when a spliter's calls are used up, and
when an allocation that is tried again reads through a pointer of an empty pool
(`SmallObj.cpp:794`), which ends the program.

`TypeOK`, where a module has one, holds in the same configurations. The runs list
it nowhere: it is proved of `CircularBuffer`, `Spliter`, `RecordStream`, `SmallObj`
and `LevelMutex`, and what it could find in the others is found by the properties
below.

### Circular buffer

`circular_buffer`: capacities 0 to 3, six characters, offsets up to 4, all
operations. Three slots plus the free one give every relation of the three
cursors; six characters turn the ring one and a half times; the stream may dry
up and be cleared at any point. Checked: the ring holds a gapless slice of the
stream (`WindowMatchesStream`), iterators keep their place while the window start
stands (`IteratorKeepsPlace`), and the whole implements `StreamWindow`
(`ImplementsWindow`), which adds that a fill is refused exactly when nothing fits
and that returned counts are exact.

### File splitter

`split`: all files up to 6 characters, which may change once while they are
split, partition sizes up to 7, a buffer of 3, two calls on one spliter, any of
whose partitions may fail to open; floats of 6 bits tell all those numbers and
quotients apart, as 24 bits do for sizes far below 2^24. Checked: the partitions
joined are the file (`PartsAreFile`), all that was in it throughout the call
(`SplitIsComplete`), cut where asked (`PartsHaveSize`), `tryfill` never throws
(`FillHasRoom`), and the call ends (`CallEnds`). What is said of the text of the
partitions is said of calls that found the buffer empty (`clean`).

`split_leftover` (violated): without `clean`, a call after a failed one writes
the failed file's characters into the next file's partitions
(`WritesThatFile`).

### Daemon

`daemon`: two starts and two process ids, so that one start can meet the other
at every point of its life, find its stale pidfile, and get, or see a stranger
get, the process id the pidfile names. Each behaviour is under one of two
conditions. As designed: exit handlers know the status, the program ends by
`exit`, the pidfile's name is absolute and it can be written, and nobody starts
the program while another start is between check and write. Then there is one
daemon at most (`OneDaemon`), the pidfile names it (`PidfileNamesDaemon`), an
orderly end leaves none behind (`CleanExitLeavesNoPidfile`), and the launcher is
told the truth (`LauncherTellsTruth`). As built by default and on any machine:
none of this is assumed, and every launcher still returns (`LauncherReturns`).

### Record streams

`record_stream`: all texts over two letters up to 8 characters, so every placing
of patterns and every overlap occurs; a get area of 6; the patterns `aa`, which
overlaps itself, and `aba`, which is longer; outputs of 2, 3 and 8; six kinds of
clients, that copy, point, search again anywhere, change the pattern, or open
other files and texts on a stream that was in use. In texts that fit into the
get area records are those of a left-to-right split written independently of
the code, copied or pointed to, resumed after failures or not
(`RecordsAreSplit`), and none is missing at the end (`NoRecordMissing`). In longer
ones patterns are torn and records therefore joined, but nothing is dropped,
doubled or reordered (`PiecesInOrder`). The size returned when no record follows
is that of the rest (`DistanceIsRest`), and reading reaches the end
(`ReachesEnd`).

### Records and schemas

`record_schema`: two schemas, two names, two types, two records; four fields
defined, undefined or read in all, enough to define two, remove the first and
define another behind the hole, or to write two fields and read them into the
other schema. Schemas, records and types are interchangeable: no action and no
property tells one from the other, so the run uses them as a symmetry. Names,
places and types agree until a field other than the last is removed
(`NamesReachUnshifted`); equal versions mean equal fields, removals included, as
long as schemas are read while they are new (`SameSchemaSameFields`); as long as
schemas only grow, objects are constructed only in memory of their type
(`FieldsFitMemory`); writing and reading a schema keeps its fields
(`LoadedIsSaved`).

### Small objects

`small_objects`: two pools with chunks of three and of two blocks and three
areas, so that one pool can have three chunks, two of them empty in either
order, while the other uses memory too; areas are a symmetry. At most one chunk
of a pool is empty, `emptyChunk_` points to it and the other two pointers into
the vector (`PointersTell`); the free list of each chunk has its free blocks and
nothing else (`FreeListsIntact`); and no block is handed out twice or given back
to the system under a holder (`ImplementsHeap`).

### Level mutexes

`level_mutex`: two threads, three mutexes, two of one level and one above or
below, three lockers per thread at a time, which end in nested order. A thread's
list has exactly what it owns, in order (`ListsAreHeld`); counts are lockers
(`CountsAreLockers`); the innermost locker can always be unlocked
(`LastLockerLetsGo`), which matters because destructors swallow the refusal; no
circle of waiting (`NoDeadlock`); calls with a limit end (`LimitedCallsEnd`); and
mutexes exclude (`ImplementsLocks`).

### Strong pointers

`strong_pointers`: two objects, and up to four of three strong and two weak
pointers, under six conditions: links, and counts, with pointers inside an
object; counts with `ResetAll`, `ReleaseAll` and casts, from a strong and a weak
pointer and from two weak ones; links with casts and `Merge`; counts that two
threads share through strong pointers. Cycles and counts agree with the pointers
there are (`CopointersAgree`); nothing leaks (`NothingLeaks`); pointers do what is
promised (`ImplementsShared`), whatever the policy; and what is doomed is deleted
(`DoomedAreDeleted`).

`strong_threads` (violated): with a strong pointer in one thread and a weak one
in the other, both reach `delete` (`DeletedOnce`).

### MD5

`digest`: bytes and words of four bits, blocks of four bytes and a length of two,
up to 68 bytes: the low word wraps with every block, both words together after
64 bytes; arrays, files and streams are of every size around a block and a
chunk. Count, hashed blocks and buffer agree with the message after every call
(`MessageKept`), and what is hashed in the end is the padded message
(`ImplementsHashing`).

### Lexical utilities

`lexical`: all texts of up to five characters out of five, which include a minus,
a zero and another digit; delimiters of one and two characters, one of which
overlaps itself; lists of words that are next to each other and overlap.
Joining what was cut restores the text (`PiecesRestoreText`), unescaping what was
escaped does (`EscapeRestoresText`), and a number that is accepted is the number
written there (`NumberIsParsed`).

### What lies outside these conditions

The conditions above are not caution: each of them keeps a behaviour of the code
out under which the property fails. Changing the constant or dropping the
condition makes TLC show it; where no property is named, reading the line does.

| Code | What happens | How to see it |
|---|---|---|
| `container.inl:104` | `isValid` compares `beg_` alone, which comes back to the same slot when the ring has turned | `ValidIteratorKeepsPlace`, under `StreamingSpec` |
| `fileUtils.cpp:36` | a quotient with a fraction makes the loop run once more than the file needs, for an empty partition, and the call returns 0, which `fileUtils.h:22` keeps for failures | – |
| `fileUtils.cpp:38` | a partition size of 0 divides by zero | excluded by `SplitAssumption` |
| `fileUtils.cpp:56` | a size above 2^24 can be rounded up to one more buffer per partition, and the number of partitions down to one too few | `PartsHaveSize`, `SplitIsComplete` with `FloatBits` 3, `Width` 4 and sizes above 8 |
| `daemon_unix.cc:160` | two starts read the pidfile before either writes it | `OneDaemon` without `cond.serial` |
| `daemon_unix.cc:96` | a `main` that returns an error before `runningOk` is reported as a success | `StatusTellsSuccess` with `Conditions <- OnlyBuilt` |
| `daemon_unix.cc:221` | a relative pidfile is unlinked in `/` | `CleanExitLeavesNoPidfile` without `~cond.relative` and a condition that has it |
| `daemon_unix.cc:341` | a pidfile that cannot be opened for writing is not noticed | `PidfileNamesDaemon` without `~cond.writeMayFail` |
| `rstream.h:67` | a pattern torn by the end of the get area is not found | `RecordsAreSplit` without `Len(text) <= Chunk` |
| `rstream.cpp:27` | `begin_pattern` with a shorter pattern keeps the old size, and the terminator becomes part of the pattern | `SearchesWhatWasAsked` |
| `rstream.cpp:107` | a text without a pattern ends with eof and without failbit, and no record was put out | `SkipArea` leaves `failed` as it is |
| `rstream.cpp:128` | an output that is exactly full when no pattern is in sight costs the client the rest of the get area | `ResumeLosesNothing` with `Clients <- OnlyCopies`, `Patterns <- OnlyAB` |
| `rstream.cpp:190` | the two forms of `getrecord` keep positions of their own: where the pointing one is counts from what the copying one has read, so that a client of both gets parts of records twice or not at all | the four invariants with `{{"copy", "pointer"}}` for `Clients` |
| `rstream.cpp:152` | the size of a resumed record counts for `maximal_record` only with its last piece | – |
| `rstream.cpp:285`, `:307` | a string stream is not usable before `research` | clients with `str` have `research` too |
| `rschema.cpp:46` | reading sets the version back to one an earlier layout had | `SameSchemaSameFields` without `OnlyReadNew` |
| `rschema.cpp:86` | the 257th field takes the place of the first | `NamesReachUnshifted` without `WidthAssumption`, with `IndexWidth` 1 and three names |
| `rschema.cpp:93` | `define_field` promises a reference and returns none | – |
| `rschema.cpp:106` | after a removal in the middle, names lead to other fields | `NamesReachFields` |
| `record.h:213` | an exchanged field is constructed in memory of the old one's type; a null `schema_` is dereferenced | `FieldsFitMemory` without `OnlyGrew` |
| `record.h:264` | a record of an older version is asked for a field it does not have | – |
| `rserialize.h:51` | the first character is compared with itself where two underscores were meant, so that any name with one in front is left out; fields are written without a separator, so that reading back finds other ones | – |
| `SmallObj.cpp:573` | the assertion `pageSize >= blockSize` fails for blocks above the page of 128 bytes that `allocator.h:21` asks for | – |
| `SmallObj.cpp:794` | a pool whose last chunk has gone keeps pointers made of `front()` and `back()` of an empty vector; :158-159 say they are null | `NullWhenEmpty` |
| `SmallObj.cpp:813` | after `reserve` moved the vector and `malloc` failed, pointers dangle; :164-165 deny it | `InsideWhenNot` |
| `LevelMutex.cpp:676` | the assertion that what is unlocked is at the head of the list fails when a single locker outlives the group it was locked in | `PreUnlocksCurrent` with `Nested` FALSE |
| `StrongPtr.cpp:197` | `SetPointer` on a cycle of one does nothing, and on a longer one sets all but its own pointer | `ResetAll` is left to counts |
| `StrongPtr.cpp:560` | merging a cycle of three or more with one of two or more leaves links that lead forth but not back | `CopointersAgree` with `Conditions <- LongCycles` |
| `StrongPtr.h:1527` | `ResetAll` deletes the old object while its pointers still lead to it | frame `set` |
| `md5.cc:64` | a size above 2^32 loses its high part | `Sizes` in `DigestAssumption` |
| `md5.cc:112` | `input_index + 63` wraps for arrays within 63 bytes of 2^32 | `Sizes` in `DigestAssumption` |
| `md5.cc:172` | an ifstream is not closed; `md5.h:65` says it is | `StreamIsClosed` |
| `md5.cc:224` | one byte of the buffer is zeroed, and nothing of the state; :190-191 say the context is | `Finalize` |
| `profiler.cpp:83` | a second `end` counts what the first one counted again | `measured` does so too |
| `lexUtils.h:205` | a word that splits an earlier one, such as `a` after `ab`, makes unescaping leave backslashes behind | `EscapeRestoresText` without `WordsAssumption` |
| `lexUtils.h:212` | an iterator is used after an insertion that may have moved the string | – |
| `lexUtils.inl:10` | `str_implode` of an empty sequence reads past its end | guard of `Implode` |
| `lexUtils.inl:88` | `ATOI` multiplies once too often and overflows above a tenth of the largest int, with success; `-` alone is 0, with success | `NumberIsParsed` without its bound |
| `lexUtils.cpp:58` | `encode` indexes a table of 60 with any character, so that what `demo/coding.cpp` does works for control characters and a few more only | – |

### Fairness

* `Spliter`: weak fairness of the loop. It is a plain loop on one thread; new
  calls are not promised.
* `RecordStream`: weak fairness of `getrecord`'s steps, and of a client that
  goes on reading, as the loop `while(!rfin.eof())` of the test does.
* `Daemon`: weak fairness of each process's own steps (the scheduler) and of
  its application reaching `runningOk` or an end. Nothing is assumed of `Kill`,
  of strangers, or of a running application ever ending.
* `LevelMutex`: weak fairness of each thread inside a call (the scheduler). Who
  gets a free mutex is open, and no client need unlock.
* `StrongPtr`: weak fairness of calls in progress. No client need call.

## 5. Proofs

Every proof is of safety, for all values of the constants that the named
assumptions admit.

`CircularBufferProofs`, from `BoundsAssumption`:

| Theorem | Property |
|---|---|
| `TypesHold` | `TypeOK` |
| `CursorsStayInWindow` | `CursorsInWindow` |
| `WindowHoldsStream` | `WindowMatchesStream` |
| `IteratorsKeepPlace` | `IteratorKeepsPlace` |
| `UnreadCharactersSurvive` | `UnreadSurvivesFill` |
| `BufferImplementsWindow` | `ImplementsWindow` |

The inductive invariant `Inv` is the conjunction of the first four properties.
None of them is inductive alone: that the characters are consecutive after a
fill needs the cursors in order, that the cursors stay in order needs their
types, and an iterator keeps its place only in a ring whose window does not
shrink. The argument:

1. Lemmas on the ring: `Dist` and `At` are inverse (`DistRange`, `AtRange`), and
   walks compose (`AtCompose`). All wrapping is dealt with here and in
   `AdvanceMeaning`, `RetreatMeaning` and `MovedMeaning`, which say that iterator
   arithmetic is a clamped addition to a position.
2. `FillMeans(n)` says what a fill does, in terms of positions: the unread
   characters stay, `n` more follow. The branches of `tryfill` are each shown to
   be some `FillMeans(n)`; everything else about fills follows from that.
3. One lemma per action that it keeps `Inv`; `Invariance` combines them.
4. Refinement: `InitRefines`, and one lemma per action that it is a step of
   `StreamWindow` or a stutter, under `Inv`.

`SmallObjProofs`, from `AllocatorAssumption`:

| Theorem | Property |
|---|---|
| `TypesHold` | `TypeOK` |
| `AreasStayApart` | `AreasDiffer` |
| `PointersStayTrue` | `PointersTell` |
| `FreeListsStayIntact` | `FreeListsIntact` |
| `BlocksStayFound` | `BlocksAreFound`: `Deallocate` finds the chunk of every block |
| `Refinement` | `ImplementsHeap` |

`Inv` is `TypeOK`, `AreasDiffer`, and of each pool that its pointers and counts
are right (`PoolOK`), of each block that it has at most one holder and none while
it is in a free list (`HoldersOK`), and of each vector that it has room for its
chunks (`RoomOK`). That a block is not handed out twice rests on the free lists;
those stay intact only if chunks are told apart, which is `AreasDiffer`; and
that an area is freed without holders rests on `emptyChunk_`, whose truth is
`PoolOK`.

`ExclusionProofs`, of mutexes from `MutexAssumption`, `OrderAssumption` (any set of mutexes
has a first and a last one in the order of locking, which is so because there
are finitely many) and `Nested`:

| Theorem | Property |
|---|---|
| `TypesHold` | `TypeOK` |
| `ListsStayHeld` | `ListsAreHeld` |
| `CountsStayTrue` | `CountsAreLockers` |
| `InnermostLockerLetsGo` | `LastLockerLetsGo` |
| `DeadlockFreedom` | `NoDeadlock` |
| `Refinement` | `ImplementsLocks` |

`Inv` is `TypeOK`, a conjunct per thread (`ThreadOK`: its list against what it
owns, its lockers as a stack of blocks, and the call it is in) and `CountOK`.
Deadlock freedom follows from it by the order alone: of the mutexes that a
circle of threads waits for take the last; its owner has it in its list and
waits for one that comes later.

And of daemons from `DaemonAssumption`, for any number of starts, process ids and
conditions:

| Theorem | Property |
|---|---|
| `NeverTwoDaemons` | `OneDaemon` |
| `PidfileNamesIt` | `PidfileNamesDaemon` |
| `PidfileGoesWithDaemon` | `CleanExitLeavesNoPidfile` |
| `LaunchersTellTruth` | `LauncherTellsTruth` |

`DaemonInv` has four parts. `PidsDiffer`: living processes, foreign ones included, have
different process ids. `FileOK`, which holds when `Guarded`: one start at most is
between the check and the write; a process that has written the pidfile and not
yet removed it (`Owns`) is named by it; one that is probing read the owner's pid,
so that `kill(pid, 0)` finds the owner; one that is about to write has no owner
beside it. `TruthOK`, which holds when exit handlers learn the status: what a
launcher was told, what is in its pipe and what an exit handler will report is
success only if there was one. The fourth is types. That two daemons are never
up then follows at once: both would be named by the file, and so be one process.
There is one lemma per action.

`UtilityProofs`, of MD5 from `DigestAssumption` and `DigitsAssumption` (words are
whole blocks and whole bytes, and no array is so long that a loop variable wraps):

| Theorem | Property |
|---|---|
| `InvHolds` | `Inv`, the inductive invariant |
| `CountIsLengthHolds` | `CountIsLength` |
| `BytesKeptHolds` | `BytesKept` |
| `MessageKeptHolds` | `MessageKept` |
| `ImplementsHashingHolds` | `ImplementsHashing` |

`Inv` says that until the digest is final `Kept` holds of count, buffer and
hashed blocks. `Kept` is stated for any sequence of bytes, so that one lemma
(`AbsorbKeeps`) serves a piece of the message, the padding and the length; that
the two updates of `finalize` make up `Padded(given)` is `FinishedIsPadded`, on
`EncodedIsLength` (the digits of two words are the digits of the length) and
`PaddedSizeIs` (the padding is the shortest). Division is dealt with in lemmas of
its own.

And of the profiler, from no assumption: `PeriodsAreMeasured`, that the period of
a name is what was measured under it (`PeriodIsMeasured`). Seconds and microseconds
are arbitrary, which TLC could not enumerate; there is no run. `ProfileInv` adds that
times have less than a million microseconds and that a name that is not in the
table was not measured; `OffIsDifference` and `AddIsSum` say that borrow and
carry are right.

`RecordProofs`, on schemas, from `SchemaAssumption` and `WidthAssumption` (no more
fields than a `FIELD_INDEX` counts):

| Theorem | Property |
|---|---|
| `NamesReachThem` | `NamesReachUnshifted` |
| `SameSchemasAgree` | `SameSchemaSameFields` |
| `FieldsFit` | `FieldsFitMemory` |
| `LoadedSchemaIsSaved` | `LoadedIsSaved` |

`SchemaInv` has, besides types, one part for each of them. `TightUnshifted`: the four
tables of a schema without a hole are in step, so that the index of a new field,
the length of the prototype, is not taken. `VersionsTell`: a record is never
ahead of its schema's version, and one that has it has the layout; version 0
stands for no fields, in a schema and in one that was written, which is what
makes a schema that is read while new agree with the empty records made from it,
whether reading ends or throws. `OldFieldsFirst`: while schemas only grow, a
record's fields are the first ones of its schema, so that two records of one
schema and one length have the same types, though one may have an old version.
`LoadedSchemaIsSaved` rests on a second invariant, `LoadInv`. What was written without
a hole lists exactly the names that lead to their fields (`SavedIsListed`), which
is so because any finite set of names can be listed in order (`NamesCanBeListed`,
on `UpTo`; names are numbered, so that a set of them has a first one). A schema
with a hole is not new and is not read into (`HolesAreOld`), and the fields
read so far are declared as they were in what was written (`LoadedSoFar`).

`SpliterProofs`, from `SplitAssumption` (no buffer is larger than `SEGMENT_SIZE`)
and `PowerAssumption`, which says of the powers of two in use what their
recursive definition means, and which TLC evaluates:

| Theorem | Property |
|---|---|
| `SplitterTypes` | `TypeOK` |
| `FillNeverThrows` | `FillHasRoom` |
| `PartitionsAreTheFile` | `PartsAreFile` |
| `FloatCountsBuffers` | the float quotient in `IterCount` is the quotient of the integers |
| `PartitionsHaveTheSize` | `PartsHaveSize`, if `SizesFitFloat` |
| `SplitIsWhole` | `SplitIsComplete`, if `SizesFitFloat` and `PartsFitFloat` |

The argument comes in stages, each an invariant that rests on the ones before.
What a fill and a seek do to the ring is taken from `CircularBufferProofs`, whose
buffer is shown to be the one of `Spliter` (`SameRing`, `SameFill`).

1. `Inv`, inductive: the buffer is sound (`RingIsSound`), the call works with its
   own parameters (`CallIsSound`), the stream is in this file and ends no earlier
   than the file ever did (`StreamInFile`), and between rounds there is room,
   while in a round the window begins at the read position (`RoundsHaveRoom`).
   The last part is why `tryfill` does not throw, also after a call that failed
   with characters in the buffer.
2. `UnreadIsFile`: the buffer holds what comes next in the file, and what was
   written ends there. `FillHasRoom` is needed for it, or a fill could overwrite.
3. `PartsAreCut`: each partition has what its rounds should have brought, or the
   stream has ended and all of it is written.
4. `PartsAreCounted`: whole partitions are written up to the loop's index.

The two hypotheses say that the sizes, and the files or the numbers of their
partitions, are below the precision of a float. They are needed: section 4 names
the configuration in which TLC refutes the properties without them. `SEGMENT_SIZE`
is 2^23 and a float has 24 bits, so for the buffer the first one holds; it is not
so for partitions of more than 16 MB.

`RecordProofs`, on record streams, from `StreamAssumption` (patterns have two characters at
least, and no `Nul`), for all texts, patterns, get areas and outputs:

| Theorem | Property |
|---|---|
| `StreamTypes` | `TypeOK` |
| `NothingIsTorn` | `PiecesInOrder`, if `OneForm` |
| `RecordsAreTheReference` | `RecordsAreSplit`, if `OneForm` |
| `AllRecordsAreRead` | `NoRecordMissing`, if `OneForm` |
| `DistanceIsTheLastRecord` | `DistanceIsRest`, if `OneForm` |

`OneForm`: each client copies or points and does not do both on one stream. A
client that does both is refuted by TLC (section 4). `Inv` is the conjunction of

* `StreamIsSound`, `CallIsSound`, `NothingBefore`, `CallsAreKept`: types, which
  client is in which call, and that there are no records before the first match;
* `PartIsText`: what was put out of an open record is the text before the read
  position, so that a place, `Behind`, can be given where the record began;
* `PiecesInOrder`, which for texts longer than the get area is all there is;
* `CopiesReference`: the records so far are those of the reference, the next one
  of the reference begins at `Behind`, and no pattern stands between `Behind` and
  the read position. Without the last part a pattern could be passed by while a
  record is gathered in pieces, and the record in the reference end there;
* `PointsToReference`, the same of the second search position.

The reference is a recursive function, which scans the text from left to right.
What it computes is found by induction over the places of the text: the library's
induction theorems cannot be used here, since they take an operator, but that a
set of numbers has a least one can (`LeastOf`, `UpTo`), and the recursion is
proved to define a function in that way. `OccurrencesAreGreedy` says that each
place is the first match behind the one before; `RecordsFollow` turns this into
what a step of the code can use: from the beginning of a record, the next match is
where the reference ends it, and no match means it is the last.

`StrongPtrProofs`, from `NodesAssumption` (finitely many nodes, all different) and
`StrongPtrAssumption`, for any number of pointers, objects and threads:

| Theorem | Property |
|---|---|
| `InvHolds` | `Inv`, the inductive invariant, if `WellUsed` |
| `CopointersTheorem` | `CopointersAgree`, if `WellUsed` |
| `NothingLeaksTheorem` | `NothingLeaks`, if `WellUsed` |

`WellUsed` is said of what clients do: the pointers are used by one thread, or are
strong ones that count; only links are merged, and there are four pointers then at
most; only counts are reset; pointers inside objects come with casts at most.
TLC evaluates it of the clients of the run (`ClientsAreMeant`). Those it keeps out
are not there for convenience: with a weak pointer in a second thread
`strong_threads` finds an object deleted twice, and with a fifth pointer a merge
leaves a cycle that does not lead back (section 4).

`Inv` is the conjunction of

* `CountTypes`, `LinkTypes`, `ClientTypes`;
* `StacksAreSound`, `TemporariesAreSound`: of the frames of a call only the
  innermost is about pointers, the others wait for a destructor; a node is
  destroyed by the thread it belongs to; a temporary lives until it is destroyed;
* `CountsAreSound`: counts agree, a destructor's frame has found out what is still
  so (`FoundOut`), and no two threads have found themselves the last one of an
  object (`LastOnesDiffer`);
* `LinksAreSound`: links agree.

`CountsAgree` needs the frames, because a node that has been counted off is still
there, and `FoundOut` needs `LastOnesDiffer`, or another thread could free the
info block in between. Links need no frames. That a walk along them meets a
closed set of nodes, and comes back, is a matter of counting (`Steps` of as many
nodes as there are must meet one twice, and the first one that it meets twice is
the one it began with); swapping two nodes in any of the six cases renames one
into the other in the cycles they are in. `ObjectsAreKept` is the invariant, above
`Inv`, from which nothing leaks: an allocated object has a pointer that leads to
it or a frame that is about to delete or set it.

`SharedProofs`, from the same assumptions, on top of `Inv`:

| Theorem | Property |
|---|---|
| `RefinementTheorem` | `ImplementsShared`, if `WellUsed` |

It has a lemma per action (`ConstructShared`, ...): it is a step of
`SharedObjects`, or one that leaves the mapped state alone, and it keeps
`Coherent`, which says of objects what `Inv` says of nodes:

* `CareSound`: pointers lead to objects in care; one that is about to be deleted is
  allocated, no pointer leads to it, and one thread deletes it; what `ResetAll` is
  about to set replaces an object that has gone;
* `BlocksSound`: counting pointers that lead to one object share one info block.
  Without it the last strong pointer of a block could doom an object that the
  strong pointers of another block lead to;
* `CyclesSound`: linked ones are one cycle, or two while the client has twins of the
  object (`OneCycle`, `TwoCycles`, which speak of closed sets of nodes, so that no
  step needs an induction along the links). Then the nodes that a release walks
  through are all that lead to the object (`WalkMeets`), and a merge makes one cycle
  of two;
* `TwinsSound`: twins are in care, and no call in progress is about one.

Steps that leave the mapped state alone are those that push and pop frames and those
that read the pointer before it is zapped.

`UtilityProofs`, on lexical functions, from `WordsAssumption` (no word splits an earlier one), for all
texts, delimiters and lists of words:

| Theorem | Property |
|---|---|
| `PiecesTheorem` | `PiecesRestoreText` |
| `EscapeTheorem` | `EscapeRestoresText` |
| `NumberTheorem` | `NumberIsParsed` |

What the client holds is what the last call made of its text (`LexInv`), so these
are statements about operators, and most of the proof is about loops. `FindMeans`
says that `find` returns the first place at or behind the one where it starts, or
-1 if there is none: neither its early skip nor its stepping back passes one by.

* Cutting: the text up to the offset is the pieces, each with a delimiter behind
  (`CutUp`); a round keeps that (`RoundCutsUp`).
* Numbers: each result is ten times the number so far, and none is less than the
  one before, so that if the last fits, all do (`LastIsLargest`).
* Escaping: the text between two words is the client's text with some backslashes
  behind each of its characters (`Spread`, `GapCounts`), and what `find` sees in it
  depends on these counts alone: a word where there are none inside of it
  (`Findable`), an escaped one where there is one behind the first character and
  none later (`Erasable`). `EscapeRoundMeans` and `UnescapeRoundMeans` say that a
  round takes the next such place, so that a list of words has a `History` of
  counts, about which the rest is proved. The induction is on the words as
  `unescape` takes them: before word i only the backslashes of word i and later
  ones are there (`OnlyLater`), so each place word i was escaped at can be taken
  and is; none of them is passed by because the search went on behind an
  overlapping one (`EachPlaceIsTaken`), and nothing else is taken. In the end no
  backslash is left (`NoneIsLeft`), and a text without any is the client's.
  That no word splits an earlier one is used where a later backslash could stand
  inside of an escaped word (`NoneSplit`); without it TLC refutes the property.

Only model-checked: liveness (`CallEnds`, `LauncherReturns`, `ReachesEnd`,
`LimitedCallsEnd`, `DoomedAreDeleted`), for which the prover has no rules.

## 6. Not modelled

* **The rest of Loki**: some thirty thousand lines of template headers (type
  lists, functors, smart pointers, flex strings, factories), nearly all of which
  is computed by the compiler and keeps no state at run time. GAISUtils uses the
  allocator and a factory of fields. Most of the repository's lines are here, so
  that a small share of all lines is modelled.
* **Of the small-object allocator**: the destructors, the threading policies, the
  singleton, and `bad_alloc` out of `TrimChunkList`.
* **Of level mutexes**: the Windows branch, error policies, null or duplicate
  mutexes in a container, failing pthread calls, locks without lockers.
* **Of strong pointers**: checking, conversion and delete policies, and
  comparisons.
* **Of MD5**: what `transform` computes, which is fixed arithmetic, and the
  hexadecimal and raw forms of the digest.
* **Of the lexical utilities**: `coder`, a table look-up, and `random_string`.
* **Record serialisation**: loops over fields without state of their own. What is
  wrong with them is in the table of section 4.
* **The Windows daemon**, whose statements are calls of the service manager; the
  RE2 visitor, type traits and the time zone function, which keep no state; the
  output side of record streams, which passes on to the standard library; the
  values of fields, their comparison and conversion; syslog.
* Undefined behaviour that ends the story: `define_field` without a return
  statement, the mismatch of `new[]` and `free` in `mem_helper.inl`.
