------------------------------ MODULE SmallObj ------------------------------
(***************************************************************************)
(* The small-object allocator of Loki (loki/src/SmallObj.cpp), from which  *)
(* every field of a record and every container with STLSmallObjAllocator   *)
(* gets its memory.  One pool per block size; a pool has a vector of       *)
(* chunks, each of which is an area got from malloc and cut into blocks.   *)
(* The free blocks of a chunk form a list through their first bytes.       *)
(*                                                                         *)
(* A chunk is named by its area, pData_; a pointer to a chunk is its       *)
(* place in the vector, from 1.                                            *)
(***************************************************************************)
EXTENDS Integers, Sequences, FiniteSets

CONSTANTS
  Area,                 \* the areas malloc can give
  Alignment,            \* objectAlignSize_
  MaxObjectSize,        \* maxSmallObjectSize_
  PageSize,             \* the chunk size asked for
  MinObjectsPerChunk, MaxObjectsPerChunk,
  FirstRoom             \* room of a vector that gets its first chunk

ASSUME AllocatorAssumption ==
  /\ Alignment \in Nat \ {0} /\ MaxObjectSize \in Nat \ {0}
  /\ PageSize \in Nat /\ FirstRoom \in Nat \ {0}
  /\ MinObjectsPerChunk \in Nat \ {0}
  /\ MaxObjectsPerChunk \in Nat /\ MinObjectsPerChunk <= MaxObjectsPerChunk

VARIABLES
  chunks,        \* chunks_ of each pool
  room,          \* the capacity of that vector
  allocChunk, deallocChunk, emptyChunk,
  chunk,         \* per area: firstAvailableBlock_, blocksAvailable_ and the
                 \* indexes in the first bytes of the blocks
  large,         \* areas handed out whole, by DefaultAllocator
  retrying,      \* the pool whose allocation is tried a second time, or Null
  holders        \* history: how often a block is handed out at present

poolVars == <<chunks, room, allocChunk, deallocChunk, emptyChunk>>
vars == <<poolVars, chunk, large, retrying, holders>>

Null == 0
Wild == -1   \* where no chunk of the vector is

GetOffset(numBytes) == (numBytes + Alignment - 1) \div Alignment
Pools == 1 .. GetOffset(MaxObjectSize)
Slot == 0 .. MaxObjectsPerChunk - 1

(* FixedAllocator::Initialize                                              *)
NumBlocks(p) ==
  LET n == PageSize \div (p * Alignment)
  IN  IF n > MaxObjectsPerChunk THEN MaxObjectsPerChunk
      ELSE IF n < MinObjectsPerChunk THEN MinObjectsPerChunk ELSE n

PoolOf(numBytes) == GetOffset(IF numBytes = 0 THEN 1 ELSE numBytes)

-----------------------------------------------------------------------------
(* Chunks.                                                                 *)

Reset(p) ==
  [first |-> 0, avail |-> NumBlocks(p), next |-> [i \in Slot |-> i + 1]]

(* From now on the first byte of the block is the client's, and so of no   *)
(* interest.                                                               *)
Allocated(c) ==
  [first |-> c.next[c.first], avail |-> c.avail - 1,
   next |-> [c.next EXCEPT ![c.first] = 0]]

(* Wrong variant: the rest of the list is forgotten.                       *)
Deallocated_Unlinked(c, i) == [c EXCEPT !.first = i, !.avail = c.avail + 1]

Deallocated(c, i) ==
  [first |-> i, avail |-> c.avail + 1, next |-> [c.next EXCEPT ![i] = c.first]]

(* An area that is not the allocator's.                                    *)
NoChunk == [first |-> 0, avail |-> 0, next |-> [i \in Slot |-> 0]]

IsFilled(c) == c.avail = 0
HasAvailable(c, p) == c.avail = NumBlocks(p)

Areas(p) == {chunks[p][k] : k \in DOMAIN chunks[p]}
Memory == large \cup UNION {Areas(p) : p \in Pools}
At(p, k) == chunk[chunks[p][k]]
Last(p) == Len(chunks[p])

Init ==
  /\ chunks = [p \in Pools |-> <<>>]
  /\ room = [p \in Pools |-> 0]
  /\ allocChunk = [p \in Pools |-> Null]
  /\ deallocChunk = [p \in Pools |-> Null]
  /\ emptyChunk = [p \in Pools |-> Null]
  /\ chunk = [a \in Area |-> NoChunk]
  /\ large = {}
  /\ retrying = Null
  /\ holders = [b \in Area \X Slot |-> 0]

-----------------------------------------------------------------------------
(* FixedAllocator::Allocate                                                *)

HandOut(a, c) ==
  /\ chunk' = [chunk EXCEPT ![a] = Allocated(c)]
  /\ holders' = [holders EXCEPT ![<<a, c.first>>] = @ + 1]

(* allocChunk_ is no chunk to allocate from.  To read through a wild one   *)
(* ends the program.                                                       *)
NoAllocChunk(p) ==
  /\ allocChunk[p] # Wild
  /\ allocChunk[p] # Null => IsFilled(At(p, allocChunk[p]))

AllocateHere(p) ==
  /\ retrying = Null
  /\ allocChunk[p] \notin {Null, Wild} /\ ~IsFilled(At(p, allocChunk[p]))
  /\ emptyChunk' = [emptyChunk EXCEPT ![p] =
                      IF @ = allocChunk[p] THEN Null ELSE @]
  /\ HandOut(chunks[p][allocChunk[p]], At(p, allocChunk[p]))
  /\ UNCHANGED <<chunks, room, allocChunk, deallocChunk, large, retrying>>

AllocateFromEmpty(p) ==
  /\ retrying = Null
  /\ NoAllocChunk(p) /\ emptyChunk[p] # Null
  /\ allocChunk' = [allocChunk EXCEPT ![p] = emptyChunk[p]]
  /\ emptyChunk' = [emptyChunk EXCEPT ![p] = Null]
  /\ HandOut(chunks[p][emptyChunk[p]], At(p, emptyChunk[p]))
  /\ UNCHANGED <<chunks, room, deallocChunk, large, retrying>>

(* The first chunk with a free block.                                      *)
AllocateFromOther(p) ==
  /\ retrying = Null
  /\ NoAllocChunk(p) /\ emptyChunk[p] = Null
  /\ \E k \in DOMAIN chunks[p] :
       /\ ~IsFilled(At(p, k))
       /\ \A j \in 1 .. k - 1 : IsFilled(At(p, j))
       /\ allocChunk' = [allocChunk EXCEPT ![p] = k]
       /\ HandOut(chunks[p][k], At(p, k))
  /\ UNCHANGED <<chunks, room, deallocChunk, emptyChunk, large,
                 retrying>>

AllFilled(p) ==
  /\ NoAllocChunk(p) /\ emptyChunk[p] = Null
  /\ \A k \in DOMAIN chunks[p] : IsFilled(At(p, k))

(* The vector's capacity after chunks_.reserve.                            *)
Reserved(p) ==
  IF room[p] # Last(p) THEN room[p]
  ELSE IF Last(p) = 0 THEN FirstRoom ELSE 2 * Last(p)

(* MakeNewChunk, and a block of the new chunk.                             *)
AllocateFromNew(p, a) ==
  /\ retrying \in {Null, p}
  /\ AllFilled(p) /\ a \notin Memory
  /\ room' = [room EXCEPT ![p] = Reserved(p)]
  /\ chunks' = [chunks EXCEPT ![p] = Append(@, a)]
  /\ allocChunk' = [allocChunk EXCEPT ![p] = Last(p) + 1]
  /\ deallocChunk' = [deallocChunk EXCEPT ![p] = 1]
  /\ HandOut(a, Reset(p))
  /\ retrying' = Null
  /\ UNCHANGED <<emptyChunk, large>>

-----------------------------------------------------------------------------
(* Trimming, which clients may ask for, and a failed allocation does.      *)

(* s with its k-th element replaced by the last one, which is cut off:     *)
(* std::swap and pop_back.                                                 *)
Swapped(s, k) == SubSeq([s EXCEPT ![k] = s[Len(s)]], 1, Len(s) - 1)

(* Wrong variant: the last chunk goes, whatever chunk is empty.            *)
Trimmed_Last(p) ==
  IF emptyChunk[p] = Null THEN chunks[p]
  ELSE SubSeq(chunks[p], 1, Last(p) - 1)

(* TrimEmptyChunk: the empty chunk is given back to the system.            *)
Trimmed(p) ==
  IF emptyChunk[p] = Null THEN chunks[p] ELSE Swapped(chunks[p], emptyChunk[p])

Released(p) ==
  IF emptyChunk[p] = Null THEN {} ELSE {chunks[p][emptyChunk[p]]}

(* TrimEmptyChunk, where the other two pointers lead to it, and then       *)
(* TrimChunkList, which sets both to the ends of the vector.               *)
TrimAll(rm) ==
  /\ chunks' = [p \in Pools |-> Trimmed(p)]
  /\ emptyChunk' = [p \in Pools |-> Null]
  /\ room' = [p \in Pools |-> Len(Trimmed(p))]
  /\ LET shrinks(p) == rm[p] # Len(Trimmed(p))
     IN  /\ allocChunk' = [p \in Pools |->
              IF ~shrinks(p) THEN allocChunk[p]
              ELSE IF Trimmed(p) = <<>> THEN Wild ELSE Len(Trimmed(p))]
         /\ deallocChunk' = [p \in Pools |->
              IF ~shrinks(p) THEN deallocChunk[p]
              ELSE IF Trimmed(p) = <<>> THEN Null ELSE 1]
  /\ chunk' = [a \in Area |->
       IF \E p \in Pools : a \in Released(p) THEN NoChunk ELSE chunk[a]]
  /\ UNCHANGED <<large, holders>>

TrimExcessMemory ==
  /\ retrying = Null
  /\ TrimAll(room)
  /\ UNCHANGED retrying

(* MakeNewChunk fails, in chunks_.reserve or only in malloc.               *)
RoomAfterFailure(p) == {room, [room EXCEPT ![p] = Reserved(p)]}

FirstTryFails(p) ==
  /\ retrying = Null /\ AllFilled(p)
  /\ \E rm \in RoomAfterFailure(p) :
       /\ \E q \in Pools : emptyChunk[q] # Null \/ rm[q] # Len(Trimmed(q))
       /\ TrimAll(rm)
  /\ retrying' = p

(* Where a pointer leads when the vector has moved to a larger array, which *)
(* frees the old one.                                                      *)
Dangling(k) == IF k = Null THEN Null ELSE Wild

(* No TrimChunkList follows to set the two pointers right.                 *)
SecondTryFails(p) ==
  /\ retrying = p /\ AllFilled(p)
  /\ room' \in RoomAfterFailure(p)
  /\ IF room' = room THEN UNCHANGED <<allocChunk, deallocChunk>>
     ELSE /\ allocChunk' = [allocChunk EXCEPT ![p] = Dangling(@)]
          /\ deallocChunk' = [deallocChunk EXCEPT ![p] = Dangling(@)]
  /\ retrying' = Null
  /\ UNCHANGED <<chunks, emptyChunk, chunk, large, holders>>

-----------------------------------------------------------------------------
(* FixedAllocator::Deallocate                                              *)

(* From deallocChunk_ on, in both directions at once.                      *)
VicinityFind(p, a) ==
  LET down == 1 .. deallocChunk[p]
      up == deallocChunk[p] + 1 .. Last(p)
  IN  {k \in down \cup up : chunks[p][k] = a}

(* A second chunk, the k-th, got empty: the place of the one that goes.    *)
Goes(p, k) == IF k = Last(p) THEN k ELSE emptyChunk[p]

WithoutEmpty(p, k) == Swapped(chunks[p], Goes(p, k))

(* The chunk after it took back its block i.                               *)
After(p, k, i) == Deallocated(At(p, k), i)

TakeBack(p, k, i) ==
  /\ holders' = [holders EXCEPT ![<<chunks[p][k], i>>] = @ - 1]
  /\ UNCHANGED <<room, large, retrying>>

(* DoDeallocate: the chunk does not get empty.                             *)
StillUsed(p, k, i) ==
  /\ ~HasAvailable(After(p, k, i), p)
  /\ chunk' = [chunk EXCEPT ![chunks[p][k]] = After(p, k, i)]
  /\ deallocChunk' = [deallocChunk EXCEPT ![p] = k]
  /\ TakeBack(p, k, i)
  /\ UNCHANGED <<chunks, allocChunk, emptyChunk>>

(* It is the only empty chunk.                                             *)
FirstEmpty(p, k, i) ==
  /\ HasAvailable(After(p, k, i), p) /\ emptyChunk[p] = Null
  /\ chunk' = [chunk EXCEPT ![chunks[p][k]] = After(p, k, i)]
  /\ deallocChunk' = [deallocChunk EXCEPT ![p] = k]
  /\ emptyChunk' = [emptyChunk EXCEPT ![p] = k]
  /\ TakeBack(p, k, i)
  /\ UNCHANGED <<chunks, allocChunk>>

(* Wrong variant: allocChunk_ stays, even on the chunk that went.          *)
SecondEmpty_AllocStays(p, k, i) ==
  /\ HasAvailable(After(p, k, i), p) /\ emptyChunk[p] # Null
  /\ chunks' = [chunks EXCEPT ![p] = WithoutEmpty(p, k)]
  /\ chunk' = [chunk EXCEPT ![chunks[p][k]] = After(p, k, i),
                            ![chunks[p][Goes(p, k)]] = NoChunk]
  /\ deallocChunk' = [deallocChunk EXCEPT ![p] =
                        IF k = Last(p) THEN emptyChunk[p] ELSE k]
  /\ emptyChunk' = [emptyChunk EXCEPT ![p] = deallocChunk'[p]]
  /\ TakeBack(p, k, i)
  /\ UNCHANGED allocChunk

(* There was another one: one of the two is given back to the system.      *)
SecondEmpty(p, k, i) ==
  /\ HasAvailable(After(p, k, i), p) /\ emptyChunk[p] # Null
  /\ allocChunk[p] # Wild
  /\ chunks' = [chunks EXCEPT ![p] = WithoutEmpty(p, k)]
  /\ chunk' = [chunk EXCEPT ![chunks[p][k]] = After(p, k, i),
                            ![chunks[p][Goes(p, k)]] = NoChunk]
  /\ deallocChunk' = [deallocChunk EXCEPT ![p] =
                        IF k = Last(p) THEN emptyChunk[p] ELSE k]
  /\ allocChunk' = [allocChunk EXCEPT ![p] =
                      IF @ = Last(p) \/ IsFilled(chunk'[chunks'[p][@]])
                      THEN deallocChunk'[p] ELSE @]
  /\ emptyChunk' = [emptyChunk EXCEPT ![p] = deallocChunk'[p]]
  /\ TakeBack(p, k, i)

DoDeallocate(p, k, i) ==
  StillUsed(p, k, i) \/ FirstEmpty(p, k, i) \/ SecondEmpty(p, k, i)

(* Deallocate(p, numBytes), with the size the block was asked for.         *)
Deallocate(p, a, i) ==
  /\ retrying = Null
  /\ a \in Areas(p) /\ holders[<<a, i>>] > 0
  /\ deallocChunk[p] # Wild
  /\ \E k \in VicinityFind(p, a) : DoDeallocate(p, k, i)

(* Deallocate(p): every pool is asked for the block.                       *)
DeallocateUnsized(a, i) ==
  /\ retrying = Null /\ holders[<<a, i>>] > 0
  /\ \E p \in Pools : \E k \in DOMAIN chunks[p] :
       chunks[p][k] = a /\ DoDeallocate(p, k, i)

-----------------------------------------------------------------------------
(* Objects larger than MaxObjectSize come from malloc one by one.          *)

DefaultAllocator(a) ==
  /\ retrying = Null /\ a \notin Memory
  /\ large' = large \cup {a}
  /\ holders' = [holders EXCEPT ![<<a, 0>>] = @ + 1]
  /\ UNCHANGED <<poolVars, chunk, retrying>>

DefaultDeallocator(a) ==
  /\ retrying = Null /\ a \in large
  /\ large' = large \ {a}
  /\ holders' = [holders EXCEPT ![<<a, 0>>] = @ - 1]
  /\ UNCHANGED <<poolVars, chunk, retrying>>

-----------------------------------------------------------------------------
Allocate(p) ==
  \/ AllocateHere(p) \/ AllocateFromEmpty(p) \/ AllocateFromOther(p)
  \/ \E a \in Area : AllocateFromNew(p, a)
  \/ FirstTryFails(p) \/ SecondTryFails(p)

Next ==
  \/ \E numBytes \in 0 .. MaxObjectSize : Allocate(PoolOf(numBytes))
  \/ \E p \in Pools, a \in Area, i \in Slot : Deallocate(p, a, i)
  \/ \E a \in Area, i \in Slot : DeallocateUnsized(a, i)
  \/ \E a \in Area : DefaultAllocator(a) \/ DefaultDeallocator(a)
  \/ TrimExcessMemory

Spec == Init /\ [][Next]_vars

-----------------------------------------------------------------------------
Chunk == [first : Nat, avail : Nat, next : [Slot -> Nat]]

TypeOK ==
  /\ chunks \in [Pools -> Seq(Area)]
  /\ room \in [Pools -> Nat]
  /\ allocChunk \in [Pools -> Nat \cup {Wild}]
  /\ deallocChunk \in [Pools -> Nat \cup {Wild}] /\ emptyChunk \in [Pools -> Nat]
  /\ chunk \in [Area -> Chunk]
  /\ large \subseteq Area
  /\ retrying \in Pools \cup {Null}
  /\ holders \in [Area \X Slot -> Nat]

(* No area is in two places: two chunks, two pools, or handed out whole.   *)
AreasDiffer ==
  /\ \A p, q \in Pools : \A j \in DOMAIN chunks[p], k \in DOMAIN chunks[q] :
       chunks[p][j] = chunks[q][k] => p = q /\ j = k
  /\ \A p \in Pools : Areas(p) \cap large = {}

(* SmallObj.cpp:154-163, class level invariants: at most one chunk of a    *)
(* pool is empty, and emptyChunk_ points to it; the other two pointers     *)
(* point to chunks of the pool, if there are any, however chunks are       *)
(* swapped, trimmed and appended: until an allocation fails twice.         *)
PointersTell ==
  \A p \in Pools :
    /\ \A k \in DOMAIN chunks[p] : HasAvailable(At(p, k), p) <=> k = emptyChunk[p]
    /\ emptyChunk[p] \in 0 .. Last(p)
    /\ chunks[p] # <<>> =>
         {allocChunk[p], deallocChunk[p]} \subseteq DOMAIN chunks[p] \cup {Wild}

Free(p, a) == {i \in 0 .. NumBlocks(p) - 1 : holders[<<a, i>>] = 0}

(* Chunk::IsCorrupt finds nothing in the chunk c of n blocks, and the list *)
(* it walks along has just the blocks of the set free.                     *)
Chained(c, n, free) ==
  \E walk \in [1 .. c.avail -> 0 .. n - 1] :
    /\ c.avail > 0 => walk[1] = c.first
    /\ \A j \in 1 .. c.avail - 1 : walk[j + 1] = c.next[walk[j]]
    /\ \A j, k \in 1 .. c.avail : walk[j] = walk[k] => j = k
    /\ {walk[j] : j \in 1 .. c.avail} = free

(* SmallObj.cpp:61-65: the free blocks of every chunk hang together, none  *)
(* is missing, none twice, through any order of allocations and            *)
(* deallocations, whatever chunks come and go.                             *)
FreeListsIntact ==
  \A p \in Pools : \A a \in Areas(p) :
    Chained(chunk[a], NumBlocks(p), Free(p, a))

H == INSTANCE Heap WITH memory <- Memory

(* No block is handed out twice, and no memory is given back to the system *)
(* under a block that is held.                                             *)
ImplementsHeap == H!Spec

(* SmallObj.cpp:158-159: if the chunk container is empty, then             *)
(* deallocChunk_ and allocChunk_ are NULL.                                 *)
NullWhenEmpty ==
  \A p \in Pools :
    chunks[p] = <<>> => allocChunk[p] = Null /\ deallocChunk[p] = Null
(* SmallObj.cpp:164-165: if the chunk container is not empty, they are     *)
(* NULL or point to chunks in it.                                          *)
InsideWhenNot ==
  \A p \in Pools :
    chunks[p] # <<>> =>
      {allocChunk[p], deallocChunk[p]} \subseteq DOMAIN chunks[p] \cup {Null}
=============================================================================
