--------------------------- MODULE SmallObjProofs ---------------------------
(***************************************************************************)
(* Theorems about the small-object allocator, for any number of areas,     *)
(* pools and blocks per chunk.                                             *)
(***************************************************************************)
EXTENDS SmallObj, FiniteSetTheorems, TLAPS

USE AllocatorAssumption

-----------------------------------------------------------------------------
(* Numbers.                                                                *)

LEMMA QuotientIsNat ==
  ASSUME NEW a \in Nat, NEW b \in Nat \ {0} PROVE a \div b \in Nat
  BY SMT

LEMMA QuotientGrows ==
  ASSUME NEW a \in Nat, NEW b \in Nat \ {0}, NEW c \in Nat, a <= c
  PROVE  a \div b <= c \div b
  BY SMT

LEMMA QuotientPositive ==
  ASSUME NEW a \in Nat, NEW b \in Nat \ {0}, a >= b PROVE a \div b >= 1
  BY SMT

(* Pools are numbered from one.                                            *)
LEMMA PoolsArePositive == Pools \subseteq Nat \ {0}
  <1>1. MaxObjectSize + Alignment - 1 \in Nat OBVIOUS
  <1>2. GetOffset(MaxObjectSize) \in Nat
    BY <1>1, QuotientIsNat DEF GetOffset
  <1> QED BY <1>2 DEF Pools

(* Every chunk has at least one block and at most the largest number.      *)
LEMMA NumBlocksRange ==
  ASSUME NEW p \in Pools
  PROVE  NumBlocks(p) \in 1 .. MaxObjectsPerChunk
  <1>1. p * Alignment \in Nat \ {0} BY PoolsArePositive
  <1>2. PageSize \div (p * Alignment) \in Nat BY <1>1, QuotientIsNat
  <1> DEFINE n == PageSize \div (p * Alignment)
  <1>3. n \in Nat BY <1>2
  <1> HIDE DEF n
  <1>4. NumBlocks(p) = IF n > MaxObjectsPerChunk THEN MaxObjectsPerChunk
                       ELSE IF n < MinObjectsPerChunk THEN MinObjectsPerChunk
                       ELSE n
    BY DEF NumBlocks, n
  <1> QED BY <1>3, <1>4

(* A small size leads to a pool.                                           *)
LEMMA PoolOfRange ==
  ASSUME NEW numBytes \in 0 .. MaxObjectSize
  PROVE  PoolOf(numBytes) \in Pools
  <1> DEFINE m == IF numBytes = 0 THEN 1 ELSE numBytes
  <1>1. m \in 1 .. MaxObjectSize OBVIOUS
  <1> HIDE DEF m
  <1>2. /\ m + Alignment - 1 \in Nat /\ m + Alignment - 1 >= Alignment
        /\ MaxObjectSize + Alignment - 1 \in Nat
        /\ m + Alignment - 1 <= MaxObjectSize + Alignment - 1
    BY <1>1
  <1>3. GetOffset(m) \in Nat /\ GetOffset(MaxObjectSize) \in Nat
    BY <1>2, QuotientIsNat DEF GetOffset
  <1>4. GetOffset(m) >= 1 BY <1>2, QuotientPositive DEF GetOffset
  <1>5. GetOffset(m) <= GetOffset(MaxObjectSize)
    BY <1>2, QuotientGrows DEF GetOffset
  <1>6. PoolOf(numBytes) = GetOffset(m) BY DEF PoolOf, m
  <1> QED BY <1>3, <1>4, <1>5, <1>6 DEF Pools

-----------------------------------------------------------------------------
(* Free lists.                                                             *)

Size == 1 .. MaxObjectsPerChunk

LEMMA SizeFromOne ==
  ASSUME NEW n \in Nat
  PROVE  IsFiniteSet(1 .. n) /\ Cardinality(1 .. n) = n
  <1>1. 1 \in Int /\ n \in Int OBVIOUS
  <1> QED BY <1>1, FS_Interval, SMT

LEMMA SizeFromZero ==
  ASSUME NEW n \in Nat \ {0}
  PROVE  IsFiniteSet(0 .. n - 1) /\ Cardinality(0 .. n - 1) = n
  <1> DEFINE m == n - 1
  <1>1. 0 \in Int /\ m \in Int /\ ~(0 > m) /\ m - 0 + 1 = n OBVIOUS
  <1> HIDE DEF m
  <1>2. /\ IsFiniteSet(0 .. m)
        /\ Cardinality(0 .. m) = IF 0 > m THEN 0 ELSE m - 0 + 1
    BY <1>1, FS_Interval, Zenon
  <1> QED BY <1>1, <1>2 DEF m

(* A chunk has at most all its blocks free, and if it counts all of them,  *)
(* all are.                                                                *)
LEMMA ChainBound ==
  ASSUME NEW c \in Chunk, NEW n \in Size, NEW F, Chained(c, n, F)
  PROVE  /\ c.avail <= n /\ F \subseteq 0 .. n - 1
         /\ c.avail = n => F = 0 .. n - 1
  <1>1. PICK walk \in [1 .. c.avail -> 0 .. n - 1] :
          /\ \A j, k \in 1 .. c.avail : walk[j] = walk[k] => j = k
          /\ {walk[j] : j \in 1 .. c.avail} = F
    BY DEF Chained
  <1>2. c.avail \in Nat /\ n \in Nat BY DEF Chunk, Size
  <1>3. walk \in Injection(1 .. c.avail, 0 .. n - 1)
    BY <1>1 DEF Injection, IsInjective
  <1>4. /\ IsFiniteSet(0 .. n - 1) /\ Cardinality(0 .. n - 1) = n
        /\ Cardinality(1 .. c.avail) = c.avail
    <2>1. n \in Nat \ {0} BY DEF Size
    <2> QED BY <1>2, <2>1, SizeFromOne, SizeFromZero
  <1>5. /\ Cardinality(1 .. c.avail) <= Cardinality(0 .. n - 1)
        /\ Cardinality(1 .. c.avail) = Cardinality(0 .. n - 1)
             <=> walk \in Surjection(1 .. c.avail, 0 .. n - 1)
    BY <1>3, <1>4, FS_Injection
  <1>6. ASSUME walk \in Surjection(1 .. c.avail, 0 .. n - 1)
        PROVE  F = 0 .. n - 1
    <2>1. \A i \in 0 .. n - 1 : \E j \in 1 .. c.avail : walk[j] = i
      BY <1>6 DEF Surjection
    <2>2. 0 .. n - 1 \subseteq F BY <2>1, <1>1
    <2>3. F \subseteq 0 .. n - 1 BY <1>1
    <2> QED BY <2>2, <2>3
  <1> QED BY <1>1, <1>4, <1>5, <1>6

(* Taking the first block leaves the rest of the list.                     *)
LEMMA AllocatedChain ==
  ASSUME NEW c \in Chunk, NEW n \in Size, NEW F, Chained(c, n, F), c.avail # 0
  PROVE  /\ c.first \in F /\ c.first \in 0 .. n - 1
         /\ Allocated(c) \in Chunk
         /\ Allocated(c).avail = c.avail - 1
         /\ Chained(Allocated(c), n, F \ {c.first})
  <1>1. PICK walk \in [1 .. c.avail -> 0 .. n - 1] :
          /\ c.avail > 0 => walk[1] = c.first
          /\ \A j \in 1 .. c.avail - 1 : walk[j + 1] = c.next[walk[j]]
          /\ \A j, k \in 1 .. c.avail : walk[j] = walk[k] => j = k
          /\ {walk[j] : j \in 1 .. c.avail} = F
    BY DEF Chained
  <1>2. /\ c.avail \in Nat \ {0} /\ n \in Nat \ {0}
        /\ 0 .. n - 1 \subseteq Slot /\ 0 .. n - 1 \subseteq Nat
    BY DEF Chunk, Size, Slot
  <1>3. walk[1] = c.first /\ c.first \in F /\ c.first \in 0 .. n - 1
    BY <1>1, <1>2
  <1> DEFINE d == Allocated(c)
  <1>4. /\ d.first = c.next[c.first] /\ d.avail = c.avail - 1
        /\ d.next = [c.next EXCEPT ![c.first] = 0]
    BY DEF Allocated, Chunk
  <1>5. d \in Chunk
    <2>1. c.next[c.first] \in Nat BY <1>2, <1>3 DEF Chunk
    <2>2. c.avail - 1 \in Nat BY <1>2
    <2>3. [c.next EXCEPT ![c.first] = 0] \in [Slot -> Nat] BY DEF Chunk
    <2> QED BY <2>1, <2>2, <2>3 DEF Allocated, Chunk
  <1> DEFINE w == [j \in 1 .. d.avail |-> walk[j + 1]]
  <1>6. \A j \in 1 .. d.avail : j + 1 \in 1 .. c.avail /\ j + 1 # 1
    BY <1>2, <1>4
  <1>7. w \in [1 .. d.avail -> 0 .. n - 1] BY <1>6
  <1>8. \A j \in 1 .. d.avail : w[j] # c.first
    <2> SUFFICES ASSUME NEW j \in 1 .. d.avail PROVE w[j] # c.first
      OBVIOUS
    <2>1. j + 1 \in 1 .. c.avail /\ j + 1 # 1 /\ 1 \in 1 .. c.avail
      BY <1>2, <1>6
    <2>2. walk[j + 1] # walk[1] BY <1>1, <2>1
    <2>3. w[j] = walk[j + 1] OBVIOUS
    <2> QED BY <2>2, <2>3, <1>3
  <1>9. d.avail > 0 => w[1] = d.first
    <2> SUFFICES ASSUME d.avail > 0 PROVE w[1] = d.first OBVIOUS
    <2>1. 1 \in 1 .. c.avail - 1 /\ 1 \in 1 .. d.avail BY <1>2, <1>4
    <2>2. walk[1 + 1] = c.next[walk[1]] BY <1>1, <2>1
    <2> QED BY <2>1, <2>2, <1>3, <1>4
  <1>10. \A j \in 1 .. d.avail - 1 : w[j + 1] = d.next[w[j]]
    <2> SUFFICES ASSUME NEW j \in 1 .. d.avail - 1
                 PROVE  w[j + 1] = d.next[w[j]]
      OBVIOUS
    <2>1. /\ j \in 1 .. d.avail /\ j + 1 \in 1 .. d.avail
          /\ j + 1 \in 1 .. c.avail - 1
      BY <1>2, <1>4
    <2>2. walk[(j + 1) + 1] = c.next[walk[j + 1]] BY <1>1, <2>1
    <2>3. w[j] \in Slot BY <1>7, <1>2, <2>1
    <2>4. d.next[w[j]] = c.next[w[j]]
      BY <1>4, <1>8, <2>1, <2>3 DEF Chunk
    <2> QED BY <2>1, <2>2, <2>4
  <1>11. \A j, k \in 1 .. d.avail : w[j] = w[k] => j = k
    <2> SUFFICES ASSUME NEW j \in 1 .. d.avail, NEW k \in 1 .. d.avail,
                        w[j] = w[k]
                 PROVE  j = k
      OBVIOUS
    <2>1. walk[j + 1] = walk[k + 1] OBVIOUS
    <2>2. j + 1 \in 1 .. c.avail /\ k + 1 \in 1 .. c.avail BY <1>6
    <2>3. j + 1 = k + 1 BY <1>1, <2>1, <2>2
    <2> QED BY <2>3, <1>2, <1>4
  <1>12. {w[j] : j \in 1 .. d.avail} = F \ {c.first}
    <2>1. ASSUME NEW x \in F \ {c.first}
          PROVE  \E j \in 1 .. d.avail : w[j] = x
      <3>1. PICK j \in 1 .. c.avail : walk[j] = x BY <1>1
      <3>2. j # 1 BY <3>1, <1>3
      <3>3. j - 1 \in 1 .. d.avail /\ (j - 1) + 1 = j BY <1>2, <1>4, <3>2
      <3> QED BY <3>1, <3>3
    <2>2. ASSUME NEW j \in 1 .. d.avail PROVE w[j] \in F \ {c.first}
      BY <1>1, <1>6, <1>8
    <2>3. {w[j] : j \in 1 .. d.avail} \subseteq F \ {c.first} BY <2>2
    <2>4. F \ {c.first} \subseteq {w[j] : j \in 1 .. d.avail} BY <2>1
    <2> QED BY <2>3, <2>4
  <1>13. Chained(d, n, F \ {c.first})
    BY <1>7, <1>9, <1>10, <1>11, <1>12 DEF Chained
  <1> QED BY <1>3, <1>4, <1>5, <1>13

(* A block that comes back is the first of the list.                       *)
LEMMA DeallocatedChain ==
  ASSUME NEW c \in Chunk, NEW n \in Size, NEW F, Chained(c, n, F),
         NEW i \in 0 .. n - 1, i \notin F
  PROVE  /\ Deallocated(c, i) \in Chunk
         /\ Deallocated(c, i).avail = c.avail + 1
         /\ Chained(Deallocated(c, i), n, F \cup {i})
  <1>1. PICK walk \in [1 .. c.avail -> 0 .. n - 1] :
          /\ c.avail > 0 => walk[1] = c.first
          /\ \A j \in 1 .. c.avail - 1 : walk[j + 1] = c.next[walk[j]]
          /\ \A j, k \in 1 .. c.avail : walk[j] = walk[k] => j = k
          /\ {walk[j] : j \in 1 .. c.avail} = F
    BY DEF Chained
  <1>2. /\ c.avail \in Nat /\ n \in Nat \ {0}
        /\ 0 .. n - 1 \subseteq Slot /\ 0 .. n - 1 \subseteq Nat
    BY DEF Chunk, Size, Slot
  <1> DEFINE d == Deallocated(c, i)
  <1>3. /\ d.first = i /\ d.avail = c.avail + 1
        /\ d.next = [c.next EXCEPT ![i] = c.first]
        /\ d \in Chunk
    <2>1. /\ i \in Nat /\ c.avail + 1 \in Nat
          /\ [c.next EXCEPT ![i] = c.first] \in [Slot -> Nat]
      BY <1>2 DEF Chunk
    <2> QED BY <2>1 DEF Deallocated, Chunk
  <1> DEFINE w == [j \in 1 .. d.avail |-> IF j = 1 THEN i ELSE walk[j - 1]]
  <1>4. \A j \in 1 .. d.avail : j # 1 => j - 1 \in 1 .. c.avail
    BY <1>2, <1>3
  <1>5. w \in [1 .. d.avail -> 0 .. n - 1] BY <1>4
  <1>6. \A j \in 1 .. c.avail : walk[j] # i BY <1>1
  <1>7. d.avail > 0 /\ 1 \in 1 .. d.avail /\ w[1] = d.first
    BY <1>2, <1>3
  <1>8. \A j \in 1 .. d.avail - 1 : w[j + 1] = d.next[w[j]]
    <2> SUFFICES ASSUME NEW j \in 1 .. d.avail - 1
                 PROVE  w[j + 1] = d.next[w[j]]
      OBVIOUS
    <2>1. /\ j + 1 \in 1 .. d.avail /\ j + 1 # 1 /\ (j + 1) - 1 = j
          /\ j \in 1 .. d.avail /\ j \in 1 .. c.avail
      BY <1>2, <1>3
    <2>2. w[j + 1] = walk[j] BY <2>1
    <2>3. CASE j = 1
      <3>1. w[j] = i /\ d.next[i] = c.first
        BY <1>2, <1>3, <2>1, <2>3 DEF Chunk
      <3>2. walk[j] = c.first BY <1>1, <1>2, <2>1, <2>3
      <3> QED BY <2>2, <3>1, <3>2
    <2>4. CASE j # 1
      <3>1. j - 1 \in 1 .. c.avail - 1 /\ (j - 1) + 1 = j /\ j - 1 \in 1 .. c.avail
        BY <2>1, <2>4, <1>2
      <3>2. w[j] = walk[j - 1] BY <2>1, <2>4
      <3>3. walk[j] = c.next[walk[j - 1]] BY <1>1, <3>1
      <3>4. walk[j - 1] # i /\ walk[j - 1] \in Slot BY <1>6, <3>1, <1>2
      <3>5. d.next[walk[j - 1]] = c.next[walk[j - 1]]
        BY <3>4, <1>3 DEF Chunk
      <3> QED BY <2>2, <3>2, <3>3, <3>5
    <2> QED BY <2>3, <2>4
  <1>9. \A j, k \in 1 .. d.avail : w[j] = w[k] => j = k
    <2> SUFFICES ASSUME NEW j \in 1 .. d.avail, NEW k \in 1 .. d.avail,
                        w[j] = w[k]
                 PROVE  j = k
      OBVIOUS
    <2>1. CASE j = 1 /\ k = 1 BY <2>1
    <2>2. CASE j = 1 /\ k # 1 BY <2>2, <1>4, <1>6
    <2>3. CASE j # 1 /\ k = 1 BY <2>3, <1>4, <1>6
    <2>4. CASE j # 1 /\ k # 1
      <3>1. j - 1 \in 1 .. c.avail /\ k - 1 \in 1 .. c.avail BY <2>4, <1>4
      <3>2. walk[j - 1] = walk[k - 1] BY <2>4
      <3>3. j - 1 = k - 1 BY <1>1, <3>1, <3>2
      <3> QED BY <3>3, <1>2, <1>3
    <2> QED BY <2>1, <2>2, <2>3, <2>4
  <1>10. {w[j] : j \in 1 .. d.avail} = F \cup {i}
    <2>1. ASSUME NEW x \in F PROVE \E j \in 1 .. d.avail : w[j] = x
      <3>1. PICK j \in 1 .. c.avail : walk[j] = x BY <1>1
      <3>2. j + 1 \in 1 .. d.avail /\ j + 1 # 1 /\ (j + 1) - 1 = j
        BY <1>2, <1>3
      <3> QED BY <3>1, <3>2
    <2>2. ASSUME NEW j \in 1 .. d.avail PROVE w[j] \in F \cup {i}
      BY <1>1, <1>4
    <2>3. {w[j] : j \in 1 .. d.avail} \subseteq F \cup {i} BY <2>2
    <2>4. F \cup {i} \subseteq {w[j] : j \in 1 .. d.avail}
      BY ZenonT(40), <2>1, <1>3, <1>7
    <2> QED BY <2>3, <2>4
  <1>11. Chained(d, n, F \cup {i})
    BY <1>5, <1>7, <1>8, <1>9, <1>10 DEF Chained
  <1> QED BY <1>3, <1>11

(* All blocks of a new chunk are free.                                     *)
LEMMA ResetChain ==
  ASSUME NEW p \in Pools
  PROVE  /\ Reset(p) \in Chunk /\ Reset(p).avail = NumBlocks(p)
         /\ Reset(p).avail # 0
         /\ Chained(Reset(p), NumBlocks(p), 0 .. NumBlocks(p) - 1)
  <1> DEFINE n == NumBlocks(p)
             c == Reset(p)
             w == [j \in 1 .. c.avail |-> j - 1]
  <1>1. n \in Nat \ {0} /\ 0 .. n - 1 \subseteq Slot
    BY NumBlocksRange DEF Slot
  <1>2. /\ c.first = 0 /\ c.avail = n /\ c.next = [i \in Slot |-> i + 1]
        /\ c \in Chunk
    BY <1>1 DEF Reset, Chunk, Slot
  <1> HIDE DEF n, c
  <1>3. w \in [1 .. c.avail -> 0 .. n - 1] BY <1>1, <1>2
  <1>4. w[1] = 0 BY <1>1, <1>2
  <1>5. \A j \in 1 .. c.avail - 1 : w[j + 1] = c.next[w[j]]
    BY <1>1, <1>2
  <1>6. {w[j] : j \in 1 .. c.avail} = 0 .. n - 1
    <2>1. ASSUME NEW x \in 0 .. n - 1 PROVE \E j \in 1 .. c.avail : w[j] = x
      <3>1. x + 1 \in 1 .. c.avail /\ w[x + 1] = x BY <1>1, <1>2
      <3> QED BY <3>1
    <2>2. {w[j] : j \in 1 .. c.avail} \subseteq 0 .. n - 1
      <3>1. \A j \in 1 .. c.avail : w[j] \in 0 .. n - 1 BY <1>3
      <3> HIDE DEF w
      <3> QED BY <3>1
    <2>3. 0 .. n - 1 \subseteq {w[j] : j \in 1 .. c.avail}
      <3> HIDE DEF w
      <3> QED BY <2>1
    <2> QED BY <2>2, <2>3
  <1>7. \A j, k \in 1 .. c.avail : w[j] = w[k] => j = k BY <1>1, <1>2
  <1>8. Chained(c, n, 0 .. n - 1)
    <2>1. c.avail > 0 => w[1] = c.first BY <1>2, <1>4
    <2> HIDE DEF w
    <2> QED BY <2>1, <1>3, <1>5, <1>6, <1>7 DEF Chained
  <1> QED BY <1>1, <1>2, <1>8 DEF n, c

-----------------------------------------------------------------------------
(* The inductive invariant.  What PointersTell and FreeListsIntact say of  *)
(* every pool, said of one of them; and allocChunk_ leads nowhere when the *)
(* pool has no chunk.                                                      *)
PoolOK(p) ==
  /\ \A k \in DOMAIN chunks[p] : HasAvailable(At(p, k), p) <=> k = emptyChunk[p]
  /\ emptyChunk[p] \in 0 .. Last(p)
  /\ chunks[p] # <<>> =>
       /\ allocChunk[p] \in DOMAIN chunks[p] \cup {Wild}
       /\ deallocChunk[p] \in DOMAIN chunks[p] \cup {Wild}
  /\ chunks[p] = <<>> => allocChunk[p] \in {Null, Wild}
  /\ \A a \in Areas(p) : Chained(chunk[a], NumBlocks(p), Free(p, a))

(* A block has at most one holder, and only blocks of areas in use do; an  *)
(* area that was handed out whole has one.                                 *)
HoldersOK ==
  /\ holders \in [Area \X Slot -> {0, 1}]
  /\ \A a \in Area, i \in Slot :
       holders[<<a, i>>] = 1 =>
         \/ a \in large /\ i = 0
         \/ \E p \in Pools : a \in Areas(p) /\ i \in 0 .. NumBlocks(p) - 1
  /\ \A a \in large : holders[<<a, 0>>] = 1

(* A vector has no more chunks than it has room for, so that the room of a *)
(* vector just trimmed tells that it was.                                  *)
RoomOK == \A p \in Pools : Last(p) <= room[p]

Inv ==
  TypeOK /\ AreasDiffer /\ (\A p \in Pools : PoolOK(p)) /\ HoldersOK /\ RoomOK

LEMMA SlotHasZero == 0 \in Slot /\ Slot \subseteq Nat
  BY DEF Slot

LEMMA BlocksAreSlots ==
  ASSUME NEW p \in Pools
  PROVE  0 .. NumBlocks(p) - 1 \subseteq Slot /\ NumBlocks(p) \in Size
  BY NumBlocksRange DEF Slot, Size

(* A pool is not touched when nothing of its own changes.                  *)
LEMMA OtherPool ==
  ASSUME NEW q \in Pools, PoolOK(q),
         chunks'[q] = chunks[q], allocChunk'[q] = allocChunk[q],
         deallocChunk'[q] = deallocChunk[q], emptyChunk'[q] = emptyChunk[q],
         \A a \in Areas(q) :
           /\ chunk'[a] = chunk[a]
           /\ \A i \in Slot : holders'[<<a, i>>] = holders[<<a, i>>]
  PROVE  PoolOK(q)'
  <1>1. Areas(q)' = Areas(q) BY DEF Areas
  <1>2. \A k \in DOMAIN chunks[q] : At(q, k)' = At(q, k) BY DEF At, Areas
  <1>3. Last(q)' = Last(q) BY DEF Last
  <1>4. NumBlocks(q)' = NumBlocks(q) BY DEF NumBlocks
  <1>5. \A a \in Areas(q) : Free(q, a)' = Free(q, a)
    BY BlocksAreSlots, <1>4 DEF Free
  <1>6. \A k \in DOMAIN chunks[q] :
          HasAvailable(At(q, k), q)' = HasAvailable(At(q, k), q)
    BY <1>2, <1>4 DEF HasAvailable
  <1>7. \A a \in Areas(q) :
          Chained(chunk[a], NumBlocks(q), Free(q, a))'
            = Chained(chunk[a], NumBlocks(q), Free(q, a))
    <2> TAKE a \in Areas(q)
    <2>1. chunk'[a] = chunk[a] /\ Free(q, a)' = Free(q, a) BY <1>5
    <2> QED BY <1>4, <2>1 DEF Chained
  <1> QED BY <1>1, <1>3, <1>6, <1>7 DEF PoolOK

(* The list of a chunk after a step.                                       *)
LEMMA ChainedNext ==
  ASSUME NEW p, NEW b, NEW c, NEW F, Chained(c, NumBlocks(p), F),
         chunk'[b] = c, Free(p, b)' = F
  PROVE  Chained(chunk[b], NumBlocks(p), Free(p, b))'
  <1>1. NumBlocks(p)' = NumBlocks(p) BY DEF NumBlocks
  <1>2. chunk[b]' = c OBVIOUS
  <1> DEFINE n == NumBlocks(p)
             G == Free(p, b)
             C == chunk[b]
  <1>3. C' = c /\ n' = n /\ G' = F BY <1>1, <1>2
  <1>4. Chained(c, n, F) OBVIOUS
  <1> HIDE DEF n, G, C
  <1>5. Chained(C, n, G)' BY <1>3, <1>4
  <1> QED BY <1>5 DEF n, G, C

(* What the invariant says of the k-th chunk of a pool.                    *)
LEMMA ChunkFacts ==
  ASSUME Inv, NEW p \in Pools, NEW k \in DOMAIN chunks[p]
  PROVE  /\ k \in Nat \ {0} /\ k <= Last(p) /\ Last(p) \in Nat
         /\ chunks[p] \in Seq(Area)
         /\ chunks[p][k] \in Area /\ chunks[p][k] \in Areas(p)
         /\ chunks[p][k] \notin large
         /\ At(p, k) = chunk[chunks[p][k]] /\ At(p, k) \in Chunk
         /\ Chained(At(p, k), NumBlocks(p), Free(p, chunks[p][k]))
         /\ At(p, k).avail \in Nat /\ At(p, k).avail <= NumBlocks(p)
         /\ NumBlocks(p) \in Nat \ {0}
  <1>1. chunks[p] \in Seq(Area) BY DEF Inv, TypeOK
  <1>2. k \in 1 .. Len(chunks[p]) /\ Len(chunks[p]) \in Nat BY <1>1
  <1>3. chunks[p][k] \in Area BY <1>1, <1>2
  <1>4. chunks[p][k] \in Areas(p) BY DEF Areas
  <1>5. chunks[p][k] \notin large BY <1>4 DEF Inv, AreasDiffer
  <1>6. At(p, k) \in Chunk BY <1>3 DEF Inv, TypeOK, At
  <1>7. Chained(At(p, k), NumBlocks(p), Free(p, chunks[p][k]))
    BY <1>4 DEF Inv, PoolOK, At
  <1>8. At(p, k).avail <= NumBlocks(p)
    BY <1>6, <1>7, BlocksAreSlots, ChainBound
  <1> QED
    BY <1>1, <1>2, <1>3, <1>4, <1>5, <1>6, <1>7, <1>8, NumBlocksRange
    DEF Last, At, Chunk

(* An area belongs to one pool and one place in it.                        *)
LEMMA OnePlace ==
  ASSUME Inv, NEW p \in Pools, NEW q \in Pools,
         NEW j \in DOMAIN chunks[p], NEW k \in DOMAIN chunks[q],
         chunks[p][j] = chunks[q][k]
  PROVE  p = q /\ j = k
  BY DEF Inv, AreasDiffer

(* Nothing beyond the blocks of a chunk has a holder.                      *)
LEMMA BeyondIsUnheld ==
  ASSUME Inv, NEW p \in Pools, NEW k \in DOMAIN chunks[p], NEW i \in Slot,
         i \notin 0 .. NumBlocks(p) - 1
  PROVE  holders[<<chunks[p][k], i>>] = 0
  <1> DEFINE a == chunks[p][k]
  <1>1. a \in Area /\ a \notin large BY ChunkFacts
  <1>2. ASSUME NEW q \in Pools, a \in Areas(q) PROVE q = p
    <2>1. PICK j \in DOMAIN chunks[q] : chunks[q][j] = a BY <1>2 DEF Areas
    <2> QED BY <2>1, OnePlace
  <1>3. holders[<<a, i>>] # 1 BY <1>1, <1>2 DEF Inv, HoldersOK
  <1>4. holders[<<a, i>>] \in {0, 1} BY <1>1 DEF Inv, HoldersOK
  <1> QED BY <1>3, <1>4

(* No block of an empty chunk has a holder.                                *)
LEMMA EmptyIsUnheld ==
  ASSUME Inv, NEW p \in Pools, NEW k \in DOMAIN chunks[p],
         HasAvailable(At(p, k), p), NEW i \in Slot
  PROVE  holders[<<chunks[p][k], i>>] = 0
  <1> DEFINE a == chunks[p][k]
  <1>1. Free(p, a) = 0 .. NumBlocks(p) - 1
    BY ChunkFacts, BlocksAreSlots, ChainBound DEF HasAvailable
  <1>2. CASE i \in 0 .. NumBlocks(p) - 1 BY <1>1, <1>2 DEF Free
  <1> QED BY <1>2, BeyondIsUnheld

-----------------------------------------------------------------------------
(* A block of the k-th chunk is handed out.                                *)
HandsOut(p, k) ==
  /\ k \in DOMAIN chunks[p] /\ ~IsFilled(At(p, k))
  /\ HandOut(chunks[p][k], At(p, k))
  /\ allocChunk' = [allocChunk EXCEPT ![p] = k]
  /\ emptyChunk' = [emptyChunk EXCEPT ![p] = IF @ = k THEN Null ELSE @]
  /\ UNCHANGED <<chunks, room, deallocChunk, large, retrying>>

LEMMA HandOutKeeps ==
  ASSUME Inv, NEW p \in Pools, NEW k, HandsOut(p, k)
  PROVE  Inv'
  <1> DEFINE a == chunks[p][k]
             c == At(p, k)
             n == NumBlocks(p)
             d == Allocated(c)
  <1>1. /\ k \in DOMAIN chunks[p] /\ c.avail # 0
        /\ chunk' = [chunk EXCEPT ![a] = d]
        /\ holders' = [holders EXCEPT ![<<a, c.first>>] = @ + 1]
        /\ chunks' = chunks /\ large' = large
    BY DEF HandsOut, HandOut, IsFilled
  <1>2. /\ k \in Nat \ {0} /\ k <= Last(p) /\ Last(p) \in Nat
        /\ a \in Area /\ a \in Areas(p) /\ a \notin large
        /\ c = chunk[a] /\ c \in Chunk /\ Chained(c, n, Free(p, a))
        /\ c.avail \in Nat /\ c.avail <= n /\ n \in Nat \ {0}
        /\ n \in Size /\ 0 .. n - 1 \subseteq Slot
    BY <1>1, ChunkFacts, BlocksAreSlots
  <1>3. /\ c.first \in Free(p, a) /\ c.first \in 0 .. n - 1 /\ d \in Chunk
        /\ d.avail = c.avail - 1
        /\ Chained(d, n, Free(p, a) \ {c.first})
    BY <1>1, <1>2, AllocatedChain
  <1>4. c.first \in Slot /\ holders[<<a, c.first>>] = 0
    BY <1>2, <1>3 DEF Free
  <1> HIDE DEF d
  <1>5. /\ holders' \in [Area \X Slot -> {0, 1}]
        /\ holders'[<<a, c.first>>] = 1
        /\ \A b \in Area, i \in Slot :
             b # a \/ i # c.first => holders'[<<b, i>>] = holders[<<b, i>>]
    <2>1. holders \in [Area \X Slot -> {0, 1}] BY DEF Inv, HoldersOK
    <2>2. <<a, c.first>> \in Area \X Slot BY <1>2, <1>4
    <2>3. holders' = [holders EXCEPT ![<<a, c.first>>] = 1] BY <1>1, <1>4
    <2> QED BY <2>1, <2>2, <2>3
  <1>6. TypeOK'
    <2>1. chunk' \in [Area -> Chunk] BY <1>1, <1>3 DEF Inv, TypeOK
    <2>2. holders' \in [Area \X Slot -> Nat] BY <1>5
    <2>3. allocChunk' \in [Pools -> Nat \cup {Wild}]
      BY <1>2 DEF HandsOut, Inv, TypeOK
    <2>4. emptyChunk' \in [Pools -> Nat]
      BY DEF HandsOut, Inv, TypeOK, Null
    <2> QED BY <1>1, <2>1, <2>2, <2>3, <2>4 DEF HandsOut, Inv, TypeOK
  <1>7. AreasDiffer' BY <1>1 DEF Inv, AreasDiffer, Areas
  <1>8. ASSUME NEW q \in Pools, q # p PROVE PoolOK(q)'
    <2>1. \A b \in Areas(q) : b # a /\ b \in Area
      <3> SUFFICES ASSUME NEW b \in Areas(q) PROVE b # a /\ b \in Area
        OBVIOUS
      <3>1. PICK j \in DOMAIN chunks[q] : b = chunks[q][j] BY DEF Areas
      <3> QED BY <3>1, <1>1, <1>8, OnePlace, ChunkFacts
    <2>2. \A b \in Areas(q) :
            /\ chunk'[b] = chunk[b]
            /\ \A i \in Slot : holders'[<<b, i>>] = holders[<<b, i>>]
      BY <2>1, <1>1, <1>5 DEF Inv, TypeOK
    <2>3. /\ allocChunk'[q] = allocChunk[q] /\ emptyChunk'[q] = emptyChunk[q]
          /\ deallocChunk'[q] = deallocChunk[q]
      BY <1>8 DEF HandsOut, Inv, TypeOK
    <2> QED BY <2>2, <2>3, <1>1, OtherPool DEF Inv
  <1>9. PoolOK(p)'
    <2>1. /\ Areas(p)' = Areas(p) /\ Last(p)' = Last(p) /\ NumBlocks(p)' = n
      BY <1>1 DEF Areas, Last, NumBlocks
    <2>2. /\ allocChunk'[p] = k
          /\ emptyChunk'[p] = IF emptyChunk[p] = k THEN Null ELSE emptyChunk[p]
          /\ deallocChunk' = deallocChunk
      BY DEF HandsOut, Inv, TypeOK
    <2>3. chunk'[a] = d /\ \A b \in Area : b # a => chunk'[b] = chunk[b]
      BY <1>1, <1>2 DEF Inv, TypeOK
    <2>4. ASSUME NEW j \in DOMAIN chunks[p]
          PROVE  HasAvailable(At(p, j), p)' <=> j = emptyChunk'[p]
      <3>1. CASE j = k
        <4>1. At(p, k)' = d BY <1>1, <2>3 DEF At
        <4>2. ~HasAvailable(At(p, k), p)'
          BY <4>1, <1>2, <1>3, <2>1 DEF HasAvailable
        <4> QED BY <3>1, <4>2, <2>2, <1>2 DEF Null
      <3>2. CASE j # k
        <4>1. chunks[p][j] # a /\ chunks[p][j] \in Area /\ j # 0
          BY <3>2, <1>1, OnePlace, ChunkFacts
        <4>2. At(p, j)' = At(p, j) BY <1>1, <2>3, <4>1 DEF At
        <4>3. HasAvailable(At(p, j), p)' <=> j = emptyChunk[p]
          BY <4>2, <2>1 DEF HasAvailable, Inv, PoolOK
        <4> QED BY <4>1, <4>3, <3>2, <2>2 DEF Null
      <3> QED BY <3>1, <3>2
    <2>5. emptyChunk'[p] \in 0 .. Last(p)
      BY <2>2, <1>2 DEF Inv, PoolOK, Null
    <2>6. /\ allocChunk'[p] \in DOMAIN chunks[p] \cup {Wild}
          /\ deallocChunk'[p] \in DOMAIN chunks[p] \cup {Wild}
          /\ chunks[p] # <<>>
      BY <2>2, <1>1 DEF Inv, PoolOK
    <2>7. ASSUME NEW b \in Areas(p)
          PROVE  Chained(chunk[b], NumBlocks(p), Free(p, b))'
      <3>0. b \in Area
        BY ChunkFacts DEF Areas
      <3>1. CASE b = a
        <4>1. ASSUME NEW i \in 0 .. n - 1
              PROVE  holders'[<<b, i>>] = 0
                       <=> holders[<<b, i>>] = 0 /\ i # c.first
          <5>1. i \in Slot BY <1>2
          <5>2. CASE i = c.first BY <5>2, <3>1, <1>5
          <5>3. CASE i # c.first BY <5>1, <5>3, <3>0, <1>5
          <5> QED BY <5>2, <5>3
        <4>2. Free(p, b)' = {i \in 0 .. n - 1 : holders'[<<b, i>>] = 0}
          BY <2>1 DEF Free
        <4>3. Free(p, b)' = Free(p, b) \ {c.first}
          <5>1. Free(p, b) = {i \in 0 .. n - 1 : holders[<<b, i>>] = 0}
            BY DEF Free
          <5>2. Free(p, b)' \subseteq Free(p, b) \ {c.first}
            BY <4>1, <4>2, <5>1
          <5>3. Free(p, b) \ {c.first} \subseteq Free(p, b)'
            BY <4>1, <4>2, <5>1
          <5> QED BY <5>2, <5>3
        <4>4. chunk'[b] = d /\ Chained(d, n, Free(p, b) \ {c.first})
          BY <3>1, <1>3, <2>3
        <4> QED BY <4>3, <4>4, ChainedNext
      <3>2. CASE b # a
        <4>1. Free(p, b)' = Free(p, b)
          BY <3>0, <3>2, <1>2, <1>5, <2>1 DEF Free
        <4>2. Chained(chunk[b], NumBlocks(p), Free(p, b)) BY DEF Inv, PoolOK
        <4> QED BY <3>0, <3>2, <4>1, <4>2, <2>3, ChainedNext
      <3> QED BY <3>1, <3>2
    <2> QED BY <1>1, <2>1, <2>4, <2>5, <2>6, <2>7 DEF PoolOK
  <1>10. HoldersOK'
    <2>1. ASSUME NEW b \in Area, NEW i \in Slot, holders'[<<b, i>>] = 1
          PROVE  \/ b \in large' /\ i = 0
                 \/ \E q \in Pools : b \in Areas(q)' /\ i \in 0 .. NumBlocks(q)' - 1
      <3>1. CASE b = a /\ i = c.first
        <4>1. b \in Areas(p)' /\ i \in 0 .. NumBlocks(p)' - 1
          BY <3>1, <1>1, <1>2, <1>3 DEF Areas, NumBlocks
        <4> QED BY <4>1
      <3>2. CASE ~(b = a /\ i = c.first)
        <4>1. holders[<<b, i>>] = 1 BY <2>1, <3>2, <1>5
        <4>2. CASE b \in large /\ i = 0 BY <4>2, <1>1
        <4>3. CASE ~(b \in large /\ i = 0)
          <5>1. PICK q \in Pools : b \in Areas(q) /\ i \in 0 .. NumBlocks(q) - 1
            BY <4>1, <4>3 DEF Inv, HoldersOK
          <5>2. Areas(q)' = Areas(q) /\ NumBlocks(q)' = NumBlocks(q)
            BY <1>1 DEF Areas, NumBlocks
          <5> QED BY <5>1, <5>2
        <4> QED BY <4>2, <4>3
      <3> QED BY <3>1, <3>2
    <2>2. ASSUME NEW b \in large PROVE holders'[<<b, 0>>] = 1
      BY <1>2, <1>5, SlotHasZero DEF Inv, TypeOK, HoldersOK
    <2> QED BY <1>1, <1>5, <2>1, <2>2 DEF HoldersOK
  <1>11. RoomOK' BY <1>1 DEF HandsOut, Inv, RoomOK, Last
  <1> QED BY <1>6, <1>7, <1>8, <1>9, <1>10, <1>11 DEF Inv

-----------------------------------------------------------------------------
(* A block comes back to the k-th chunk.                                   *)

(* A held block of a chunk is one of its blocks, and not in its list.      *)
LEMMA HeldBlock ==
  ASSUME Inv, NEW p \in Pools, NEW k \in DOMAIN chunks[p], NEW i \in Slot,
         holders[<<chunks[p][k], i>>] > 0
  PROVE  /\ holders[<<chunks[p][k], i>>] = 1
         /\ i \in 0 .. NumBlocks(p) - 1 /\ i \notin Free(p, chunks[p][k])
         /\ At(p, k).avail < NumBlocks(p) /\ k # emptyChunk[p]
         /\ After(p, k, i) \in Chunk
         /\ After(p, k, i).avail = At(p, k).avail + 1
         /\ Chained(After(p, k, i), NumBlocks(p), Free(p, chunks[p][k]) \cup {i})
  <1> DEFINE a == chunks[p][k]
  <1>1. a \in Area /\ a \notin large BY ChunkFacts
  <1>2. holders[<<a, i>>] = 1
    <2>1. holders[<<a, i>>] \in {0, 1} BY <1>1 DEF Inv, HoldersOK
    <2> QED BY <2>1
  <1>3. i \in 0 .. NumBlocks(p) - 1
    <2>1. PICK q \in Pools : a \in Areas(q) /\ i \in 0 .. NumBlocks(q) - 1
      BY <1>1, <1>2 DEF Inv, HoldersOK
    <2>2. PICK j \in DOMAIN chunks[q] : chunks[q][j] = a BY <2>1 DEF Areas
    <2>3. q = p BY <2>2, OnePlace
    <2> QED BY <2>1, <2>3
  <1>4. i \notin Free(p, a) BY <1>2 DEF Free
  <1>5. /\ At(p, k) \in Chunk /\ NumBlocks(p) \in Size
        /\ Chained(At(p, k), NumBlocks(p), Free(p, a))
        /\ At(p, k).avail \in Nat /\ NumBlocks(p) \in Nat
        /\ At(p, k).avail <= NumBlocks(p)
    BY ChunkFacts, BlocksAreSlots
  <1>6. At(p, k).avail # NumBlocks(p) BY <1>3, <1>4, <1>5, ChainBound
  <1>7. k # emptyChunk[p] BY <1>6 DEF Inv, PoolOK, HasAvailable
  <1>8. /\ After(p, k, i) \in Chunk
        /\ After(p, k, i).avail = At(p, k).avail + 1
        /\ Chained(After(p, k, i), NumBlocks(p), Free(p, a) \cup {i})
    BY <1>3, <1>4, <1>5, DeallocatedChain DEF After
  <1> QED BY <1>2, <1>3, <1>4, <1>5, <1>6, <1>7, <1>8

(* No chunk goes: StillUsed or FirstEmpty.                                 *)
TakesBack(p, k, i) ==
  /\ k \in DOMAIN chunks[p] /\ i \in Slot /\ holders[<<chunks[p][k], i>>] > 0
  /\ HasAvailable(After(p, k, i), p) => emptyChunk[p] = Null
  /\ chunk' = [chunk EXCEPT ![chunks[p][k]] = After(p, k, i)]
  /\ holders' = [holders EXCEPT ![<<chunks[p][k], i>>] = @ - 1]
  /\ deallocChunk' = [deallocChunk EXCEPT ![p] = k]
  /\ emptyChunk' = [emptyChunk EXCEPT ![p] =
                      IF HasAvailable(After(p, k, i), p) THEN k ELSE @]
  /\ UNCHANGED <<chunks, room, allocChunk, large, retrying>>

LEMMA TakeBackKeeps ==
  ASSUME Inv, NEW p \in Pools, NEW k, NEW i, TakesBack(p, k, i)
  PROVE  Inv'
  <1> DEFINE a == chunks[p][k]
             c == At(p, k)
             n == NumBlocks(p)
             d == After(p, k, i)
  <1>1. /\ k \in DOMAIN chunks[p] /\ i \in Slot /\ holders[<<a, i>>] > 0
        /\ chunk' = [chunk EXCEPT ![a] = d]
        /\ holders' = [holders EXCEPT ![<<a, i>>] = @ - 1]
        /\ chunks' = chunks /\ large' = large /\ allocChunk' = allocChunk
        /\ deallocChunk' = [deallocChunk EXCEPT ![p] = k]
        /\ emptyChunk' = [emptyChunk EXCEPT ![p] =
                            IF HasAvailable(d, p) THEN k ELSE @]
        /\ HasAvailable(d, p) => emptyChunk[p] = Null
    BY DEF TakesBack
  <1>2. /\ k \in Nat \ {0} /\ k <= Last(p) /\ Last(p) \in Nat
        /\ a \in Area /\ a \in Areas(p) /\ a \notin large
        /\ n \in Nat \ {0} /\ 0 .. n - 1 \subseteq Slot
    BY <1>1, ChunkFacts, BlocksAreSlots
  <1>3. /\ holders[<<a, i>>] = 1 /\ i \in 0 .. n - 1 /\ i \notin Free(p, a)
        /\ k # emptyChunk[p] /\ d \in Chunk
        /\ Chained(d, n, Free(p, a) \cup {i})
    BY <1>1, HeldBlock
  <1> HIDE DEF d
  <1>5. /\ holders' \in [Area \X Slot -> {0, 1}]
        /\ holders'[<<a, i>>] = 0
        /\ \A b \in Area, j \in Slot :
             b # a \/ j # i => holders'[<<b, j>>] = holders[<<b, j>>]
    <2>1. holders \in [Area \X Slot -> {0, 1}] BY DEF Inv, HoldersOK
    <2>2. <<a, i>> \in Area \X Slot BY <1>1, <1>2
    <2>3. holders' = [holders EXCEPT ![<<a, i>>] = 0] BY <1>1, <1>3
    <2> QED BY <2>1, <2>2, <2>3
  <1>6. TypeOK'
    <2>1. chunk' \in [Area -> Chunk] BY <1>1, <1>3 DEF Inv, TypeOK
    <2>2. holders' \in [Area \X Slot -> Nat] BY <1>5
    <2>3. deallocChunk' \in [Pools -> Nat \cup {Wild}] BY <1>1, <1>2 DEF Inv, TypeOK
    <2>4. emptyChunk' \in [Pools -> Nat]
      BY <1>1, <1>2, Zenon DEF Inv, TypeOK
    <2> QED BY <1>1, <2>1, <2>2, <2>3, <2>4 DEF TakesBack, Inv, TypeOK
  <1>7. AreasDiffer' BY <1>1 DEF Inv, AreasDiffer, Areas
  <1>8. ASSUME NEW q \in Pools, q # p PROVE PoolOK(q)'
    <2>1. \A b \in Areas(q) : b # a /\ b \in Area
      <3> SUFFICES ASSUME NEW b \in Areas(q) PROVE b # a /\ b \in Area
        OBVIOUS
      <3>1. PICK j \in DOMAIN chunks[q] : b = chunks[q][j] BY DEF Areas
      <3> QED BY <3>1, <1>1, <1>8, OnePlace, ChunkFacts
    <2>2. \A b \in Areas(q) :
            /\ chunk'[b] = chunk[b]
            /\ \A j \in Slot : holders'[<<b, j>>] = holders[<<b, j>>]
      BY <2>1, <1>1, <1>5 DEF Inv, TypeOK
    <2>3. /\ emptyChunk'[q] = emptyChunk[q] /\ deallocChunk'[q] = deallocChunk[q]
      BY <1>1, <1>8 DEF Inv, TypeOK
    <2> QED BY <2>2, <2>3, <1>1, OtherPool DEF Inv
  <1>9. PoolOK(p)'
    <2>1. /\ Areas(p)' = Areas(p) /\ Last(p)' = Last(p) /\ NumBlocks(p)' = n
      BY <1>1 DEF Areas, Last, NumBlocks
    <2>2. /\ deallocChunk'[p] = k
          /\ emptyChunk'[p] = IF HasAvailable(d, p) THEN k ELSE emptyChunk[p]
      BY <1>1 DEF Inv, TypeOK
    <2>3. chunk'[a] = d /\ \A b \in Area : b # a => chunk'[b] = chunk[b]
      BY <1>1, <1>2 DEF Inv, TypeOK
    <2>4. ASSUME NEW j \in DOMAIN chunks[p]
          PROVE  HasAvailable(At(p, j), p)' <=> j = emptyChunk'[p]
      <3>1. CASE j = k
        <4>1. At(p, k)' = d BY <1>1, <2>3 DEF At
        <4>2. HasAvailable(At(p, k), p)' <=> HasAvailable(d, p)
          BY <4>1, <2>1 DEF HasAvailable
        <4> QED BY <3>1, <4>2, <2>2, <1>3
      <3>2. CASE j # k
        <4>1. chunks[p][j] # a /\ chunks[p][j] \in Area /\ j # 0
          BY <3>2, <1>1, OnePlace, ChunkFacts
        <4>2. At(p, j)' = At(p, j) BY <1>1, <2>3, <4>1 DEF At
        <4>3. HasAvailable(At(p, j), p)' <=> j = emptyChunk[p]
          BY <4>2, <2>1 DEF HasAvailable, Inv, PoolOK
        <4> QED BY <4>1, <4>3, <3>2, <2>2, <1>1 DEF Null
      <3> QED BY <3>1, <3>2
    <2>5. emptyChunk'[p] \in 0 .. Last(p)
      BY <2>2, <1>2 DEF Inv, PoolOK
    <2>6. /\ allocChunk'[p] \in DOMAIN chunks[p] \cup {Wild}
          /\ deallocChunk'[p] \in DOMAIN chunks[p] \cup {Wild}
          /\ chunks[p] # <<>>
      BY <2>2, <1>1 DEF Inv, PoolOK
    <2>7. ASSUME NEW b \in Areas(p)
          PROVE  Chained(chunk[b], NumBlocks(p), Free(p, b))'
      <3>0. b \in Area
        BY ChunkFacts DEF Areas
      <3>1. CASE b = a
        <4>1. ASSUME NEW j \in 0 .. n - 1
              PROVE  holders'[<<b, j>>] = 0 <=> holders[<<b, j>>] = 0 \/ j = i
          <5>1. j \in Slot BY <1>2
          <5>2. CASE j = i BY <5>2, <3>1, <1>5
          <5>3. CASE j # i BY <5>1, <5>3, <3>0, <1>5
          <5> QED BY <5>2, <5>3
        <4>2. Free(p, b)' = {j \in 0 .. n - 1 : holders'[<<b, j>>] = 0}
          BY <2>1 DEF Free
        <4>3. Free(p, b)' = Free(p, b) \cup {i}
          <5>1. Free(p, b) = {j \in 0 .. n - 1 : holders[<<b, j>>] = 0}
            BY DEF Free
          <5>2. Free(p, b)' \subseteq Free(p, b) \cup {i}
            BY <4>1, <4>2, <5>1
          <5>3. Free(p, b) \cup {i} \subseteq Free(p, b)'
            BY <4>1, <4>2, <5>1, <1>3
          <5> QED BY <5>2, <5>3
        <4>4. chunk'[b] = d /\ Chained(d, n, Free(p, b) \cup {i})
          BY <3>1, <1>3, <2>3
        <4> QED BY <4>3, <4>4, ChainedNext
      <3>2. CASE b # a
        <4>1. Free(p, b)' = Free(p, b)
          BY <3>0, <3>2, <1>2, <1>5, <2>1 DEF Free
        <4>2. Chained(chunk[b], NumBlocks(p), Free(p, b)) BY DEF Inv, PoolOK
        <4> QED BY <3>0, <3>2, <4>1, <4>2, <2>3, ChainedNext
      <3> QED BY <3>1, <3>2
    <2> QED BY <1>1, <2>1, <2>4, <2>5, <2>6, <2>7 DEF PoolOK
  <1>10. HoldersOK'
    <2>1. ASSUME NEW b \in Area, NEW j \in Slot, holders'[<<b, j>>] = 1
          PROVE  \/ b \in large' /\ j = 0
                 \/ \E q \in Pools : b \in Areas(q)' /\ j \in 0 .. NumBlocks(q)' - 1
      <3>1. ~(b = a /\ j = i) BY <2>1, <1>5
      <3>2. holders[<<b, j>>] = 1 BY <2>1, <3>1, <1>5
      <3>3. CASE b \in large /\ j = 0 BY <3>3, <1>1
      <3>4. CASE ~(b \in large /\ j = 0)
        <4>1. PICK q \in Pools : b \in Areas(q) /\ j \in 0 .. NumBlocks(q) - 1
          BY <3>2, <3>4 DEF Inv, HoldersOK
        <4>2. Areas(q)' = Areas(q) /\ NumBlocks(q)' = NumBlocks(q)
          BY <1>1 DEF Areas, NumBlocks
        <4> QED BY <4>1, <4>2
      <3> QED BY <3>3, <3>4
    <2>2. ASSUME NEW b \in large PROVE holders'[<<b, 0>>] = 1
      BY <1>2, <1>5, SlotHasZero DEF Inv, TypeOK, HoldersOK
    <2> QED BY <1>1, <1>5, <2>1, <2>2 DEF HoldersOK
  <1>11. RoomOK' BY <1>1 DEF TakesBack, Inv, RoomOK, Last
  <1> QED BY <1>6, <1>7, <1>8, <1>9, <1>10, <1>11 DEF Inv

-----------------------------------------------------------------------------
(* A new chunk.                                                            *)

(* Nothing of an area that is not in use is held.                          *)
LEMMA UnusedIsUnheld ==
  ASSUME Inv, NEW a \in Area, a \notin Memory, NEW i \in Slot
  PROVE  holders[<<a, i>>] = 0
  <1>1. holders[<<a, i>>] \in {0, 1} BY DEF Inv, HoldersOK
  <1>2. a \notin large /\ \A p \in Pools : a \notin Areas(p) BY DEF Memory
  <1>3. holders[<<a, i>>] # 1 BY <1>2 DEF Inv, HoldersOK
  <1> QED BY <1>1, <1>3

LEMMA HolderSet ==
  ASSUME NEW a \in Area, NEW i \in Slot, NEW v \in {0, 1},
         holders \in [Area \X Slot -> {0, 1}],
         holders' = [holders EXCEPT ![<<a, i>>] = v]
  PROVE  /\ holders' \in [Area \X Slot -> {0, 1}]
         /\ holders'[<<a, i>>] = v
         /\ \A b \in Area, j \in Slot :
              b # a \/ j # i => holders'[<<b, j>>] = holders[<<b, j>>]
  OBVIOUS

LEMMA NewChunkKeeps ==
  ASSUME Inv, NEW p \in Pools, NEW a \in Area, AllocateFromNew(p, a)
  PROVE  Inv'
  <1> DEFINE n == NumBlocks(p)
             d == Allocated(Reset(p))
             m == Last(p) + 1
  <1>1. /\ a \notin Memory /\ emptyChunk[p] = Null
        /\ chunks' = [chunks EXCEPT ![p] = Append(@, a)]
        /\ allocChunk' = [allocChunk EXCEPT ![p] = m]
        /\ deallocChunk' = [deallocChunk EXCEPT ![p] = 1]
        /\ chunk' = [chunk EXCEPT ![a] = d]
        /\ holders' = [holders EXCEPT ![<<a, 0>>] = @ + 1]
        /\ retrying' = Null /\ emptyChunk' = emptyChunk /\ large' = large
        /\ room' = [room EXCEPT ![p] = Reserved(p)]
    BY DEF AllocateFromNew, AllFilled, HandOut, Reset
  <1>2. /\ d \in Chunk /\ d.avail = n - 1
        /\ Chained(d, n, (0 .. n - 1) \ {0})
        /\ n \in Nat \ {0} /\ 0 .. n - 1 \subseteq Slot
    <2>1. Reset(p).first = 0 BY DEF Reset
    <2>2. /\ Reset(p) \in Chunk /\ Reset(p).avail = n /\ Reset(p).avail # 0
          /\ n \in Size /\ Chained(Reset(p), n, 0 .. n - 1)
      BY ResetChain, BlocksAreSlots
    <2>3. /\ d \in Chunk /\ d.avail = Reset(p).avail - 1
          /\ Chained(d, n, (0 .. n - 1) \ {Reset(p).first})
      BY <2>2, AllocatedChain
    <2> QED BY <2>1, <2>2, <2>3, BlocksAreSlots DEF Size
  <1>3. /\ a \notin large /\ \A q \in Pools : a \notin Areas(q)
        /\ \A i \in Slot : holders[<<a, i>>] = 0
    BY <1>1, UnusedIsUnheld DEF Memory
  <1> HIDE DEF d
  <1>4. /\ chunks[p] \in Seq(Area) /\ Last(p) \in Nat /\ m \in Nat \ {0}
        /\ \A j \in 1 .. Last(p) : chunks[p][j] \in Area
    BY DEF Inv, TypeOK, Last
  <1>5. /\ chunks'[p] = Append(chunks[p], a)
        /\ \A q \in Pools : q # p => chunks'[q] = chunks[q]
    BY <1>1 DEF Inv, TypeOK
  <1>6. /\ DOMAIN chunks'[p] = 1 .. m /\ Len(chunks'[p]) = m
        /\ DOMAIN chunks[p] = 1 .. Last(p)
        /\ chunks'[p][m] = a
        /\ \A j \in 1 .. Last(p) : chunks'[p][j] = chunks[p][j]
    BY <1>4, <1>5 DEF Last
  <1>7. /\ Areas(p)' = Areas(p) \cup {a}
        /\ \A q \in Pools : q # p => Areas(q)' = Areas(q)
    <2>1. ASSUME NEW b \in Areas(p)' PROVE b \in Areas(p) \cup {a}
      <3>1. PICK j \in 1 .. m : chunks'[p][j] = b BY <1>6 DEF Areas
      <3>2. CASE j = m BY <3>1, <3>2, <1>6
      <3>3. CASE j # m
        <4>1. j \in 1 .. Last(p) BY <3>3, <1>4
        <4> QED BY <4>1, <3>1, <1>6 DEF Areas
      <3> QED BY <3>2, <3>3
    <2>2. ASSUME NEW b \in Areas(p) PROVE b \in Areas(p)'
      <3>1. PICK j \in 1 .. Last(p) : chunks[p][j] = b BY <1>6 DEF Areas
      <3>2. j \in 1 .. m BY <1>4
      <3> QED BY <3>1, <3>2, <1>6 DEF Areas
    <2>3. a \in Areas(p)'
      <3>1. m \in 1 .. m BY <1>4
      <3> QED BY <3>1, <1>6 DEF Areas
    <2>4. \A q \in Pools : q # p => Areas(q)' = Areas(q) BY <1>5 DEF Areas
    <2>5. Areas(p)' \subseteq Areas(p) \cup {a} BY <2>1
    <2>6. Areas(p) \cup {a} \subseteq Areas(p)' BY <2>2, <2>3
    <2> QED BY <2>4, <2>5, <2>6
  <1>8. /\ holders' \in [Area \X Slot -> {0, 1}]
        /\ holders'[<<a, 0>>] = 1
        /\ \A b \in Area, i \in Slot :
             b # a \/ i # 0 => holders'[<<b, i>>] = holders[<<b, i>>]
    <2>1. holders \in [Area \X Slot -> {0, 1}] BY DEF Inv, HoldersOK
    <2>2. <<a, 0>> \in Area \X Slot BY SlotHasZero
    <2>3. holders' = [holders EXCEPT ![<<a, 0>>] = 1]
      <3>1. holders[<<a, 0>>] = 0 BY <1>3, SlotHasZero
      <3>2. holders[<<a, 0>>] + 1 = 1 BY <3>1
      <3> QED BY <1>1, <3>2, Zenon
    <2> QED BY <2>1, <2>3, SlotHasZero, HolderSet
  <1>9. TypeOK'
    <2>1. chunk' \in [Area -> Chunk] BY <1>1, <1>2 DEF Inv, TypeOK
    <2>2. holders' \in [Area \X Slot -> Nat] BY <1>8
    <2>3. deallocChunk' \in [Pools -> Nat \cup {Wild}] BY <1>1 DEF Inv, TypeOK
    <2>4. allocChunk' \in [Pools -> Nat \cup {Wild}]
      BY <1>1, <1>4 DEF Inv, TypeOK
    <2>5. chunks' \in [Pools -> Seq(Area)]
      <3>1. Append(chunks[p], a) \in Seq(Area) BY <1>4
      <3> QED BY <3>1, <1>1 DEF Inv, TypeOK
    <2>6. room' \in [Pools -> Nat]
      <3>1. Reserved(p) \in Nat BY <1>4 DEF Reserved, Inv, TypeOK
      <3> QED BY <3>1, <1>1 DEF Inv, TypeOK
    <2> QED BY <1>1, <2>1, <2>2, <2>3, <2>4, <2>5, <2>6 DEF Inv, TypeOK
  <1>10. AreasDiffer'
    <2>1. ASSUME NEW q \in Pools, NEW r \in Pools,
                 NEW j \in DOMAIN chunks'[q], NEW k \in DOMAIN chunks'[r],
                 chunks'[q][j] = chunks'[r][k]
          PROVE  q = r /\ j = k
      <3>1. ASSUME NEW s \in Pools, NEW l \in DOMAIN chunks'[s]
            PROVE  \/ s = p /\ l = m /\ chunks'[s][l] = a
                   \/ /\ l \in DOMAIN chunks[s] /\ chunks'[s][l] = chunks[s][l]
                      /\ chunks'[s][l] # a
        <4>1. CASE s = p /\ l = m BY <4>1, <1>6
        <4>2. CASE s = p /\ l # m
          <5>1. l \in 1 .. Last(p) BY <4>2, <1>4, <1>6
          <5>2. chunks'[s][l] = chunks[s][l] BY <4>2, <5>1, <1>6
          <5>3. chunks[s][l] \in Areas(s) BY <4>2, <5>1, <1>6 DEF Areas
          <5>4. chunks[s][l] # a BY <5>3, <1>3
          <5>5. l \in DOMAIN chunks[s] BY <4>2, <5>1, <1>6
          <5> QED BY <5>2, <5>4, <5>5
        <4>3. CASE s # p
          <5>1. l \in DOMAIN chunks[s] /\ chunks'[s][l] = chunks[s][l]
            BY <4>3, <1>5
          <5> QED BY <5>1, <1>3 DEF Areas
        <4> QED BY <4>1, <4>2, <4>3
      <3>2. CASE chunks'[q][j] = a
        <4>1. q = p /\ j = m BY <3>1, <3>2
        <4>2. r = p /\ k = m BY <3>1, <3>2, <2>1
        <4> QED BY <4>1, <4>2
      <3>3. CASE chunks'[q][j] # a
        <4>1. j \in DOMAIN chunks[q] /\ chunks'[q][j] = chunks[q][j]
          BY <3>1, <3>3
        <4>2. k \in DOMAIN chunks[r] /\ chunks'[r][k] = chunks[r][k]
          BY <3>1, <3>3, <2>1
        <4>3. chunks[q][j] = chunks[r][k] BY <4>1, <4>2, <2>1, Zenon
        <4>4. j \in DOMAIN chunks[q] /\ k \in DOMAIN chunks[r] BY <4>1, <4>2
        <4>5. \A u \in DOMAIN chunks[q], v \in DOMAIN chunks[r] :
                chunks[q][u] = chunks[r][v] => q = r /\ u = v
          BY DEF Inv, AreasDiffer
        <4> QED BY <4>3, <4>4, <4>5, Zenon
      <3> QED BY <3>2, <3>3
    <2>2. ASSUME NEW q \in Pools PROVE (Areas(q) \cap large)' = {}
      BY <1>1, <1>3, <1>7 DEF Inv, AreasDiffer
    <2> QED BY <2>1, <2>2 DEF AreasDiffer
  <1>11. ASSUME NEW q \in Pools, q # p PROVE PoolOK(q)'
    <2>1. \A b \in Areas(q) : b # a /\ b \in Area
      BY <1>3, ChunkFacts DEF Areas
    <2>2. \A b \in Areas(q) :
            /\ chunk'[b] = chunk[b]
            /\ \A i \in Slot : holders'[<<b, i>>] = holders[<<b, i>>]
      BY <2>1, <1>1, <1>8 DEF Inv, TypeOK
    <2>3. /\ allocChunk'[q] = allocChunk[q] /\ deallocChunk'[q] = deallocChunk[q]
      BY <1>1, <1>11 DEF Inv, TypeOK
    <2> QED BY <2>2, <2>3, <1>1, <1>5, <1>11, OtherPool DEF Inv
  <1>12. PoolOK(p)'
    <2>1. NumBlocks(p)' = n BY DEF NumBlocks
    <2>2. allocChunk'[p] = m /\ deallocChunk'[p] = 1 /\ emptyChunk'[p] = 0
      BY <1>1 DEF Inv, TypeOK, Null
    <2>3. chunk'[a] = d /\ \A b \in Area : b # a => chunk'[b] = chunk[b]
      BY <1>1 DEF Inv, TypeOK
    <2>4. ASSUME NEW j \in DOMAIN chunks'[p]
          PROVE  HasAvailable(At(p, j), p)' <=> j = emptyChunk'[p]
      <3>1. j # emptyChunk'[p] BY <2>2, <1>6
      <3>2. CASE j = m
        <4>1. At(p, j)' = d BY <3>2, <2>3, <1>6 DEF At
        <4> QED BY <4>1, <3>1, <2>1, <1>2 DEF HasAvailable
      <3>3. CASE j # m
        <4>1. j \in 1 .. Last(p) BY <3>3, <1>4, <1>6
        <4>2. chunks[p][j] \in Area /\ chunks[p][j] # a
          BY <4>1, <1>3, <1>4, <1>6 DEF Areas
        <4>3. At(p, j)' = At(p, j) BY <4>1, <4>2, <2>3, <1>6 DEF At
        <4>4. ~HasAvailable(At(p, j), p)
          <5>1. HasAvailable(At(p, j), p) <=> j = emptyChunk[p]
            BY <4>1, <1>6 DEF Inv, PoolOK
          <5> QED BY <5>1, <4>1, <1>1, <1>4 DEF Null
        <4> QED BY <4>3, <4>4, <3>1, <2>1 DEF HasAvailable
      <3> QED BY <3>2, <3>3
    <2>5. emptyChunk'[p] \in 0 .. Last(p)'
      BY <2>2, <1>4, <1>6 DEF Last
    <2>6. /\ allocChunk'[p] \in DOMAIN chunks'[p]
          /\ deallocChunk'[p] \in DOMAIN chunks'[p] /\ chunks'[p] # <<>>
      BY <2>2, <1>4, <1>6
    <2>7. ASSUME NEW b \in Areas(p)'
          PROVE  Chained(chunk[b], NumBlocks(p), Free(p, b))'
      <3>1. CASE b = a
        <4>1. Free(p, b)' = {i \in 0 .. n - 1 : holders'[<<b, i>>] = 0}
          BY <2>1 DEF Free
        <4>2. ASSUME NEW i \in 0 .. n - 1
              PROVE  holders'[<<b, i>>] = 0 <=> i # 0
          BY <3>1, <1>2, <1>3, <1>8
        <4>3. Free(p, b)' = (0 .. n - 1) \ {0} BY <4>1, <4>2
        <4>4. chunk'[b] = d BY <3>1, <2>3
        <4> QED BY <4>3, <4>4, <1>2, ChainedNext
      <3>2. CASE b # a
        <4>0. b \in Areas(p) /\ b \in Area
          BY <3>2, <1>7, ChunkFacts DEF Areas
        <4>1. Free(p, b)' = Free(p, b)
          BY <4>0, <3>2, <1>2, <1>8, <2>1 DEF Free
        <4>2. Chained(chunk[b], NumBlocks(p), Free(p, b))
          BY <4>0 DEF Inv, PoolOK
        <4> QED BY <4>0, <3>2, <4>1, <4>2, <2>3, ChainedNext
      <3> QED BY <3>1, <3>2
    <2> QED BY <2>4, <2>5, <2>6, <2>7 DEF PoolOK
  <1>13. HoldersOK'
    <2>1. ASSUME NEW b \in Area, NEW i \in Slot, holders'[<<b, i>>] = 1
          PROVE  \/ b \in large' /\ i = 0
                 \/ \E q \in Pools : b \in Areas(q)' /\ i \in 0 .. NumBlocks(q)' - 1
      <3>1. CASE b = a /\ i = 0
        <4>1. b \in Areas(p)' /\ i \in 0 .. NumBlocks(p)' - 1
          BY <3>1, <1>2, <1>7 DEF NumBlocks
        <4> QED BY <4>1
      <3>2. CASE ~(b = a /\ i = 0)
        <4>1. holders[<<b, i>>] = 1 BY <2>1, <3>2, <1>8
        <4>2. CASE b \in large /\ i = 0 BY <4>2, <1>1
        <4>3. CASE ~(b \in large /\ i = 0)
          <5>1. PICK q \in Pools : b \in Areas(q) /\ i \in 0 .. NumBlocks(q) - 1
            BY <4>1, <4>3 DEF Inv, HoldersOK
          <5>2. Areas(q) \subseteq Areas(q)' /\ NumBlocks(q)' = NumBlocks(q)
            BY <1>7 DEF NumBlocks
          <5> QED BY <5>1, <5>2
        <4> QED BY <4>2, <4>3
      <3> QED BY <3>1, <3>2
    <2>2. ASSUME NEW b \in large PROVE holders'[<<b, 0>>] = 1
      BY <1>3, <1>8, SlotHasZero DEF Inv, TypeOK, HoldersOK
    <2> QED BY <1>1, <1>8, <2>1, <2>2 DEF HoldersOK
  <1>14. RoomOK'
    <2>1. ASSUME NEW q \in Pools, q # p PROVE Last(q)' <= room'[q]
      BY <2>1, <1>1, <1>5 DEF Inv, TypeOK, RoomOK, Last
    <2>2. room[p] \in Nat /\ Last(p) <= room[p] BY DEF Inv, TypeOK, RoomOK
    <2>3. Reserved(p) >= m BY <2>2, <1>4 DEF Reserved
    <2>4. room'[p] = Reserved(p) /\ Last(p)' = m
      BY <1>1, <1>6 DEF Inv, TypeOK, Last
    <2>5. Reserved(p) \in Nat BY <2>2, <1>4 DEF Reserved
    <2>6. Last(p)' <= room'[p] BY SMTT(30), <2>3, <2>4, <2>5, <1>4
    <2> QED BY <2>1, <2>6 DEF RoomOK
  <1> QED BY <1>9, <1>10, <1>11, <1>12, <1>13, <1>14 DEF Inv
-----------------------------------------------------------------------------
(* A chunk goes.                                                           *)

(* The last chunk takes the place of the one that goes.                    *)
LEMMA SwappedPlaces ==
  ASSUME NEW s \in Seq(Area), NEW g \in DOMAIN s
  PROVE  /\ Swapped(s, g) \in Seq(Area)
         /\ Len(s) \in Nat \ {0} /\ DOMAIN s = 1 .. Len(s)
         /\ DOMAIN Swapped(s, g) = 1 .. Len(s) - 1
         /\ Len(Swapped(s, g)) = Len(s) - 1
         /\ \A j \in 1 .. Len(s) - 1 :
              Swapped(s, g)[j] = s[IF j = g THEN Len(s) ELSE j]
  <1> DEFINE n == Len(s)
             t == [s EXCEPT ![g] = s[n]]
  <1>1. n \in Nat \ {0} /\ DOMAIN s = 1 .. n /\ g \in 1 .. n /\ s[n] \in Area
    OBVIOUS
  <1>2. t \in Seq(Area) /\ Len(t) = n
    <2>1. t \in [1 .. n -> Area] BY <1>1
    <2> QED BY <1>1, <2>1
  <1>3. \A j \in 1 .. n : t[j] = s[IF j = g THEN n ELSE j] BY <1>1
  <1> HIDE DEF t
  <1>4. 1 \in Nat /\ n - 1 \in Nat BY <1>1
  <1> DEFINE u == SubSeq(t, 1, n - 1)
  <1>5. /\ u \in Seq(Area) /\ Len(u) = n - 1
        /\ \A j \in 1 .. n - 1 : u[j] = t[j]
    BY <1>1, <1>2
  <1>6. u = Swapped(s, g) BY DEF Swapped, t
  <1>7. \A j \in 1 .. n - 1 : j \in 1 .. n BY <1>1
  <1> HIDE DEF u
  <1>8. DOMAIN u = 1 .. n - 1 BY <1>5
  <1> QED BY <1>1, <1>3, <1>5, <1>6, <1>7, <1>8

(* Where the j-th of n chunks was before the g-th went.                    *)
Was(n, g, j) == IF j = g THEN n ELSE j

LEMMA WasElsewhere ==
  ASSUME NEW n \in Nat, NEW g \in 1 .. n
  PROVE  /\ \A j \in 1 .. n - 1 : Was(n, g, j) \in 1 .. n /\ Was(n, g, j) # g
         /\ \A j, k \in 1 .. n - 1 : Was(n, g, j) = Was(n, g, k) => j = k
         /\ \A h \in 1 .. n : h # g => \E j \in 1 .. n - 1 : Was(n, g, j) = h
  <1>1. /\ \A j \in 1 .. n - 1 : Was(n, g, j) \in 1 .. n /\ Was(n, g, j) # g
        /\ \A j, k \in 1 .. n - 1 : Was(n, g, j) = Was(n, g, k) => j = k
    BY DEF Was
  <1>2. ASSUME NEW h \in 1 .. n, h # g
        PROVE  \E j \in 1 .. n - 1 : Was(n, g, j) = h
    <2>1. CASE h = n
      <3>1. g \in 1 .. n - 1 /\ Was(n, g, g) = h BY <1>2, <2>1 DEF Was
      <3> QED BY <3>1
    <2>2. CASE h # n
      <3>1. h \in 1 .. n - 1 /\ Was(n, g, h) = h BY <1>2, <2>2 DEF Was
      <3> QED BY <3>1
    <2> QED BY <2>1, <2>2
  <1> QED BY <1>1, <1>2

AreasOf(s) == {s[j] : j \in DOMAIN s}
Distinct(s) == \A j, k \in DOMAIN s : s[j] = s[k] => j = k

(* The areas that are left.                                                *)
LEMMA AreasLeft ==
  ASSUME Inv, NEW p \in Pools, NEW g \in DOMAIN chunks[p],
         NEW s, s = Swapped(chunks[p], g)
  PROVE  /\ s \in Seq(Area) /\ Last(p) \in Nat \ {0} /\ g \in 1 .. Last(p)
         /\ DOMAIN chunks[p] = 1 .. Last(p)
         /\ DOMAIN s = 1 .. Last(p) - 1 /\ Len(s) = Last(p) - 1
         /\ \A j \in DOMAIN s :
              /\ Was(Last(p), g, j) \in DOMAIN chunks[p]
              /\ Was(Last(p), g, j) # g
              /\ s[j] = chunks[p][Was(Last(p), g, j)]
         /\ Distinct(s)
         /\ AreasOf(s) = Areas(p) \ {chunks[p][g]}
  <1> DEFINE n == Last(p)
  <1>1. chunks[p] \in Seq(Area) BY DEF Inv, TypeOK
  <1>2. /\ s \in Seq(Area) /\ n \in Nat \ {0} /\ DOMAIN chunks[p] = 1 .. n
        /\ DOMAIN s = 1 .. n - 1 /\ Len(s) = n - 1
        /\ \A j \in 1 .. n - 1 : s[j] = chunks[p][Was(n, g, j)]
    <2>1. n = Len(chunks[p]) BY DEF Last
    <2> HIDE DEF n
    <2>2. /\ s \in Seq(Area) /\ n \in Nat \ {0} /\ DOMAIN chunks[p] = 1 .. n
          /\ DOMAIN s = 1 .. n - 1 /\ Len(s) = n - 1
          /\ \A j \in 1 .. n - 1 : s[j] = chunks[p][IF j = g THEN n ELSE j]
      <3>1. /\ Swapped(chunks[p], g) \in Seq(Area)
            /\ Len(chunks[p]) \in Nat \ {0}
            /\ DOMAIN chunks[p] = 1 .. Len(chunks[p])
            /\ DOMAIN Swapped(chunks[p], g) = 1 .. Len(chunks[p]) - 1
            /\ Len(Swapped(chunks[p], g)) = Len(chunks[p]) - 1
            /\ \A j \in 1 .. Len(chunks[p]) - 1 :
                 Swapped(chunks[p], g)[j]
                   = chunks[p][IF j = g THEN Len(chunks[p]) ELSE j]
        BY <1>1, SwappedPlaces
      <3> QED BY <2>1, <3>1
    <2> QED BY <2>2 DEF Was
  <1> HIDE DEF n
  <1>3. n \in Nat /\ g \in 1 .. n BY <1>2
  <1>4. /\ \A j \in 1 .. n - 1 : Was(n, g, j) \in 1 .. n /\ Was(n, g, j) # g
        /\ \A j, k \in 1 .. n - 1 : Was(n, g, j) = Was(n, g, k) => j = k
        /\ \A h \in 1 .. n : h # g => \E j \in 1 .. n - 1 : Was(n, g, j) = h
    <2>1. \A j \in 1 .. n - 1 : Was(n, g, j) \in 1 .. n /\ Was(n, g, j) # g
      BY <1>3, WasElsewhere
    <2>2. \A j, k \in 1 .. n - 1 : Was(n, g, j) = Was(n, g, k) => j = k
      BY <1>3, WasElsewhere
    <2>3. \A h \in 1 .. n : h # g => \E j \in 1 .. n - 1 : Was(n, g, j) = h
      BY <1>3, WasElsewhere
    <2> QED BY <2>1, <2>2, <2>3
  <1>5. \A u, v \in 1 .. n : chunks[p][u] = chunks[p][v] => u = v
    BY <1>2 DEF Inv, AreasDiffer
  <1>6. ASSUME NEW j \in 1 .. n - 1, NEW k \in 1 .. n - 1, s[j] = s[k]
        PROVE  j = k
    <2>1. chunks[p][Was(n, g, j)] = chunks[p][Was(n, g, k)]
      BY <1>2, <1>6
    <2>2. Was(n, g, j) = Was(n, g, k) BY <2>1, <1>4, <1>5
    <2> QED BY <2>2, <1>4
  <1>7. AreasOf(s) = Areas(p) \ {chunks[p][g]}
    <2>0. DOMAIN s = 1 .. n - 1 BY <1>2
    <2>1. ASSUME NEW j \in 1 .. n - 1
          PROVE  s[j] \in Areas(p) \ {chunks[p][g]}
      <3>1. s[j] = chunks[p][Was(n, g, j)] BY <1>2
      <3>2. Was(n, g, j) \in 1 .. n /\ Was(n, g, j) # g BY <1>4
      <3>3. s[j] \in Areas(p) BY <3>1, <3>2, <1>2 DEF Areas
      <3>4. s[j] # chunks[p][g] BY <3>1, <3>2, <1>3, <1>5
      <3> QED BY <3>3, <3>4
    <2>2. ASSUME NEW b \in Areas(p) \ {chunks[p][g]}
          PROVE  \E j \in 1 .. n - 1 : s[j] = b
      <3>1. PICK h \in 1 .. n : chunks[p][h] = b BY <1>2 DEF Areas
      <3>2. h # g BY <3>1
      <3>3. PICK j \in 1 .. n - 1 : Was(n, g, j) = h BY <3>2, <1>4
      <3> QED BY <3>1, <3>3, <1>2
    <2>3. AreasOf(s) \subseteq Areas(p) \ {chunks[p][g]}
      BY <2>0, <2>1 DEF AreasOf
    <2>4. Areas(p) \ {chunks[p][g]} \subseteq AreasOf(s)
      BY <2>0, <2>2 DEF AreasOf
    <2> QED BY <2>3, <2>4
  <1>8. Distinct(s) BY <1>2, <1>6 DEF Distinct
  <1> QED BY <1>2, <1>3, <1>4, <1>7, <1>8 DEF n

LEMMA AreasWithout ==
  ASSUME Inv, NEW p \in Pools, NEW g \in DOMAIN chunks[p]
  PROVE  AreasOf(Swapped(chunks[p], g)) = Areas(p) \ {chunks[p][g]}
  <1>1. PICK s : s = Swapped(chunks[p], g) OBVIOUS
  <1>2. AreasOf(s) = Areas(p) \ {chunks[p][g]} BY <1>1, AreasLeft
  <1> QED BY <1>1, <1>2

LEMMA DifferWithout ==
  ASSUME Inv, NEW p \in Pools, NEW g \in DOMAIN chunks[p]
  PROVE  Distinct(Swapped(chunks[p], g))
  <1>1. PICK s : s = Swapped(chunks[p], g) OBVIOUS
  <1>2. Distinct(s) BY <1>1, AreasLeft
  <1> QED BY <1>1, <1>2

LEMMA StillDiffer ==
  ASSUME Inv, large' = large,
         \A q \in Pools : Areas(q)' \subseteq Areas(q),
         \A q \in Pools : \A j, k \in DOMAIN chunks'[q] :
           chunks'[q][j] = chunks'[q][k] => j = k
  PROVE  AreasDiffer'
  <1>1. ASSUME NEW q \in Pools, NEW r \in Pools,
               NEW j \in DOMAIN chunks'[q], NEW k \in DOMAIN chunks'[r],
               chunks'[q][j] = chunks'[r][k]
        PROVE  q = r /\ j = k
    <2>1. chunks'[q][j] \in Areas(q)' /\ chunks'[r][k] \in Areas(r)'
      BY DEF Areas
    <2>2. chunks'[q][j] \in Areas(q) /\ chunks'[r][k] \in Areas(r) BY <2>1
    <2>3. PICK u \in DOMAIN chunks[q] : chunks[q][u] = chunks'[q][j]
      BY <2>2 DEF Areas
    <2>4. PICK v \in DOMAIN chunks[r] : chunks[r][v] = chunks'[r][k]
      BY <2>2 DEF Areas
    <2>5. q = r BY <2>3, <2>4, <1>1, OnePlace
    <2> QED BY <2>5, <1>1
  <1>2. ASSUME NEW q \in Pools PROVE (Areas(q) \cap large)' = {}
    BY DEF Inv, AreasDiffer
  <1> QED BY <1>1, <1>2 DEF AreasDiffer

LEMMA StillHeld ==
  ASSUME Inv, large' = large,
         holders' \in [Area \X Slot -> {0, 1}],
         \A b \in Area, i \in Slot :
           holders'[<<b, i>>] = 1 => holders[<<b, i>>] = 1,
         \A b \in large : holders'[<<b, 0>>] = 1,
         \A q \in Pools : \A b \in Areas(q) \ Areas(q)' : \A i \in Slot :
           holders'[<<b, i>>] = 0
  PROVE  HoldersOK'
  <1>1. ASSUME NEW b \in Area, NEW i \in Slot, holders'[<<b, i>>] = 1
        PROVE  \/ b \in large' /\ i = 0
               \/ \E q \in Pools : b \in Areas(q)' /\ i \in 0 .. NumBlocks(q)' - 1
    <2>1. holders[<<b, i>>] = 1 BY <1>1
    <2>2. CASE b \in large /\ i = 0 BY <2>2
    <2>3. CASE ~(b \in large /\ i = 0)
      <3>1. PICK q \in Pools : b \in Areas(q) /\ i \in 0 .. NumBlocks(q) - 1
        BY <2>1, <2>3 DEF Inv, HoldersOK
      <3>2. b \in Areas(q)' BY <3>1, <1>1
      <3>3. NumBlocks(q)' = NumBlocks(q) BY DEF NumBlocks
      <3> QED BY <3>1, <3>2, <3>3
    <2> QED BY <2>2, <2>3
  <1> QED BY <1>1 DEF HoldersOK

(* A pool that lost its g-th chunk, when the x-th is now the empty one.    *)
LEMMA PoolWithout ==
  ASSUME Inv, NEW p \in Pools, NEW g \in DOMAIN chunks[p],
         chunks'[p] = Swapped(chunks[p], g),
         emptyChunk'[p] \in 0 .. Last(p) - 1, emptyChunk'[p] # g,
         \A h \in DOMAIN chunks[p] : h # g =>
           /\ chunk'[chunks[p][h]].avail = NumBlocks(p) <=> h = emptyChunk'[p]
           /\ Chained(chunk'[chunks[p][h]], NumBlocks(p),
                      {i \in 0 .. NumBlocks(p) - 1 :
                         holders'[<<chunks[p][h], i>>] = 0}),
         Last(p) - 1 # 0 => /\ allocChunk'[p] \in 1 .. Last(p) - 1
                            /\ deallocChunk'[p] \in 1 .. Last(p) - 1,
         Last(p) - 1 = 0 => allocChunk'[p] \in {Null, Wild}
  PROVE  PoolOK(p)' /\ Areas(p)' = Areas(p) \ {chunks[p][g]}
  <1> DEFINE n == Last(p)
             x == emptyChunk'[p]
  <1>0. PICK s : s = Swapped(chunks[p], g) OBVIOUS
  <1>1. /\ s \in Seq(Area) /\ n \in Nat \ {0} /\ g \in 1 .. n
        /\ DOMAIN chunks[p] = 1 .. n
        /\ DOMAIN s = 1 .. n - 1 /\ Len(s) = n - 1
        /\ \A j \in DOMAIN s :
             /\ Was(n, g, j) \in DOMAIN chunks[p]
             /\ Was(n, g, j) # g
             /\ s[j] = chunks[p][Was(n, g, j)]
        /\ AreasOf(s) = Areas(p) \ {chunks[p][g]}
    <2>1. s \in Seq(Area) /\ n \in Nat \ {0} /\ g \in 1 .. n
      BY <1>0, AreasLeft, Zenon
    <2>2. DOMAIN chunks[p] = 1 .. n /\ DOMAIN s = 1 .. n - 1 /\ Len(s) = n - 1
      BY <1>0, AreasLeft, Zenon
    <2>3. \A j \in DOMAIN s :
             /\ Was(n, g, j) \in DOMAIN chunks[p]
             /\ Was(n, g, j) # g
             /\ s[j] = chunks[p][Was(n, g, j)]
      BY <1>0, AreasLeft, SMT
    <2>4. AreasOf(s) = Areas(p) \ {chunks[p][g]}
      BY <1>0, AreasWithout
    <2> QED BY <2>1, <2>2, <2>3, <2>4
  <1>2. Areas(p)' = Areas(p) \ {chunks[p][g]}
    <2>1. Areas(p)' = AreasOf(s) BY <1>0 DEF Areas, AreasOf
    <2> QED BY <2>1, <1>1
  <1>3. NumBlocks(p)' = NumBlocks(p) BY DEF NumBlocks
  <1>4. ASSUME NEW j \in 1 .. n - 1
        PROVE  HasAvailable(At(p, j), p)' <=> j = x
    <2> DEFINE h == Was(n, g, j)
    <2>1. h \in DOMAIN chunks[p] /\ h # g /\ s[j] = chunks[p][h] BY <1>1
    <2>2. At(p, j)' = chunk'[chunks[p][h]] BY <2>1, <1>0 DEF At
    <2>3. HasAvailable(At(p, j), p)' <=> h = x
      BY <2>1, <2>2, <1>3 DEF HasAvailable
    <2>4. h = x <=> j = x BY <1>1 DEF Was
    <2> QED BY <2>3, <2>4
  <1>5. emptyChunk'[p] \in 0 .. Last(p)' BY <1>0, <1>1 DEF Last
  <1>6. ASSUME NEW b \in Areas(p)'
        PROVE  Chained(chunk[b], NumBlocks(p), Free(p, b))'
    <2>1. PICK h \in DOMAIN chunks[p] : b = chunks[p][h] /\ h # g
      BY <1>2 DEF Areas
    <2>2. Free(p, b)' = {i \in 0 .. NumBlocks(p) - 1 : holders'[<<b, i>>] = 0}
      BY <1>3 DEF Free
    <2>3. PICK c : c = chunk'[b] OBVIOUS
    <2>4. PICK F : F = {i \in 0 .. NumBlocks(p) - 1 : holders'[<<b, i>>] = 0}
      OBVIOUS
    <2>5. Chained(c, NumBlocks(p), F) BY <2>1, <2>3, <2>4
    <2>6. chunk'[b] = c /\ Free(p, b)' = F BY <2>2, <2>3, <2>4
    <2> QED BY <2>5, <2>6, ChainedNext
  <1>7. /\ s # <<>> => /\ allocChunk'[p] \in DOMAIN s
                       /\ deallocChunk'[p] \in DOMAIN s
        /\ s = <<>> => allocChunk'[p] \in {Null, Wild}
    BY <1>1
  <1> QED BY <1>0, <1>1, <1>2, <1>4, <1>5, <1>6, <1>7 DEF PoolOK

LEMMA SecondEmptyKeeps ==
  ASSUME Inv, NEW p \in Pools, NEW k \in DOMAIN chunks[p], NEW i \in Slot,
         holders[<<chunks[p][k], i>>] > 0, SecondEmpty(p, k, i)
  PROVE  Inv'
  <1> DEFINE n == Last(p)
             a == chunks[p][k]
             e == emptyChunk[p]
             g == Goes(p, k)
             z == chunks[p][g]
             d == After(p, k, i)
             x == IF k = n THEN e ELSE k
  <1>1. /\ d.avail = NumBlocks(p) /\ e # Null
        /\ chunks' = [chunks EXCEPT ![p] = Swapped(chunks[p], g)]
        /\ chunk' = [chunk EXCEPT ![a] = d, ![z] = NoChunk]
        /\ deallocChunk' = [deallocChunk EXCEPT ![p] = x]
        /\ allocChunk' = [allocChunk EXCEPT ![p] =
                            IF @ = n \/ IsFilled(chunk'[chunks'[p][@]])
                            THEN deallocChunk'[p] ELSE @]
        /\ emptyChunk' = [emptyChunk EXCEPT ![p] = deallocChunk'[p]]
        /\ holders' = [holders EXCEPT ![<<a, i>>] = @ - 1]
        /\ room' = room /\ large' = large /\ retrying' = retrying
    BY DEF SecondEmpty, HasAvailable, WithoutEmpty, TakeBack
  <1>2. /\ holders[<<a, i>>] = 1 /\ i \in 0 .. NumBlocks(p) - 1
        /\ k # e /\ d \in Chunk
        /\ Chained(d, NumBlocks(p), Free(p, a) \cup {i})
    <2>0. holders[<<a, i>>] = 1
      <3>1. a \in Area BY ChunkFacts
      <3>2. holders[<<a, i>>] \in {0, 1} BY <3>1 DEF Inv, HoldersOK
      <3> QED BY <3>2
    <2>1. i \in 0 .. NumBlocks(p) - 1 BY HeldBlock
    <2>2. k # e BY HeldBlock
    <2>3. d \in Chunk BY HeldBlock
    <2>4. Chained(d, NumBlocks(p), Free(p, a) \cup {i}) BY HeldBlock
    <2> QED BY <2>0, <2>1, <2>2, <2>3, <2>4
  <1>3. /\ n \in Nat /\ DOMAIN chunks[p] = 1 .. n /\ k \in 1 .. n /\ e \in 1 .. n
        /\ chunks[p] \in Seq(Area) /\ p \in Pools
    <2>1. n \in Nat /\ chunks[p] \in Seq(Area) BY ChunkFacts
    <2>2. e \in 0 .. n BY DEF Inv, PoolOK
    <2> QED BY <1>1, <2>1, <2>2 DEF Last, Null
  <1>4. /\ g \in 1 .. n /\ g \in {k, e} /\ x \in 1 .. n - 1 /\ x # g
        /\ x \in {k, e}
        /\ \A h \in 1 .. n : h # g => (h \in {k, e} <=> h = x)
    BY <1>2, <1>3 DEF Goes
  <1>5. /\ a \in Area /\ z \in Area /\ a \notin large
        /\ \A h \in 1 .. n : chunks[p][h] \in Area
        /\ \A h, j \in 1 .. n : chunks[p][h] = chunks[p][j] => h = j
    BY <1>3, <1>4, ChunkFacts DEF Inv, AreasDiffer
  <1> HIDE DEF d, g, x
  <1>6. /\ holders' \in [Area \X Slot -> {0, 1}]
        /\ holders'[<<a, i>>] = 0
        /\ \A b \in Area, j \in Slot :
             b # a \/ j # i => holders'[<<b, j>>] = holders[<<b, j>>]
    <2>1. holders \in [Area \X Slot -> {0, 1}] BY DEF Inv, HoldersOK
    <2>2. holders' = [holders EXCEPT ![<<a, i>>] = 0] BY <1>1, <1>2
    <2> QED BY <1>5, <2>1, <2>2, HolderSet
  <1>7. /\ chunk' \in [Area -> Chunk]
        /\ \A h \in 1 .. n : h # g =>
             chunk'[chunks[p][h]] = IF h = k THEN d ELSE At(p, h)
        /\ \A b \in Area : b # a /\ b # z => chunk'[b] = chunk[b]
    <2>1. NoChunk \in Chunk
      <3>1. [j \in Slot |-> 0] \in [Slot -> Nat] OBVIOUS
      <3> QED BY <3>1 DEF NoChunk, Chunk
    <2>2. chunk \in [Area -> Chunk] BY DEF Inv, TypeOK
    <2>3. \A b \in Area : chunk'[b] = IF b = z THEN NoChunk
                                      ELSE IF b = a THEN d ELSE chunk[b]
      BY <1>1, <1>5, <2>2
    <2>4. chunk' \in [Area -> Chunk] BY <1>1, <1>2, <2>1, <2>2
    <2>5. \A b \in Area : b # a /\ b # z => chunk'[b] = chunk[b] BY <2>3
    <2>6. ASSUME NEW h \in 1 .. n, h # g
          PROVE  chunk'[chunks[p][h]] = IF h = k THEN d ELSE At(p, h)
      <3>1. chunks[p][h] \in Area /\ chunks[p][h] # z
        BY <1>4, <1>5, <2>6
      <3>2. h # k => chunks[p][h] # a BY <1>3, <1>5
      <3> QED BY <2>3, <3>1, <3>2 DEF At
    <2> QED BY <2>4, <2>5, <2>6
  <1>8. /\ chunks'[p] = Swapped(chunks[p], g)
        /\ deallocChunk'[p] = x /\ emptyChunk'[p] = x
        /\ \A q \in Pools : q # p =>
             /\ chunks'[q] = chunks[q] /\ allocChunk'[q] = allocChunk[q]
             /\ deallocChunk'[q] = deallocChunk[q]
             /\ emptyChunk'[q] = emptyChunk[q]
    BY <1>1 DEF Inv, TypeOK
  <1>9. allocChunk'[p] \in 1 .. n - 1
    <2>0. allocChunk[p] # Wild BY DEF SecondEmpty
    <2>1. allocChunk[p] \in 1 .. n BY <1>3, <2>0 DEF Inv, PoolOK
    <2>2. \/ allocChunk'[p] = x
          \/ allocChunk[p] # n /\ allocChunk'[p] = allocChunk[p]
      BY <1>1, <1>8 DEF Inv, TypeOK
    <2> QED BY <2>1, <2>2, <1>3, <1>4
  <1>10. \A j \in Slot : holders'[<<z, j>>] = 0
    <2> SUFFICES ASSUME NEW j \in Slot PROVE holders'[<<z, j>>] = 0
      OBVIOUS
    <2>1. CASE g = e
      <3>1. HasAvailable(At(p, e), p) BY <1>3 DEF Inv, PoolOK
      <3>2. holders[<<z, j>>] = 0 BY <2>1, <3>1, <1>3, EmptyIsUnheld
      <3>3. z # a BY <2>1, <1>2, <1>3, <1>5
      <3> QED BY <3>2, <3>3, <1>5, <1>6
    <2>2. CASE g = k
      <3>1. CASE j = i BY <2>2, <3>1, <1>6
      <3>2. CASE j # i
        <4>1. holders'[<<z, j>>] = holders[<<z, j>>]
          BY <2>2, <3>2, <1>5, <1>6
        <4>2. Free(p, a) \cup {i} = 0 .. NumBlocks(p) - 1
          BY <1>1, <1>2, BlocksAreSlots, ChainBound
        <4>3. CASE j \in 0 .. NumBlocks(p) - 1
          <5>1. j \in Free(p, a) BY <4>2, <4>3, <3>2
          <5> QED BY <5>1, <4>1, <2>2 DEF Free
        <4>4. CASE j \notin 0 .. NumBlocks(p) - 1
          BY <4>4, <4>1, <2>2, BeyondIsUnheld
        <4> QED BY <4>3, <4>4
      <3> QED BY <3>1, <3>2
    <2> QED BY <2>1, <2>2, <1>4
  <1>11. ASSUME NEW h \in 1 .. n, h # g
         PROVE  /\ chunk'[chunks[p][h]].avail = NumBlocks(p) <=> h = x
                /\ Chained(chunk'[chunks[p][h]], NumBlocks(p),
                           {j \in 0 .. NumBlocks(p) - 1 :
                              holders'[<<chunks[p][h], j>>] = 0})
    <2>0. 0 .. NumBlocks(p) - 1 \subseteq Slot BY BlocksAreSlots
    <2>1. CASE h = k
      <3>1. h = x BY <2>1, <1>11, <1>4
      <3>2. {j \in 0 .. NumBlocks(p) - 1 : holders'[<<chunks[p][h], j>>] = 0}
              = Free(p, a) \cup {i}
        <4>1. ASSUME NEW j \in 0 .. NumBlocks(p) - 1
              PROVE  holders'[<<a, j>>] = 0 <=> holders[<<a, j>>] = 0 \/ j = i
          BY <1>5, <1>6, <2>0
        <4>2. Free(p, a) = {j \in 0 .. NumBlocks(p) - 1 : holders[<<a, j>>] = 0}
          BY DEF Free
        <4> QED BY <4>1, <4>2, <2>1, <1>2
      <3> QED BY <2>1, <3>1, <3>2, <1>1, <1>2, <1>7, <1>11
    <2>2. CASE h # k
      <3>1. chunk'[chunks[p][h]] = At(p, h) BY <2>2, <1>7, <1>11
      <3>2. HasAvailable(At(p, h), p) <=> h = e BY <1>3 DEF Inv, PoolOK
      <3>3. h = e <=> h = x BY <2>2, <1>4, <1>11
      <3>4. chunks[p][h] # a /\ chunks[p][h] \in Area BY <2>2, <1>3, <1>5
      <3>5. {j \in 0 .. NumBlocks(p) - 1 : holders'[<<chunks[p][h], j>>] = 0}
              = Free(p, chunks[p][h])
        BY <3>4, <2>0, <1>6 DEF Free
      <3>6. Chained(At(p, h), NumBlocks(p), Free(p, chunks[p][h]))
        BY <1>3, ChunkFacts
      <3> QED BY <3>1, <3>2, <3>3, <3>5, <3>6 DEF HasAvailable
    <2> QED BY <2>1, <2>2
  <1>12. PoolOK(p)' /\ Areas(p)' = Areas(p) \ {z}
    <2>1. emptyChunk'[p] \in 0 .. n - 1 /\ emptyChunk'[p] # g
      BY <1>4, <1>8
    <2>2. /\ allocChunk'[p] \in 1 .. n - 1 /\ deallocChunk'[p] \in 1 .. n - 1
          /\ n - 1 # 0
      BY <1>3, <1>4, <1>8, <1>9
    <2>3. \A h \in DOMAIN chunks[p] : h # g =>
             /\ chunk'[chunks[p][h]].avail = NumBlocks(p) <=> h = emptyChunk'[p]
             /\ Chained(chunk'[chunks[p][h]], NumBlocks(p),
                        {j \in 0 .. NumBlocks(p) - 1 :
                           holders'[<<chunks[p][h], j>>] = 0})
      BY <1>3, <1>8, <1>11
    <2>4. g \in DOMAIN chunks[p] BY <1>3, <1>4
    <2> QED BY <2>1, <2>2, <2>3, <2>4, <1>8, PoolWithout
  <1>13. ASSUME NEW q \in Pools, q # p
         PROVE  PoolOK(q)' /\ Areas(q)' = Areas(q)
    <2>1. \A b \in Areas(q) : b # a /\ b # z /\ b \in Area
      <3> SUFFICES ASSUME NEW b \in Areas(q)
                   PROVE  b # a /\ b # z /\ b \in Area
        OBVIOUS
      <3>1. PICK j \in DOMAIN chunks[q] : b = chunks[q][j] BY DEF Areas
      <3> QED BY <3>1, <1>3, <1>4, <1>13, OnePlace, ChunkFacts
    <2>2. \A b \in Areas(q) :
            /\ chunk'[b] = chunk[b]
            /\ \A j \in Slot : holders'[<<b, j>>] = holders[<<b, j>>]
      BY <2>1, <1>6, <1>7
    <2>3. PoolOK(q)' BY <2>2, <1>8, <1>13, OtherPool DEF Inv
    <2> QED BY <2>3, <1>8, <1>13 DEF Areas
  <1>14. TypeOK'
    <2>1. holders' \in [Area \X Slot -> Nat] BY <1>6
    <2>2. x \in Nat BY <1>4
    <2>3. deallocChunk' \in [Pools -> Nat \cup {Wild}] /\ emptyChunk' \in [Pools -> Nat]
      BY <2>2, <1>1, <1>8 DEF Inv, TypeOK
    <2>4. allocChunk' \in [Pools -> Nat \cup {Wild}]
      <3>1. allocChunk'[p] \in Nat BY <1>9
      <3>2. allocChunk' = [allocChunk EXCEPT ![p] = allocChunk'[p]]
        BY <1>1 DEF Inv, TypeOK
      <3> QED BY <3>1, <3>2 DEF Inv, TypeOK
    <2>5. chunks' \in [Pools -> Seq(Area)]
      <3>1. Swapped(chunks[p], g) \in Seq(Area) BY <1>3, <1>4, SwappedPlaces
      <3> QED BY <3>1, <1>1 DEF Inv, TypeOK
    <2> QED BY <1>1, <1>7, <2>1, <2>3, <2>4, <2>5 DEF Inv, TypeOK
  <1>15. AreasDiffer'
    <2>1. \A q \in Pools : Areas(q)' \subseteq Areas(q) BY <1>12, <1>13
    <2>2. ASSUME NEW q \in Pools,
                 NEW j \in DOMAIN chunks'[q], NEW h \in DOMAIN chunks'[q],
                 chunks'[q][j] = chunks'[q][h]
          PROVE  j = h
      <3>1. CASE q = p
        <4>1. PICK s : s = Swapped(chunks[p], g) OBVIOUS
        <4>2. g \in DOMAIN chunks[p] BY <1>3, <1>4
        <4>3. \A u, v \in DOMAIN s : s[u] = s[v] => u = v
          BY <4>1, <4>2, DifferWithout DEF Distinct
        <4> QED BY <3>1, <4>1, <4>3, <2>2, <1>8
      <3>2. CASE q # p BY <3>2, <2>2, <1>8, OnePlace
      <3> QED BY <3>1, <3>2
    <2> QED BY <1>1, <2>1, <2>2, StillDiffer
  <1>16. HoldersOK'
    <2>1. \A b \in Area, j \in Slot :
            holders'[<<b, j>>] = 1 => holders[<<b, j>>] = 1
      BY <1>6
    <2>2. \A b \in large : holders'[<<b, 0>>] = 1
      BY <1>5, <1>6, SlotHasZero DEF Inv, TypeOK, HoldersOK
    <2>3. ASSUME NEW q \in Pools, NEW b \in Areas(q) \ Areas(q)'
          PROVE  b = z
      BY <2>3, <1>12, <1>13
    <2> QED BY <2>1, <2>2, <2>3, <1>1, <1>6, <1>10, StillHeld
  <1>17. RoomOK'
    <2>1. ASSUME NEW q \in Pools, q # p PROVE Last(q)' <= room'[q]
      BY <2>1, <1>1, <1>8 DEF Inv, RoomOK, Last
    <2>2. Last(p)' = n - 1
      <3>1. g \in DOMAIN chunks[p] BY <1>3, <1>4
      <3>2. chunks[p] \in Seq(Area) BY DEF Inv, TypeOK
      <3>3. Len(Swapped(chunks[p], g)) = Len(chunks[p]) - 1
        BY <3>1, <3>2, SwappedPlaces
      <3>4. chunks'[p] = Swapped(chunks[p], g) BY <1>8
      <3>5. Len(chunks[p]) = n BY <1>3 DEF Last
      <3> QED BY <3>3, <3>4, <3>5 DEF Last
    <2>3. n <= room[p] /\ room[p] \in Nat BY DEF Inv, TypeOK, RoomOK
    <2>4. Last(p)' <= room'[p] BY <2>2, <2>3, <1>1, <1>3
    <2> QED BY <2>1, <2>4 DEF RoomOK
  <1> QED BY <1>12, <1>13, <1>14, <1>15, <1>16, <1>17 DEF Inv

-----------------------------------------------------------------------------
(* Trimming.                                                               *)

(* A released area was an empty chunk's, and no other pool has it.         *)
LEMMA ReleasedFacts ==
  ASSUME Inv, NEW p \in Pools, NEW b \in Released(p)
  PROVE  /\ emptyChunk[p] \in DOMAIN chunks[p]
         /\ b = chunks[p][emptyChunk[p]] /\ b \in Area /\ b \notin large
         /\ \A i \in Slot : holders[<<b, i>>] = 0
         /\ \A q \in Pools : \A h \in DOMAIN chunks[q] :
              chunks[q][h] = b => q = p /\ h = emptyChunk[q]
  <1> DEFINE e == emptyChunk[p]
  <1>1. e # Null /\ b = chunks[p][e] BY DEF Released
  <1>2. e \in DOMAIN chunks[p]
    <2>1. e \in 0 .. Last(p) /\ chunks[p] \in Seq(Area)
      BY DEF Inv, TypeOK, PoolOK
    <2> QED BY <2>1, <1>1 DEF Null, Last
  <1>3. b \in Area /\ b \notin large BY <1>1, <1>2, ChunkFacts
  <1>4. HasAvailable(At(p, e), p) BY <1>2 DEF Inv, PoolOK
  <1>5. \A i \in Slot : holders[<<b, i>>] = 0
    BY <1>1, <1>2, <1>4, EmptyIsUnheld
  <1>6. \A q \in Pools : \A h \in DOMAIN chunks[q] :
          chunks[q][h] = b => q = p /\ h = emptyChunk[q]
    BY <1>1, <1>2, OnePlace
  <1> QED BY <1>1, <1>2, <1>3, <1>5, <1>6

LEMMA TrimAllKeeps ==
  ASSUME Inv, NEW rm \in [Pools -> Nat], \A p \in Pools : room[p] <= rm[p],
         TrimAll(rm), retrying' \in Pools \cup {Null}
  PROVE  Inv'
  <1>1. /\ chunks' = [p \in Pools |-> Trimmed(p)]
        /\ emptyChunk' = [p \in Pools |-> Null]
        /\ room' = [p \in Pools |-> Len(Trimmed(p))]
        /\ allocChunk' = [p \in Pools |->
              IF rm[p] = Len(Trimmed(p)) THEN allocChunk[p]
              ELSE IF Trimmed(p) = <<>> THEN Wild ELSE Len(Trimmed(p))]
        /\ deallocChunk' = [p \in Pools |->
              IF rm[p] = Len(Trimmed(p)) THEN deallocChunk[p]
              ELSE IF Trimmed(p) = <<>> THEN Null ELSE 1]
        /\ chunk' = [a \in Area |->
              IF \E p \in Pools : a \in Released(p) THEN NoChunk ELSE chunk[a]]
        /\ large' = large /\ holders' = holders
    BY DEF TrimAll
  <1>2. ASSUME NEW p \in Pools
        PROVE  /\ chunks'[p] = Trimmed(p) /\ emptyChunk'[p] = 0
               /\ room'[p] = Len(Trimmed(p))
               /\ allocChunk'[p] =
                    IF rm[p] = Len(Trimmed(p)) THEN allocChunk[p]
                    ELSE IF Trimmed(p) = <<>> THEN Wild ELSE Len(Trimmed(p))
               /\ deallocChunk'[p] =
                    IF rm[p] = Len(Trimmed(p)) THEN deallocChunk[p]
                    ELSE IF Trimmed(p) = <<>> THEN Null ELSE 1
    BY <1>1 DEF Null
  <1>3. ASSUME NEW p \in Pools, NEW h \in DOMAIN chunks[p], h # emptyChunk[p]
        PROVE  chunk'[chunks[p][h]] = At(p, h)
    <2>1. chunks[p][h] \in Area BY ChunkFacts
    <2>2. ~ \E q \in Pools : chunks[p][h] \in Released(q)
      BY <1>3, ReleasedFacts
    <2> QED BY <2>1, <2>2, <1>1 DEF At
  <1>4. ASSUME NEW p \in Pools
        PROVE  /\ PoolOK(p)' /\ Areas(p)' = Areas(p) \ Released(p)
               /\ Last(p)' = Len(Trimmed(p)) /\ Trimmed(p) \in Seq(Area)
               /\ Len(Trimmed(p)) \in Nat
               /\ allocChunk'[p] \in Nat \cup {Wild}
               /\ deallocChunk'[p] \in Nat \cup {Wild}
               /\ Distinct(chunks'[p])
    <2> DEFINE n == Last(p)
               e == emptyChunk[p]
    <2>1. /\ chunks[p] \in Seq(Area) /\ n \in Nat /\ DOMAIN chunks[p] = 1 .. n
          /\ n <= rm[p] /\ rm[p] \in Nat /\ e \in 0 .. n
          /\ allocChunk[p] \in Nat \cup {Wild}
          /\ deallocChunk[p] \in Nat \cup {Wild}
      BY DEF Inv, TypeOK, RoomOK, PoolOK, Last
    <2>2. Last(p)' = Len(Trimmed(p)) BY <1>2 DEF Last
    <2>3. 0 .. NumBlocks(p) - 1 \subseteq Slot BY BlocksAreSlots
    <2>4. CASE e = Null
      <3>1. Trimmed(p) = chunks[p] /\ Released(p) = {} /\ Len(Trimmed(p)) = n
        BY <2>4 DEF Trimmed, Released, Last
      <3>2. Areas(p)' = Areas(p) BY <3>1, <1>2 DEF Areas
      <3>3. /\ NumBlocks(p)' = NumBlocks(p)
            /\ \A h \in DOMAIN chunks[p] : At(p, h)' = At(p, h)
        <4>1. \A h \in DOMAIN chunks[p] : At(p, h)' = At(p, h)
          BY <1>2, <1>3, <2>1, <2>4, <3>1 DEF At, Null
        <4> QED BY <4>1 DEF NumBlocks
      <3>4. \A h \in DOMAIN chunks[p] :
              HasAvailable(At(p, h), p)' <=> h = emptyChunk'[p]
        BY <3>3, <2>4, <1>2 DEF HasAvailable, Inv, PoolOK, Null
      <3>5. /\ chunks[p] # <<>> =>
                 /\ allocChunk'[p] \in DOMAIN chunks[p] \cup {Wild}
                 /\ deallocChunk'[p] \in DOMAIN chunks[p] \cup {Wild}
            /\ chunks[p] = <<>> => allocChunk'[p] \in {Null, Wild}
            /\ allocChunk'[p] \in Nat \cup {Wild}
            /\ deallocChunk'[p] \in Nat \cup {Wild}
        BY <1>2, <2>1, <3>1 DEF Inv, PoolOK, Null
      <3>6. ASSUME NEW b \in Areas(p)
            PROVE  Chained(chunk[b], NumBlocks(p), Free(p, b))'
        <4>1. PICK h \in DOMAIN chunks[p] : b = chunks[p][h] BY DEF Areas
        <4>2. chunk'[b] = chunk[b]
          BY <4>1, <1>3, <2>1, <2>4 DEF At, Null
        <4>3. Free(p, b)' = Free(p, b) BY <1>1, <3>3 DEF Free
        <4>4. Chained(chunk[b], NumBlocks(p), Free(p, b)) BY DEF Inv, PoolOK
        <4> QED BY <4>2, <4>3, <4>4, ChainedNext
      <3>7. PoolOK(p)'
        BY <1>2, <2>2, <2>1, <3>1, <3>2, <3>4, <3>5, <3>6 DEF PoolOK
      <3>8. Distinct(chunks'[p]) BY <3>1, <1>2, OnePlace DEF Distinct
      <3> QED BY <2>1, <2>2, <3>1, <3>2, <3>5, <3>7, <3>8
    <2>5. CASE e # Null
      <3>1. /\ Trimmed(p) = Swapped(chunks[p], e) /\ e \in DOMAIN chunks[p]
            /\ Released(p) = {chunks[p][e]} /\ e # 0
        BY <2>1, <2>5 DEF Trimmed, Released, Null
      <3>2. /\ Trimmed(p) \in Seq(Area) /\ Len(Trimmed(p)) = n - 1
            /\ n \in Nat \ {0} /\ (Trimmed(p) = <<>> <=> n - 1 = 0)
        <4>1. /\ Swapped(chunks[p], e) \in Seq(Area)
              /\ Len(Swapped(chunks[p], e)) = n - 1
          BY <2>1, <3>1, SwappedPlaces DEF Last
        <4> QED BY <4>1, <3>1, <2>1
      <3>3. /\ n - 1 # 0 => /\ allocChunk'[p] \in 1 .. n - 1
                            /\ deallocChunk'[p] \in 1 .. n - 1
            /\ n - 1 = 0 => allocChunk'[p] \in {Null, Wild}
            /\ allocChunk'[p] \in Nat \cup {Wild}
            /\ deallocChunk'[p] \in Nat \cup {Wild}
        BY <1>2, <2>1, <3>2 DEF Null
      <3>4. ASSUME NEW h \in DOMAIN chunks[p], h # e
            PROVE  /\ chunk'[chunks[p][h]].avail = NumBlocks(p)
                        <=> h = emptyChunk'[p]
                   /\ Chained(chunk'[chunks[p][h]], NumBlocks(p),
                              {i \in 0 .. NumBlocks(p) - 1 :
                                 holders'[<<chunks[p][h], i>>] = 0})
        <4>1. chunk'[chunks[p][h]] = At(p, h) BY <1>3, <3>4
        <4>2. h # emptyChunk'[p] BY <1>2, <2>1
        <4>3. ~HasAvailable(At(p, h), p) BY <3>4 DEF Inv, PoolOK
        <4>4. {i \in 0 .. NumBlocks(p) - 1 : holders'[<<chunks[p][h], i>>] = 0}
                = Free(p, chunks[p][h])
          BY <1>1 DEF Free
        <4>5. Chained(At(p, h), NumBlocks(p), Free(p, chunks[p][h]))
          BY ChunkFacts
        <4> QED BY <4>1, <4>2, <4>3, <4>4, <4>5 DEF HasAvailable
      <3>5. PoolOK(p)' /\ Areas(p)' = Areas(p) \ {chunks[p][e]}
        <4>1. /\ chunks'[p] = Swapped(chunks[p], e)
              /\ emptyChunk'[p] \in 0 .. n - 1 /\ emptyChunk'[p] # e
          BY <1>2, <3>1, <3>2
        <4> QED BY <4>1, <3>1, <3>3, <3>4, PoolWithout
      <3>6. Distinct(chunks'[p]) BY <1>2, <3>1, DifferWithout
      <3> QED BY <2>2, <3>1, <3>2, <3>3, <3>5, <3>6
    <2> QED BY <2>4, <2>5
  <1>5. TypeOK'
    <2>1. NoChunk \in Chunk
      <3>1. [j \in Slot |-> 0] \in [Slot -> Nat] OBVIOUS
      <3> QED BY <3>1 DEF NoChunk, Chunk
    <2>2. chunk' \in [Area -> Chunk] BY <2>1, <1>1 DEF Inv, TypeOK
    <2>3. chunks' \in [Pools -> Seq(Area)] /\ room' \in [Pools -> Nat]
      BY <1>1, <1>4
    <2>4. /\ allocChunk' \in [Pools -> Nat \cup {Wild}]
          /\ deallocChunk' \in [Pools -> Nat \cup {Wild}]
      <3>1. DOMAIN allocChunk' = Pools /\ DOMAIN deallocChunk' = Pools
        BY <1>1
      <3>2. /\ allocChunk' = [p \in Pools |-> allocChunk'[p]]
            /\ deallocChunk' = [p \in Pools |-> deallocChunk'[p]]
        BY <1>1
      <3> QED BY <3>2, <1>4
    <2>5. emptyChunk' \in [Pools -> Nat] BY <1>1 DEF Null
    <2> QED BY <1>1, <2>2, <2>3, <2>4, <2>5 DEF Inv, TypeOK
  <1>6. AreasDiffer'
    <2>1. \A q \in Pools : Areas(q)' \subseteq Areas(q) BY <1>4
    <2>2. \A q \in Pools : \A j, h \in DOMAIN chunks'[q] :
            chunks'[q][j] = chunks'[q][h] => j = h
      BY <1>4 DEF Distinct
    <2> QED BY <1>1, <2>1, <2>2, StillDiffer
  <1>7. HoldersOK'
    <2>1. \A q \in Pools : \A b \in Areas(q) \ Areas(q)' : b \in Released(q)
      BY <1>4
    <2>2. \A q \in Pools : \A b \in Areas(q) \ Areas(q)' : \A i \in Slot :
            holders'[<<b, i>>] = 0
      <3> SUFFICES ASSUME NEW q \in Pools, NEW b \in Released(q), NEW i \in Slot
                   PROVE  holders[<<b, i>>] = 0
        BY <2>1, <1>1
      <3> QED BY ReleasedFacts
    <2> QED BY <2>2, <1>1, StillHeld DEF Inv, HoldersOK
  <1>8. RoomOK' BY <1>2, <1>4 DEF RoomOK
  <1> QED BY <1>4, <1>5, <1>6, <1>7, <1>8 DEF Inv

-----------------------------------------------------------------------------
(* The invariant holds.                                                    *)

LEMMA InitHolds ==
  ASSUME Init PROVE Inv
  <1>1. NoChunk \in Chunk
    <2>1. [j \in Slot |-> 0] \in [Slot -> Nat] OBVIOUS
    <2> QED BY <2>1 DEF NoChunk, Chunk
  <1>2. TypeOK
    <2>1. <<>> \in Seq(Area) OBVIOUS
    <2> QED BY <1>1, <2>1 DEF Init, TypeOK, Null
  <1>3. \A p \in Pools : Areas(p) = {} /\ Last(p) = 0 /\ DOMAIN chunks[p] = {}
    BY DEF Init, Areas, Last
  <1>4. AreasDiffer BY <1>3 DEF AreasDiffer
  <1>5. \A p \in Pools : PoolOK(p) BY <1>3 DEF Init, PoolOK, Null
  <1>6. HoldersOK BY DEF Init, HoldersOK
  <1>7. RoomOK BY <1>3 DEF Init, RoomOK
  <1> QED BY <1>2, <1>4, <1>5, <1>6, <1>7 DEF Inv

(* The three ways a block comes from a chunk that was there.               *)
LEMMA AllocateIsHandOut ==
  ASSUME Inv, NEW p \in Pools,
         AllocateHere(p) \/ AllocateFromEmpty(p) \/ AllocateFromOther(p)
  PROVE  \E k : HandsOut(p, k)
  <1>1. /\ chunks[p] \in Seq(Area) /\ emptyChunk[p] \in 0 .. Last(p)
        /\ DOMAIN chunks[p] = 1 .. Last(p) /\ Last(p) \in Nat
        /\ allocChunk \in [Pools -> Nat \cup {Wild}]
        /\ emptyChunk \in [Pools -> Nat]
        /\ allocChunk[p] \notin {Null, Wild} => allocChunk[p] \in DOMAIN chunks[p]
    BY DEF Inv, TypeOK, PoolOK, Last
  <1>2. CASE AllocateHere(p)
    <2>1. allocChunk' = [allocChunk EXCEPT ![p] = allocChunk[p]]
      BY <1>1, <1>2 DEF AllocateHere
    <2> QED BY <1>1, <1>2, <2>1 DEF AllocateHere, HandsOut
  <1>3. CASE AllocateFromEmpty(p)
    <2>1. emptyChunk[p] \in DOMAIN chunks[p]
      BY <1>1, <1>3 DEF AllocateFromEmpty, Null
    <2>2. ~IsFilled(At(p, emptyChunk[p]))
      <3>1. HasAvailable(At(p, emptyChunk[p]), p) BY <2>1 DEF Inv, PoolOK
      <3> QED BY <3>1, <2>1, ChunkFacts DEF HasAvailable, IsFilled
    <2> QED BY <1>3, <2>1, <2>2 DEF AllocateFromEmpty, HandsOut
  <1>4. CASE AllocateFromOther(p)
    <2>1. PICK k \in DOMAIN chunks[p] :
            /\ ~IsFilled(At(p, k))
            /\ allocChunk' = [allocChunk EXCEPT ![p] = k]
            /\ HandOut(chunks[p][k], At(p, k))
      BY <1>4 DEF AllocateFromOther
    <2>2. /\ emptyChunk[p] = Null /\ emptyChunk' = emptyChunk
          /\ UNCHANGED <<chunks, room, deallocChunk, large, retrying>>
      BY <1>4 DEF AllocateFromOther
    <2>3. emptyChunk' = [emptyChunk EXCEPT ![p] = IF @ = k THEN Null ELSE @]
      BY <1>1, <2>2
    <2> QED BY <2>1, <2>2, <2>3 DEF HandsOut
  <1> QED BY <1>2, <1>3, <1>4

(* The two ways a block comes back to a chunk that stays.                  *)
LEMMA DeallocateIsTakeBack ==
  ASSUME Inv, NEW p \in Pools, NEW k \in DOMAIN chunks[p], NEW i \in Slot,
         holders[<<chunks[p][k], i>>] > 0,
         StillUsed(p, k, i) \/ FirstEmpty(p, k, i)
  PROVE  TakesBack(p, k, i)
  <1>1. emptyChunk \in [Pools -> Nat] BY DEF Inv, TypeOK
  <1>2. CASE StillUsed(p, k, i)
    <2>1. /\ ~HasAvailable(After(p, k, i), p) /\ emptyChunk' = emptyChunk
          /\ UNCHANGED <<chunks, room, allocChunk, large, retrying>>
      BY <1>2 DEF StillUsed, TakeBack
    <2>2. emptyChunk' = [emptyChunk EXCEPT ![p] =
                           IF HasAvailable(After(p, k, i), p) THEN k ELSE @]
      BY <2>1, <1>1
    <2> QED BY <1>2, <2>1, <2>2 DEF StillUsed, TakeBack, TakesBack
  <1>3. CASE FirstEmpty(p, k, i)
    BY <1>3 DEF FirstEmpty, TakeBack, TakesBack
  <1> QED BY <1>2, <1>3

LEMMA DoDeallocateKeeps ==
  ASSUME Inv, NEW p \in Pools, NEW k \in DOMAIN chunks[p], NEW i \in Slot,
         holders[<<chunks[p][k], i>>] > 0, DoDeallocate(p, k, i)
  PROVE  Inv'
  <1>1. CASE StillUsed(p, k, i) \/ FirstEmpty(p, k, i)
    BY <1>1, DeallocateIsTakeBack, TakeBackKeeps
  <1>2. CASE SecondEmpty(p, k, i) BY <1>2, SecondEmptyKeeps
  <1> QED BY <1>1, <1>2 DEF DoDeallocate

LEMMA DefaultAllocatorKeeps ==
  ASSUME Inv, NEW a \in Area, DefaultAllocator(a)
  PROVE  Inv'
  <1>1. /\ a \notin Memory /\ large' = large \cup {a}
        /\ holders' = [holders EXCEPT ![<<a, 0>>] = @ + 1]
        /\ UNCHANGED <<poolVars, chunk, retrying>>
    BY DEF DefaultAllocator
  <1>2. /\ chunks' = chunks /\ room' = room /\ allocChunk' = allocChunk
        /\ deallocChunk' = deallocChunk /\ emptyChunk' = emptyChunk
        /\ chunk' = chunk /\ retrying' = retrying
    BY <1>1 DEF poolVars
  <1>3. /\ a \notin large /\ \A q \in Pools : a \notin Areas(q)
        /\ holders[<<a, 0>>] = 0
    BY <1>1, UnusedIsUnheld, SlotHasZero DEF Memory
  <1>4. /\ holders' \in [Area \X Slot -> {0, 1}] /\ holders'[<<a, 0>>] = 1
        /\ \A b \in Area, j \in Slot :
             b # a \/ j # 0 => holders'[<<b, j>>] = holders[<<b, j>>]
    <2>1. holders \in [Area \X Slot -> {0, 1}] BY DEF Inv, HoldersOK
    <2>2. holders[<<a, 0>>] + 1 = 1 BY <1>3
    <2>3. holders' = [holders EXCEPT ![<<a, 0>>] = 1] BY <1>1, <2>2, Zenon
    <2> QED BY <2>1, <2>3, SlotHasZero, HolderSet
  <1>5. TypeOK'
    <2>1. holders' \in [Area \X Slot -> Nat] BY <1>4
    <2> QED BY <2>1, <1>1, <1>2 DEF Inv, TypeOK
  <1>6. AreasDiffer' BY <1>1, <1>2, <1>3 DEF Inv, AreasDiffer, Areas
  <1>7. ASSUME NEW q \in Pools PROVE PoolOK(q)'
    <2>1. \A b \in Areas(q) : b # a /\ b \in Area
      BY <1>3, ChunkFacts DEF Areas
    <2> QED BY <2>1, <1>2, <1>4, OtherPool DEF Inv
  <1>8. HoldersOK'
    <2>1. ASSUME NEW b \in Area, NEW i \in Slot, holders'[<<b, i>>] = 1
          PROVE  \/ b \in large' /\ i = 0
                 \/ \E q \in Pools : b \in Areas(q)' /\ i \in 0 .. NumBlocks(q)' - 1
      <3>1. CASE b = a /\ i = 0 BY <3>1, <1>1
      <3>2. CASE ~(b = a /\ i = 0)
        <4>1. holders[<<b, i>>] = 1 BY <2>1, <3>2, <1>4
        <4>2. \A q \in Pools : Areas(q)' = Areas(q) /\ NumBlocks(q)' = NumBlocks(q)
          BY <1>2 DEF Areas, NumBlocks
        <4>3. \/ b \in large /\ i = 0
              \/ \E q \in Pools : b \in Areas(q) /\ i \in 0 .. NumBlocks(q) - 1
          BY <4>1 DEF Inv, HoldersOK
        <4> QED BY <4>2, <4>3, <1>1
      <3> QED BY <3>1, <3>2
    <2>2. \A b \in large' : holders'[<<b, 0>>] = 1
      BY <1>1, <1>4, SlotHasZero DEF Inv, TypeOK, HoldersOK
    <2> QED BY <1>4, <2>1, <2>2 DEF HoldersOK
  <1>9. RoomOK' BY <1>2 DEF Inv, RoomOK, Last
  <1> QED BY <1>5, <1>6, <1>7, <1>8, <1>9 DEF Inv

LEMMA DefaultDeallocatorKeeps ==
  ASSUME Inv, NEW a \in Area, DefaultDeallocator(a)
  PROVE  Inv'
  <1>1. /\ a \in large /\ large' = large \ {a}
        /\ holders' = [holders EXCEPT ![<<a, 0>>] = @ - 1]
        /\ UNCHANGED <<poolVars, chunk, retrying>>
    BY DEF DefaultDeallocator
  <1>2. /\ chunks' = chunks /\ room' = room /\ allocChunk' = allocChunk
        /\ deallocChunk' = deallocChunk /\ emptyChunk' = emptyChunk
        /\ chunk' = chunk /\ retrying' = retrying
    BY <1>1 DEF poolVars
  <1>3. (\A q \in Pools : a \notin Areas(q)) /\ holders[<<a, 0>>] = 1
    BY <1>1 DEF Inv, AreasDiffer, HoldersOK
  <1>4. /\ holders' \in [Area \X Slot -> {0, 1}] /\ holders'[<<a, 0>>] = 0
        /\ \A b \in Area, j \in Slot :
             b # a \/ j # 0 => holders'[<<b, j>>] = holders[<<b, j>>]
    <2>1. holders \in [Area \X Slot -> {0, 1}] BY DEF Inv, HoldersOK
    <2>2. holders[<<a, 0>>] - 1 = 0 BY <1>3
    <2>3. holders' = [holders EXCEPT ![<<a, 0>>] = 0] BY <1>1, <2>2, Zenon
    <2> QED BY <2>1, <2>3, SlotHasZero, HolderSet
  <1>5. TypeOK'
    <2>1. holders' \in [Area \X Slot -> Nat] BY <1>4
    <2> QED BY <2>1, <1>1, <1>2 DEF Inv, TypeOK
  <1>6. AreasDiffer' BY <1>1, <1>2 DEF Inv, AreasDiffer, Areas
  <1>7. ASSUME NEW q \in Pools PROVE PoolOK(q)'
    <2>1. \A b \in Areas(q) : b # a /\ b \in Area
      BY <1>3, ChunkFacts DEF Areas
    <2> QED BY <2>1, <1>2, <1>4, OtherPool DEF Inv
  <1>8. HoldersOK'
    <2>1. ASSUME NEW b \in Area, NEW i \in Slot, holders'[<<b, i>>] = 1
          PROVE  \/ b \in large' /\ i = 0
                 \/ \E q \in Pools : b \in Areas(q)' /\ i \in 0 .. NumBlocks(q)' - 1
      <3>1. ~(b = a /\ i = 0) BY <2>1, <1>4
      <3>2. holders[<<b, i>>] = 1 BY <2>1, <3>1, <1>4
      <3>3. \A q \in Pools : Areas(q)' = Areas(q) /\ NumBlocks(q)' = NumBlocks(q)
        BY <1>2 DEF Areas, NumBlocks
      <3>4. \/ b \in large /\ i = 0
            \/ \E q \in Pools : b \in Areas(q) /\ i \in 0 .. NumBlocks(q) - 1
        BY <3>2 DEF Inv, HoldersOK
      <3> QED BY <3>1, <3>3, <3>4, <1>1
    <2>2. \A b \in large' : holders'[<<b, 0>>] = 1
      BY <1>1, <1>4, SlotHasZero DEF Inv, TypeOK, HoldersOK
    <2> QED BY <1>4, <2>1, <2>2 DEF HoldersOK
  <1>9. RoomOK' BY <1>2 DEF Inv, RoomOK, Last
  <1> QED BY <1>5, <1>6, <1>7, <1>8, <1>9 DEF Inv

(* A vector that reserves more room does not get less.                     *)
LEMMA ReservedIsMore ==
  ASSUME Inv, NEW p \in Pools, NEW rm \in RoomAfterFailure(p)
  PROVE  rm \in [Pools -> Nat] /\ \A q \in Pools : room[q] <= rm[q]
  <1>1. /\ room \in [Pools -> Nat] /\ Last(p) \in Nat
        /\ Last(p) <= room[p]
    BY DEF Inv, TypeOK, RoomOK, Last
  <1>2. Reserved(p) \in Nat /\ room[p] <= Reserved(p) BY <1>1 DEF Reserved
  <1>3. rm = room \/ rm = [room EXCEPT ![p] = Reserved(p)]
    BY DEF RoomAfterFailure
  <1> QED BY <1>1, <1>2, <1>3

LEMMA SecondTryKeeps ==
  ASSUME Inv, NEW p \in Pools, SecondTryFails(p)
  PROVE  Inv'
  <1>1. /\ room' \in RoomAfterFailure(p) /\ retrying' = Null
        /\ UNCHANGED <<chunks, emptyChunk, chunk, large, holders>>
    BY DEF SecondTryFails
  <1>2. room' \in [Pools -> Nat] /\ \A q \in Pools : room[q] <= room'[q]
    BY <1>1, ReservedIsMore
  <1>0. /\ allocChunk' \in [Pools -> Nat \cup {Wild}]
        /\ deallocChunk' \in [Pools -> Nat \cup {Wild}]
        /\ \A q \in Pools :
             /\ allocChunk'[q] = allocChunk[q] \/ allocChunk'[q] = Wild
             /\ deallocChunk'[q] = deallocChunk[q] \/ deallocChunk'[q] = Wild
             /\ allocChunk[q] = Null => allocChunk'[q] \in {Null, Wild}
    <2>1. /\ allocChunk \in [Pools -> Nat \cup {Wild}]
          /\ deallocChunk \in [Pools -> Nat \cup {Wild}]
      BY DEF Inv, TypeOK
    <2>2. CASE room' = room
      <3>1. allocChunk' = allocChunk /\ deallocChunk' = deallocChunk
        BY <2>2 DEF SecondTryFails
      <3> QED BY <3>1, <2>1
    <2>3. CASE room' # room
      <3>1. /\ allocChunk' = [allocChunk EXCEPT ![p] = Dangling(allocChunk[p])]
            /\ deallocChunk' =
                 [deallocChunk EXCEPT ![p] = Dangling(deallocChunk[p])]
        BY <2>3 DEF SecondTryFails
      <3>2. /\ Dangling(allocChunk[p]) \in {allocChunk[p], Wild}
            /\ Dangling(deallocChunk[p]) \in {deallocChunk[p], Wild}
        BY DEF Dangling
      <3> QED BY <3>1, <3>2, <2>1
    <2> QED BY <2>2, <2>3
  <1>3. TypeOK' BY <1>0, <1>1, <1>2 DEF Inv, TypeOK
  <1>4. AreasDiffer' BY <1>1 DEF Inv, AreasDiffer, Areas
  <1>5. \A q \in Pools : PoolOK(q)'
    <2> SUFFICES ASSUME NEW q \in Pools PROVE PoolOK(q)' OBVIOUS
    <2>1. PoolOK(q) BY DEF Inv
    <2>2. /\ Areas(q)' = Areas(q) /\ Last(q)' = Last(q)
          /\ NumBlocks(q)' = NumBlocks(q)
          /\ \A b : Free(q, b)' = Free(q, b)
          /\ \A k : At(q, k)' = At(q, k)
      BY <1>1 DEF Areas, Last, NumBlocks, Free, At
    <2>3. \A b \in Areas(q) : Chained(chunk[b], NumBlocks(q), Free(q, b))'
      <3> SUFFICES ASSUME NEW b \in Areas(q)
                   PROVE  Chained(chunk[b], NumBlocks(q), Free(q, b))'
        OBVIOUS
      <3>1. Chained(chunk[b], NumBlocks(q), Free(q, b)) BY <2>1 DEF PoolOK
      <3>2. chunk'[b] = chunk[b] BY <1>1
      <3> QED BY <3>1, <3>2, <2>2, ChainedNext
    <2>4. /\ chunks[q] # <<>> =>
               /\ allocChunk'[q] \in DOMAIN chunks[q] \cup {Wild}
               /\ deallocChunk'[q] \in DOMAIN chunks[q] \cup {Wild}
          /\ chunks[q] = <<>> => allocChunk'[q] \in {Null, Wild}
      BY <2>1, <1>0 DEF PoolOK
    <2>5. \A k \in DOMAIN chunks[q] :
            HasAvailable(At(q, k), q)' <=> k = emptyChunk[q]
      BY <2>1, <2>2 DEF PoolOK, HasAvailable
    <2> QED BY <2>1, <2>2, <2>3, <2>4, <2>5, <1>1 DEF PoolOK
  <1>6. HoldersOK' BY <1>1 DEF Inv, HoldersOK, Areas, NumBlocks
  <1>7. RoomOK'
    <2> SUFFICES ASSUME NEW q \in Pools PROVE Last(q)' <= room'[q]
      BY DEF RoomOK
    <2>1. Last(q)' = Last(q) /\ Last(q) \in Nat
      BY <1>1 DEF Last, Inv, TypeOK
    <2>2. Last(q) <= room[q] /\ room[q] \in Nat
      BY DEF Inv, TypeOK, RoomOK
    <2> QED BY <1>2, <2>1, <2>2
  <1> QED BY <1>3, <1>4, <1>5, <1>6, <1>7 DEF Inv

-----------------------------------------------------------------------------
(* What every step comes to.                                               *)

(* VicinityFind finds the chunk of a block, and the first place it looks   *)
(* at is in the vector.                                                    *)
LEMMA VicinityFinds ==
  ASSUME Inv, NEW p \in Pools, NEW a \in Areas(p), deallocChunk[p] # Wild
  PROVE  /\ VicinityFind(p, a) # {}
         /\ \A k \in VicinityFind(p, a) :
              k \in DOMAIN chunks[p] /\ chunks[p][k] = a
  <1>1. PICK h \in DOMAIN chunks[p] : chunks[p][h] = a BY DEF Areas
  <1>2. /\ DOMAIN chunks[p] = 1 .. Last(p) /\ Last(p) \in Nat
        /\ h \in 1 .. Last(p) /\ chunks[p] # <<>>
    BY <1>1 DEF Inv, TypeOK, Last
  <1>3. deallocChunk[p] \in 1 .. Last(p) BY <1>2 DEF Inv, PoolOK
  <1> DEFINE places == 1 .. deallocChunk[p] \cup deallocChunk[p] + 1 .. Last(p)
  <1>4. \A k : k \in places <=> k \in 1 .. Last(p) BY <1>2, <1>3
  <1>5. VicinityFind(p, a) = {k \in places : chunks[p][k] = a}
    BY DEF VicinityFind
  <1> HIDE DEF places
  <1> QED BY <1>1, <1>2, <1>4, <1>5

Allocates == \E p \in Pools : \E k : HandsOut(p, k)
Grows == \E p \in Pools, a \in Area : AllocateFromNew(p, a)
Frees ==
  \E p \in Pools : \E k \in DOMAIN chunks[p], i \in Slot :
    holders[<<chunks[p][k], i>>] > 0 /\ DoDeallocate(p, k, i)
Fails ==
  \/ \E p \in Pools : FirstTryFails(p) \/ SecondTryFails(p)
  \/ TrimExcessMemory
Default == \E a \in Area : DefaultAllocator(a) \/ DefaultDeallocator(a)

LEMMA StepKinds ==
  ASSUME Inv, Next
  PROVE  Allocates \/ Grows \/ Frees \/ Fails \/ Default
  <1>1. ASSUME NEW numBytes \in 0 .. MaxObjectSize, Allocate(PoolOf(numBytes))
        PROVE  Allocates \/ Grows \/ Fails
    <2>1. PICK p \in Pools : Allocate(p) BY <1>1, PoolOfRange
    <2>2. CASE AllocateHere(p) \/ AllocateFromEmpty(p) \/ AllocateFromOther(p)
      BY <2>2, AllocateIsHandOut DEF Allocates
    <2>3. CASE \E a \in Area : AllocateFromNew(p, a) BY <2>3 DEF Grows
    <2>4. CASE FirstTryFails(p) \/ SecondTryFails(p) BY <2>4 DEF Fails
    <2> QED BY <2>1, <2>2, <2>3, <2>4 DEF Allocate
  <1>2. ASSUME NEW p \in Pools, NEW a \in Area, NEW i \in Slot,
               Deallocate(p, a, i)
        PROVE  Frees
    <2>1. /\ a \in Areas(p) /\ holders[<<a, i>>] > 0
          /\ deallocChunk[p] # Wild
      BY <1>2 DEF Deallocate
    <2>2. PICK k \in VicinityFind(p, a) : DoDeallocate(p, k, i)
      BY <1>2 DEF Deallocate
    <2>3. k \in DOMAIN chunks[p] /\ chunks[p][k] = a
      BY <2>1, <2>2, VicinityFinds
    <2> QED BY <2>1, <2>2, <2>3 DEF Frees
  <1>3. ASSUME NEW a \in Area, NEW i \in Slot, DeallocateUnsized(a, i)
        PROVE  Frees
    BY <1>3 DEF DeallocateUnsized, Frees
  <1> QED BY <1>1, <1>2, <1>3 DEF Next, Fails, Default

LEMMA NextKeeps ==
  ASSUME Inv, Next
  PROVE  Inv'
  <1>1. CASE Allocates BY <1>1, HandOutKeeps DEF Allocates
  <1>2. CASE Grows BY <1>2, NewChunkKeeps DEF Grows
  <1>3. CASE Frees BY <1>3, DoDeallocateKeeps DEF Frees
  <1>4. CASE Fails
    <2>1. CASE TrimExcessMemory
      <3>1. TrimAll(room) /\ retrying' = retrying /\ room \in [Pools -> Nat]
        BY <2>1 DEF TrimExcessMemory, Inv, TypeOK
      <3>2. \A q \in Pools : room[q] <= room[q] BY <3>1
      <3>3. retrying' \in Pools \cup {Null} BY <3>1 DEF Inv, TypeOK
      <3> QED BY <3>1, <3>2, <3>3, TrimAllKeeps
    <2>2. ASSUME NEW p \in Pools, FirstTryFails(p) PROVE Inv'
      <3>1. PICK rm \in RoomAfterFailure(p) : TrimAll(rm)
        BY <2>2 DEF FirstTryFails
      <3>2. rm \in [Pools -> Nat] /\ \A q \in Pools : room[q] <= rm[q]
        BY ReservedIsMore
      <3>3. retrying' = p BY <2>2 DEF FirstTryFails
      <3> QED BY <3>1, <3>2, <3>3, TrimAllKeeps
    <2> QED BY <1>4, <2>1, <2>2, SecondTryKeeps DEF Fails
  <1>5. CASE Default
    BY <1>5, DefaultAllocatorKeeps, DefaultDeallocatorKeeps DEF Default
  <1> QED BY <1>1, <1>2, <1>3, <1>4, <1>5, StepKinds

LEMMA StutterKeeps ==
  ASSUME Inv, UNCHANGED vars
  PROVE  Inv'
  <1>1. /\ chunks' = chunks /\ room' = room /\ allocChunk' = allocChunk
        /\ deallocChunk' = deallocChunk /\ emptyChunk' = emptyChunk
        /\ chunk' = chunk /\ large' = large /\ retrying' = retrying
        /\ holders' = holders
    BY DEF vars, poolVars
  <1>2. \A q \in Pools : PoolOK(q)' BY <1>1, OtherPool DEF Inv
  <1> QED
    BY <1>1, <1>2
    DEF Inv, TypeOK, AreasDiffer, HoldersOK, RoomOK, Areas, Last, NumBlocks

THEOREM Invariance == Spec => []Inv
  <1>1. Init => Inv BY InitHolds
  <1>2. Inv /\ [Next]_vars => Inv' BY NextKeeps, StutterKeeps
  <1> QED BY <1>1, <1>2, PTL DEF Spec

-----------------------------------------------------------------------------
(* Every count and index is a natural number, through any order of         *)
(* operations: no block is taken back that a chunk does not have, and no   *)
(* count goes below zero.                                                  *)
THEOREM TypesHold == Spec => []TypeOK
  <1>1. Inv => TypeOK BY DEF Inv
  <1> QED BY <1>1, Invariance, PTL

(* No area is in two chunks or two pools, or in a pool and handed out      *)
(* whole: however chunks are swapped, trimmed and appended.                *)
THEOREM AreasStayApart == Spec => []AreasDiffer
  <1>1. Inv => AreasDiffer BY DEF Inv
  <1> QED BY <1>1, Invariance, PTL

(* At most one chunk of a pool is empty, emptyChunk_ points to it and to   *)
(* nothing else, and allocChunk_ and deallocChunk_ are in the vector       *)
(* whenever it has a chunk, or were left behind by an allocation that      *)
(* failed twice: the class level invariants of FixedAllocator.             *)
THEOREM PointersStayTrue == Spec => []PointersTell
  <1>1. Inv => PointersTell
    <2> SUFFICES ASSUME Inv, NEW p \in Pools
                 PROVE  /\ \A k \in DOMAIN chunks[p] :
                             HasAvailable(At(p, k), p) <=> k = emptyChunk[p]
                        /\ emptyChunk[p] \in 0 .. Last(p)
                        /\ chunks[p] # <<>> =>
                             {allocChunk[p], deallocChunk[p]}
                               \subseteq DOMAIN chunks[p] \cup {Wild}
      BY DEF PointersTell
    <2>1. PoolOK(p) BY DEF Inv
    <2> QED BY <2>1 DEF PoolOK
  <1> QED BY <1>1, Invariance, PTL

(* The free blocks of every chunk form one list without a gap or a cycle,  *)
(* which has exactly the blocks nobody holds: Chunk::IsCorrupt never finds *)
(* anything.                                                               *)
THEOREM FreeListsStayIntact == Spec => []FreeListsIntact
  <1>1. Inv => FreeListsIntact BY DEF Inv, PoolOK, FreeListsIntact
  <1> QED BY <1>1, Invariance, PTL

(* Deallocate finds the chunk of every block, although it looks from       *)
(* deallocChunk_ on, which swaps and trims may have moved.                 *)
BlocksAreFound ==
  \A p \in Pools :
    deallocChunk[p] # Wild => \A a \in Areas(p) : VicinityFind(p, a) # {}

(* SmallObj.cpp:1164, the assertion that the chunk was found, holds.       *)
THEOREM BlocksStayFound == Spec => []BlocksAreFound
  <1>1. Inv => BlocksAreFound BY VicinityFinds DEF BlocksAreFound
  <1> QED BY <1>1, Invariance, PTL

-----------------------------------------------------------------------------
(* The allocator implements the heap.                                      *)

LEMMA MemoryIsArea ==
  ASSUME Inv PROVE Memory \subseteq Area
  <1>1. \A p \in Pools : Areas(p) \subseteq Area BY ChunkFacts DEF Areas
  <1> QED BY <1>1 DEF Memory, Inv, TypeOK

LEMMA MemoryMovesFreely ==
  ASSUME Inv, Inv' PROVE H!MemoryMoves
  <1>1. Memory' \subseteq Area
    <2>1. \A p \in Pools : chunks'[p] \in Seq(Area) /\ large' \subseteq Area
      BY DEF Inv, TypeOK
    <2>2. \A p \in Pools : Areas(p)' \subseteq Area BY <2>1 DEF Areas
    <2> QED BY <2>1, <2>2 DEF Memory, Inv, TypeOK
  <1>2. ASSUME NEW a \in Area, a \notin Memory', NEW i \in Slot
        PROVE  holders'[<<a, i>>] = 0
    <2>1. holders'[<<a, i>>] \in {0, 1} BY DEF Inv, HoldersOK
    <2>2. a \notin large' /\ \A p \in Pools : a \notin Areas(p)'
      BY <1>2 DEF Memory
    <2>3. holders'[<<a, i>>] # 1 BY <2>2 DEF Inv, HoldersOK
    <2> QED BY <2>1, <2>3
  <1> QED BY <1>1, <1>2, MemoryIsArea DEF H!MemoryMoves

(* A block is given to one holder, or taken back from it.                  *)
LEMMA HandOutGives ==
  ASSUME Inv, Inv', NEW p \in Pools, NEW k, HandsOut(p, k)
  PROVE  \E b \in H!Block : H!Give(b)
  <1> DEFINE a == chunks[p][k]
             i == At(p, k).first
  <1>1. /\ k \in DOMAIN chunks[p] /\ At(p, k).avail # 0
        /\ holders' = [holders EXCEPT ![<<a, i>>] = @ + 1]
        /\ chunks' = chunks /\ large' = large
    BY DEF HandsOut, HandOut, IsFilled
  <1>2. /\ a \in Area /\ a \in Areas(p) /\ At(p, k) \in Chunk
        /\ Chained(At(p, k), NumBlocks(p), Free(p, a))
        /\ NumBlocks(p) \in Size /\ 0 .. NumBlocks(p) - 1 \subseteq Slot
    BY <1>1, ChunkFacts, BlocksAreSlots
  <1>3. i \in Free(p, a) /\ i \in 0 .. NumBlocks(p) - 1
    BY <1>1, <1>2, AllocatedChain
  <1>4. <<a, i>> \in H!Block /\ holders[<<a, i>>] = 0
    BY <1>2, <1>3 DEF Free, H!Block
  <1>5. Memory' = Memory /\ a \in Memory
    BY <1>1, <1>2 DEF Memory, Areas
  <1>6. holders' = [holders EXCEPT ![<<a, i>>] = 1]
    <2>1. holders[<<a, i>>] + 1 = 1 BY <1>4
    <2> QED BY <1>1, <2>1, Zenon
  <1>7. H!Give(<<a, i>>) BY <1>4, <1>5, <1>6 DEF H!Give
  <1> QED BY <1>4, <1>7

LEMMA NewChunkGives ==
  ASSUME Inv, NEW p \in Pools, NEW a \in Area, AllocateFromNew(p, a)
  PROVE  \E b \in H!Block : H!Give(b)
  <1>1. /\ a \notin Memory /\ chunks' = [chunks EXCEPT ![p] = Append(@, a)]
        /\ holders' = [holders EXCEPT ![<<a, 0>>] = @ + 1]
    BY DEF AllocateFromNew, HandOut, Reset
  <1>2. holders[<<a, 0>>] = 0 BY <1>1, UnusedIsUnheld, SlotHasZero
  <1>3. a \in Memory'
    <2>1. chunks[p] \in Seq(Area) /\ chunks'[p] = Append(chunks[p], a)
      BY <1>1 DEF Inv, TypeOK
    <2>2. /\ Len(chunks[p]) + 1 \in DOMAIN chunks'[p]
          /\ chunks'[p][Len(chunks[p]) + 1] = a
      BY <2>1
    <2>3. a \in Areas(p)' BY <2>2 DEF Areas
    <2> QED BY <2>3 DEF Memory
  <1>4. holders' = [holders EXCEPT ![<<a, 0>>] = 1]
    <2>1. holders[<<a, 0>>] + 1 = 1 BY <1>2
    <2> QED BY <1>1, <2>1, Zenon
  <1>5. <<a, 0>> \in H!Block BY SlotHasZero DEF H!Block
  <1>6. H!Give(<<a, 0>>) BY <1>2, <1>3, <1>4 DEF H!Give
  <1> QED BY <1>5, <1>6

LEMMA DeallocateTakes ==
  ASSUME Inv, NEW p \in Pools, NEW k \in DOMAIN chunks[p], NEW i \in Slot,
         holders[<<chunks[p][k], i>>] > 0, DoDeallocate(p, k, i)
  PROVE  \E b \in H!Block : H!TakeBack(b)
  <1> DEFINE a == chunks[p][k]
  <1>1. holders' = [holders EXCEPT ![<<a, i>>] = @ - 1]
    BY DEF DoDeallocate, StillUsed, FirstEmpty, SecondEmpty, TakeBack
  <1>2. a \in Area BY ChunkFacts
  <1>3. holders[<<a, i>>] = 1
    <2>1. holders[<<a, i>>] \in {0, 1} BY <1>2 DEF Inv, HoldersOK
    <2> QED BY <2>1
  <1>4. holders' = [holders EXCEPT ![<<a, i>>] = 0]
    <2>1. holders[<<a, i>>] - 1 = 0 BY <1>3
    <2> QED BY <1>1, <2>1, Zenon
  <1>5. <<a, i>> \in H!Block BY <1>2 DEF H!Block
  <1>6. H!TakeBack(<<a, i>>) BY <1>3, <1>4 DEF H!TakeBack
  <1> QED BY <1>5, <1>6

LEMMA DefaultMoves ==
  ASSUME Inv, NEW a \in Area, DefaultAllocator(a) \/ DefaultDeallocator(a)
  PROVE  \E b \in H!Block : H!Give(b) \/ H!TakeBack(b)
  <1>1. <<a, 0>> \in H!Block BY SlotHasZero DEF H!Block
  <1>2. CASE DefaultAllocator(a)
    <2>1. /\ a \notin Memory /\ large' = large \cup {a}
          /\ holders' = [holders EXCEPT ![<<a, 0>>] = @ + 1]
      BY <1>2 DEF DefaultAllocator
    <2>2. holders[<<a, 0>>] = 0 BY <2>1, UnusedIsUnheld, SlotHasZero
    <2>3. holders[<<a, 0>>] + 1 = 1 BY <2>2
    <2>4. holders' = [holders EXCEPT ![<<a, 0>>] = 1] BY <2>1, <2>3, Zenon
    <2>5. a \in Memory' BY <2>1 DEF Memory
    <2>6. H!Give(<<a, 0>>) BY <2>2, <2>4, <2>5 DEF H!Give
    <2> QED BY <1>1, <2>6
  <1>3. CASE DefaultDeallocator(a)
    <2>1. a \in large /\ holders' = [holders EXCEPT ![<<a, 0>>] = @ - 1]
      BY <1>3 DEF DefaultDeallocator
    <2>2. holders[<<a, 0>>] = 1 BY <2>1 DEF Inv, HoldersOK
    <2>3. holders[<<a, 0>>] - 1 = 0 BY <2>2
    <2>4. holders' = [holders EXCEPT ![<<a, 0>>] = 0] BY <2>1, <2>3, Zenon
    <2>5. H!TakeBack(<<a, 0>>) BY <2>2, <2>4 DEF H!TakeBack
    <2> QED BY <1>1, <2>5
  <1> QED BY <1>2, <1>3

LEMMA StepIsHeapStep ==
  ASSUME Inv, Inv', Next
  PROVE  H!Next
  <1>1. H!MemoryMoves BY MemoryMovesFreely
  <1>2. CASE Allocates
    <2>1. \E b \in H!Block : H!Give(b) BY <1>2, HandOutGives DEF Allocates
    <2> QED BY <1>1, <2>1 DEF H!Next
  <1>3. CASE Grows
    <2>1. \E b \in H!Block : H!Give(b) BY <1>3, NewChunkGives DEF Grows
    <2> QED BY <1>1, <2>1 DEF H!Next
  <1>4. CASE Frees
    <2>1. \E b \in H!Block : H!TakeBack(b) BY <1>4, DeallocateTakes DEF Frees
    <2> QED BY <1>1, <2>1 DEF H!Next
  <1>5. CASE Fails
    <2>1. UNCHANGED holders
      BY <1>5 DEF Fails, FirstTryFails, SecondTryFails, TrimExcessMemory, TrimAll
    <2> QED BY <1>1, <2>1 DEF H!Next
  <1>6. CASE Default
    <2>1. \E b \in H!Block : H!Give(b) \/ H!TakeBack(b)
      BY <1>6, DefaultMoves DEF Default
    <2> QED BY <1>1, <2>1 DEF H!Next
  <1> QED BY <1>2, <1>3, <1>4, <1>5, <1>6, StepKinds

(* A block is handed out to one holder at a time, and no memory goes back  *)
(* to the system under a block that is held, for any sizes, any number of  *)
(* pools, chunks and blocks, and allocations that fail at any point.       *)
THEOREM Refinement == Spec => ImplementsHeap
  <1>1. ASSUME Init PROVE H!Init
    <2>1. \A p \in Pools : Areas(p) = {} BY <1>1 DEF Init, Areas
    <2>2. Memory = {} BY <2>1, <1>1 DEF Init, Memory
    <2> QED BY <2>2, <1>1 DEF Init, H!Init, H!Block
  <1>2. ASSUME UNCHANGED vars PROVE UNCHANGED H!vars
    <2>1. chunks' = chunks /\ large' = large /\ holders' = holders
      BY <1>2 DEF vars, poolVars
    <2> QED BY <2>1 DEF H!vars, Memory, Areas
  <1>3. Inv /\ Inv' /\ [Next]_vars => [H!Next]_H!vars
    BY <1>2, StepIsHeapStep
  <1> QED BY <1>1, <1>3, Invariance, PTL
     DEF Spec, ImplementsHeap, H!Spec
=============================================================================
