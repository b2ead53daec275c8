------------------------------ MODULE LevelMutex ------------------------------
(***************************************************************************)
(* Mutexes with levels (loki/src/LevelMutex.cpp, LevelMutex.h): a thread   *)
(* may lock a mutex only if its level is below that of the one it locked   *)
(* last, several mutexes of one level only together, and those are locked  *)
(* in the order of their addresses.  Locked mutexes form a list per        *)
(* thread, and may be locked again by it.                                  *)
(*                                                                         *)
(* The threads use them through MutexLocker and MultiMutexLocker, each of  *)
(* which locks once and unlocks once.  A call that is refused by its       *)
(* checks changes nothing: it is a step that is not enabled here.          *)
(***************************************************************************)
EXTENDS Integers, Sequences, FiniteSets

CONSTANTS
  Threads,      \* the threads
  Mutexes,      \* the mutexes, each of them its own address
  Level,        \* m_level of each mutex
  Nobody,       \* the owner of a mutex that is free
  Nested,       \* lockers are objects of nested blocks, unlocked in reverse
                \* order; otherwise any of them may be unlocked early
  MaxLockers    \* bound: the lockers a thread has at a time

\* The order of locking that everything rests on: levels downwards, and
\* addresses upwards within a level.
Above(m, n) == Level[m] > Level[n] \/ (Level[m] = Level[n] /\ m < n)

ASSUME MutexAssumption ==
  /\ Mutexes \subseteq Nat
  /\ Level \in [Mutexes -> Nat]
  /\ Nobody \notin Threads
  /\ Nested \in BOOLEAN
  /\ MaxLockers \in Nat

\* There are finitely many mutexes: any of them have a first and a last in
\* the order of locking.
ASSUME OrderAssumption ==
  \A S \in SUBSET Mutexes : S # {} =>
     /\ \E first \in S : \A m \in S \ {first} : Above(first, m)
     /\ \E last \in S : \A m \in S \ {last} : Above(m, last)

VARIABLES
  owner,     \* who has the pthread mutex inside each mutex
  count,     \* m_count of each mutex
  list,      \* per thread: s_currentMutex and what m_previous leads to
  pc,        \* per thread: where it is in a call
  call,      \* per thread: the mutexes of the call, those still to do, and how
  lockers    \* per thread: the lockers that have locked, oldest first

vars == <<owner, count, list, pc, call, lockers>>

Containers == {S \in SUBSET Mutexes : S # {}}

\* A locker for one mutex calls Lock and Unlock, one for a container calls
\* MultiLock and MultiUnlock, be it of one mutex only.
Lockers == {[multi |-> b, set |-> c] : b \in BOOLEAN, c \in Containers}

\* Ways to lock, and the two ways to unlock: a client's, and that of a
\* MultiLock which timed out.
Ways == {"wait", "timed", "try"}

NoCall == [multi |-> FALSE, all |-> {}, todo |-> {}, how |-> "none"]

Calls == [multi : BOOLEAN, all : SUBSET Mutexes, todo : SUBSET Mutexes,
          how : Ways \cup {"none", "unlock", "undo"}]

-------------------------------------------------------------------------------
\* The list of a thread

Listed(t) == {list[t][i] : i \in 1..Len(list[t])}

\* Wrong variant: mutexes of the current level are let through.
BelowCurrentLevel_OrSame(t, m) ==
  list[t] # <<>> => Level[m] <= Level[list[t][1]]

\* Every mutex is below the level of a thread that has locked none.
BelowCurrentLevel(t, m) == list[t] # <<>> => Level[m] < Level[list[t][1]]

AtCurrentLevel(t, m) == list[t] # <<>> /\ Level[m] = Level[list[t][1]]

\* The recent mutexes: those at the head of the list that share its level.
Recent(t) ==
  {list[t][i] : i \in {j \in 1..Len(list[t]) :
                         \A k \in 1..j : AtCurrentLevel(t, list[t][k])}}

\* std::sort by address; MultiLock goes upwards and MultiUnlock downwards.
First(S) == CHOOSE m \in S : \A n \in S : m <= n

\* Wrong variant: begin() where rbegin() belongs.
Last_Upwards(S) == CHOOSE m \in S : \A n \in S : m <= n

Last(S) == CHOOSE m \in S : \A n \in S : n <= m

-------------------------------------------------------------------------------
\* Locking

\* Wrong variant: the number of mutexes at the current level is not compared.
MayRelock_SomeOfThem(t, multi, S) ==
  IF multi THEN S \subseteq Recent(t)
           ELSE \A m \in S : AtCurrentLevel(t, m) /\ m \in Listed(t)

\* What PreLockCheck asks of a mutex that this thread shall lock again, and
\* DoMutexesMatchContainer of several.
MayRelock(t, multi, S) ==
  IF multi THEN S = Recent(t)
           ELSE \A m \in S : AtCurrentLevel(t, m) /\ m \in Listed(t)

\* What they ask of mutexes that are new to this thread.  TryLock looks at
\* the count of a mutex, which another thread may be changing.
MayLock(t, multi, S, how) ==
  /\ \A m \in S : BelowCurrentLevel(t, m)
  /\ \A m, n \in S : Level[m] = Level[n]
  /\ how = "try" => ~multi /\ \A m \in S : count[m] = 0 \/ m \in Listed(t)

Begins(t, multi, S) ==
  /\ pc[t] = "idle"
  /\ Len(lockers[t]) < MaxLockers
  /\ ~multi => \E m \in S : S = {m}

Relock(t, multi, S) ==
  /\ Begins(t, multi, S)
  /\ MayRelock(t, multi, S)
  /\ count' = [m \in Mutexes |-> IF m \in S THEN count[m] + 1 ELSE count[m]]
  /\ lockers' = [lockers EXCEPT ![t] = Append(@, [multi |-> multi, set |-> S])]
  /\ UNCHANGED <<owner, list, pc, call>>

Lock(t, multi, S, how) ==
  /\ Begins(t, multi, S)
  /\ MayLock(t, multi, S, how)
  /\ pc' = [pc EXCEPT ![t] = "lock"]
  /\ call' = [call EXCEPT ![t] =
                [multi |-> multi, all |-> S, todo |-> S, how |-> how]]
  /\ UNCHANGED <<owner, count, list, lockers>>

\* m_mutex.Lock or TryLock succeeds for the next mutex.
Acquire(t) ==
  LET m == First(call[t].todo) IN
  /\ pc[t] = "lock"
  /\ owner[m] = Nobody
  /\ owner' = [owner EXCEPT ![m] = t]
  /\ pc' = [pc EXCEPT ![t] = "post"]
  /\ UNCHANGED <<count, list, call, lockers>>

\* The call ends, one way or the other, when nothing is left to do.
Continues(t, rest, at) ==
  /\ pc' = [pc EXCEPT ![t] = IF rest = {} THEN "idle" ELSE at]
  /\ call' = [call EXCEPT ![t] =
                IF rest = {} THEN NoCall ELSE [@ EXCEPT !.todo = rest]]

PostLock(t) ==
  LET m == First(call[t].todo)
      rest == call[t].todo \ {m}
  IN
  /\ pc[t] = "post"
  /\ count' = [count EXCEPT ![m] = 1]
  /\ list' = [list EXCEPT ![t] = <<m>> \o @]
  /\ Continues(t, rest, "lock")
  /\ lockers' = [lockers EXCEPT ![t] =
       IF rest = {}
       THEN Append(@, [multi |-> call[t].multi, set |-> call[t].all])
       ELSE @]
  /\ UNCHANGED owner

\* Wrong variant: nothing is undone.
GiveUp_KeepsLocked(t) ==
  /\ pc[t] = "lock"
  /\ \/ call[t].how = "timed"
     \/ call[t].how = "try" /\ owner[First(call[t].todo)] # Nobody
  /\ pc' = [pc EXCEPT ![t] = "idle"]
  /\ call' = [call EXCEPT ![t] = NoCall]
  /\ UNCHANGED <<owner, count, list, lockers>>

\* Wrong variant: the time limit counts for the first mutex only.
GiveUp_FirstOnly(t) ==
  /\ call[t].todo = call[t].all
  /\ GiveUp_KeepsLocked(t)

\* TryLock finds the mutex taken, or the time is up, which it may be before
\* the first attempt.  MutexUndoer unlocks what MultiLock has locked so far.
GiveUp(t) ==
  LET c == call[t]
      locked == c.all \ c.todo
  IN
  /\ pc[t] = "lock"
  /\ \/ c.how = "timed"
     \/ c.how = "try" /\ owner[First(c.todo)] # Nobody
  /\ pc' = [pc EXCEPT ![t] = IF locked = {} THEN "idle" ELSE "unlock"]
  /\ call' = [call EXCEPT ![t] =
       IF locked = {} THEN NoCall
       ELSE [multi |-> c.multi, all |-> c.all, todo |-> locked, how |-> "undo"]]
  /\ UNCHANGED <<owner, count, list, lockers>>

-------------------------------------------------------------------------------
\* Unlocking

\* PreUnlockCheck, and DoMutexesMatchContainer.
MayUnlock(t, multi, S) ==
  IF multi THEN S = Recent(t)
           ELSE \A m \in S : /\ count[m] > 0
                             /\ AtCurrentLevel(t, m)
                             /\ m \in Listed(t)

Without(s, i) == SubSeq(s, 1, i - 1) \o SubSeq(s, i + 1, Len(s))

Unlock(t, i) ==
  LET l == lockers[t][i] IN
  /\ pc[t] = "idle"
  /\ Nested => i = Len(lockers[t])
  /\ MayUnlock(t, l.multi, l.set)
  /\ pc' = [pc EXCEPT ![t] = "unlock"]
  /\ call' = [call EXCEPT ![t] = [multi |-> l.multi, all |-> l.set,
                                  todo |-> l.set, how |-> "unlock"]]
  /\ lockers' = [lockers EXCEPT ![t] = Without(@, i)]
  /\ UNCHANGED <<owner, count, list>>

\* UnlockThis, or the end of PreUnlockCheck, of a mutex locked repeatedly.
Decrement(t) ==
  LET m == Last(call[t].todo) IN
  /\ pc[t] = "unlock"
  /\ count[m] > 1
  /\ count' = [count EXCEPT ![m] = @ - 1]
  /\ Continues(t, call[t].todo \ {m}, "unlock")
  /\ UNCHANGED <<owner, list, lockers>>

\* The list goes on with what m_previous of the mutex leads to, wherever in
\* the list the mutex is.
Previous(s, m) ==
  LET i == CHOOSE j \in 1..Len(s) : s[j] = m IN SubSeq(s, i + 1, Len(s))

PreUnlock(t) ==
  LET m == Last(call[t].todo) IN
  /\ pc[t] = "unlock"
  /\ count[m] <= 1
  /\ count' = [count EXCEPT ![m] = 0]
  /\ list' = [list EXCEPT ![t] = Previous(@, m)]
  /\ pc' = [pc EXCEPT ![t] = "release"]
  /\ UNCHANGED <<owner, call, lockers>>

\* m_mutex.Unlock.
Release(t) ==
  LET m == Last(call[t].todo) IN
  /\ pc[t] = "release"
  /\ owner' = [owner EXCEPT ![m] = Nobody]
  /\ Continues(t, call[t].todo \ {m}, "unlock")
  /\ UNCHANGED <<count, list, lockers>>

-------------------------------------------------------------------------------
Init ==
  /\ owner = [m \in Mutexes |-> Nobody]
  /\ count = [m \in Mutexes |-> 0]
  /\ list = [t \in Threads |-> <<>>]
  /\ pc = [t \in Threads |-> "idle"]
  /\ call = [t \in Threads |-> NoCall]
  /\ lockers = [t \in Threads |-> <<>>]

\* The rest of a call, once its checks have been passed.
Proceed(t) ==
  \/ Acquire(t) \/ PostLock(t) \/ GiveUp(t)
  \/ Decrement(t) \/ PreUnlock(t) \/ Release(t)

Next ==
  \E t \in Threads :
     \/ \E multi \in BOOLEAN, S \in Containers :
           \/ Relock(t, multi, S)
           \/ \E how \in Ways : Lock(t, multi, S, how)
     \/ \E i \in 1..Len(lockers[t]) : Unlock(t, i)
     \/ Proceed(t)

\* Threads that are inside a call are scheduled again.  Nothing is assumed of
\* who gets a mutex that several wait for, or of clients that hold one.
Spec == Init /\ [][Next]_vars /\ \A t \in Threads : WF_vars(Proceed(t))

-------------------------------------------------------------------------------
\* Properties

TypeOK ==
  /\ owner \in [Mutexes -> Threads \cup {Nobody}]
  /\ count \in [Mutexes -> Nat]
  /\ list \in [Threads -> Seq(Mutexes)]
  /\ pc \in [Threads -> {"idle", "lock", "post", "unlock", "release"}]
  /\ call \in [Threads -> Calls]
  /\ lockers \in [Threads -> Seq(Lockers)]

\* A mutex between m_mutex.Lock and PostLock, or PreUnlock and m_mutex.Unlock.
InHand(t) ==
  CASE pc[t] = "post" -> {First(call[t].todo)}
    [] pc[t] = "release" -> {Last(call[t].todo)}
    [] OTHER -> {}

\* LevelMutex.h:104-108: a thread's list has the mutexes it locked, until
\* they are unlocked, and nothing else; it is IsValidList's list, and mutexes
\* of one level are in it in the order in which MultiUnlock unlocks them.
ListsAreHeld ==
  \A t \in Threads :
     /\ {m \in Mutexes : owner[m] = t} = Listed(t) \cup InHand(t)
     /\ Listed(t) \cap InHand(t) = {}
     /\ \A i, j \in 1..Len(list[t]) : i < j => Above(list[t][j], list[t][i])

\* How often a thread has locked m: its lockers that hold m, and the call it
\* is in, which has locked, or has yet to unlock, some of its mutexes.
Holding(t, m) == {i \in 1..Len(lockers[t]) : m \in lockers[t][i].set}

Pending(t) ==
  CASE pc[t] \in {"lock", "post"} -> call[t].all \ call[t].todo
    [] pc[t] = "unlock" -> call[t].todo
    [] pc[t] = "release" -> call[t].todo \ {Last(call[t].todo)}
    [] OTHER -> {}

Uses(t, m) ==
  Cardinality(Holding(t, m)) + (IF m \in Pending(t) THEN 1 ELSE 0)

\* Each mutex is counted as often as lockers hold it, through calls that
\* relock some mutexes of a container and calls that time out half way.
CountsAreLockers ==
  \A m \in Mutexes :
     /\ owner[m] = Nobody => count[m] = 0 /\ \A t \in Threads : Uses(t, m) = 0
     /\ \A t \in Threads : owner[m] = t =>
          /\ count[m] = Uses(t, m)
          /\ \A u \in Threads \ {t} : Uses(u, m) = 0

\* The destructor of a locker drops the result and swallows exceptions
\* (LevelMutex.cpp:1072-1079, :1151-1158), so a refused unlock would leave its
\* mutexes locked for good.  In nested blocks no unlock is refused.
LastLockerLetsGo ==
  \A t \in Threads :
     LET l == lockers[t][Len(lockers[t])] IN
     (pc[t] = "idle" /\ lockers[t] # <<>>) => MayUnlock(t, l.multi, l.set)

\* Those who wait, however long it takes.
Waits(t, m) == pc[t] = "lock" /\ call[t].how = "wait" /\ m = First(call[t].todo)

\* LevelMutex.h:621-630: there are never threads each of which waits for a
\* mutex that one of them has.
NoDeadlock ==
  \A T \in SUBSET Threads : T # {} =>
     ~ \A t \in T : \E m \in Mutexes : Waits(t, m) /\ owner[m] \in T

\* A call with a time limit, or TryLock, returns even if nobody unlocks.
LimitedCallsEnd ==
  \A t \in Threads :
     (pc[t] = "lock" /\ call[t].how \in {"timed", "try"}) ~> (pc[t] = "idle")

\* The assertion of LevelMutex.cpp:676: what PreUnlock takes from the list is
\* at its head.
PreUnlocksCurrent ==
  \A t \in Threads :
     (pc[t] = "unlock" /\ count[Last(call[t].todo)] = 1)
        => list[t] # <<>> /\ list[t][1] = Last(call[t].todo)

\* A thread that is inside a mutex is there alone, and leaves it as often as
\* it went in.
Locks == INSTANCE ReentrantLocks WITH
  depth <- [t \in Threads |-> [m \in Mutexes |->
              IF m \in Listed(t) THEN count[m] ELSE 0]]
ImplementsLocks == Locks!Spec
===============================================================================
