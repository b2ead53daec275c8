------------------------------- MODULE StrongPtr -------------------------------
(***************************************************************************)
(* StrongPtr, Loki's strong and weak pointers (loki/include/loki/          *)
(* StrongPtr.h), over each of their ownership policies.  A call is a       *)
(* sequence of steps, since the destructor of an object destroys the       *)
(* pointers inside that object, and since another thread may come between  *)
(* two calls of LockableTwoRefCounts.                                      *)
(*                                                                         *)
(* A call in progress is a stack of frames, the innermost first:           *)
(*   swap      operator= has its temporary, to be swapped with node        *)
(*   release   the destructor of node calls Release                        *)
(*   recheck   a weak node has been counted off: is there a strong one     *)
(*   get, zap, clear, delete   the rest of ~StrongPtr                      *)
(*   members   ~T of obj destroys the pointers inside obj                  *)
(*   set       ResetAll has deleted the old object                         *)
(***************************************************************************)
EXTENDS RefCounts, RefLinks, Sequences

CONSTANTS
  Strong,       \* which of the Pointers are strong
  User,         \* the thread that uses a pointer
  Member,       \* the object that a pointer may be inside of, or Null
  Conditions    \* what the clients of a behaviour do, see below

\* links: the policy; pointers: those that are used; calls: optional calls
\* that are made, of "reset", "cast", "merge", "members".
ASSUME StrongPtrAssumption ==
  /\ Strong \subseteq Pointers
  /\ User \in [Pointers -> Threads]
  /\ Member \in [Pointers -> Objects \cup {Null}]
  /\ \A c \in Conditions :
       /\ c.links \in BOOLEAN
       /\ c.pointers \subseteq Pointers
       /\ c.calls \subseteq {"reset", "cast", "merge", "members"}

VARIABLES
  cond,      \* the condition of this behaviour
  live,      \* the nodes that have been constructed and not destroyed
  alive,     \* the objects that are allocated
  raw,       \* objects that ReleaseAll gave back to the client
  twins,     \* objects that pointers lead to which do not know of each other
  stack      \* per thread: the frames of its call

vars == <<block, info, pointer, prev, next, cond, live, alive, raw, twins, stack>>

Frame(at, n, as, o) == [at |-> at, node |-> n, as |-> as, obj |-> o]

-------------------------------------------------------------------------------
\* The policy of this behaviour

GetPointer(n) ==
  IF cond.links THEN pointer[n]
  ELSE IF block[n] = 0 THEN Null ELSE CountsPointer(n)

NewNode(n, o, strong) ==
  IF cond.links THEN LinksNew(n, o) /\ UNCHANGED countVars
                ELSE CountsNew(n, o, strong) /\ UNCHANGED linkVars

ShareNode(n, q, strong) ==
  IF cond.links THEN LinksShare(n, q) /\ UNCHANGED countVars
                ELSE CountsShare(n, q, strong) /\ UNCHANGED linkVars

SwapNodes(n, m) ==
  IF cond.links THEN LinksSwap(n, m) /\ UNCHANGED countVars
                ELSE CountsSwap(n, m) /\ UNCHANGED linkVars

HasStrong(n) ==
  IF cond.links THEN LinksStrong(n, Strong) ELSE CountsStrong(n)

SetPointer(n, o) ==
  IF cond.links THEN LinksSet(n, o) /\ UNCHANGED countVars
                ELSE CountsSet(n, o) /\ UNCHANGED linkVars

-------------------------------------------------------------------------------
\* What the clients may do

Idle(t) == stack[t] = <<>>

Usable(t, p) == Idle(t) /\ p \in live /\ User[p] = t

\* Objects whose memory is still in use by their destructor.
Frames == UNION {{stack[t][i] : i \in 1..Len(stack[t])} : t \in Threads}

Dying == {f.obj : f \in {g \in Frames : g.at = "members"}}

\* The addresses that an object can be allocated at.
FreshObjects == Objects \ (alive \cup Dying)

\* The object that a pointer is inside of.
Home(p) == IF "members" \in cond.calls THEN Member[p] ELSE Null

CanConstruct(p) ==
  /\ p \in cond.pointers \ live
  /\ Home(p) \in alive \cup {Null}

\* A client that has two sets of pointers to one object merges them before it
\* does anything else with it.
Known(n) == GetPointer(n) \notin twins

\* Clients that use pointers as they are meant to be used: from one thread, or
\* strong ones that count from several; without the optional calls that the
\* code does not make together.
OneUser(c) == \A p, q \in c.pointers : User[p] = User[q]

UsedWell(c) ==
  /\ "members" \in c.calls => c.calls \subseteq {"members", "cast"}
  /\ "merge" \in c.calls => c.links /\ Cardinality(c.pointers) <= 4
  /\ "reset" \in c.calls => ~c.links
  /\ \/ OneUser(c)
     \/ ~c.links /\ c.pointers \subseteq Strong /\ c.calls \subseteq {"cast"}

WellUsed == \A c \in Conditions : UsedWell(c)

-------------------------------------------------------------------------------
\* Construction

\* StrongPtr(p) of a new object or of one that the client got back.
Construct(t, p, o) ==
  /\ Idle(t) /\ CanConstruct(p) /\ User[p] = t
  /\ o \in FreshObjects \cup raw
  /\ NewNode(p, o, p \in Strong)
  /\ live' = live \cup {p}
  /\ alive' = alive \cup {o}
  /\ raw' = raw \ {o}
  /\ UNCHANGED <<cond, twins, stack>>

\* StrongPtr().
ConstructNull(t, p) ==
  /\ Idle(t) /\ CanConstruct(p) /\ User[p] = t
  /\ NewNode(p, Null, p \in Strong)
  /\ live' = live \cup {p}
  /\ UNCHANGED <<cond, alive, raw, twins, stack>>

\* StrongPtr(rhs), for this thread or for another one to go on with.
Copy(t, p, q) ==
  /\ Usable(t, q) /\ CanConstruct(p)
  /\ ShareNode(p, q, p \in Strong)
  /\ live' = live \cup {p}
  /\ UNCHANGED <<cond, alive, raw, twins, stack>>

\* StrongPtr(p) of an object that other pointers lead to already.
Twin(t, p, q) ==
  /\ "merge" \in cond.calls
  /\ Usable(t, q) /\ CanConstruct(p)
  /\ GetPointer(q) # Null /\ Known(q)
  /\ NewNode(p, GetPointer(q), p \in Strong)
  /\ live' = live \cup {p}
  /\ twins' = twins \cup {GetPointer(q)}
  /\ UNCHANGED <<cond, alive, raw, stack>>

Merge(t, p, q) ==
  /\ "merge" \in cond.calls
  /\ Usable(t, p) /\ Usable(t, q) /\ p # q
  /\ GetPointer(p) = GetPointer(q)
  /\ LinksMerge(p, q)
  /\ twins' = IF q \in Walk(prev, p) THEN twins ELSE twins \ {GetPointer(p)}
  /\ UNCHANGED <<countVars, pointer, cond, live, alive, raw, stack>>

-------------------------------------------------------------------------------
\* Assignment: a temporary is constructed, swapped and destroyed.

Push(t, f) == stack' = [stack EXCEPT ![t] = <<f>> \o @]

Temporary(t, p) ==
  /\ Push(t, Frame("swap", p, p, Null))
  /\ live' = live \cup {t}
  /\ UNCHANGED <<cond, twins>>

Assign(t, p, q) ==
  /\ Usable(t, p) /\ Usable(t, q) /\ Known(p) /\ Known(q)
  /\ GetPointer(p) # GetPointer(q)
  /\ ShareNode(t, q, p \in Strong)
  /\ Temporary(t, p)
  /\ UNCHANGED <<alive, raw>>

AssignRaw(t, p, o) ==
  /\ Usable(t, p) /\ Known(p)
  /\ o \in FreshObjects \cup raw \cup {Null} /\ GetPointer(p) # o
  /\ NewNode(t, o, p \in Strong)
  /\ Temporary(t, p)
  /\ alive' = alive \cup ({o} \ {Null})
  /\ raw' = raw \ {o}

\* DynamicCastFrom, whatever dynamic_cast says of the object.
CastFrom(t, p, q, isNull) ==
  /\ "cast" \in cond.calls
  /\ Usable(t, p) /\ Usable(t, q) /\ Known(p) /\ Known(q)
  /\ GetPointer(q) = Null => isNull
  /\ IF isNull THEN NewNode(t, Null, p \in Strong)
               ELSE ShareNode(t, q, p \in Strong)
  /\ Temporary(t, p)
  /\ UNCHANGED <<alive, raw>>

At(t, at) == ~Idle(t) /\ stack[t][1].at = at

\* The innermost frame of t goes on as f, or is done.
Becomes(t, f) == stack' = [stack EXCEPT ![t] = <<f>> \o Tail(@)]
Done(t) == stack' = [stack EXCEPT ![t] = Tail(@)]

SwapTemporary(t) ==
  LET p == stack[t][1].node IN
  /\ At(t, "swap")
  /\ SwapNodes(t, p)
  /\ Becomes(t, Frame("release", t, p, Null))
  /\ UNCHANGED <<cond, live, alive, raw, twins>>

\* StrongPtr::Swap by the client.
Swap(t, p, q) ==
  /\ Usable(t, p) /\ Usable(t, q) /\ p # q
  /\ p \in Strong <=> q \in Strong
  /\ SwapNodes(p, q)
  /\ UNCHANGED <<cond, live, alive, raw, twins, stack>>

-------------------------------------------------------------------------------
\* Destruction

Destroy(t, p) ==
  /\ Usable(t, p) /\ Known(p) /\ Home(p) = Null
  /\ Push(t, Frame("release", p, p, Null))
  /\ UNCHANGED <<countVars, linkVars, cond, live, alive, raw, twins>>

\* Decrement of a strong one says whether it was the last.
ReleaseStrong(t) ==
  LET f == stack[t][1] IN
  /\ ~cond.links /\ At(t, "release") /\ f.as \in Strong
  /\ CountsLess(f.node, TRUE)
  /\ IF info[block[f.node]].strong = 1
     THEN Becomes(t, [f EXCEPT !.at = "get"]) /\ UNCHANGED <<live, block>>
     ELSE Done(t) /\ live' = live \ {f.node} /\ CountsGone(f.node)
  /\ UNCHANGED <<linkVars, cond, alive, raw, twins>>

\* That of a weak one asks for strong ones in a second step.
ReleaseWeak(t) ==
  LET f == stack[t][1] IN
  /\ ~cond.links /\ At(t, "release") /\ f.as \notin Strong
  /\ CountsLess(f.node, FALSE)
  /\ Becomes(t, [f EXCEPT !.at = "recheck"])
  /\ UNCHANGED <<block, linkVars, cond, live, alive, raw, twins>>

\* Wrong variant: the last one of weak pointers keeps the object.
Recheck_NeverLast(t) ==
  LET f == stack[t][1] IN
  /\ At(t, "recheck")
  /\ IF CountsStrong(f.node) \/ info[block[f.node]].weak = 0
     THEN Done(t) /\ live' = live \ {f.node} /\ CountsGone(f.node)
     ELSE Becomes(t, [f EXCEPT !.at = "get"]) /\ UNCHANGED <<live, block>>
  /\ UNCHANGED <<info, linkVars, cond, alive, raw, twins>>

Recheck(t) ==
  LET f == stack[t][1] IN
  /\ At(t, "recheck")
  /\ IF CountsStrong(f.node)
     THEN Done(t) /\ live' = live \ {f.node} /\ CountsGone(f.node)
     ELSE Becomes(t, [f EXCEPT !.at = "get"]) /\ UNCHANGED <<live, block>>
  /\ UNCHANGED <<info, linkVars, cond, alive, raw, twins>>

\* The plain pointer is read without a lock, before it is zapped.
Get(t) ==
  LET f == stack[t][1] IN
  /\ At(t, "get")
  /\ Becomes(t, [f EXCEPT !.at = "zap", !.obj = CountsPointer(f.node)])
  /\ UNCHANGED <<countVars, linkVars, cond, live, alive, raw, twins>>

\* ZapPointer looks for weak pointers; without any the info is freed.
Zap(t) ==
  LET f == stack[t][1] IN
  /\ At(t, "zap")
  /\ IF info[block[f.node]].weak > 0
     THEN Becomes(t, [f EXCEPT !.at = "clear"]) /\ UNCHANGED <<countVars, live>>
     ELSE /\ CountsFree(f.node)
          /\ Becomes(t, [f EXCEPT !.at = "delete"])
          /\ live' = live \ {f.node}
  /\ UNCHANGED <<linkVars, cond, alive, raw, twins>>

\* Wrong variant: weak pointers keep the object allocated.
Clear_KeepsObject(t) ==
  LET f == stack[t][1] IN
  /\ At(t, "clear")
  /\ info' = [info EXCEPT ![block[f.node]].pointer = Null]
  /\ CountsGone(f.node)
  /\ Done(t)
  /\ live' = live \ {f.node}
  /\ UNCHANGED <<linkVars, cond, alive, raw, twins>>

Clear(t) ==
  LET f == stack[t][1] IN
  /\ At(t, "clear")
  /\ info' = [info EXCEPT ![block[f.node]].pointer = Null]
  /\ CountsGone(f.node)
  /\ Becomes(t, [f EXCEPT !.at = "delete"])
  /\ live' = live \ {f.node}
  /\ UNCHANGED <<linkVars, cond, alive, raw, twins>>

\* Release and ZapPointer of a linked node, which no other thread may watch.
ReleaseLink(t) ==
  LET f == stack[t][1]
      n == f.node
  IN
  /\ cond.links /\ At(t, "release")
  /\ IF next[n] # n /\ HasStrong(n)
     THEN LinksLeave(n) /\ Done(t)
     ELSE LinksZap(n) /\ Becomes(t, [f EXCEPT !.at = "delete", !.obj = pointer[n]])
  /\ live' = live \ {n}
  /\ UNCHANGED <<countVars, cond, alive, raw, twins>>

\* DP::Delete, of what is not null.
Delete(t) ==
  LET o == stack[t][1].obj IN
  /\ At(t, "delete")
  /\ IF o = Null THEN Done(t) /\ UNCHANGED alive
     ELSE /\ alive' = alive \ {o}
          /\ Becomes(t, [stack[t][1] EXCEPT !.at = "members"])
  /\ UNCHANGED <<countVars, linkVars, cond, live, raw, twins>>

\* Pointers inside an object are destroyed by its destructor.
Inside(t) ==
  {p \in live \cap Pointers : Home(p) # Null /\ Home(p) = stack[t][1].obj}
    \ {f.node : f \in Frames}

DestroyMember(t) ==
  /\ At(t, "members")
  /\ \/ /\ Inside(t) = {} /\ Done(t)
     \/ \E p \in Inside(t) : Push(t, Frame("release", p, p, Null))
  /\ UNCHANGED <<countVars, linkVars, cond, live, alive, raw, twins>>

-------------------------------------------------------------------------------
\* ResetAll and ReleaseAll, by CantResetWithStrong for weak pointers only that
\* have no strong co-pointer.

MayReset(t, p) ==
  /\ "reset" \in cond.calls
  /\ Usable(t, p) /\ Known(p)
  /\ p \notin Strong /\ ~HasStrong(p)

ResetAll(t, p, o) ==
  /\ MayReset(t, p)
  /\ o \in FreshObjects \cup raw \cup {Null} /\ GetPointer(p) # o
  /\ alive' = (alive \ {GetPointer(p)}) \cup ({o} \ {Null})
  /\ raw' = raw \ {o}
  /\ stack' = [stack EXCEPT ![t] = <<Frame("members", p, p, GetPointer(p)),
                                     Frame("set", p, p, o)>>]
  /\ UNCHANGED <<countVars, linkVars, cond, live, twins>>

Set(t) ==
  LET f == stack[t][1] IN
  /\ At(t, "set")
  /\ SetPointer(f.node, f.obj)
  /\ Done(t)
  /\ UNCHANGED <<cond, live, alive, raw, twins>>

ReleaseAll(t, p) ==
  /\ MayReset(t, p)
  /\ SetPointer(p, Null)
  /\ raw' = raw \cup ({GetPointer(p)} \ {Null})
  /\ UNCHANGED <<cond, live, alive, twins, stack>>

-------------------------------------------------------------------------------
Init ==
  /\ CountsInit /\ LinksInit
  /\ cond \in Conditions
  /\ live = {} /\ alive = {} /\ raw = {} /\ twins = {}
  /\ stack = [t \in Threads |-> <<>>]

Call(t) ==
  \/ \E p \in Pointers :
        \/ ConstructNull(t, p) \/ Destroy(t, p) \/ ReleaseAll(t, p)
        \/ \E o \in Objects : Construct(t, p, o)
        \/ \E o \in Objects \cup {Null} : AssignRaw(t, p, o) \/ ResetAll(t, p, o)
  \/ \E p, q \in Pointers :
        \/ Copy(t, p, q) \/ Twin(t, p, q) \/ Merge(t, p, q)
        \/ Assign(t, p, q) \/ Swap(t, p, q)
        \/ \E isNull \in BOOLEAN : CastFrom(t, p, q, isNull)

\* The rest of a call.
Proceed(t) ==
  \/ SwapTemporary(t) \/ ReleaseStrong(t) \/ ReleaseWeak(t) \/ Recheck(t)
  \/ Get(t) \/ Zap(t) \/ Clear(t) \/ ReleaseLink(t)
  \/ Delete(t) \/ DestroyMember(t) \/ Set(t)

Next == \E t \in Threads : Call(t) \/ Proceed(t)

\* Calls go on; clients need not call.
Spec == Init /\ [][Next]_vars /\ \A t \in Threads : WF_vars(Proceed(t))

-------------------------------------------------------------------------------
\* Properties

\* Nodes that have been counted off, in the middle of their destructor.
Leaving == {f.node : f \in {g \in Frames :
                               g.at \in {"recheck", "get", "zap", "clear"}}}

\* A temporary is of the type of the pointer that is assigned to.
StrongNodes ==
  Strong \cup {t \in Threads : ~Idle(t) /\ stack[t][Len(stack[t])].as \in Strong}

TypeOK ==
  /\ block \in [Nodes -> {0} \cup Blocks]
  /\ \A b \in Blocks : /\ info[b].pointer \in Objects \cup {Null}
                       /\ {info[b].strong, info[b].weak} \subseteq 0..Cardinality(Nodes)
  /\ pointer \in [Nodes -> Objects \cup {Null}]
  /\ {prev, next} \subseteq [Nodes -> Nodes \cup {Null}]
  /\ live \subseteq Nodes
  /\ raw \cup twins \subseteq alive /\ alive \subseteq Objects

\* StrongPtr.cpp's own checks of a cycle (CountPrevCycle, CountNextCycle,
\* AllNodesHaveSamePointer): it leads as far back as forth, and to one object.
\* And each info block counts the nodes that share it, those of its strong
\* and of its weak pointers, and is there as long as there are any.
LinksAgree ==
  \A n \in live : /\ {prev[n], next[n]} \subseteq live
                  /\ next[prev[n]] = n /\ prev[next[n]] = n
                  /\ pointer[next[n]] = pointer[n]

CountsAgree ==
  \A b \in Blocks :
     LET sharing == {n \in live : block[n] = b} IN
     /\ info[b].used <=> sharing # {}
     /\ info[b].strong = Cardinality((sharing \ Leaving) \cap StrongNodes)
     /\ info[b].weak = Cardinality((sharing \ Leaving) \ StrongNodes)

CopointersAgree == IF cond.links THEN LinksAgree ELSE CountsAgree

\* Between calls an object is allocated only as long as a pointer leads to it
\* or the client has it, through destructors that destroy further pointers.
NothingLeaks ==
  (\A t \in Threads : Idle(t)) =>
     \A o \in alive \ raw : \E n \in live : GetPointer(n) = o

\* The objects that a destructor has found to be without a strong pointer.
Doomed ==
  {o \in Objects : \E f \in Frames :
     \/ f.at \in {"zap", "clear", "delete"} /\ f.obj = o
     \/ f.at = "get" /\ CountsPointer(f.node) = o
     \/ f.at = "recheck" /\ CountsPointer(f.node) = o /\ ~CountsStrong(f.node)}

\* What ResetAll sets replaces, for other pointers, the old object only then.
Replacing == {f \in Frames : f.at = "set"}

LeadTo(o) == {n \in live \ Leaving : GetPointer(n) = o}

\* Pointers of either policy do what strong and weak pointers promise.
Shared == INSTANCE SharedObjects WITH
  alive <- (alive \ (raw \cup {f.obj : f \in Replacing}))
             \cup ({GetPointer(f.node) : f \in Replacing} \ {Null}),
  strong <- [o \in Objects |-> LeadTo(o) \cap StrongNodes],
  weak <- [o \in Objects |-> LeadTo(o) \ StrongNodes],
  doomed <- Doomed
ImplementsShared == Shared!Spec

\* StrongPtr.h: "When the last strong copointer dies, the object is destroyed
\* even if there are weak copointers."
DoomedAreDeleted ==
  \A o \in Objects : o \in Doomed ~> o \notin alive

\* A destructor deletes what is allocated: no object is deleted twice.
DeletedOnce ==
  \A t \in Threads : At(t, "delete") => stack[t][1].obj \in alive \cup {Null}
=============================================================================
