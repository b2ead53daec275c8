---------------------------- MODULE SharedProofs ----------------------------
(***************************************************************************)
(* Refinement: strong pointers promise what SharedObjects does, for any    *)
(* number of pointers, objects and threads and both ownership policies, as *)
(* long as they are well used.  What is promised about an object is put in *)
(* terms of the pointers that lead to it.                                  *)
(***************************************************************************)
EXTENDS StrongPtrProofs

(* The objects in the care of pointers.                                    *)
Cared ==
  (alive \ (raw \cup {f.obj : f \in Replacing}))
     \cup ({GetPointer(f.node) : f \in Replacing} \ {Null})

StrongTo(o) == LeadTo(o) \cap StrongNodes
WeakTo(o) == LeadTo(o) \ StrongNodes

Same(o) == StrongTo(o)' = StrongTo(o) /\ WeakTo(o)' = WeakTo(o)

sharedVars ==
  <<Cared, [o \in Objects |-> StrongTo(o)], [o \in Objects |-> WeakTo(o)], Doomed>>

SharedStep == Shared!Next \/ UNCHANGED sharedVars

LEMMA NothingNew ==
  ASSUME \A o \in Objects : Same(o), Cared' = Cared, Doomed' = Doomed
  PROVE  SharedStep
<1>1. [o \in Objects |-> StrongTo(o)]' = [o \in Objects |-> StrongTo(o)]
  BY DEF Same
<1>2. [o \in Objects |-> WeakTo(o)]' = [o \in Objects |-> WeakTo(o)]
  BY DEF Same
<1> QED BY <1>1, <1>2 DEF SharedStep, sharedVars

(* Nodes that led nowhere lead to an object.                               *)
Gains(o, N) ==
  /\ o \in Objects /\ N \subseteq Nodes
  /\ \A x \in Objects : x # o => Same(x)
  /\ \A x \in Objects : N \cap LeadTo(x) = {}
  /\ \/ StrongTo(o)' = StrongTo(o) \cup N /\ WeakTo(o)' = WeakTo(o)
     \/ WeakTo(o)' = WeakTo(o) \cup N /\ StrongTo(o)' = StrongTo(o)

LEMMA GainsMeans ==
  ASSUME NEW CONSTANT o, NEW CONSTANT N, Gains(o, N)
  PROVE  Shared!Lead(o)
<1> DEFINE S == [x \in Objects |-> StrongTo(x)]
           W == [x \in Objects |-> WeakTo(x)]
<1>1. S' = [S EXCEPT ![o] = S'[o]]
  BY DEF Gains, Same
<1>2. W' = [W EXCEPT ![o] = W'[o]]
  BY DEF Gains, Same
<1>3. \/ S[o] \subseteq S'[o] /\ W'[o] = W[o]
      \/ W[o] \subseteq W'[o] /\ S'[o] = S[o]
  BY DEF Gains
<1>4. \A x \in Objects : S[x] \cup W[x] = LeadTo(x)
  BY DEF StrongTo, WeakTo
<1>5. S'[o] \cup W'[o] = (S[o] \cup W[o]) \cup N
  BY DEF Gains
<1>6. \A n \in (S'[o] \cup W'[o]) \ (S[o] \cup W[o]) : \A x \in Objects : n \notin S[x] \cup W[x]
  BY <1>4, <1>5 DEF Gains
<1> HIDE DEF S, W
<1>7. Shared!Lead(o) <=>
        /\ S' = [S EXCEPT ![o] = S'[o]] /\ W' = [W EXCEPT ![o] = W'[o]]
        /\ \/ S[o] \subseteq S'[o] /\ W'[o] = W[o]
           \/ W[o] \subseteq W'[o] /\ S'[o] = S[o]
        /\ \A n \in (S'[o] \cup W'[o]) \ (S[o] \cup W[o]) :
             \A x \in Objects : n \notin S[x] \cup W[x]
  BY DEF S, W, StrongTo, WeakTo, Shared!Lead, Shared!LeadTo, Shared!Free
<1> QED BY <1>1, <1>2, <1>3, <1>6, <1>7

LEMMA Adopts ==
  ASSUME NEW CONSTANT o, NEW CONSTANT N, Gains(o, N), o \notin Cared,
         Cared' = Cared \cup {o}, Doomed' = Doomed
  PROVE  SharedStep
<1>1. Shared!Adopt(o)
  BY GainsMeans DEF Shared!Adopt, Cared
<1> QED BY <1>1 DEF SharedStep, Shared!Next, Gains

LEMMA Attaches ==
  ASSUME NEW CONSTANT o, NEW CONSTANT N, Gains(o, N), o \in Cared \ Doomed,
         LeadTo(o) # {}, Cared' = Cared, Doomed' = Doomed
  PROVE  SharedStep
<1>1. Shared!LeadTo(o) = LeadTo(o)
  BY DEF Shared!LeadTo, Gains
<1>2. Shared!Attach(o)
  BY <1>1, GainsMeans DEF Shared!Attach, Cared
<1> QED BY <1>2 DEF SharedStep, Shared!Next, Gains

(* A node goes that led to an object.                                      *)
LEMMA Detaches ==
  ASSUME NEW CONSTANT o \in Objects, NEW CONSTANT n \in Nodes, n \in LeadTo(o), o \notin Doomed,
         \A x \in Objects : x # o => Same(x), Cared' = Cared,
         StrongTo(o)' = StrongTo(o) \ {n},
         \/ /\ StrongTo(o) \ {n} = {} /\ Doomed' = Doomed \cup {o}
            /\ WeakTo(o)' = WeakTo(o) \ {n} \/ WeakTo(o)' = {}
         \/ /\ StrongTo(o) \ {n} # {} /\ Doomed' = Doomed
            /\ WeakTo(o)' = WeakTo(o) \ {n}
  PROVE  SharedStep
<1> DEFINE S == [x \in Objects |-> StrongTo(x)]
           W == [x \in Objects |-> WeakTo(x)]
<1>1. S' = [S EXCEPT ![o] = @ \ {n}]
  BY DEF Same
<1>2. WeakTo(o)' = WeakTo(o) \ {n} => W' = [W EXCEPT ![o] = @ \ {n}]
  BY DEF Same
<1>3. WeakTo(o)' = {} => W' = [W EXCEPT ![o] = {}]
  BY DEF Same
<1>4. S[o] \cup W[o] = LeadTo(o) /\ S[o] = StrongTo(o)
  BY DEF StrongTo, WeakTo
<1>5. Shared!Detach(o, n) <=>
        /\ n \in S[o] \cup W[o] /\ o \notin Doomed
        /\ S' = [S EXCEPT ![o] = @ \ {n}]
        /\ IF S[o] \ {n} = {}
           THEN /\ Doomed' = Doomed \cup {o}
                /\ W' \in {[W EXCEPT ![o] = @ \ {n}], [W EXCEPT ![o] = {}]}
           ELSE W' = [W EXCEPT ![o] = @ \ {n}] /\ Doomed' = Doomed
        /\ Cared' = Cared
  BY DEF Shared!Detach, Shared!LeadTo, StrongTo, WeakTo, Cared
<1> HIDE DEF S, W
<1>6. Shared!Detach(o, n)
  BY <1>1, <1>2, <1>3, <1>4, <1>5
<1> QED BY <1>6 DEF SharedStep, Shared!Next

LEMMA Swaps ==
  ASSUME NEW CONSTANT n \in Nodes, NEW CONSTANT m \in Nodes, n # m,
         \A x \in Objects :
           /\ StrongTo(x)' = Shared!Exchanged(StrongTo(x), n, m)
           /\ WeakTo(x)' = Shared!Exchanged(WeakTo(x), n, m),
         Cared' = Cared, Doomed' = Doomed
  PROVE  SharedStep
<1> DEFINE S == [x \in Objects |-> StrongTo(x)]
           W == [x \in Objects |-> WeakTo(x)]
<1>1. S' = [x \in Objects |-> Shared!Exchanged(S[x], n, m)]
  OBVIOUS
<1>2. W' = [x \in Objects |-> Shared!Exchanged(W[x], n, m)]
  OBVIOUS
<1>3. Shared!Swap(n, m) <=>
        /\ Cared' = Cared /\ Doomed' = Doomed /\ n # m
        /\ S' = [x \in Objects |-> Shared!Exchanged(S[x], n, m)]
        /\ W' = [x \in Objects |-> Shared!Exchanged(W[x], n, m)]
  BY DEF Shared!Swap, StrongTo, WeakTo, Cared
<1>4. Shared!Swap(n, m)
  BY <1>1, <1>2, <1>3
<1> QED BY <1>4 DEF SharedStep, Shared!Next

(* No pointer leads to o any more, the others lead where they led.         *)
Loses(o) ==
  /\ o \in Objects /\ StrongTo(o) = {} /\ StrongTo(o)' = {} /\ WeakTo(o)' = {}
  /\ \A x \in Objects : x # o => Same(x)

LEMMA LosesMeans ==
  ASSUME NEW CONSTANT o, Loses(o)
  PROVE  /\ [x \in Objects |-> StrongTo(x)]' = [x \in Objects |-> StrongTo(x)]
         /\ [x \in Objects |-> WeakTo(x)]' = [[x \in Objects |-> WeakTo(x)] EXCEPT ![o] = {}]
         /\ [x \in Objects |-> StrongTo(x)][o] = {}
<1>1. [x \in Objects |-> StrongTo(x)]' = [x \in Objects |-> StrongTo(x)]
  BY DEF Loses, Same
<1>2. [x \in Objects |-> WeakTo(x)]' = [[x \in Objects |-> WeakTo(x)] EXCEPT ![o] = {}]
  BY DEF Loses, Same
<1> QED BY <1>1, <1>2 DEF Loses

LEMMA Surrenders ==
  ASSUME NEW CONSTANT o, Loses(o), o \in Cared \ Doomed,
         Cared' = Cared \ {o}, Doomed' = Doomed
  PROVE  SharedStep
<1>1. Shared!Surrender(o)
  BY LosesMeans DEF Shared!Surrender, Cared, StrongTo, WeakTo
<1> QED BY <1>1 DEF SharedStep, Shared!Next, Loses

LEMMA Expires ==
  ASSUME NEW CONSTANT o, Loses(o), o \in Doomed, Cared' = Cared, Doomed' = Doomed
  PROVE  SharedStep
<1>1. Shared!Expire(o)
  BY LosesMeans DEF Shared!Expire, Cared, StrongTo, WeakTo
<1> QED BY <1>1 DEF SharedStep, Shared!Next, Loses

LEMMA Deletes ==
  ASSUME NEW CONSTANT o \in Objects, \A x \in Objects : Same(x), LeadTo(o) = {},
         o \in Doomed \cap Cared, Cared' = Cared \ {o}, Doomed' = Doomed \ {o}
  PROVE  SharedStep
<1>1. [x \in Objects |-> StrongTo(x)]' = [x \in Objects |-> StrongTo(x)]
  BY DEF Same
<1>2. [x \in Objects |-> WeakTo(x)]' = [x \in Objects |-> WeakTo(x)]
  BY DEF Same
<1>3. Shared!LeadTo(o) = {}
  BY DEF Shared!LeadTo
<1>4. Shared!Delete(o)
  BY <1>1, <1>2, <1>3 DEF Shared!Delete, Cared, StrongTo, WeakTo
<1> QED BY <1>4 DEF SharedStep, Shared!Next

(* The weak pointers of one object lead to another one, or nowhere.        *)
LEMMA Replaces ==
  ASSUME NEW CONSTANT o \in Objects, NEW CONSTANT new \in SUBSET Objects, o \notin new,
         o \in Cared \ Doomed, StrongTo(o) = {},
         \A x \in Objects : StrongTo(x)' = StrongTo(x),
         WeakTo(o)' = {}, \A x \in new : WeakTo(x)' = WeakTo(o),
         \A x \in Objects : x # o /\ x \notin new => WeakTo(x)' = WeakTo(x),
         Cared' = (Cared \ {o}) \cup new, Doomed' = Doomed
  PROVE  SharedStep
<1> DEFINE S == [x \in Objects |-> StrongTo(x)]
           W == [x \in Objects |-> WeakTo(x)]
<1>1. S' = S /\ S[o] = {}
  OBVIOUS
<1>2. W' = [x \in Objects |-> CASE x = o -> {}
                                [] x \in new -> W[o]
                                [] OTHER -> W[x]]
  <2>1. ASSUME NEW x \in Objects
        PROVE  WeakTo(x)' = CASE x = o -> {}
                              [] x \in new -> W[o]
                              [] OTHER -> W[x]
    BY <2>1
  <2> QED BY <2>1
<1>3. Shared!Replace(o, new) <=>
        /\ o \in Cared \ Doomed /\ S[o] = {}
        /\ W' = [x \in Objects |-> CASE x = o -> {}
                                     [] x \in new -> W[o]
                                     [] OTHER -> W[x]]
        /\ Cared' = (Cared \ {o}) \cup new /\ S' = S /\ Doomed' = Doomed
  BY DEF Shared!Replace, StrongTo, WeakTo, Cared
<1>4. Shared!Replace(o, new)
  BY <1>1, <1>2, <1>3
<1> QED BY <1>4 DEF SharedStep, Shared!Next
-----------------------------------------------------------------------------
(* Objects that are doomed, and objects in care.                           *)

DoomedBy(t, o) ==
  /\ ~Idle(t)
  /\ \/ Top(t).at \in {"zap", "clear", "delete"} /\ Top(t).obj = o
     \/ Top(t).at = "get" /\ CountsPointer(Top(t).node) = o
     \/ /\ Top(t).at = "recheck" /\ CountsPointer(Top(t).node) = o
        /\ ~CountsStrong(Top(t).node)

DoomedByThreads ==
  \A o : o \in Doomed <=> o \in Objects /\ \E t \in Threads : DoomedBy(t, o)

LEMMA DoomedMeans == ClientTypes /\ StacksAreSound => DoomedByThreads
<1> SUFFICES ASSUME ClientTypes, StacksAreSound PROVE DoomedByThreads
  OBVIOUS
<1> DEFINE Dooms(f, o) ==
             \/ f.at \in {"zap", "clear", "delete"} /\ f.obj = o
             \/ f.at = "get" /\ CountsPointer(f.node) = o
             \/ f.at = "recheck" /\ CountsPointer(f.node) = o /\ ~CountsStrong(f.node)
<1>1. ASSUME NEW o, o \in Doomed PROVE o \in Objects /\ \E t \in Threads : DoomedBy(t, o)
  <2>1. PICK t \in Threads : \E i \in 1 .. Len(stack[t]) : Dooms(stack[t][i], o)
    BY <1>1 DEF Doomed, Frames
  <2>2. PICK i \in 1 .. Len(stack[t]) : Dooms(stack[t][i], o)
    BY <2>1
  <2>3. FrameOK(t, stack[t][i], i = 1, i = Len(stack[t]))
    BY DEF StacksAreSound
  <2>4. i = 1
    BY <2>2, <2>3 DEF FrameOK
  <2>5. stack[t] # <<>>
    BY <2>4, EmptySeq
  <2>6. Dooms(Top(t), o)
    BY <2>2, <2>4 DEF Top
  <2> QED BY <1>1, <2>5, <2>6 DEF DoomedBy, Idle, Doomed
<1>2. ASSUME NEW o \in Objects, NEW t \in Threads, DoomedBy(t, o) PROVE o \in Doomed
  <2>1. 1 \in 1 .. Len(stack[t])
    BY <1>2, Frame1 DEF DoomedBy
  <2>2. stack[t][1] \in Frames
    BY <2>1 DEF Frames
  <2> QED BY <1>2, <2>2 DEF Doomed, DoomedBy, Top
<1> QED BY <1>1, <1>2 DEF DoomedByThreads

LEMMA DoomedLater == (ClientTypes /\ StacksAreSound)' => DoomedByThreads'
BY DoomedMeans, PTL

(* While nothing is to be set.                                             *)
NothingSet == \A s \in Threads : NothingToSet(s)

PlainCare == NothingSet => Cared = alive \ raw

LEMMA CareIsPlain == PlainCare
BY DEF PlainCare, NothingSet, NothingToSet, Cared, Replacing, Frames

LEMMA CaredMeans == NothingSet => Cared = alive \ raw
BY CareIsPlain DEF PlainCare

LEMMA CaredLater == NothingSet' => Cared' = alive' \ raw'
<1>1. PlainCare'
  BY CareIsPlain, PTL
<1> QED BY <1>1 DEF PlainCare

(* Another thread that is in a call has strong pointers that count.        *)
LEMMA NoneElse ==
  ASSUME Inv, WellUsed, NEW t \in Threads, NEW p \in cond.pointers, User[p] = t,
         NEW s \in Threads, s # t, ~Idle(s)
  PROVE  /\ ~cond.links /\ cond.pointers \subseteq Strong /\ cond.calls \subseteq {"cast"}
         /\ Top(s).at # "recheck"
<1>1. FrameOK(s, Top(s), TRUE, Len(stack[s]) = 1)
  BY TopIsSound DEF Inv, Sound
<1>2. Top(s).as \in cond.pointers /\ User[Top(s).as] = s
  BY <1>1 DEF FrameOK
<1>3. UsedWell(cond) /\ ~OneUser(cond)
  BY <1>2 DEF Inv, Sound, ClientTypes, WellUsed, OneUser
<1> QED BY <1>1, <1>2, <1>3 DEF UsedWell, FrameOK

LEMMA OthersDoom ==
  ASSUME Inv, Inv', WellUsed, cond' = cond,
         NEW t \in Threads, NEW p \in cond.pointers, User[p] = t,
         \A s \in Threads : s # t => stack'[s] = stack[s],
         \/ \A s \in Threads : s # t => Idle(s)
         \/ \A n \in live : Owner(n) # t => n \in live' /\ GetPointer(n)' = GetPointer(n)
  PROVE  \A s \in Threads : s # t => \A o : DoomedBy(s, o)' <=> DoomedBy(s, o)
<1> SUFFICES ASSUME NEW s \in Threads, s # t
             PROVE  \A o : DoomedBy(s, o)' <=> DoomedBy(s, o)
  OBVIOUS
<1>1. Top(s)' = Top(s) /\ (Idle(s)' <=> Idle(s))
  BY DEF Top, Idle
<1>2. CASE Idle(s)
  BY <1>1, <1>2 DEF DoomedBy
<1>3. CASE ~Idle(s)
  <2>1. ~cond.links /\ Top(s).at # "recheck"
    BY <1>3, NoneElse
  <2>2. CASE Top(s).at = "get"
    <3>1. FrameOK(s, Top(s), TRUE, Len(stack[s]) = 1)
      BY <1>3, TopIsSound DEF Inv, Sound
    <3>2. PICK n \in live : n = Top(s).node
      BY <2>2, <3>1 DEF FrameOK, Going, CountedOff
    <3>3. Owner(n) = s
      <4>1. 1 \in 1 .. Len(stack[s])
        BY <1>3, Frame1 DEF Inv, Sound
      <4> QED BY <3>2, <4>1, OwnersDestroy DEF Top, Inv, Sound
    <3>4. n \in live' /\ GetPointer(n)' = GetPointer(n)
      BY <1>3, <3>3
    <3>5. GetPointer(n) = CountsPointer(n)
      BY <2>1, LeadsOfBlock DEF CountsPointer
    <3>6. GetPointer(n)' = CountsPointer(n)'
      BY <2>1, <3>4, LeadsLater DEF CountsPointer
    <3> QED BY <1>1, <2>1, <2>2, <3>2, <3>4, <3>5, <3>6 DEF DoomedBy
  <2>3. CASE Top(s).at # "get"
    BY <1>1, <2>1, <2>3 DEF DoomedBy
  <2> QED BY <2>2, <2>3
<1> QED BY <1>2, <1>3

(* The objects that are doomed after a step of thread t.                   *)
LEMMA DoomedAfter ==
  ASSUME Inv, Inv', NEW t \in Threads,
         \A s \in Threads : s # t => \A o : DoomedBy(s, o)' <=> DoomedBy(s, o)
  PROVE  /\ \A o \in Objects : DoomedBy(t, o)' => o \in Doomed'
         /\ \A o : o \in Doomed' => DoomedBy(t, o)' \/ o \in Doomed
         /\ \A o : o \in Doomed => DoomedBy(t, o) \/ o \in Doomed'
         /\ (\A o : DoomedBy(t, o)' <=> DoomedBy(t, o)) => Doomed' = Doomed
<1>1. \A o : o \in Doomed <=> o \in Objects /\ \E s \in Threads : DoomedBy(s, o)
  BY DoomedMeans DEF DoomedByThreads, Inv, Sound
<1>2. \A o : o \in Doomed' <=> o \in Objects /\ \E s \in Threads : DoomedBy(s, o)'
  BY DoomedLater DEF DoomedByThreads, Inv, Sound
<1> HIDE DEF Doomed, DoomedBy
<1> QED BY <1>1, <1>2
-----------------------------------------------------------------------------
(* The nodes that lead to an object are one cycle, unless the client has   *)
(* made twins of it: then they are two.                                    *)

Linked(o) == {n \in live : pointer[n] = o}
Closed(G) == \A n \in G : next[n] \in G /\ prev[n] \in G
OneCycle(o) == \A G \in SUBSET Linked(o) : G # {} /\ Closed(G) => G = Linked(o)
TwoCycles(o) ==
  \A G, H \in SUBSET Linked(o) :
    G # {} /\ H # {} /\ G \cap H = {} /\ Closed(G) /\ Closed(H) => G \cup H = Linked(o)

CyclesKept(o) ==
  /\ OneCycle(o) => OneCycle(o)'
  /\ TwoCycles(o) => TwoCycles(o)'

LEMMA SameCycles ==
  ASSUME NEW CONSTANT o, Linked(o)' = Linked(o),
         \A m \in Linked(o) : next'[m] = next[m] /\ prev'[m] = prev[m]
  PROVE  CyclesKept(o)
<1>1. ASSUME NEW CONSTANT G \in SUBSET Linked(o) PROVE Closed(G)' <=> Closed(G)
  BY DEF Closed
<1>2. OneCycle(o) => OneCycle(o)'
  <2> HIDE DEF Linked, Closed
  <2> QED BY <1>1 DEF OneCycle
<1>3. TwoCycles(o) => TwoCycles(o)'
  <2> HIDE DEF Linked, Closed
  <2> QED BY <1>1 DEF TwoCycles
<1> QED BY <1>2, <1>3 DEF CyclesKept

(* A node joins a cycle.                                                   *)
LEMMA Joins ==
  ASSUME NEW CONSTANT o, NEW CONSTANT n, NEW CONSTANT q, q \in Linked(o), n \notin Linked(o),
         Linked(o)' = Linked(o) \cup {n},
         \A G \in SUBSET (Linked(o) \cup {n}) :
           Closed(G)' => Closed(G \ {n}) /\ (n \in G <=> q \in G)
  PROVE  CyclesKept(o)
<1> HIDE DEF Linked, Closed
<1>1. OneCycle(o) => OneCycle(o)'
  <2> SUFFICES ASSUME OneCycle(o), NEW CONSTANT G \in SUBSET Linked(o)', G # {}, Closed(G)'
               PROVE  G = Linked(o)'
    BY DEF OneCycle
  <2>1. Closed(G \ {n}) /\ (n \in G <=> q \in G)
    OBVIOUS
  <2>2. G \ {n} # {} /\ G \ {n} \in SUBSET Linked(o)
    BY <2>1
  <2>3. G \ {n} = Linked(o)
    BY <2>1, <2>2 DEF OneCycle
  <2> QED BY <2>1, <2>3
<1>2. TwoCycles(o) => TwoCycles(o)'
  <2> SUFFICES ASSUME TwoCycles(o), NEW CONSTANT G \in SUBSET Linked(o)',
                      NEW CONSTANT H \in SUBSET Linked(o)',
                      G # {}, H # {}, G \cap H = {}, Closed(G)', Closed(H)'
               PROVE  G \cup H = Linked(o)'
    BY DEF TwoCycles
  <2>1. Closed(G \ {n}) /\ (n \in G <=> q \in G) /\ Closed(H \ {n}) /\ (n \in H <=> q \in H)
    OBVIOUS
  <2>2. /\ G \ {n} # {} /\ G \ {n} \in SUBSET Linked(o)
        /\ H \ {n} # {} /\ H \ {n} \in SUBSET Linked(o) /\ (G \ {n}) \cap (H \ {n}) = {}
    BY <2>1
  <2>3. (G \ {n}) \cup (H \ {n}) = Linked(o)
    BY <2>1, <2>2 DEF TwoCycles
  <2> QED BY <2>1, <2>3
<1> QED BY <1>1, <1>2 DEF CyclesKept

(* A node begins a cycle of its own.                                       *)
LEMMA Begins ==
  ASSUME NEW CONSTANT o, NEW CONSTANT n, n \notin Linked(o),
         Linked(o)' = Linked(o) \cup {n},
         \A G \in SUBSET (Linked(o) \cup {n}) : Closed(G)' => Closed(G \ {n})
  PROVE  /\ Linked(o) = {} => OneCycle(o)' /\ TwoCycles(o)'
         /\ OneCycle(o) => TwoCycles(o)'
<1> HIDE DEF Linked, Closed
<1>1. Linked(o) = {} => OneCycle(o)' /\ TwoCycles(o)'
  BY DEF OneCycle, TwoCycles
<1>2. OneCycle(o) => TwoCycles(o)'
  <2> SUFFICES ASSUME OneCycle(o), NEW CONSTANT G \in SUBSET Linked(o)',
                      NEW CONSTANT H \in SUBSET Linked(o)',
                      G # {}, H # {}, G \cap H = {}, Closed(G)', Closed(H)'
               PROVE  G \cup H = Linked(o)'
    BY DEF TwoCycles
  <2>1. Closed(G \ {n}) /\ Closed(H \ {n})
    OBVIOUS
  <2>2. G \ {n} # {} => G \ {n} = Linked(o)
    BY <2>1 DEF OneCycle
  <2>3. H \ {n} # {} => H \ {n} = Linked(o)
    BY <2>1 DEF OneCycle
  <2> QED BY <2>2, <2>3
<1> QED BY <1>1, <1>2

LEMMA NewCycle ==
  ASSUME LinkTypes, live \subseteq Nodes, LinksAgree, NEW CONSTANT n \in Nodes, n \notin live,
         NEW CONSTANT o, LinksNew(n, o), live' = live \cup {n}
  PROVE  /\ \A x : x # o => CyclesKept(x)
         /\ Linked(o) = {} => OneCycle(o)' /\ TwoCycles(o)'
         /\ OneCycle(o) => TwoCycles(o)'
<1>1. /\ \A m \in live : pointer'[m] = pointer[m] /\ prev'[m] = prev[m] /\ next'[m] = next[m]
      /\ \A m \in live : prev[m] \in live /\ next[m] \in live
      /\ pointer'[n] = o /\ prev'[n] = n /\ next'[n] = n
  BY DEF LinksNew, LinkTypes, LinksAgree
<1>2. ASSUME NEW CONSTANT x, x # o PROVE CyclesKept(x)
  <2>1. Linked(x)' = Linked(x)
    BY <1>1, <1>2 DEF Linked
  <2>2. \A m \in Linked(x) : next'[m] = next[m] /\ prev'[m] = prev[m]
    BY <1>1 DEF Linked
  <2> QED BY <2>1, <2>2, SameCycles
<1>3. n \notin Linked(o) /\ Linked(o)' = Linked(o) \cup {n}
  BY <1>1 DEF Linked
<1>4. ASSUME NEW CONSTANT G \in SUBSET (Linked(o) \cup {n}), Closed(G)' PROVE Closed(G \ {n})
  <2>1. \A m \in G \ {n} : m \in live
    BY DEF Linked
  <2> QED BY <1>1, <1>4, <2>1 DEF Closed
<1>5. /\ Linked(o) = {} => OneCycle(o)' /\ TwoCycles(o)'
      /\ OneCycle(o) => TwoCycles(o)'
  BY <1>3, <1>4, Begins
<1> QED BY <1>2, <1>5

LEMMA SharedCycle ==
  ASSUME LinkTypes, live \subseteq Nodes, LinksAgree, NEW CONSTANT n \in Nodes, n \notin live,
         NEW CONSTANT q \in live, LinksShare(n, q), live' = live \cup {n}
  PROVE  \A x : CyclesKept(x)
<1> SUFFICES ASSUME NEW CONSTANT x PROVE CyclesKept(x)
  OBVIOUS
<1> DEFINE r == next[q]
<1>1. r \in live /\ prev[r] = q /\ \A m \in live : prev[m] \in live /\ next[m] \in live
                                     /\ next[prev[m]] = m /\ prev[next[m]] = m
  BY DEF LinksAgree
<1>9. /\ pointer' = [pointer EXCEPT ![n] = pointer[q]]
      /\ prev' = [prev EXCEPT ![n] = q, ![r] = n]
      /\ next' = [next EXCEPT ![n] = r, ![q] = n]
  BY DEF LinksShare
<1>10. pointer[r] = pointer[q]
  BY DEF LinksAgree
<1> HIDE DEF r
<1>2. /\ \A m \in live : pointer'[m] = pointer[m]
      /\ \A m \in live : m # r => prev'[m] = prev[m]
      /\ \A m \in live : m # q => next'[m] = next[m]
      /\ pointer'[n] = pointer[q] /\ prev'[n] = q /\ next'[n] = r /\ prev'[r] = n /\ next'[q] = n
  BY <1>1, <1>9 DEF LinkTypes
<1>3. CASE pointer[q] = x
  <2>1. n \notin Linked(x) /\ Linked(x)' = Linked(x) \cup {n} /\ q \in Linked(x)
    BY <1>2, <1>3 DEF Linked
  <2>2. ASSUME NEW CONSTANT G \in SUBSET (Linked(x) \cup {n}), Closed(G)'
        PROVE  Closed(G \ {n}) /\ (n \in G <=> q \in G)
    <3>1. \A m \in G : next'[m] \in G /\ prev'[m] \in G
      BY <2>2 DEF Closed
    <3>2. n \in G <=> q \in G
      BY <1>2, <3>1
    <3>3. n \in G <=> r \in G
      BY <1>2, <3>1
    <3>4. \A m \in G \ {n} : m \in live
      BY DEF Linked
    <3>5. \A m \in G \ {n} : next[m] \in G /\ prev[m] \in G
      BY <1>1, <1>2, <3>1, <3>2, <3>3, <3>4 DEF r
    <3>6. \A m \in G \ {n} : next[m] # n /\ prev[m] # n
      BY <1>1, <3>4
    <3> QED BY <3>2, <3>5, <3>6 DEF Closed
  <2> QED BY <2>1, <2>2, Joins
<1>4. CASE pointer[q] # x
  <2>1. Linked(x)' = Linked(x)
    BY <1>2, <1>4 DEF Linked
  <2>2. q \notin Linked(x) /\ r \notin Linked(x)
    BY <1>4, <1>10 DEF Linked
  <2>3. \A m \in Linked(x) : next'[m] = next[m] /\ prev'[m] = prev[m]
    BY <1>2, <2>2 DEF Linked
  <2> QED BY <2>1, <2>3, SameCycles
<1> QED BY <1>3, <1>4

(* A node leaves its cycle.                                                *)
LEMMA LeftCycle ==
  ASSUME LinkTypes, live \subseteq Nodes, LinksAgree, NEW CONSTANT n \in live,
         LinksLeave(n), next[n] # n, live' = live \ {n}
  PROVE  /\ \A x : x # pointer[n] => CyclesKept(x)
         /\ \A x : OneCycle(x) => OneCycle(x)'
<1> DEFINE l == prev[n]
           r == next[n]
<1>1. /\ l \in live /\ r \in live /\ next[l] = n /\ prev[r] = n /\ l # n /\ r # n
      /\ pointer[l] = pointer[n] /\ pointer[r] = pointer[n]
      /\ \A m \in live : prev[m] \in live /\ next[m] \in live
                         /\ next[prev[m]] = m /\ prev[next[m]] = m
  BY DEF LinksAgree
<1>2. /\ next' = [next EXCEPT ![l] = r, ![n] = Null]
      /\ prev' = [prev EXCEPT ![r] = l, ![n] = Null]
      /\ pointer' = [pointer EXCEPT ![n] = Null]
  BY DEF LinksLeave
<1>3. prev[n] = l /\ next[n] = r
  OBVIOUS
<1> HIDE DEF l, r
<1>4. /\ \A m \in live' : m \in live /\ pointer'[m] = pointer[m]
      /\ \A m \in live' : m # l => next'[m] = next[m]
      /\ \A m \in live' : m # r => prev'[m] = prev[m]
      /\ next'[l] = r /\ prev'[r] = l
  BY <1>1, <1>2 DEF LinkTypes
<1>5. ASSUME NEW CONSTANT x, x # pointer[n] PROVE CyclesKept(x)
  <2>1. Linked(x)' = Linked(x)
    BY <1>4, <1>5 DEF Linked
  <2>2. l \notin Linked(x) /\ r \notin Linked(x)
    BY <1>1, <1>5 DEF Linked
  <2>3. \A m \in Linked(x) : next'[m] = next[m] /\ prev'[m] = prev[m]
    BY <1>4, <1>5, <2>2 DEF Linked
  <2> QED BY <2>1, <2>3, SameCycles
<1>6. ASSUME NEW CONSTANT x, x = pointer[n], OneCycle(x) PROVE OneCycle(x)'
  <2> SUFFICES ASSUME NEW CONSTANT G \in SUBSET Linked(x)', G # {}, Closed(G)'
               PROVE  G = Linked(x)'
    BY DEF OneCycle
  <2>1. Linked(x)' = Linked(x) \ {n} /\ n \in Linked(x) /\ l \in Linked(x)
    BY <1>1, <1>4, <1>6 DEF Linked
  <2>2. \A m \in G : next'[m] \in G /\ prev'[m] \in G
    BY DEF Closed
  <2>3. l \in G <=> r \in G
    BY <1>4, <2>2
  <2>4. \A m \in G : m \in live' /\ m # n
    BY DEF Linked
  <2>5. CASE l \in G
    <3>1. \A m \in G : next[m] \in G \cup {n} /\ prev[m] \in G \cup {n}
      BY <1>1, <1>4, <2>2, <2>4
    <3>2. Closed(G \cup {n})
      BY <1>3, <2>3, <2>5, <3>1 DEF Closed
    <3>3. G \cup {n} = Linked(x)
      <4> HIDE DEF Linked, Closed
      <4> QED BY <1>6, <2>1, <3>2 DEF OneCycle
    <3> QED BY <2>1, <2>4, <3>3
  <2>6. CASE l \notin G
    <3>1. Closed(G)
      BY <1>4, <2>2, <2>3, <2>4, <2>6 DEF Closed
    <3>2. G = Linked(x)
      <4> HIDE DEF Linked, Closed
      <4> QED BY <1>6, <2>1, <3>1 DEF OneCycle
    <3> QED BY <2>1, <2>4, <3>2
  <2> QED BY <2>5, <2>6
<1>7. ASSUME NEW CONSTANT x, OneCycle(x) PROVE OneCycle(x)'
  <2>1. CASE x = pointer[n]
    BY <1>6, <1>7, <2>1
  <2>2. CASE x # pointer[n]
    BY <1>5, <1>7, <2>2 DEF CyclesKept
  <2> QED BY <2>1, <2>2
<1> QED BY <1>5, <1>7

(* The cycle of a node is the nodes that lead to its object.               *)
LEMMA AllAround ==
  ASSUME LinksAgree, live \subseteq Nodes, NEW CONSTANT n \in live, OneCycle(pointer[n])
  PROVE  Walk(prev, n) = Linked(pointer[n])
<1> DEFINE W == Walk(prev, n)
<1>1. /\ n \in W /\ W \subseteq live
      /\ \A m \in W : prev[m] \in W /\ next[m] \in W
  BY Around
<1>2. \A m \in W : pointer[m] = pointer[n]
  BY OneObject
<1> HIDE DEF W
<1>3. W \in SUBSET Linked(pointer[n]) /\ W # {} /\ Closed(W)
  BY <1>1, <1>2 DEF Linked, Closed
<1>4. W = Linked(pointer[n])
  BY <1>3 DEF OneCycle
<1> QED BY <1>4 DEF W

LEMMA ZappedCycle ==
  ASSUME LinkTypes, live \subseteq Nodes, LinksAgree, NEW CONSTANT n \in live,
         LinksZap(n), live' = live \ {n}, NEW CONSTANT x, x # Null
  PROVE  /\ x # pointer[n] => CyclesKept(x) /\ Linked(x)' = Linked(x)
         /\ x = pointer[n] /\ OneCycle(x) => OneCycle(x)' /\ Linked(x)' = {}
<1> DEFINE W == Walk(prev, n)
<1>1. n \in W /\ W \subseteq live /\ \A m \in W : pointer[m] = pointer[n]
  BY Around, OneObject
<1>2. /\ \A m \in live \ W : /\ pointer'[m] = pointer[m] /\ next'[m] = next[m]
                             /\ prev'[m] = prev[m]
      /\ \A m \in W : pointer'[m] = Null
  BY <1>1 DEF LinksZap
<1>3. ASSUME x # pointer[n] PROVE CyclesKept(x) /\ Linked(x)' = Linked(x)
  <2>1. \A m \in Linked(x) : m \in live \ W
    BY <1>1, <1>3 DEF Linked
  <2>2. Linked(x)' = Linked(x)
    <3> HIDE DEF W
    <3> QED BY <1>1, <1>2, <2>1 DEF Linked
  <2>3. \A m \in Linked(x) : next'[m] = next[m] /\ prev'[m] = prev[m]
    BY <1>2, <2>1
  <2> QED BY <2>2, <2>3, SameCycles
<1>4. ASSUME x = pointer[n], OneCycle(x) PROVE OneCycle(x)' /\ Linked(x)' = {}
  <2>1. W = Linked(x)
    BY <1>4, AllAround
  <2>2. Linked(x)' = {}
    <3> HIDE DEF W
    <3> QED BY <1>1, <1>2, <2>1 DEF Linked
  <2>3. OneCycle(x)'
    <3> HIDE DEF Linked
    <3> QED BY <2>2 DEF OneCycle
  <2> QED BY <2>2, <2>3
<1> QED BY <1>3, <1>4

(* Nodes that change places change it in all cycles.                       *)
Other(a, b, k) == IF k = a THEN b ELSE IF k = b THEN a ELSE k

LEMMA SwappedLinks ==
  ASSUME LinkTypes, live \subseteq Nodes, LinksAgree,
         NEW CONSTANT a \in live, NEW CONSTANT b \in live, a # b,
         LinksSwap(a, b), live' = live
  PROVE  \A m \in live : next'[Other(a, b, m)] = Other(a, b, next[m])
<1> DEFINE Swapping ==
      \/ next[a] = a /\ next[b] = b /\ UNCHANGED <<prev, next>>
      \/ next[a] = a /\ next[b] # b /\ MoveCycle(a, b)
      \/ next[a] # a /\ next[b] = b /\ MoveCycle(b, a)
      \/ next[a] = b /\ SwapNeighbours(a, b)
      \/ next[a] # b /\ prev[a] = b /\ SwapNeighbours(b, a)
      \/ /\ next[a] \notin {a, b} /\ next[b] # b /\ prev[a] # b
         /\ Elsewhere(a, b)
<1>1. Swapping
  BY DEF LinksSwap
<1>2. /\ \A m \in live : /\ prev[m] \in live /\ next[m] \in live
                         /\ next[prev[m]] = m /\ prev[next[m]] = m
      /\ prev[a] = b <=> next[b] = a
  BY DEF LinksAgree
<1> SUFFICES ASSUME NEW m \in live PROVE next'[Other(a, b, m)] = Other(a, b, next[m])
  OBVIOUS
<1>3. CASE next[a] = a /\ next[b] = b /\ UNCHANGED <<prev, next>>
  BY <1>2, <1>3 DEF Other
<1>4. CASE next[a] = a /\ next[b] # b /\ MoveCycle(a, b)
  <2>1. next' = [next EXCEPT ![a] = next[b], ![prev[b]] = a, ![b] = b]
    BY <1>4 DEF MoveCycle
  <2> QED BY <1>2, <1>4, <2>1 DEF Other, LinkTypes
<1>5. CASE next[a] # a /\ next[b] = b /\ MoveCycle(b, a)
  <2>1. next' = [next EXCEPT ![b] = next[a], ![prev[a]] = b, ![a] = a]
    BY <1>5 DEF MoveCycle
  <2> QED BY <1>2, <1>5, <2>1 DEF Other, LinkTypes
<1>6. CASE next[a] = b /\ SwapNeighbours(a, b)
  <2>1. CASE next[b] = a
    BY <1>2, <1>6, <2>1 DEF SwapNeighbours, Other
  <2>2. CASE next[b] # a
    <3>1. next' = [next EXCEPT ![prev[a]] = b, ![b] = a, ![a] = next[b]]
      BY <1>6, <2>2 DEF SwapNeighbours
    <3> QED BY <1>2, <1>6, <2>2, <3>1 DEF Other, LinkTypes
  <2> QED BY <2>1, <2>2
<1>7. CASE next[a] # b /\ prev[a] = b /\ SwapNeighbours(b, a)
  <2>1. next' = [next EXCEPT ![prev[b]] = a, ![a] = b, ![b] = next[a]]
    BY <1>7 DEF SwapNeighbours
  <2> QED BY <1>2, <1>7, <2>1 DEF Other, LinkTypes
<1>8. CASE /\ next[a] \notin {a, b} /\ next[b] # b /\ prev[a] # b
           /\ Elsewhere(a, b)
  <2>1. next' = [next EXCEPT ![a] = next[b], ![b] = next[a],
                  ![prev[a]] = next[prev[b]], ![prev[b]] = next[prev[a]]]
    BY <1>8 DEF Elsewhere
  <2>2. next' = [next EXCEPT ![a] = next[b], ![b] = next[a], ![prev[a]] = b, ![prev[b]] = a]
    BY <1>2, <2>1
  <2>3. prev[a] # a /\ prev[b] # b /\ prev[a] # prev[b] /\ next[b] # a /\ prev[b] # a
    BY <1>2, <1>8
  <2>4. /\ next'[a] = next[b] /\ next'[b] = next[a] /\ next'[prev[a]] = b /\ next'[prev[b]] = a
        /\ \A k \in live : k \notin {a, b, prev[a], prev[b]} => next'[k] = next[k]
    BY <1>2, <1>8, <2>2, <2>3 DEF LinkTypes
  <2>5. CASE m \in {a, b}
    BY <1>8, <2>3, <2>4, <2>5 DEF Other
  <2>6. CASE m \notin {a, b}
    BY <1>2, <1>8, <2>3, <2>4, <2>6 DEF Other
  <2> QED BY <2>5, <2>6
<1> QED BY <1>1, <1>3, <1>4, <1>5, <1>6, <1>7, <1>8

Turned(a, b, G) == {Other(a, b, k) : k \in G}

LEMMA TurnedTwice ==
  ASSUME NEW CONSTANT a, NEW CONSTANT b
  PROVE  /\ \A k : Other(a, b, Other(a, b, k)) = k
         /\ \A G : Turned(a, b, Turned(a, b, G)) = G
<1>1. \A k : Other(a, b, Other(a, b, k)) = k
  BY DEF Other
<1>2. ASSUME NEW G PROVE Turned(a, b, Turned(a, b, G)) = G
  <2>1. \A k \in Turned(a, b, Turned(a, b, G)) : k \in G
    BY <1>1 DEF Turned
  <2>2. \A k \in G : k \in Turned(a, b, Turned(a, b, G))
    BY <1>1 DEF Turned
  <2> QED BY <2>1, <2>2
<1> QED BY <1>1, <1>2

LEMMA TurnedSets ==
  ASSUME NEW CONSTANT a, NEW CONSTANT b
  PROVE  /\ \A G : Turned(a, b, G) = {} => G = {}
         /\ \A G, L : G \subseteq Turned(a, b, L) => Turned(a, b, G) \subseteq L
         /\ \A G, H : G \cap H = {} => Turned(a, b, G) \cap Turned(a, b, H) = {}
         /\ \A G, H : Turned(a, b, G) \cup Turned(a, b, H) = Turned(a, b, G \cup H)
<1>1. \A k : Other(a, b, Other(a, b, k)) = k
  BY TurnedTwice
<1>2. \A G : Turned(a, b, G) = {} => G = {}
  BY DEF Turned
<1>3. \A G, L : G \subseteq Turned(a, b, L) => Turned(a, b, G) \subseteq L
  BY <1>1 DEF Turned
<1>4. ASSUME NEW G, NEW H, G \cap H = {} PROVE Turned(a, b, G) \cap Turned(a, b, H) = {}
  <2> SUFFICES ASSUME NEW k \in Turned(a, b, G), k \in Turned(a, b, H) PROVE FALSE
    OBVIOUS
  <2>1. Other(a, b, k) \in G /\ Other(a, b, k) \in H
    BY <1>1 DEF Turned
  <2> QED BY <1>4, <2>1
<1>6. \A G, H : Turned(a, b, G) \cup Turned(a, b, H) = Turned(a, b, G \cup H)
  BY DEF Turned
<1> QED BY <1>2, <1>3, <1>4, <1>6

LEMMA SwappedCycles ==
  ASSUME LinkTypes, live \subseteq Nodes, LinksAgree,
         NEW CONSTANT a \in live, NEW CONSTANT b \in live, a # b,
         LinksSwap(a, b), live' = live
  PROVE  \A x : CyclesKept(x)
<1> SUFFICES ASSUME NEW CONSTANT x PROVE CyclesKept(x)
  OBVIOUS
<1> DEFINE o(k) == Other(a, b, k)
           T(G) == Turned(a, b, G)
<1>1. /\ \A k : o(o(k)) = k
      /\ \A k \in live : o(k) \in live
  BY TurnedTwice DEF Other
<1>2. \A k \in live : next'[o(k)] = o(next[k])
  BY SwappedLinks
<1>3. LinksAgree'
  BY LinkedSwap
<1>4. \A k \in live : prev[k] \in live /\ next[k] \in live /\ next[prev[k]] = k
  BY DEF LinksAgree
<1>5. \A k \in live : prev'[next'[k]] = k
  BY <1>3 DEF LinksAgree
<1>6. ASSUME NEW k \in live PROVE prev'[o(k)] = o(prev[k])
  <2>1. next'[o(prev[k])] = o(k)
    BY <1>2, <1>4
  <2>2. prev'[next'[o(prev[k])]] = o(prev[k])
    BY <1>1, <1>4, <1>5
  <2> QED BY <2>1, <2>2
<1>7. \A k \in live : pointer'[o(k)] = pointer[k]
  <2>1. pointer' = [pointer EXCEPT ![a] = pointer[b], ![b] = pointer[a]]
    BY DEF LinksSwap
  <2> QED BY <2>1 DEF LinkTypes, Other
<1> HIDE DEF o
<1>8. Linked(x)' = T(Linked(x))
  <2>1. ASSUME NEW k \in Linked(x)' PROVE k \in T(Linked(x))
    <3>1. k \in live /\ pointer'[k] = x
      BY DEF Linked
    <3>2. o(k) \in Linked(x) /\ k = o(o(k))
      BY <1>1, <1>7, <3>1 DEF Linked
    <3> QED BY <3>2 DEF Turned, o
  <2>2. ASSUME NEW k \in T(Linked(x)) PROVE k \in Linked(x)'
    <3>1. PICK j \in Linked(x) : k = o(j)
      BY DEF Turned, o
    <3> QED BY <1>1, <1>7, <3>1 DEF Linked
  <2> QED BY <2>1, <2>2
<1>9. ASSUME NEW CONSTANT G \in SUBSET T(Linked(x)), Closed(G)' PROVE Closed(T(G))
  <2>1. \A m \in G : next'[m] \in G /\ prev'[m] \in G
    BY <1>9 DEF Closed
  <2>2. \A m \in T(G) : o(m) \in G /\ m \in live
    <3> SUFFICES ASSUME NEW m \in T(G) PROVE o(m) \in G /\ m \in live
      OBVIOUS
    <3>1. PICK j \in G : m = o(j)
      BY DEF Turned, o
    <3>2. PICK k \in Linked(x) : j = o(k)
      BY DEF Turned, o
    <3> QED BY <1>1, <3>1, <3>2 DEF Linked
  <2>3. \A m \in T(G) : next'[o(m)] \in G /\ prev'[o(m)] \in G
    BY <2>1, <2>2
  <2>4. \A m \in T(G) : o(next[m]) \in G /\ o(prev[m]) \in G
    BY <1>2, <1>6, <2>2, <2>3
  <2>5. \A m \in T(G) : next[m] \in T(G) /\ prev[m] \in T(G)
    <3> SUFFICES ASSUME NEW m \in T(G) PROVE next[m] \in T(G) /\ prev[m] \in T(G)
      OBVIOUS
    <3>1. next[m] = o(o(next[m])) /\ prev[m] = o(o(prev[m]))
      BY <1>1
    <3>2. \A j \in G : o(j) \in T(G)
      BY DEF Turned, o
    <3> QED BY <2>4, <3>1, <3>2
  <2> QED BY <2>5 DEF Closed
<1>10. OneCycle(x) => OneCycle(x)'
  <2> SUFFICES ASSUME OneCycle(x), NEW CONSTANT G \in SUBSET Linked(x)', G # {}, Closed(G)'
               PROVE  G = Linked(x)'
    BY DEF OneCycle
  <2>1. PICK L : L = Linked(x)
    OBVIOUS
  <2>2. Linked(x)' = T(L) /\ G \subseteq T(L)
    BY <1>8, <2>1
  <2>3. T(G) # {} /\ T(G) \in SUBSET L
    BY <2>2, TurnedSets
  <2>4. Closed(T(G))
    BY <1>9, <2>1, <2>2
  <2>5. T(G) = L
    <3>1. PICK U : U = T(G)
      OBVIOUS
    <3>2. U # {} /\ U \in SUBSET Linked(x) /\ Closed(U)
      BY <2>1, <2>3, <2>4, <3>1
    <3>3. U = Linked(x)
      BY <3>2 DEF OneCycle
    <3> QED BY <2>1, <3>1, <3>3
  <2>6. G = T(L)
    BY <2>5, TurnedTwice
  <2> QED BY <2>2, <2>6
<1>11. TwoCycles(x) => TwoCycles(x)'
  <2> SUFFICES ASSUME TwoCycles(x), NEW CONSTANT G \in SUBSET Linked(x)',
                      NEW CONSTANT H \in SUBSET Linked(x)',
                      G # {}, H # {}, G \cap H = {}, Closed(G)', Closed(H)'
               PROVE  G \cup H = Linked(x)'
    BY DEF TwoCycles
  <2>1. PICK L : L = Linked(x)
    OBVIOUS
  <2>2. Linked(x)' = T(L) /\ G \subseteq T(L) /\ H \subseteq T(L)
    BY <1>8, <2>1
  <2>3. /\ T(G) # {} /\ T(G) \in SUBSET L
        /\ T(H) # {} /\ T(H) \in SUBSET L
    BY <2>2, TurnedSets
  <2>4. Closed(T(G)) /\ Closed(T(H))
    BY <1>9, <2>1, <2>2
  <2>5. T(G) \cap T(H) = {}
    BY TurnedSets
  <2>6. T(G) \cup T(H) = L
    <3>1. PICK U : U = T(G)
      OBVIOUS
    <3>2. PICK V : V = T(H)
      OBVIOUS
    <3>3. /\ U # {} /\ U \in SUBSET Linked(x) /\ Closed(U)
          /\ V # {} /\ V \in SUBSET Linked(x) /\ Closed(V) /\ U \cap V = {}
      BY <2>1, <2>3, <2>4, <2>5, <3>1, <3>2
    <3>4. U \cup V = Linked(x)
      BY <3>3 DEF TwoCycles
    <3> QED BY <2>1, <3>1, <3>2, <3>4
  <2>7. T(G \cup H) = L
    <3>1. T(G) \cup T(H) = T(G \cup H)
      BY SMTT(30), TurnedSets
    <3> QED BY <2>6, <3>1
  <2>8. G \cup H = T(L)
    BY <2>7, TurnedTwice
  <2> QED BY <2>2, <2>8
<1> QED BY <1>10, <1>11 DEF CyclesKept

(* Two cycles become one.                                                  *)
LEMMA MergedCycles ==
  ASSUME LinkTypes, live \subseteq Nodes, LinksAgree,
         NEW CONSTANT a \in live, NEW CONSTANT b \in live,
         NEW CONSTANT o, pointer[a] = o, pointer[b] = o, LinksMerge(a, b),
         UNCHANGED <<pointer, live>>,
         Cardinality(live) <= 4
  PROVE  /\ \A x : x # o => CyclesKept(x)
         /\ b \in Walk(prev, a) => CyclesKept(o)
         /\ b \notin Walk(prev, a) /\ TwoCycles(o) => OneCycle(o)'
<1> DEFINE W == Walk(prev, a)
           i == prev[a]
           j == next[a]
           k == prev[b]
           l == next[b]
<1>1. /\ a \in W /\ \A m \in W : prev[m] \in W /\ next[m] \in W
      /\ \A m \in live \ W : prev[m] \notin W /\ next[m] \notin W
  BY Around
<1>2. \A m \in live : /\ prev[m] \in live /\ next[m] \in live
                      /\ next[prev[m]] = m /\ prev[next[m]] = m
                      /\ pointer[next[m]] = pointer[m]
  BY DEF LinksAgree
<1>3. /\ {i, j, k, l} \subseteq live
      /\ prev[a] = i /\ next[i] = a /\ next[a] = j /\ prev[j] = a
      /\ prev[b] = k /\ next[k] = b /\ next[b] = l /\ prev[l] = b
      /\ pointer[j] = o /\ pointer[i] = o /\ pointer[k] = o /\ pointer[l] = o
  BY <1>2
<1>4. b \in W \/ \/ /\ l = b
                    /\ prev' = [prev EXCEPT ![b] = i, ![a] = b]
                    /\ next' = [next EXCEPT ![i] = b, ![b] = a]
                 \/ /\ j = a
                    /\ prev' = [prev EXCEPT ![a] = k, ![b] = a]
                    /\ next' = [next EXCEPT ![k] = a, ![a] = b]
                 \/ /\ l # b /\ j # a
                    /\ prev' = [prev EXCEPT ![j] = k, ![b] = a]
                    /\ next' = [next EXCEPT ![k] = i, ![a] = b]
  BY DEF LinksMerge
<1>5. b \in W => UNCHANGED <<prev, next>>
  BY DEF LinksMerge
<1>6. b \notin W => b # a /\ i \in W /\ j \in W /\ k \notin W /\ l \notin W
  BY <1>1
<1>7. \A x : Linked(x)' = Linked(x)
  BY DEF Linked
<1> HIDE DEF W, i, j, k, l
<1>8. ASSUME NEW CONSTANT x, x # o PROVE CyclesKept(x)
  <2>1. \A m \in Linked(x) : m \notin {a, b, i, j, k, l}
    BY <1>3, <1>8 DEF Linked
  <2>2. \A m \in Linked(x) : next'[m] = next[m] /\ prev'[m] = prev[m]
    BY <1>3, <1>4, <1>5, <2>1 DEF LinkTypes, Linked
  <2> QED BY <1>7, <2>2, SameCycles
<1>9. ASSUME b \in W PROVE CyclesKept(o)
  BY <1>5, <1>7, <1>9, SameCycles
<1>10. ASSUME b \notin W, TwoCycles(o) PROVE OneCycle(o)'
  <2> SUFFICES ASSUME NEW CONSTANT G \in SUBSET Linked(o), G # {}, Closed(G)'
               PROVE  G = Linked(o)
    BY <1>7 DEF OneCycle
  <2>1. \A m \in G : next'[m] \in G /\ prev'[m] \in G
    BY DEF Closed
  <2>2. {a, b, i, j, k, l} \subseteq Linked(o) /\ \A m \in G : m \in live
    BY <1>3 DEF Linked
  <2>3. CASE /\ l = b
             /\ prev' = [prev EXCEPT ![b] = i, ![a] = b]
             /\ next' = [next EXCEPT ![i] = b, ![b] = a]
    <3>1. /\ prev'[a] = b /\ prev'[b] = i /\ next'[i] = b /\ next'[b] = a /\ k = b
          /\ \A m \in live : m \notin {a, b} => prev'[m] = prev[m]
          /\ \A m \in live : m \notin {i, b} => next'[m] = next[m]
      BY <1>3, <1>6, <1>10, <2>3 DEF LinkTypes
    <3>2. (a \in G <=> b \in G) /\ (i \in G <=> b \in G)
      BY <2>1, <3>1
    <3>3. Closed(G \ {b})
      <4>1. ASSUME NEW m \in G, m # b PROVE next[m] \in G /\ next[m] # b
        <5>1. CASE m = i
          BY <1>3, <1>6, <1>10, <3>2, <4>1, <5>1
        <5>2. CASE m # i
          BY <1>2, <1>3, <2>1, <2>2, <2>3, <3>1, <4>1, <5>2
        <5> QED BY <5>1, <5>2
      <4>2. ASSUME NEW m \in G, m # b PROVE prev[m] \in G /\ prev[m] # b
        <5>1. CASE m = a
          BY <1>3, <1>6, <1>10, <3>2, <4>2, <5>1
        <5>2. CASE m # a
          BY ZenonT(40), <1>2, <1>3, <2>1, <2>2, <2>3, <3>1, <4>2, <5>2
        <5> QED BY <5>1, <5>2
      <4> QED BY <4>1, <4>2 DEF Closed
    <3>4. Closed({b})
      BY <1>3, <2>3, <3>1 DEF Closed
    <3>5. G \ {b} # {}
      BY <1>6, <1>10, <3>2
    <3>6. (G \ {b}) \cup {b} = Linked(o)
      <4>1. PICK H \in SUBSET Linked(o) : H = G \ {b}
        OBVIOUS
      <4>2. PICK K \in SUBSET Linked(o) : K = {b}
        BY <2>2
      <4>3. H # {} /\ K # {} /\ H \cap K = {} /\ Closed(H) /\ Closed(K)
        BY <3>3, <3>4, <3>5, <4>1, <4>2
      <4>4. H \cup K = Linked(o)
        BY <1>10, <4>3 DEF TwoCycles
      <4> QED BY <4>1, <4>2, <4>4
    <3> QED BY <1>6, <1>10, <2>2, <3>2, <3>6
  <2>4. CASE /\ j = a
             /\ prev' = [prev EXCEPT ![a] = k, ![b] = a]
             /\ next' = [next EXCEPT ![k] = a, ![a] = b]
    <3>1. /\ prev'[a] = k /\ prev'[b] = a /\ next'[k] = a /\ next'[a] = b /\ i = a
          /\ \A m \in live : m \notin {a, b} => prev'[m] = prev[m]
          /\ \A m \in live : m \notin {k, a} => next'[m] = next[m]
      BY <1>3, <1>6, <1>10, <2>4 DEF LinkTypes
    <3>2. (a \in G <=> b \in G) /\ (k \in G <=> a \in G)
      BY <2>1, <3>1
    <3>3. Closed(G \ {a})
      <4>1. ASSUME NEW m \in G, m # a PROVE next[m] \in G /\ next[m] # a
        <5>1. CASE m = k
          BY <1>3, <1>6, <1>10, <3>2, <4>1, <5>1
        <5>2. CASE m # k
          BY <1>2, <1>3, <2>1, <2>2, <2>4, <3>1, <4>1, <5>2
        <5> QED BY <5>1, <5>2
      <4>2. ASSUME NEW m \in G, m # a PROVE prev[m] \in G /\ prev[m] # a
        <5>1. CASE m = b
          BY <1>3, <1>6, <1>10, <3>2, <4>2, <5>1
        <5>2. CASE m # b
          BY ZenonT(40), <1>2, <1>3, <2>1, <2>2, <2>4, <3>1, <4>2, <5>2
        <5> QED BY <5>1, <5>2
      <4> QED BY <4>1, <4>2 DEF Closed
    <3>4. Closed({a})
      BY <1>3, <2>4, <3>1 DEF Closed
    <3>5. G \ {a} # {}
      BY <1>6, <1>10, <3>2
    <3>6. (G \ {a}) \cup {a} = Linked(o)
      <4>1. PICK H \in SUBSET Linked(o) : H = G \ {a}
        OBVIOUS
      <4>2. PICK K \in SUBSET Linked(o) : K = {a}
        BY <2>2
      <4>3. H # {} /\ K # {} /\ H \cap K = {} /\ Closed(H) /\ Closed(K)
        BY <3>3, <3>4, <3>5, <4>1, <4>2
      <4>4. H \cup K = Linked(o)
        BY <1>10, <4>3 DEF TwoCycles
      <4> QED BY <4>1, <4>2, <4>4
    <3> QED BY <1>6, <1>10, <2>2, <3>2, <3>6
  <2>5. CASE /\ l # b /\ j # a
             /\ prev' = [prev EXCEPT ![j] = k, ![b] = a]
             /\ next' = [next EXCEPT ![k] = i, ![a] = b]
    <3>1. a # b /\ a # j /\ a # l /\ b # j /\ b # l /\ j # l /\ i # a /\ k # b
      BY <1>1, <1>3, <1>6, <1>10, <2>5
    <3>2. IsFiniteSet(live)
      BY NodesAssumption, FS_Subset
    <3>3. live = {a, b, j, l}
      <4>1. j \in live /\ l \in live
        BY <1>3
      <4> QED BY <3>1, <3>2, <4>1, FourOf
    <3>4. i = j /\ k = l
      <4>1. i \in {a, b, j, l} /\ k \in {a, b, j, l}
        BY <1>3, <3>3
      <4> QED BY <1>1, <1>6, <1>10, <3>1, <4>1
    <3>5. next'[a] = b /\ next'[b] = l /\ next'[l] = j /\ next'[j] = a
      BY <1>3, <2>5, <3>1, <3>4 DEF LinkTypes
    <3>6. a \in G /\ b \in G /\ j \in G /\ l \in G
      BY <2>1, <2>2, <3>3, <3>5
    <3> QED BY <2>2, <3>3, <3>6 DEF Linked
  <2> QED BY <1>4, <1>10, <2>3, <2>4, <2>5
<1> QED BY <1>8, <1>9, <1>10 DEF W
-----------------------------------------------------------------------------
(* What a step of the promise relies on.                                   *)

LeadsToCared == \A n \in live : GetPointer(n) \in Cared \cup {Null}

(* Thread t is about to delete object o.                                   *)
Deleting(t, o) == ~Idle(t) /\ Top(t).at = "delete" /\ Top(t).obj = o

DeletingSound ==
  \A t \in Threads : \A o \in Objects : Deleting(t, o) =>
    /\ o \in alive \ raw
    /\ \A n \in live : GetPointer(n) # o
    /\ \A s \in Threads : Deleting(s, o) => s = t

SettingOK(f) ==
  /\ GetPointer(f.node) \notin alive /\ GetPointer(f.node) # f.obj
  /\ f.obj # Null => f.obj \in alive \ raw /\ \A n \in live : GetPointer(n) # f.obj
  /\ info[block[f.node]].strong = 0

SettingSound ==
  \A t \in Threads : \A i \in 1 .. Len(stack[t]) : stack[t][i].at = "set" => SettingOK(stack[t][i])

CareSound == LeadsToCared /\ DeletingSound /\ SettingSound

KnownIn(t) ==
  /\ Top(t).at \in {"swap", "release"} => Known(Top(t).node)
  /\ Top(t).at = "swap" => Known(t)
  /\ Top(t).at = "delete" => Top(t).obj \notin twins

TwinsSound ==
  /\ twins \subseteq alive \ raw
  /\ twins # {} => "merge" \in cond.calls
  /\ \A t \in Threads : ~Idle(t) => KnownIn(t)

CyclesSound ==
  cond.links => \A o \in Objects : IF o \in twins THEN TwoCycles(o) ELSE OneCycle(o)

BlocksSound ==
  ~cond.links => \A n, m \in live :
     GetPointer(n) = GetPointer(m) /\ GetPointer(n) # Null => block[n] = block[m]

Coherent == CareSound /\ TwinsSound /\ CyclesSound /\ BlocksSound

-----------------------------------------------------------------------------
(* Steps while nothing is to be set.                                       *)

LEMMA CareKept ==
  ASSUME NothingSet, NothingSet', CareSound, NEW t \in Threads,
         \A s \in Threads : s # t => stack'[s] = stack[s],
         \A n \in live' : GetPointer(n)' \in (alive' \ raw') \cup {Null},
         \A n \in live' : \/ \E m \in live : GetPointer(m) = GetPointer(n)'
                          \/ GetPointer(n)' \notin alive \ raw,
         \A s \in Threads : \A o \in Objects : s # t /\ Deleting(s, o) => o \in alive' \ raw',
         \A o \in Objects : Deleting(t, o)' =>
           /\ o \in alive' \ raw' /\ \E m \in live : GetPointer(m) = o
           /\ \A n \in live' : GetPointer(n)' # o
  PROVE  CareSound'
<1>1. Cared = alive \ raw /\ Cared' = alive' \ raw'
  BY CaredMeans, CaredLater
<1>2. LeadsToCared'
  BY <1>1 DEF LeadsToCared
<1>3. \A s \in Threads : \A o : s # t => (Deleting(s, o)' <=> Deleting(s, o))
  BY DEF Deleting, Idle, Top
<1>4. ASSUME NEW s \in Threads, NEW o \in Objects, Deleting(s, o)'
      PROVE  /\ o \in alive' \ raw' /\ \A n \in live' : GetPointer(n)' # o
             /\ \A r \in Threads : Deleting(r, o)' => r = s
  <2>1. ASSUME NEW r \in Threads, r # t, Deleting(r, o)'
        PROVE  /\ o \in alive \ raw /\ o \in alive' \ raw' /\ \A n \in live : GetPointer(n) # o
               /\ \A q \in Threads : Deleting(q, o) => q = r
    BY <1>3, <2>1 DEF CareSound, DeletingSound
  <2>2. CASE s = t
    <3>1. \A r \in Threads : r # t => ~Deleting(r, o)'
      BY <1>4, <2>1, <2>2
    <3> QED BY <1>4, <2>2, <3>1
  <2>3. CASE s # t
    <3>1. /\ o \in alive \ raw /\ o \in alive' \ raw' /\ \A n \in live : GetPointer(n) # o
          /\ \A q \in Threads : Deleting(q, o) => q = s
      BY <1>4, <2>1, <2>3
    <3>2. \A n \in live' : GetPointer(n)' # o
      BY <3>1
    <3>3. ~Deleting(t, o)'
      BY <3>1
    <3> QED BY <1>3, <3>1, <3>2, <3>3
  <2> QED BY <2>2, <2>3
<1>5. DeletingSound'
  BY <1>4 DEF DeletingSound
<1>6. SettingSound'
  BY DEF SettingSound, NothingSet, NothingToSet
<1> QED BY <1>2, <1>5, <1>6 DEF CareSound

(* A call that returns at once or that goes on with one frame.             *)
Calls(t) ==
  /\ Idle(t) /\ cond' = cond
  /\ \/ stack' = stack
     \/ \E f \in FrameType : f.at \in {"swap", "release"} /\ Push(t, f)

LEMMA CallIs ==
  ASSUME Inv, Inv', WellUsed, NEW t \in Threads, NEW p \in cond.pointers, User[p] = t, Calls(t)
  PROVE  /\ NothingSet /\ NothingSet' /\ Cared = alive \ raw /\ Cared' = alive' \ raw'
         /\ BeginsCall(t) /\ Owner(p) = t
         /\ \A s \in Threads : s # t => stack'[s] = stack[s]
         /\ \A o : ~DoomedBy(t, o) /\ ~DoomedBy(t, o)' /\ ~Deleting(t, o) /\ ~Deleting(t, o)'
<1>1. ClientTypes /\ Idle(t) /\ NothingToSet(t)
  BY NothingSetMeans DEF Calls, Inv, Sound
<1>2. /\ \A s \in Threads : s # t => stack'[s] = stack[s]
      /\ NothingToSet(t)'
      /\ stack'[t] = <<>> \/ stack'[t][1].at \in {"swap", "release"}
  <2>1. CASE stack' = stack
    BY <1>1, <2>1 DEF NothingToSet, Idle
  <2>2. ASSUME NEW f \in FrameType, f.at \in {"swap", "release"}, Push(t, f)
        PROVE  /\ \A s \in Threads : s # t => stack'[s] = stack[s]
               /\ NothingToSet(t)'
               /\ stack'[t][1].at \in {"swap", "release"}
    BY <1>1, <2>2, PushedFrames
  <2> QED BY <2>1, <2>2 DEF Calls
<1>3. \A s \in Threads : s # t => NothingToSet(s)
  BY NoOtherSets
<1>4. NothingSet /\ NothingSet'
  BY <1>1, <1>2, <1>3 DEF NothingSet, NothingToSet
<1>5. BeginsCall(t)
  BY <1>1, <1>2 DEF BeginsCall, Calls, CountedOff
<1>6. Owner(p) = t
  BY StrongPtrAssumption DEF Owner, Inv, Sound, ClientTypes
<1>7. \A o : ~DoomedBy(t, o) /\ ~DoomedBy(t, o)' /\ ~Deleting(t, o) /\ ~Deleting(t, o)'
  BY <1>1, <1>2 DEF DoomedBy, Deleting, Top, Idle
<1> QED BY <1>2, <1>4, <1>5, <1>6, <1>7, CaredMeans, CaredLater

(* A node that some pointer of an idle thread leads to is not doomed.      *)
LEMMA NotDoomed ==
  ASSUME Inv, WellUsed, CareSound, BlocksSound, NEW t \in Threads,
         NEW q \in live, Owner(q) = t, NEW o \in Objects, GetPointer(q) = o,
         \A x : ~DoomedBy(t, x), q \notin Leaving
  PROVE  o \notin Doomed
<1> SUFFICES ASSUME NEW s \in Threads, s # t, DoomedBy(s, o) PROVE FALSE
  BY DoomedMeans DEF DoomedByThreads, Inv, Sound
<1>1. ~Idle(s) /\ o # Null
  BY NodesAssumption DEF DoomedBy
<1>2. PICK p \in cond.pointers : User[p] = t
  BY LiveOwner DEF Inv, Sound
<1>3. ~cond.links /\ cond.pointers \subseteq Strong /\ Top(s).at # "recheck"
  BY <1>1, <1>2, NoneElse
<1>4. Top(s).at # "delete"
  BY <1>1 DEF DoomedBy, Deleting, CareSound, DeletingSound
<1>5. Top(s).at \in {"get", "zap", "clear"}
  BY <1>3, <1>4 DEF DoomedBy
<1>6. Top(s).at \in Going /\ Top(s).at \in CountedOff
  BY <1>5 DEF Going, CountedOff
<1>7. PICK n \in live : n = Top(s).node /\ block[n] \in Blocks /\ Owner(n) = s
  BY <1>1, <1>3, <1>6, AtNode DEF Inv
<1>8. FoundOut(s) /\ CountsAgree
  BY <1>1, <1>3 DEF Inv, CountsAreSound
<1>9. GetPointer(n) = o /\ info[block[n]].strong = 0
  <2>1. GetPointer(n) = info[block[n]].pointer
    BY <1>3, LeadsOfBlock
  <2> QED BY <1>5, <1>7, <1>8, <2>1 DEF FoundOut, DoomedBy, CountsPointer
<1>10. block[q] = block[n]
  BY <1>1, <1>3, <1>9 DEF BlocksSound
<1>11. q \in StrongNodes
  <2>1. CASE q \in Pointers
    BY <1>3, <2>1 DEF Inv, Sound, ClientTypes, StrongNodes
  <2>2. CASE q \notin Pointers
    BY <1>3, <2>2, LiveOwner DEF Inv, Sound
  <2> QED BY <2>1, <2>2
<1>12. q \in StrongHolders(block[n])
  BY <1>10, <1>11 DEF StrongHolders, Holders, Sharing
<1> QED BY <1>7, <1>8, <1>9, <1>12, BlockSays DEF Inv, Sound
-----------------------------------------------------------------------------
(* Calls that construct a node.                                            *)

LEMMA NewLeader ==
  ASSUME Inv, Inv', NEW t \in Threads, BeginsCall(t),
         NEW CONSTANT n \in Nodes, n \notin live, live' = live \cup {n},
         \A m \in live : GetPointer(m)' = GetPointer(m),
         NEW CONSTANT o, GetPointer(n)' = o
  PROVE  /\ \A x : x # o => Same(x)
         /\ o \in Objects => Gains(o, {n})
<1>1. /\ Leaving' = Leaving /\ Leaving \subseteq live
      /\ \A m \in live : m \in StrongNodes' <=> m \in StrongNodes
  BY CallMeans DEF Inv
<1>2. \A x : x # o => LeadTo(x)' = LeadTo(x)
  <2> HIDE DEF Leaving
  <2> QED BY <1>1 DEF LeadTo
<1>3. LeadTo(o)' = LeadTo(o) \cup {n}
  <2> HIDE DEF Leaving
  <2> QED BY <1>1 DEF LeadTo
<1>4. \A x : LeadTo(x) \subseteq live
  BY DEF LeadTo
<1> HIDE DEF LeadTo, StrongNodes
<1>5. \A x : x # o => Same(x)
  BY <1>1, <1>2, <1>4 DEF Same, StrongTo, WeakTo
<1>6. ASSUME o \in Objects PROVE Gains(o, {n})
  <2>1. \A x : {n} \cap LeadTo(x) = {}
    BY <1>4
  <2>2. \/ StrongTo(o)' = StrongTo(o) \cup {n} /\ WeakTo(o)' = WeakTo(o)
        \/ WeakTo(o)' = WeakTo(o) \cup {n} /\ StrongTo(o)' = StrongTo(o)
    <3>1. CASE n \in StrongNodes'
      BY <1>1, <1>3, <1>4, <3>1 DEF StrongTo, WeakTo
    <3>2. CASE n \notin StrongNodes'
      BY <1>1, <1>3, <1>4, <3>2 DEF StrongTo, WeakTo
    <3> QED BY <3>1, <3>2
  <2> QED BY <1>5, <1>6, <2>1, <2>2 DEF Gains
<1> QED BY <1>5, <1>6

(* The thread t is not about to delete, before or after its step.          *)
LEMMA DoomedSame ==
  ASSUME Inv, Inv', WellUsed, cond' = cond,
         NEW t \in Threads, NEW p \in cond.pointers, User[p] = t,
         \A s \in Threads : s # t => stack'[s] = stack[s],
         \/ \A s \in Threads : s # t => Idle(s)
         \/ \A n \in live : Owner(n) # t => n \in live' /\ GetPointer(n)' = GetPointer(n),
         \A o : DoomedBy(t, o)' <=> DoomedBy(t, o)
  PROVE  Doomed' = Doomed
<1>1. \A s \in Threads : s # t => \A o : DoomedBy(s, o)' <=> DoomedBy(s, o)
  BY OthersDoom
<1> QED BY <1>1, DoomedAfter

LEMMA NodeAdded ==
  ASSUME Inv, Inv', WellUsed, Coherent, NEW t \in Threads,
         NEW p \in cond.pointers, User[p] = t, Calls(t),
         NEW CONSTANT n \in Nodes, n \notin live, live' = live \cup {n},
         \A m \in live : GetPointer(m)' = GetPointer(m),
         NEW CONSTANT o \in Objects \cup {Null}, GetPointer(n)' = o,
         \/ /\ alive' = alive /\ raw' = raw
            /\ o # Null => \E q \in live : GetPointer(q) = o /\ Owner(q) = t
         \/ /\ o \in Objects \ (alive \ raw)
            /\ alive' = alive \cup {o} /\ raw' = raw \ {o}
  PROVE  SharedStep /\ CareSound'
<1>1. /\ NothingSet /\ NothingSet' /\ Cared = alive \ raw /\ Cared' = alive' \ raw'
      /\ BeginsCall(t) /\ Owner(p) = t /\ cond' = cond
      /\ \A s \in Threads : s # t => stack'[s] = stack[s]
      /\ \A x : ~DoomedBy(t, x) /\ ~DoomedBy(t, x)' /\ ~Deleting(t, x) /\ ~Deleting(t, x)'
  BY CallIs DEF Calls
<1>2. \A x : x # o => Same(x)
  BY <1>1, NewLeader
<1>3. o \in Objects => Gains(o, {n})
  BY <1>1, NewLeader
<1>4. Doomed' = Doomed
  BY <1>1, DoomedSame
<1>5. SharedStep
  <2>1. CASE o = Null
    <3>1. Cared' = Cared /\ \A x \in Objects : Same(x)
      BY <1>1, <1>2, <2>1, NodesAssumption
    <3> QED BY <1>4, <3>1, NothingNew
  <2>2. CASE /\ o # Null /\ alive' = alive /\ raw' = raw
             /\ \E q \in live : GetPointer(q) = o /\ Owner(q) = t
    <3>1. PICK q \in live : GetPointer(q) = o /\ Owner(q) = t
      BY <2>2
    <3>2. q \notin Leaving
      BY <1>1, <3>1, CallMeans DEF Inv
    <3>3. o \notin Doomed
      BY <1>1, <2>2, <3>1, <3>2, NotDoomed DEF Coherent
    <3>4. o \in Cared
      BY <2>2, <3>1 DEF Coherent, CareSound, LeadsToCared
    <3>5. q \in LeadTo(o)
      BY <3>1, <3>2 DEF LeadTo
    <3> QED BY <1>1, <1>3, <1>4, <2>2, <3>3, <3>4, <3>5, Attaches
  <2>3. CASE o \in Objects \ (alive \ raw) /\ alive' = alive \cup {o} /\ raw' = raw \ {o}
    <3>1. o \notin Cared /\ Cared' = Cared \cup {o}
      BY <1>1, <2>3
    <3> QED BY <1>3, <1>4, <2>3, <3>1, Adopts
  <2> QED BY <2>1, <2>2, <2>3
<1>6. CareSound'
  <2>1. alive \ raw \subseteq alive' \ raw'
    OBVIOUS
  <2>2. \A m \in live : GetPointer(m) \in (alive \ raw) \cup {Null}
    BY <1>1 DEF Coherent, CareSound, LeadsToCared
  <2>3. \A m \in live' : GetPointer(m)' \in (alive' \ raw') \cup {Null}
    BY <2>1, <2>2
  <2>4. \A m \in live' : \/ \E k \in live : GetPointer(k) = GetPointer(m)'
                         \/ GetPointer(m)' \notin alive \ raw
    <3>1. (\E q \in live : GetPointer(q) = o) \/ o \notin alive \ raw
      BY NodesAssumption DEF Inv, Sound, ClientTypes
    <3> QED BY <3>1
  <2>5. \A s \in Threads : \A x \in Objects : s # t /\ Deleting(s, x) => x \in alive' \ raw'
    BY <2>1 DEF Coherent, CareSound, DeletingSound
  <2> QED BY <1>1, <2>3, <2>4, <2>5, CareKept DEF Coherent
<1> QED BY <1>5, <1>6

(* Calls that change no pointer.                                           *)
LEMMA NodesStay ==
  ASSUME Inv, Inv', WellUsed, Coherent, NEW t \in Threads,
         NEW p \in cond.pointers, User[p] = t, Calls(t),
         live' = live, alive' = alive, raw' = raw,
         \A m : GetPointer(m)' = GetPointer(m)
  PROVE  SharedStep /\ CareSound'
<1>1. /\ NothingSet /\ NothingSet' /\ Cared = alive \ raw /\ Cared' = alive' \ raw'
      /\ BeginsCall(t) /\ cond' = cond
      /\ \A s \in Threads : s # t => stack'[s] = stack[s]
      /\ \A x : ~DoomedBy(t, x) /\ ~DoomedBy(t, x)' /\ ~Deleting(t, x) /\ ~Deleting(t, x)'
  BY CallIs DEF Calls
<1>2. Doomed' = Doomed
  BY <1>1, DoomedSame
<1>3. /\ Leaving' = Leaving
      /\ \A m \in live : m \in StrongNodes' <=> m \in StrongNodes
  BY <1>1, CallMeans DEF Inv
<1>4. \A x : Same(x)
  <2>1. \A x : LeadTo(x)' = LeadTo(x) /\ LeadTo(x) \subseteq live
    <3> HIDE DEF Leaving
    <3> QED BY <1>3 DEF LeadTo
  <2> HIDE DEF LeadTo, StrongNodes
  <2> QED BY <1>3, <2>1 DEF Same, StrongTo, WeakTo
<1>5. SharedStep
  <2>1. Cared' = Cared
    BY <1>1
  <2> QED BY <1>2, <1>4, <2>1, NothingNew
<1>6. CareSound'
  <2>1. \A m \in live : GetPointer(m) \in (alive \ raw) \cup {Null}
    BY <1>1 DEF Coherent, CareSound, LeadsToCared
  <2>2. \A s \in Threads : \A x \in Objects : s # t /\ Deleting(s, x) => x \in alive' \ raw'
    BY DEF Coherent, CareSound, DeletingSound
  <2> QED BY <1>1, <2>1, <2>2, CareKept DEF Coherent
<1> QED BY <1>5, <1>6
-----------------------------------------------------------------------------
(* Blocks, cycles and twins.                                               *)

LEMMA BlocksGrow ==
  ASSUME BlocksSound, cond' = cond, NEW n, n \notin live, live' = live \cup {n},
         ~cond.links => \A m \in live : block'[m] = block[m],
         \A m \in live : GetPointer(m)' = GetPointer(m),
         \/ GetPointer(n)' = Null
         \/ \A m \in live : GetPointer(m) # GetPointer(n)'
         \/ \E q \in live : GetPointer(q) = GetPointer(n)' /\ (~cond.links => block'[n] = block[q])
  PROVE  BlocksSound'
<1> SUFFICES ASSUME ~cond.links, NEW m \in live', NEW k \in live',
                    GetPointer(m)' = GetPointer(k)', GetPointer(m)' # Null
             PROVE  block'[m] = block'[k]
  BY DEF BlocksSound
<1>1. CASE m # n /\ k # n
  BY <1>1 DEF BlocksSound
<1>2. CASE m = n /\ k = n
  BY <1>2
<1>3. ASSUME NEW j \in live, GetPointer(j) = GetPointer(n)', GetPointer(n)' # Null
      PROVE  block'[j] = block'[n]
  <2>1. PICK q \in live : GetPointer(q) = GetPointer(n)' /\ block'[n] = block[q]
    BY <1>3
  <2> QED BY <1>3, <2>1 DEF BlocksSound
<1>4. CASE m = n /\ k # n
  BY <1>3, <1>4
<1>5. CASE m # n /\ k = n
  BY <1>3, <1>5
<1> QED BY <1>1, <1>2, <1>4, <1>5

LEMMA CyclesFrom ==
  ASSUME CyclesSound, cond' = cond,
         \A x \in Objects : cond.links =>
           \/ CyclesKept(x) /\ (x \in twins' <=> x \in twins)
           \/ TwoCycles(x)' /\ x \in twins'
           \/ OneCycle(x)' /\ x \notin twins'
  PROVE  CyclesSound'
<1> SUFFICES ASSUME cond.links, NEW CONSTANT x \in Objects
             PROVE  IF x \in twins' THEN TwoCycles(x)' ELSE OneCycle(x)'
  BY DEF CyclesSound
<1> HIDE DEF OneCycle, TwoCycles
<1> QED BY DEF CyclesSound, CyclesKept

(* Clients that merge have one thread.                                     *)
LEMMA MergersAlone ==
  ASSUME Inv, WellUsed, NEW t \in Threads, NEW p \in cond.pointers, User[p] = t,
         cond.links \/ "merge" \in cond.calls \/ "reset" \in cond.calls
  PROVE  \A s \in Threads : s # t => Idle(s)
<1>1. UsedWell(cond)
  BY DEF WellUsed, Inv, Sound, ClientTypes
<1>2. OneUser(cond)
  BY <1>1 DEF UsedWell
<1> QED BY <1>2, TopHasUser DEF OneUser

LEMMA TwinsKept ==
  ASSUME Inv, WellUsed, TwinsSound, cond' = cond,
         NEW t \in Threads, NEW p \in cond.pointers, User[p] = t,
         \A s \in Threads : s # t => stack'[s] = stack[s],
         twins' \subseteq alive' \ raw', twins' # {} => "merge" \in cond.calls,
         "merge" \in cond.calls /\ ~Idle(t)' => KnownIn(t)'
  PROVE  TwinsSound'
<1>1. ASSUME NEW s \in Threads, ~Idle(s)' PROVE KnownIn(s)'
  <2>1. CASE twins' = {}
    BY <2>1 DEF KnownIn, Known
  <2>2. CASE twins' # {}
    <3>1. s = t
      BY <1>1, <2>2, MergersAlone DEF Idle
    <3> QED BY <1>1, <2>2, <3>1
  <2> QED BY <2>1, <2>2
<1> QED BY <1>1 DEF TwinsSound

-----------------------------------------------------------------------------
(* Calls by which a pointer is constructed, or a temporary for one.        *)

FrameFor(t, p, n) ==
  \/ stack' = stack
  \/ n = t /\ p \in live /\ Known(p) /\ Push(t, Frame("swap", p, p, Null))

LEMMA FrameForCalls ==
  ASSUME Inv, NEW t \in Threads, NEW p \in cond.pointers, User[p] = t, Idle(t),
         cond' = cond, NEW n, FrameFor(t, p, n)
  PROVE  /\ Calls(t)
         /\ ~Idle(t)' => /\ n = t /\ p \in live /\ Known(p)
                         /\ Top(t)'.at = "swap" /\ Top(t)'.node = p
<1>1. CASE stack' = stack
  BY <1>1 DEF Calls, Idle
<1>2. CASE n = t /\ p \in live /\ Known(p) /\ Push(t, Frame("swap", p, p, Null))
  <2>1. p \in Pointers /\ p \in Nodes /\ "swap" \in Labels
    BY StrongPtrAssumption DEF Labels, Nodes, Inv, Sound, ClientTypes
  <2>2. PICK f : f = Frame("swap", p, p, Null)
    OBVIOUS
  <2>3. f \in FrameType /\ f.at = "swap" /\ f.node = p
    BY <2>1, <2>2, FrameMeans
  <2>4. Push(t, f)
    BY <1>2, <2>2
  <2>5. stack'[t][1] = f
    BY <2>3, <2>4, PushedFrames DEF Inv, Sound
  <2> QED BY <1>2, <2>3, <2>4, <2>5 DEF Calls, Top
<1> QED BY <1>1, <1>2 DEF FrameFor

LEMMA TwinsByFrame ==
  ASSUME Inv, Inv', WellUsed, TwinsSound, NEW t \in Threads, NEW p \in cond.pointers, User[p] = t,
         Idle(t), cond' = cond, NEW CONSTANT n, FrameFor(t, p, n), twins' = twins,
         twins \subseteq alive' \ raw',
         \A m \in live : GetPointer(m)' = GetPointer(m),
         n = t => GetPointer(n)' \notin twins
  PROVE  TwinsSound'
<1>1. /\ Calls(t)
      /\ ~Idle(t)' => /\ n = t /\ p \in live /\ Known(p)
                      /\ Top(t)'.at = "swap" /\ Top(t)'.node = p
  BY FrameForCalls
<1>2. \A s \in Threads : s # t => stack'[s] = stack[s]
  BY <1>1, CallIs
<1>3. ASSUME ~Idle(t)' PROVE KnownIn(t)'
  <2>1. Known(p)' /\ Known(t)'
    BY <1>1, <1>3 DEF Known
  <2>2. PICK q : q = p
    OBVIOUS
  <2>3. Top(t)'.node = q /\ Top(t)'.at = "swap" /\ Known(q)'
    BY <1>1, <1>3, <2>1, <2>2
  <2> QED BY <2>1, <2>3 DEF KnownIn, Known
<1> QED BY <1>2, <1>3, TwinsKept DEF TwinsSound

LEMMA ByNew ==
  ASSUME Inv, Inv', WellUsed, Coherent, NEW t \in Threads,
         NEW p \in cond.pointers, User[p] = t, Idle(t), cond' = cond,
         NEW CONSTANT n \in Nodes, n \notin live, live' = live \cup {n}, FrameFor(t, p, n),
         NEW CONSTANT o \in Objects \cup {Null}, NEW CONSTANT s \in BOOLEAN, NewNode(n, o, s),
         twins' = twins,
         \/ o = Null /\ alive' = alive /\ raw' = raw
         \/ /\ o \in Objects \ (alive \ raw)
            /\ alive' = alive \cup {o} /\ raw' = raw \ {o}
  PROVE  SharedStep /\ Coherent'
<1>1. (\A m \in live : GetPointer(m)' = GetPointer(m)) /\ GetPointer(n)' = o
  BY NewLeads
<1>2. Calls(t)
  BY FrameForCalls
<1>3. SharedStep /\ CareSound'
  BY <1>1, <1>2, NodeAdded
<1>4. o = Null \/ \A m \in live : GetPointer(m) # o
  <2>1. Cared = alive \ raw
    BY <1>2, CallIs
  <2> QED BY <2>1 DEF Coherent, CareSound, LeadsToCared
<1>5. BlocksSound'
  <2>1. ~cond.links => \A m \in live : block'[m] = block[m]
    BY DEF NewNode, CountsNew, Inv, CountTypes, Sound, ClientTypes
  <2> QED BY <1>1, <1>4, <2>1, BlocksGrow DEF Coherent
<1>6. CyclesSound'
  <2> SUFFICES ASSUME cond.links, NEW CONSTANT x \in Objects
               PROVE  CyclesKept(x) \/ (OneCycle(x)' /\ TwoCycles(x)')
    BY CyclesFrom DEF Coherent
  <2>1. LinksNew(n, o)
    BY DEF NewNode
  <2>2. LinkTypes /\ live \subseteq Nodes /\ LinksAgree
    BY DEF Inv, Sound, ClientTypes, LinksAreSound
  <2>3. x = o => Linked(x) = {}
    BY <1>4, NodesAssumption DEF Linked, GetPointer
  <2> HIDE DEF OneCycle, TwoCycles, CyclesKept
  <2> QED BY <2>1, <2>2, <2>3, NewCycle
<1>7. TwinsSound'
  <2>1. twins \subseteq alive \ raw
    BY DEF Coherent, TwinsSound
  <2>2. twins \subseteq alive' \ raw' /\ o \notin twins
    BY <2>1, NodesAssumption DEF Inv, Sound, ClientTypes
  <2> QED BY <1>1, <2>2, TwinsByFrame DEF Coherent
<1> QED BY <1>3, <1>5, <1>6, <1>7 DEF Coherent

LEMMA ByShare ==
  ASSUME Inv, Inv', WellUsed, Coherent, NEW t \in Threads,
         NEW p \in cond.pointers, User[p] = t, Idle(t), cond' = cond,
         NEW CONSTANT n \in Nodes, n \notin live, live' = live \cup {n}, FrameFor(t, p, n),
         NEW CONSTANT q \in live, Owner(q) = t, n = t => Known(q),
         NEW CONSTANT s \in BOOLEAN, ShareNode(n, q, s),
         twins' = twins, alive' = alive, raw' = raw
  PROVE  SharedStep /\ Coherent'
<1>1. \A m \in live : GetPointer(m)' = GetPointer(m)
  BY ShareLeads
<1>2. Calls(t)
  BY FrameForCalls
<1>3. PICK o \in Objects \cup {Null} : o = GetPointer(q)
  BY PointerOf
<1>4. GetPointer(n)' = o
  <2>1. CASE cond.links
    BY <1>3, <2>1 DEF ShareNode, LinksShare, GetPointer, Inv, LinkTypes
  <2>2. CASE ~cond.links
    <3>1. block' = [block EXCEPT ![n] = block[q]]
      BY <2>2 DEF ShareNode, CountsShare
    <3>2. block'[n] = block[q] /\ block'[q] = block[q]
      BY <3>1 DEF Inv, CountTypes, Sound, ClientTypes
    <3>3. GetPointer(n)' = GetPointer(q)'
      BY <2>2, <3>2 DEF GetPointer, CountsPointer
    <3> QED BY <1>1, <1>3, <3>3
  <2> QED BY <2>1, <2>2
<1>5. SharedStep /\ CareSound'
  BY <1>1, <1>2, <1>3, <1>4, NodeAdded
<1>6. BlocksSound'
  <2>1. ~cond.links => block'[n] = block[q] /\ \A m \in live : block'[m] = block[m]
    BY DEF ShareNode, CountsShare, Inv, CountTypes, Sound, ClientTypes
  <2> QED BY <1>1, <1>3, <1>4, <2>1, BlocksGrow DEF Coherent
<1>7. CyclesSound'
  <2> SUFFICES ASSUME cond.links, NEW CONSTANT x \in Objects
               PROVE  CyclesKept(x)
    BY CyclesFrom DEF Coherent
  <2>1. LinksShare(n, q)
    BY DEF ShareNode
  <2>2. LinkTypes /\ live \subseteq Nodes /\ LinksAgree
    BY DEF Inv, Sound, ClientTypes, LinksAreSound
  <2> HIDE DEF CyclesKept
  <2> QED BY <2>1, <2>2, SharedCycle
<1>8. TwinsSound'
  <2>1. twins \subseteq alive' \ raw'
    BY DEF Coherent, TwinsSound
  <2>2. n = t => GetPointer(n)' \notin twins
    BY <1>3, <1>4 DEF Known
  <2> QED BY <1>1, <2>1, <2>2, TwinsByFrame DEF Coherent
<1> QED BY <1>5, <1>6, <1>7, <1>8 DEF Coherent
-----------------------------------------------------------------------------
(* Calls: each is a step of the promise, and keeps what the next one       *)
(* relies on.                                                              *)

LEMMA ConstructShared ==
  ASSUME Inv, Inv', WellUsed, Coherent, NEW t \in Threads, NEW p \in Pointers,
         NEW o \in Objects, Construct(t, p, o)
  PROVE  SharedStep /\ Coherent'
<1>1. /\ Idle(t) /\ CanConstruct(p) /\ NewNode(p, o, p \in Strong) /\ User[p] = t
      /\ o \in FreshObjects \cup raw
      /\ live' = live \cup {p} /\ alive' = alive \cup {o} /\ raw' = raw \ {o}
      /\ cond' = cond /\ stack' = stack /\ twins' = twins
  BY DEF Construct
<1>2. p \in cond.pointers /\ p \in Nodes /\ p \notin live
  BY <1>1 DEF CanConstruct, Nodes
<1>3. PICK s \in BOOLEAN : s = (p \in Strong)
  BY KindIsBoolean
<1>4. NewNode(p, o, s)
  BY <1>1, <1>3
<1>5. o \in Objects \ (alive \ raw)
  BY <1>1 DEF FreshObjects
<1>6. FrameFor(t, p, p)
  BY <1>1 DEF FrameFor
<1> QED BY <1>1, <1>2, <1>4, <1>5, <1>6, ByNew

LEMMA ConstructNullShared ==
  ASSUME Inv, Inv', WellUsed, Coherent, NEW t \in Threads, NEW p \in Pointers,
         ConstructNull(t, p)
  PROVE  SharedStep /\ Coherent'
<1>1. /\ Idle(t) /\ CanConstruct(p) /\ NewNode(p, Null, p \in Strong) /\ User[p] = t
      /\ live' = live \cup {p} /\ alive' = alive /\ raw' = raw
      /\ cond' = cond /\ stack' = stack /\ twins' = twins
  BY DEF ConstructNull
<1>2. p \in cond.pointers /\ p \in Nodes /\ p \notin live
  BY <1>1 DEF CanConstruct, Nodes
<1>3. PICK s \in BOOLEAN : s = (p \in Strong)
  BY KindIsBoolean
<1>4. NewNode(p, Null, s)
  BY <1>1, <1>3
<1>5. FrameFor(t, p, p)
  BY <1>1 DEF FrameFor
<1> QED BY <1>1, <1>2, <1>4, <1>5, ByNew

LEMMA CopyShared ==
  ASSUME Inv, Inv', WellUsed, Coherent, NEW t \in Threads, NEW p \in Pointers,
         NEW q \in Pointers, Copy(t, p, q)
  PROVE  SharedStep /\ Coherent'
<1>1. /\ Usable(t, q) /\ CanConstruct(p) /\ ShareNode(p, q, p \in Strong)
      /\ live' = live \cup {p} /\ alive' = alive /\ raw' = raw
      /\ cond' = cond /\ stack' = stack /\ twins' = twins
  BY DEF Copy
<1>2. p \in Nodes /\ p \notin live /\ p # t
  BY <1>1, NodesAssumption DEF CanConstruct, Nodes
<1>3. Idle(t) /\ q \in live /\ q \in cond.pointers /\ User[q] = t /\ Owner(q) = t
  BY <1>1, UsableMeans DEF Inv
<1>4. PICK s \in BOOLEAN : s = (p \in Strong)
  BY KindIsBoolean
<1>5. ShareNode(p, q, s)
  BY <1>1, <1>4
<1>6. FrameFor(t, q, p)
  BY <1>1 DEF FrameFor
<1> QED BY <1>1, <1>2, <1>3, <1>5, <1>6, ByShare

LEMMA AssignShared ==
  ASSUME Inv, Inv', WellUsed, Coherent, NEW t \in Threads, NEW p \in Pointers,
         NEW q \in Pointers, Assign(t, p, q)
  PROVE  SharedStep /\ Coherent'
<1>1. /\ Usable(t, q) /\ ShareNode(t, q, p \in Strong) /\ Usable(t, p)
      /\ Known(p) /\ Known(q)
      /\ live' = live \cup {t} /\ alive' = alive /\ raw' = raw /\ cond' = cond
      /\ Push(t, Frame("swap", p, p, Null)) /\ twins' = twins
  BY DEF Assign, Temporary
<1>2. /\ Idle(t) /\ q \in live /\ Owner(q) = t
      /\ p \in live /\ p \in cond.pointers /\ User[p] = t
  BY <1>1, UsableMeans DEF Inv
<1>3. t \in Nodes /\ t \notin live
  BY <1>2, NoTemporary DEF Inv
<1>4. PICK s \in BOOLEAN : s = (p \in Strong)
  BY KindIsBoolean
<1>5. ShareNode(t, q, s)
  BY <1>1, <1>4
<1>6. FrameFor(t, p, t)
  BY <1>1, <1>2 DEF FrameFor
<1> QED BY <1>1, <1>2, <1>3, <1>5, <1>6, ByShare

LEMMA AssignRawShared ==
  ASSUME Inv, Inv', WellUsed, Coherent, NEW t \in Threads, NEW p \in Pointers,
         NEW o \in Objects \cup {Null}, AssignRaw(t, p, o)
  PROVE  SharedStep /\ Coherent'
<1>1. /\ NewNode(t, o, p \in Strong) /\ Usable(t, p) /\ Known(p)
      /\ o \in FreshObjects \cup raw \cup {Null}
      /\ live' = live \cup {t} /\ alive' = alive \cup ({o} \ {Null}) /\ raw' = raw \ {o}
      /\ cond' = cond /\ Push(t, Frame("swap", p, p, Null)) /\ twins' = twins
  BY DEF AssignRaw, Temporary
<1>2. Idle(t) /\ p \in live /\ p \in cond.pointers /\ User[p] = t
  BY <1>1, UsableMeans DEF Inv
<1>3. t \in Nodes /\ t \notin live
  BY <1>2, NoTemporary DEF Inv
<1>4. PICK s \in BOOLEAN : s = (p \in Strong)
  BY KindIsBoolean
<1>5. NewNode(t, o, s)
  BY <1>1, <1>4
<1>6. FrameFor(t, p, t)
  BY <1>1, <1>2 DEF FrameFor
<1>7. \/ o = Null /\ alive' = alive /\ raw' = raw
      \/ /\ o \in Objects \ (alive \ raw)
         /\ alive' = alive \cup {o} /\ raw' = raw \ {o}
  <2>1. Null \notin raw
    BY NodesAssumption DEF Inv, Sound, ClientTypes
  <2> QED BY <1>1, <2>1, NodesAssumption DEF FreshObjects
<1> QED BY <1>1, <1>2, <1>3, <1>5, <1>6, <1>7, ByNew

LEMMA CastFromShared ==
  ASSUME Inv, Inv', WellUsed, Coherent, NEW t \in Threads, NEW p \in Pointers,
         NEW q \in Pointers, NEW isNull \in BOOLEAN, CastFrom(t, p, q, isNull)
  PROVE  SharedStep /\ Coherent'
<1>1. /\ \/ isNull /\ NewNode(t, Null, p \in Strong)
         \/ ~isNull /\ ShareNode(t, q, p \in Strong)
      /\ Usable(t, p) /\ Usable(t, q) /\ Known(p) /\ Known(q)
      /\ live' = live \cup {t} /\ alive' = alive /\ raw' = raw /\ cond' = cond
      /\ Push(t, Frame("swap", p, p, Null)) /\ twins' = twins
  BY DEF CastFrom, Temporary
<1>2. /\ Idle(t) /\ q \in live /\ Owner(q) = t
      /\ p \in live /\ p \in cond.pointers /\ User[p] = t
  BY <1>1, UsableMeans DEF Inv
<1>3. t \in Nodes /\ t \notin live
  BY <1>2, NoTemporary DEF Inv
<1>4. PICK s \in BOOLEAN : s = (p \in Strong)
  BY KindIsBoolean
<1>5. FrameFor(t, p, t)
  BY <1>1, <1>2 DEF FrameFor
<1>6. CASE isNull
  <2>1. NewNode(t, Null, s)
    BY <1>1, <1>4, <1>6
  <2> QED BY <1>1, <1>2, <1>3, <1>5, <2>1, ByNew
<1>7. CASE ~isNull
  <2>1. ShareNode(t, q, s)
    BY <1>1, <1>4, <1>7
  <2> QED BY <1>1, <1>2, <1>3, <1>5, <2>1, ByShare
<1> QED BY <1>6, <1>7

LEMMA TwinShared ==
  ASSUME Inv, Inv', WellUsed, Coherent, NEW t \in Threads, NEW p \in Pointers,
         NEW q \in Pointers, Twin(t, p, q)
  PROVE  SharedStep /\ Coherent'
<1>1. /\ "merge" \in cond.calls
      /\ Usable(t, q) /\ CanConstruct(p) /\ NewNode(p, GetPointer(q), p \in Strong)
      /\ GetPointer(q) # Null /\ Known(q)
      /\ live' = live \cup {p} /\ alive' = alive /\ raw' = raw
      /\ cond' = cond /\ stack' = stack /\ twins' = twins \cup {GetPointer(q)}
  BY DEF Twin
<1>2. p \in Nodes /\ p \notin live
  BY <1>1 DEF CanConstruct, Nodes
<1>3. Idle(t) /\ q \in live /\ q \in cond.pointers /\ User[q] = t /\ Owner(q) = t
  BY <1>1, UsableMeans DEF Inv
<1>4. PICK s \in BOOLEAN : s = (p \in Strong)
  BY KindIsBoolean
<1>5. PICK o \in Objects \cup {Null} : o = GetPointer(q)
  BY <1>3, PointerOf
<1>6. NewNode(p, o, s)
  BY <1>1, <1>4, <1>5
<1>7. (\A m \in live : GetPointer(m)' = GetPointer(m)) /\ GetPointer(p)' = o
  BY <1>1, <1>2, <1>3, <1>6, NewLeads
<1>8. Calls(t)
  BY <1>1, <1>3 DEF Calls
<1>9. SharedStep /\ CareSound'
  BY <1>1, <1>2, <1>3, <1>5, <1>7, <1>8, NodeAdded
<1>10. cond.links /\ cond'.links
  BY <1>1 DEF WellUsed, UsedWell, Inv, Sound, ClientTypes
<1>11. BlocksSound'
  BY <1>10 DEF BlocksSound
<1>12. CyclesSound'
  <2>1. LinksNew(p, o)
    BY <1>6, <1>10 DEF NewNode
  <2>2. LinkTypes /\ live \subseteq Nodes /\ LinksAgree
    BY <1>10 DEF Inv, Sound, ClientTypes, LinksAreSound
  <2>3. o \notin twins /\ twins' = twins \cup {o} /\ o \in Objects
    BY <1>1, <1>5 DEF Known
  <2>4. OneCycle(o)
    BY <1>10, <2>3 DEF Coherent, CyclesSound
  <2> HIDE DEF OneCycle, TwoCycles, CyclesKept
  <2>5. TwoCycles(o)' /\ \A x : x # o => CyclesKept(x)
    BY <1>1, <1>2, <2>1, <2>2, <2>4, NewCycle
  <2>6. \A x \in Objects : \/ CyclesKept(x) /\ (x \in twins' <=> x \in twins)
                           \/ TwoCycles(x)' /\ x \in twins'
    BY <2>3, <2>5
  <2> QED BY <1>1, <2>6, CyclesFrom DEF Coherent
<1>13. TwinsSound'
  <2>1. Cared = alive \ raw
    BY <1>3, <1>8, CallIs
  <2>2. o \in alive \ raw
    BY <1>1, <1>3, <1>5, <2>1 DEF Coherent, CareSound, LeadsToCared
  <2>3. twins' \subseteq alive' \ raw'
    BY <1>1, <1>5, <2>2 DEF Coherent, TwinsSound
  <2>4. Idle(t)' /\ \A r \in Threads : r # t => stack'[r] = stack[r]
    BY <1>1, <1>3 DEF Idle
  <2> QED BY <1>1, <1>3, <2>3, <2>4, TwinsKept DEF Coherent
<1> QED BY <1>9, <1>11, <1>12, <1>13 DEF Coherent

LEMMA LiveOfMergers ==
  ASSUME Inv, WellUsed, "merge" \in cond.calls, NEW t \in Threads, Idle(t),
         NEW p \in cond.pointers, User[p] = t
  PROVE  cond.links /\ Cardinality(live) <= 4
<1>1. UsedWell(cond) /\ cond.pointers \subseteq Pointers
  BY StrongPtrAssumption DEF WellUsed, Inv, Sound, ClientTypes
<1>2. cond.links /\ Cardinality(cond.pointers) <= 4 /\ OneUser(cond)
  BY <1>1 DEF UsedWell
<1>3. live \subseteq cond.pointers
  <2> SUFFICES ASSUME NEW n \in live PROVE n \in cond.pointers
    OBVIOUS
  <2>1. CASE n \in Threads /\ Owner(n) = n /\ ~Idle(n) /\ Top(n).as \in cond.pointers
             /\ User[Top(n).as] = n
    BY <1>2, <2>1 DEF OneUser
  <2> QED BY <2>1, LiveOwner DEF Inv
<1>4. IsFiniteSet(cond.pointers)
  BY <1>1, NodesAssumption, FS_Subset DEF Nodes
<1>5. Cardinality(live) <= Cardinality(cond.pointers) /\ IsFiniteSet(live)
  BY <1>3, <1>4, FS_Subset
<1> QED BY <1>2, <1>4, <1>5, FS_CardinalityType

LEMMA MergeShared ==
  ASSUME Inv, Inv', WellUsed, Coherent, NEW t \in Threads, NEW p \in Pointers,
         NEW q \in Pointers, Merge(t, p, q)
  PROVE  SharedStep /\ Coherent'
<1>1. /\ "merge" \in cond.calls /\ Usable(t, p) /\ Usable(t, q)
      /\ GetPointer(p) = GetPointer(q) /\ LinksMerge(p, q)
      /\ UNCHANGED <<block, info, pointer, cond, live, alive, raw, stack>>
      /\ twins' = IF q \in Walk(prev, p) THEN twins ELSE twins \ {GetPointer(p)}
  BY DEF Merge, countVars
<1>2. Idle(t) /\ p \in live /\ q \in live /\ p \in cond.pointers /\ User[p] = t
  BY <1>1, UsableMeans DEF Inv
<1>3. \A m : GetPointer(m)' = GetPointer(m)
  BY <1>1, SamePointers
<1>4. Calls(t)
  BY <1>1, <1>2 DEF Calls
<1>5. SharedStep /\ CareSound'
  BY <1>1, <1>2, <1>3, <1>4, NodesStay
<1>6. cond.links /\ Cardinality(live) <= 4
  BY <1>1, <1>2, LiveOfMergers
<1>7. BlocksSound'
  BY <1>1, <1>6 DEF BlocksSound
<1>8. PICK o \in Objects \cup {Null} : o = GetPointer(p)
  BY <1>2, PointerOf
<1>9. CyclesSound'
  <2>1. pointer[p] = o /\ pointer[q] = o
    BY <1>1, <1>6, <1>8 DEF GetPointer
  <2>2. LinkTypes /\ live \subseteq Nodes /\ LinksAgree
    BY <1>6 DEF Inv, Sound, ClientTypes, LinksAreSound
  <2>3. /\ \A x : x # o => CyclesKept(x)
        /\ q \in Walk(prev, p) => CyclesKept(o)
        /\ q \notin Walk(prev, p) /\ TwoCycles(o) => OneCycle(o)'
    BY <1>1, <1>2, <1>6, <2>1, <2>2, MergedCycles
  <2>4. o \in Objects => IF o \in twins THEN TwoCycles(o) ELSE OneCycle(o)
    BY <1>6 DEF Coherent, CyclesSound
  <2>5. OneCycle(o) => q \in Walk(prev, p)
    <3> SUFFICES ASSUME OneCycle(pointer[p]) PROVE q \in Walk(prev, p)
      BY <2>1
    <3>1. Walk(prev, p) = Linked(pointer[p])
      BY <1>2, <2>2, AllAround
    <3> QED BY <1>2, <2>1, <3>1 DEF Linked
  <2> HIDE DEF OneCycle, TwoCycles, CyclesKept
  <2>6. ASSUME NEW x \in Objects
        PROVE  \/ CyclesKept(x) /\ (x \in twins' <=> x \in twins)
               \/ OneCycle(x)' /\ x \notin twins'
    <3>1. CASE x # o
      BY <1>1, <1>8, <2>3, <3>1
    <3>2. CASE x = o /\ q \in Walk(prev, p)
      BY <1>1, <2>3, <3>2
    <3>3. CASE x = o /\ q \notin Walk(prev, p)
      BY <1>1, <1>8, <2>3, <2>4, <2>5, <3>3
    <3> QED BY <3>1, <3>2, <3>3
  <2> QED BY <1>1, <2>6, CyclesFrom DEF Coherent
<1>10. TwinsSound'
  <2>1. twins' \subseteq alive' \ raw' /\ (twins' # {} => "merge" \in cond.calls)
    BY <1>1 DEF Coherent, TwinsSound
  <2>2. Idle(t)' /\ \A r \in Threads : r # t => stack'[r] = stack[r]
    BY <1>1, <1>2 DEF Idle
  <2> QED BY <1>1, <1>2, <2>1, <2>2, TwinsKept DEF Coherent
<1> QED BY <1>5, <1>7, <1>9, <1>10 DEF Coherent

(* Neither blocks nor cycles change.                                       *)
LEMMA PolicyStays ==
  ASSUME Coherent, UNCHANGED <<block, info, pointer, prev, next, cond, live, twins>>
  PROVE  BlocksSound' /\ CyclesSound'
<1>1. \A m : GetPointer(m)' = GetPointer(m)
  BY SamePointers
<1>2. BlocksSound'
  BY <1>1 DEF Coherent, BlocksSound
<1>3. \A x \in Objects : CyclesKept(x)
  <2> SUFFICES ASSUME NEW CONSTANT x \in Objects PROVE CyclesKept(x)
    OBVIOUS
  <2>1. Linked(x)' = Linked(x)
    BY DEF Linked
  <2> QED BY <2>1, SameCycles
<1>4. CyclesSound'
  <2> HIDE DEF CyclesKept, OneCycle, TwoCycles
  <2> QED BY <1>3, CyclesFrom DEF Coherent
<1> QED BY <1>2, <1>4

LEMMA DestroyShared ==
  ASSUME Inv, Inv', WellUsed, Coherent, NEW t \in Threads, NEW p \in Pointers, Destroy(t, p)
  PROVE  SharedStep /\ Coherent'
<1>1. /\ Usable(t, p) /\ Known(p) /\ Push(t, Frame("release", p, p, Null))
      /\ UNCHANGED <<block, info, pointer, prev, next, cond, live, alive, raw, twins>>
  BY DEF Destroy, countVars, linkVars
<1>2. Idle(t) /\ p \in cond.pointers /\ User[p] = t /\ p \in Nodes
  BY <1>1, UsableMeans DEF Inv
<1>3. PICK f \in FrameType : f = Frame("release", p, p, Null) /\ f.at = "release" /\ f.node = p
  <2>1. "release" \in Labels
    BY DEF Labels, Going
  <2> QED BY <1>2, <2>1, FrameMeans
<1>4. Push(t, f) /\ Calls(t)
  BY <1>1, <1>2, <1>3 DEF Calls
<1>5. stack'[t][1] = f /\ \A r \in Threads : r # t => stack'[r] = stack[r]
  BY <1>4, PushedFrames DEF Inv, Sound
<1>6. \A m : GetPointer(m)' = GetPointer(m)
  BY <1>1, SamePointers
<1>7. SharedStep /\ CareSound'
  BY <1>1, <1>2, <1>4, <1>6, NodesStay
<1>8. BlocksSound' /\ CyclesSound'
  BY <1>1, PolicyStays
<1>9. TwinsSound'
  <2>1. twins' \subseteq alive' \ raw' /\ (twins' # {} => "merge" \in cond.calls)
    BY <1>1 DEF Coherent, TwinsSound
  <2>2. KnownIn(t)'
    <3>1. PICK n : n = p
      OBVIOUS
    <3>2. Top(t)'.node = n /\ Top(t)'.at = "release" /\ Known(n)'
      BY <1>1, <1>3, <1>5, <1>6, <3>1 DEF Top, Known
    <3> QED BY <3>2 DEF KnownIn, Known
  <2> QED BY <1>1, <1>2, <1>5, <2>1, <2>2, TwinsKept DEF Coherent
<1> QED BY <1>7, <1>8, <1>9 DEF Coherent
-----------------------------------------------------------------------------
(* Two nodes of a thread change places.                                    *)

LEMMA ExchangedMeans ==
  ASSUME NEW CONSTANT n, NEW CONSTANT m, NEW S, NEW T,
         \A k : k \in T <=> Other(n, m, k) \in S
  PROVE  T = Shared!Exchanged(S, n, m)
<1>1. Shared!Exchanged(S, n, m) = Turned(n, m, S)
  BY DEF Shared!Exchanged, Turned, Other
<1>2. \A k : Other(n, m, Other(n, m, k)) = k
  BY TurnedTwice
<1>3. \A k : k \in Turned(n, m, S) <=> Other(n, m, k) \in S
  BY <1>2 DEF Turned
<1> QED BY <1>1, <1>3

LEMMA SwapLeadsTo ==
  ASSUME NEW CONSTANT n \in live, NEW CONSTANT m \in live, n \notin Leaving, m \notin Leaving,
         n \in StrongNodes <=> m \in StrongNodes, live' = live, Leaving' = Leaving,
         \A k \in live : k \in StrongNodes' <=> k \in StrongNodes,
         \A k \in live : GetPointer(k)' = GetPointer(Other(n, m, k))
  PROVE  \A x : /\ StrongTo(x)' = Shared!Exchanged(StrongTo(x), n, m)
                /\ WeakTo(x)' = Shared!Exchanged(WeakTo(x), n, m)
<1> SUFFICES ASSUME NEW x
             PROVE  /\ StrongTo(x)' = Shared!Exchanged(StrongTo(x), n, m)
                    /\ WeakTo(x)' = Shared!Exchanged(WeakTo(x), n, m)
  OBVIOUS
<1> HIDE DEF Leaving, StrongNodes, GetPointer
<1>1. \A k : /\ k \in live <=> Other(n, m, k) \in live
             /\ k \in Leaving <=> Other(n, m, k) \in Leaving
  BY DEF Other
<1>2. \A k \in live : k \in StrongNodes' <=> Other(n, m, k) \in StrongNodes
  BY DEF Other
<1>3. \A k : k \in LeadTo(x)' <=> Other(n, m, k) \in LeadTo(x)
  <2>1. \A k : k \in LeadTo(x)' <=> k \in live /\ k \notin Leaving /\ GetPointer(k)' = x
    BY DEF LeadTo
  <2>2. \A k : k \in LeadTo(x) <=> k \in live /\ k \notin Leaving /\ GetPointer(k) = x
    BY DEF LeadTo
  <2> QED BY <1>1, <2>1, <2>2
<1>4. \A k : k \in LeadTo(x)' => k \in live
  BY DEF LeadTo
<1> HIDE DEF LeadTo, Other
<1>5. \A k : k \in StrongTo(x)' <=> Other(n, m, k) \in StrongTo(x)
  BY <1>2, <1>3, <1>4 DEF StrongTo
<1>6. \A k : k \in WeakTo(x)' <=> Other(n, m, k) \in WeakTo(x)
  BY <1>2, <1>3, <1>4 DEF WeakTo
<1>7. StrongTo(x)' = Shared!Exchanged(StrongTo(x), n, m)
  BY <1>5, ExchangedMeans
<1>8. WeakTo(x)' = Shared!Exchanged(WeakTo(x), n, m)
  BY <1>6, ExchangedMeans
<1> QED BY <1>7, <1>8

LEMMA SwapShares ==
  ASSUME Inv, Inv', WellUsed, Coherent, NEW t \in Threads,
         NEW p \in cond.pointers, User[p] = t, NothingSet, NothingSet',
         UNCHANGED <<cond, live, alive, raw, twins>>,
         \A s \in Threads : s # t => stack'[s] = stack[s],
         \A k : ~Ends(t, k) /\ ~Ends(t, k)',
         \A o : ~DoomedBy(t, o) /\ ~DoomedBy(t, o)' /\ ~Deleting(t, o)',
         NEW CONSTANT n \in live, NEW CONSTANT m \in live, n # m, Owner(n) = t, Owner(m) = t,
         SwapNodes(n, m), n \in StrongNodes <=> m \in StrongNodes,
         \A k \in live : k \in StrongNodes' <=> k \in StrongNodes
  PROVE  SharedStep /\ CareSound' /\ BlocksSound' /\ CyclesSound'
<1>1. \A k \in live : GetPointer(k)' = GetPointer(Other(n, m, k)) /\ Other(n, m, k) \in live
  BY SwapLeads DEF Other
<1>2. Leaving' = Leaving
  BY SameLeave DEF Inv, Sound
<1>3. n \notin Leaving /\ m \notin Leaving
  <2>1. \A k : k \in Leaving => \E s \in Threads : Ends(s, k) /\ Owner(k) = s
    BY LeavingMeans, EndsMeans DEF LeavingNodesEnd, Inv, Sound
  <2> QED BY <2>1
<1>4. Cared = alive \ raw /\ Cared' = alive' \ raw'
  BY CaredMeans, CaredLater
<1>5. Doomed' = Doomed
  BY DoomedSame, SwapLeads
<1>6. SharedStep
  <2>1. Cared' = Cared
    BY <1>4
  <2>2. \A x \in Objects :
          /\ StrongTo(x)' = Shared!Exchanged(StrongTo(x), n, m)
          /\ WeakTo(x)' = Shared!Exchanged(WeakTo(x), n, m)
    BY <1>1, <1>2, <1>3, SwapLeadsTo
  <2>3. n \in Nodes /\ m \in Nodes
    BY DEF Inv, Sound, ClientTypes
  <2> QED BY <1>5, <2>1, <2>2, <2>3, Swaps
<1>7. CareSound'
  <2>1. \A k \in live : GetPointer(k) \in (alive \ raw) \cup {Null}
    BY <1>4 DEF Coherent, CareSound, LeadsToCared
  <2>2. \A s \in Threads : \A x \in Objects : s # t /\ Deleting(s, x) => x \in alive' \ raw'
    BY DEF Coherent, CareSound, DeletingSound
  <2> QED BY <1>1, <2>1, <2>2, CareKept DEF Coherent
<1>8. BlocksSound'
  <2> SUFFICES ASSUME ~cond.links, NEW j \in live, NEW k \in live,
                      GetPointer(j)' = GetPointer(k)', GetPointer(j)' # Null
               PROVE  block'[j] = block'[k]
    BY DEF BlocksSound
  <2>1. block' = [block EXCEPT ![n] = block[m], ![m] = block[n]] /\ live \subseteq Nodes
    BY DEF SwapNodes, CountsSwap, Inv, Sound, ClientTypes
  <2>2. \A i \in live : block'[i] = block[Other(n, m, i)]
    BY <2>1 DEF Inv, CountTypes, Other
  <2>3. block[Other(n, m, j)] = block[Other(n, m, k)]
    BY <1>1 DEF Coherent, BlocksSound
  <2> QED BY <2>2, <2>3
<1>9. CyclesSound'
  <2> SUFFICES ASSUME cond.links, NEW CONSTANT x \in Objects PROVE CyclesKept(x)
    BY CyclesFrom DEF Coherent
  <2>1. LinksSwap(n, m)
    BY DEF SwapNodes
  <2>2. LinkTypes /\ live \subseteq Nodes /\ LinksAgree
    BY DEF Inv, Sound, ClientTypes, LinksAreSound
  <2> HIDE DEF CyclesKept
  <2> QED BY <2>1, <2>2, SwappedCycles
<1> QED BY <1>6, <1>7, <1>8, <1>9

LEMMA SwapShared ==
  ASSUME Inv, Inv', WellUsed, Coherent, NEW t \in Threads, NEW p \in Pointers,
         NEW q \in Pointers, Swap(t, p, q)
  PROVE  SharedStep /\ Coherent'
<1>1. /\ Usable(t, p) /\ Usable(t, q) /\ p # q /\ (p \in Strong <=> q \in Strong)
      /\ SwapNodes(p, q) /\ UNCHANGED <<cond, live, alive, raw, twins, stack>>
  BY DEF Swap
<1>2. /\ p \in live /\ q \in live /\ Idle(t) /\ Owner(p) = t /\ Owner(q) = t
      /\ p \in StrongNodes <=> q \in StrongNodes
      /\ p \in cond.pointers /\ User[p] = t
  BY <1>1, UsableMeans DEF Inv
<1>3. Calls(t)
  BY <1>1, <1>2 DEF Calls
<1>4. /\ NothingSet /\ NothingSet' /\ \A s \in Threads : s # t => stack'[s] = stack[s]
      /\ \A o : ~DoomedBy(t, o) /\ ~DoomedBy(t, o)' /\ ~Deleting(t, o)'
  BY <1>2, <1>3, CallIs
<1>5. /\ \A m : ~Ends(t, m) /\ ~Ends(t, m)'
      /\ \A k \in live : k \in StrongNodes' <=> k \in StrongNodes
  BY <1>1, <1>2, QuietCall DEF Inv, Sound, ClientTypes
<1>6. SharedStep /\ CareSound' /\ BlocksSound' /\ CyclesSound'
  BY <1>1, <1>2, <1>4, <1>5, SwapShares
<1>7. TwinsSound'
  <2>1. twins' \subseteq alive' \ raw' /\ (twins' # {} => "merge" \in cond.calls)
    BY <1>1 DEF Coherent, TwinsSound
  <2>2. Idle(t)'
    BY <1>1, <1>2 DEF Idle
  <2> QED BY <1>1, <1>2, <1>4, <2>1, <2>2, TwinsKept DEF Coherent
<1> QED BY <1>6, <1>7 DEF Coherent

(* Kinds of the nodes of the innermost frames.                             *)
KindsOfFrames ==
  \A s \in Threads : ~Idle(s) => (Top(s).node \in StrongNodes <=> Top(s).as \in Strong)

LEMMA KindsNow == Sound => KindsOfFrames
BY KindOfFrame DEF KindsOfFrames, Sound

LEMMA KindsOfTop == Sound' => KindsOfFrames'
BY KindsNow, PTL

LEMMA SwapTemporaryShared ==
  ASSUME Inv, Inv', WellUsed, Coherent, NEW t \in Threads, SwapTemporary(t)
  PROVE  SharedStep /\ Coherent'
<1>1. /\ ~Idle(t) /\ Top(t).at = "swap" /\ SwapNodes(t, Top(t).node)
      /\ Becomes(t, Frame("release", t, Top(t).node, Null))
      /\ UNCHANGED <<cond, live, alive, raw, twins>>
  BY DEF SwapTemporary, At, Top
<1>2. /\ FrameOK(t, Top(t), TRUE, Len(stack[t]) = 1) /\ Top(t).as \in Pointers
      /\ ClientTypes
  BY <1>1, TopIsSound, Frame1 DEF Inv, Sound
<1>3. PICK p \in live : p = Top(t).node
  BY <1>1, <1>2 DEF FrameOK
<1>4. /\ p \in cond.pointers /\ User[p] = t /\ p \in Pointers /\ Len(stack[t]) = 1
      /\ p = Top(t).as /\ p # t /\ Owner(p) = t
  BY <1>1, <1>2, <1>3, NodesAssumption DEF FrameOK, Owner
<1>5. t \in live /\ t \in Nodes /\ Owner(t) = t
  BY <1>1, <1>4, NodesAssumption DEF Inv, Sound, TemporariesAreSound, Nodes, Owner
<1>6. SwapNodes(t, p)
  BY <1>1, <1>3
<1>7. PICK f \in FrameType : f = Frame("release", t, p, Null)
  <2>1. "release" \in Labels
    BY DEF Labels, Going
  <2> QED BY <1>4, <1>5, <2>1, FrameMeans
<1>8. Becomes(t, f) /\ f.at = "release" /\ f.node = t /\ f.as = p
  BY <1>1, <1>3, <1>7 DEF Frame
<1>9. NothingToSet(t)
  BY <1>1, NothingSetMeans
<1>10. /\ NothingToSet(t)' /\ \A s \in Threads : s # t => stack'[s] = stack[s]
       /\ 1 \in 1 .. Len(stack'[t]) /\ stack'[t][1] = f
  BY <1>1, <1>2, <1>8, <1>9, BecomeFrames
<1>11. NothingSet /\ NothingSet'
  <2>1. \A s \in Threads : s # t => NothingToSet(s)
    BY <1>4, NoOtherSets
  <2> QED BY <1>9, <1>10, <2>1 DEF NothingSet, NothingToSet
<1>12. \A k : ~Ends(t, k) /\ ~Ends(t, k)'
  BY <1>1, <1>8, <1>10 DEF Ends, Top, CountedOff
<1>13. \A o : ~DoomedBy(t, o) /\ ~DoomedBy(t, o)' /\ ~Deleting(t, o)'
  BY <1>1, <1>8, <1>10 DEF DoomedBy, Deleting, Top
<1>14. t \in StrongNodes <=> p \in StrongNodes
  <2>1. t \in StrongNodes <=> Top(t).as \in Strong
    BY <1>5, LiveOwner, NodesAssumption DEF Inv
  <2>2. p \in StrongNodes <=> p \in Strong
    BY <1>4, NodesAssumption, KindMeans
  <2> QED BY <1>4, <2>1, <2>2
<1>15. \A k \in live : k \in StrongNodes' <=> k \in StrongNodes
  <2>1. \A k : k # t => (k \in StrongNodes' <=> k \in StrongNodes)
    BY <1>10, KindsStay
  <2>2. ~Idle(t)'
    BY <1>10 DEF Idle
  <2>3. Top(t)'.node = t /\ Top(t)'.as = p
    BY <1>8, <1>10 DEF Top
  <2>4. t \in StrongNodes' <=> p \in Strong
    <3>1. \A s \in Threads : ~Idle(s)' => (Top(s)'.node \in StrongNodes' <=> Top(s)'.as \in Strong)
      BY KindsOfTop DEF KindsOfFrames, Inv
    <3> QED BY <2>2, <2>3, <3>1
  <2>5. p \in StrongNodes <=> p \in Strong
    BY <1>4, NodesAssumption, KindMeans
  <2> QED BY <1>14, <2>1, <2>4, <2>5
<1>16. SharedStep /\ CareSound' /\ BlocksSound' /\ CyclesSound'
  BY <1>1, <1>4, <1>5, <1>6, <1>10, <1>11, <1>12, <1>13, <1>14, <1>15, SwapShares
<1>17. TwinsSound'
  <2>1. twins' \subseteq alive' \ raw' /\ (twins' # {} => "merge" \in cond.calls)
    BY <1>1 DEF Coherent, TwinsSound
  <2>2. GetPointer(t)' = GetPointer(p)
    BY <1>1, <1>5, <1>6, SwapLeads
  <2>3. Known(p)
    BY <1>1, <1>3 DEF Coherent, TwinsSound, KnownIn, Known
  <2>4. KnownIn(t)'
    <3>1. Known(t)'
      BY <1>1, <2>2, <2>3 DEF Known
    <3>2. Top(t)'.node = t /\ Top(t)'.at = "release"
      BY <1>8, <1>10 DEF Top
    <3> QED BY <3>1, <3>2 DEF KnownIn, Known
  <2> QED BY <1>1, <1>4, <1>10, <2>1, <2>4, TwinsKept DEF Coherent
<1> QED BY <1>16, <1>17 DEF Coherent
-----------------------------------------------------------------------------
(* Steps of the destructor of a counting node.                             *)

DestructorStep(t, n) ==
  /\ ~Idle(t) /\ Top(t).at \in Going /\ n = Top(t).node
  /\ ~cond.links /\ UNCHANGED <<cond, alive, raw, twins>>
  /\ \A s \in Threads : s # t => stack'[s] = stack[s]
  /\ \/ live' = live /\ Ends(t, n)'
     \/ live' = live \ {n}
  /\ \A k : Ends(t, k)' => k = n
  /\ \A m \in live' : m \in StrongNodes' <=> m \in StrongNodes
  /\ \A m \in live' : block'[m] = block[m]
  /\ NothingToSet(t)'

LEMMA StepGoesOn ==
  ASSUME Inv, WellUsed, NEW t \in Threads, ~Idle(t), ~cond.links,
         Top(t).at \in Going, UNCHANGED <<cond, alive, raw, twins>>,
         NEW CONSTANT n, n = Top(t).node,
         NEW CONSTANT g \in FrameType, g.node = n, g.as = Top(t).as,
         Becomes(t, g), g.at \in CountedOff \cup {"delete"},
         g.at = "recheck" => g.as \notin Strong,
         \/ g.at # "delete" /\ live' = live /\ block' = block
         \/ g.at = "delete" /\ live' = live \ {n} /\ block' = [block EXCEPT ![n] = 0]
  PROVE  DestructorStep(t, n) /\ ~Idle(t)' /\ Top(t)' = g
<1>1. /\ ~Idle(t)' /\ Top(t)' = g
      /\ \A s \in Threads : s # t => stack'[s] = stack[s]
      /\ \A m : m \in StrongNodes' <=> m \in StrongNodes
      /\ \A m : Ends(t, m)' <=> g.at \in CountedOff /\ m = n
  <2>1. live' = IF g.at = "delete" THEN live \ {g.node} ELSE live
    OBVIOUS
  <2> QED BY <2>1, DestructorGoesOn DEF Inv
<1>2. NothingToSet(t)'
  <2>1. NothingToSet(t)
    BY NothingSetMeans DEF Going, CountedOff
  <2>2. g.at # "set"
    BY DEF CountedOff
  <2> QED BY <2>1, <2>2, BecomeFrames DEF Inv, Sound
<1>3. \A m \in live' : block'[m] = block[m]
  BY DEF Inv, Sound, ClientTypes, CountTypes
<1>4. \/ live' = live /\ Ends(t, n)'
      \/ live' = live \ {n}
  BY <1>1
<1> QED BY <1>1, <1>2, <1>3, <1>4 DEF DestructorStep

LEMMA StepReturns ==
  ASSUME Inv, WellUsed, NEW t \in Threads, ~Idle(t), ~cond.links,
         Top(t).at \in Going, UNCHANGED <<cond, alive, raw, twins>>,
         NEW CONSTANT n, n = Top(t).node,
         Done(t), live' = live \ {n}, block' = [block EXCEPT ![n] = 0]
  PROVE  /\ DestructorStep(t, n)
         /\ \A o : ~DoomedBy(t, o)' /\ ~Deleting(t, o)'
<1>1. /\ \A m : ~Ends(t, m)'
      /\ \A s \in Threads : s # t => stack'[s] = stack[s]
      /\ \A m \in live' : m \in StrongNodes' <=> m \in StrongNodes
  BY DestructorReturns DEF Inv
<1>2. /\ NothingToSet(t)'
      /\ \A i \in 1 .. Len(stack'[t]) : /\ i + 1 \in 1 .. Len(stack[t])
                                        /\ stack'[t][i] = stack[t][i + 1]
  <2>1. NothingToSet(t)
    BY NothingSetMeans DEF Going, CountedOff
  <2> QED BY <2>1, DoneFrames DEF Inv, Sound
<1>3. \A m \in live' : block'[m] = block[m]
  BY DEF Inv, Sound, ClientTypes, CountTypes
<1>4. ASSUME ~Idle(t)' PROVE Top(t)'.at \in {"members", "set"}
  <2>1. stack' \in [Threads -> Seq(FrameType)]
    <3>1. Sound'
      BY DestructorReturns DEF Inv
    <3> QED BY <3>1 DEF Sound, ClientTypes
  <2>2. 1 \in 1 .. Len(stack'[t])
    BY <1>4, <2>1 DEF Idle
  <2>3. PICK i \in 1 .. Len(stack[t]) : i = 2 /\ stack'[t][1] = stack[t][i]
    BY <1>2, <2>2
  <2> QED BY <2>3, LowerFramesWait DEF Top
<1>5. \A o : ~DoomedBy(t, o)' /\ ~Deleting(t, o)'
  BY <1>4 DEF DoomedBy, Deleting
<1> QED BY <1>1, <1>2, <1>3, <1>5 DEF DestructorStep

LEMMA DestructorMeans ==
  ASSUME Inv, Inv', WellUsed, Coherent, NEW t \in Threads, NEW CONSTANT n, DestructorStep(t, n)
  PROVE  /\ NothingSet /\ NothingSet' /\ Cared = alive \ raw /\ Cared' = Cared
         /\ twins = {} /\ twins' = {}
         /\ \E p \in cond.pointers : User[p] = t
         /\ n \in live /\ n \in Nodes /\ Owner(n) = t /\ block[n] \in Blocks
         /\ GetPointer(n) \in Cared \cup {Null}
         /\ GetPointer(n) = info[block[n]].pointer
         /\ \A m \in live' : m \in live
<1>1. /\ ~Idle(t) /\ Top(t).at \in Going /\ n = Top(t).node /\ ~cond.links
      /\ UNCHANGED <<cond, alive, raw, twins>> /\ NothingToSet(t)'
      /\ \A s \in Threads : s # t => stack'[s] = stack[s]
      /\ \A m \in live' : m \in live
  BY DEF DestructorStep
<1>2. PICK p \in cond.pointers : User[p] = t
  BY <1>1, TopHasUser
<1>3. NothingToSet(t)
  BY <1>1, NothingSetMeans DEF Going, CountedOff
<1>4. NothingSet /\ NothingSet'
  <2>1. \A s \in Threads : s # t => NothingToSet(s)
    BY <1>2, NoOtherSets
  <2> QED BY <1>1, <1>3, <2>1 DEF NothingSet, NothingToSet
<1>5. Cared = alive \ raw /\ Cared' = Cared
  BY <1>1, <1>4, CaredMeans, CaredLater
<1>6. twins = {}
  <2>1. "merge" \notin cond.calls
    BY <1>1 DEF WellUsed, UsedWell, Inv, Sound, ClientTypes
  <2> QED BY <2>1 DEF Coherent, TwinsSound
<1>7. n \in live /\ n \in Nodes /\ Owner(n) = t /\ block[n] \in Blocks
  BY <1>1, AtNode DEF Inv
<1>8. GetPointer(n) \in Cared \cup {Null} /\ GetPointer(n) = info[block[n]].pointer
  BY <1>1, <1>7, LeadsOfBlock DEF Coherent, CareSound, LeadsToCared
<1> QED BY <1>1, <1>2, <1>4, <1>5, <1>6, <1>7, <1>8

(* The node does not lead to an object any more.                           *)
LEMMA NodeGoes ==
  ASSUME Inv, Inv', NEW t \in Threads, NEW CONSTANT n, DestructorStep(t, n),
         NEW CONSTANT x, \A m \in live' : m # n => (GetPointer(m)' = x <=> GetPointer(m) = x)
  PROVE  /\ StrongTo(x)' = StrongTo(x) \ {n} /\ WeakTo(x)' = WeakTo(x) \ {n}
         /\ Top(t).at \in CountedOff => Same(x)
         /\ Top(t).at = "release" /\ GetPointer(n) = x => n \in LeadTo(x)
<1>1. /\ ~Idle(t) /\ Top(t).at \in Going /\ n = Top(t).node /\ ~cond.links
      /\ \A m \in live' : m \in live /\ (m \in StrongNodes' <=> m \in StrongNodes)
      /\ live \ {n} \subseteq live'
      /\ n \in live' => Ends(t, n)'
  BY DEF DestructorStep
<1>2. \A k : k # n => (k \in Leaving' <=> k \in Leaving)
  BY <1>1, OthersLeave DEF Inv, DestructorStep
<1>3. n \in live' => n \in Leaving'
  BY <1>1, OthersLeave DEF Inv, DestructorStep
<1>4. /\ Top(t).at \in CountedOff => n \in Leaving
      /\ Top(t).at = "release" => n \notin Leaving
      /\ n \in live
  BY <1>1, AtNode DEF Inv
<1> HIDE DEF Leaving, StrongNodes
<1>5. LeadTo(x)' = LeadTo(x) \ {n} /\ n \notin LeadTo(x)'
  <2>1. \A k : k \in LeadTo(x)' <=> k \in live' /\ k \notin Leaving' /\ GetPointer(k)' = x
    BY DEF LeadTo
  <2>2. \A k : k \in LeadTo(x) <=> k \in live /\ k \notin Leaving /\ GetPointer(k) = x
    BY DEF LeadTo
  <2> QED BY <1>1, <1>2, <1>3, <2>1, <2>2
<1>6. /\ n \in Leaving => n \notin LeadTo(x)
      /\ n \notin Leaving /\ GetPointer(n) = x => n \in LeadTo(x)
  BY <1>4 DEF LeadTo
<1>7. \A k \in LeadTo(x)' : k \in live'
  BY DEF LeadTo
<1> HIDE DEF LeadTo
<1>8. StrongTo(x)' = StrongTo(x) \ {n} /\ WeakTo(x)' = WeakTo(x) \ {n}
  BY <1>1, <1>5, <1>7 DEF StrongTo, WeakTo
<1>9. n \in Leaving => Same(x)
  BY <1>6, <1>8 DEF Same, StrongTo, WeakTo
<1> QED BY <1>4, <1>6, <1>8, <1>9

LEMMA DestructorCoheres ==
  ASSUME Inv, Inv', WellUsed, Coherent, NEW t \in Threads, NEW CONSTANT n, DestructorStep(t, n),
         \A m \in live' : GetPointer(m)' = GetPointer(m) \/ GetPointer(m)' = Null,
         \A o \in Objects : Deleting(t, o)' =>
           GetPointer(n) = o /\ \A m \in live' : GetPointer(m)' # o
  PROVE  Coherent'
<1>1. /\ NothingSet /\ NothingSet' /\ Cared = alive \ raw /\ Cared' = Cared
      /\ twins = {} /\ twins' = {} /\ n \in live
      /\ GetPointer(n) \in Cared \cup {Null} /\ \A m \in live' : m \in live
  BY DestructorMeans
<1>2. PICK p \in cond.pointers : User[p] = t
  BY DestructorMeans
<1>3. /\ ~cond.links /\ UNCHANGED <<cond, alive, raw, twins>>
      /\ \A s \in Threads : s # t => stack'[s] = stack[s]
      /\ \A m \in live' : block'[m] = block[m]
  BY DEF DestructorStep
<1>4. CareSound'
  <2>1. \A k \in live : GetPointer(k) \in (alive \ raw) \cup {Null}
    BY <1>1 DEF Coherent, CareSound, LeadsToCared
  <2>2. \A s \in Threads : \A x \in Objects : s # t /\ Deleting(s, x) => x \in alive' \ raw'
    BY <1>3 DEF Coherent, CareSound, DeletingSound
  <2>3. Null \notin alive /\ Null \notin Objects
    BY NodesAssumption DEF Inv, Sound, ClientTypes
  <2>4. \A k \in live' : GetPointer(k)' \in (alive' \ raw') \cup {Null}
    BY <1>1, <1>3, <2>1
  <2>5. \A k \in live' : \/ \E m \in live : GetPointer(m) = GetPointer(k)'
                         \/ GetPointer(k)' \notin alive \ raw
    BY <1>1, <2>3
  <2>6. \A o \in Objects : Deleting(t, o)' =>
          /\ o \in alive' \ raw' /\ \E m \in live : GetPointer(m) = o
          /\ \A m \in live' : GetPointer(m)' # o
    BY <1>1, <1>3, <2>3
  <2> QED BY <1>1, <1>3, <2>2, <2>4, <2>5, <2>6, CareKept DEF Coherent
<1>5. TwinsSound'
  BY <1>1, <1>2, <1>3, TwinsKept DEF Coherent, KnownIn, Known
<1>6. CyclesSound'
  BY <1>3 DEF CyclesSound
<1>7. BlocksSound'
  BY <1>1, <1>3 DEF Coherent, BlocksSound
<1> QED BY <1>4, <1>5, <1>6, <1>7 DEF Coherent

(* The other threads doom what they doomed.                                *)
LEMMA DestructorDooms ==
  ASSUME Inv, Inv', WellUsed, Coherent, NEW t \in Threads, NEW CONSTANT n, DestructorStep(t, n),
         \A m \in live' : Owner(m) # t => GetPointer(m)' = GetPointer(m)
  PROVE  \A s \in Threads : s # t => \A o : DoomedBy(s, o)' <=> DoomedBy(s, o)
<1>1. /\ cond' = cond /\ live \ {n} \subseteq live'
      /\ \A s \in Threads : s # t => stack'[s] = stack[s]
  BY DEF DestructorStep
<1>2. Owner(n) = t
  BY DestructorMeans
<1>3. PICK p \in cond.pointers : User[p] = t
  BY DestructorMeans
<1>4. \A m \in live : Owner(m) # t => m \in live' /\ GetPointer(m)' = GetPointer(m)
  BY <1>1, <1>2
<1> HIDE DEF DoomedBy
<1> QED BY <1>1, <1>3, <1>4, OthersDoom

(* A node is counted off.                                                  *)
LEMMA NodeIsCountedOff ==
  ASSUME Inv, Inv', WellUsed, Coherent, NEW t \in Threads, NEW CONSTANT n, DestructorStep(t, n),
         Top(t).at = "release", \A m \in live' : GetPointer(m)' = GetPointer(m),
         \/ /\ StrongHolders(block[n]) \ {n} = {}
            /\ \A x : DoomedBy(t, x)' <=> x = GetPointer(n)
         \/ /\ StrongHolders(block[n]) \ {n} # {}
            /\ \A x : ~DoomedBy(t, x)'
  PROVE  SharedStep
<1>1. /\ Cared' = Cared /\ n \in live /\ n \in Nodes /\ Owner(n) = t /\ block[n] \in Blocks
      /\ GetPointer(n) \in Cared \cup {Null} /\ GetPointer(n) = info[block[n]].pointer
  BY DestructorMeans
<1>2. ~cond.links /\ ~Idle(t) /\ n = Top(t).node /\ Top(t).at \in Going
  BY DEF DestructorStep
<1>3. \A s \in Threads : s # t => \A o : DoomedBy(s, o)' <=> DoomedBy(s, o)
  BY DestructorDooms
<1>4. \A x : ~DoomedBy(t, x)
  BY DEF DoomedBy
<1> HIDE DEF DoomedBy
<1>5. /\ \A o \in Objects : DoomedBy(t, o)' => o \in Doomed'
      /\ \A o : o \in Doomed' => DoomedBy(t, o)' \/ o \in Doomed
      /\ \A o : o \in Doomed => o \in Doomed'
      /\ (\A o : ~DoomedBy(t, o)') => Doomed' = Doomed
  BY <1>3, <1>4, DoomedAfter
<1>6. /\ \A o \in Doomed : o \in Objects
      /\ \A o \in Doomed' : o \in Objects /\ Null \notin Objects
  BY NodesAssumption DEF Doomed
<1>7. \A x : /\ StrongTo(x)' = StrongTo(x) \ {n} /\ WeakTo(x)' = WeakTo(x) \ {n}
             /\ GetPointer(n) = x => n \in LeadTo(x)
  <2> SUFFICES ASSUME NEW CONSTANT x
               PROVE  /\ StrongTo(x)' = StrongTo(x) \ {n} /\ WeakTo(x)' = WeakTo(x) \ {n}
                      /\ GetPointer(n) = x => n \in LeadTo(x)
    OBVIOUS
  <2> QED BY NodeGoes
<1>8. \A x \in Objects : x # GetPointer(n) => Same(x)
  <2> SUFFICES ASSUME NEW x \in Objects, x # GetPointer(n) PROVE Same(x)
    OBVIOUS
  <2>1. n \notin LeadTo(x)
    BY DEF LeadTo
  <2>2. n \notin StrongTo(x) /\ n \notin WeakTo(x)
    BY <2>1 DEF StrongTo, WeakTo
  <2> HIDE DEF StrongTo, WeakTo
  <2> QED BY <1>7, <2>2 DEF Same
<1>9. CASE GetPointer(n) \notin Objects
  <2>1. \A x \in Objects : Same(x)
    BY <1>8, <1>9
  <2>2. Doomed' = Doomed
    BY <1>5, <1>6, <1>9
  <2> QED BY <1>1, <2>1, <2>2, NothingNew
<1>10. CASE GetPointer(n) \in Objects
  <2>1. PICK o \in Objects : o = GetPointer(n)
    BY <1>10
  <2>2. n \notin Leaving
    BY <1>2, AtNode DEF Inv
  <2>3. o \notin Doomed
    BY <1>1, <1>4, <2>1, <2>2, NotDoomed DEF Coherent
  <2>4. StrongTo(o) = StrongHolders(block[n])
    <3>1. \A m \in live : GetPointer(m) = o <=> block[m] = block[n]
      <4> SUFFICES ASSUME NEW m \in live PROVE GetPointer(m) = o <=> block[m] = block[n]
        OBVIOUS
      <4>1. GetPointer(m) = info[block[m]].pointer
        BY <1>2, LeadsOfBlock
      <4>2. o # Null
        BY NodesAssumption
      <4>3. GetPointer(m) = o => block[m] = block[n]
        BY <1>1, <1>2, <2>1, <4>2 DEF Coherent, BlocksSound
      <4> QED BY <1>1, <2>1, <4>1, <4>3
    <3> QED BY <3>1 DEF StrongTo, LeadTo, StrongHolders, Holders, Sharing
  <2>5. \/ StrongTo(o) \ {n} = {} /\ Doomed' = Doomed \cup {o}
        \/ StrongTo(o) \ {n} # {} /\ Doomed' = Doomed
    <3>1. CASE StrongTo(o) \ {n} = {} /\ \A x : DoomedBy(t, x)' <=> x = o
      <4>1. Doomed' = Doomed \cup {o}
        BY <1>5, <3>1
      <4> QED BY <3>1, <4>1
    <3>2. CASE StrongTo(o) \ {n} # {} /\ \A x : ~DoomedBy(t, x)'
      BY <1>5, <3>2
    <3> QED BY <2>1, <2>4, <3>1, <3>2
  <2>6. \A x \in Objects : x # o => Same(x)
    BY <1>8, <2>1
  <2>7. /\ n \in LeadTo(o) /\ StrongTo(o)' = StrongTo(o) \ {n}
        /\ WeakTo(o)' = WeakTo(o) \ {n}
    BY <1>7, <2>1
  <2> HIDE DEF StrongTo, WeakTo, Doomed, Cared, LeadTo
  <2> QED BY <1>1, <2>3, <2>5, <2>6, <2>7, Detaches
<1> QED BY <1>9, <1>10

LEMMA DoomedStays ==
  ASSUME Inv, Inv', WellUsed, Coherent, NEW t \in Threads, NEW CONSTANT n, DestructorStep(t, n),
         \A m \in live' : Owner(m) # t => GetPointer(m)' = GetPointer(m),
         \A x \in Objects : DoomedBy(t, x)' <=> DoomedBy(t, x)
  PROVE  Doomed' = Doomed
<1>1. \A s \in Threads : s # t => \A o : DoomedBy(s, o)' <=> DoomedBy(s, o)
  BY DestructorDooms
<1> HIDE DEF DoomedBy
<1>2. /\ \A o \in Objects : DoomedBy(t, o)' => o \in Doomed'
      /\ \A o : o \in Doomed' => DoomedBy(t, o)' \/ o \in Doomed
      /\ \A o : o \in Doomed => DoomedBy(t, o) \/ o \in Doomed'
  BY <1>1, DoomedAfter
<1>3. \A o \in Objects : DoomedBy(t, o) => o \in Doomed
  BY DoomedMeans DEF DoomedByThreads, Inv, Sound
<1>4. (\A o \in Doomed : o \in Objects) /\ (\A o \in Doomed' : o \in Objects)
  BY DEF Doomed
<1> QED BY <1>2, <1>3, <1>4

(* A step of a node that has been counted off.                             *)
LEMMA DestructorGoes ==
  ASSUME Inv, Inv', WellUsed, Coherent, NEW t \in Threads, NEW CONSTANT n, DestructorStep(t, n),
         Top(t).at \in CountedOff, \A m \in live' : m # n => GetPointer(m)' = GetPointer(m),
         \A x \in Objects : DoomedBy(t, x)' <=> DoomedBy(t, x)
  PROVE  SharedStep
<1>1. Cared' = Cared /\ Owner(n) = t
  BY DestructorMeans
<1>2. \A m \in live' : Owner(m) # t => GetPointer(m)' = GetPointer(m)
  BY <1>1
<1>3. Doomed' = Doomed
  BY <1>2, DoomedStays
<1>4. \A x \in Objects : Same(x)
  <2> SUFFICES ASSUME NEW CONSTANT x \in Objects PROVE Same(x)
    OBVIOUS
  <2> QED BY NodeGoes
<1> QED BY <1>1, <1>3, <1>4, NothingNew

(* The nodes that stay lead where they led, if the blocks do.              *)
LEMMA NodesLeadOn ==
  ASSUME Inv, ~cond.links, cond' = cond, NEW n,
         \A c \in Blocks : info'[c].pointer = info[c].pointer,
         \A m \in live' : m \in live /\ block'[m] = block[m]
  PROVE  \A m \in live' : GetPointer(m)' = GetPointer(m)
<1> SUFFICES ASSUME NEW m \in live' PROVE GetPointer(m)' = GetPointer(m)
  OBVIOUS
<1>1. m \in live /\ block'[m] = block[m]
  OBVIOUS
<1>2. info'[block[m]].pointer = info[block[m]].pointer
  BY <1>1, LeadsOfBlock
<1>3. \A c \in Blocks : c # 0 => info'[c].pointer = info[c].pointer
  OBVIOUS
<1> QED BY <1>1, <1>2, <1>3 DEF GetPointer, CountsPointer

LEMMA ReleaseStrongShared ==
  ASSUME Inv, Inv', WellUsed, Coherent, NEW t \in Threads, ReleaseStrong(t)
  PROVE  SharedStep /\ Coherent'
<1> DEFINE f == Top(t)
<1>1. /\ ~cond.links /\ ~Idle(t) /\ f.at = "release" /\ f.as \in Strong
      /\ UNCHANGED <<cond, alive, raw, twins>>
      /\ info' = [info EXCEPT ![block[f.node]] = Counted(@, TRUE, -1)]
      /\ IF info[block[f.node]].strong = 1
         THEN Becomes(t, [f EXCEPT !.at = "get"]) /\ live' = live /\ block' = block
         ELSE Done(t) /\ live' = live \ {f.node} /\ block' = [block EXCEPT ![f.node] = 0]
  BY DEF ReleaseStrong, At, Top, CountsLess, CountsGone
<1>2. f.at \in Going
  BY <1>1 DEF Going
<1>3. /\ f \in FrameType /\ f.node \in live /\ CountTypes /\ block[f.node] \in Blocks
      /\ f.node \in StrongNodes /\ f.node \notin Leaving
  BY <1>1, <1>2, AtNode DEF Inv
<1>4. PICK n \in live : n = f.node
  BY <1>3
<1>5. PICK b \in Blocks : b = block[n]
  BY <1>3, <1>4
<1>6. \A c \in Blocks : info'[c].pointer = info[c].pointer
  <2>1. PICK s \in BOOLEAN : s = TRUE
    OBVIOUS
  <2>2. info' = [info EXCEPT ![b] = Counted(@, s, -1)]
    BY <1>1, <1>4, <1>5, <2>1
  <2> QED BY <1>3, <2>2, PointersOfCounted
<1>7. n \in StrongHolders(b) /\ info[b].strong = Cardinality(StrongHolders(b))
  <2>1. n \in StrongHolders(b)
    BY <1>3, <1>4, <1>5 DEF StrongHolders, Holders, Sharing
  <2>2. info[b].strong = Cardinality(StrongHolders(b))
    BY <1>1, CountsMean DEF BlockAgrees, Inv, CountsAreSound, Sound
  <2> QED BY <2>1, <2>2
<1>8. GetPointer(n) = info[b].pointer
  BY <1>1, <1>5, LeadsOfBlock
<1>9. CASE info[b].strong = 1
  <2>1. PICK g \in FrameType : g = [f EXCEPT !.at = "get"]
    BY <1>3 DEF FrameType, Labels, Going, CountedOff
  <2>2. g.at = "get" /\ g.node = n /\ g.as = f.as /\ g.at \in CountedOff
    BY <1>3, <1>4, <2>1 DEF FrameType, CountedOff
  <2>3. Becomes(t, g) /\ live' = live /\ block' = block
    BY <1>1, <1>4, <1>5, <1>9, <2>1
  <2>4. DestructorStep(t, n) /\ ~Idle(t)' /\ Top(t)' = g
    BY <1>1, <1>2, <1>4, <2>2, <2>3, StepGoesOn
  <2>5. \A x : (DoomedBy(t, x)' <=> x = GetPointer(n)) /\ ~Deleting(t, x)'
    BY <1>5, <1>6, <1>8, <2>2, <2>3, <2>4 DEF DoomedBy, Deleting, CountsPointer
  <2>6. StrongHolders(b) \ {n} = {}
    <3>1. IsFiniteSet(StrongHolders(b))
      BY HoldersAreFinite DEF Inv, Sound
    <3>2. PICK k : StrongHolders(b) = {k}
      BY <1>7, <1>9, <3>1, FS_Singleton
    <3> QED BY <1>7, <3>2
  <2>7. \A m \in live' : GetPointer(m)' = GetPointer(m)
    BY <1>1, <1>6, <2>3, NodesLeadOn
  <2>8. SharedStep
    BY <1>1, <1>5, <2>4, <2>5, <2>6, <2>7, NodeIsCountedOff
  <2>9. Coherent'
    BY <2>4, <2>5, <2>7, DestructorCoheres
  <2> QED BY <2>8, <2>9
<1>10. CASE info[b].strong # 1
  <2>1. Done(t) /\ live' = live \ {n} /\ block' = [block EXCEPT ![n] = 0]
    BY <1>1, <1>4, <1>5, <1>10
  <2>2. DestructorStep(t, n) /\ \A x : ~DoomedBy(t, x)' /\ ~Deleting(t, x)'
    BY <1>1, <1>2, <1>4, <2>1, StepReturns
  <2>3. StrongHolders(b) \ {n} # {}
    <3>1. Cardinality({n}) = 1
      BY FS_Singleton
    <3> QED BY <1>7, <1>10, <3>1
  <2>4. \A m \in live' : m \in live /\ block'[m] = block[m]
    BY <2>2, <2>1 DEF DestructorStep
  <2>5. \A m \in live' : GetPointer(m)' = GetPointer(m)
    BY <1>1, <1>6, <2>4, NodesLeadOn
  <2>6. SharedStep
    BY <1>1, <1>5, <2>2, <2>3, <2>5, NodeIsCountedOff
  <2>7. Coherent'
    BY <2>2, <2>5, DestructorCoheres
  <2> QED BY <2>6, <2>7
<1> QED BY <1>9, <1>10

LEMMA ReleaseWeakShared ==
  ASSUME Inv, Inv', WellUsed, Coherent, NEW t \in Threads, ReleaseWeak(t)
  PROVE  SharedStep /\ Coherent'
<1> DEFINE f == Top(t)
<1>1. /\ ~cond.links /\ ~Idle(t) /\ f.at = "release" /\ f.as \notin Strong
      /\ UNCHANGED <<cond, live, alive, raw, twins, block>>
      /\ info' = [info EXCEPT ![block[f.node]] = Counted(@, FALSE, -1)]
      /\ Becomes(t, [f EXCEPT !.at = "recheck"])
  BY DEF ReleaseWeak, At, Top, CountsLess
<1>2. f.at \in Going
  BY <1>1 DEF Going
<1>3. /\ f \in FrameType /\ f.node \in live /\ CountTypes /\ block[f.node] \in Blocks
      /\ f.node \notin StrongNodes /\ f.node \notin Leaving
  BY <1>1, <1>2, AtNode DEF Inv
<1>4. PICK n \in live : n = f.node
  BY <1>3
<1>5. PICK b \in Blocks : b = block[n]
  BY <1>3, <1>4
<1>6. /\ \A c \in Blocks : info'[c].pointer = info[c].pointer
      /\ info'[b].strong = info[b].strong
  <2>1. PICK s \in BOOLEAN : s = FALSE
    OBVIOUS
  <2>2. info' = [info EXCEPT ![b] = Counted(@, s, -1)]
    BY <1>1, <1>4, <1>5, <2>1
  <2>3. PICK i \in InfoType : i = info[b]
    BY <1>3 DEF CountTypes
  <2>4. Counted(i, s, -1).strong = i.strong
    BY <2>1, CountedMeans DEF InfoType, One
  <2>5. info'[b] = Counted(i, s, -1)
    BY <1>3, <2>2, <2>3 DEF CountTypes
  <2> QED BY <1>3, <2>2, <2>3, <2>4, <2>5, PointersOfCounted
<1>7. /\ StrongHolders(b) \ {n} = {} <=> info[b].strong = 0
      /\ info[b].strong \in Nat
  <2>1. n \notin StrongHolders(b)
    BY <1>3, <1>4 DEF StrongHolders
  <2> QED BY <1>1, <2>1, BlockSays DEF Inv, CountsAreSound, Sound
<1>8. GetPointer(n) = info[b].pointer
  BY <1>1, <1>5, LeadsOfBlock
<1>9. PICK g \in FrameType : g = [f EXCEPT !.at = "recheck"]
  BY <1>3 DEF FrameType, Labels, Going, CountedOff
<1>10. g.at = "recheck" /\ g.node = n /\ g.as = f.as /\ g.at \in CountedOff /\ Becomes(t, g)
  BY <1>1, <1>3, <1>4, <1>9 DEF FrameType, CountedOff
<1>11. DestructorStep(t, n) /\ ~Idle(t)' /\ Top(t)' = g
  BY <1>1, <1>2, <1>4, <1>10, StepGoesOn
<1>12. \A x : /\ DoomedBy(t, x)' <=> x = GetPointer(n) /\ info[b].strong = 0
              /\ ~Deleting(t, x)'
  <2>1. info'[block'[n]].pointer = GetPointer(n) /\ info'[block'[n]].strong = info[b].strong
    BY <1>1, <1>5, <1>6, <1>8
  <2>2. info[b].strong > 0 <=> info[b].strong # 0
    BY <1>7
  <2>3. ~Idle(t)' /\ Top(t)'.at = "recheck" /\ Top(t)'.node = n
    BY <1>10, <1>11
  <2> QED BY <2>1, <2>2, <2>3 DEF DoomedBy, Deleting, CountsPointer, CountsStrong
<1>13. \A m \in live' : GetPointer(m)' = GetPointer(m)
  BY <1>1, <1>6, NodesLeadOn
<1>14. SharedStep
  BY <1>1, <1>5, <1>7, <1>11, <1>12, <1>13, NodeIsCountedOff
<1>15. Coherent'
  BY <1>11, <1>12, <1>13, DestructorCoheres
<1> QED BY <1>14, <1>15

LEMMA RecheckShared ==
  ASSUME Inv, Inv', WellUsed, Coherent, NEW t \in Threads, Recheck(t)
  PROVE  SharedStep /\ Coherent'
<1> DEFINE f == Top(t)
<1>1. /\ ~Idle(t) /\ f.at = "recheck" /\ UNCHANGED <<cond, alive, raw, twins, info>>
      /\ IF CountsStrong(f.node)
         THEN Done(t) /\ live' = live \ {f.node} /\ block' = [block EXCEPT ![f.node] = 0]
         ELSE Becomes(t, [f EXCEPT !.at = "get"]) /\ live' = live /\ block' = block
  BY DEF Recheck, At, Top, CountsGone
<1>2. f.at \in Going /\ f.at \in CountedOff
  BY <1>1 DEF Going, CountedOff
<1>3. ~cond.links /\ f \in FrameType
  BY <1>1, <1>2, TopIsSound, Frame1 DEF FrameOK, Inv, Sound
<1>4. PICK n \in live : n = f.node
  BY <1>1, <1>2, <1>3, AtNode DEF Inv
<1>5. \A m \in live' : m \in live
  BY <1>1
<1>6. CASE CountsStrong(n)
  <2>1. Done(t) /\ live' = live \ {n} /\ block' = [block EXCEPT ![n] = 0]
    BY <1>1, <1>4, <1>6
  <2>2. DestructorStep(t, n) /\ \A x : ~DoomedBy(t, x)' /\ ~Deleting(t, x)'
    BY <1>1, <1>2, <1>3, <1>4, <2>1, StepReturns
  <2>3. \A x : ~DoomedBy(t, x)
    BY <1>1, <1>4, <1>6 DEF DoomedBy
  <2>4. \A m \in live' : m \in live /\ block'[m] = block[m]
    BY <1>5, <2>2 DEF DestructorStep
  <2>5. \A m \in live' : GetPointer(m)' = GetPointer(m)
    BY <1>1, <1>3, <2>4, NodesLeadOn
  <2> HIDE DEF DoomedBy
  <2> QED BY <1>2, <2>2, <2>3, <2>5, DestructorGoes, DestructorCoheres
<1>7. CASE ~CountsStrong(n)
  <2>1. Becomes(t, [f EXCEPT !.at = "get"]) /\ live' = live /\ block' = block
    BY <1>1, <1>4, <1>7
  <2>2. PICK g \in FrameType : g = [f EXCEPT !.at = "get"]
    BY <1>3 DEF FrameType, Labels, Going, CountedOff
  <2>3. g.at = "get" /\ g.node = n /\ g.as = f.as /\ g.at \in CountedOff /\ Becomes(t, g)
    BY <1>3, <1>4, <2>1, <2>2 DEF FrameType, CountedOff
  <2>4. DestructorStep(t, n) /\ ~Idle(t)' /\ Top(t)' = g
    BY <1>1, <1>2, <1>3, <1>4, <2>1, <2>3, StepGoesOn
  <2>5. \A x : (DoomedBy(t, x)' <=> DoomedBy(t, x)) /\ ~Deleting(t, x)'
    BY <1>1, <1>4, <1>7, <2>1, <2>3, <2>4 DEF DoomedBy, Deleting, CountsPointer
  <2>6. \A m \in live' : GetPointer(m)' = GetPointer(m)
    BY <1>1, <1>3, <2>1, NodesLeadOn
  <2> HIDE DEF DoomedBy
  <2> QED BY <1>2, <2>4, <2>5, <2>6, DestructorGoes, DestructorCoheres
<1> QED BY <1>6, <1>7

LEMMA GetShared ==
  ASSUME Inv, Inv', WellUsed, Coherent, NEW t \in Threads, Get(t)
  PROVE  SharedStep /\ Coherent'
<1> DEFINE f == Top(t)
<1>1. /\ ~Idle(t) /\ f.at = "get" /\ UNCHANGED <<cond, live, alive, raw, twins, block, info>>
      /\ Becomes(t, [f EXCEPT !.at = "zap", !.obj = CountsPointer(f.node)])
  BY DEF Get, At, Top, countVars
<1>2. f.at \in Going /\ f.at \in CountedOff
  BY <1>1 DEF Going, CountedOff
<1>3. ~cond.links /\ f \in FrameType
  BY <1>1, <1>2, TopIsSound, Frame1 DEF FrameOK, Inv, Sound
<1>4. PICK n \in live : n = f.node /\ block[n] \in Blocks
  BY <1>1, <1>2, <1>3, AtNode DEF Inv
<1>5. PICK o \in Objects \cup {Null} : o = CountsPointer(f.node)
  BY <1>4 DEF Inv, CountTypes, InfoType, CountsPointer
<1>6. PICK g \in FrameType : g = [f EXCEPT !.at = "zap", !.obj = o]
  BY <1>3 DEF FrameType, Labels, Going, CountedOff
<1>7. /\ g.at = "zap" /\ g.obj = o /\ g.node = n /\ g.as = f.as /\ g.at \in CountedOff
      /\ Becomes(t, g)
  BY <1>1, <1>3, <1>4, <1>5, <1>6 DEF FrameType, CountedOff
<1>8. DestructorStep(t, n) /\ ~Idle(t)' /\ Top(t)' = g
  BY <1>1, <1>2, <1>3, <1>4, <1>7, StepGoesOn
<1>9. \A x : (DoomedBy(t, x)' <=> DoomedBy(t, x)) /\ ~Deleting(t, x)'
  BY <1>1, <1>5, <1>7, <1>8 DEF DoomedBy, Deleting
<1>10. \A m \in live' : GetPointer(m)' = GetPointer(m)
  BY <1>1, <1>3, NodesLeadOn
<1> HIDE DEF DoomedBy
<1> QED BY <1>2, <1>8, <1>9, <1>10, DestructorGoes, DestructorCoheres

(* The last one of an object goes; the others of its block lead nowhere.   *)
LEMMA LastOneGoes ==
  ASSUME Inv, Inv', WellUsed, Coherent, NEW t \in Threads, NEW CONSTANT n, DestructorStep(t, n),
         Top(t).at \in {"zap", "clear"}, live' = live \ {n}, NEW b, b = block[n],
         \A c \in Blocks : c # b => info'[c].pointer = info[c].pointer,
         \A m \in live' : block[m] = b => GetPointer(m)' = Null /\ Owner(m) = t,
         ~Idle(t)', Top(t)'.at = "delete", Top(t)'.obj = Top(t).obj
  PROVE  SharedStep /\ Coherent'
<1>1. /\ Cared' = Cared /\ n \in live /\ GetPointer(n) = info[b].pointer
      /\ GetPointer(n) \in Cared \cup {Null} /\ \A m \in live' : m \in live
  BY DestructorMeans
<1>2. /\ ~cond.links /\ ~Idle(t) /\ n = Top(t).node /\ UNCHANGED <<cond, alive, raw, twins>>
      /\ Top(t).at \in CountedOff /\ \A m \in live' : block'[m] = block[m]
  BY DEF DestructorStep, CountedOff
<1>3. FoundOut(t) /\ CountsAgree
  BY <1>2 DEF Inv, CountsAreSound
<1>4. info[b].strong = 0 /\ GetPointer(n) = Top(t).obj
  BY <1>1, <1>2, <1>3 DEF FoundOut
<1>5. StrongHolders(b) = {}
  <2>1. b \in Blocks
    BY <1>1, <1>2, LeadsOfBlock
  <2> QED BY <1>3, <1>4, <2>1, BlockSays DEF Inv, Sound
<1>6. \A m \in live' : block[m] # b => GetPointer(m)' = GetPointer(m)
  BY <1>1, <1>2, CountedLeads
<1>7. \A m \in live : block[m] = b => GetPointer(m) = GetPointer(n)
  BY <1>1, <1>2, LeadsOfBlock
<1>8. \A m \in live : GetPointer(m) = GetPointer(n) /\ GetPointer(n) # Null => block[m] = b
  BY <1>1, <1>2 DEF Coherent, BlocksSound
<1>9. /\ \A x : DoomedBy(t, x)' <=> x = GetPointer(n)
      /\ \A x : DoomedBy(t, x) <=> x = GetPointer(n)
      /\ \A x : Deleting(t, x)' => x = GetPointer(n)
  BY <1>2, <1>4 DEF DoomedBy, Deleting
<1>10. Null \notin Objects
  BY NodesAssumption
<1>11. \A o \in Objects : o = GetPointer(n) => \A m \in live' : GetPointer(m)' # o
  BY <1>1, <1>6, <1>8, <1>10
<1>12. Coherent'
  <2>1. \A m \in live' : GetPointer(m)' = GetPointer(m) \/ GetPointer(m)' = Null
    BY <1>6
  <2> HIDE DEF Deleting, Coherent
  <2> QED BY <1>9, <1>11, <2>1, DestructorCoheres
<1> HIDE DEF DoomedBy, Deleting
<1>13. Doomed' = Doomed
  <2>1. \A m \in live' : Owner(m) # t => GetPointer(m)' = GetPointer(m)
    BY <1>6
  <2> QED BY <1>9, <2>1, DoomedStays
<1>14. ASSUME NEW CONSTANT x \in Objects, x # GetPointer(n) PROVE Same(x)
  <2>1. \A m \in live' : m # n => (GetPointer(m)' = x <=> GetPointer(m) = x)
    <3> SUFFICES ASSUME NEW m \in live' PROVE GetPointer(m)' = x <=> GetPointer(m) = x
      OBVIOUS
    <3>1. CASE block[m] = b
      BY <1>1, <1>7, <1>10, <1>14, <3>1
    <3>2. CASE block[m] # b
      BY <1>6, <3>2
    <3> QED BY <3>1, <3>2
  <2> QED BY <1>2, <2>1, NodeGoes
<1>15. CASE GetPointer(n) \notin Objects
  <2>1. \A x \in Objects : Same(x)
    BY <1>14, <1>15
  <2>2. SharedStep
    BY <1>1, <1>13, <2>1, NothingNew
  <2> QED BY <1>12, <2>2
<1>16. CASE GetPointer(n) \in Objects
  <2>1. PICK o \in Objects : o = GetPointer(n)
    BY <1>16
  <2>2. StrongTo(o) = {}
    BY <1>5, <1>8, <1>10, <2>1 DEF StrongTo, LeadTo, StrongHolders, Holders, Sharing
  <2>3. LeadTo(o)' = {}
    BY <1>11, <2>1 DEF LeadTo
  <2>4. StrongTo(o)' = {} /\ WeakTo(o)' = {}
    BY <2>3 DEF StrongTo, WeakTo
  <2>5. o \in Doomed
    BY <1>9, <2>1, DoomedMeans DEF DoomedByThreads, Inv, Sound
  <2> HIDE DEF StrongTo, WeakTo
  <2>6. Loses(o)
    BY <1>14, <2>1, <2>2, <2>4 DEF Loses
  <2> QED BY <1>1, <1>12, <1>13, <2>5, <2>6, Expires
<1> QED BY <1>12, <1>15, <1>16

LEMMA ZapShared ==
  ASSUME Inv, Inv', WellUsed, Coherent, NEW t \in Threads, Zap(t)
  PROVE  SharedStep /\ Coherent'
<1> DEFINE f == Top(t)
<1>1. /\ ~Idle(t) /\ f.at = "zap" /\ UNCHANGED <<cond, alive, raw, twins>>
      /\ IF info[block[f.node]].weak > 0
         THEN Becomes(t, [f EXCEPT !.at = "clear"]) /\ UNCHANGED <<block, info, live>>
         ELSE /\ info' = [info EXCEPT ![block[f.node]] = NoInfo]
              /\ block' = [block EXCEPT ![f.node] = 0]
              /\ Becomes(t, [f EXCEPT !.at = "delete"]) /\ live' = live \ {f.node}
  BY DEF Zap, At, Top, CountsFree, countVars
<1>2. f.at \in CountedOff /\ f.at \in Going
  BY <1>1 DEF Going, CountedOff
<1>3. ~cond.links /\ f \in FrameType
  BY <1>1, <1>2, TopIsSound, Frame1 DEF FrameOK, Inv, Sound
<1>4. PICK n \in live : n = f.node
  BY <1>1, <1>2, <1>3, AtNode DEF Inv
<1>5. PICK b \in Blocks : b = block[n]
  BY <1>1, <1>2, <1>3, <1>4, AtNode DEF Inv
<1>6. n \in Nodes /\ CountsAgree /\ LastOnesDiffer /\ FoundOut(t)
  BY <1>1, <1>3, <1>4 DEF Inv, CountsAreSound, Sound, ClientTypes
<1>7. CASE info[b].weak > 0
  <2>1. Becomes(t, [f EXCEPT !.at = "clear"]) /\ UNCHANGED <<block, info, live>>
    BY <1>1, <1>4, <1>5, <1>7
  <2>2. PICK g \in FrameType : g = [f EXCEPT !.at = "clear"]
    BY <1>3 DEF FrameType, Labels, Going, CountedOff
  <2>3. /\ g.at = "clear" /\ g.node = n /\ g.as = f.as /\ g.obj = f.obj
        /\ g.at \in CountedOff /\ Becomes(t, g)
    BY <1>3, <1>4, <2>1, <2>2 DEF FrameType, CountedOff
  <2>4. DestructorStep(t, n) /\ ~Idle(t)' /\ Top(t)' = g
    BY <1>1, <1>2, <1>3, <1>4, <2>1, <2>3, StepGoesOn
  <2>5. \A x : (DoomedBy(t, x)' <=> DoomedBy(t, x)) /\ ~Deleting(t, x)'
    BY <1>1, <2>3, <2>4 DEF DoomedBy, Deleting
  <2>6. \A m \in live' : GetPointer(m)' = GetPointer(m)
    BY <1>1, <1>3, <2>1, NodesLeadOn
  <2> HIDE DEF DoomedBy
  <2> QED BY <1>2, <2>4, <2>5, <2>6, DestructorGoes, DestructorCoheres
<1>8. CASE ~(info[b].weak > 0)
  <2>1. /\ info' = [info EXCEPT ![b] = NoInfo] /\ block' = [block EXCEPT ![n] = 0]
        /\ Becomes(t, [f EXCEPT !.at = "delete"]) /\ live' = live \ {n}
    BY <1>1, <1>4, <1>5, <1>8
  <2>2. PICK g \in FrameType : g = [f EXCEPT !.at = "delete"]
    BY <1>3 DEF FrameType, Labels, Going, CountedOff
  <2>3. /\ g.at = "delete" /\ g.node = n /\ g.as = f.as /\ g.obj = f.obj
        /\ Becomes(t, g)
    BY <1>3, <1>4, <2>1, <2>2 DEF FrameType
  <2>4. DestructorStep(t, n) /\ ~Idle(t)' /\ Top(t)' = g
    BY <1>1, <1>2, <1>3, <1>4, <2>1, <2>3, StepGoesOn
  <2>5. StrongHolders(b) = {} /\ WeakHolders(b) = {}
    <3>1. info[b].strong = 0
      BY <1>1, <1>4, <1>5, <1>6 DEF FoundOut
    <3> QED BY <1>6, <1>8, <3>1, BlockSays DEF Inv, Sound
  <2>6. ASSUME NEW m \in live', block[m] = b PROVE FALSE
    <3>1. m \in live /\ m # n /\ m \in Nodes
      BY <2>1 DEF Inv, Sound, ClientTypes
    <3>2. m \in Leaving
      BY <2>5, <2>6, <3>1 DEF StrongHolders, WeakHolders, Holders, Sharing
    <3>3. PICK s \in Threads : Ends(s, m)
      BY <3>2, LeavingMeans DEF LeavingNodesEnd, Inv, Sound
    <3>4. Ends(t, n)
      BY <1>1, <1>2, <1>4 DEF Ends
    <3>5. s # t
      BY <3>1, <3>3, <3>4 DEF Ends
    <3> QED BY <1>5, <1>6, <2>6, <3>1, <3>3, <3>4, <3>5 DEF LastOnesDiffer
  <2>7. \A c \in Blocks : c # b => info'[c].pointer = info[c].pointer
    BY <2>1 DEF Inv, CountTypes
  <2> QED BY <1>1, <1>5, <2>1, <2>3, <2>4, <2>6, <2>7, LastOneGoes
<1> QED BY <1>7, <1>8

LEMMA ClearShared ==
  ASSUME Inv, Inv', WellUsed, Coherent, NEW t \in Threads, Clear(t)
  PROVE  SharedStep /\ Coherent'
<1> DEFINE f == Top(t)
<1>1. /\ ~Idle(t) /\ f.at = "clear" /\ UNCHANGED <<cond, alive, raw, twins>>
      /\ info' = [info EXCEPT ![block[f.node]].pointer = Null]
      /\ block' = [block EXCEPT ![f.node] = 0]
      /\ Becomes(t, [f EXCEPT !.at = "delete"]) /\ live' = live \ {f.node}
  BY DEF Clear, At, Top, CountsGone
<1>2. f.at \in CountedOff /\ f.at \in Going
  BY <1>1 DEF Going, CountedOff
<1>3. ~cond.links /\ f \in FrameType
  BY <1>1, <1>2, TopIsSound, Frame1 DEF FrameOK, Inv, Sound
<1>4. PICK n \in live : n = f.node
  BY <1>1, <1>2, <1>3, AtNode DEF Inv
<1>5. PICK b \in Blocks : b = block[n]
  BY <1>1, <1>2, <1>3, <1>4, AtNode DEF Inv
<1>6. PICK g \in FrameType : g = [f EXCEPT !.at = "delete"]
  BY <1>3 DEF FrameType, Labels, Going, CountedOff
<1>7. /\ g.at = "delete" /\ g.node = n /\ g.as = f.as /\ g.obj = f.obj
      /\ Becomes(t, g)
  BY <1>1, <1>3, <1>4, <1>6 DEF FrameType
<1>8. /\ info' = [info EXCEPT ![b].pointer = Null] /\ block' = [block EXCEPT ![n] = 0]
      /\ live' = live \ {n}
  BY <1>1, <1>4, <1>5
<1>9. DestructorStep(t, n) /\ ~Idle(t)' /\ Top(t)' = g
  BY <1>1, <1>2, <1>3, <1>4, <1>7, <1>8, StepGoesOn
<1>10. /\ \A c \in Blocks : c # b => info'[c].pointer = info[c].pointer
       /\ info'[b].pointer = Null
  BY <1>8 DEF Inv, CountTypes, InfoType
<1>11. ASSUME NEW m \in live', block[m] = b PROVE GetPointer(m)' = Null /\ Owner(m) = t
  <2>1. m \in live /\ block'[m] = b
    BY <1>8, <1>9, <1>11 DEF DestructorStep
  <2>2. GetPointer(m)' = Null
    BY <1>1, <1>3, <1>10, <2>1, LeadsLater
  <2>3. Ends(t, n)
    BY <1>1, <1>2, <1>4 DEF Ends
  <2>4. Owner(m) = t
    BY <1>3, <1>5, <1>11, <2>1, <2>3, Apart DEF Inv
  <2> QED BY <2>2, <2>4
<1> QED BY <1>1, <1>5, <1>7, <1>8, <1>9, <1>10, <1>11, LastOneGoes

-----------------------------------------------------------------------------
(* Release of a linked node.                                               *)

(* A walk stays where the links stay.                                      *)
LEMMA WalkWithin ==
  ASSUME NEW link, NEW S, Null \notin S, NEW n \in S, \A m \in S : link[m] \in S
  PROVE  Walk(link, n) \subseteq S
<1> DEFINE at == Steps(link, n)
           I == {i \in 0 .. Most : at[i] \in S}
<1>1. Most \in Nat
  BY MostIsNatural
<1>2. /\ at = [i \in 0 .. Most |-> IF i = 0 THEN n ELSE Along(link, at[i - 1])]
      /\ Walk(link, n) = {at[i] : i \in 1 .. Most} \ {Null}
  BY StepsMean
<1> HIDE DEF at
<1>3. at[0] = n /\ \A i \in 1 .. Most : at[i] = Along(link, at[i - 1])
  BY <1>1, <1>2
<1>4. 0 \in I
  BY <1>1, <1>3
<1>5. ASSUME NEW i \in 1 .. Most, i - 1 \in I PROVE i \in I
  <2>1. at[i] = link[at[i - 1]]
    BY <1>3, <1>5 DEF Along
  <2> QED BY <1>5, <2>1
<1>6. 0 .. Most \subseteq I
  <2> HIDE DEF I
  <2> QED BY <1>1, <1>4, <1>5, UpTo
<1>7. \A i \in 1 .. Most : at[i] \in S
  <2> TAKE i \in 1 .. Most
  <2>1. i \in 0 .. Most
    BY <1>1
  <2> QED BY <1>6, <2>1
<1> QED BY <1>2, <1>7

LEMMA WalkMeets ==
  ASSUME LinksAgree, live \subseteq Nodes, NEW CONSTANT n \in live
  PROVE  /\ Walk(next, n) \subseteq Linked(pointer[n])
         /\ OneCycle(pointer[n]) => Walk(next, n) = Linked(pointer[n])
         /\ next[n] = n /\ OneCycle(pointer[n]) => Linked(pointer[n]) = {n}
<1>1. Null \notin Linked(pointer[n]) /\ n \in Linked(pointer[n])
  BY NodesAssumption DEF Linked
<1>2. \A m \in Linked(pointer[n]) : next[m] \in Linked(pointer[n])
  BY DEF Linked, LinksAgree
<1>3. Walk(next, n) \subseteq Linked(pointer[n])
  <2> HIDE DEF Linked
  <2> QED BY <1>1, <1>2, WalkWithin
<1>4. /\ n \in Walk(next, n) /\ Walk(next, n) \subseteq live
      /\ \A m \in Walk(next, n) : next[m] \in Walk(next, n) /\ prev[m] \in Walk(next, n)
  <2>1. \A m \in live : next[m] \in live /\ prev[m] \in live
    BY DEF LinksAgree
  <2>2. \A m \in live : prev[next[m]] = m
    BY DEF LinksAgree
  <2> QED BY <2>1, <2>2, CycleMeans
<1>5. ASSUME OneCycle(pointer[n]) PROVE Walk(next, n) = Linked(pointer[n])
  BY <1>3, <1>4, <1>5 DEF OneCycle, Closed
<1>6. ASSUME next[n] = n, OneCycle(pointer[n]) PROVE Linked(pointer[n]) = {n}
  <2>1. prev[n] = n
    BY <1>6 DEF LinksAgree
  <2>2. {n} \in SUBSET Linked(pointer[n]) /\ {n} # {} /\ Closed({n})
    BY <1>1, <1>6, <2>1 DEF Closed
  <2> QED BY <1>6, <2>2 DEF OneCycle
<1> QED BY <1>3, <1>5, <1>6

NoLinkLeaves == Sound /\ cond.links => Leaving = {}

LEMMA NoneLeave == NoLinkLeaves
<1> SUFFICES ASSUME Sound, cond.links, NEW m \in Leaving PROVE FALSE
  BY DEF NoLinkLeaves
<1>1. PICK s \in Threads : Ends(s, m)
  BY LeavingMeans DEF LeavingNodesEnd, Sound
<1>2. FrameOK(s, Top(s), TRUE, Len(stack[s]) = 1)
  BY <1>1, TopIsSound DEF Ends, Sound
<1> QED BY <1>1, <1>2 DEF Ends, FrameOK

LEMMA NoneLeft == NoLinkLeaves'
BY NoneLeave, PTL

(* What the steps of its release have in common.                           *)
LinkedStep(t, n) ==
  /\ cond.links /\ ~Idle(t) /\ Top(t).at = "release" /\ n = Top(t).node
  /\ UNCHANGED <<cond, alive, raw, twins>>
  /\ live' = live \ {n}
  /\ \A s \in Threads : s # t => stack'[s] = stack[s]
  /\ \A m \in live' : m \in StrongNodes' <=> m \in StrongNodes
  /\ NothingToSet(t)'

LEMMA LinkedMeans ==
  ASSUME Inv, Inv', WellUsed, Coherent, NEW t \in Threads, NEW CONSTANT n, LinkedStep(t, n)
  PROVE  /\ NothingSet /\ NothingSet' /\ Cared = alive \ raw /\ Cared' = Cared
         /\ \E p \in cond.pointers : User[p] = t
         /\ \A s \in Threads : s # t => Idle(s)
         /\ n \in live /\ n \in Nodes /\ live \subseteq Nodes /\ LinkTypes /\ LinksAgree
         /\ pointer[n] \in Cared \cup {Null} /\ pointer[n] \notin twins
         /\ Doomed = {} /\ \A x : x \in Doomed' <=> x \in Objects /\ DoomedBy(t, x)'
         /\ \A x : LeadTo(x) = Linked(x) /\ LeadTo(x)' = Linked(x)'
         /\ \A k \in live : k # n => (k \in StrongNodes <=> k \in Strong)
<1>1. /\ cond.links /\ ~Idle(t) /\ Top(t).at = "release" /\ n = Top(t).node
      /\ UNCHANGED <<cond, alive, raw, twins>> /\ NothingToSet(t)'
      /\ \A s \in Threads : s # t => stack'[s] = stack[s]
  BY DEF LinkedStep
<1>2. PICK p \in cond.pointers : User[p] = t
  BY <1>1, TopHasUser
<1>3. \A s \in Threads : s # t => Idle(s)
  BY <1>1, <1>2, MergersAlone
<1>4. NothingSet /\ NothingSet'
  <2>1. \A s \in Threads : s # t => NothingToSet(s)
    BY <1>2, NoOtherSets
  <2>2. NothingToSet(t)
    BY <1>1, NothingSetMeans
  <2> QED BY <1>1, <2>1, <2>2 DEF NothingSet, NothingToSet
<1>5. Cared = alive \ raw /\ Cared' = Cared
  BY <1>1, <1>4, CaredMeans, CaredLater
<1>6. n \in live /\ n \in Nodes /\ live \subseteq Nodes /\ LinkTypes /\ LinksAgree
  <2>1. FrameOK(t, Top(t), TRUE, Len(stack[t]) = 1)
    BY <1>1, TopIsSound DEF Inv, Sound
  <2>2. n \in live
    BY <1>1, <2>1 DEF FrameOK, Going
  <2> QED BY <1>1, <2>2 DEF Inv, Sound, ClientTypes, LinksAreSound
<1>7. pointer[n] \in Cared \cup {Null} /\ pointer[n] \notin twins
  BY <1>1, <1>6 DEF Coherent, CareSound, LeadsToCared, TwinsSound, KnownIn, Known, GetPointer
<1>8. Doomed = {} /\ \A x : x \in Doomed' <=> x \in Objects /\ DoomedBy(t, x)'
  <2>1. \A s \in Threads : \A x : ~DoomedBy(s, x)
    BY <1>1, <1>3 DEF DoomedBy
  <2>2. \A s \in Threads : s # t => \A x : ~DoomedBy(s, x)'
    BY <1>1, <1>3 DEF DoomedBy, Idle
  <2>3. \A x : x \in Doomed <=> x \in Objects /\ \E s \in Threads : DoomedBy(s, x)
    BY DoomedMeans DEF DoomedByThreads, Inv, Sound
  <2>4. \A x : x \in Doomed' <=> x \in Objects /\ \E s \in Threads : DoomedBy(s, x)'
    BY DoomedLater DEF DoomedByThreads, Inv, Sound
  <2> HIDE DEF Doomed, DoomedBy
  <2> QED BY <2>1, <2>2, <2>3, <2>4
<1>9. \A x : LeadTo(x) = Linked(x) /\ LeadTo(x)' = Linked(x)'
  <2>1. Leaving = {} /\ Leaving' = {}
    BY <1>1, NoneLeave, NoneLeft DEF NoLinkLeaves, Inv
  <2> HIDE DEF Leaving
  <2> QED BY <1>1, <2>1 DEF LeadTo, Linked, GetPointer
<1>10. ASSUME NEW k \in live, k # n PROVE k \in StrongNodes <=> k \in Strong
  <2>1. CASE k \in Pointers
    BY <2>1, NodesAssumption DEF StrongNodes
  <2>2. CASE k \notin Pointers
    <3>1. k \in Threads /\ ~Idle(k)
      BY <2>2, LiveOwner DEF Inv, Sound
    <3>2. k = t
      BY <1>3, <3>1
    <3>3. Top(t).at # "swap" /\ n # t
      BY <1>1, <1>10, <3>2
    <3> QED BY <1>1, <3>2, <3>3 DEF Inv, Sound, TemporariesAreSound
  <2> QED BY <2>1, <2>2
<1> QED BY <1>2, <1>3, <1>4, <1>5, <1>6, <1>7, <1>8, <1>9, <1>10

LEMMA LinkedCoheres ==
  ASSUME Inv, Inv', WellUsed, Coherent, NEW t \in Threads, NEW CONSTANT n, LinkedStep(t, n),
         \A m \in live' : pointer'[m] = pointer[m] \/ pointer'[m] = Null,
         \A o \in Objects : Deleting(t, o)' =>
           pointer[n] = o /\ \A m \in live' : pointer'[m] # o,
         ~Idle(t)' => KnownIn(t)',
         \A x \in Objects :
           CyclesKept(x) \/ (x \notin twins /\ (OneCycle(x) => OneCycle(x)'))
  PROVE  Coherent'
<1>1. /\ NothingSet /\ NothingSet' /\ Cared = alive \ raw
      /\ \A s \in Threads : s # t => Idle(s)
      /\ n \in live /\ pointer[n] \in Cared \cup {Null}
  BY LinkedMeans
<1>2. PICK p \in cond.pointers : User[p] = t
  BY LinkedMeans
<1>3. /\ cond.links /\ UNCHANGED <<cond, alive, raw, twins>> /\ live' = live \ {n}
      /\ \A s \in Threads : s # t => stack'[s] = stack[s]
  BY DEF LinkedStep
<1>4. \A m : GetPointer(m) = pointer[m] /\ GetPointer(m)' = pointer'[m]
  BY <1>3 DEF GetPointer
<1>5. CareSound'
  <2>1. \A k \in live : GetPointer(k) \in (alive \ raw) \cup {Null}
    BY <1>1 DEF Coherent, CareSound, LeadsToCared
  <2>2. \A s \in Threads : \A x \in Objects : s # t /\ Deleting(s, x) => x \in alive' \ raw'
    BY <1>1 DEF Deleting
  <2>3. Null \notin alive /\ Null \notin Objects
    BY NodesAssumption DEF Inv, Sound, ClientTypes
  <2>4. \A k \in live' : GetPointer(k)' \in (alive' \ raw') \cup {Null}
    BY <1>3, <1>4, <2>1
  <2>5. \A k \in live' : \/ \E m \in live : GetPointer(m) = GetPointer(k)'
                         \/ GetPointer(k)' \notin alive \ raw
    BY <1>3, <1>4, <2>3
  <2>6. \A o \in Objects : Deleting(t, o)' =>
          /\ o \in alive' \ raw' /\ \E m \in live : GetPointer(m) = o
          /\ \A m \in live' : GetPointer(m)' # o
    BY <1>1, <1>3, <1>4, <2>3
  <2> QED BY <1>1, <1>3, <2>2, <2>4, <2>5, <2>6, CareKept DEF Coherent
<1>6. TwinsSound'
  <2>1. twins' \subseteq alive' \ raw' /\ (twins' # {} => "merge" \in cond.calls)
    BY <1>3 DEF Coherent, TwinsSound
  <2> QED BY <1>2, <1>3, <2>1, TwinsKept DEF Coherent
<1>7. CyclesSound'
  <2>1. ASSUME NEW x \in Objects
        PROVE \/ CyclesKept(x) /\ (x \in twins' <=> x \in twins)
              \/ OneCycle(x)' /\ x \notin twins'
    BY <1>3 DEF Coherent, CyclesSound
  <2> HIDE DEF CyclesKept, OneCycle
  <2> QED BY <1>3, <2>1, CyclesFrom DEF Coherent
<1>8. BlocksSound'
  BY <1>3 DEF BlocksSound
<1> QED BY <1>5, <1>6, <1>7, <1>8 DEF Coherent

(* A node leaves a cycle that has a strong one.                            *)
LEMMA LeaveShared ==
  ASSUME Inv, Inv', WellUsed, Coherent, NEW t \in Threads, NEW CONSTANT n, LinkedStep(t, n),
         next[n] # n, HasStrong(n), LinksLeave(n),
         ~Idle(t)' => Top(t)'.at \in {"members", "set"}
  PROVE  SharedStep /\ Coherent'
<1>1. /\ Cared' = Cared /\ n \in live /\ n \in Nodes /\ live \subseteq Nodes
      /\ LinkTypes /\ LinksAgree
      /\ pointer[n] \in Cared \cup {Null} /\ pointer[n] \notin twins
      /\ Doomed = {} /\ \A x : x \in Doomed' <=> x \in Objects /\ DoomedBy(t, x)'
      /\ \A x : LeadTo(x) = Linked(x) /\ LeadTo(x)' = Linked(x)'
      /\ \A k \in live : k # n => (k \in StrongNodes <=> k \in Strong)
  BY LinkedMeans
<1>2. /\ cond.links /\ live' = live \ {n}
      /\ \A m \in live' : m \in StrongNodes' <=> m \in StrongNodes
  BY DEF LinkedStep
<1>3. pointer' = [pointer EXCEPT ![n] = Null]
  BY DEF LinksLeave
<1>4. \A m \in live' : pointer'[m] = pointer[m]
  BY <1>1, <1>2, <1>3 DEF LinkTypes
<1>5. \A x : ~DoomedBy(t, x)' /\ ~Deleting(t, x)'
  BY DEF DoomedBy, Deleting
<1>6. Coherent'
  <2>1. \A x \in Objects :
          CyclesKept(x) \/ (x \notin twins /\ (OneCycle(x) => OneCycle(x)'))
    BY <1>1, <1>2, LeftCycle
  <2>2. ~Idle(t)' => KnownIn(t)'
    BY DEF KnownIn
  <2> HIDE DEF CyclesKept, OneCycle, Deleting, KnownIn
  <2> QED BY <1>4, <1>5, <2>1, <2>2, LinkedCoheres
<1>7. Doomed' = Doomed
  BY <1>1, <1>5
<1>8. \A x : StrongTo(x)' = StrongTo(x) \ {n} /\ WeakTo(x)' = WeakTo(x) \ {n}
  <2> SUFFICES ASSUME NEW CONSTANT x
               PROVE  StrongTo(x)' = StrongTo(x) \ {n} /\ WeakTo(x)' = WeakTo(x) \ {n}
    OBVIOUS
  <2>1. LeadTo(x)' = LeadTo(x) \ {n}
    BY <1>1, <1>2, <1>4 DEF Linked
  <2>2. \A m \in LeadTo(x)' : m \in StrongNodes' <=> m \in StrongNodes
    BY <1>1, <1>2 DEF Linked
  <2> HIDE DEF LeadTo, StrongNodes
  <2> QED BY <2>1, <2>2 DEF StrongTo, WeakTo
<1>9. \A x \in Objects : x # pointer[n] => Same(x)
  <2> SUFFICES ASSUME NEW x \in Objects, x # pointer[n] PROVE Same(x)
    OBVIOUS
  <2>1. n \notin LeadTo(x)
    BY <1>1 DEF Linked
  <2>2. n \notin StrongTo(x) /\ n \notin WeakTo(x)
    BY <2>1 DEF StrongTo, WeakTo
  <2> HIDE DEF StrongTo, WeakTo
  <2> QED BY <1>8, <2>2 DEF Same
<1>10. CASE pointer[n] \notin Objects
  <2>1. \A x \in Objects : Same(x)
    BY <1>9, <1>10
  <2>2. SharedStep
    BY <1>1, <1>7, <2>1, NothingNew
  <2> QED BY <1>6, <2>2
<1>11. CASE pointer[n] \in Objects
  <2>1. PICK o \in Objects : o = pointer[n]
    BY <1>11
  <2>2. n \in LeadTo(o)
    BY <1>1, <2>1 DEF Linked
  <2>3. PICK k \in (Walk(next, n) \ {n}) \cap Strong : TRUE
    BY <1>2 DEF HasStrong, LinksStrong
  <2>4. k \in Linked(o) /\ k \in live /\ k # n
    BY <1>1, <2>1, <2>3, WalkMeets DEF Linked
  <2>5. StrongTo(o) \ {n} # {}
    BY <1>1, <2>3, <2>4 DEF StrongTo
  <2>6. \A x \in Objects : x # o => Same(x)
    BY <1>9, <2>1
  <2>7. o \notin Doomed
    BY <1>1
  <2> HIDE DEF StrongTo, WeakTo, Doomed, Cared, LeadTo
  <2>8. SharedStep
    BY <1>1, <1>7, <1>8, <2>2, <2>5, <2>6, <2>7, Detaches
  <2> QED BY <1>6, <2>8
<1> QED BY <1>10, <1>11

(* A cycle without a strong one goes.                                      *)
LEMMA ZapAllShared ==
  ASSUME Inv, Inv', WellUsed, Coherent, NEW t \in Threads, NEW CONSTANT n, LinkedStep(t, n),
         next[n] = n \/ ~HasStrong(n), LinksZap(n),
         ~Idle(t)', Top(t)'.at = "delete", Top(t)'.obj = pointer[n]
  PROVE  SharedStep /\ Coherent'
<1>1. /\ Cared' = Cared /\ n \in live /\ n \in Nodes /\ live \subseteq Nodes
      /\ LinkTypes /\ LinksAgree
      /\ pointer[n] \in Cared \cup {Null} /\ pointer[n] \notin twins
      /\ Doomed = {} /\ \A x : x \in Doomed' <=> x \in Objects /\ DoomedBy(t, x)'
      /\ \A x : LeadTo(x) = Linked(x) /\ LeadTo(x)' = Linked(x)'
      /\ \A k \in live : k # n => (k \in StrongNodes <=> k \in Strong)
  BY LinkedMeans
<1>2. /\ cond.links /\ live' = live \ {n} /\ twins' = twins
      /\ \A m \in live' : m \in StrongNodes' <=> m \in StrongNodes
  BY DEF LinkedStep
<1>3. Null \notin Objects
  BY NodesAssumption
<1>4. \A m \in live' : pointer'[m] = pointer[m] \/ pointer'[m] = Null
  BY <1>1, <1>2 DEF LinksZap
<1>5. \A x : (DoomedBy(t, x)' <=> x = pointer[n]) /\ (Deleting(t, x)' => x = pointer[n])
  BY DEF DoomedBy, Deleting
<1>6. \A x \in Objects : x = pointer[n] => OneCycle(x)
  BY <1>1, <1>2 DEF Coherent, CyclesSound
<1>7. \A x \in Objects :
        /\ x # pointer[n] => CyclesKept(x) /\ Linked(x)' = Linked(x)
        /\ x = pointer[n] => OneCycle(x)' /\ Linked(x)' = {}
  <2> SUFFICES ASSUME NEW CONSTANT x \in Objects
               PROVE  /\ x # pointer[n] => CyclesKept(x) /\ Linked(x)' = Linked(x)
                      /\ x = pointer[n] => OneCycle(x)' /\ Linked(x)' = {}
    OBVIOUS
  <2>1. x # Null
    BY <1>3
  <2> HIDE DEF CyclesKept, OneCycle, Linked, LinksZap
  <2> QED BY <1>1, <1>2, <1>6, <2>1, ZappedCycle
<1>8. Coherent'
  <2>1. \A x \in Objects :
          CyclesKept(x) \/ (x \notin twins /\ (OneCycle(x) => OneCycle(x)'))
    <3> SUFFICES ASSUME NEW CONSTANT x \in Objects
                 PROVE  CyclesKept(x) \/ (x \notin twins /\ (OneCycle(x) => OneCycle(x)'))
      OBVIOUS
    <3>1. x # pointer[n] => CyclesKept(x)
      BY <1>7
    <3>2. x = pointer[n] => x \notin twins /\ OneCycle(x)'
      BY <1>1, <1>7
    <3> HIDE DEF CyclesKept, OneCycle
    <3> QED BY <3>1, <3>2
  <2>2. ~Idle(t)' => KnownIn(t)'
    BY <1>1, <1>2 DEF KnownIn
  <2>3. \A o \in Objects : Deleting(t, o)' =>
           pointer[n] = o /\ \A m \in live' : pointer'[m] # o
    BY <1>5, <1>7 DEF Linked
  <2> HIDE DEF CyclesKept, OneCycle, Deleting, KnownIn
  <2> QED BY <1>4, <2>1, <2>2, <2>3, LinkedCoheres
<1>9. \A x \in Objects : x # pointer[n] => Same(x)
  <2> SUFFICES ASSUME NEW CONSTANT x \in Objects, x # pointer[n] PROVE Same(x)
    OBVIOUS
  <2>1. LeadTo(x)' = LeadTo(x) /\ \A m \in LeadTo(x)' : m \in live'
    BY <1>1, <1>7 DEF LeadTo
  <2>2. \A m \in LeadTo(x)' : m \in StrongNodes' <=> m \in StrongNodes
    BY <1>2, <2>1
  <2> HIDE DEF LeadTo, StrongNodes
  <2> QED BY <2>1, <2>2 DEF Same, StrongTo, WeakTo
<1>10. CASE pointer[n] \notin Objects
  <2>1. \A x \in Objects : Same(x)
    BY <1>9, <1>10
  <2>2. Doomed' = Doomed
    <3> HIDE DEF DoomedBy, Doomed
    <3>1. \A x : x \notin Doomed'
      BY <1>1, <1>5, <1>10
    <3> QED BY <1>1, <3>1
  <2>3. SharedStep
    BY <1>1, <2>1, <2>2, NothingNew
  <2> QED BY <1>8, <2>3
<1>11. CASE pointer[n] \in Objects
  <2>1. PICK o \in Objects : o = pointer[n]
    BY <1>11
  <2>2. n \in LeadTo(o)
    BY <1>1, <2>1 DEF Linked
  <2>3. (Linked(o) \ {n}) \cap Strong = {}
    <3>1. OneCycle(pointer[n])
      BY <1>6, <2>1
    <3>2. CASE next[n] = n
      <4>1. Linked(o) = {n}
        BY <1>1, <2>1, <3>1, <3>2, WalkMeets
      <4> QED BY <4>1
    <3>3. CASE ~HasStrong(n)
      <4>1. Linked(o) = Walk(next, n)
        BY <1>1, <2>1, <3>1, WalkMeets
      <4> QED BY <1>2, <3>3, <4>1 DEF HasStrong, LinksStrong
    <3> QED BY <3>2, <3>3
  <2>4. StrongTo(o) \ {n} = {}
    BY <1>1, <2>3 DEF StrongTo, Linked
  <2>5. StrongTo(o)' = {} /\ WeakTo(o)' = {}
    BY <1>1, <1>7, <2>1 DEF StrongTo, WeakTo
  <2>6. \A x \in Objects : x # o => Same(x)
    BY <1>9, <2>1
  <2>7. Doomed' = Doomed \cup {o} /\ o \notin Doomed
    <3> HIDE DEF DoomedBy, Doomed
    <3>1. \A x : x \in Doomed' <=> x = o
      BY <1>1, <1>5, <2>1
    <3> QED BY <1>1, <3>1
  <2> HIDE DEF StrongTo, WeakTo, Doomed, Cared, LeadTo
  <2>8. SharedStep
    BY <1>1, <2>2, <2>4, <2>5, <2>6, <2>7, Detaches
  <2> QED BY <1>8, <2>8
<1> QED BY <1>10, <1>11

LEMMA ReleaseLinkShared ==
  ASSUME Inv, Inv', WellUsed, Coherent, NEW t \in Threads, ReleaseLink(t)
  PROVE  SharedStep /\ Coherent'
<1> DEFINE f == Top(t)
<1>1. PICK n : n = f.node
  OBVIOUS
<1>2. /\ cond.links /\ ~Idle(t) /\ f.at = "release"
      /\ IF next[n] # n /\ HasStrong(n) THEN LinksLeave(n) /\ Done(t)
         ELSE LinksZap(n) /\ Becomes(t, [f EXCEPT !.at = "delete", !.obj = pointer[n]])
      /\ live' = live \ {n} /\ UNCHANGED <<cond, alive, raw, twins>>
  BY <1>1 DEF ReleaseLink, At, Top
<1>3. f.at \in Going /\ f \in FrameType /\ FrameOK(t, f, TRUE, Len(stack[t]) = 1)
  BY <1>2, TopIsSound, Frame1 DEF Inv, Sound, Going
<1>4. n \in Nodes /\ LinkTypes /\ t \notin live' /\ NothingToSet(t)
  <2>1. n \in live /\ n \in Nodes
    BY <1>1, <1>3 DEF FrameOK, FrameType
  <2>2. t \in live => n = t
    BY <1>1, <1>2 DEF Inv, Sound, TemporariesAreSound
  <2>3. NothingToSet(t)
    BY <1>2, NothingSetMeans
  <2> QED BY <1>2, <2>1, <2>2, <2>3 DEF Inv
<1>5. CASE next[n] # n /\ HasStrong(n)
  <2>1. LinksLeave(n) /\ Done(t)
    BY <1>2, <1>5
  <2>2. /\ ~Idle(t)' => Top(t)'.at \in {"members", "set"}
        /\ \A s \in Threads : s # t => stack'[s] = stack[s]
        /\ \A m \in live' : m \in StrongNodes' <=> m \in StrongNodes
    <3>1. /\ live' \subseteq live /\ live \ live' \subseteq {Top(t).node}
          /\ alive' \subseteq Objects /\ raw' \subseteq Objects
      BY <1>1, <1>2 DEF Inv, Sound, ClientTypes
    <3> QED BY <1>2, <1>3, <1>4, <2>1, <3>1, Returns DEF Inv
  <2>3. NothingToSet(t)'
    BY <1>2, <1>4, <2>1, DoneFrames DEF Inv, Sound
  <2>4. LinkedStep(t, n)
    BY <1>1, <1>2, <2>2, <2>3 DEF LinkedStep
  <2> QED BY <1>5, <2>1, <2>2, <2>4, LeaveShared
<1>6. CASE ~(next[n] # n /\ HasStrong(n))
  <2>1. PICK o \in Objects \cup {Null} : o = pointer[n]
    BY <1>4 DEF LinkTypes
  <2>2. PICK g \in FrameType : g = [f EXCEPT !.at = "delete", !.obj = o]
    BY <1>3 DEF FrameType, Labels
  <2>3. g.at = "delete" /\ g.obj = pointer[n] /\ g.node = Top(t).node /\ g.as = Top(t).as
    BY <1>3, <2>1, <2>2 DEF FrameType
  <2>4. LinksZap(n) /\ Becomes(t, g)
    BY <1>2, <1>6, <2>1, <2>2
  <2>5. /\ ~Idle(t)' /\ Top(t)' = g
        /\ \A s \in Threads : s # t => stack'[s] = stack[s]
        /\ \A m : m \in StrongNodes' <=> m \in StrongNodes
    <3>1. live' = live \ {g.node} /\ g.at \notin CountedOff /\ g.at # "recheck"
      BY <1>1, <1>2, <2>3 DEF CountedOff
    <3> QED BY <1>2, <1>3, <2>3, <2>4, <3>1, DestructorGoesOn DEF Inv
  <2>6. NothingToSet(t)'
    <3>1. g.at # "set"
      BY <2>3
    <3> QED BY <1>2, <1>4, <2>4, <3>1, BecomeFrames DEF Inv, Sound
  <2>7. LinkedStep(t, n)
    BY <1>1, <1>2, <2>5, <2>6 DEF LinkedStep
  <2> QED BY <1>6, <2>3, <2>4, <2>5, <2>7, ZapAllShared
<1> QED BY <1>5, <1>6

-----------------------------------------------------------------------------
(* The rest of a call, once its node has gone.                             *)

(* Pointers lead where they led.                                           *)
LEMMA LeadsSame ==
  ASSUME Inv, Inv', NEW t \in Threads, \A s \in Threads : s # t => stack'[s] = stack[s],
         \A k : ~Ends(t, k) /\ ~Ends(t, k)', live' = live,
         \A k \in live : k \in StrongNodes' <=> k \in StrongNodes,
         \A m \in live : GetPointer(m)' = GetPointer(m)
  PROVE  \A x : Same(x)
<1> SUFFICES ASSUME NEW CONSTANT x PROVE Same(x)
  OBVIOUS
<1>1. Leaving' = Leaving
  BY SameLeave DEF Inv, Sound
<1>2. LeadTo(x)' = LeadTo(x) /\ \A k \in LeadTo(x) : k \in live
  <2> HIDE DEF Leaving
  <2> QED BY <1>1 DEF LeadTo
<1> HIDE DEF StrongNodes, LeadTo
<1> QED BY <1>2 DEF Same, StrongTo, WeakTo

(* An object is doomed by a node that leads to it, until it is deleted.    *)
LEMMA DoomedLeads ==
  ASSUME Inv, NEW s \in Threads, NEW o, DoomedBy(s, o), ~Deleting(s, o)
  PROVE  \E n \in live : GetPointer(n) = o
<1>1. ~Idle(s) /\ Top(s).at \in CountedOff /\ Top(s).at \in Going
  BY DEF DoomedBy, Deleting, CountedOff, Going
<1>2. ~cond.links
  BY <1>1, TopIsSound DEF FrameOK, Inv, Sound
<1>3. Top(s).node \in live /\ FoundOut(s)
  BY <1>1, <1>2, AtNode DEF Inv, CountsAreSound
<1>4. GetPointer(Top(s).node) = info[block[Top(s).node]].pointer
  BY <1>2, <1>3, LeadsOfBlock
<1> QED BY <1>1, <1>3, <1>4 DEF DoomedBy, Deleting, FoundOut, CountsPointer, CountedOff

LEMMA DeleteShared ==
  ASSUME Inv, Inv', WellUsed, Coherent, NEW t \in Threads, Delete(t)
  PROVE  SharedStep /\ Coherent'
<1> DEFINE f == Top(t)
<1>1. PICK o : o = f.obj
  OBVIOUS
<1>2. /\ ~Idle(t) /\ f.at = "delete"
      /\ IF o = Null THEN Done(t) /\ alive' = alive
         ELSE alive' = alive \ {o} /\ Becomes(t, [f EXCEPT !.at = "members"])
      /\ UNCHANGED <<block, info, pointer, prev, next, cond, live, raw, twins>>
  BY <1>1 DEF Delete, At, Top, countVars, linkVars
<1>3. f \in FrameType /\ FrameOK(t, f, TRUE, Len(stack[t]) = 1) /\ NothingToSet(t) /\ ClientTypes
  BY <1>2, TopIsSound, Frame1, NothingSetMeans DEF Inv, Sound
<1>4. PICK p \in cond.pointers : User[p] = t
  BY <1>2, TopHasUser
<1>5. t \notin live
  BY <1>2 DEF Inv, Sound, TemporariesAreSound, Going, CountedOff
<1>6. /\ live' \subseteq live /\ live \ live' \subseteq {Top(t).node}
      /\ alive' \subseteq Objects /\ raw' \subseteq Objects
  BY <1>2, <1>3 DEF ClientTypes
<1>7. /\ ~Idle(t)' => Top(t)'.at \in {"members", "set"}
      /\ \A s \in Threads : s # t => stack'[s] = stack[s]
      /\ \A m \in live : m \in StrongNodes' <=> m \in StrongNodes
      /\ NothingToSet(t)'
  <2>1. CASE o = Null
    <3>1. Done(t)
      BY <1>2, <2>1
    <3>2. /\ ~Idle(t)' => Top(t)'.at \in {"members", "set"}
          /\ \A m \in live' : m \in StrongNodes' <=> m \in StrongNodes
      BY <1>2, <1>5, <1>6, <3>1, Returns DEF Inv
    <3>3. NothingToSet(t)' /\ \A s \in Threads : s # t => stack'[s] = stack[s]
      BY <1>2, <1>3, <3>1, DoneFrames
    <3> QED BY <1>2, <3>2, <3>3
  <2>2. CASE o # Null
    <3>1. PICK g \in FrameType : g = [f EXCEPT !.at = "members"]
      BY <1>3 DEF FrameType, Labels
    <3>2. g.at = "members" /\ g.node = f.node /\ g.as = f.as /\ Becomes(t, g)
      BY <1>2, <1>3, <2>2, <3>1 DEF FrameType
    <3>3. PICK last \in BOOLEAN : last <=> Len(stack[t]) = 1
      OBVIOUS
    <3>4. FrameOK(t, g, TRUE, last)'
      BY <1>2, <1>3, <3>2, <3>3 DEF FrameOK, Going, CountedOff
    <3>5. t \in live' <=> last /\ (g.at = "swap" \/ (g.node = t /\ g.at \in Going))
      BY <1>2, <1>5, <3>2 DEF Going, CountedOff
    <3>6. /\ ~Idle(t)' /\ Top(t)' = g
          /\ \A m : m \in StrongNodes' <=> m \in StrongNodes
      BY <1>2, <1>6, <3>2, <3>3, <3>4, <3>5, GoesOn DEF Inv
    <3>7. NothingToSet(t)' /\ \A s \in Threads : s # t => stack'[s] = stack[s]
      BY <1>2, <1>3, <3>2, BecomeFrames
    <3> QED BY <3>2, <3>6, <3>7
  <2> QED BY <2>1, <2>2
<1>8. NothingSet /\ NothingSet'
  <2>1. \A s \in Threads : s # t => NothingToSet(s)
    BY <1>4, NoOtherSets
  <2> QED BY <1>3, <1>7, <2>1 DEF NothingSet, NothingToSet
<1>9. Cared = alive \ raw /\ Cared' = alive' \ raw'
  BY <1>8, CaredMeans, CaredLater
<1>10. \A m : GetPointer(m)' = GetPointer(m)
  BY <1>2, SamePointers
<1>11. \A x : Same(x)
  <2>1. \A k : ~Ends(t, k) /\ ~Ends(t, k)'
    BY <1>2, <1>7 DEF Ends, CountedOff
  <2> QED BY <1>2, <1>7, <1>10, <2>1, LeadsSame
<1>12. /\ \A x : ~DoomedBy(t, x)' /\ ~Deleting(t, x)'
       /\ \A x : (DoomedBy(t, x) <=> x = o) /\ (Deleting(t, x) <=> x = o)
  BY <1>1, <1>2, <1>7 DEF DoomedBy, Deleting
<1>13. \A s \in Threads : s # t => \A x : DoomedBy(s, x)' <=> DoomedBy(s, x)
  BY <1>2, <1>4, <1>7, <1>10, OthersDoom
<1>14. /\ \A x : x \in Doomed <=> x \in Objects /\ \E s \in Threads : DoomedBy(s, x)
       /\ \A x : x \in Doomed' <=> x \in Objects /\ \E s \in Threads : DoomedBy(s, x)'
  BY DoomedMeans, DoomedLater DEF DoomedByThreads, Inv, Sound
<1> HIDE DEF DoomedBy, Deleting, Doomed
<1>15. Null \notin Objects /\ Null \notin alive
  BY <1>3, NodesAssumption DEF ClientTypes
<1>16. o \in Objects => /\ o \in alive \ raw /\ \A n \in live : GetPointer(n) # o
                        /\ \A s \in Threads : Deleting(s, o) => s = t
  BY <1>12 DEF Coherent, CareSound, DeletingSound
<1>17. \A k \in live : GetPointer(k) \in (alive \ raw) \cup {Null}
  BY <1>9 DEF Coherent, CareSound, LeadsToCared
<1>18. o \in Objects \cup {Null}
  BY <1>1, <1>3 DEF FrameType
<1>19. \A k \in live' : GetPointer(k)' \in (alive' \ raw') \cup {Null}
  BY <1>2, <1>10, <1>16, <1>17, <1>18
<1>20. CareSound'
  <2>1. \A k \in live' : \/ \E m \in live : GetPointer(m) = GetPointer(k)'
                         \/ GetPointer(k)' \notin alive \ raw
    BY <1>2, <1>10
  <2>2. ASSUME NEW s \in Threads, NEW x \in Objects, s # t, Deleting(s, x)
        PROVE  x \in alive' \ raw'
    <3>1. x \in alive \ raw
      BY <2>2 DEF Coherent, CareSound, DeletingSound
    <3>2. x # o
      BY <1>16, <2>2
    <3> QED BY <1>2, <3>1, <3>2
  <2> QED BY <1>7, <1>8, <1>12, <1>19, <2>1, <2>2, CareKept DEF Coherent
<1>21. TwinsSound'
  <2>1. o \notin twins
    BY <1>1, <1>2 DEF Coherent, TwinsSound, KnownIn
  <2>2. twins' \subseteq alive' \ raw' /\ (twins' # {} => "merge" \in cond.calls)
    BY <1>2, <2>1 DEF Coherent, TwinsSound
  <2>3. ~Idle(t)' => KnownIn(t)'
    BY <1>7 DEF KnownIn
  <2> QED BY <1>2, <1>4, <1>7, <2>2, <2>3, TwinsKept DEF Coherent
<1>22. Coherent'
  BY <1>2, <1>20, <1>21, PolicyStays DEF Coherent
<1>23. CASE o = Null
  <2>1. Doomed' = Doomed
    BY <1>12, <1>13, <1>14, <1>15, <1>23
  <2>2. SharedStep
    BY <1>2, <1>9, <1>11, <1>23, <2>1, NothingNew
  <2> QED BY <1>22, <2>2
<1>24. CASE o \in Objects
  <2>1. \A s \in Threads : s # t => ~DoomedBy(s, o)
    <3> SUFFICES ASSUME NEW s \in Threads, s # t, DoomedBy(s, o) PROVE FALSE
      OBVIOUS
    <3>1. ~Deleting(s, o)
      BY <1>16, <1>24
    <3> QED BY <1>16, <1>24, <3>1, DoomedLeads
  <2>2. Doomed' = Doomed \ {o} /\ o \in Doomed
    BY <1>12, <1>13, <1>14, <1>24, <2>1
  <2>3. LeadTo(o) = {}
    BY <1>16, <1>24 DEF LeadTo
  <2>4. o \in Cared /\ Cared' = Cared \ {o}
    BY <1>2, <1>9, <1>15, <1>16, <1>24
  <2>5. SharedStep
    BY <1>11, <1>24, <2>2, <2>3, <2>4, Deletes
  <2> QED BY <1>22, <2>5
<1> QED BY <1>18, <1>23, <1>24

(* Frames of other threads stay, and so do those of t that are to set.     *)
LEMMA ReplacingStays ==
  ASSUME NEW t \in Threads, \A s \in Threads : s # t => stack'[s] = stack[s],
         \A i \in 1 .. Len(stack[t]) : stack[t][i].at = "set" =>
           \E j \in 1 .. Len(stack'[t]) : stack'[t][j] = stack[t][i],
         \A i \in 1 .. Len(stack'[t]) : stack'[t][i].at = "set" =>
           \E j \in 1 .. Len(stack[t]) : stack[t][j] = stack'[t][i]
  PROVE  Replacing' = Replacing
<1>1. \A f : f \in Replacing <=>
        /\ f.at = "set"
        /\ \E s \in Threads : \E i \in 1 .. Len(stack[s]) : f = stack[s][i]
  BY DEF Replacing, Frames
<1>2. \A f : f \in Replacing' <=>
        /\ f.at = "set"
        /\ \E s \in Threads : \E i \in 1 .. Len(stack'[s]) : f = stack'[s][i]
  BY DEF Replacing, Frames
<1>3. ASSUME NEW f, f \in Replacing PROVE f \in Replacing'
  <2>1. PICK s \in Threads : \E i \in 1 .. Len(stack[s]) : f = stack[s][i] /\ f.at = "set"
    BY <1>1, <1>3
  <2>2. \E i \in 1 .. Len(stack'[s]) : f = stack'[s][i]
    <3>1. CASE s = t
      BY <2>1, <3>1
    <3>2. CASE s # t
      <4>1. stack'[s] = stack[s]
        BY <3>2
      <4> QED BY <2>1, <4>1
    <3> QED BY <3>1, <3>2
  <2> QED BY <1>2, <2>1, <2>2
<1>4. ASSUME NEW f, f \in Replacing' PROVE f \in Replacing
  <2>1. PICK s \in Threads : \E i \in 1 .. Len(stack'[s]) : f = stack'[s][i] /\ f.at = "set"
    BY <1>2, <1>4
  <2>2. \E i \in 1 .. Len(stack[s]) : f = stack[s][i]
    <3>1. CASE s = t
      BY <2>1, <3>1
    <3>2. CASE s # t
      <4>1. stack'[s] = stack[s]
        BY <3>2
      <4> QED BY <2>1, <4>1
    <3> QED BY <3>1, <3>2
  <2> QED BY <1>1, <2>1, <2>2
<1> HIDE DEF Replacing
<1> QED BY <1>3, <1>4

LEMMA SettingIs == SettingSound <=> \A f \in Replacing : SettingOK(f)
<1>1. \A f : f \in Replacing <=>
        /\ f.at = "set"
        /\ \E s \in Threads : \E i \in 1 .. Len(stack[s]) : f = stack[s][i]
  BY DEF Replacing, Frames
<1> HIDE DEF Replacing, SettingOK
<1> QED BY <1>1 DEF SettingSound

LEMMA SettingLater == SettingSound' <=> \A f \in Replacing' : SettingOK(f)'
<1>1. \A f : f \in Replacing' <=>
        /\ f.at = "set"
        /\ \E s \in Threads : \E i \in 1 .. Len(stack'[s]) : f = stack'[s][i]
  BY DEF Replacing, Frames
<1> HIDE DEF Replacing
<1> QED BY <1>1 DEF SettingSound, SettingOK

LEMMA CaredStays ==
  ASSUME Replacing' = Replacing, alive' = alive, raw' = raw, \A m : GetPointer(m)' = GetPointer(m)
  PROVE  Cared' = Cared
<1>1. {f.obj : f \in Replacing}' = {f.obj : f \in Replacing}
  OBVIOUS
<1>2. {GetPointer(f.node) : f \in Replacing}' = {GetPointer(f.node) : f \in Replacing}
  <2>1. \A f \in Replacing : GetPointer(f.node)' = GetPointer(f.node)
    <3> SUFFICES ASSUME NEW f \in Replacing PROVE GetPointer(f.node)' = GetPointer(f.node)
      OBVIOUS
    <3>1. PICK n : n = f.node
      OBVIOUS
    <3>2. GetPointer(n)' = GetPointer(n)
      OBVIOUS
    <3> QED BY <3>1, <3>2
  <2> QED BY <2>1
<1> QED BY <1>1, <1>2 DEF Cared

LEMMA DestroyMemberShared ==
  ASSUME Inv, Inv', WellUsed, Coherent, NEW t \in Threads, DestroyMember(t)
  PROVE  SharedStep /\ Coherent'
<1>1. /\ ~Idle(t) /\ Top(t).at = "members"
      /\ Done(t) \/ \E p \in Inside(t) : Push(t, Frame("release", p, p, Null))
      /\ UNCHANGED <<block, info, pointer, prev, next, cond, live, alive, raw, twins>>
  BY DEF DestroyMember, At, Top, countVars, linkVars
<1>2. ClientTypes /\ t \notin live
  BY <1>1 DEF Inv, Sound, TemporariesAreSound, Going, CountedOff
<1>3. PICK p \in cond.pointers : User[p] = t
  BY <1>1, TopHasUser
<1>4. /\ \A s \in Threads : s # t => stack'[s] = stack[s]
      /\ \A i \in 1 .. Len(stack[t]) : stack[t][i].at = "set" =>
           \E j \in 1 .. Len(stack'[t]) : stack'[t][j] = stack[t][i]
      /\ \A i \in 1 .. Len(stack'[t]) : stack'[t][i].at = "set" =>
           \E j \in 1 .. Len(stack[t]) : stack[t][j] = stack'[t][i]
      /\ ~Idle(t)' => \/ Top(t)'.at \in {"members", "set"}
                      \/ Top(t)'.at = "release" /\ "members" \in cond.calls
  <2>1. CASE Done(t)
    <3>1. /\ \A s \in Threads : s # t => stack'[s] = stack[s]
          /\ \A i \in 1 .. Len(stack'[t]) : /\ i + 1 \in 1 .. Len(stack[t])
                                            /\ stack'[t][i] = stack[t][i + 1]
          /\ \A i \in 1 .. Len(stack[t]) : i # 1 => /\ i - 1 \in 1 .. Len(stack'[t])
                                                    /\ stack'[t][i - 1] = stack[t][i]
      BY <1>1, <1>2, <2>1, DoneFrames
    <3>2. \A i \in 1 .. Len(stack[t]) : stack[t][i].at = "set" => i # 1
      BY <1>1 DEF Top
    <3>3. \A i \in 1 .. Len(stack[t]) : stack[t][i].at = "set" =>
            \E j \in 1 .. Len(stack'[t]) : stack'[t][j] = stack[t][i]
      BY <3>1, <3>2
    <3>4. \A i \in 1 .. Len(stack'[t]) : stack'[t][i].at = "set" =>
            \E j \in 1 .. Len(stack[t]) : stack[t][j] = stack'[t][i]
      BY <3>1
    <3>5. ~Idle(t)' => Top(t)'.at \in {"members", "set"}
      <4>1. /\ live' \subseteq live /\ live \ live' \subseteq {Top(t).node} /\ t \notin live'
            /\ alive' \subseteq Objects /\ raw' \subseteq Objects
        BY <1>1, <1>2 DEF ClientTypes
      <4> QED BY <1>1, <2>1, <4>1, Returns DEF Inv
    <3> QED BY <3>1, <3>3, <3>4, <3>5
  <2>2. ASSUME NEW q \in Inside(t), Push(t, Frame("release", q, q, Null))
        PROVE  /\ \A s \in Threads : s # t => stack'[s] = stack[s]
               /\ \A i \in 1 .. Len(stack[t]) : stack[t][i].at = "set" =>
                    \E j \in 1 .. Len(stack'[t]) : stack'[t][j] = stack[t][i]
               /\ \A i \in 1 .. Len(stack'[t]) : stack'[t][i].at = "set" =>
                    \E j \in 1 .. Len(stack[t]) : stack[t][j] = stack'[t][i]
               /\ Top(t)'.at = "release" /\ "members" \in cond.calls
    <3>1. PICK f \in FrameType : f = Frame("release", q, q, Null) /\ f.at = "release"
      <4>1. "release" \in Labels /\ q \in Pointers /\ q \in Nodes
        BY <2>2 DEF Labels, Going, Inside, Nodes
      <4> QED BY <4>1, FrameMeans
    <3>2. Push(t, f)
      BY <2>2, <3>1
    <3>3. /\ \A s \in Threads : s # t => stack'[s] = stack[s]
          /\ \A i \in 1 .. Len(stack[t]) : /\ i + 1 \in 1 .. Len(stack'[t])
                                           /\ stack'[t][i + 1] = stack[t][i]
          /\ \A i \in 1 .. Len(stack'[t]) : i # 1 => /\ i - 1 \in 1 .. Len(stack[t])
                                                     /\ stack'[t][i] = stack[t][i - 1]
          /\ stack'[t][1] = f
      BY <1>2, <3>2, PushedFrames
    <3>4. \A i \in 1 .. Len(stack[t]) : stack[t][i].at = "set" =>
            \E j \in 1 .. Len(stack'[t]) : stack'[t][j] = stack[t][i]
      BY <3>3
    <3>5. \A i \in 1 .. Len(stack'[t]) : stack'[t][i].at = "set" => i # 1
      BY <3>1, <3>3
    <3>6. \A i \in 1 .. Len(stack'[t]) : stack'[t][i].at = "set" =>
            \E j \in 1 .. Len(stack[t]) : stack[t][j] = stack'[t][i]
      BY <3>3, <3>5
    <3>7. "members" \in cond.calls
      BY <2>2 DEF Inside, Home
    <3> QED BY <3>1, <3>3, <3>4, <3>6, <3>7 DEF Top
  <2> QED BY <1>1, <2>1, <2>2
<1>5. /\ \A x : ~DoomedBy(t, x) /\ ~DoomedBy(t, x)' /\ ~Deleting(t, x) /\ ~Deleting(t, x)'
      /\ \A k : ~Ends(t, k) /\ ~Ends(t, k)'
  BY <1>1, <1>4 DEF DoomedBy, Deleting, Ends, CountedOff
<1>6. \A m : GetPointer(m)' = GetPointer(m)
  BY <1>1, SamePointers
<1>7. Replacing' = Replacing
  BY <1>4, ReplacingStays
<1> HIDE DEF Replacing
<1>8. Cared' = Cared
  BY <1>1, <1>6, <1>7, CaredStays
<1>9. SharedStep
  <2>1. \A k \in live : k \in StrongNodes' <=> k \in StrongNodes
    BY <1>2, <1>4, KindsStay
  <2>2. \A x : Same(x)
    BY <1>1, <1>4, <1>5, <1>6, <2>1, LeadsSame
  <2>3. Doomed' = Doomed
    BY <1>1, <1>3, <1>4, <1>5, <1>6, DoomedSame
  <2> QED BY <1>8, <2>2, <2>3, NothingNew
<1>10. CareSound'
  <2>1. LeadsToCared'
    BY <1>1, <1>6, <1>8 DEF Coherent, CareSound, LeadsToCared
  <2>2. DeletingSound'
    <3>1. \A s \in Threads : \A x : Deleting(s, x)' <=> Deleting(s, x)
      <4>1. \A s \in Threads : \A x : s # t => (Deleting(s, x)' <=> Deleting(s, x))
        BY <1>4 DEF Deleting, Idle, Top
      <4> QED BY <1>5, <4>1
    <3> HIDE DEF Deleting
    <3> QED BY <1>1, <1>6, <3>1 DEF Coherent, CareSound, DeletingSound
  <2>3. SettingSound'
    <3> SUFFICES ASSUME NEW CONSTANT f, f \in Replacing PROVE SettingOK(f)'
      BY <1>7, SettingLater
    <3>1. SettingOK(f)
      BY SettingIs DEF Coherent, CareSound
    <3> QED BY <1>1, <1>6, <3>1 DEF SettingOK
  <2> QED BY <2>1, <2>2, <2>3 DEF CareSound
<1>11. TwinsSound'
  <2>1. twins' \subseteq alive' \ raw' /\ (twins' # {} => "merge" \in cond.calls)
    BY <1>1 DEF Coherent, TwinsSound
  <2>2. "merge" \in cond.calls => "members" \notin cond.calls
    BY DEF WellUsed, UsedWell, Inv, Sound, ClientTypes
  <2>3. "merge" \in cond.calls /\ ~Idle(t)' => KnownIn(t)'
    BY <1>4, <2>2 DEF KnownIn
  <2> QED BY <1>1, <1>3, <1>4, <2>1, <2>3, TwinsKept DEF Coherent
<1> QED BY <1>1, <1>9, <1>10, <1>11, PolicyStays DEF Coherent

-----------------------------------------------------------------------------
(* Steps of ResetAll and ReleaseAll, whose client is alone.                *)
ResetStep(t, p) ==
  /\ "reset" \in cond.calls /\ p \in cond.pointers /\ User[p] = t /\ t \notin live
  /\ UNCHANGED <<cond, live, twins>>
  /\ \A s \in Threads : s # t => stack'[s] = stack[s]
  /\ \A k : ~Ends(t, k) /\ ~Ends(t, k)'
  /\ \A o : ~DoomedBy(t, o) /\ ~DoomedBy(t, o)' /\ ~Deleting(t, o)'

LeavingEnds == Sound /\ (\A s \in Threads : \A k : ~Ends(s, k)) => Leaving = {}

LEMMA NoOneLeaves == LeavingEnds
<1> HIDE DEF Leaving
<1> QED BY LeavingMeans DEF LeavingEnds, LeavingNodesEnd, Sound

LEMMA NoOneLeft == LeavingEnds'
BY NoOneLeaves, PTL

LEMMA ResetMeans ==
  ASSUME Inv, Inv', WellUsed, Coherent, NEW t \in Threads, NEW CONSTANT p, ResetStep(t, p)
  PROVE  /\ ~cond.links /\ cond' = cond /\ live' = live /\ live \subseteq Nodes
         /\ \A s \in Threads : s # t => Idle(s) /\ Idle(s)' /\ NothingToSet(s) /\ NothingToSet(s)'
         /\ twins = {} /\ TwinsSound' /\ CyclesSound' /\ DeletingSound'
         /\ Doomed = {} /\ Doomed' = {} /\ Leaving = {} /\ Leaving' = {}
         /\ \A x : LeadTo(x) = {k \in live : GetPointer(k) = x}
         /\ \A x : LeadTo(x)' = {k \in live : GetPointer(k)' = x}
         /\ \A k \in live : k \in StrongNodes' <=> k \in StrongNodes
<1>1. /\ "reset" \in cond.calls /\ p \in cond.pointers /\ User[p] = t /\ t \notin live
      /\ UNCHANGED <<cond, live, twins>>
      /\ \A s \in Threads : s # t => stack'[s] = stack[s]
      /\ \A k : ~Ends(t, k) /\ ~Ends(t, k)'
      /\ \A o : ~DoomedBy(t, o) /\ ~DoomedBy(t, o)' /\ ~Deleting(t, o)'
  BY DEF ResetStep
<1>2. UsedWell(cond) /\ live \subseteq Nodes
  BY DEF WellUsed, Inv, Sound, ClientTypes
<1>3. ~cond.links /\ "merge" \notin cond.calls
  BY <1>1, <1>2 DEF UsedWell
<1>4. \A s \in Threads : s # t => Idle(s) /\ Idle(s)' /\ NothingToSet(s) /\ NothingToSet(s)'
  <2> SUFFICES ASSUME NEW s \in Threads, s # t
               PROVE  Idle(s) /\ Idle(s)' /\ NothingToSet(s) /\ NothingToSet(s)'
    OBVIOUS
  <2>1. Idle(s)
    BY <1>1, MergersAlone
  <2>2. Len(stack[s]) = 0 /\ stack'[s] = stack[s]
    BY <1>1, <2>1 DEF Idle
  <2> QED BY <2>1, <2>2 DEF Idle, NothingToSet
<1>5. \A s \in Threads : \A k : ~Ends(s, k) /\ ~Ends(s, k)'
  BY <1>1, <1>4 DEF Ends
<1>6. Leaving = {} /\ Leaving' = {}
  BY <1>5, NoOneLeaves, NoOneLeft DEF LeavingEnds, Inv
<1>7. Doomed = {} /\ Doomed' = {}
  <2>1. \A s \in Threads : \A x : ~DoomedBy(s, x) /\ ~DoomedBy(s, x)'
    BY <1>1, <1>4 DEF DoomedBy
  <2>2. \A x : x \in Doomed <=> x \in Objects /\ \E s \in Threads : DoomedBy(s, x)
    BY DoomedMeans DEF DoomedByThreads, Inv, Sound
  <2>3. \A x : x \in Doomed' <=> x \in Objects /\ \E s \in Threads : DoomedBy(s, x)'
    BY DoomedLater DEF DoomedByThreads, Inv, Sound
  <2> HIDE DEF Doomed, DoomedBy
  <2> QED BY <2>1, <2>2, <2>3
<1>8. twins = {} /\ twins' = {}
  BY <1>1, <1>3 DEF Coherent, TwinsSound
<1>9. TwinsSound'
  BY <1>1, <1>3, <1>8, TwinsKept DEF Coherent
<1>10. CyclesSound'
  BY <1>1, <1>3 DEF CyclesSound
<1>11. DeletingSound'
  <2>1. \A s \in Threads : \A x : ~Deleting(s, x)'
    BY <1>1, <1>4 DEF Deleting
  <2> HIDE DEF Deleting
  <2> QED BY <2>1 DEF DeletingSound
<1>12. \A k \in live : k \in StrongNodes' <=> k \in StrongNodes
  BY <1>1, KindsStay
<1>13. \A x : LeadTo(x) = {k \in live : GetPointer(k) = x}
  <2> HIDE DEF Leaving
  <2> QED BY <1>6 DEF LeadTo
<1>14. \A x : LeadTo(x)' = {k \in live : GetPointer(k)' = x}
  <2> HIDE DEF Leaving
  <2> QED BY <1>1, <1>6 DEF LeadTo
<1> HIDE DEF Leaving, Doomed, LeadTo, StrongNodes, TwinsSound, CyclesSound, DeletingSound
<1> QED BY <1>1, <1>2, <1>3, <1>4, <1>6, <1>7, <1>8, <1>9, <1>10, <1>11, <1>12, <1>13, <1>14

(* SetPointer of a block that has weak pointers only.                      *)
LEMMA SetLeads ==
  ASSUME Inv, Inv', WellUsed, Coherent, NEW t \in Threads, NEW CONSTANT p, ResetStep(t, p),
         NEW CONSTANT n \in live, NEW CONSTANT o \in Objects \cup {Null}, SetPointer(n, o),
         info[block[n]].strong = 0
  PROVE  \E N \in SUBSET live :
           /\ n \in N /\ \A k \in N : GetPointer(k) = GetPointer(n) /\ GetPointer(k)' = o
           /\ \A k \in N : k \notin StrongNodes
           /\ \A k \in live : k \notin N => GetPointer(k)' = GetPointer(k)
           /\ \A k \in live : GetPointer(n) # Null /\ GetPointer(k) = GetPointer(n) => k \in N
           /\ (o = Null \/ \A k \in live : GetPointer(k) # o) => BlocksSound'
<1>1. ~cond.links /\ cond' = cond /\ live' = live /\ Leaving = {}
  BY ResetMeans
<1>2. PICK b \in Blocks : b = block[n] /\ GetPointer(n) = info[b].pointer /\ b # 0
  BY <1>1, LeadsOfBlock
<1>3. block' = block /\ info' = [info EXCEPT ![b].pointer = o]
  BY <1>1, <1>2 DEF SetPointer, CountsSet
<1>4. \A c \in Blocks : c # b => info'[c].pointer = info[c].pointer
  BY <1>3 DEF Inv, CountTypes
<1>5. info'[b].pointer = o
  BY <1>3 DEF Inv, CountTypes, InfoType
<1>6. PICK N \in SUBSET live : N = {k \in live : block[k] = b}
  OBVIOUS
<1>7. \A k \in N : GetPointer(k) = GetPointer(n)
  BY <1>1, <1>2, <1>6, LeadsOfBlock
<1>8. \A k \in N : GetPointer(k)' = o
  <2> SUFFICES ASSUME NEW CONSTANT k \in N PROVE GetPointer(k)' = o
    OBVIOUS
  <2>1. block'[k] = b /\ ~cond'.links
    BY <1>1, <1>3, <1>6
  <2> QED BY <1>2, <1>5, <2>1 DEF GetPointer, CountsPointer
<1>9. \A k \in live : k \notin N => GetPointer(k)' = GetPointer(k)
  <2> SUFFICES ASSUME NEW CONSTANT k \in live, k \notin N PROVE GetPointer(k)' = GetPointer(k)
    OBVIOUS
  <2>1. block[k] # b /\ block'[k] = block[k]
    BY <1>3, <1>6
  <2> QED BY <1>1, <1>4, <2>1, CountedLeads
<1>10. \A k \in N : k \notin StrongNodes
  <2>1. StrongHolders(b) = {}
    BY <1>1, <1>2, BlockSays DEF Inv, Sound, CountsAreSound
  <2> HIDE DEF Leaving, StrongNodes
  <2> QED BY <1>1, <1>6, <2>1 DEF StrongHolders, Holders, Sharing
<1>11. \A k \in live : GetPointer(n) # Null /\ GetPointer(k) = GetPointer(n) => k \in N
  BY <1>1, <1>2, <1>6 DEF Coherent, BlocksSound
<1>12. ASSUME o = Null \/ \A k \in live : GetPointer(k) # o PROVE BlocksSound'
  <2> SUFFICES ASSUME NEW CONSTANT k \in live, NEW CONSTANT m \in live,
                      GetPointer(k)' = GetPointer(m)', GetPointer(k)' # Null
               PROVE  block[k] = block[m]
    BY <1>1, <1>3 DEF BlocksSound
  <2>1. CASE k \in N
    <3>1. m \in N
      BY <1>8, <1>9, <1>12, <2>1
    <3> QED BY <1>6, <2>1, <3>1
  <2>2. CASE k \notin N
    <3>1. m \notin N
      BY <1>8, <1>9, <1>12, <2>2
    <3>2. GetPointer(k) = GetPointer(m) /\ GetPointer(k) # Null
      BY <1>9, <2>2, <3>1
    <3> QED BY <1>1, <3>2 DEF Coherent, BlocksSound
  <2> QED BY <2>1, <2>2
<1>13. n \in N
  BY <1>2, <1>6
<1> HIDE DEF StrongNodes, BlocksSound
<1> QED BY <1>7, <1>8, <1>9, <1>10, <1>11, <1>12, <1>13

LEMMA ReleaseAllShared ==
  ASSUME Inv, Inv', WellUsed, Coherent, NEW t \in Threads, NEW p \in Pointers, ReleaseAll(t, p)
  PROVE  SharedStep /\ Coherent'
<1>1. /\ "reset" \in cond.calls /\ Usable(t, p) /\ ~HasStrong(p) /\ SetPointer(p, Null)
      /\ raw' = raw \cup ({GetPointer(p)} \ {Null})
      /\ UNCHANGED <<cond, live, alive, twins, stack>>
  BY DEF ReleaseAll, MayReset
<1>2. Idle(t) /\ p \in cond.pointers /\ User[p] = t /\ p \in live
  BY <1>1, UsableMeans DEF Inv
<1>3. ResetStep(t, p)
  <2>1. t \notin live
    BY <1>2, NoTemporary DEF Inv
  <2> QED BY <1>1, <1>2, <2>1 DEF ResetStep, Ends, DoomedBy, Deleting, Idle
<1>4. /\ ~cond.links /\ cond' = cond /\ live' = live /\ live \subseteq Nodes
      /\ TwinsSound' /\ CyclesSound' /\ DeletingSound'
      /\ Doomed = {} /\ Doomed' = {}
      /\ \A x : LeadTo(x) = {k \in live : GetPointer(k) = x}
      /\ \A x : LeadTo(x)' = {k \in live : GetPointer(k)' = x}
      /\ \A k \in live : k \in StrongNodes' <=> k \in StrongNodes
      /\ \A s \in Threads : s # t => NothingToSet(s)
  BY <1>3, ResetMeans
<1>5. NothingSet /\ NothingSet'
  <2>1. NothingToSet(t)
    BY <1>2, NothingSetMeans
  <2> QED BY <1>1, <1>4, <2>1 DEF NothingSet, NothingToSet
<1>6. Cared = alive \ raw /\ Cared' = alive \ (raw \cup ({GetPointer(p)} \ {Null}))
  BY <1>1, <1>5, CaredMeans, CaredLater
<1>7. info[block[p]].strong = 0
  <2>1. info[block[p]].strong \in Nat
    BY <1>2, <1>4, LeadsOfBlock, BlockSays DEF Inv, Sound, CountsAreSound
  <2> QED BY <1>1, <1>4, <2>1 DEF HasStrong, CountsStrong
<1>8. PICK g \in Objects \cup {Null} : g = GetPointer(p)
  BY <1>2, PointerOf
<1>9. PICK N \in SUBSET live :
        /\ \A k \in N : GetPointer(k) = g /\ GetPointer(k)' = Null
        /\ \A k \in N : k \notin StrongNodes
        /\ \A k \in live : k \notin N => GetPointer(k)' = GetPointer(k)
        /\ \A k \in live : g # Null /\ GetPointer(k) = g => k \in N
        /\ BlocksSound'
  BY <1>1, <1>2, <1>3, <1>7, <1>8, SetLeads
<1> HIDE DEF Doomed, Leaving, StrongNodes, LeadTo, Cared
<1>10. \A x \in Objects : x # g => Same(x)
  <2> SUFFICES ASSUME NEW CONSTANT x \in Objects, x # g PROVE Same(x)
    OBVIOUS
  <2>1. LeadTo(x)' = LeadTo(x)
    BY <1>4, <1>9, NodesAssumption
  <2>2. \A k \in LeadTo(x) : k \in StrongNodes' <=> k \in StrongNodes
    BY <1>4
  <2> QED BY <2>1, <2>2 DEF Same, StrongTo, WeakTo
<1>11. SharedStep
  <2>1. CASE g = Null
    <3>1. Cared' = Cared
      BY <1>6, <1>8, <2>1
    <3>2. \A x \in Objects : Same(x)
      BY <1>10, <2>1, NodesAssumption
    <3> QED BY <1>4, <3>1, <3>2, NothingNew
  <2>2. CASE g # Null
    <3>1. LeadTo(g)' = {} /\ \A k \in LeadTo(g) : k \notin StrongNodes
      BY <1>4, <1>9, <2>2
    <3>2. Loses(g)
      BY <1>8, <1>10, <2>2, <3>1 DEF Loses, StrongTo, WeakTo
    <3>3. g \in Cared
      BY <1>2, <1>8, <2>2 DEF Coherent, CareSound, LeadsToCared
    <3>4. Cared' = Cared \ {g}
      BY <1>6, <1>8, <2>2
    <3> QED BY <1>4, <3>2, <3>3, <3>4, Surrenders
  <2> QED BY <2>1, <2>2
<1>12. LeadsToCared'
  <2> SUFFICES ASSUME NEW CONSTANT k \in live PROVE GetPointer(k)' \in Cared' \cup {Null}
    BY <1>4 DEF LeadsToCared
  <2>1. CASE k \in N
    BY <1>9, <2>1
  <2>2. CASE k \notin N
    <3>1. GetPointer(k) \in Cared \cup {Null}
      BY DEF Coherent, CareSound, LeadsToCared
    <3> QED BY <1>6, <1>8, <1>9, <2>2, <3>1
  <2> QED BY <2>1, <2>2
<1>13. SettingSound'
  BY <1>5 DEF SettingSound, NothingSet, NothingToSet
<1> QED BY <1>4, <1>9, <1>11, <1>12, <1>13 DEF Coherent, CareSound

LEMMA SetShared ==
  ASSUME Inv, Inv', WellUsed, Coherent, NEW t \in Threads, Set(t)
  PROVE  SharedStep /\ Coherent'
<1>1. /\ ~Idle(t) /\ Top(t).at = "set" /\ SetPointer(Top(t).node, Top(t).obj) /\ Done(t)
      /\ UNCHANGED <<cond, live, alive, raw, twins>>
  BY DEF Set, At, Top
<1>2. /\ FrameOK(t, Top(t), TRUE, Len(stack[t]) = 1) /\ ClientTypes
      /\ 1 \in 1 .. Len(stack[t]) /\ Top(t).obj \in Objects \cup {Null}
  BY <1>1, TopIsSound, Frame1 DEF Inv, Sound
<1>3. PICK n \in live : n = Top(t).node
  BY <1>1, <1>2 DEF FrameOK
<1>4. PICK o \in Objects \cup {Null} : o = Top(t).obj
  BY <1>2
<1>5. /\ Len(stack[t]) = 1 /\ "reset" \in cond.calls
      /\ n \in cond.pointers /\ User[n] = t
  BY <1>1, <1>2, <1>3 DEF FrameOK, WellUsed, UsedWell, ClientTypes
<1>6. stack'[t] = <<>> /\ Len(stack'[t]) = 0 /\ \A s \in Threads : s # t => stack'[s] = stack[s]
  <2>1. stack[t] \in Seq(FrameType) /\ stack[t] # <<>>
    BY <1>1, <1>2, Frame1
  <2>2. Tail(stack[t]) \in Seq(FrameType) /\ Len(Tail(stack[t])) = 0
    BY <1>5, <2>1, TailMeans
  <2>3. Tail(stack[t]) = <<>>
    BY <2>2, EmptySeq
  <2> QED BY <1>1, <1>2, <2>3 DEF Done, ClientTypes
<1>7. ResetStep(t, n)
  <2>1. t \notin live
    BY <1>1, <1>3, <1>5, NodesAssumption
       DEF Inv, Sound, TemporariesAreSound, Going, CountedOff, Nodes
  <2>2. Idle(t)'
    BY <1>6 DEF Idle
  <2> QED BY <1>1, <1>5, <1>6, <2>1, <2>2 DEF ResetStep, Ends, DoomedBy, Deleting, CountedOff
<1>8. /\ live' = live /\ live \subseteq Nodes
      /\ TwinsSound' /\ CyclesSound' /\ DeletingSound'
      /\ Doomed = {} /\ Doomed' = {}
      /\ \A x : LeadTo(x) = {k \in live : GetPointer(k) = x}
      /\ \A x : LeadTo(x)' = {k \in live : GetPointer(k)' = x}
      /\ \A k \in live : k \in StrongNodes' <=> k \in StrongNodes
      /\ \A s \in Threads : s # t => NothingToSet(s) /\ NothingToSet(s)'
  BY <1>7, ResetMeans
<1>9. PICK g \in Objects \cup {Null} : g = GetPointer(n)
  BY PointerOf
<1>10. /\ g \notin alive /\ g # o /\ info[block[n]].strong = 0
       /\ o # Null => o \in alive \ raw /\ \A k \in live : GetPointer(k) # o
  <2>1. SettingOK(Top(t))
    BY <1>1, <1>2 DEF Coherent, CareSound, SettingSound, Top
  <2> QED BY <1>3, <1>4, <1>9, <2>1 DEF SettingOK
<1>11. Cared = (alive \ (raw \cup {o})) \cup ({g} \ {Null})
  <2>1. Top(t) \in Frames
    BY <1>2 DEF Frames, Top
  <2>2. ASSUME NEW f \in Frames, f.at = "set" PROVE f = Top(t)
    <3>1. PICK s \in Threads : \E i \in 1 .. Len(stack[s]) : f = stack[s][i]
      BY DEF Frames
    <3>2. s = t
      BY <1>8, <2>2, <3>1 DEF NothingToSet
    <3>3. PICK i \in 1 .. Len(stack[t]) : f = stack[t][i]
      BY <3>1, <3>2
    <3>4. i = 1
      BY <1>5, <3>3
    <3> QED BY <3>3, <3>4 DEF Top
  <2>3. Replacing = {Top(t)}
    <3> HIDE DEF Frames
    <3> QED BY <1>1, <2>1, <2>2 DEF Replacing
  <2>4. {f.obj : f \in Replacing} = {o} /\ {GetPointer(f.node) : f \in Replacing} = {g}
    <3> HIDE DEF Replacing
    <3> QED BY <1>3, <1>4, <1>9, <2>3
  <2> QED BY <2>4 DEF Cared
<1>12. NothingSet'
  BY <1>6, <1>8 DEF NothingSet, NothingToSet
<1>13. Cared' = alive \ raw
  BY <1>1, <1>12, CaredLater
<1>14. PICK N \in SUBSET live :
         /\ \A k \in N : GetPointer(k) = g /\ GetPointer(k)' = o
         /\ \A k \in N : k \notin StrongNodes
         /\ \A k \in live : k \notin N => GetPointer(k)' = GetPointer(k)
         /\ \A k \in live : g # Null /\ GetPointer(k) = g => k \in N
         /\ BlocksSound'
  <2>1. SetPointer(n, o)
    BY <1>1, <1>3, <1>4
  <2>2. o = Null \/ \A k \in live : GetPointer(k) # o
    BY <1>10
  <2> QED BY <1>7, <1>9, <1>10, <2>1, <2>2, SetLeads
<1> HIDE DEF Doomed, Leaving, StrongNodes, LeadTo, Cared
<1>15. \A x \in Objects : x # g /\ x # o => Same(x)
  <2> SUFFICES ASSUME NEW CONSTANT x \in Objects, x # g, x # o PROVE Same(x)
    OBVIOUS
  <2>1. LeadTo(x)' = LeadTo(x)
    BY <1>8, <1>14
  <2>2. \A k \in LeadTo(x) : k \in StrongNodes' <=> k \in StrongNodes
    BY <1>8
  <2> QED BY <2>1, <2>2 DEF Same, StrongTo, WeakTo
<1>16. o # Null => LeadTo(o) = {} /\ LeadTo(o)' = N
  BY <1>8, <1>10, <1>14
<1>17. \A k \in N : k \notin StrongNodes /\ k \notin StrongNodes'
  BY <1>8, <1>14
<1>18. o # Null => /\ StrongTo(o) = {} /\ WeakTo(o) = {}
                   /\ StrongTo(o)' = {} /\ WeakTo(o)' = N
  BY <1>16, <1>17 DEF StrongTo, WeakTo
<1>19. SharedStep
  <2>1. CASE g = Null
    <3>1. o \in Objects /\ o # Null /\ \A x \in Objects : x # g
      BY <1>10, <2>1, NodesAssumption
    <3>2. \A x \in Objects : N \cap LeadTo(x) = {}
      BY <1>8, <1>14, <2>1, <3>1
    <3>3. Gains(o, N)
      BY <1>8, <1>15, <1>18, <3>1, <3>2 DEF Gains
    <3>4. o \notin Cared /\ Cared' = Cared \cup {o}
      BY <1>10, <1>11, <1>13, <2>1, <3>1
    <3> QED BY <1>8, <3>3, <3>4, Adopts
  <2>2. CASE g # Null
    <3>1. PICK new \in SUBSET Objects : new = {o} \ {Null}
      OBVIOUS
    <3>2. LeadTo(g) = N /\ LeadTo(g)' = {}
      BY <1>8, <1>10, <1>14, <2>2
    <3>3. StrongTo(g) = {} /\ WeakTo(g) = N /\ StrongTo(g)' = {} /\ WeakTo(g)' = {}
      BY <1>17, <3>2 DEF StrongTo, WeakTo
    <3>4. \A x \in Objects : StrongTo(x)' = StrongTo(x)
      BY <1>15, <1>18, <3>3, NodesAssumption DEF Same
    <3>5. \A x \in new : WeakTo(x)' = WeakTo(g)
      BY <1>18, <3>1, <3>3
    <3>6. \A x \in Objects : x # g /\ x \notin new => WeakTo(x)' = WeakTo(x)
      BY <1>15, <3>1, NodesAssumption DEF Same
    <3>7. g \in Objects /\ g \notin new /\ g \in Cared \ Doomed
      BY <1>8, <1>10, <1>11, <2>2, <3>1
    <3>8. Cared' = (Cared \ {g}) \cup new
      <4>1. Null \notin alive
        BY <1>2, NodesAssumption DEF ClientTypes
      <4>2. Cared = (alive \ (raw \cup {o})) \cup {g}
        BY <1>11, <2>2
      <4> QED BY <1>10, <1>13, <3>1, <4>1, <4>2
    <3> QED BY <1>8, <3>3, <3>4, <3>5, <3>6, <3>7, <3>8, Replaces
  <2> QED BY <2>1, <2>2
<1>20. LeadsToCared'
  <2> SUFFICES ASSUME NEW CONSTANT k \in live PROVE GetPointer(k)' \in Cared' \cup {Null}
    BY <1>8 DEF LeadsToCared
  <2>1. CASE k \in N
    BY <1>10, <1>13, <1>14, <2>1
  <2>2. CASE k \notin N
    <3>1. GetPointer(k) \in Cared \cup {Null}
      BY DEF Coherent, CareSound, LeadsToCared
    <3> QED BY <1>11, <1>13, <1>14, <2>2, <3>1
  <2> QED BY <2>1, <2>2
<1>21. SettingSound'
  BY <1>12 DEF SettingSound, NothingSet, NothingToSet
<1> QED BY <1>8, <1>14, <1>19, <1>20, <1>21 DEF Coherent, CareSound

LEMMA ResetAllShared ==
  ASSUME Inv, Inv', WellUsed, Coherent, NEW t \in Threads, NEW p \in Pointers,
         NEW o \in Objects \cup {Null}, ResetAll(t, p, o)
  PROVE  SharedStep /\ Coherent'
<1>1. /\ "reset" \in cond.calls /\ Usable(t, p) /\ GetPointer(p) # o /\ ~HasStrong(p)
      /\ o \in FreshObjects \cup raw \cup {Null}
      /\ alive' = (alive \ {GetPointer(p)}) \cup ({o} \ {Null}) /\ raw' = raw \ {o}
      /\ stack' = [stack EXCEPT ![t] = <<Frame("members", p, p, GetPointer(p)),
                                         Frame("set", p, p, o)>>]
      /\ UNCHANGED <<block, info, pointer, prev, next, cond, live, twins>>
  BY DEF ResetAll, MayReset, countVars, linkVars
<1>2. Idle(t) /\ p \in cond.pointers /\ User[p] = t /\ p \in live /\ p \in Nodes
  BY <1>1, UsableMeans DEF Inv
<1>3. PICK g \in Objects \cup {Null} : g = GetPointer(p)
  BY <1>2, PointerOf
<1>4. PICK f : f = Frame("members", p, p, g)
  OBVIOUS
<1>5. PICK h : h = Frame("set", p, p, o)
  OBVIOUS
<1>6. f.at = "members" /\ h.at = "set" /\ h.node = p /\ h.obj = o
  BY <1>4, <1>5 DEF Frame
<1>7. /\ stack'[t] = <<f, h>> /\ \A s \in Threads : s # t => stack'[s] = stack[s]
  BY <1>1, <1>3, <1>4, <1>5 DEF Inv, Sound, ClientTypes
<1>8. /\ Len(stack'[t]) = 2 /\ stack'[t][1] = f /\ stack'[t][2] = h
  BY <1>7
<1>9. \A k : GetPointer(k)' = GetPointer(k)
  BY <1>1, SamePointers
<1>10. ResetStep(t, p)
  <2>1. t \notin live
    BY <1>2, NoTemporary DEF Inv
  <2> QED BY <1>1, <1>2, <1>6, <1>7, <1>8, <2>1
          DEF ResetStep, Ends, DoomedBy, Deleting, Top, CountedOff
<1>11. /\ ~cond.links /\ live \subseteq Nodes
       /\ TwinsSound' /\ CyclesSound' /\ DeletingSound'
       /\ Doomed = {} /\ Doomed' = {}
       /\ \A x : LeadTo(x) = {k \in live : GetPointer(k) = x}
       /\ \A x : LeadTo(x)' = {k \in live : GetPointer(k)' = x}
       /\ \A k \in live : k \in StrongNodes' <=> k \in StrongNodes
       /\ \A s \in Threads : s # t => NothingToSet(s) /\ NothingToSet(s)'
  BY <1>10, ResetMeans
<1>12. Cared = alive \ raw
  <2>1. NothingToSet(t)
    BY <1>2, NothingSetMeans
  <2> QED BY <1>11, <2>1, CaredMeans DEF NothingSet
<1>13. Replacing' = {h}
  <2>1. \A e : e \in Replacing' <=>
          /\ e.at = "set"
          /\ \E s \in Threads : \E i \in 1 .. Len(stack'[s]) : e = stack'[s][i]
    BY DEF Replacing, Frames
  <2>2. h \in Replacing'
    <3>1. 2 \in 1 .. Len(stack'[t])
      BY <1>8
    <3> QED BY <1>6, <1>8, <2>1, <3>1
  <2>3. ASSUME NEW CONSTANT e, e \in Replacing' PROVE e = h
    <3>1. PICK s \in Threads : \E i \in 1 .. Len(stack'[s]) : e = stack'[s][i]
      BY <2>1, <2>3
    <3>2. e.at = "set"
      BY <2>1, <2>3
    <3>3. s = t
      BY <1>11, <3>1, <3>2 DEF NothingToSet
    <3>4. PICK i \in 1 .. Len(stack'[t]) : e = stack'[t][i]
      BY <3>1, <3>3
    <3>5. i = 1 \/ i = 2
      BY <1>8
    <3> QED BY <1>6, <1>8, <3>2, <3>4, <3>5
  <2> HIDE DEF Replacing
  <2> QED BY <2>2, <2>3
<1>14. g \in (alive \ raw) \cup {Null}
  BY <1>2, <1>3, <1>12 DEF Coherent, CareSound, LeadsToCared
<1>15. o \notin alive \ raw
  BY <1>1, NodesAssumption DEF FreshObjects, Inv, Sound, ClientTypes
<1>16. Cared' = Cared
  <2>1. Cared' = (alive' \ (raw' \cup {e.obj : e \in Replacing}'))
                   \cup ({GetPointer(e.node) : e \in Replacing}' \ {Null})
    <3> HIDE DEF Replacing
    <3> QED BY DEF Cared
  <2>2. {e.obj : e \in Replacing}' = {o}
    <3> HIDE DEF Replacing
    <3> QED BY <1>6, <1>13
  <2>3. {GetPointer(e.node) : e \in Replacing}' = {g}
    <3>1. GetPointer(h.node)' = g
      BY <1>3, <1>6, <1>9
    <3>2. \A e \in Replacing' : GetPointer(e.node)' = g
      BY <1>13, <3>1
    <3>3. h \in Replacing'
      BY <1>13
    <3> HIDE DEF Replacing
    <3> QED BY <3>1, <3>2, <3>3
  <2>4. Cared' = (((alive \ {g}) \cup ({o} \ {Null})) \ ((raw \ {o}) \cup {o})) \cup ({g} \ {Null})
    BY <1>1, <1>3, <2>1, <2>2, <2>3
  <2>5. Null \notin alive
    BY NodesAssumption DEF Inv, Sound, ClientTypes
  <2> HIDE DEF Cared
  <2> QED BY <1>12, <1>14, <1>15, <2>4, <2>5
<1>17. SharedStep
  <2>1. \A x \in Objects : Same(x)
    <3> SUFFICES ASSUME NEW CONSTANT x \in Objects PROVE Same(x)
      OBVIOUS
    <3>1. LeadTo(x)' = LeadTo(x) /\ \A k \in LeadTo(x) : k \in live
      <4> HIDE DEF LeadTo, StrongNodes
      <4> QED BY <1>9, <1>11
    <3> HIDE DEF LeadTo, StrongNodes
    <3> QED BY <1>11, <3>1 DEF Same, StrongTo, WeakTo
  <2> HIDE DEF Cared, Doomed, Same
  <2> QED BY <1>11, <1>16, <2>1, NothingNew
<1>18. LeadsToCared'
  <2> HIDE DEF Cared
  <2> QED BY <1>1, <1>9, <1>16 DEF Coherent, CareSound, LeadsToCared
<1>19. SettingSound'
  <2>1. SettingOK(h)'
    <3>1. info[block[p]].strong \in Nat
      BY <1>2, <1>11, LeadsOfBlock, BlockSays DEF Inv, Sound, CountsAreSound
    <3>2. info[block[p]].strong = 0
      BY <1>1, <1>11, <3>1 DEF HasStrong, CountsStrong
    <3>3. g \notin alive' /\ g # o
      BY <1>1, <1>3, <1>14, NodesAssumption DEF Inv, Sound, ClientTypes
    <3>4. o # Null => o \in alive' \ raw'
      BY <1>1
    <3>5. o # Null => \A k \in live : GetPointer(k) # o
      BY <1>12, <1>15 DEF Coherent, CareSound, LeadsToCared
    <3> QED BY <1>1, <1>3, <1>6, <1>9, <3>2, <3>3, <3>4, <3>5 DEF SettingOK
  <2> HIDE DEF Replacing, SettingOK
  <2> QED BY <1>13, <2>1, SettingLater
<1> QED BY <1>1, <1>11, <1>17, <1>18, <1>19, PolicyStays DEF Coherent, CareSound

-----------------------------------------------------------------------------
(* All steps.                                                              *)

LEMMA NothingHappens ==
  ASSUME Inv, Inv', WellUsed, Coherent, UNCHANGED vars
  PROVE  SharedStep /\ Coherent'
<1>1. UNCHANGED <<block, info, pointer, prev, next, cond, live, alive, raw, twins, stack>>
  BY DEF vars
<1>2. Frames' = Frames
  BY <1>1 DEF Frames
<1>3. /\ Replacing' = Replacing /\ Leaving' = Leaving
      /\ \A s \in Threads : Idle(s)' = Idle(s) /\ Top(s)' = Top(s)
  BY <1>1, <1>2 DEF Replacing, Leaving, Idle, Top
<1>4. \A m : GetPointer(m)' = GetPointer(m)
  BY <1>1, SamePointers
<1>5. Cared' = Cared
  BY <1>1, <1>3, <1>4, CaredStays
<1>6. Doomed' = Doomed
  <2>1. \A s \in Threads : \A x : DoomedBy(s, x)' <=> DoomedBy(s, x)
    BY <1>1 DEF DoomedBy, Idle, Top, CountsPointer, CountsStrong
  <2>2. \A x : x \in Doomed <=> x \in Objects /\ \E s \in Threads : DoomedBy(s, x)
    BY DoomedMeans DEF DoomedByThreads, Inv, Sound
  <2>3. \A x : x \in Doomed' <=> x \in Objects /\ \E s \in Threads : DoomedBy(s, x)'
    BY DoomedLater DEF DoomedByThreads, Inv, Sound
  <2> HIDE DEF Doomed, DoomedBy
  <2> QED BY <2>1, <2>2, <2>3
<1>7. SharedStep
  <2>1. StrongNodes' = StrongNodes
    BY <1>1 DEF StrongNodes, Idle
  <2>2. \A x \in Objects : Same(x)
    <3> SUFFICES ASSUME NEW CONSTANT x \in Objects PROVE Same(x)
      OBVIOUS
    <3>1. LeadTo(x)' = LeadTo(x)
      <4> HIDE DEF Leaving
      <4> QED BY <1>1, <1>3, <1>4 DEF LeadTo
    <3> HIDE DEF LeadTo, StrongNodes
    <3> QED BY <2>1, <3>1 DEF Same, StrongTo, WeakTo
  <2> HIDE DEF Cared, Doomed, Same
  <2> QED BY <1>5, <1>6, <2>2, NothingNew
<1>8. LeadsToCared'
  <2> HIDE DEF Cared
  <2> QED BY <1>1, <1>4, <1>5 DEF Coherent, CareSound, LeadsToCared
<1>9. DeletingSound'
  <2>1. \A s \in Threads : \A x : Deleting(s, x)' <=> Deleting(s, x)
    BY <1>3 DEF Deleting
  <2> HIDE DEF Deleting
  <2> QED BY <1>1, <1>4, <2>1 DEF Coherent, CareSound, DeletingSound
<1>10. SettingSound'
  <2> SUFFICES ASSUME NEW CONSTANT f, f \in Replacing PROVE SettingOK(f)'
    BY <1>3, SettingLater
  <2>1. SettingOK(f)
    BY SettingIs DEF Coherent, CareSound
  <2> QED BY <1>1, <1>4, <2>1 DEF SettingOK
<1>11. TwinsSound'
  <2>1. \A s \in Threads : ~Idle(s)' => KnownIn(s)'
    <3> SUFFICES ASSUME NEW s \in Threads, ~Idle(s)' PROVE KnownIn(s)'
      OBVIOUS
    <3>1. KnownIn(s)
      BY <1>3 DEF Coherent, TwinsSound
    <3>2. PICK k : k = Top(s).node
      OBVIOUS
    <3> QED BY <1>1, <1>3, <1>4, <3>1, <3>2 DEF KnownIn, Known
  <2> QED BY <1>1, <2>1 DEF Coherent, TwinsSound
<1> QED BY <1>1, <1>7, <1>8, <1>9, <1>10, <1>11, PolicyStays DEF Coherent, CareSound

LEMMA InitCoherent == Init => Shared!Init /\ Coherent
<1> SUFFICES ASSUME Init PROVE Shared!Init /\ Coherent
  OBVIOUS
<1>1. /\ live = {} /\ alive = {} /\ raw = {} /\ twins = {}
      /\ \A t \in Threads : Idle(t) /\ Len(stack[t]) = 0
  BY DEF Init, Idle
<1>2. Frames = {}
  BY <1>1 DEF Frames
<1>3. Replacing = {} /\ Doomed = {} /\ \A x : LeadTo(x) = {}
  BY <1>1, <1>2 DEF Replacing, Doomed, LeadTo
<1>4. Cared = {}
  <2> HIDE DEF Replacing
  <2> QED BY <1>1, <1>3 DEF Cared
<1>5. Shared!Init
  <2> HIDE DEF Replacing, Doomed, LeadTo, Cared
  <2>1. Shared!Init <=> /\ Cared = {} /\ Doomed = {}
                        /\ [o \in Objects |-> LeadTo(o) \cap StrongNodes] = [o \in Objects |-> {}]
                        /\ [o \in Objects |-> LeadTo(o) \ StrongNodes] = [o \in Objects |-> {}]
    BY DEF Shared!Init, Cared
  <2> QED BY <1>3, <1>4, <2>1
<1>6. CareSound
  BY <1>1 DEF CareSound, LeadsToCared, DeletingSound, Deleting, SettingSound
<1>7. TwinsSound /\ BlocksSound
  BY <1>1 DEF TwinsSound, BlocksSound
<1>8. CyclesSound
  BY <1>1 DEF CyclesSound, OneCycle, Linked
<1> QED BY <1>5, <1>6, <1>7, <1>8 DEF Coherent

LEMMA NextCoherent == WellUsed /\ Inv /\ Coherent /\ [Next]_vars => SharedStep /\ Coherent'
<1> SUFFICES ASSUME WellUsed, Inv, Coherent, [Next]_vars PROVE SharedStep /\ Coherent'
  OBVIOUS
<1>1. Inv'
  BY NextInv
<1> HIDE DEF Coherent, SharedStep, Inv, WellUsed
<1>2. ASSUME NEW t \in Threads, Call(t) PROVE SharedStep /\ Coherent'
  <2>1. ASSUME NEW p \in Pointers,
               \/ ConstructNull(t, p) \/ Destroy(t, p) \/ ReleaseAll(t, p)
               \/ \E o \in Objects : Construct(t, p, o)
               \/ \E o \in Objects \cup {Null} : AssignRaw(t, p, o) \/ ResetAll(t, p, o)
        PROVE  SharedStep /\ Coherent'
    BY <1>1, <2>1, ConstructNullShared, DestroyShared, ReleaseAllShared, ConstructShared,
       AssignRawShared, ResetAllShared
  <2>2. ASSUME NEW p \in Pointers, NEW q \in Pointers,
               \/ Copy(t, p, q) \/ Twin(t, p, q) \/ Merge(t, p, q)
               \/ Assign(t, p, q) \/ Swap(t, p, q)
               \/ \E isNull \in BOOLEAN : CastFrom(t, p, q, isNull)
        PROVE  SharedStep /\ Coherent'
    BY <1>1, <2>2, CopyShared, TwinShared, MergeShared, AssignShared, SwapShared, CastFromShared
  <2> QED BY <1>2, <2>1, <2>2 DEF Call
<1>3. ASSUME NEW t \in Threads, Proceed(t) PROVE SharedStep /\ Coherent'
  <2>1. SwapTemporary(t) \/ ReleaseStrong(t) \/ ReleaseWeak(t) \/ Recheck(t) \/ Get(t) \/ Zap(t)
          => SharedStep /\ Coherent'
    BY <1>1, SwapTemporaryShared, ReleaseStrongShared, ReleaseWeakShared, RecheckShared,
       GetShared, ZapShared
  <2>2. Clear(t) \/ ReleaseLink(t) \/ Delete(t) \/ DestroyMember(t) \/ Set(t)
          => SharedStep /\ Coherent'
    BY <1>1, ClearShared, ReleaseLinkShared, DeleteShared, DestroyMemberShared, SetShared
  <2> QED BY <1>3, <2>1, <2>2 DEF Proceed
<1>4. CASE UNCHANGED vars
  BY <1>1, <1>4, NothingHappens
<1> QED BY <1>2, <1>3, <1>4 DEF Next

(* Strong and weak pointers of both policies do what SharedObjects         *)
(* promises: each step of a call is one of its steps, or leaves alone      *)
(* which objects live, which are doomed and which pointers lead to them.   *)
THEOREM RefinementTheorem == WellUsed => (Spec => ImplementsShared)
<1> SUFFICES ASSUME WellUsed PROVE Spec => ImplementsShared
  OBVIOUS
<1>1. Inv /\ Coherent /\ [Next]_vars => Inv' /\ Coherent'
  BY NextInv, NextCoherent
<1>2. Inv /\ Coherent /\ [Next]_vars => [Shared!Next]_(Shared!vars)
  <2>1. SharedStep => [Shared!Next]_(Shared!vars)
    BY DEF SharedStep, sharedVars, Shared!vars, StrongTo, WeakTo, Cared
  <2> QED BY <2>1, NextCoherent
<1>3. Init => Inv /\ Shared!Init /\ Coherent
  BY InitInv, InitCoherent
<1> QED BY <1>1, <1>2, <1>3, PTL DEF Spec, ImplementsShared, Shared!Spec
=============================================================================
