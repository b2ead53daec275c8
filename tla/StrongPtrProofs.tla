--------------------------- MODULE StrongPtrProofs ---------------------------
(***************************************************************************)
(* Theorems about strong pointers, for any number of pointers, objects and *)
(* threads and both ownership policies.                                    *)
(***************************************************************************)
EXTENDS StrongPtr, SequenceTheorems, FiniteSetTheorems, WellFoundedInduction, TLAPS

-----------------------------------------------------------------------------
(* The inductive invariant.                                                *)

(* Labels of a frame whose node has been counted off, or is to be.         *)
CountedOff == {"recheck", "get", "zap", "clear"}
Going == CountedOff \cup {"release"}
Labels == Going \cup {"swap", "delete", "members", "set"}

FrameType ==
  [at : Labels, node : Nodes, as : Pointers, obj : Objects \cup {Null}]
InfoType ==
  [used : BOOLEAN, pointer : Objects \cup {Null}, strong : Int, weak : Int]

CountTypes == block \in [Nodes -> {0} \cup Blocks] /\ info \in [Blocks -> InfoType]

LinkTypes ==
  /\ pointer \in [Nodes -> Objects \cup {Null}]
  /\ prev \in [Nodes -> Nodes \cup {Null}]
  /\ next \in [Nodes -> Nodes \cup {Null}]

ClientTypes ==
  /\ cond \in Conditions
  /\ live \subseteq Nodes /\ live \cap Pointers \subseteq cond.pointers
  /\ alive \subseteq Objects /\ raw \subseteq Objects
  /\ stack \in [Threads -> Seq(FrameType)]

Top(t) == stack[t][1]

(* A frame of thread t: a node is destroyed by the thread that uses it.    *)
(* Only the innermost frame is about pointers, those below wait in a       *)
(* destructor, or for the setting of a new object.                         *)
FrameOK(t, f, innermost, outermost) ==
  /\ f.as \in cond.pointers /\ User[f.as] = t
  /\ f.node = f.as \/ (f.node = t /\ outermost)
  /\ ~innermost => f.at \in {"members", "set"}
  /\ ~outermost /\ f.at # "members" => "members" \in cond.calls
  /\ f.at \in {"swap", "set"} => outermost /\ f.node = f.as /\ f.as \in live
  /\ f.at = "set" => "reset" \in cond.calls
  /\ f.at \in Going => f.node \in live
  /\ f.at \in CountedOff => ~cond.links
  /\ f.at = "recheck" => f.as \notin Strong

StacksAreSound ==
  \A t \in Threads : \A i \in 1 .. Len(stack[t]) :
    FrameOK(t, stack[t][i], i = 1, i = Len(stack[t]))

(* A temporary lives while it is to be swapped or destroyed.               *)
TemporariesAreSound ==
  \A t \in Threads :
    t \in live <=> /\ Len(stack[t]) = 1
                   /\ \/ Top(t).at = "swap"
                      \/ Top(t).node = t /\ Top(t).at \in Going

(* What the steps of a destructor have found out remains so.               *)
FoundOut(t) ==
  LET i == info[block[Top(t).node]] IN
  /\ Top(t).at \in {"get", "zap", "clear"} => i.strong = 0
  /\ Top(t).at = "clear" => i.weak > 0
  /\ Top(t).at \in {"zap", "clear"} => i.pointer = Top(t).obj

(* Node n is being destroyed by thread t and has been counted off.         *)
Ends(t, n) == ~Idle(t) /\ Top(t).at \in CountedOff /\ Top(t).node = n

(* No two destructors have found themselves the last one of an object.     *)
LastOnesDiffer ==
  \A s, t \in Threads : \A n, m \in Nodes :
    Ends(s, n) /\ Ends(t, m) /\ block[n] = block[m] => s = t

CountsAreSound ==
  ~cond.links =>
    /\ CountsAgree
    /\ \A n \in Nodes : block[n] # 0 <=> n \in live
    /\ \A t \in Threads : ~Idle(t) => FoundOut(t)
    /\ LastOnesDiffer

LinksAreSound == cond.links => LinksAgree

Sound == ClientTypes /\ StacksAreSound /\ TemporariesAreSound

Inv == CountTypes /\ LinkTypes /\ Sound /\ CountsAreSound /\ LinksAreSound

(* The thread that may destroy a node.                                     *)
Owner(n) == IF n \in Pointers THEN User[n] ELSE n

-----------------------------------------------------------------------------
(* Stacks.                                                                 *)

LEMMA PushMeans ==
  ASSUME NEW S, NEW s \in Seq(S), NEW f \in S
  PROVE  /\ <<f>> \o s \in Seq(S) /\ Len(<<f>> \o s) = Len(s) + 1
         /\ (<<f>> \o s)[1] = f
         /\ \A i \in 1 .. Len(s) : (<<f>> \o s)[i + 1] = s[i]
<1>1. <<f>> \in Seq(S) /\ Len(<<f>>) = 1 /\ <<f>>[1] = f
  OBVIOUS
<1> DEFINE g == <<f>>
<1>2. g \in Seq(S) /\ Len(g) = 1 /\ g[1] = f
  BY <1>1
<1> HIDE DEF g
<1>3. /\ g \o s \in Seq(S) /\ Len(g \o s) = Len(g) + Len(s)
      /\ \A i \in 1 .. Len(g) + Len(s) :
           (g \o s)[i] = IF i <= Len(g) THEN g[i] ELSE s[i - Len(g)]
  BY <1>2, ConcatProperties
<1>4. Len(s) \in Nat
  BY LenProperties
<1>5. (g \o s)[1] = f
  BY <1>2, <1>3, <1>4
<1>6. ASSUME NEW i \in 1 .. Len(s) PROVE (g \o s)[i + 1] = s[i]
  <2>1. i + 1 \in 1 .. Len(g) + Len(s) /\ ~(i + 1 <= Len(g)) /\ (i + 1) - Len(g) = i
    BY <1>2, <1>4
  <2> QED BY <1>3, <2>1
<1> QED BY <1>2, <1>3, <1>4, <1>5, <1>6 DEF g

LEMMA TailMeans ==
  ASSUME NEW S, NEW s \in Seq(S), s # <<>>
  PROVE  /\ Tail(s) \in Seq(S) /\ Len(Tail(s)) = Len(s) - 1
         /\ Len(s) \in Nat /\ Len(s) >= 1 /\ s[1] \in S
         /\ \A i \in 1 .. Len(s) - 1 : Tail(s)[i] = s[i + 1]
BY HeadTailProperties, LenProperties, EmptySeq, ElementOfSeq

LEMMA BecomesMeans ==
  ASSUME NEW S, NEW s \in Seq(S), NEW f \in S, s # <<>>
  PROVE  /\ <<f>> \o Tail(s) \in Seq(S) /\ Len(<<f>> \o Tail(s)) = Len(s)
         /\ (<<f>> \o Tail(s))[1] = f
         /\ \A i \in 2 .. Len(s) : (<<f>> \o Tail(s))[i] = s[i]
<1>1. /\ Tail(s) \in Seq(S) /\ Len(Tail(s)) = Len(s) - 1
      /\ Len(s) \in Nat /\ Len(s) >= 1
      /\ \A i \in 1 .. Len(s) - 1 : Tail(s)[i] = s[i + 1]
  BY TailMeans
<1> DEFINE r == Tail(s)
<1>2. r \in Seq(S) /\ Len(r) = Len(s) - 1 /\ \A i \in 1 .. Len(s) - 1 : r[i] = s[i + 1]
  BY <1>1
<1> HIDE DEF r
<1>3. /\ <<f>> \o r \in Seq(S) /\ Len(<<f>> \o r) = Len(r) + 1
      /\ (<<f>> \o r)[1] = f
      /\ \A i \in 1 .. Len(r) : (<<f>> \o r)[i + 1] = r[i]
  BY <1>2, PushMeans
<1>4. ASSUME NEW i \in 2 .. Len(s) PROVE (<<f>> \o r)[i] = s[i]
  <2>1. i - 1 \in 1 .. Len(r) /\ i - 1 \in 1 .. Len(s) - 1 /\ (i - 1) + 1 = i
    BY <1>1, <1>2
  <2> QED BY <1>2, <1>3, <2>1
<1> QED BY <1>1, <1>2, <1>3, <1>4 DEF r

LEMMA Frame1 ==
  ASSUME ClientTypes, NEW t \in Threads, ~Idle(t)
  PROVE  /\ stack[t] \in Seq(FrameType) /\ stack[t] # <<>>
         /\ Len(stack[t]) \in Nat /\ Len(stack[t]) >= 1
         /\ 1 \in 1 .. Len(stack[t]) /\ Top(t) \in FrameType
         /\ Top(t).at \in Labels /\ Top(t).node \in Nodes
         /\ Top(t).as \in Pointers /\ Top(t).obj \in Objects \cup {Null}
<1>1. stack[t] \in Seq(FrameType) /\ stack[t] # <<>>
  BY DEF ClientTypes, Idle
<1>2. Len(stack[t]) \in Nat /\ Len(stack[t]) >= 1 /\ Top(t) \in FrameType
  BY <1>1, TailMeans DEF Top
<1> QED BY <1>1, <1>2 DEF FrameType

LEMMA TopIsSound ==
  ASSUME ClientTypes, StacksAreSound, NEW t \in Threads, ~Idle(t)
  PROVE  FrameOK(t, Top(t), TRUE, Len(stack[t]) = 1)
<1>1. 1 \in 1 .. Len(stack[t])
  BY Frame1
<1>2. FrameOK(t, stack[t][1], 1 = 1, 1 = Len(stack[t]))
  BY <1>1 DEF StacksAreSound
<1> QED BY <1>2 DEF FrameOK, Top

LEMMA OwnersDestroy ==
  ASSUME ClientTypes, StacksAreSound, NEW t \in Threads, NEW i \in 1 .. Len(stack[t])
  PROVE  /\ stack[t][i] \in FrameType
         /\ Owner(stack[t][i].node) = t /\ Owner(stack[t][i].as) = t
         /\ stack[t][i].node \in Nodes /\ stack[t][i].as \in Pointers
<1>1. stack[t] \in Seq(FrameType)
  BY DEF ClientTypes
<1>2. stack[t][i] \in FrameType
  BY <1>1, ElementOfSeq
<1>3. FrameOK(t, stack[t][i], i = 1, i = Len(stack[t]))
  BY DEF StacksAreSound
<1> QED BY <1>2, <1>3, NodesAssumption DEF FrameType, FrameOK, Owner, Nodes

FramesAreOwned ==
  \A t \in Threads : \A i \in 1 .. Len(stack[t]) : Owner(stack[t][i].node) = t

LEMMA FramesOwned == Sound => FramesAreOwned
BY OwnersDestroy DEF FramesAreOwned, Sound

LEMMA OwnersLater == Sound' => FramesAreOwned'
BY FramesOwned, PTL

(* A frame of another thread is not concerned by what happens to nodes of  *)
(* this one.                                                               *)
LEMMA OthersFrames ==
  ASSUME ClientTypes, StacksAreSound, NEW t \in Threads, cond' = cond,
         \A n \in live : Owner(n) # t => n \in live',
         NEW s \in Threads, s # t, stack'[s] = stack[s],
         NEW i \in 1 .. Len(stack'[s])
  PROVE  FrameOK(s, stack[s][i], i = 1, i = Len(stack[s]))'
<1>1. i \in 1 .. Len(stack[s])
  OBVIOUS
<1>2. FrameOK(s, stack[s][i], i = 1, i = Len(stack[s]))
  BY <1>1 DEF StacksAreSound
<1>3. Owner(stack[s][i].node) = s /\ Owner(stack[s][i].as) = s
  BY <1>1, OwnersDestroy
<1> DEFINE f == stack[s][i]
<1>4. f' = f
  OBVIOUS
<1>5. f.node \in live => f.node \in live'
  BY <1>3
<1>6. f.as \in live => f.as \in live'
  BY <1>3
<1> QED BY <1>2, <1>4, <1>5, <1>6 DEF FrameOK

LEMMA StacksKeep ==
  ASSUME ClientTypes, StacksAreSound, NEW t \in Threads, cond' = cond,
         \A n \in live : Owner(n) # t => n \in live',
         \A s \in Threads : s # t => stack'[s] = stack[s],
         \A i \in 1 .. Len(stack'[t]) :
           FrameOK(t, stack[t][i], i = 1, i = Len(stack[t]))'
  PROVE  StacksAreSound'
BY OthersFrames DEF StacksAreSound

(* A frame below the innermost one, which may become that.                 *)
LEMMA LowerFrames ==
  ASSUME ClientTypes, StacksAreSound, WellUsed, NEW t \in Threads, ~Idle(t), cond' = cond,
         live \ live' \subseteq {Top(t).node},
         live \subseteq live' \/ Top(t).at \in Going,
         NEW i \in 2 .. Len(stack[t]),
         NEW CONSTANT f, f = stack[t][i], NEW CONSTANT first \in BOOLEAN,
         NEW CONSTANT last \in BOOLEAN, last <=> i = Len(stack[t])
  PROVE  FrameOK(t, f, first, last)'
<1>1. i \in 1 .. Len(stack[t]) /\ i # 1 /\ Len(stack[t]) # 1
  <2>1. Len(stack[t]) \in Nat
    BY Frame1
  <2> QED BY <2>1
<1>2. FrameOK(t, f, FALSE, last)
  BY <1>1 DEF StacksAreSound, FrameOK
<1>3. FrameOK(t, Top(t), TRUE, Len(stack[t]) = 1)
  BY TopIsSound
<1>4. UsedWell(cond)
  BY DEF WellUsed, ClientTypes
<1>5. ASSUME f.at = "set" PROVE f.as \in live'
  <2>1. "reset" \in cond.calls /\ f.as \in live
    BY <1>2, <1>5 DEF FrameOK
  <2>2. "members" \notin cond.calls
    BY <2>1, <1>4 DEF UsedWell
  <2>3. Top(t).at \notin Going
    BY <1>1, <1>3, <2>2 DEF FrameOK, Going, CountedOff
  <2> QED BY <2>1, <2>3
<1>6. f.at \in {"members", "set"}
  BY <1>2 DEF FrameOK
<1> QED BY <1>2, <1>5, <1>6 DEF FrameOK, Going, CountedOff

LEMMA StacksBecome ==
  ASSUME ClientTypes, StacksAreSound, WellUsed, NEW t \in Threads, ~Idle(t), cond' = cond,
         live \ live' \subseteq {Top(t).node},
         live \subseteq live' \/ Top(t).at \in Going,
         NEW CONSTANT f \in FrameType, Becomes(t, f),
         NEW CONSTANT last \in BOOLEAN, last <=> Len(stack[t]) = 1,
         FrameOK(t, f, TRUE, last)'
  PROVE  /\ StacksAreSound' /\ stack' \in [Threads -> Seq(FrameType)]
         /\ \A s \in Threads : s # t => stack'[s] = stack[s]
         /\ Len(stack'[t]) = Len(stack[t]) /\ stack'[t][1] = f
         /\ \A i \in 2 .. Len(stack[t]) : stack'[t][i] = stack[t][i]
<1>1. /\ stack[t] \in Seq(FrameType) /\ stack[t] # <<>> /\ Len(stack[t]) \in Nat
      /\ Len(stack[t]) >= 1
  BY Frame1
<1>2. /\ <<f>> \o Tail(stack[t]) \in Seq(FrameType)
      /\ Len(<<f>> \o Tail(stack[t])) = Len(stack[t])
      /\ (<<f>> \o Tail(stack[t]))[1] = f
      /\ \A i \in 2 .. Len(stack[t]) : (<<f>> \o Tail(stack[t]))[i] = stack[t][i]
  BY <1>1, BecomesMeans
<1>3. /\ stack'[t] = <<f>> \o Tail(stack[t])
      /\ stack' \in [Threads -> Seq(FrameType)]
      /\ \A s \in Threads : s # t => stack'[s] = stack[s]
  BY <1>2 DEF Becomes, ClientTypes
<1>4. /\ Len(stack'[t]) = Len(stack[t]) /\ stack'[t][1] = f
      /\ \A i \in 2 .. Len(stack[t]) : stack'[t][i] = stack[t][i]
  BY <1>2, <1>3
<1>5. ASSUME NEW i \in 1 .. Len(stack'[t])
      PROVE  FrameOK(t, stack[t][i], i = 1, i = Len(stack[t]))'
  <2>1. CASE i = 1
    <3>1. stack'[t][i] = f /\ (i = Len(stack'[t]) <=> last)
      BY <1>4, <2>1
    <3> QED BY <2>1, <3>1 DEF FrameOK
  <2>2. CASE i # 1
    <3>1. i \in 2 .. Len(stack[t]) /\ stack'[t][i] = stack[t][i]
      BY <1>1, <1>4, <2>2
    <3>2. PICK g : g = stack[t][i]
      OBVIOUS
    <3>3. PICK o \in BOOLEAN : o <=> i = Len(stack[t])
      OBVIOUS
    <3>4. FrameOK(t, g, FALSE, o)'
      BY <3>1, <3>2, <3>3, LowerFrames
    <3>5. (i = Len(stack'[t])) <=> o
      BY <1>4, <3>3
    <3> QED BY <2>2, <3>1, <3>2, <3>4, <3>5 DEF FrameOK
  <2> QED BY <2>1, <2>2
<1>6. \A n \in live : Owner(n) # t => n \in live'
  <2>1. Owner(Top(t).node) = t
    BY Frame1, OwnersDestroy DEF Top
  <2> QED BY <2>1
<1> QED BY <1>3, <1>4, <1>5, <1>6, StacksKeep

LEMMA StacksDone ==
  ASSUME ClientTypes, StacksAreSound, WellUsed, NEW t \in Threads, ~Idle(t), cond' = cond,
         live \ live' \subseteq {Top(t).node},
         live \subseteq live' \/ Top(t).at \in Going,
         Done(t)
  PROVE  /\ StacksAreSound' /\ stack' \in [Threads -> Seq(FrameType)]
         /\ \A s \in Threads : s # t => stack'[s] = stack[s]
         /\ Len(stack'[t]) = Len(stack[t]) - 1
         /\ \A i \in 1 .. Len(stack[t]) - 1 : stack'[t][i] = stack[t][i + 1]
         /\ Len(stack[t]) > 1 => /\ stack'[t][1].at \in {"members", "set"}
                                 /\ stack'[t] # <<>>
         /\ Len(stack[t]) = 1 => stack'[t] = <<>>
<1>1. /\ stack[t] \in Seq(FrameType) /\ stack[t] # <<>> /\ Len(stack[t]) \in Nat
      /\ Len(stack[t]) >= 1
  BY Frame1
<1>2. /\ Tail(stack[t]) \in Seq(FrameType)
      /\ Len(Tail(stack[t])) = Len(stack[t]) - 1
      /\ \A i \in 1 .. Len(stack[t]) - 1 : Tail(stack[t])[i] = stack[t][i + 1]
  BY <1>1, TailMeans
<1>3. /\ stack'[t] = Tail(stack[t])
      /\ stack' \in [Threads -> Seq(FrameType)]
      /\ \A s \in Threads : s # t => stack'[s] = stack[s]
  BY <1>2 DEF Done, ClientTypes
<1>4. /\ Len(stack'[t]) = Len(stack[t]) - 1
      /\ \A i \in 1 .. Len(stack[t]) - 1 : stack'[t][i] = stack[t][i + 1]
  BY <1>2, <1>3
<1>5. ASSUME NEW i \in 1 .. Len(stack'[t])
      PROVE  /\ FrameOK(t, stack[t][i], i = 1, i = Len(stack[t]))'
             /\ stack'[t][i].at \in {"members", "set"}
  <2>1. i + 1 \in 2 .. Len(stack[t]) /\ stack'[t][i] = stack[t][i + 1]
    BY <1>1, <1>4
  <2>2. PICK g : g = stack[t][i + 1]
    OBVIOUS
  <2>3. PICK o \in BOOLEAN : o <=> i + 1 = Len(stack[t])
    OBVIOUS
  <2>4. PICK b \in BOOLEAN : b <=> i = 1
    OBVIOUS
  <2>5. FrameOK(t, g, b, o)' /\ FrameOK(t, g, FALSE, o)'
    BY <2>1, <2>2, <2>3, LowerFrames
  <2>6. (i = Len(stack'[t])) <=> o
    BY <1>1, <1>4, <2>3
  <2>7. FrameOK(t, stack[t][i], i = 1, i = Len(stack[t]))'
    BY <2>1, <2>2, <2>4, <2>5, <2>6 DEF FrameOK
  <2> QED BY <2>1, <2>2, <2>5, <2>7 DEF FrameOK
<1>6. \A n \in live : Owner(n) # t => n \in live'
  <2>1. Owner(Top(t).node) = t
    BY Frame1, OwnersDestroy DEF Top
  <2> QED BY <2>1
<1>7. Len(stack[t]) > 1 => stack'[t] # <<>> /\ 1 \in 1 .. Len(stack'[t])
  <2> SUFFICES ASSUME Len(stack[t]) > 1
               PROVE  stack'[t] # <<>> /\ 1 \in 1 .. Len(stack'[t])
    OBVIOUS
  <2>1. Len(stack'[t]) >= 1 /\ Len(stack'[t]) \in Nat
    BY <1>1, <1>4
  <2> QED BY <2>1, EmptySeq
<1>8. ASSUME Len(stack[t]) = 1 PROVE stack'[t] = <<>>
  <2>1. Len(stack'[t]) = 0 /\ stack'[t] \in Seq(FrameType)
    BY <1>2, <1>3, <1>4, <1>8
  <2> QED BY <2>1, EmptySeq
<1> QED BY <1>3, <1>4, <1>5, <1>6, <1>7, <1>8, StacksKeep

LEMMA StacksPush ==
  ASSUME ClientTypes, StacksAreSound, WellUsed, NEW t \in Threads, cond' = cond,
         live \subseteq live',
         ~Idle(t) => Top(t).at \in {"members", "set"},
         NEW CONSTANT f \in FrameType, Push(t, f),
         NEW CONSTANT last \in BOOLEAN, last <=> Idle(t),
         FrameOK(t, f, TRUE, last)'
  PROVE  /\ StacksAreSound' /\ stack' \in [Threads -> Seq(FrameType)]
         /\ \A s \in Threads : s # t => stack'[s] = stack[s]
         /\ Len(stack'[t]) = Len(stack[t]) + 1 /\ stack'[t][1] = f
         /\ stack'[t] # <<>> /\ Len(stack[t]) \in Nat
         /\ \A i \in 1 .. Len(stack[t]) : stack'[t][i + 1] = stack[t][i]
<1>1. stack[t] \in Seq(FrameType) /\ Len(stack[t]) \in Nat
  BY LenProperties DEF ClientTypes
<1>2. /\ <<f>> \o stack[t] \in Seq(FrameType)
      /\ Len(<<f>> \o stack[t]) = Len(stack[t]) + 1
      /\ (<<f>> \o stack[t])[1] = f
      /\ \A i \in 1 .. Len(stack[t]) : (<<f>> \o stack[t])[i + 1] = stack[t][i]
  BY <1>1, PushMeans
<1>3. /\ stack'[t] = <<f>> \o stack[t]
      /\ stack' \in [Threads -> Seq(FrameType)]
      /\ \A s \in Threads : s # t => stack'[s] = stack[s]
  BY <1>2 DEF Push, ClientTypes
<1>4. /\ Len(stack'[t]) = Len(stack[t]) + 1 /\ stack'[t][1] = f
      /\ \A i \in 1 .. Len(stack[t]) : stack'[t][i + 1] = stack[t][i]
  BY <1>2, <1>3
<1>5. Idle(t) <=> Len(stack[t]) = 0
  BY <1>1, EmptySeq DEF Idle
<1>6. ASSUME NEW i \in 1 .. Len(stack'[t])
      PROVE  FrameOK(t, stack[t][i], i = 1, i = Len(stack[t]))'
  <2>1. CASE i = 1
    <3>1. stack'[t][i] = f /\ (i = Len(stack'[t]) <=> last)
      BY <1>1, <1>4, <1>5, <2>1
    <3> QED BY <2>1, <3>1 DEF FrameOK
  <2>2. CASE i # 1
    <3> DEFINE j == i - 1
    <3>1. j \in 1 .. Len(stack[t]) /\ i = j + 1
      BY <1>1, <1>4, <2>2
    <3>2. stack'[t][i] = stack[t][j]
      BY <1>4, <3>1
    <3>3. FrameOK(t, stack[t][j], j = 1, j = Len(stack[t]))
      BY <3>1 DEF StacksAreSound
    <3>4. (i = Len(stack'[t])) <=> (j = Len(stack[t]))
      BY <1>1, <1>4, <3>1
    <3>5. stack[t][j].at \in {"members", "set"}
      <4>1. CASE j = 1
        BY <1>1, <1>5, <3>1, <4>1 DEF Top
      <4>2. CASE j # 1
        BY <3>3, <4>2 DEF FrameOK
      <4> QED BY <4>1, <4>2
    <3> HIDE DEF j
    <3> QED BY <2>2, <3>2, <3>3, <3>4, <3>5 DEF FrameOK, Going, CountedOff
  <2> QED BY <2>1, <2>2
<1>7. stack'[t] # <<>>
  <2>1. Len(stack'[t]) # 0
    BY <1>1, <1>4
  <2> QED BY <2>1, EmptySeq
<1> QED BY <1>1, <1>3, <1>4, <1>6, <1>7, StacksKeep

-----------------------------------------------------------------------------
(* Temporaries, nodes that leave, and the kinds of nodes.                  *)

LEMMA TemporariesKeep ==
  ASSUME TemporariesAreSound, NEW t \in Threads,
         \A s \in Threads : s # t => stack'[s] = stack[s] /\ (s \in live' <=> s \in live),
         t \in live' <=> /\ Len(stack'[t]) = 1
                        /\ \/ stack'[t][1].at = "swap"
                           \/ stack'[t][1].node = t /\ stack'[t][1].at \in Going
  PROVE  TemporariesAreSound'
BY DEF TemporariesAreSound, Top

LeavingNodesEnd == \A n : n \in Leaving <=> \E t \in Threads : Ends(t, n)

LEMMA LeavingMeans == ClientTypes /\ StacksAreSound => LeavingNodesEnd
<1> SUFFICES ASSUME ClientTypes, StacksAreSound PROVE LeavingNodesEnd
  OBVIOUS
<1>1. ASSUME NEW n, n \in Leaving PROVE \E t \in Threads : Ends(t, n)
  <2>1. PICK t \in Threads : \E i \in 1 .. Len(stack[t]) :
          stack[t][i].at \in CountedOff /\ stack[t][i].node = n
    BY <1>1 DEF Leaving, Frames, CountedOff
  <2>2. PICK i \in 1 .. Len(stack[t]) :
          stack[t][i].at \in CountedOff /\ stack[t][i].node = n
    BY <2>1
  <2>3. FrameOK(t, stack[t][i], i = 1, i = Len(stack[t]))
    BY DEF StacksAreSound
  <2>4. i = 1
    BY <2>2, <2>3 DEF FrameOK, CountedOff
  <2>5. stack[t] # <<>>
    BY <2>4, EmptySeq
  <2> QED BY <2>2, <2>4, <2>5 DEF Ends, Idle, Top
<1>2. ASSUME NEW n, NEW t \in Threads, Ends(t, n) PROVE n \in Leaving
  <2>1. 1 \in 1 .. Len(stack[t])
    BY <1>2, Frame1 DEF Ends
  <2>2. stack[t][1] \in Frames
    BY <2>1 DEF Frames
  <2> QED BY <1>2, <2>2 DEF Leaving, Ends, Top, CountedOff
<1> QED BY <1>1, <1>2 DEF LeavingNodesEnd

LEMMA LeavingLater == (ClientTypes /\ StacksAreSound)' => LeavingNodesEnd'
BY LeavingMeans, PTL

LEMMA EndsMeans ==
  ASSUME ClientTypes, StacksAreSound, NEW t \in Threads, NEW n, Ends(t, n)
  PROVE  Owner(n) = t /\ n \in live /\ n \in Nodes /\ ~cond.links
<1>1. 1 \in 1 .. Len(stack[t]) /\ ~Idle(t)
  BY Frame1 DEF Ends
<1> QED BY <1>1, OwnersDestroy, TopIsSound DEF Ends, Top, FrameOK, Going

(* Who leaves after a step of thread t.                                    *)
LEMMA WhoLeaves ==
  ASSUME ClientTypes, StacksAreSound, ClientTypes', StacksAreSound', NEW t \in Threads,
         \A s \in Threads : s # t => stack'[s] = stack[s]
  PROVE  \A n : n \in Leaving' <=> Ends(t, n)' \/ (n \in Leaving /\ Owner(n) # t)
<1>1. \A n : n \in Leaving <=> \E s \in Threads : Ends(s, n)
  BY LeavingMeans DEF LeavingNodesEnd
<1>2. \A n : n \in Leaving' <=> \E s \in Threads : Ends(s, n)'
  BY LeavingLater DEF LeavingNodesEnd
<1>3. \A s \in Threads : \A n : s # t => (Ends(s, n)' <=> Ends(s, n))
  BY DEF Ends, Idle, Top
<1>4. \A s \in Threads : \A n : Ends(s, n) => Owner(n) = s
  BY EndsMeans
<1> HIDE DEF Leaving, Ends
<1> QED BY <1>1, <1>2, <1>3, <1>4

LEMMA SameLeave ==
  ASSUME ClientTypes, StacksAreSound, ClientTypes', StacksAreSound', NEW t \in Threads,
         \A s \in Threads : s # t => stack'[s] = stack[s],
         \A n : Ends(t, n)' <=> Ends(t, n)
  PROVE  Leaving' = Leaving
<1>1. \A n : n \in Leaving' <=> Ends(t, n)' \/ (n \in Leaving /\ Owner(n) # t)
  BY WhoLeaves
<1>2. \A n : n \in Leaving <=> \E s \in Threads : Ends(s, n)
  BY LeavingMeans DEF LeavingNodesEnd
<1>3. \A s \in Threads : \A n : Ends(s, n) => Owner(n) = s
  BY EndsMeans
<1>4. ASSUME NEW n PROVE n \in Leaving' <=> n \in Leaving
  BY <1>1, <1>2, <1>3
<1> QED BY <1>4

(* The kind of a node.                                                     *)
LEMMA KindMeans ==
  \A n : n \in StrongNodes <=>
           \/ n \in Strong
           \/ n \in Threads /\ ~Idle(n) /\ stack[n][Len(stack[n])].as \in Strong
BY DEF StrongNodes

LEMMA KindsStay ==
  ASSUME NEW t \in Threads, \A s \in Threads : s # t => stack'[s] = stack[s]
  PROVE  \A n : n # t => (n \in StrongNodes' <=> n \in StrongNodes)
BY DEF StrongNodes, Idle

(* A node in a frame is of the kind of the pointer the frame is about.     *)
LEMMA KindOfFrame ==
  ASSUME ClientTypes, StacksAreSound, NEW t \in Threads, ~Idle(t)
  PROVE  Top(t).node \in StrongNodes <=> Top(t).as \in Strong
<1>1. FrameOK(t, Top(t), TRUE, Len(stack[t]) = 1) /\ Top(t).as \in Pointers
  BY TopIsSound, Frame1
<1>2. CASE Top(t).node = Top(t).as
  <2>1. Top(t).as \notin Threads
    BY <1>1, NodesAssumption
  <2> QED BY <1>2, <2>1, KindMeans
<1>3. CASE Top(t).node = t /\ Len(stack[t]) = 1
  <2>1. t \notin Strong
    BY NodesAssumption, StrongPtrAssumption
  <2> QED BY <1>3, <2>1, KindMeans DEF Top
<1> QED BY <1>1, <1>2, <1>3 DEF FrameOK

-----------------------------------------------------------------------------
(* Counts.                                                                 *)

Sharing(b) == {n \in live : block[n] = b}
Holders(b) == Sharing(b) \ Leaving
StrongHolders(b) == Holders(b) \cap StrongNodes
WeakHolders(b) == Holders(b) \ StrongNodes

(* What an info block says of the nodes that have it.                      *)
BlockAgrees(b) ==
  /\ info[b].used <=> Sharing(b) # {}
  /\ info[b].strong = Cardinality(StrongHolders(b))
  /\ info[b].weak = Cardinality(WeakHolders(b))

LEMMA CountsMean == CountsAgree <=> \A b \in Blocks : BlockAgrees(b)
BY DEF CountsAgree, BlockAgrees, StrongHolders, WeakHolders, Holders, Sharing

LEMMA HoldersAreFinite ==
  ASSUME ClientTypes, NEW b
  PROVE  /\ IsFiniteSet(Sharing(b))
         /\ IsFiniteSet(StrongHolders(b)) /\ IsFiniteSet(WeakHolders(b))
         /\ Cardinality(StrongHolders(b)) \in Nat
         /\ Cardinality(WeakHolders(b)) \in Nat
<1>1. /\ Sharing(b) \subseteq Nodes /\ StrongHolders(b) \subseteq Nodes
      /\ WeakHolders(b) \subseteq Nodes
  BY DEF ClientTypes, Sharing, StrongHolders, WeakHolders, Holders
<1>2. \A S : S \subseteq Nodes => IsFiniteSet(S)
  BY NodesAssumption, FS_Subset
<1> HIDE DEF Sharing, StrongHolders, WeakHolders
<1> QED BY <1>1, <1>2, FS_CardinalityType

LEMMA OneMoreIn ==
  ASSUME NEW S, IsFiniteSet(S), NEW x, x \notin S
  PROVE  Cardinality(S \cup {x}) = Cardinality(S) + 1
BY FS_AddElement

LEMMA OneLessIn ==
  ASSUME NEW S, IsFiniteSet(S), NEW x, x \in S
  PROVE  Cardinality(S \ {x}) = Cardinality(S) - 1
BY FS_RemoveElement

(* A node gets an info block, as a strong or as a weak one.                *)
LEMMA AttachCounts ==
  ASSUME CountTypes, ClientTypes, CountsAgree, NEW CONSTANT n \in Nodes, n \notin live, n \notin Leaving,
         NEW CONSTANT b \in Blocks, NEW CONSTANT s \in BOOLEAN,
         live' = live \cup {n}, block' = [block EXCEPT ![n] = b],
         Leaving' = Leaving,
         \A m \in live : m \in StrongNodes' <=> m \in StrongNodes,
         n \in StrongNodes' <=> s,
         info'[b].used,
         info'[b].strong = Cardinality(StrongHolders(b)) + One(s),
         info'[b].weak = Cardinality(WeakHolders(b)) + One(~s),
         \A c \in Blocks : c # b => info'[c] = info[c]
  PROVE  CountsAgree'
<1>1. block'[n] = b /\ \A m \in live : block'[m] = block[m]
  BY DEF CountTypes, ClientTypes
<1>2. /\ Sharing(b)' = Sharing(b) \cup {n} /\ n \notin Sharing(b)
      /\ \A c \in Blocks : c # b => Sharing(c)' = Sharing(c)
  BY <1>1 DEF Sharing
<1>3. ASSUME NEW c \in Blocks, c # b PROVE BlockAgrees(c)'
  <2>1. StrongHolders(c)' = StrongHolders(c) /\ WeakHolders(c)' = WeakHolders(c)
    BY <1>2, <1>3 DEF StrongHolders, WeakHolders, Holders, Sharing
  <2> QED BY <1>2, <1>3, <2>1, CountsMean DEF BlockAgrees
<1>4. /\ n \notin StrongHolders(b) /\ n \notin WeakHolders(b)
      /\ s => /\ StrongHolders(b)' = StrongHolders(b) \cup {n}
              /\ WeakHolders(b)' = WeakHolders(b)
      /\ ~s => /\ StrongHolders(b)' = StrongHolders(b)
               /\ WeakHolders(b)' = WeakHolders(b) \cup {n}
  BY <1>2 DEF StrongHolders, WeakHolders, Holders, Sharing
<1>5. /\ s => /\ Cardinality(StrongHolders(b)') = Cardinality(StrongHolders(b)) + 1
              /\ Cardinality(WeakHolders(b)') = Cardinality(WeakHolders(b)) + 0
      /\ ~s => /\ Cardinality(StrongHolders(b)') = Cardinality(StrongHolders(b)) + 0
               /\ Cardinality(WeakHolders(b)') = Cardinality(WeakHolders(b)) + 1
  BY <1>4, HoldersAreFinite, OneMoreIn
<1>6. (s => One(s) = 1 /\ One(~s) = 0) /\ (~s => One(s) = 0 /\ One(~s) = 1)
  BY DEF One
<1>7. BlockAgrees(b)'
  BY <1>2, <1>5, <1>6 DEF BlockAgrees
<1>8. \A c \in Blocks : BlockAgrees(c)'
  BY <1>3, <1>7
<1> QED BY <1>8 DEF CountsAgree, BlockAgrees, StrongHolders, WeakHolders, Holders, Sharing

(* A node is counted off; it keeps its block for a while or loses it.      *)
LEMMA LessCounts ==
  ASSUME CountTypes, ClientTypes, CountsAgree, NEW CONSTANT n \in live, n \notin Leaving,
         NEW CONSTANT b \in Blocks, block[n] = b,
         NEW CONSTANT s \in BOOLEAN, n \in StrongNodes <=> s,
         live' \subseteq live, live \ live' \subseteq {n},
         \A m \in live' : block'[m] = block[m],
         \A m \in live : m # n => (m \in Leaving' <=> m \in Leaving),
         n \in live' => n \in Leaving',
         \A m \in live' : m \in StrongNodes' <=> m \in StrongNodes,
         info' = [info EXCEPT ![b] = Counted(@, s, -1)],
         n \notin live' => \E m \in live' : block[m] = b
  PROVE  /\ CountsAgree'
         /\ info'[b].strong = info[b].strong - One(s)
         /\ info'[b].weak = info[b].weak - One(~s)
         /\ info'[b].pointer = info[b].pointer
         /\ \A c \in Blocks : c # b => info'[c] = info[c]
<1>1. /\ \A c \in Blocks : c # b => Sharing(c)' = Sharing(c)
      /\ Sharing(b)' # {} /\ Sharing(b) # {}
  BY DEF Sharing
<1>2. /\ info'[b].used = info[b].used
      /\ info'[b].strong = info[b].strong + One(s) * (-1)
      /\ info'[b].weak = info[b].weak + One(~s) * (-1)
      /\ info'[b].pointer = info[b].pointer
      /\ \A c \in Blocks : c # b => info'[c] = info[c]
  BY DEF CountTypes, ClientTypes, Counted, InfoType
<1>3. ASSUME NEW c \in Blocks, c # b PROVE BlockAgrees(c)'
  <2>1. StrongHolders(c)' = StrongHolders(c) /\ WeakHolders(c)' = WeakHolders(c)
    BY <1>1, <1>3 DEF StrongHolders, WeakHolders, Holders, Sharing
  <2> QED BY <1>1, <1>2, <1>3, <2>1, CountsMean DEF BlockAgrees
<1>4. /\ s => /\ StrongHolders(b)' = StrongHolders(b) \ {n} /\ n \in StrongHolders(b)
              /\ WeakHolders(b)' = WeakHolders(b)
      /\ ~s => /\ StrongHolders(b)' = StrongHolders(b)
               /\ WeakHolders(b)' = WeakHolders(b) \ {n} /\ n \in WeakHolders(b)
  BY DEF StrongHolders, WeakHolders, Holders, Sharing
<1>5. /\ s => /\ Cardinality(StrongHolders(b)') = Cardinality(StrongHolders(b)) - 1
              /\ Cardinality(WeakHolders(b)') = Cardinality(WeakHolders(b))
      /\ ~s => /\ Cardinality(StrongHolders(b)') = Cardinality(StrongHolders(b))
               /\ Cardinality(WeakHolders(b)') = Cardinality(WeakHolders(b)) - 1
  BY <1>4, HoldersAreFinite, OneLessIn
<1>6. (s => One(s) = 1 /\ One(~s) = 0) /\ (~s => One(s) = 0 /\ One(~s) = 1)
  BY DEF One
<1>7. BlockAgrees(b)
  BY CountsMean
<1>8. info[b].strong \in Nat /\ info[b].weak \in Nat
  BY <1>7, HoldersAreFinite DEF BlockAgrees
<1>9. /\ info'[b].strong = info[b].strong - One(s)
      /\ info'[b].weak = info[b].weak - One(~s)
  BY <1>2, <1>6, <1>8
<1>10. BlockAgrees(b)'
  BY <1>1, <1>2, <1>5, <1>6, <1>7, <1>8, <1>9 DEF BlockAgrees
<1>11. \A c \in Blocks : BlockAgrees(c)'
  BY <1>3, <1>10
<1>12. CountsAgree'
  BY <1>11 DEF CountsAgree, BlockAgrees, StrongHolders, WeakHolders, Holders, Sharing
<1> QED BY <1>2, <1>9, <1>12

(* A node that was counted off loses its block, which goes if it was the   *)
(* only one to share it.                                                   *)
LEMMA GoneCounts ==
  ASSUME CountTypes, ClientTypes, CountsAgree, NEW CONSTANT n \in live, n \in Leaving,
         NEW CONSTANT b \in Blocks, block[n] = b,
         live' = live \ {n}, \A m \in live' : block'[m] = block[m],
         \A m \in live' : m \in Leaving' <=> m \in Leaving,
         \A m \in live' : m \in StrongNodes' <=> m \in StrongNodes,
         info'[b].strong = info[b].strong, info'[b].weak = info[b].weak,
         info'[b].used <=> \E m \in live' : block[m] = b,
         \A c \in Blocks : c # b => info'[c] = info[c]
  PROVE  CountsAgree'
<1>1. /\ \A c \in Blocks : c # b => Sharing(c)' = Sharing(c)
      /\ info'[b].used <=> Sharing(b)' # {}
  BY DEF Sharing
<1>2. \A c \in Blocks : StrongHolders(c)' = StrongHolders(c) /\ WeakHolders(c)' = WeakHolders(c)
  BY DEF StrongHolders, WeakHolders, Holders, Sharing
<1>3. \A c \in Blocks : BlockAgrees(c)'
  BY <1>1, <1>2, CountsMean DEF BlockAgrees
<1> QED BY <1>3 DEF CountsAgree, BlockAgrees, StrongHolders, WeakHolders, Holders, Sharing

LEMMA SameCounts ==
  ASSUME CountTypes, ClientTypes, CountsAgree, live' = live, block' = block,
         \A m \in live : m \in Leaving' <=> m \in Leaving,
         \A m \in live : m \in StrongNodes' <=> m \in StrongNodes,
         \A c \in Blocks : /\ info'[c].used = info[c].used
                           /\ info'[c].strong = info[c].strong
                           /\ info'[c].weak = info[c].weak
  PROVE  CountsAgree'
<1>1. \A c \in Blocks :
        /\ Sharing(c)' = Sharing(c)
        /\ StrongHolders(c)' = StrongHolders(c) /\ WeakHolders(c)' = WeakHolders(c)
  BY DEF StrongHolders, WeakHolders, Holders, Sharing
<1>2. \A c \in Blocks : BlockAgrees(c)'
  BY <1>1, CountsMean DEF BlockAgrees
<1> QED BY <1>2 DEF CountsAgree, BlockAgrees, StrongHolders, WeakHolders, Holders, Sharing

(* Two nodes of one kind change their blocks.                              *)
LEMMA SwapCounts ==
  ASSUME CountTypes, ClientTypes, CountsAgree, NEW CONSTANT n \in live, NEW CONSTANT m \in live,
         n \notin Leaving, m \notin Leaving, n # m,
         n \in StrongNodes <=> m \in StrongNodes,
         CountsSwap(n, m), live' = live, Leaving' = Leaving,
         \A k \in live : k \in StrongNodes' <=> k \in StrongNodes
  PROVE  CountsAgree'
<1>1. /\ block'[n] = block[m] /\ block'[m] = block[n]
      /\ \A k \in live : k # n /\ k # m => block'[k] = block[k]
      /\ info' = info
  BY DEF CountTypes, ClientTypes, CountsSwap
<1>2. ASSUME NEW S, IsFiniteSet(S), NEW x, NEW y, x \in S, y \notin S
      PROVE  Cardinality((S \ {x}) \cup {y}) = Cardinality(S)
  <2>1. IsFiniteSet(S \ {x}) /\ Cardinality(S \ {x}) = Cardinality(S) - 1
    BY <1>2, FS_RemoveElement
  <2>2. y \notin S \ {x} /\ Cardinality(S) \in Nat
    BY <1>2, FS_CardinalityType
  <2>3. Cardinality((S \ {x}) \cup {y}) = Cardinality(S \ {x}) + 1
    BY <2>1, <2>2, OneMoreIn
  <2> QED BY <2>1, <2>2, <2>3
<1>3. CASE block[n] = block[m]
  <2>1. block' = block
    BY <1>3 DEF CountsSwap, CountTypes, ClientTypes
  <2> QED BY <1>1, <2>1, SameCounts
<1>4. ASSUME block[n] # block[m], NEW c \in Blocks PROVE BlockAgrees(c)'
  <2>1. CASE c = block[n]
    <3>1. /\ Sharing(c)' = (Sharing(c) \ {n}) \cup {m}
          /\ n \in Sharing(c) /\ m \notin Sharing(c)
      BY <1>1, <1>4, <2>1 DEF Sharing
    <3>2. CASE n \in StrongNodes
      <4>1. /\ StrongHolders(c)' = (StrongHolders(c) \ {n}) \cup {m}
            /\ n \in StrongHolders(c) /\ m \notin StrongHolders(c)
            /\ WeakHolders(c)' = WeakHolders(c)
        BY <3>1, <3>2 DEF StrongHolders, WeakHolders, Holders, Sharing
      <4> QED BY <1>1, <1>2, <3>1, <4>1, HoldersAreFinite, CountsMean DEF BlockAgrees
    <3>3. CASE n \notin StrongNodes
      <4>1. /\ WeakHolders(c)' = (WeakHolders(c) \ {n}) \cup {m}
            /\ n \in WeakHolders(c) /\ m \notin WeakHolders(c)
            /\ StrongHolders(c)' = StrongHolders(c)
        BY <3>1, <3>3 DEF StrongHolders, WeakHolders, Holders, Sharing
      <4> QED BY <1>1, <1>2, <3>1, <4>1, HoldersAreFinite, CountsMean DEF BlockAgrees
    <3> QED BY <3>2, <3>3
  <2>2. CASE c = block[m]
    <3>1. /\ Sharing(c)' = (Sharing(c) \ {m}) \cup {n}
          /\ m \in Sharing(c) /\ n \notin Sharing(c)
      BY <1>1, <1>4, <2>2 DEF Sharing
    <3>2. CASE n \in StrongNodes
      <4>1. /\ StrongHolders(c)' = (StrongHolders(c) \ {m}) \cup {n}
            /\ m \in StrongHolders(c) /\ n \notin StrongHolders(c)
            /\ WeakHolders(c)' = WeakHolders(c)
        BY <3>1, <3>2 DEF StrongHolders, WeakHolders, Holders, Sharing
      <4> QED BY <1>1, <1>2, <3>1, <4>1, HoldersAreFinite, CountsMean DEF BlockAgrees
    <3>3. CASE n \notin StrongNodes
      <4>1. /\ WeakHolders(c)' = (WeakHolders(c) \ {m}) \cup {n}
            /\ m \in WeakHolders(c) /\ n \notin WeakHolders(c)
            /\ StrongHolders(c)' = StrongHolders(c)
        BY <3>1, <3>3 DEF StrongHolders, WeakHolders, Holders, Sharing
      <4> QED BY <1>1, <1>2, <3>1, <4>1, HoldersAreFinite, CountsMean DEF BlockAgrees
    <3> QED BY <3>2, <3>3
  <2>3. CASE c # block[n] /\ c # block[m]
    <3>1. Sharing(c)' = Sharing(c)
      BY <1>1, <2>3 DEF Sharing
    <3>2. StrongHolders(c)' = StrongHolders(c) /\ WeakHolders(c)' = WeakHolders(c)
      BY <3>1 DEF StrongHolders, WeakHolders, Holders, Sharing
    <3> QED BY <1>1, <3>1, <3>2, CountsMean DEF BlockAgrees
  <2> QED BY <2>1, <2>2, <2>3
<1>5. CASE block[n] # block[m]
  <2>1. \A c \in Blocks : BlockAgrees(c)'
    BY <1>4, <1>5
  <2> QED BY <2>1 DEF CountsAgree, BlockAgrees, StrongHolders, WeakHolders, Holders, Sharing
<1> QED BY <1>3, <1>5
(* The nodes that have a block are those that live.                        *)
Blocked == \A n \in Nodes : block[n] # 0 <=> n \in live

LEMMA BlockOfLive ==
  ASSUME CountTypes, ClientTypes, Blocked, NEW n \in live
  PROVE  n \in Nodes /\ block[n] \in Blocks
BY DEF CountTypes, ClientTypes, Blocked

Unused == CHOOSE x \in Blocks : ~info[x].used

(* There is a block for every node.                                        *)
LEMMA UnusedIsThere ==
  ASSUME CountTypes, ClientTypes, CountsAgree, NEW n \in Nodes, n \notin live
  PROVE  Unused \in Blocks /\ ~info[Unused].used /\ Sharing(Unused) = {}
<1>1. ASSUME \A b \in Blocks : info[b].used PROVE FALSE
  <2>1. \A b \in Blocks : \E m \in live : block[m] = b
    BY <1>1, CountsMean DEF BlockAgrees, Sharing
  <2> DEFINE f == [b \in Blocks |-> CHOOSE m \in live : block[m] = b]
  <2>2. \A b \in Blocks : f[b] \in live /\ block[f[b]] = b
    BY <2>1
  <2>3. f \in [Blocks -> live]
    BY <2>2
  <2> HIDE DEF f
  <2>4. /\ IsFiniteSet(live) /\ Cardinality(live) <= Cardinality(Nodes \ {n})
        /\ Cardinality(Nodes \ {n}) = Cardinality(Nodes) - 1
        /\ Cardinality(Nodes) \in Nat /\ Cardinality(live) \in Nat
    <3>1. live \in SUBSET (Nodes \ {n})
      BY DEF CountTypes, ClientTypes
    <3>2. IsFiniteSet(Nodes \ {n}) /\ Cardinality(Nodes \ {n}) = Cardinality(Nodes) - 1
      BY NodesAssumption, FS_RemoveElement
    <3> QED BY <3>1, <3>2, NodesAssumption, FS_Subset, FS_CardinalityType
  <2>5. IsFiniteSet(Blocks) /\ Cardinality(Blocks) = Cardinality(Nodes)
    BY <2>4, FS_Interval DEF Blocks
  <2>6. PICK b, c \in Blocks : b # c /\ f[b] = f[c]
    <3>1. Cardinality(live) < Cardinality(Blocks)
      BY <2>4, <2>5
    <3> QED BY <2>3, <2>4, <2>5, <3>1, FS_PigeonHole
  <2> QED BY <2>2, <2>6
<1>2. Unused \in Blocks /\ ~info[Unused].used
  BY <1>1 DEF Unused
<1> QED BY <1>2, CountsMean DEF BlockAgrees

(* Counted as the policies call it.                                        *)
LEMMA CountedMeans ==
  ASSUME NEW i \in InfoType, NEW s \in BOOLEAN, NEW k \in Int
  PROVE  /\ Counted(i, s, k) \in InfoType
         /\ Counted(i, s, k).used = i.used /\ Counted(i, s, k).pointer = i.pointer
         /\ s => /\ Counted(i, s, k).strong = i.strong + k
                 /\ Counted(i, s, k).weak = i.weak
         /\ ~s => /\ Counted(i, s, k).strong = i.strong
                  /\ Counted(i, s, k).weak = i.weak + k
<1> DEFINE x == i.strong + One(s) * k
           y == i.weak + One(~s) * k
<1>1. i.strong \in Int /\ i.weak \in Int
  BY DEF InfoType
<1>2. s => x = i.strong + k /\ y = i.weak
  BY <1>1 DEF One
<1>3. ~s => x = i.strong /\ y = i.weak + k
  BY <1>1 DEF One
<1>4. Counted(i, s, k) = [i EXCEPT !.strong = x, !.weak = y]
  BY DEF Counted
<1>5. x \in Int /\ y \in Int
  BY <1>1, <1>2, <1>3
<1> HIDE DEF x, y
<1> DEFINE j == [i EXCEPT !.strong = x, !.weak = y]
<1>6. j \in InfoType
  BY <1>5 DEF InfoType
<1>7. j.used = i.used
  BY DEF InfoType
<1>8. j.pointer = i.pointer /\ j.strong = x /\ j.weak = y
  BY DEF InfoType
<1>9. Counted(i, s, k) = j
  BY <1>4
<1> HIDE DEF j
<1>10. Counted(i, s, k).used = i.used
  BY <1>7, <1>9
<1>11. s => /\ Counted(i, s, k).strong = i.strong + k
            /\ Counted(i, s, k).weak = i.weak
  BY <1>2, <1>8, <1>9
<1>12. ~s => /\ Counted(i, s, k).strong = i.strong
             /\ Counted(i, s, k).weak = i.weak + k
  BY <1>3, <1>8, <1>9
<1> QED BY <1>6, <1>8, <1>9, <1>10, <1>11, <1>12

Fresh(o) == [NoInfo EXCEPT !.used = TRUE, !.pointer = o]

LEMMA FreshMeans ==
  ASSUME NEW CONSTANT o \in Objects \cup {Null}
  PROVE  /\ Fresh(o) \in InfoType /\ Fresh(o).used /\ Fresh(o).pointer = o
         /\ Fresh(o).strong = 0 /\ Fresh(o).weak = 0
<1> DEFINE none == NoInfo
<1>1. none \in InfoType /\ none.strong = 0 /\ none.weak = 0
  BY DEF NoInfo, InfoType
<1>2. Fresh(o) = [none EXCEPT !.used = TRUE, !.pointer = o]
  BY DEF Fresh
<1> HIDE DEF none
<1>3. Fresh(o) \in InfoType
  BY <1>1, <1>2 DEF InfoType
<1>4. Fresh(o).used
  BY <1>1, <1>2 DEF InfoType
<1>5. Fresh(o).pointer = o
  BY <1>1, <1>2 DEF InfoType
<1>6. Fresh(o).strong = 0 /\ Fresh(o).weak = 0
  BY <1>1, <1>2 DEF InfoType
<1> QED BY <1>3, <1>4, <1>5, <1>6

LEMMA NewAgrees ==
  ASSUME CountTypes, ClientTypes, CountsAgree, Blocked, NEW CONSTANT n \in Nodes, n \notin live,
         n \notin Leaving, NEW CONSTANT o \in Objects \cup {Null},
         NEW CONSTANT s \in BOOLEAN, CountsNew(n, o, s),
         live' = live \cup {n}, Leaving' = Leaving,
         \A m \in live : m \in StrongNodes' <=> m \in StrongNodes,
         n \in StrongNodes' <=> s
  PROVE  /\ CountsAgree' /\ CountTypes' /\ Blocked'
         /\ Unused \in Blocks /\ Sharing(Unused) = {}
         /\ block'[n] = Unused /\ \A m \in live : block'[m] = block[m]
         /\ info'[Unused].pointer = o
         /\ \A c \in Blocks : c # Unused => info'[c] = info[c]
<1>1. Unused \in Blocks /\ ~info[Unused].used /\ Sharing(Unused) = {}
  BY UnusedIsThere
<1>2. block' = [block EXCEPT ![n] = Unused]
  BY DEF CountsNew, Unused
<1> DEFINE fresh == [NoInfo EXCEPT !.used = TRUE, !.pointer = o]
<1>3. fresh \in InfoType /\ fresh.used /\ fresh.pointer = o /\ fresh.strong = 0 /\ fresh.weak = 0
  BY FreshMeans DEF Fresh
<1>4. info' = [info EXCEPT ![Unused] = Counted(fresh, s, 1)]
  BY DEF CountsNew, Unused
<1> HIDE DEF fresh
<1>5. /\ Counted(fresh, s, 1) \in InfoType
      /\ Counted(fresh, s, 1).used /\ Counted(fresh, s, 1).pointer = o
      /\ Counted(fresh, s, 1).strong = 0 + One(s)
      /\ Counted(fresh, s, 1).weak = 0 + One(~s)
  BY <1>3, CountedMeans DEF One
<1>6. CountTypes'
  BY <1>1, <1>2, <1>4, <1>5 DEF CountTypes
<1>7. /\ info'[Unused] = Counted(fresh, s, 1)
      /\ \A c \in Blocks : c # Unused => info'[c] = info[c]
      /\ block'[n] = Unused /\ \A m \in live : block'[m] = block[m]
  BY <1>1, <1>2, <1>4 DEF CountTypes, ClientTypes
<1>8. Cardinality(StrongHolders(Unused)) = 0 /\ Cardinality(WeakHolders(Unused)) = 0
  <2>1. StrongHolders(Unused) = {} /\ WeakHolders(Unused) = {}
    BY <1>1 DEF StrongHolders, WeakHolders, Holders
  <2> QED BY <2>1, FS_EmptySet
<1> HIDE DEF Unused
<1>9. PICK b \in Blocks : b = Unused
  BY <1>1
<1>10. CountsAgree'
  <2>1. /\ info'[b].used
        /\ info'[b].strong = Cardinality(StrongHolders(b)) + One(s)
        /\ info'[b].weak = Cardinality(WeakHolders(b)) + One(~s)
        /\ \A c \in Blocks : c # b => info'[c] = info[c]
        /\ block' = [block EXCEPT ![n] = b]
    BY <1>2, <1>5, <1>7, <1>8, <1>9
  <2> QED BY <2>1, AttachCounts
<1>11. Blocked'
  BY <1>1, <1>2 DEF Blocked, CountTypes, ClientTypes, Blocks
<1> QED BY <1>1, <1>5, <1>6, <1>7, <1>10, <1>11

LEMMA ShareAgrees ==
  ASSUME CountTypes, ClientTypes, CountsAgree, Blocked, NEW CONSTANT n \in Nodes, n \notin live,
         n \notin Leaving, NEW CONSTANT q \in live,
         NEW CONSTANT s \in BOOLEAN, CountsShare(n, q, s),
         live' = live \cup {n}, Leaving' = Leaving,
         \A m \in live : m \in StrongNodes' <=> m \in StrongNodes,
         n \in StrongNodes' <=> s
  PROVE  /\ CountsAgree' /\ CountTypes' /\ Blocked'
         /\ block'[n] = block[q] /\ \A m \in live : block'[m] = block[m]
         /\ \A c \in Blocks : c # block[q] => info'[c] = info[c]
         /\ \A c \in Blocks : info'[c].pointer = info[c].pointer
<1>1. PICK b \in Blocks : b = block[q]
  BY BlockOfLive
<1>2. block' = [block EXCEPT ![n] = b] /\ info' = [info EXCEPT ![b] = Counted(@, s, 1)]
  BY <1>1 DEF CountsShare
<1>3. info[b] \in InfoType
  BY DEF CountTypes, ClientTypes
<1>4. /\ Counted(info[b], s, 1) \in InfoType
      /\ Counted(info[b], s, 1).used = info[b].used
      /\ Counted(info[b], s, 1).pointer = info[b].pointer
      /\ Counted(info[b], s, 1).strong = info[b].strong + One(s)
      /\ Counted(info[b], s, 1).weak = info[b].weak + One(~s)
  <2>1. info[b].strong \in Int /\ info[b].weak \in Int
    BY <1>3 DEF InfoType
  <2>2. PICK i \in InfoType : i = info[b]
    BY <1>3
  <2>3. /\ Counted(i, s, 1) \in InfoType
        /\ Counted(i, s, 1).used = i.used /\ Counted(i, s, 1).pointer = i.pointer
        /\ s => /\ Counted(i, s, 1).strong = i.strong + 1
                /\ Counted(i, s, 1).weak = i.weak
        /\ ~s => /\ Counted(i, s, 1).strong = i.strong
                 /\ Counted(i, s, 1).weak = i.weak + 1
    BY CountedMeans
  <2>4. (s => One(s) = 1 /\ One(~s) = 0) /\ (~s => One(s) = 0 /\ One(~s) = 1)
    BY DEF One
  <2> QED BY <2>1, <2>2, <2>3, <2>4
<1>5. CountTypes'
  BY <1>2, <1>4 DEF CountTypes
<1>6. /\ info'[b] = Counted(info[b], s, 1)
      /\ \A c \in Blocks : c # b => info'[c] = info[c]
      /\ block'[n] = b /\ \A m \in live : block'[m] = block[m]
  BY <1>2 DEF CountTypes, ClientTypes
<1>7. BlockAgrees(b) /\ info[b].used
  <2>1. q \in Sharing(b)
    BY <1>1 DEF Sharing
  <2> QED BY <2>1, CountsMean DEF BlockAgrees
<1>8. CountsAgree'
  <2>1. /\ info'[b].used
        /\ info'[b].strong = Cardinality(StrongHolders(b)) + One(s)
        /\ info'[b].weak = Cardinality(WeakHolders(b)) + One(~s)
    BY <1>4, <1>6, <1>7 DEF BlockAgrees
  <2>2. block' = [block EXCEPT ![n] = b] /\ \A c \in Blocks : c # b => info'[c] = info[c]
    BY <1>2, <1>6
  <2> QED BY <2>1, <2>2, AttachCounts
<1>9. Blocked'
  BY <1>2 DEF Blocked, CountTypes, ClientTypes, Blocks
<1> QED BY <1>1, <1>4, <1>5, <1>6, <1>8, <1>9
-----------------------------------------------------------------------------
(* Threads that share nodes.                                               *)

(* If two threads use pointers, these are strong.                          *)
LEMMA TwoUsers ==
  ASSUME Sound, WellUsed, ~cond.links, NEW p \in cond.pointers, NEW q \in cond.pointers,
         User[p] # User[q]
  PROVE  cond.pointers \subseteq Strong /\ cond.calls \subseteq {"cast"}
BY DEF Sound, ClientTypes, WellUsed, UsedWell, OneUser

LEMMA LiveOwner ==
  ASSUME Sound, NEW n \in live
  PROVE  \/ n \in cond.pointers /\ n \in Pointers /\ Owner(n) = User[n]
         \/ /\ n \in Threads /\ n \notin Pointers /\ Owner(n) = n /\ ~Idle(n)
            /\ Len(stack[n]) = 1 /\ Top(n).as \in cond.pointers
            /\ User[Top(n).as] = n /\ (n \in StrongNodes <=> Top(n).as \in Strong)
<1>1. n \in Pointers \/ n \in Threads
  BY DEF Sound, ClientTypes, Nodes
<1>2. CASE n \in Pointers
  BY <1>2 DEF Sound, ClientTypes, Owner
<1>3. CASE n \in Threads
  <2>1. n \notin Pointers /\ n \notin Strong
    BY <1>3, NodesAssumption, StrongPtrAssumption
  <2>2. Len(stack[n]) = 1 /\ ~Idle(n)
    BY <1>3, EmptySeq DEF Sound, TemporariesAreSound, Idle
  <2>3. FrameOK(n, Top(n), TRUE, TRUE)
    BY <1>3, <2>2, TopIsSound DEF Sound, FrameOK
  <2>4. n \in StrongNodes <=> Top(n).as \in Strong
    BY <1>3, <2>1, <2>2, KindMeans DEF Top
  <2> QED BY <1>3, <2>1, <2>2, <2>3, <2>4 DEF Owner, FrameOK
<1> QED BY <1>1, <1>2, <1>3

(* The block of a node that thread s has counted off as the last one is    *)
(* none of those that other threads use.                                   *)
LEMMA Apart ==
  ASSUME CountTypes, Sound, WellUsed, ~cond.links, CountsAreSound,
         NEW s \in Threads, NEW n, Ends(s, n), NEW m \in live, Owner(m) # s
  PROVE  block[n] # block[m]
<1>1. n \in live /\ ~Idle(s) /\ Top(s).node = n /\ Top(s).at \in CountedOff
  BY EndsMeans DEF Sound, Ends
<1>2. FrameOK(s, Top(s), TRUE, Len(stack[s]) = 1)
  BY <1>1, TopIsSound DEF Sound
<1>3. PICK p \in cond.pointers : User[p] # s /\ (m \in StrongNodes <=> p \in Strong)
  <2>1. CASE m \in cond.pointers /\ m \in Pointers /\ Owner(m) = User[m]
    <3>1. m \notin Threads
      BY <2>1, NodesAssumption
    <3> QED BY <2>1, <3>1, KindMeans
  <2>2. CASE m \in Threads /\ m \notin Pointers /\ Owner(m) = m
    BY <2>2, LiveOwner
  <2> QED BY <2>1, <2>2, LiveOwner
<1>4. cond.pointers \subseteq Strong
  <2>1. Top(s).as \in cond.pointers /\ User[Top(s).as] = s
    BY <1>2 DEF FrameOK
  <2> QED BY <1>3, <2>1, TwoUsers
<1>5. CASE m \in Leaving
  <2>1. PICK t \in Threads : Ends(t, m)
    BY <1>5, LeavingMeans DEF LeavingNodesEnd, Sound
  <2>2. t # s /\ n \in Nodes /\ m \in Nodes
    BY <2>1, EndsMeans DEF Sound
  <2> QED BY <2>1, <2>2 DEF CountsAreSound, LastOnesDiffer
<1>6. CASE m \notin Leaving
  <2> SUFFICES ASSUME block[n] = block[m] PROVE FALSE
    OBVIOUS
  <2>1. block[n] \in Blocks
    BY <1>1, BlockOfLive DEF CountsAreSound, Blocked, Sound
  <2>2. m \in StrongHolders(block[n])
    BY <1>3, <1>4, <1>6 DEF StrongHolders, Holders, Sharing
  <2>3. Top(s).at \in {"get", "zap", "clear"}
    BY <1>1, <1>2, <1>4 DEF FrameOK, CountedOff
  <2>4. info[block[n]].strong = 0
    BY <1>1, <2>3 DEF CountsAreSound, FoundOut
  <2>5. Cardinality(StrongHolders(block[n])) = 0 /\ IsFiniteSet(StrongHolders(block[n]))
    BY <2>1, <2>4, HoldersAreFinite, CountsMean DEF CountsAreSound, BlockAgrees, Sound
  <2>6. StrongHolders(block[n]) = {}
    BY <2>5, FS_EmptySet
  <2> QED BY <2>2, <2>6
<1> QED BY <1>5, <1>6

(* Thread t changes one block, which other threads have not found to be    *)
(* without strong pointers, and its own nodes only.                        *)
LEMMA CountsKeep ==
  ASSUME CountTypes, Sound, Sound', WellUsed, ~cond.links, CountsAreSound, cond' = cond,
         NEW t \in Threads, \A s \in Threads : s # t => stack'[s] = stack[s],
         NEW CONSTANT B,
         \A s \in Threads : \A n : s # t /\ Ends(s, n) => block[n] # B,
         \A c \in Blocks : c # B => info'[c] = info[c],
         \A n \in live : Owner(n) # t => block'[n] = block[n],
         \A n : Ends(t, n)' => n \in live /\ block'[n] = block[n],
         CountsAgree', Blocked', ~Idle(t)' => FoundOut(t)'
  PROVE  CountsAreSound'
<1>1. ASSUME NEW s \in Threads, s # t, NEW n, Ends(s, n)'
      PROVE  /\ Ends(s, n) /\ Owner(n) = s /\ n \in live /\ n \in Nodes
             /\ block'[n] = block[n] /\ block[n] \in Blocks
             /\ info'[block'[n]] = info[block[n]]
  <2>1. Ends(s, n)
    BY <1>1 DEF Ends, Idle, Top
  <2>2. Owner(n) = s /\ n \in live /\ n \in Nodes
    BY <2>1, EndsMeans DEF Sound
  <2>3. block[n] \in Blocks
    BY <2>2, BlockOfLive DEF CountsAreSound, Blocked, Sound
  <2> QED BY <1>1, <2>1, <2>2, <2>3
<1>2. ASSUME NEW s \in Threads, s # t, ~Idle(s)' PROVE FoundOut(s)'
  <2>1. Top(s)' = Top(s) /\ ~Idle(s)
    BY <1>2 DEF Top, Idle
  <2>2. CASE Top(s).at \in {"get", "zap", "clear"}
    <3>1. PICK n : n = Top(s).node
      OBVIOUS
    <3>2. Ends(s, n)'
      BY <1>2, <2>1, <2>2, <3>1 DEF Ends, CountedOff
    <3>3. FoundOut(s)
      BY <2>1 DEF CountsAreSound
    <3>4. info'[block'[n]] = info[block[n]]
      BY <1>1, <1>2, <3>2
    <3> QED BY <2>1, <3>1, <3>3, <3>4 DEF FoundOut
  <2>3. CASE Top(s).at \notin {"get", "zap", "clear"}
    BY <2>1, <2>3 DEF FoundOut
  <2> QED BY <2>2, <2>3
<1>3. ASSUME NEW s \in Threads, NEW n \in Nodes, NEW m \in Nodes, s # t,
             Ends(s, n)', Ends(t, m)', block'[n] = block'[m]
      PROVE  FALSE
  <2>1. Ends(s, n) /\ block'[n] = block[n]
    BY <1>1, <1>3
  <2>2. m \in live /\ block'[m] = block[m]
    BY <1>3
  <2>3. Owner(m) = t
    <3>1. Ends(t, m)' => Owner(m) = t
      <4>1. Ends(t, m)' => ~Idle(t)' /\ Top(t)'.node = m /\ t \in Threads
        BY DEF Ends
      <4>2. \A i \in 1 .. Len(stack'[t]) : Owner(stack'[t][i].node) = t
        <5>1. Sound' => \A i \in 1 .. Len(stack'[t]) : Owner(stack'[t][i].node) = t
          BY OwnersLater DEF FramesAreOwned
        <5> QED BY <5>1
      <4>3. ~Idle(t)' => 1 \in 1 .. Len(stack'[t])
        <5>1. stack'[t] \in Seq(FrameType)
          BY DEF Sound, ClientTypes
        <5> QED BY <5>1, TailMeans DEF Idle
      <4> QED BY <4>1, <4>2, <4>3 DEF Top
    <3> QED BY <1>3, <3>1
  <2>4. Owner(m) # s
    BY <1>3, <2>3
  <2>5. block[n] # block[m]
    BY <2>1, <2>2, <2>4, Apart
  <2> QED BY <1>3, <2>1, <2>2, <2>5
<1>4. LastOnesDiffer'
  <2> SUFFICES ASSUME NEW s \in Threads, NEW r \in Threads, NEW n \in Nodes, NEW m \in Nodes,
                      Ends(s, n)', Ends(r, m)', block'[n] = block'[m], s # r
               PROVE  FALSE
    BY DEF LastOnesDiffer
  <2>1. CASE s = t
    BY <1>3, <2>1
  <2>2. CASE r = t
    BY <1>3, <2>2
  <2>3. CASE s # t /\ r # t
    <3>1. Ends(s, n) /\ Ends(r, m) /\ block[n] = block[m]
      BY <1>1, <2>3
    <3> QED BY <3>1 DEF CountsAreSound, LastOnesDiffer
  <2> QED BY <2>1, <2>2, <2>3
<1>5. \A s \in Threads : ~Idle(s)' => FoundOut(s)'
  BY <1>2
<1> QED BY <1>4, <1>5 DEF CountsAreSound, Blocked
-----------------------------------------------------------------------------
(* Calls begin when their thread is idle.                                  *)

BeginsCall(t) ==
  /\ Idle(t) /\ cond' = cond
  /\ \A s \in Threads : s # t => stack'[s] = stack[s]
  /\ stack'[t] # <<>> => stack'[t][1].at \notin CountedOff

LEMMA CallMeans ==
  ASSUME Sound, Sound', NEW t \in Threads, BeginsCall(t)
  PROVE  /\ t \notin live /\ Leaving' = Leaving /\ \A n : ~Ends(t, n)'
         /\ \A m \in live : m \in StrongNodes' <=> m \in StrongNodes
         /\ Leaving \subseteq live
         /\ \A m \in Leaving : Owner(m) # t
         /\ \A m : m # t => (m \in StrongNodes' <=> m \in StrongNodes)
<1>1. t \notin live
  BY DEF Sound, TemporariesAreSound, BeginsCall, Idle
<1>2. \A n : ~Ends(t, n)' /\ ~Ends(t, n)
  BY DEF Ends, BeginsCall, Idle, Top
<1>3. Leaving' = Leaving
  BY <1>2, SameLeave DEF Sound, BeginsCall
<1>4. \A m : m # t => (m \in StrongNodes' <=> m \in StrongNodes)
  BY KindsStay DEF BeginsCall
<1>5. \A m \in Leaving : m \in live /\ Owner(m) # t
  <2> TAKE m \in Leaving
  <2>1. PICK s \in Threads : Ends(s, m)
    BY LeavingMeans DEF LeavingNodesEnd, Sound
  <2>2. s # t
    BY <1>2, <2>1
  <2> QED BY <2>1, <2>2, EndsMeans DEF Sound
<1> QED BY <1>1, <1>2, <1>3, <1>4, <1>5

(* A call that is over at once.                                            *)
LEMMA StacksSame ==
  ASSUME ClientTypes, StacksAreSound, TemporariesAreSound, NEW t \in Threads, Idle(t),
         cond' = cond, stack' = stack, live \subseteq live', live' \ live \subseteq Pointers
  PROVE  StacksAreSound' /\ TemporariesAreSound' /\ BeginsCall(t)
<1>1. \A i \in 1 .. Len(stack'[t]) : FrameOK(t, stack[t][i], i = 1, i = Len(stack[t]))'
  <2>1. Len(stack'[t]) = 0
    BY DEF Idle
  <2> QED BY <2>1
<1>2. StacksAreSound'
  BY <1>1, StacksKeep
<1>3. \A s \in Threads : s \in live' <=> s \in live
  BY NodesAssumption
<1>4. TemporariesAreSound'
  BY <1>3 DEF TemporariesAreSound, Top
<1> QED BY <1>2, <1>4 DEF BeginsCall, Idle

LEMMA NewCall ==
  ASSUME CountTypes, Sound, Sound', WellUsed, ~cond.links, CountsAreSound,
         NEW t \in Threads, BeginsCall(t), NEW CONSTANT n \in Nodes, n \notin live,
         NEW CONSTANT o \in Objects \cup {Null}, NEW CONSTANT s \in BOOLEAN,
         CountsNew(n, o, s), live' = live \cup {n}, n \in StrongNodes' <=> s
  PROVE  CountTypes' /\ CountsAreSound'
<1>1. /\ t \notin live /\ Leaving' = Leaving /\ \A m : ~Ends(t, m)'
      /\ \A m \in live : m \in StrongNodes' <=> m \in StrongNodes
      /\ Leaving \subseteq live
  BY CallMeans
<1>2. CountsAgree /\ Blocked /\ ClientTypes /\ n \notin Leaving
  BY <1>1 DEF CountsAreSound, Blocked, Sound
<1>3. /\ CountsAgree' /\ CountTypes' /\ Blocked'
      /\ Unused \in Blocks /\ Sharing(Unused) = {}
      /\ \A m \in live : block'[m] = block[m]
      /\ \A c \in Blocks : c # Unused => info'[c] = info[c]
  BY <1>1, <1>2, NewAgrees
<1>4. \A r \in Threads : \A m : r # t /\ Ends(r, m) => block[m] # Unused
  BY <1>3, EndsMeans DEF Sound, Sharing
<1>5. ~Idle(t)' => FoundOut(t)'
  BY DEF BeginsCall, Idle, FoundOut, Top, CountedOff
<1>6. PICK B : B = Unused
  OBVIOUS
<1> HIDE DEF Unused
<1>7. cond' = cond /\ \A r \in Threads : r # t => stack'[r] = stack[r]
  BY DEF BeginsCall
<1>8. CountsAreSound'
  BY <1>1, <1>3, <1>4, <1>5, <1>6, <1>7, CountsKeep
<1> QED BY <1>3, <1>8

LEMMA ShareCall ==
  ASSUME CountTypes, Sound, Sound', WellUsed, ~cond.links, CountsAreSound,
         NEW t \in Threads, BeginsCall(t), NEW CONSTANT n \in Nodes, n \notin live,
         NEW CONSTANT q \in live, Owner(q) = t, NEW CONSTANT s \in BOOLEAN,
         CountsShare(n, q, s), live' = live \cup {n}, n \in StrongNodes' <=> s
  PROVE  CountTypes' /\ CountsAreSound'
<1>1. /\ t \notin live /\ Leaving' = Leaving /\ \A m : ~Ends(t, m)'
      /\ \A m \in live : m \in StrongNodes' <=> m \in StrongNodes
      /\ Leaving \subseteq live
  BY CallMeans
<1>2. CountsAgree /\ Blocked /\ ClientTypes /\ n \notin Leaving
  BY <1>1 DEF CountsAreSound, Blocked, Sound
<1>3. /\ CountsAgree' /\ CountTypes' /\ Blocked'
      /\ \A m \in live : block'[m] = block[m]
      /\ \A c \in Blocks : c # block[q] => info'[c] = info[c]
  BY <1>1, <1>2, ShareAgrees
<1>4. \A r \in Threads : \A m : r # t /\ Ends(r, m) => block[m] # block[q]
  BY Apart
<1>5. ~Idle(t)' => FoundOut(t)'
  BY DEF BeginsCall, Idle, FoundOut, Top, CountedOff
<1>6. PICK B : B = block[q]
  OBVIOUS
<1>7. cond' = cond /\ \A r \in Threads : r # t => stack'[r] = stack[r]
  BY DEF BeginsCall
<1>8. CountsAreSound'
  BY <1>1, <1>3, <1>4, <1>5, <1>6, <1>7, CountsKeep
<1> QED BY <1>3, <1>8

(* Thread t exchanges the blocks of two of its nodes.                      *)
LEMMA SwapStep ==
  ASSUME CountTypes, Sound, Sound', WellUsed, ~cond.links, CountsAreSound, cond' = cond,
         NEW t \in Threads, \A s \in Threads : s # t => stack'[s] = stack[s],
         \A m : ~Ends(t, m) /\ ~Ends(t, m)',
         NEW CONSTANT n \in live, NEW CONSTANT m \in live, n # m,
         Owner(n) = t, Owner(m) = t,
         n \in StrongNodes <=> m \in StrongNodes, CountsSwap(n, m), live' = live,
         \A k \in live : k \in StrongNodes' <=> k \in StrongNodes
  PROVE  CountTypes' /\ CountsAreSound'
<1>1. CountsAgree /\ Blocked /\ ClientTypes
  BY DEF CountsAreSound, Blocked, Sound
<1>2. Leaving' = Leaving
  BY SameLeave DEF Sound
<1>3. n \notin Leaving /\ m \notin Leaving
  <2>1. \A k, s : s \in Threads /\ Ends(s, k) => Owner(k) = s
    BY EndsMeans DEF Sound
  <2> QED BY <2>1, LeavingMeans DEF LeavingNodesEnd, Sound
<1>4. CountsAgree'
  BY <1>1, <1>2, <1>3, SwapCounts
<1>5. n \in Nodes /\ m \in Nodes /\ block[n] \in Blocks /\ block[m] \in Blocks
  BY <1>1, BlockOfLive
<1>6. CountTypes'
  BY <1>5 DEF CountTypes, CountsSwap
<1>7. Blocked'
  BY <1>1, <1>5 DEF Blocked, CountsSwap, CountTypes
<1>8. \A s \in Threads : \A k : s # t /\ Ends(s, k) => block[k] # 0
  BY <1>1, EndsMeans DEF Sound, Blocked
<1>9. ~Idle(t)' => FoundOut(t)'
  <2>1. \A k : ~Ends(t, k)'
    OBVIOUS
  <2>2. ~Idle(t)' => stack'[t][1].at \notin CountedOff
    BY <2>1 DEF Ends, Top
  <2> QED BY <2>2 DEF FoundOut, Top, CountedOff
<1>10. /\ \A k \in live : Owner(k) # t => block'[k] = block[k]
       /\ info' = info
  BY <1>5 DEF CountsSwap, CountTypes, ClientTypes, Sound
<1>11. PICK B : B = 0
  OBVIOUS
<1>12. CountsAreSound'
  BY <1>4, <1>7, <1>8, <1>9, <1>10, <1>11, CountsKeep
<1> QED BY <1>6, <1>12

(* SetPointer by the thread that uses the node.                            *)
LEMMA SetStep ==
  ASSUME CountTypes, Sound, Sound', WellUsed, ~cond.links, CountsAreSound, cond' = cond,
         NEW t \in Threads, \A s \in Threads : s # t => stack'[s] = stack[s],
         \A m : ~Ends(t, m) /\ ~Ends(t, m)',
         NEW CONSTANT n \in live, Owner(n) = t, NEW CONSTANT o \in Objects \cup {Null},
         CountsSet(n, o), live' = live,
         \A k \in live : k \in StrongNodes' <=> k \in StrongNodes
  PROVE  CountTypes' /\ CountsAreSound'
<1>1. CountsAgree /\ Blocked /\ ClientTypes
  BY DEF CountsAreSound, Blocked, Sound
<1>2. Leaving' = Leaving
  BY SameLeave DEF Sound
<1>3. PICK b \in Blocks : b = block[n]
  BY <1>1, BlockOfLive
<1>4. info' = [info EXCEPT ![b].pointer = o] /\ block' = block
  BY <1>3 DEF CountsSet
<1>5. CountTypes'
  BY <1>4 DEF CountTypes, InfoType
<1>6. \A c \in Blocks : c # b => info'[c] = info[c]
  BY <1>4 DEF CountTypes
<1>7. info'[b].strong = info[b].strong /\ info'[b].weak = info[b].weak
  BY <1>4 DEF CountTypes, InfoType
<1>8. info'[b].used = info[b].used
  BY <1>4 DEF CountTypes, InfoType
<1>9. CountsAgree'
  BY <1>1, <1>2, <1>4, <1>6, <1>7, <1>8, SameCounts
<1>10. Blocked'
  BY <1>1, <1>4 DEF Blocked
<1>11. \A s \in Threads : \A k : s # t /\ Ends(s, k) => block[k] # b
  BY <1>3, Apart
<1>12. ~Idle(t)' => FoundOut(t)'
  <2>1. \A k : ~Ends(t, k)'
    OBVIOUS
  <2>2. ~Idle(t)' => stack'[t][1].at \notin CountedOff
    BY <2>1 DEF Ends, Top
  <2> QED BY <2>2 DEF FoundOut, Top, CountedOff
<1>13. PICK B : B = b
  OBVIOUS
<1>14. /\ \A k \in live : Owner(k) # t => block'[k] = block[k]
       /\ \A c \in Blocks : c # B => info'[c] = info[c]
       /\ \A s \in Threads : \A k : s # t /\ Ends(s, k) => block[k] # B
  BY <1>4, <1>6, <1>11, <1>13
<1>15. CountsAreSound'
  BY <1>9, <1>10, <1>12, <1>14, CountsKeep
<1> QED BY <1>5, <1>15
-----------------------------------------------------------------------------
(* A call in progress goes on with its innermost frame, or leaves it.      *)

LEMMA GoesOn ==
  ASSUME Sound, WellUsed, NEW t \in Threads, ~Idle(t), cond' = cond,
         live' \subseteq live, live \ live' \subseteq {Top(t).node},
         live' = live \/ Top(t).at \in Going,
         alive' \subseteq Objects, raw' \subseteq Objects,
         NEW CONSTANT f \in FrameType, f.node = Top(t).node, f.as = Top(t).as,
         Becomes(t, f),
         NEW CONSTANT last \in BOOLEAN, last <=> Len(stack[t]) = 1,
         FrameOK(t, f, TRUE, last)',
         t \in live' <=> last /\ (f.at = "swap" \/ (f.node = t /\ f.at \in Going))
  PROVE  /\ Sound' /\ ~Idle(t)' /\ Top(t)' = f
         /\ \A s \in Threads : s # t => stack'[s] = stack[s]
         /\ \A m : m \in StrongNodes' <=> m \in StrongNodes
<1>1. /\ stack[t] # <<>> /\ Len(stack[t]) \in Nat /\ Len(stack[t]) >= 1
      /\ stack[t] \in Seq(FrameType)
  BY Frame1 DEF Sound
<1>2. /\ StacksAreSound' /\ stack' \in [Threads -> Seq(FrameType)]
      /\ \A s \in Threads : s # t => stack'[s] = stack[s]
      /\ Len(stack'[t]) = Len(stack[t]) /\ stack'[t][1] = f
      /\ \A i \in 2 .. Len(stack[t]) : stack'[t][i] = stack[t][i]
  BY StacksBecome DEF Sound
<1>3. stack'[t] # <<>>
  BY <1>1, <1>2, EmptySeq
<1>4. \A s \in Threads : s # t => (s \in live' <=> s \in live)
  <2>1. Owner(Top(t).node) = t
    BY Frame1, OwnersDestroy DEF Top, Sound
  <2>2. \A s \in Threads : s \notin Pointers
    BY NodesAssumption
  <2> QED BY <2>1, <2>2 DEF Owner
<1>5. TemporariesAreSound'
  BY <1>2, <1>4, TemporariesKeep DEF Sound
<1>6. ClientTypes'
  BY <1>2 DEF ClientTypes, Sound
<1>7. \A m : m \in StrongNodes' <=> m \in StrongNodes
  <2>1. \A m : m # t => (m \in StrongNodes' <=> m \in StrongNodes)
    BY <1>2, KindsStay
  <2>2. stack'[t][Len(stack'[t])].as = stack[t][Len(stack[t])].as
    <3>1. CASE Len(stack[t]) = 1
      BY <1>2, <3>1 DEF Top
    <3>2. CASE Len(stack[t]) # 1
      <4>1. PICK k \in Nat : k = Len(stack[t])
        BY <1>1
      <4>2. k >= 1 /\ k # 1
        BY <1>1, <3>2, <4>1
      <4>3. k \in 2 .. k
        BY <4>2
      <4> QED BY <1>2, <4>1, <4>3
    <3> QED BY <3>1, <3>2
  <2>3. t \in StrongNodes' <=> t \in StrongNodes
    BY <1>1, <1>3, <2>2 DEF StrongNodes, Idle
  <2> QED BY <2>1, <2>3
<1> QED BY <1>2, <1>3, <1>5, <1>6, <1>7 DEF Sound, Idle, Top

LEMMA Returns ==
  ASSUME Sound, WellUsed, NEW t \in Threads, ~Idle(t), cond' = cond,
         live' \subseteq live, live \ live' \subseteq {Top(t).node},
         live' = live \/ Top(t).at \in Going, t \notin live',
         alive' \subseteq Objects, raw' \subseteq Objects, Done(t)
  PROVE  /\ Sound' /\ \A n : ~Ends(t, n)'
         /\ ~Idle(t)' => Top(t)'.at \in {"members", "set"}
         /\ \A s \in Threads : s # t => stack'[s] = stack[s]
         /\ \A m \in live' : m \in StrongNodes' <=> m \in StrongNodes
<1>1. /\ stack[t] # <<>> /\ Len(stack[t]) \in Nat /\ Len(stack[t]) >= 1
      /\ stack[t] \in Seq(FrameType)
  BY Frame1 DEF Sound
<1>2. /\ StacksAreSound' /\ stack' \in [Threads -> Seq(FrameType)]
      /\ \A s \in Threads : s # t => stack'[s] = stack[s]
      /\ Len(stack'[t]) = Len(stack[t]) - 1
      /\ Len(stack[t]) > 1 => stack'[t][1].at \in {"members", "set"}
      /\ Len(stack[t]) = 1 => stack'[t] = <<>>
  BY StacksDone DEF Sound
<1>3. stack'[t] = <<>> \/ stack'[t][1].at \in {"members", "set"}
  BY <1>1, <1>2
<1>4. \A s \in Threads : s # t => (s \in live' <=> s \in live)
  <2>1. Owner(Top(t).node) = t
    BY Frame1, OwnersDestroy DEF Top, Sound
  <2>2. \A s \in Threads : s \notin Pointers
    BY NodesAssumption
  <2> QED BY <2>1, <2>2 DEF Owner
<1>5. TemporariesAreSound'
  <2>1. ~(/\ Len(stack'[t]) = 1
          /\ \/ stack'[t][1].at = "swap"
             \/ stack'[t][1].node = t /\ stack'[t][1].at \in Going)
    BY <1>3 DEF Going, CountedOff
  <2> QED BY <1>2, <1>4, <2>1, TemporariesKeep DEF Sound
<1>6. ClientTypes'
  BY <1>2 DEF ClientTypes, Sound
<1>7. \A m \in live' : m \in StrongNodes' <=> m \in StrongNodes
  BY <1>2, KindsStay
<1> QED BY <1>2, <1>3, <1>5, <1>6, <1>7 DEF Sound, Idle, Top, Ends, CountedOff

(* What a thread knows while it destroys a node that counts.               *)
LEMMA AtNode ==
  ASSUME CountTypes, Sound, CountsAreSound, ~cond.links, NEW t \in Threads, ~Idle(t),
         Top(t).at \in Going
  PROVE  /\ Top(t).node \in live /\ Top(t).node \in Nodes /\ Owner(Top(t).node) = t
         /\ block[Top(t).node] \in Blocks
         /\ Top(t) \in FrameType /\ Top(t).as \in Pointers
         /\ FrameOK(t, Top(t), TRUE, Len(stack[t]) = 1)
         /\ Top(t).node \in StrongNodes <=> Top(t).as \in Strong
         /\ Top(t).at \in CountedOff => Top(t).node \in Leaving
         /\ Top(t).at = "release" => Top(t).node \notin Leaving
         /\ t \in live => Top(t).node = t
         /\ Top(t).node = t => Len(stack[t]) = 1
         /\ \A n : Ends(t, n) => n = Top(t).node
         /\ \A n \in Leaving : n # Top(t).node => Owner(n) # t
<1>1. /\ FrameOK(t, Top(t), TRUE, Len(stack[t]) = 1) /\ Top(t) \in FrameType
      /\ Top(t).as \in Pointers /\ Top(t).node \in Nodes
  BY TopIsSound, Frame1 DEF Sound
<1>2. Top(t).node \in live /\ block[Top(t).node] \in Blocks
  BY <1>1, BlockOfLive DEF FrameOK, CountsAreSound, Blocked, Sound
<1>3. Owner(Top(t).node) = t
  BY Frame1, OwnersDestroy DEF Top, Sound
<1>4. Top(t).node \in StrongNodes <=> Top(t).as \in Strong
  BY KindOfFrame DEF Sound
<1>5. \A s, n : s \in Threads /\ Ends(s, n) => Owner(n) = s
  BY EndsMeans DEF Sound
<1>6. Top(t).at \in CountedOff => Top(t).node \in Leaving
  BY LeavingMeans DEF LeavingNodesEnd, Sound, Ends
<1>7. \A n : Ends(t, n) => n = Top(t).node /\ Top(t).at \in CountedOff
  BY DEF Ends
<1>8. \A n \in Leaving : Owner(n) = t => n = Top(t).node /\ Top(t).at \in CountedOff
  BY <1>5, <1>7, LeavingMeans DEF LeavingNodesEnd, Sound
<1>9. t \in live => Top(t).node = t
  BY DEF Sound, TemporariesAreSound, Going, CountedOff
<1>10. Top(t).node = t => Len(stack[t]) = 1
  <2>1. Top(t).as # t
    BY <1>1, NodesAssumption
  <2> QED BY <1>1, <2>1 DEF FrameOK
<1> QED BY <1>1, <1>2, <1>3, <1>4, <1>6, <1>7, <1>8, <1>9, <1>10 DEF CountedOff
-----------------------------------------------------------------------------
(* The steps of the destructor of a node that counts.                      *)

(* Thread t has seen to its own node only.                                 *)
LEMMA StepKeeps ==
  ASSUME CountTypes, Sound, Sound', WellUsed, ~cond.links, CountsAreSound, cond' = cond,
         NEW t \in Threads, ~Idle(t), Top(t).at \in Going,
         \A s \in Threads : s # t => stack'[s] = stack[s],
         NEW CONSTANT b, b = block[Top(t).node],
         \A c \in Blocks : c # b => info'[c] = info[c],
         \A n \in live : n # Top(t).node => block'[n] = block[n],
         \A n : Ends(t, n)' => n = Top(t).node /\ block'[n] = block[n],
         CountsAgree', Blocked', ~Idle(t)' => FoundOut(t)'
  PROVE  CountsAreSound'
<1>1. Top(t).node \in live /\ Owner(Top(t).node) = t
  BY AtNode
<1>2. \A s \in Threads : \A n : s # t /\ Ends(s, n) => block[n] # b
  BY <1>1, Apart
<1>3. \A n \in live : Owner(n) # t => block'[n] = block[n]
  BY <1>1
<1>4. \A n : Ends(t, n)' => n \in live /\ block'[n] = block[n]
  BY <1>1
<1> QED BY <1>2, <1>3, <1>4, CountsKeep

LEMMA OthersLeave ==
  ASSUME CountTypes, Sound, Sound', CountsAreSound, ~cond.links, NEW t \in Threads, ~Idle(t),
         Top(t).at \in Going,
         \A s \in Threads : s # t => stack'[s] = stack[s],
         \A n : Ends(t, n)' => n = Top(t).node
  PROVE  /\ \A n : n # Top(t).node => (n \in Leaving' <=> n \in Leaving)
         /\ \A n : n \in Leaving' /\ n = Top(t).node => Ends(t, n)'
         /\ \A n : Ends(t, n)' => n \in Leaving'
<1>1. \A n : n \in Leaving' <=> Ends(t, n)' \/ (n \in Leaving /\ Owner(n) # t)
  BY WhoLeaves DEF Sound
<1>2. \A n \in Leaving : n # Top(t).node => Owner(n) # t
  BY AtNode
<1>3. Owner(Top(t).node) = t
  BY AtNode
<1> QED BY <1>1, <1>2, <1>3

LEMMA DecrementTypes ==
  ASSUME CountTypes, NEW CONSTANT b \in Blocks, NEW CONSTANT s \in BOOLEAN,
         info' = [info EXCEPT ![b] = Counted(@, s, -1)]
  PROVE  info' \in [Blocks -> InfoType]
<1>1. PICK i \in InfoType : i = info[b]
  BY DEF CountTypes
<1>2. Counted(i, s, -1) \in InfoType
  BY CountedMeans
<1> QED BY <1>1, <1>2 DEF CountTypes

(* A live block says whether there are strong ones, and weak ones.         *)
LEMMA BlockSays ==
  ASSUME CountTypes, ClientTypes, CountsAgree, NEW b \in Blocks
  PROVE  /\ info[b].strong \in Nat /\ info[b].weak \in Nat
         /\ info[b].strong = 0 <=> StrongHolders(b) = {}
         /\ info[b].weak = 0 <=> WeakHolders(b) = {}
         /\ info[b].used <=> Sharing(b) # {}
<1>1. BlockAgrees(b)
  BY CountsMean
<1>2. /\ IsFiniteSet(StrongHolders(b)) /\ IsFiniteSet(WeakHolders(b))
      /\ Cardinality(StrongHolders(b)) \in Nat /\ Cardinality(WeakHolders(b)) \in Nat
  BY HoldersAreFinite
<1>3. /\ Cardinality(StrongHolders(b)) = 0 <=> StrongHolders(b) = {}
      /\ Cardinality(WeakHolders(b)) = 0 <=> WeakHolders(b) = {}
  BY <1>2, FS_EmptySet
<1> QED BY <1>1, <1>2, <1>3 DEF BlockAgrees

LEMMA DestructorGoesOn ==
  ASSUME Sound, WellUsed, NEW t \in Threads, ~Idle(t),
         Top(t).at \in Going, cond' = cond, alive' = alive, raw' = raw,
         NEW CONSTANT g \in FrameType, g.node = Top(t).node, g.as = Top(t).as,
         Becomes(t, g), g.at \in CountedOff \cup {"delete"},
         g.at \in CountedOff => ~cond.links,
         g.at = "recheck" => g.as \notin Strong,
         live' = IF g.at = "delete" THEN live \ {g.node} ELSE live
  PROVE  /\ Sound' /\ ~Idle(t)' /\ Top(t)' = g
         /\ \A s \in Threads : s # t => stack'[s] = stack[s]
         /\ \A m : m \in StrongNodes' <=> m \in StrongNodes
         /\ \A n : Ends(t, n)' <=> g.at \in CountedOff /\ n = g.node
<1>1. PICK last \in BOOLEAN : last <=> Len(stack[t]) = 1
  OBVIOUS
<1>2. FrameOK(t, Top(t), TRUE, last) /\ Top(t) \in FrameType
  BY <1>1, TopIsSound, Frame1 DEF Sound, FrameOK
<1>3. Top(t).node \in live
  BY <1>2 DEF FrameOK
<1>4. FrameOK(t, g, TRUE, last)'
  <2>1. g.at \notin {"swap", "set", "members", "release"}
    BY DEF CountedOff
  <2>2. g.at \in Going => g.node \in live' /\ g.at \in CountedOff
    BY <1>3, <2>1 DEF Going, CountedOff
  <2> QED BY <1>2, <2>1, <2>2 DEF FrameOK, Going, CountedOff
<1>5. t \in live' <=> last /\ (g.at = "swap" \/ (g.node = t /\ g.at \in Going))
  <2>1. t \in live <=> last /\ g.node = t
    BY <1>1 DEF Sound, TemporariesAreSound, Going, CountedOff
  <2>2. g.node = t => last
    <3>1. Top(t).as # t
      BY <1>2, NodesAssumption DEF FrameType
    <3> QED BY <1>2, <3>1 DEF FrameOK
  <2>3. CASE g.at = "delete"
    <3>1. ~(g.at = "swap" \/ (g.node = t /\ g.at \in Going))
      BY <2>3 DEF Going, CountedOff
    <3> QED BY <2>1, <2>3, <3>1
  <2>4. CASE g.at # "delete"
    <3>1. g.at \in Going /\ g.at # "swap"
      BY <2>4 DEF Going, CountedOff
    <3> QED BY <2>1, <2>4, <3>1
  <2> QED BY <2>3, <2>4
<1>6. /\ live' \subseteq live /\ live \ live' \subseteq {Top(t).node}
      /\ alive' \subseteq Objects /\ raw' \subseteq Objects
  BY DEF Sound, ClientTypes
<1>7. /\ Sound' /\ ~Idle(t)' /\ Top(t)' = g
      /\ \A s \in Threads : s # t => stack'[s] = stack[s]
      /\ \A m : m \in StrongNodes' <=> m \in StrongNodes
  BY <1>1, <1>4, <1>5, <1>6, GoesOn
<1> QED BY <1>7 DEF Ends

LEMMA DestructorReturns ==
  ASSUME Sound, WellUsed, NEW t \in Threads, ~Idle(t),
         Top(t).at \in Going, cond' = cond, alive' = alive, raw' = raw,
         Done(t), live' = live \ {Top(t).node}
  PROVE  /\ Sound' /\ \A n : ~Ends(t, n)'
         /\ ~Idle(t)' => FoundOut(t)'
         /\ \A s \in Threads : s # t => stack'[s] = stack[s]
         /\ \A m \in live' : m \in StrongNodes' <=> m \in StrongNodes
<1>1. t \notin live'
  BY DEF Sound, TemporariesAreSound, Going, CountedOff
<1>2. /\ live' \subseteq live /\ live \ live' \subseteq {Top(t).node}
      /\ alive' \subseteq Objects /\ raw' \subseteq Objects
  BY DEF Sound, ClientTypes
<1>3. /\ Sound' /\ \A n : ~Ends(t, n)'
      /\ ~Idle(t)' => Top(t)'.at \in {"members", "set"}
      /\ \A s \in Threads : s # t => stack'[s] = stack[s]
      /\ \A m \in live' : m \in StrongNodes' <=> m \in StrongNodes
  BY <1>1, <1>2, Returns
<1> QED BY <1>3 DEF FoundOut

(* Every action of a policy keeps what holds of counts.                    *)
CountsInv == CountTypes /\ CountsAreSound

LEMMA ReleaseStrongKeeps ==
  ASSUME Sound, CountsInv, WellUsed, NEW t \in Threads, ReleaseStrong(t)
  PROVE  Sound' /\ CountsInv'
<1> DEFINE f == Top(t)
<1>1. /\ ~cond.links /\ ~Idle(t) /\ f.at = "release" /\ f.as \in Strong
      /\ cond' = cond /\ alive' = alive /\ raw' = raw
  BY DEF ReleaseStrong, At, Top
<1>2. f.at \in Going /\ f.at \notin CountedOff
  BY <1>1 DEF Going, CountedOff
<1>3. PICK n : n = f.node
  OBVIOUS
<1>4. PICK b : b = block[n]
  OBVIOUS
<1>5. /\ n \in live /\ n \in Nodes /\ Owner(n) = t /\ b \in Blocks /\ f \in FrameType
      /\ n \in StrongNodes /\ n \notin Leaving
  BY <1>1, <1>2, <1>3, <1>4, AtNode DEF CountsInv
<1>6. /\ info' = [info EXCEPT ![b] = Counted(@, TRUE, -1)]
      /\ IF info[b].strong = 1
         THEN Becomes(t, [f EXCEPT !.at = "get"]) /\ live' = live /\ block' = block
         ELSE Done(t) /\ live' = live \ {n} /\ block' = [block EXCEPT ![n] = 0]
  BY <1>3, <1>4 DEF ReleaseStrong, CountsLess, CountsGone, Top
<1>7. CountsAgree /\ Blocked /\ CountTypes /\ ClientTypes
  BY <1>1 DEF CountsInv, CountsAreSound, Blocked, Sound
<1>8. info' \in [Blocks -> InfoType]
  BY <1>5, <1>6, <1>7, DecrementTypes
<1>9. n \in StrongHolders(b) /\ info[b].strong \in Nat /\ info[b].strong # 0
  <2>1. n \in StrongHolders(b)
    BY <1>4, <1>5 DEF StrongHolders, Holders, Sharing
  <2> QED BY <1>5, <1>7, <2>1, BlockSays
<1>10. CASE info[b].strong = 1
  <2>1. PICK g \in FrameType : g = [f EXCEPT !.at = "get"]
    BY <1>5 DEF FrameType, Labels, Going, CountedOff
  <2>2. g.at = "get" /\ g.node = n /\ g.as = f.as
    BY <1>3, <1>5, <2>1 DEF FrameType
  <2>3. g.at \in CountedOff
    BY <2>2 DEF CountedOff
  <2>4. /\ Sound' /\ ~Idle(t)' /\ Top(t)' = g
        /\ \A s \in Threads : s # t => stack'[s] = stack[s]
        /\ \A m : m \in StrongNodes' <=> m \in StrongNodes
        /\ \A m : Ends(t, m)' <=> m = n
    BY <1>1, <1>2, <1>3, <1>6, <1>10, <2>1, <2>2, <2>3, DestructorGoesOn
  <2>5. \A m \in live : m # n => (m \in Leaving' <=> m \in Leaving)
    BY <1>1, <1>2, <1>3, <2>4, OthersLeave DEF CountsInv
  <2>6. n \in Leaving'
    BY <1>1, <1>2, <1>3, <2>4, OthersLeave DEF CountsInv
  <2>7. live' = live /\ block' = block
    BY <1>6, <1>10
  <2>8. /\ CountsAgree' /\ info'[b].strong = info[b].strong - One(TRUE)
        /\ \A c \in Blocks : c # b => info'[c] = info[c]
    BY ZenonT(40), <1>4, <1>5, <1>6, <1>7, <2>4, <2>5, <2>6, <2>7, LessCounts
  <2>9. FoundOut(t)'
    <3>1. block'[Top(t)'.node] = b
      BY <1>4, <2>2, <2>4, <2>7
    <3>2. info'[b].strong = 0
      BY <1>10, <2>8 DEF One
    <3> QED BY <2>2, <2>4, <3>1, <3>2 DEF FoundOut
  <2>10. Blocked' /\ CountTypes'
    BY <1>7, <1>8, <2>7 DEF Blocked, CountTypes
  <2>11. \A m : Ends(t, m)' => m = Top(t).node /\ block'[m] = block[m]
    BY <1>3, <2>4, <2>7
  <2>12. CountsAreSound'
    BY <1>1, <1>2, <1>3, <1>4, <2>4, <2>7, <2>8, <2>9, <2>10, <2>11, StepKeeps DEF CountsInv
  <2> QED BY <2>4, <2>10, <2>12 DEF CountsInv
<1>11. CASE info[b].strong # 1
  <2>1. live' = live \ {Top(t).node}
    BY <1>3, <1>6, <1>11
  <2>2. /\ Sound' /\ \A m : ~Ends(t, m)'
        /\ ~Idle(t)' => FoundOut(t)'
        /\ \A s \in Threads : s # t => stack'[s] = stack[s]
        /\ \A m \in live' : m \in StrongNodes' <=> m \in StrongNodes
    BY <1>1, <1>2, <1>6, <1>11, <2>1, DestructorReturns
  <2>3. \A m \in live : m # n => (m \in Leaving' <=> m \in Leaving)
    BY <1>1, <1>2, <1>3, <2>2, OthersLeave DEF CountsInv
  <2>4. PICK k \in StrongHolders(b) : k # n
    <3>1. StrongHolders(b) # {n}
      <4>1. Cardinality({n}) = 1
        BY FS_Singleton
      <4>2. info[b].strong = Cardinality(StrongHolders(b))
        BY <1>5, <1>7, CountsMean DEF BlockAgrees
      <4> QED BY <1>11, <4>1, <4>2
    <3> QED BY <1>9, <3>1
  <2>5. k \in live' /\ block[k] = b
    BY <1>3, <2>1, <2>4 DEF StrongHolders, Holders, Sharing
  <2>6. block' = [block EXCEPT ![n] = 0]
    BY <1>6, <1>11
  <2>7. \A m \in live : m # n => block'[m] = block[m]
    BY <2>6 DEF CountTypes, ClientTypes
  <2>8. live' \subseteq live /\ live \ live' \subseteq {n} /\ n \notin live'
    BY <1>3, <2>1
  <2>9. /\ CountsAgree'
        /\ \A c \in Blocks : c # b => info'[c] = info[c]
    <3>1. /\ \A m \in live' : block'[m] = block[m]
          /\ n \notin live' => \E m \in live' : block[m] = b
          /\ n \in live' => n \in Leaving'
      BY <2>5, <2>7, <2>8
    <3> QED BY ZenonT(40), <1>4, <1>5, <1>6, <1>7, <2>2, <2>3, <2>8, <3>1, LessCounts
  <2>10. Blocked' /\ CountTypes'
    BY <1>3, <1>5, <1>7, <1>8, <2>1, <2>6 DEF Blocked, CountTypes
  <2>11. CountsAreSound'
    BY <1>1, <1>2, <1>3, <1>4, <2>2, <2>7, <2>9, <2>10, StepKeeps DEF CountsInv
  <2> QED BY <2>2, <2>10, <2>11 DEF CountsInv
<1> QED BY <1>10, <1>11

LEMMA ReleaseWeakKeeps ==
  ASSUME Sound, CountsInv, WellUsed, NEW t \in Threads, ReleaseWeak(t)
  PROVE  Sound' /\ CountsInv'
<1> DEFINE f == Top(t)
<1>1. /\ ~cond.links /\ ~Idle(t) /\ f.at = "release" /\ f.as \notin Strong
      /\ cond' = cond /\ alive' = alive /\ raw' = raw
      /\ live' = live /\ block' = block
  BY DEF ReleaseWeak, At, Top
<1>2. f.at \in Going /\ f.at \notin CountedOff
  BY <1>1 DEF Going, CountedOff
<1>3. PICK n : n = f.node
  OBVIOUS
<1>4. PICK b : b = block[n]
  OBVIOUS
<1>5. /\ n \in live /\ n \in Nodes /\ Owner(n) = t /\ b \in Blocks /\ f \in FrameType
      /\ n \notin StrongNodes /\ n \notin Leaving
  BY <1>1, <1>2, <1>3, <1>4, AtNode DEF CountsInv
<1>6. /\ info' = [info EXCEPT ![b] = Counted(@, FALSE, -1)]
      /\ Becomes(t, [f EXCEPT !.at = "recheck"])
  BY <1>3, <1>4 DEF ReleaseWeak, CountsLess, Top
<1>7. CountsAgree /\ Blocked /\ CountTypes /\ ClientTypes
  BY <1>1 DEF CountsInv, CountsAreSound, Blocked, Sound
<1>8. info' \in [Blocks -> InfoType]
  BY <1>5, <1>6, <1>7, DecrementTypes
<1>9. PICK g \in FrameType : g = [f EXCEPT !.at = "recheck"]
  BY <1>5 DEF FrameType, Labels, Going, CountedOff
<1>10. g.at = "recheck" /\ g.node = n /\ g.as = f.as
  BY <1>3, <1>5, <1>9 DEF FrameType
<1>11. g.at \in CountedOff
  BY <1>10 DEF CountedOff
<1>12. /\ Sound' /\ ~Idle(t)' /\ Top(t)' = g
       /\ \A s \in Threads : s # t => stack'[s] = stack[s]
       /\ \A m : m \in StrongNodes' <=> m \in StrongNodes
       /\ \A m : Ends(t, m)' <=> m = n
  BY <1>1, <1>2, <1>3, <1>6, <1>9, <1>10, <1>11, DestructorGoesOn
<1>13. \A m \in live : m # n => (m \in Leaving' <=> m \in Leaving)
  BY <1>1, <1>2, <1>3, <1>12, OthersLeave DEF CountsInv
<1>14. n \in Leaving'
  BY <1>1, <1>2, <1>3, <1>12, OthersLeave DEF CountsInv
<1>15. CountsAgree' /\ \A c \in Blocks : c # b => info'[c] = info[c]
  BY <1>1, <1>4, <1>5, <1>6, <1>7, <1>12, <1>13, <1>14, LessCounts
<1>16. FoundOut(t)'
  BY <1>10, <1>12 DEF FoundOut
<1>17. Blocked' /\ CountTypes'
  BY <1>1, <1>7, <1>8 DEF Blocked, CountTypes
<1>18. \A m : Ends(t, m)' => m = Top(t).node /\ block'[m] = block[m]
  BY <1>1, <1>3, <1>12
<1>19. CountsAreSound'
  BY <1>1, <1>2, <1>3, <1>4, <1>12, <1>15, <1>16, <1>17, <1>18, StepKeeps DEF CountsInv
<1> QED BY <1>12, <1>17, <1>19 DEF CountsInv

(* A step that only goes on to the next label, with what it found out.     *)
LEMMA LooksKeeps ==
  ASSUME Sound, CountsInv, WellUsed, ~cond.links, NEW t \in Threads, ~Idle(t),
         Top(t).at \in CountedOff, UNCHANGED countVars, cond' = cond, alive' = alive,
         raw' = raw, live' = live,
         NEW CONSTANT g \in FrameType, g.node = Top(t).node, g.as = Top(t).as,
         g.at \in CountedOff \ {"recheck"}, Becomes(t, g),
         info[block[g.node]].strong = 0,
         g.at = "clear" => info[block[g.node]].weak > 0,
         g.at \in {"zap", "clear"} => info[block[g.node]].pointer = g.obj
  PROVE  Sound' /\ CountsInv'
<1>1. Top(t).at \in Going /\ g.at # "delete" /\ g.at # "recheck"
  BY DEF Going, CountedOff
<1>2. /\ Sound' /\ ~Idle(t)' /\ Top(t)' = g
      /\ \A s \in Threads : s # t => stack'[s] = stack[s]
      /\ \A m : m \in StrongNodes' <=> m \in StrongNodes
      /\ \A m : Ends(t, m)' <=> m = g.node
  BY <1>1, DestructorGoesOn
<1>3. Leaving' = Leaving
  <2>1. \A m : Ends(t, m)' <=> Ends(t, m)
    BY <1>2 DEF Ends
  <2> QED BY <1>2, <2>1, SameLeave DEF Sound
<1>4. block' = block /\ info' = info /\ CountsAgree /\ Blocked
  BY DEF countVars, CountsInv, CountsAreSound, Blocked
<1>5. CountsAgree'
  BY <1>2, <1>3, <1>4, SameCounts DEF CountsInv, Sound
<1>6. Blocked' /\ CountTypes'
  BY <1>4 DEF Blocked, CountTypes, CountsInv
<1>7. FoundOut(t)'
  BY <1>2, <1>4 DEF FoundOut
<1>8. PICK b : b = block[Top(t).node]
  OBVIOUS
<1>9. CountsAreSound'
  BY <1>1, <1>2, <1>4, <1>5, <1>6, <1>7, <1>8, StepKeeps DEF CountsInv
<1> QED BY <1>2, <1>6, <1>9 DEF CountsInv

(* The node loses its block, which is freed when no other node has it.     *)
LEMMA GoneKeeps ==
  ASSUME Sound, CountsInv, WellUsed, ~cond.links, NEW t \in Threads, ~Idle(t),
         Top(t).at \in CountedOff,
         Sound', cond' = cond, live' = live \ {Top(t).node},
         \A s \in Threads : s # t => stack'[s] = stack[s],
         \A n : ~Ends(t, n)', ~Idle(t)' => FoundOut(t)',
         \A m \in live' : m \in StrongNodes' <=> m \in StrongNodes,
         NEW CONSTANT b, b = block[Top(t).node],
         block' = [block EXCEPT ![Top(t).node] = 0],
         NEW CONSTANT i \in InfoType, info' = [info EXCEPT ![b] = i],
         i.strong = info[b].strong, i.weak = info[b].weak,
         i.used <=> \E m \in live' : block[m] = b
  PROVE  CountsInv'
<1>1. Top(t).at \in Going
  BY DEF Going
<1>2. PICK n : n = Top(t).node
  OBVIOUS
<1>3. n \in live /\ n \in Nodes /\ b \in Blocks /\ n \in Leaving
  BY <1>1, <1>2, AtNode DEF CountsInv
<1>4. CountsAgree /\ Blocked /\ CountTypes /\ ClientTypes
  BY DEF CountsInv, CountsAreSound, Blocked, Sound
<1>5. \A m : m # n => (m \in Leaving' <=> m \in Leaving)
  BY <1>1, <1>2, OthersLeave DEF CountsInv
<1>6. /\ \A m \in live : m # n => block'[m] = block[m]
      /\ info'[b] = i /\ \A c \in Blocks : c # b => info'[c] = info[c]
  BY <1>2, <1>3, <1>4 DEF CountTypes, ClientTypes
<1>7. CountsAgree'
  <2>1. /\ live' = live \ {n} /\ block[n] = b
        /\ \A m \in live' : block'[m] = block[m]
        /\ \A m \in live' : m \in Leaving' <=> m \in Leaving
    BY <1>2, <1>5, <1>6
  <2>2. info'[b].strong = info[b].strong /\ info'[b].weak = info[b].weak
    BY <1>6
  <2>3. info'[b].used <=> \E m \in live' : block[m] = b
    BY <1>6
  <2> QED BY <1>3, <1>4, <1>6, <2>1, <2>2, <2>3, GoneCounts
<1>8. CountTypes'
  BY <1>3, <1>4 DEF CountTypes
<1>9. Blocked'
  BY <1>2, <1>3, <1>4 DEF Blocked, CountTypes
<1>10. CountsAreSound'
  BY <1>1, <1>2, <1>4, <1>6, <1>7, <1>9, StepKeeps DEF CountsInv
<1> QED BY <1>8, <1>10 DEF CountsInv

LEMMA RecheckKeeps ==
  ASSUME Sound, CountsInv, WellUsed, NEW t \in Threads, Recheck(t)
  PROVE  Sound' /\ CountsInv'
<1> DEFINE f == Top(t)
<1>1. /\ ~Idle(t) /\ f.at = "recheck"
      /\ cond' = cond /\ alive' = alive /\ raw' = raw /\ info' = info
      /\ IF CountsStrong(f.node)
         THEN Done(t) /\ live' = live \ {f.node} /\ block' = [block EXCEPT ![f.node] = 0]
         ELSE Becomes(t, [f EXCEPT !.at = "get"]) /\ live' = live /\ block' = block
  BY DEF Recheck, At, Top, CountsGone
<1>2. f.at \in CountedOff /\ f.at \in Going
  BY <1>1 DEF Going, CountedOff
<1>3. ~cond.links /\ f \in FrameType
  BY <1>1, <1>2, TopIsSound, Frame1 DEF FrameOK, Sound
<1>4. PICK n : n = f.node
  OBVIOUS
<1>5. PICK b : b = block[n]
  OBVIOUS
<1>6. n \in live /\ n \in Nodes /\ b \in Blocks /\ n \in Leaving
  BY <1>1, <1>2, <1>3, <1>4, <1>5, AtNode DEF CountsInv
<1>7. CountsAgree /\ CountTypes /\ ClientTypes
  BY <1>3 DEF CountsInv, CountsAreSound, Sound
<1>8. info[b].strong \in Nat /\ (info[b].strong = 0 <=> StrongHolders(b) = {})
      /\ (info[b].used <=> Sharing(b) # {})
  BY <1>6, <1>7, BlockSays
<1>9. CASE CountsStrong(f.node)
  <2>1. Done(t) /\ live' = live \ {Top(t).node} /\ block' = [block EXCEPT ![Top(t).node] = 0]
    BY <1>1, <1>9
  <2>2. /\ Sound' /\ \A m : ~Ends(t, m)'
        /\ ~Idle(t)' => FoundOut(t)'
        /\ \A s \in Threads : s # t => stack'[s] = stack[s]
        /\ \A m \in live' : m \in StrongNodes' <=> m \in StrongNodes
    BY <1>1, <1>2, <2>1, DestructorReturns
  <2>3. PICK k : k \in StrongHolders(b)
    <3>1. info[b].strong > 0
      BY <1>4, <1>5, <1>9 DEF CountsStrong
    <3> QED BY <1>8, <3>1
  <2>4. k \in live' /\ block[k] = b
    BY <1>4, <1>6, <2>1, <2>3 DEF StrongHolders, Holders, Sharing
  <2>5. PICK i \in InfoType : i = info[b]
    BY <1>6, <1>7 DEF CountTypes
  <2>6. info' = [info EXCEPT ![b] = i]
    BY <1>1, <1>7, <2>5 DEF CountTypes
  <2>7. i.used <=> \E m \in live' : block[m] = b
    <3>1. Sharing(b) # {}
      BY <1>5, <1>6 DEF Sharing
    <3> QED BY <1>8, <2>4, <2>5, <3>1
  <2>8. b = block[Top(t).node] /\ i.strong = info[b].strong /\ i.weak = info[b].weak
    BY <1>4, <1>5, <2>5
  <2>9. /\ ~cond.links /\ ~Idle(t) /\ cond' = cond /\ Top(t).at \in CountedOff
        /\ live' = live \ {Top(t).node}
        /\ block' = [block EXCEPT ![Top(t).node] = 0]
    BY <1>1, <1>2, <1>3, <2>1
  <2> HIDE DEF f
  <2>10. CountsInv'
    BY <2>2, <2>6, <2>7, <2>8, <2>9, GoneKeeps
  <2> QED BY <2>2, <2>10
<1>10. CASE ~CountsStrong(f.node)
  <2>1. PICK g \in FrameType : g = [f EXCEPT !.at = "get"]
    BY <1>3 DEF FrameType, Labels, Going, CountedOff
  <2>2. g.at = "get" /\ g.node = f.node /\ g.as = f.as
    BY <1>3, <2>1 DEF FrameType
  <2>3. g.at \in CountedOff \ {"recheck"}
    BY <2>2 DEF CountedOff
  <2>4. info[block[g.node]].strong = 0
    <3>1. ~(info[b].strong > 0)
      BY <1>4, <1>5, <1>10 DEF CountsStrong
    <3> QED BY <1>4, <1>5, <1>8, <2>2, <3>1
  <2> QED BY <1>1, <1>2, <1>3, <1>10, <2>1, <2>2, <2>3, <2>4, LooksKeeps DEF countVars
<1> QED BY <1>9, <1>10

LEMMA GetKeeps ==
  ASSUME Sound, CountsInv, WellUsed, NEW t \in Threads, Get(t)
  PROVE  Sound' /\ CountsInv'
<1> DEFINE f == Top(t)
<1>1. /\ ~Idle(t) /\ f.at = "get"
      /\ cond' = cond /\ alive' = alive /\ raw' = raw /\ live' = live
      /\ UNCHANGED countVars
      /\ Becomes(t, [f EXCEPT !.at = "zap", !.obj = CountsPointer(f.node)])
  BY DEF Get, At, Top
<1>2. f.at \in CountedOff /\ f.at \in Going
  BY <1>1 DEF Going, CountedOff
<1>3. ~cond.links /\ f \in FrameType
  BY <1>1, <1>2, TopIsSound, Frame1 DEF FrameOK, Sound
<1>4. block[f.node] \in Blocks
  BY <1>1, <1>2, <1>3, AtNode DEF CountsInv
<1>5. PICK o \in Objects \cup {Null} : o = CountsPointer(f.node)
  BY <1>4 DEF CountsInv, CountTypes, InfoType, CountsPointer
<1>6. PICK g \in FrameType : g = [f EXCEPT !.at = "zap", !.obj = o]
  BY <1>3 DEF FrameType, Labels, Going, CountedOff
<1>7. g.at = "zap" /\ g.node = f.node /\ g.as = f.as /\ g.obj = o
  BY <1>3, <1>6 DEF FrameType
<1>8. g.at \in CountedOff \ {"recheck"}
  BY <1>7 DEF CountedOff
<1>9. FoundOut(t)
  BY <1>1, <1>3 DEF CountsInv, CountsAreSound
<1>10. info[block[g.node]].strong = 0 /\ info[block[g.node]].pointer = g.obj
  BY <1>1, <1>5, <1>7, <1>9 DEF FoundOut, CountsPointer
<1>11. Becomes(t, g)
  BY <1>1, <1>5, <1>6
<1> QED BY <1>1, <1>2, <1>3, <1>7, <1>8, <1>10, <1>11, LooksKeeps

(* The last pointer of an object, with weak ones or without.               *)
LEMMA ZapKeeps ==
  ASSUME Sound, CountsInv, WellUsed, NEW t \in Threads, Zap(t)
  PROVE  Sound' /\ CountsInv'
<1> DEFINE f == Top(t)
<1>1. /\ ~Idle(t) /\ f.at = "zap" /\ cond' = cond /\ alive' = alive /\ raw' = raw
      /\ IF info[block[f.node]].weak > 0
         THEN /\ Becomes(t, [f EXCEPT !.at = "clear"]) /\ live' = live
              /\ UNCHANGED countVars
         ELSE /\ info' = [info EXCEPT ![block[f.node]] = NoInfo]
              /\ block' = [block EXCEPT ![f.node] = 0]
              /\ Becomes(t, [f EXCEPT !.at = "delete"]) /\ live' = live \ {f.node}
  BY DEF Zap, At, Top, CountsFree
<1>2. f.at \in CountedOff /\ f.at \in Going
  BY <1>1 DEF Going, CountedOff
<1>3. ~cond.links /\ f \in FrameType
  BY <1>1, <1>2, TopIsSound, Frame1 DEF FrameOK, Sound
<1>4. PICK n : n = f.node
  OBVIOUS
<1>5. PICK b : b = block[n]
  OBVIOUS
<1>6. n \in live /\ n \in Nodes /\ b \in Blocks /\ n \in Leaving
  BY <1>1, <1>2, <1>3, <1>4, <1>5, AtNode DEF CountsInv
<1>7. CountsAgree /\ CountTypes /\ ClientTypes /\ FoundOut(t) /\ LastOnesDiffer
  BY <1>1, <1>3 DEF CountsInv, CountsAreSound, Sound
<1>8. info[b].strong = 0 /\ info[b].pointer = f.obj
  BY <1>1, <1>4, <1>5, <1>7 DEF FoundOut
<1>9. CASE info[block[f.node]].weak > 0
  <2>1. PICK g \in FrameType : g = [f EXCEPT !.at = "clear"]
    BY <1>3 DEF FrameType, Labels, Going, CountedOff
  <2>2. g.at = "clear" /\ g.node = f.node /\ g.as = f.as /\ g.obj = f.obj
    BY <1>3, <2>1 DEF FrameType
  <2>3. g.at \in CountedOff \ {"recheck"}
    BY <2>2 DEF CountedOff
  <2>4. /\ info[block[g.node]].strong = 0 /\ info[block[g.node]].weak > 0
        /\ info[block[g.node]].pointer = g.obj
    BY <1>4, <1>5, <1>8, <1>9, <2>2
  <2> QED BY <1>1, <1>2, <1>3, <1>9, <2>1, <2>2, <2>3, <2>4, LooksKeeps
<1>10. CASE ~(info[block[f.node]].weak > 0)
  <2>1. PICK g \in FrameType : g = [f EXCEPT !.at = "delete"]
    BY <1>3 DEF FrameType, Labels, Going, CountedOff
  <2>2. g.at = "delete" /\ g.node = Top(t).node /\ g.as = Top(t).as
    BY <1>3, <2>1 DEF FrameType
  <2>3. g.at \notin CountedOff
    BY <2>2 DEF CountedOff
  <2>4. Becomes(t, g) /\ live' = live \ {Top(t).node}
    BY <1>1, <1>10, <2>1
  <2>5. /\ Sound' /\ ~Idle(t)' /\ Top(t)' = g
        /\ \A s \in Threads : s # t => stack'[s] = stack[s]
        /\ \A m : m \in StrongNodes' <=> m \in StrongNodes
        /\ \A m : ~Ends(t, m)'
    BY <1>1, <1>2, <2>2, <2>3, <2>4, DestructorGoesOn
  <2>6. info[b].weak = 0 /\ StrongHolders(b) = {} /\ WeakHolders(b) = {}
    <3>1. ~(info[b].weak > 0)
      BY <1>4, <1>5, <1>10
    <3> QED BY <1>6, <1>7, <1>8, <3>1, BlockSays
  <2>7. ASSUME NEW m \in live', block[m] = b PROVE FALSE
    <3>1. m \in live /\ m # n
      BY <1>4, <2>4
    <3>2. m \in Leaving
      BY <2>6, <2>7, <3>1 DEF StrongHolders, WeakHolders, Holders, Sharing
    <3>3. PICK s \in Threads : Ends(s, m)
      BY <3>2, LeavingMeans DEF LeavingNodesEnd, Sound
    <3>4. Ends(t, n)
      BY <1>1, <1>2, <1>4 DEF Ends
    <3>5. s # t
      BY <3>1, <3>3, <3>4 DEF Ends
    <3>6. m \in Nodes
      BY <3>1, <1>7 DEF ClientTypes
    <3> QED BY <1>5, <1>6, <1>7, <2>7, <3>3, <3>4, <3>5, <3>6 DEF LastOnesDiffer
  <2>8. PICK i \in InfoType : i = NoInfo
    <3>1. NoInfo \in InfoType
      BY DEF NoInfo, InfoType
    <3> HIDE DEF NoInfo
    <3> QED BY <3>1
  <2>9. i.used = FALSE /\ i.strong = 0 /\ i.weak = 0
    BY <2>8 DEF NoInfo
  <2>10. info' = [info EXCEPT ![b] = i] /\ block' = [block EXCEPT ![Top(t).node] = 0]
    BY <1>1, <1>4, <1>5, <1>10, <2>8
  <2>11. ~Idle(t)' => FoundOut(t)'
    BY <2>2, <2>5 DEF FoundOut
  <2>12. CountsInv'
    <3>1. i.used <=> \E m \in live' : block[m] = b
      BY <2>7, <2>9
    <3>2. i.strong = info[b].strong /\ i.weak = info[b].weak
      BY <1>8, <2>6, <2>9
    <3>3. \A m \in live' : m \in StrongNodes' <=> m \in StrongNodes
      BY <2>5
    <3> QED BY <1>1, <1>2, <1>3, <1>4, <1>5, <2>4, <2>5, <2>10, <2>11, <3>1, <3>2, <3>3, GoneKeeps
  <2> QED BY <2>5, <2>12
<1> QED BY <1>9, <1>10

LEMMA ClearKeeps ==
  ASSUME Sound, CountsInv, WellUsed, NEW t \in Threads, Clear(t)
  PROVE  Sound' /\ CountsInv'
<1> DEFINE f == Top(t)
<1>1. /\ ~Idle(t) /\ f.at = "clear" /\ cond' = cond /\ alive' = alive /\ raw' = raw
      /\ info' = [info EXCEPT ![block[f.node]].pointer = Null]
      /\ block' = [block EXCEPT ![f.node] = 0]
      /\ Becomes(t, [f EXCEPT !.at = "delete"]) /\ live' = live \ {f.node}
  BY DEF Clear, At, Top, CountsGone
<1>2. f.at \in CountedOff /\ f.at \in Going
  BY <1>1 DEF Going, CountedOff
<1>3. ~cond.links /\ f \in FrameType
  BY <1>1, <1>2, TopIsSound, Frame1 DEF FrameOK, Sound
<1>4. PICK n : n = f.node
  OBVIOUS
<1>5. PICK b : b = block[n]
  OBVIOUS
<1>6. n \in live /\ n \in Nodes /\ b \in Blocks /\ n \in Leaving
  BY <1>1, <1>2, <1>3, <1>4, <1>5, AtNode DEF CountsInv
<1>7. CountsAgree /\ CountTypes /\ ClientTypes /\ FoundOut(t)
  BY <1>1, <1>3 DEF CountsInv, CountsAreSound, Sound
<1>8. info[b].weak > 0
  BY <1>1, <1>4, <1>5, <1>7 DEF FoundOut
<1>9. PICK g \in FrameType : g = [f EXCEPT !.at = "delete"]
  BY <1>3 DEF FrameType, Labels, Going, CountedOff
<1>10. g.at = "delete" /\ g.node = Top(t).node /\ g.as = Top(t).as
  BY <1>3, <1>9 DEF FrameType
<1>11. g.at \notin CountedOff
  BY <1>10 DEF CountedOff
<1>12. /\ Sound' /\ ~Idle(t)' /\ Top(t)' = g
       /\ \A s \in Threads : s # t => stack'[s] = stack[s]
       /\ \A m : m \in StrongNodes' <=> m \in StrongNodes
       /\ \A m : ~Ends(t, m)'
  BY <1>1, <1>2, <1>9, <1>10, <1>11, DestructorGoesOn
<1>13. PICK j \in InfoType : j = info[b]
  BY <1>6, <1>7 DEF CountTypes
<1>14. PICK i \in InfoType : i = [j EXCEPT !.pointer = Null]
  BY DEF InfoType
<1>15. i.strong = info[b].strong /\ i.weak = info[b].weak
  BY <1>13, <1>14 DEF InfoType
<1>16. i.used = info[b].used
  BY <1>13, <1>14 DEF InfoType
<1>17. info' = [info EXCEPT ![b] = i]
  BY <1>1, <1>4, <1>5, <1>13, <1>14
<1>18. PICK k : k \in WeakHolders(b)
  <2>1. info[b].weak # 0
    BY <1>8
  <2> QED BY <1>6, <1>7, <2>1, BlockSays
<1>19. k \in live' /\ block[k] = b /\ Sharing(b) # {}
  BY <1>1, <1>4, <1>6, <1>18 DEF WeakHolders, Holders, Sharing
<1>20. i.used <=> \E m \in live' : block[m] = b
  BY <1>6, <1>7, <1>16, <1>19, BlockSays
<1>21. ~Idle(t)' => FoundOut(t)'
  BY <1>10, <1>12 DEF FoundOut
<1>22. \A m \in live' : m \in StrongNodes' <=> m \in StrongNodes
  BY <1>12
<1>23. /\ b = block[Top(t).node] /\ live' = live \ {Top(t).node}
       /\ block' = [block EXCEPT ![Top(t).node] = 0]
       /\ ~cond.links /\ ~Idle(t) /\ cond' = cond /\ Top(t).at \in CountedOff
  BY <1>1, <1>2, <1>3, <1>4, <1>5
<1> HIDE DEF f
<1>24. CountsInv'
  BY <1>12, <1>15, <1>17, <1>20, <1>21, <1>22, <1>23, GoneKeeps
<1> QED BY <1>12, <1>24
-----------------------------------------------------------------------------
(* Links.                                                                  *)

LEMMA LinkedNew ==
  ASSUME LinkTypes, live \subseteq Nodes, LinksAgree, NEW n \in Nodes, n \notin live,
         NEW o \in Objects \cup {Null}, LinksNew(n, o), live' = live \cup {n}
  PROVE  LinkTypes' /\ LinksAgree'
<1>1. LinkTypes'
  BY DEF LinkTypes, LinksNew
<1>2. prev'[n] = n /\ next'[n] = n
  BY DEF LinkTypes, LinksNew
<1>3. \A m \in live : prev'[m] = prev[m] /\ next'[m] = next[m] /\ pointer'[m] = pointer[m]
  BY DEF LinkTypes, LinksNew
<1> QED BY <1>1, <1>2, <1>3 DEF LinksAgree

LEMMA LinkedShare ==
  ASSUME LinkTypes, live \subseteq Nodes, LinksAgree, NEW n \in Nodes, n \notin live,
         NEW q \in live, LinksShare(n, q), live' = live \cup {n}
  PROVE  LinkTypes' /\ LinksAgree'
<1> DEFINE r == next[q]
<1>1. r \in live /\ prev[r] = q /\ pointer[r] = pointer[q] /\ q \in Nodes /\ r \in Nodes
  BY DEF LinksAgree
<1>2. LinkTypes'
  BY <1>1 DEF LinkTypes, LinksShare
<1>3. /\ pointer' = [pointer EXCEPT ![n] = pointer[q]]
      /\ prev' = [prev EXCEPT ![n] = q, ![r] = n]
      /\ next' = [next EXCEPT ![n] = r, ![q] = n]
  BY DEF LinksShare
<1> HIDE DEF r
<1>4. /\ prev'[n] = q /\ prev'[r] = n /\ next'[n] = r /\ next'[q] = n
      /\ pointer'[n] = pointer[q]
      /\ \A m \in live : m # r => prev'[m] = prev[m]
      /\ \A m \in live : m # q => next'[m] = next[m]
      /\ \A m \in live : pointer'[m] = pointer[m]
  BY <1>1, <1>3 DEF LinkTypes
<1>5. next[q] = r
  BY DEF r
<1> QED BY <1>1, <1>2, <1>4, <1>5 DEF LinksAgree

LEMMA LinkedLeave ==
  ASSUME LinkTypes, live \subseteq Nodes, LinksAgree, NEW n \in live,
         next[n] # n, LinksLeave(n), live' = live \ {n}
  PROVE  LinkTypes' /\ LinksAgree'
<1> DEFINE r == next[n]
           l == prev[n]
<1>1. /\ r \in live /\ l \in live /\ prev[r] = n /\ next[l] = n /\ r # n /\ l # n
      /\ pointer[r] = pointer[n] /\ pointer[n] = pointer[l]
      /\ next[n] = r /\ prev[n] = l
  BY DEF LinksAgree
<1>2. /\ next' = [next EXCEPT ![l] = r, ![n] = Null]
      /\ prev' = [prev EXCEPT ![r] = l, ![n] = Null]
      /\ pointer' = [pointer EXCEPT ![n] = Null]
  BY DEF LinksLeave
<1> HIDE DEF r, l
<1>3. LinkTypes'
  BY <1>1, <1>2 DEF LinkTypes
<1>4. /\ next'[l] = r /\ prev'[r] = l
      /\ \A m \in live : m # n => pointer'[m] = pointer[m]
      /\ \A m \in live : m # n /\ m # r => prev'[m] = prev[m]
      /\ \A m \in live : m # n /\ m # l => next'[m] = next[m]
  BY <1>1, <1>2 DEF LinkTypes
<1> QED BY <1>1, <1>3, <1>4 DEF LinksAgree

(* Nodes change places in their cycles.                                    *)
LEMMA LinkedNeighbours ==
  ASSUME LinkTypes, live \subseteq Nodes, LinksAgree, NEW a \in live, NEW b \in live, a # b,
         next[a] = b, SwapNeighbours(a, b),
         pointer' = [pointer EXCEPT ![a] = pointer[b], ![b] = pointer[a]], live' = live
  PROVE  LinkTypes' /\ LinksAgree'
<1>1. pointer[a] = pointer[b] /\ prev[b] = a
  BY DEF LinksAgree
<1>2. pointer' = pointer
  BY <1>1 DEF LinkTypes
<1>3. CASE next[b] = a
  BY <1>2, <1>3 DEF SwapNeighbours, LinksAgree, LinkTypes
<1>4. CASE next[b] # a
  <2> DEFINE l == prev[a]
             r == next[b]
  <2>1. /\ l \in live /\ r \in live /\ next[l] = a /\ prev[r] = b /\ prev[a] = l /\ next[b] = r
        /\ l # a /\ l # b /\ r # a /\ r # b
    BY <1>1, <1>4 DEF LinksAgree
  <2>2. /\ next' = [next EXCEPT ![l] = b, ![b] = a, ![a] = r]
        /\ prev' = [prev EXCEPT ![r] = a, ![a] = b, ![b] = l]
    BY <1>4 DEF SwapNeighbours
  <2> HIDE DEF l, r
  <2>3. LinkTypes'
    BY <1>2, <2>1, <2>2 DEF LinkTypes
  <2>4. /\ next'[l] = b /\ next'[b] = a /\ next'[a] = r
        /\ prev'[r] = a /\ prev'[a] = b /\ prev'[b] = l
        /\ \A m \in live : m \notin {a, b, l} => next'[m] = next[m]
        /\ \A m \in live : m \notin {a, b, r} => prev'[m] = prev[m]
    BY <2>1, <2>2 DEF LinkTypes
  <2> QED BY <1>1, <1>2, <2>1, <2>3, <2>4 DEF LinksAgree
<1> QED BY <1>3, <1>4

LEMMA LinkedMove ==
  ASSUME LinkTypes, live \subseteq Nodes, LinksAgree, NEW a \in live, NEW b \in live, a # b,
         next[a] = a, next[b] # b, MoveCycle(a, b),
         pointer' = [pointer EXCEPT ![a] = pointer[b], ![b] = pointer[a]], live' = live
  PROVE  LinkTypes' /\ LinksAgree'
<1> DEFINE l == prev[b]
           r == next[b]
<1>1. /\ l \in live /\ r \in live /\ next[l] = b /\ prev[r] = b /\ prev[b] = l /\ next[b] = r
      /\ prev[a] = a /\ l # a /\ l # b /\ r # a /\ r # b
      /\ pointer[r] = pointer[b] /\ pointer[l] = pointer[b]
  BY DEF LinksAgree
<1>2. /\ next' = [next EXCEPT ![a] = r, ![l] = a, ![b] = b]
      /\ prev' = [prev EXCEPT ![a] = l, ![r] = a, ![b] = b]
  BY DEF MoveCycle
<1> HIDE DEF l, r
<1>3. LinkTypes'
  BY <1>1, <1>2 DEF LinkTypes
<1>4. /\ next'[a] = r /\ next'[l] = a /\ next'[b] = b
      /\ prev'[a] = l /\ prev'[r] = a /\ prev'[b] = b
      /\ \A m \in live : m \notin {a, b, l} => next'[m] = next[m]
      /\ \A m \in live : m \notin {a, b, r} => prev'[m] = prev[m]
      /\ \A m \in live : m \notin {a, b} => pointer'[m] = pointer[m]
      /\ pointer'[a] = pointer[b] /\ pointer'[b] = pointer[a]
  BY <1>1, <1>2 DEF LinkTypes
<1>5. \A m \in live : /\ prev[m] \in live /\ next[m] \in live
                      /\ prev[next[m]] = m /\ next[prev[m]] = m
                      /\ pointer[next[m]] = pointer[m]
  BY DEF LinksAgree
<1>7. \A m \in live : {prev'[m], next'[m]} \subseteq live
  BY <1>1, <1>4, <1>5
<1>8. ASSUME NEW m \in live
      PROVE  prev'[next'[m]] = m /\ pointer'[next'[m]] = pointer'[m]
  <2>1. CASE m = a
    BY <1>1, <1>4, <2>1
  <2>2. CASE m = b
    BY <1>4, <2>2
  <2>3. CASE m = l
    BY <1>1, <1>4, <2>3
  <2>4. CASE m \notin {a, b, l}
    <3>1. next[m] \in live /\ next[m] \notin {a, b, r} /\ next'[m] = next[m]
      BY <1>1, <1>4, <1>5, <2>4
    <3>2. prev'[next[m]] = prev[next[m]]
      BY <1>4, <3>1
    <3>3. pointer'[next[m]] = pointer[next[m]] /\ pointer'[m] = pointer[m]
      BY <1>4, <2>4, <3>1
    <3> QED BY <1>5, <3>1, <3>2, <3>3
  <2> QED BY <2>1, <2>2, <2>3, <2>4
<1>9. ASSUME NEW m \in live PROVE next'[prev'[m]] = m
  <2>1. CASE m = a
    BY <1>1, <1>4, <2>1
  <2>2. CASE m = b
    BY <1>4, <2>2
  <2>3. CASE m = r
    BY <1>1, <1>4, <2>3
  <2>4. CASE m \notin {a, b, r}
    <3>1. prev[m] \in live /\ prev[m] \notin {a, b, l} /\ prev'[m] = prev[m]
      BY <1>1, <1>4, <1>5, <2>4
    <3> QED BY <1>4, <1>5, <2>4, <3>1
  <2> QED BY <2>1, <2>2, <2>3, <2>4
<1> QED BY <1>3, <1>7, <1>8, <1>9 DEF LinksAgree

LEMMA LinkedElsewhere ==
  ASSUME LinkTypes, live \subseteq Nodes, LinksAgree, NEW a \in live, NEW b \in live, a # b,
         next[a] # a, next[b] # b, next[a] # b, prev[a] # b, Elsewhere(a, b),
         pointer' = [pointer EXCEPT ![a] = pointer[b], ![b] = pointer[a]], live' = live
  PROVE  LinkTypes' /\ LinksAgree'
<1> DEFINE i == prev[a]
           j == next[a]
           k == prev[b]
           l == next[b]
<1>1. /\ {i, j, k, l} \subseteq live
      /\ prev[a] = i /\ next[i] = a /\ next[a] = j /\ prev[j] = a
      /\ prev[b] = k /\ next[k] = b /\ next[b] = l /\ prev[l] = b
      /\ pointer[j] = pointer[a] /\ pointer[i] = pointer[a]
      /\ pointer[k] = pointer[b] /\ pointer[l] = pointer[b]
  BY DEF LinksAgree
<1>2. i \notin {a, b} /\ j \notin {a, b} /\ k \notin {a, b} /\ l \notin {a, b} /\ i # k /\ j # l
  BY <1>1 DEF LinksAgree
<1>3. /\ next' = [next EXCEPT ![a] = l, ![b] = j, ![i] = b, ![k] = a]
      /\ prev' = [prev EXCEPT ![a] = k, ![b] = i, ![j] = b, ![l] = a]
  BY <1>1 DEF Elsewhere
<1> HIDE DEF i, j, k, l
<1>4. LinkTypes'
  BY <1>1, <1>3 DEF LinkTypes
<1>5. /\ next'[a] = l /\ next'[b] = j /\ next'[i] = b /\ next'[k] = a
      /\ prev'[a] = k /\ prev'[b] = i /\ prev'[j] = b /\ prev'[l] = a
  BY <1>1, <1>2, <1>3 DEF LinkTypes
<1>6. /\ \A m \in live : m \notin {a, b, i, k} => next'[m] = next[m]
      /\ \A m \in live : m \notin {a, b, j, l} => prev'[m] = prev[m]
      /\ \A m \in live : m \notin {a, b} => pointer'[m] = pointer[m]
      /\ pointer'[a] = pointer[b] /\ pointer'[b] = pointer[a]
  BY <1>3 DEF LinkTypes
<1>7. \A m \in live : {prev'[m], next'[m]} \subseteq live
  BY <1>1, <1>5, <1>6 DEF LinksAgree
<1>8. \A m \in live : prev'[next'[m]] = m
  BY <1>1, <1>2, <1>5, <1>6 DEF LinksAgree
<1>9. \A m \in live : next'[prev'[m]] = m
  BY <1>1, <1>2, <1>5, <1>6 DEF LinksAgree
<1>10. \A m \in live : pointer'[next'[m]] = pointer'[m]
  <2> TAKE m \in live
  <2>1. next[m] \in live /\ pointer[next[m]] = pointer[m] /\ prev[next[m]] = m
    BY DEF LinksAgree
  <2>2. CASE m \notin {a, b, i, k}
    <3>1. next[m] \notin {a, b} /\ next'[m] = next[m]
      BY <1>1, <1>6, <2>1, <2>2
    <3> QED BY <1>6, <2>1, <2>2, <3>1
  <2>3. CASE m = a
    <3>1. pointer'[l] = pointer[l]
      BY <1>1, <1>2, <1>6
    <3> QED BY <1>1, <1>5, <1>6, <2>3, <3>1
  <2>4. CASE m = b
    <3>1. pointer'[j] = pointer[j]
      BY <1>1, <1>2, <1>6
    <3> QED BY <1>1, <1>5, <1>6, <2>4, <3>1
  <2>5. CASE m = i
    <3>1. pointer'[i] = pointer[i]
      BY <1>1, <1>2, <1>6
    <3> QED BY <1>1, <1>5, <1>6, <2>5, <3>1
  <2>6. CASE m = k
    <3>1. pointer'[k] = pointer[k]
      BY <1>1, <1>2, <1>6
    <3> QED BY <1>1, <1>5, <1>6, <2>6, <3>1
  <2> QED BY <2>2, <2>3, <2>4, <2>5, <2>6
<1> QED BY <1>4, <1>7, <1>8, <1>9, <1>10 DEF LinksAgree

LEMMA LinkedSwap ==
  ASSUME LinkTypes, live \subseteq Nodes, LinksAgree, NEW a \in live, NEW b \in live, a # b,
         LinksSwap(a, b), live' = live
  PROVE  LinkTypes' /\ LinksAgree'
<1>1. pointer' = [pointer EXCEPT ![a] = pointer[b], ![b] = pointer[a]]
  BY DEF LinksSwap
<1> DEFINE Swapping ==
      \/ next[a] = a /\ next[b] = b /\ UNCHANGED <<prev, next>>
      \/ next[a] = a /\ next[b] # b /\ MoveCycle(a, b)
      \/ next[a] # a /\ next[b] = b /\ MoveCycle(b, a)
      \/ next[a] = b /\ SwapNeighbours(a, b)
      \/ next[a] # b /\ prev[a] = b /\ SwapNeighbours(b, a)
      \/ /\ next[a] \notin {a, b} /\ next[b] # b /\ prev[a] # b
         /\ Elsewhere(a, b)
<1>10. Swapping
  BY DEF LinksSwap
<1>11. /\ prev[a] = b <=> next[b] = a
       /\ next[a] = a <=> prev[a] = a
       /\ next[b] = b <=> prev[b] = b
       /\ next[a] = b <=> prev[b] = a
  BY DEF LinksAgree
<1>2. CASE next[a] = a /\ next[b] = b
  <2>1. UNCHANGED <<prev, next>>
    BY <1>2, <1>10, <1>11 
  <2>2. prev[a] = a /\ prev[b] = b
    BY <1>2 DEF LinksAgree
  <2>3. LinkTypes'
    BY <1>1, <2>1 DEF LinkTypes
  <2>4. \A m \in live : m \notin {a, b} => pointer'[m] = pointer[m] /\ next[m] \notin {a, b}
    BY <1>1, <1>2, <2>2 DEF LinkTypes, LinksAgree
  <2> QED BY <1>2, <2>1, <2>2, <2>3, <2>4 DEF LinksAgree
<1>3. CASE next[a] = a /\ next[b] # b
  <2>1. MoveCycle(a, b)
    BY <1>3, <1>10, <1>11
  <2> QED BY <1>1, <1>3, <2>1, LinkedMove
<1>4. CASE next[a] # a /\ next[b] = b
  <2>1. MoveCycle(b, a)
    BY <1>4, <1>10, <1>11
  <2>2. pointer' = [pointer EXCEPT ![b] = pointer[a], ![a] = pointer[b]]
    BY <1>1
  <2> QED BY <1>4, <2>1, <2>2, LinkedMove
<1>5. CASE next[a] # a /\ next[b] # b /\ next[a] = b
  <2>1. SwapNeighbours(a, b)
    BY <1>5, <1>10, <1>11
  <2> QED BY <1>1, <1>5, <2>1, LinkedNeighbours
<1>6. CASE next[a] # a /\ next[b] # b /\ next[a] # b /\ prev[a] = b
  <2>1. SwapNeighbours(b, a)
    BY <1>6, <1>10, <1>11
  <2>2. next[b] = a
    BY <1>6 DEF LinksAgree
  <2>3. pointer' = [pointer EXCEPT ![b] = pointer[a], ![a] = pointer[b]]
    BY <1>1
  <2> QED BY <2>1, <2>2, <2>3, LinkedNeighbours
<1>7. CASE next[a] # a /\ next[b] # b /\ next[a] # b /\ prev[a] # b
  <2>1. Elsewhere(a, b)
    BY <1>7, <1>10, <1>11
  <2> QED BY <1>1, <1>7, <2>1, LinkedElsewhere
<1> QED BY <1>2, <1>3, <1>4, <1>5, <1>6, <1>7
-----------------------------------------------------------------------------
(* A walk comes around to where it began.                                  *)

LEMMA LeastOf ==
  ASSUME NEW T, T \subseteq Nat, T # {}
  PROVE  \E x \in T : \A y \in T : x <= y
<1>1. PICK x \in T : \A y \in T : ~ (<<y, x>> \in OpToRel(<, Nat))
  BY NatLessThanWellFounded, WFMin
<1>2. \A y \in T : y < x => <<y, x>> \in OpToRel(<, Nat)
  BY DEF OpToRel
<1>3. ASSUME NEW y \in T PROVE x <= y
  <2>1. ~(y < x)
    BY <1>1, <1>2
  <2> QED BY <2>1
<1> QED BY <1>3

LEMMA UpTo ==
  ASSUME NEW n \in Nat, NEW S, 0 \in S,
         \A i \in 1 .. n : i - 1 \in S => i \in S
  PROVE  0 .. n \subseteq S
<1> SUFFICES ASSUME NEW m \in 0 .. n, m \notin S PROVE FALSE
  OBVIOUS
<1> DEFINE T == {i \in 0 .. n : i \notin S}
<1>1. T \subseteq Nat /\ m \in T
  OBVIOUS
<1>2. PICK x \in T : \A y \in T : x <= y
  <2> HIDE DEF T
  <2> QED BY <1>1, LeastOf
<1>3. x \in 1 .. n /\ x - 1 \in 0 .. n /\ x - 1 \notin T
  BY <1>2
<1> QED BY <1>2, <1>3

IsWalk(g, link, n, k) == g = [i \in 0 .. k |-> IF i = 0 THEN n ELSE Along(link, g[i - 1])]

LEMMA StepsExist ==
  ASSUME NEW link, NEW n, NEW k \in Nat
  PROVE  \E g : IsWalk(g, link, n, k)
<1> DEFINE Is(g, m) == IsWalk(g, link, n, m)
           S == {m \in 0 .. k : \E g : Is(g, m)}
<1>1. 0 \in S
  <2>1. Is([i \in 0 .. 0 |-> n], 0)
    BY DEF IsWalk
  <2> HIDE DEF Is
  <2>2. \E g : Is(g, 0)
    BY <2>1
  <2> QED BY <2>2
<1>2. ASSUME NEW m \in 1 .. k, m - 1 \in S PROVE m \in S
  <2>1. PICK g : Is(g, m - 1)
    BY <1>2
  <2> DEFINE h == [i \in 0 .. m |-> IF i = 0 THEN n ELSE Along(link, g[i - 1])]
  <2>2. \A i \in 0 .. m - 1 : h[i] = g[i]
    BY <2>1 DEF IsWalk
  <2>3. \A i \in 1 .. m : i - 1 \in 0 .. m - 1
    OBVIOUS
  <2>4. Is(h, m)
    BY SMTT(30), <2>2, <2>3 DEF IsWalk
  <2> HIDE DEF Is
  <2>5. \E gg : Is(gg, m)
    BY <2>4
  <2> QED BY <2>5
<1>3. k \in S
  <2> HIDE DEF S
  <2> QED BY <1>1, <1>2, UpTo
<1> QED BY <1>3

(* The most steps that a walk may need.                                    *)
Most == Cardinality(Nodes)

LEMMA MostIsNatural == Most \in Nat
BY NodesAssumption, FS_CardinalityType DEF Most

LEMMA StepsMean ==
  ASSUME NEW link, NEW n
  PROVE  /\ Steps(link, n) = [i \in 0 .. Most |->
              IF i = 0 THEN n ELSE Along(link, Steps(link, n)[i - 1])]
         /\ Walk(link, n) = {Steps(link, n)[i] : i \in 1 .. Most} \ {Null}
<1>1. \E g : IsWalk(g, link, n, Most)
  BY MostIsNatural, StepsExist
<1> QED BY <1>1 DEF Steps, Walk, Most, IsWalk

LEMMA CycleMeans ==
  ASSUME NEW there, NEW back, live \subseteq Nodes, NEW n \in live,
         \A m \in live : there[m] \in live /\ back[m] \in live,
         \A m \in live : back[there[m]] = m
  PROVE  /\ n \in Walk(there, n) /\ Walk(there, n) \subseteq live
         /\ \A m \in Walk(there, n) : there[m] \in Walk(there, n) /\ back[m] \in Walk(there, n)
<1> DEFINE at == Steps(there, n)
           W == Walk(there, n)
<1>1. Most \in Nat /\ IsFiniteSet(live) /\ Cardinality(live) <= Most /\ Null \notin live
  BY NodesAssumption, MostIsNatural, FS_Subset DEF Most
<1>2. at = [i \in 0 .. Most |-> IF i = 0 THEN n ELSE Along(there, at[i - 1])]
  BY StepsMean
<1>3. W = {at[i] : i \in 1 .. Most} \ {Null}
  BY StepsMean
<1> HIDE DEF at, W
<1>4. at[0] = n
  BY <1>1, <1>2
<1>5. \A i \in 1 .. Most : at[i] = Along(there, at[i - 1])
  BY <1>1, <1>2
<1>6. \A i \in 0 .. Most : at[i] \in live
  <2> DEFINE S == {i \in 0 .. Most : at[i] \in live}
  <2>1. 0 \in S
    BY <1>1, <1>4
  <2>2. ASSUME NEW i \in 1 .. Most, i - 1 \in S PROVE i \in S
    <3>1. at[i] = there[at[i - 1]]
      BY <1>1, <1>5, <2>2 DEF Along
    <3> QED BY <2>2, <3>1
  <2>3. 0 .. Most \subseteq S
    <3> HIDE DEF S
    <3> QED BY <1>1, <2>1, <2>2, UpTo
  <2> QED BY <2>3
<1>7. ASSUME NEW i \in 1 .. Most
      PROVE  /\ i - 1 \in 0 .. Most /\ at[i] = there[at[i - 1]] /\ back[at[i]] = at[i - 1]
  <2>1. i - 1 \in 0 .. Most
    BY <1>1
  <2>2. at[i] = there[at[i - 1]]
    BY <1>1, <1>5, <1>6, <2>1 DEF Along
  <2> QED BY <1>6, <2>1, <2>2
<1>8. PICK d \in 1 .. Most : at[d] = n
  <2> DEFINE T == {i \in 0 .. Most : \E j \in 0 .. Most : i < j /\ at[i] = at[j]}
  <2>1. at \in [0 .. Most -> live]
    BY <1>2, <1>6
  <2>2. IsFiniteSet(0 .. Most) /\ Cardinality(0 .. Most) = Most + 1
    BY <1>1, FS_Interval
  <2>3. Cardinality(live) \in Nat
    BY <1>1, FS_CardinalityType
  <2>4. PICK x \in 0 .. Most, y \in 0 .. Most : x # y /\ at[x] = at[y]
    <3>1. Cardinality(live) < Cardinality(0 .. Most)
      BY <1>1, <2>2, <2>3
    <3> QED BY <1>1, <2>1, <2>2, <3>1, FS_PigeonHole
  <2>5. x \in T \/ y \in T
    BY <1>1, <2>4
  <2>6. PICK i \in T : \A k \in T : i <= k
    <3>1. T \subseteq Nat /\ T # {}
      BY <1>1, <2>5
    <3> HIDE DEF T
    <3> QED BY <3>1, LeastOf
  <2>7. PICK j \in 0 .. Most : i < j /\ at[i] = at[j]
    BY <2>6
  <2>8. i = 0
    <3> SUFFICES ASSUME i # 0 PROVE FALSE
      OBVIOUS
    <3>1. i \in 1 .. Most /\ j \in 1 .. Most
      BY <1>1, <2>6, <2>7
    <3>2. at[i - 1] = at[j - 1]
      BY <1>7, <2>7, <3>1
    <3>3. i - 1 \in 0 .. Most /\ j - 1 \in 0 .. Most /\ i - 1 < j - 1 /\ ~(i <= i - 1)
      BY <1>1, <2>7, <3>1
    <3>4. i - 1 \in T
      BY <3>2, <3>3
    <3> QED BY <2>6, <3>3, <3>4
  <2>9. j \in 1 .. Most
    BY <1>1, <2>7, <2>8
  <2> QED BY <1>4, <2>7, <2>8, <2>9
<1>9. \A i \in 1 .. Most : at[i] \in W
  BY <1>1, <1>3, <1>6
<1>10. n \in W /\ W \subseteq live
  BY <1>1, <1>3, <1>6, <1>8, <1>9
<1>11. ASSUME NEW k \in 0 .. Most - d PROVE at[d + k] = at[k]
  <2> DEFINE S == {i \in 0 .. Most - d : at[d + i] = at[i]}
  <2>1. Most - d \in Nat
    BY <1>1
  <2>2. 0 \in S
    BY <1>1, <1>4, <1>8, <2>1
  <2>3. ASSUME NEW i \in 1 .. Most - d, i - 1 \in S PROVE i \in S
    <3>1. d + i \in 1 .. Most /\ (d + i) - 1 = d + (i - 1) /\ i \in 1 .. Most
      BY <1>1, <2>1
    <3>2. at[d + i] = there[at[d + (i - 1)]] /\ at[i] = there[at[i - 1]]
      BY <1>7, <3>1
    <3> QED BY <2>3, <3>2
  <2>4. 0 .. Most - d \subseteq S
    <3> HIDE DEF S
    <3> QED BY <2>1, <2>2, <2>3, UpTo
  <2> QED BY <2>4
<1>12. ASSUME NEW m \in W PROVE there[m] \in W /\ back[m] \in W
  <2>1. PICK i \in 1 .. Most : m = at[i]
    BY <1>3
  <2>2. back[m] \in W
    <3>1. CASE i = 1
      BY <1>4, <1>7, <1>10, <2>1, <3>1
    <3>2. CASE i # 1
      <4>1. i - 1 \in 1 .. Most
        BY <1>1, <3>2
      <4> QED BY <1>7, <1>9, <2>1, <4>1
    <3> QED BY <3>1, <3>2
  <2>3. there[m] \in W
    <3>1. CASE i # Most
      <4>1. i + 1 \in 1 .. Most /\ (i + 1) - 1 = i
        BY <1>1, <3>1
      <4> QED BY <1>7, <1>9, <2>1, <4>1
    <3>2. CASE i = Most
      <4>1. Most - d \in 0 .. Most - d /\ d + (Most - d) = Most
        BY <1>1
      <4>2. at[Most] = at[Most - d]
        BY <1>11, <4>1
      <4>3. (Most - d) + 1 \in 1 .. Most /\ ((Most - d) + 1) - 1 = Most - d
        BY <1>1
      <4>4. at[(Most - d) + 1] = there[at[Most - d]]
        BY <1>7, <4>3
      <4> QED BY <1>9, <2>1, <3>2, <4>2, <4>3, <4>4
    <3> QED BY <3>1, <3>2
  <2> QED BY <2>2, <2>3
<1> QED BY <1>10, <1>12 DEF W

(* The cycle of n and the other nodes are apart.                           *)
LEMMA Around ==
  ASSUME LinksAgree, live \subseteq Nodes, NEW n \in live
  PROVE  /\ n \in Walk(prev, n) /\ Walk(prev, n) \subseteq live
         /\ \A m \in Walk(prev, n) : prev[m] \in Walk(prev, n) /\ next[m] \in Walk(prev, n)
         /\ \A m \in live \ Walk(prev, n) :
              prev[m] \notin Walk(prev, n) /\ next[m] \notin Walk(prev, n)
<1>1. \A m \in live : /\ prev[m] \in live /\ next[m] \in live
                      /\ next[prev[m]] = m /\ prev[next[m]] = m
  BY DEF LinksAgree
<1>2. PICK there : there = prev
  OBVIOUS
<1>3. PICK back : back = next
  OBVIOUS
<1>4. /\ n \in Walk(there, n) /\ Walk(there, n) \subseteq live
      /\ \A m \in Walk(there, n) : there[m] \in Walk(there, n) /\ back[m] \in Walk(there, n)
  BY <1>1, <1>2, <1>3, CycleMeans
<1>5. /\ n \in Walk(prev, n) /\ Walk(prev, n) \subseteq live
      /\ \A m \in Walk(prev, n) : prev[m] \in Walk(prev, n) /\ next[m] \in Walk(prev, n)
  BY <1>2, <1>3, <1>4
<1> QED BY <1>1, <1>5

LEMMA LinkedZap ==
  ASSUME LinkTypes, live \subseteq Nodes, LinksAgree, NEW n \in live,
         LinksZap(n), live' = live \ {n}
  PROVE  LinkTypes' /\ LinksAgree'
<1> DEFINE W == Walk(prev, n)
<1>1. /\ n \in W /\ W \subseteq live
      /\ \A m \in W : prev[m] \in W /\ next[m] \in W
      /\ \A m \in live \ W : prev[m] \notin W /\ next[m] \notin W
  BY Around
<1>2. /\ next' = [m \in Nodes |->
                    IF m = n THEN Null ELSE IF m \in W \ {n} THEN m ELSE next[m]]
      /\ prev' = [m \in Nodes |->
                    IF m = n THEN Null ELSE IF m \in W \ {n} THEN m ELSE prev[m]]
      /\ pointer' = [m \in Nodes |-> IF m \in (W \ {n}) \cup {n} THEN Null ELSE pointer[m]]
  BY DEF LinksZap
<1> HIDE DEF W
<1>3. LinkTypes'
  BY <1>2 DEF LinkTypes
<1>4. ASSUME NEW m \in live'
      PROVE  /\ {prev'[m], next'[m]} \subseteq live'
             /\ next'[prev'[m]] = m /\ prev'[next'[m]] = m
             /\ pointer'[next'[m]] = pointer'[m]
  <2>1. CASE m \in W
    BY <1>1, <1>2, <2>1
  <2>2. CASE m \notin W
    <3>1. /\ prev[m] \in live /\ next[m] \in live /\ next[prev[m]] = m /\ prev[next[m]] = m
          /\ pointer[next[m]] = pointer[m]
      BY DEF LinksAgree
    <3>2. \A k \in live \ W : /\ next'[k] = next[k] /\ prev'[k] = prev[k]
                              /\ pointer'[k] = pointer[k]
      BY <1>1, <1>2
    <3>3. m \in live \ W /\ prev[m] \in live \ W /\ next[m] \in live \ W
      BY <1>1, <2>2, <3>1
    <3> QED BY <1>1, <3>1, <3>2, <3>3
  <2> QED BY <2>1, <2>2
<1> QED BY <1>3, <1>4 DEF LinksAgree

LEMMA WithOneMore ==
  ASSUME NEW S, IsFiniteSet(S), NEW k \in Nat, Cardinality(S) = k, NEW x, x \notin S,
         NEW T, T = S \cup {x}
  PROVE  IsFiniteSet(T) /\ Cardinality(T) = k + 1
BY FS_AddElement

LEMMA FourOf ==
  ASSUME NEW S, IsFiniteSet(S), Cardinality(S) <= 4,
         NEW a \in S, NEW b \in S, NEW c \in S, NEW d \in S,
         a # b, a # c, a # d, b # c, b # d, c # d
  PROVE  S = {a, b, c, d}
<1>0. /\ {a} = {} \cup {a} /\ a \notin {}
      /\ {a, b} = {a} \cup {b} /\ b \notin {a}
      /\ {a, b, c} = {a, b} \cup {c} /\ c \notin {a, b}
      /\ {a, b, c, d} = {a, b, c} \cup {d} /\ d \notin {a, b, c}
  OBVIOUS
<1>1. IsFiniteSet({}) /\ Cardinality({}) = 0
  BY FS_EmptySet
<1>2. IsFiniteSet({a}) /\ Cardinality({a}) = 1
  <2>1. IsFiniteSet({a}) /\ Cardinality({a}) = 0 + 1
    BY <1>0, <1>1, WithOneMore
  <2> QED BY <2>1
<1>3. IsFiniteSet({a, b}) /\ Cardinality({a, b}) = 2
  <2>1. IsFiniteSet({a, b}) /\ Cardinality({a, b}) = 1 + 1
    BY <1>0, <1>2, WithOneMore
  <2> QED BY <2>1
<1>4. IsFiniteSet({a, b, c}) /\ Cardinality({a, b, c}) = 3
  <2>1. IsFiniteSet({a, b, c}) /\ Cardinality({a, b, c}) = 2 + 1
    BY <1>0, <1>3, WithOneMore
  <2> QED BY <2>1
<1>5. IsFiniteSet({a, b, c, d}) /\ Cardinality({a, b, c, d}) = 3 + 1
  BY <1>0, <1>4, WithOneMore
<1>6. {a, b, c, d} \in SUBSET S /\ Cardinality(S) \in Nat
  BY FS_CardinalityType
<1>7. Cardinality({a, b, c, d}) <= Cardinality(S)
  BY <1>6, FS_Subset
<1>8. Cardinality(S) = Cardinality({a, b, c, d})
  BY <1>5, <1>6, <1>7
<1> QED BY <1>6, <1>8, FS_Subset

(* Cycles that are merged, of no more than four pointers altogether.       *)
LEMMA LinkedMerge ==
  ASSUME LinkTypes, live \subseteq Nodes, LinksAgree, NEW a \in live, NEW b \in live,
         pointer[a] = pointer[b], LinksMerge(a, b),
         UNCHANGED <<pointer, live>>,
         Cardinality(live) <= 4
  PROVE  LinkTypes' /\ LinksAgree'
<1> DEFINE W == Walk(prev, a)
           i == prev[a]
           j == next[a]
           k == prev[b]
           l == next[b]
<1>1. /\ a \in W /\ \A m \in W : prev[m] \in W /\ next[m] \in W
      /\ \A m \in live \ W : prev[m] \notin W /\ next[m] \notin W
  BY Around
<1>2. \A m \in live : /\ prev[m] \in live /\ next[m] \in live
                      /\ next[prev[m]] = m /\ prev[next[m]] = m
                      /\ pointer[next[m]] = pointer[m]
  BY DEF LinksAgree
<1>3. CASE b \in W
  BY <1>3 DEF LinksMerge, LinksAgree, LinkTypes
<1>4. CASE b \notin W
  <2>1. /\ {i, j, k, l} \subseteq live
        /\ prev[a] = i /\ next[i] = a /\ next[a] = j /\ prev[j] = a
        /\ prev[b] = k /\ next[k] = b /\ next[b] = l /\ prev[l] = b
        /\ pointer[j] = pointer[a] /\ pointer[i] = pointer[a]
        /\ pointer[k] = pointer[a] /\ pointer[l] = pointer[a]
    BY <1>2
  <2>2. /\ a \in W /\ i \in W /\ j \in W /\ b \notin W /\ k \notin W /\ l \notin W
    BY <1>1, <1>4
  <2>3. \/ /\ l = b
           /\ prev' = [prev EXCEPT ![b] = i, ![a] = b]
           /\ next' = [next EXCEPT ![i] = b, ![b] = a]
        \/ /\ j = a
           /\ prev' = [prev EXCEPT ![a] = k, ![b] = a]
           /\ next' = [next EXCEPT ![k] = a, ![a] = b]
        \/ /\ l # b /\ j # a
           /\ prev' = [prev EXCEPT ![j] = k, ![b] = a]
           /\ next' = [next EXCEPT ![k] = i, ![a] = b]
    BY <1>4 DEF LinksMerge
  <2>4. ASSUME l # b, j # a PROVE i = j /\ k = l /\ live = {a, b, j, l}
    <3>2. a # b /\ a # j /\ a # l /\ b # j /\ b # l /\ j # l /\ i # a /\ k # b
      BY <2>1, <2>2, <2>4
    <3>8. IsFiniteSet(live)
      BY NodesAssumption, FS_Subset
    <3>9. j \in live /\ l \in live
      BY <2>1
    <3>11. live = {a, b, j, l}
      <4> HIDE DEF i, j, k, l
      <4> QED BY <3>2, <3>8, <3>9, FourOf
    <3>12. i \in {a, b, j, l} /\ k \in {a, b, j, l}
      BY <2>1, <3>11
    <3> QED BY <2>2, <3>2, <3>11, <3>12
  <2> HIDE DEF W, i, j, k, l
  <2>5. LinkTypes'
    BY <2>1, <2>3 DEF LinkTypes
  <2>6. CASE /\ l = b
             /\ prev' = [prev EXCEPT ![b] = i, ![a] = b]
             /\ next' = [next EXCEPT ![i] = b, ![b] = a]
    <3>1. /\ prev'[a] = b /\ prev'[b] = i /\ next'[i] = b /\ next'[b] = a
          /\ \A m \in live : m \notin {a, b} => prev'[m] = prev[m]
          /\ \A m \in live : m \notin {i, b} => next'[m] = next[m]
      BY <2>1, <2>2, <2>6 DEF LinkTypes
    <3>2. ASSUME NEW m \in live
          PROVE  /\ prev'[m] \in live /\ next'[m] \in live
                 /\ next'[prev'[m]] = m /\ prev'[next'[m]] = m
                 /\ pointer[next'[m]] = pointer[m]
      <4>1. m \notin {a, b} => prev[m] \notin {i, b}
        BY <1>2, <2>1, <2>2, <2>6
      <4>2. m \notin {i, b} => next[m] \notin {a, b}
        BY <1>2, <2>1, <2>2, <2>6
      <4>3. prev'[m] \in live /\ next'[prev'[m]] = m
        BY <1>2, <2>1, <2>2, <3>1, <4>1
      <4>4. next'[m] \in live /\ prev'[next'[m]] = m
        BY <1>2, <2>1, <2>2, <3>1, <4>2
      <4>5. pointer[next'[m]] = pointer[m]
        BY <1>2, <2>1, <2>2, <3>1
      <4> QED BY <4>3, <4>4, <4>5
    <3> QED BY <2>5, <3>2 DEF LinksAgree
  <2>7. CASE /\ j = a
             /\ prev' = [prev EXCEPT ![a] = k, ![b] = a]
             /\ next' = [next EXCEPT ![k] = a, ![a] = b]
    <3>1. /\ prev'[a] = k /\ prev'[b] = a /\ next'[k] = a /\ next'[a] = b
          /\ \A m \in live : m \notin {a, b} => prev'[m] = prev[m]
          /\ \A m \in live : m \notin {k, a} => next'[m] = next[m]
      BY <2>1, <2>2, <2>7 DEF LinkTypes
    <3>2. ASSUME NEW m \in live
          PROVE  /\ prev'[m] \in live /\ next'[m] \in live
                 /\ next'[prev'[m]] = m /\ prev'[next'[m]] = m
                 /\ pointer[next'[m]] = pointer[m]
      <4>1. m \notin {a, b} => prev[m] \notin {k, a}
        BY <1>2, <2>1, <2>2, <2>7
      <4>2. m \notin {k, a} => next[m] \notin {a, b}
        BY <1>2, <2>1, <2>2, <2>7
      <4>3. prev'[m] \in live /\ next'[prev'[m]] = m
        BY <1>2, <2>1, <2>2, <3>1, <4>1
      <4>4. next'[m] \in live /\ prev'[next'[m]] = m
        BY <1>2, <2>1, <2>2, <3>1, <4>2
      <4>5. pointer[next'[m]] = pointer[m]
        BY <1>2, <2>1, <2>2, <3>1
      <4> QED BY <4>3, <4>4, <4>5
    <3> QED BY <2>5, <3>2 DEF LinksAgree
  <2>8. CASE /\ l # b /\ j # a
             /\ prev' = [prev EXCEPT ![j] = k, ![b] = a]
             /\ next' = [next EXCEPT ![k] = i, ![a] = b]
    <3>1. i = j /\ k = l /\ live = {a, b, j, l}
      BY <2>4, <2>8
    <3>2. j # b /\ l # a /\ j # l /\ a # b
      BY <2>2
    <3>3. /\ prev'[a] = j /\ prev'[b] = a /\ prev'[j] = l /\ prev'[l] = b
          /\ next'[a] = b /\ next'[b] = l /\ next'[j] = a /\ next'[l] = j
      BY <2>1, <2>8, <3>1, <3>2 DEF LinkTypes
    <3> QED BY <2>1, <2>5, <3>1, <3>3 DEF LinksAgree
  <2> QED BY <2>3, <2>6, <2>7, <2>8
<1> QED BY <1>3, <1>4
-----------------------------------------------------------------------------
(* Steps of either policy.                                                 *)

LEMMA InvFrom ==
  ASSUME Inv, Sound', cond' = cond,
         \/ ~cond.links /\ CountTypes' /\ CountsAreSound' /\ UNCHANGED linkVars
         \/ cond.links /\ LinkTypes' /\ LinksAgree' /\ UNCHANGED countVars
  PROVE  Inv'
<1>1. CASE ~cond.links /\ CountTypes' /\ CountsAreSound' /\ UNCHANGED linkVars
  BY <1>1 DEF Inv, LinkTypes, linkVars, LinksAreSound
<1>2. CASE cond.links /\ LinkTypes' /\ LinksAgree' /\ UNCHANGED countVars
  BY <1>2 DEF Inv, CountTypes, countVars, LinksAreSound, CountsAreSound
<1> QED BY <1>1, <1>2

LEMMA NewNodeStep ==
  ASSUME Inv, Sound', WellUsed, NEW t \in Threads, BeginsCall(t),
         NEW CONSTANT n \in Nodes, n \notin live,
         NEW CONSTANT o \in Objects \cup {Null}, NEW CONSTANT s \in BOOLEAN,
         NewNode(n, o, s), live' = live \cup {n}, n \in StrongNodes' <=> s
  PROVE  Inv'
<1>1. cond' = cond
  BY DEF BeginsCall
<1>2. CASE cond.links
  <2>1. LinksNew(n, o) /\ UNCHANGED countVars
    BY <1>2 DEF NewNode
  <2>2. LinkTypes' /\ LinksAgree'
    BY <1>2, <2>1, LinkedNew DEF Inv, LinksAreSound, Sound, ClientTypes
  <2> QED BY <1>1, <1>2, <2>1, <2>2, InvFrom
<1>3. CASE ~cond.links
  <2>1. CountsNew(n, o, s) /\ UNCHANGED linkVars
    BY <1>3 DEF NewNode
  <2>2. CountTypes' /\ CountsAreSound'
    BY <1>3, <2>1, NewCall DEF Inv
  <2> QED BY <1>1, <1>3, <2>1, <2>2, InvFrom
<1> QED BY <1>2, <1>3

LEMMA ShareNodeStep ==
  ASSUME Inv, Sound', WellUsed, NEW t \in Threads, BeginsCall(t),
         NEW CONSTANT n \in Nodes, n \notin live,
         NEW CONSTANT q \in live, Owner(q) = t, NEW CONSTANT s \in BOOLEAN,
         ShareNode(n, q, s), live' = live \cup {n}, n \in StrongNodes' <=> s
  PROVE  Inv'
<1>1. cond' = cond
  BY DEF BeginsCall
<1>2. CASE cond.links
  <2>1. LinksShare(n, q) /\ UNCHANGED countVars
    BY <1>2 DEF ShareNode
  <2>2. LinkTypes' /\ LinksAgree'
    BY <1>2, <2>1, LinkedShare DEF Inv, LinksAreSound, Sound, ClientTypes
  <2> QED BY <1>1, <1>2, <2>1, <2>2, InvFrom
<1>3. CASE ~cond.links
  <2>1. CountsShare(n, q, s) /\ UNCHANGED linkVars
    BY <1>3 DEF ShareNode
  <2>2. CountTypes' /\ CountsAreSound'
    BY <1>3, <2>1, ShareCall DEF Inv
  <2> QED BY <1>1, <1>3, <2>1, <2>2, InvFrom
<1> QED BY <1>2, <1>3

LEMMA SwapNodesStep ==
  ASSUME Inv, Sound', WellUsed, cond' = cond,
         NEW t \in Threads, \A s \in Threads : s # t => stack'[s] = stack[s],
         \A m : ~Ends(t, m) /\ ~Ends(t, m)',
         NEW CONSTANT n \in live, NEW CONSTANT m \in live, n # m,
         Owner(n) = t, Owner(m) = t,
         n \in StrongNodes <=> m \in StrongNodes, SwapNodes(n, m), live' = live,
         \A k \in live : k \in StrongNodes' <=> k \in StrongNodes
  PROVE  Inv'
<1>2. CASE cond.links
  <2>1. LinksSwap(n, m) /\ UNCHANGED countVars
    BY <1>2 DEF SwapNodes
  <2>2. LinkTypes' /\ LinksAgree'
    BY <1>2, <2>1, LinkedSwap DEF Inv, LinksAreSound, Sound, ClientTypes
  <2> QED BY <1>2, <2>1, <2>2, InvFrom
<1>3. CASE ~cond.links
  <2>1. CountsSwap(n, m) /\ UNCHANGED linkVars
    BY <1>3 DEF SwapNodes
  <2>2. CountTypes' /\ CountsAreSound'
    BY <1>3, <2>1, SwapStep DEF Inv
  <2> QED BY <1>3, <2>1, <2>2, InvFrom
<1> QED BY <1>2, <1>3

(* Neither policy has anything to do.                                      *)
LEMMA PolicyIdle ==
  ASSUME Inv, Sound', WellUsed, cond' = cond,
         NEW t \in Threads, \A s \in Threads : s # t => stack'[s] = stack[s],
         \A m : ~Ends(t, m) /\ ~Ends(t, m)',
         UNCHANGED <<block, info, pointer, prev, next, live>>,
         \A k \in live : k \in StrongNodes' <=> k \in StrongNodes
  PROVE  Inv'
<1>1. CASE cond.links
  <2>1. LinkTypes' /\ LinksAgree'
    BY <1>1 DEF Inv, LinksAreSound, LinkTypes, LinksAgree
  <2> QED BY <1>1, <2>1, InvFrom DEF countVars
<1>2. CASE ~cond.links
  <2>1. CountsAgree /\ Blocked /\ ClientTypes /\ CountTypes /\ Sound /\ CountsAreSound
    BY <1>2 DEF CountsAreSound, Blocked, Sound, Inv
  <2>2. CountTypes' /\ Blocked'
    BY <2>1 DEF CountTypes, Blocked
  <2>3. Leaving' = Leaving
    BY SameLeave DEF Sound, Inv
  <2>4. CountsAgree'
    BY <2>1, <2>3, SameCounts
  <2>5. \A s \in Threads : \A k : s # t /\ Ends(s, k) => block[k] # 0
    BY <2>1, EndsMeans DEF Sound, Blocked
  <2>6. ~Idle(t)' => FoundOut(t)'
    <3>1. ~Idle(t)' => stack'[t][1].at \notin CountedOff
      BY DEF Ends, Top
    <3> QED BY <3>1 DEF FoundOut, Top, CountedOff
  <2>7. PICK B : B = 0
    OBVIOUS
  <2>8. CountsAreSound'
    BY <1>2, <2>1, <2>2, <2>4, <2>5, <2>6, <2>7, CountsKeep
  <2> QED BY <1>2, <2>2, <2>8, InvFrom DEF linkVars
<1> QED BY <1>1, <1>2
-----------------------------------------------------------------------------
(* Calls that are over at once.                                            *)

LEMMA UsableMeans ==
  ASSUME Sound, NEW t \in Threads, NEW p \in Pointers, Usable(t, p)
  PROVE  /\ Idle(t) /\ p \in live /\ p \in Nodes /\ User[p] = t /\ Owner(p) = t
         /\ p \in cond.pointers /\ p \notin Threads
         /\ p \in StrongNodes <=> p \in Strong
BY NodesAssumption, KindMeans DEF Usable, Owner, Sound, ClientTypes, Nodes

LEMMA QuickCall ==
  ASSUME Sound, NEW t \in Threads, Idle(t), cond' = cond, stack' = stack,
         alive' \subseteq Objects, raw' \subseteq Objects,
         live \subseteq live', live' \ live \subseteq cond.pointers, live' \subseteq Nodes,
         live' \ live \subseteq Pointers
  PROVE  Sound' /\ BeginsCall(t)
<1>1. StacksAreSound' /\ TemporariesAreSound' /\ BeginsCall(t)
  BY StacksSame DEF Sound
<1>2. ClientTypes'
  BY DEF Sound, ClientTypes
<1> QED BY <1>1, <1>2 DEF Sound

(* A new pointer of the program.                                           *)
LEMMA NewPointer ==
  ASSUME Sound, NEW t \in Threads, Idle(t), cond' = cond, stack' = stack,
         NEW p \in Pointers, CanConstruct(p), live' = live \cup {p},
         alive' \subseteq Objects, raw' \subseteq Objects
  PROVE  /\ Sound' /\ BeginsCall(t) /\ p \in Nodes /\ p \notin live
         /\ p \in StrongNodes' <=> p \in Strong
<1>1. p \in cond.pointers /\ p \notin live /\ p \in Nodes
  BY DEF CanConstruct, Nodes
<1>2. Sound' /\ BeginsCall(t)
  <2>1. live \subseteq live' /\ live' \ live \subseteq {p} /\ live' \subseteq Nodes
    BY <1>1 DEF Sound, ClientTypes
  <2> QED BY <1>1, <2>1, QuickCall
<1>3. p \in StrongNodes' <=> p \in Strong
  BY NodesAssumption DEF StrongNodes
<1> QED BY <1>1, <1>2, <1>3

LEMMA KindIsBoolean ==
  ASSUME NEW CONSTANT p
  PROVE  \E s \in BOOLEAN : s = (p \in Strong)
<1>1. (p \in Strong) \in BOOLEAN
  OBVIOUS
<1> WITNESS (p \in Strong) \in BOOLEAN
<1> QED OBVIOUS

LEMMA ConstructKeeps ==
  ASSUME Inv, WellUsed, NEW t \in Threads, NEW p \in Pointers, NEW o \in Objects,
         Construct(t, p, o)
  PROVE  Inv'
<1>1. /\ Idle(t) /\ CanConstruct(p) /\ NewNode(p, o, p \in Strong)
      /\ live' = live \cup {p} /\ alive' = alive \cup {o} /\ raw' = raw \ {o}
      /\ cond' = cond /\ stack' = stack
  BY DEF Construct
<1>2. alive' \subseteq Objects /\ raw' \subseteq Objects
  BY <1>1 DEF Inv, Sound, ClientTypes
<1>3. /\ Sound' /\ BeginsCall(t) /\ p \in Nodes /\ p \notin live
      /\ p \in StrongNodes' <=> p \in Strong
  BY <1>1, <1>2, NewPointer DEF Inv
<1>4. PICK s \in BOOLEAN : s = (p \in Strong)
  BY KindIsBoolean
<1>5. NewNode(p, o, s) /\ (p \in StrongNodes' <=> s)
  BY <1>1, <1>3, <1>4
<1> QED BY <1>1, <1>3, <1>5, NewNodeStep

LEMMA ConstructNullKeeps ==
  ASSUME Inv, WellUsed, NEW t \in Threads, NEW p \in Pointers, ConstructNull(t, p)
  PROVE  Inv'
<1>1. /\ Idle(t) /\ CanConstruct(p) /\ NewNode(p, Null, p \in Strong)
      /\ live' = live \cup {p} /\ alive' = alive /\ raw' = raw
      /\ cond' = cond /\ stack' = stack
  BY DEF ConstructNull
<1>2. alive' \subseteq Objects /\ raw' \subseteq Objects
  BY <1>1 DEF Inv, Sound, ClientTypes
<1>3. /\ Sound' /\ BeginsCall(t) /\ p \in Nodes /\ p \notin live
      /\ p \in StrongNodes' <=> p \in Strong
  BY <1>1, <1>2, NewPointer DEF Inv
<1>4. PICK s \in BOOLEAN : s = (p \in Strong)
  BY KindIsBoolean
<1>5. NewNode(p, Null, s) /\ (p \in StrongNodes' <=> s)
  BY <1>1, <1>3, <1>4
<1> QED BY <1>1, <1>3, <1>5, NewNodeStep

LEMMA CopyKeeps ==
  ASSUME Inv, WellUsed, NEW t \in Threads, NEW p \in Pointers, NEW q \in Pointers,
         Copy(t, p, q)
  PROVE  Inv'
<1>1. /\ Usable(t, q) /\ CanConstruct(p) /\ ShareNode(p, q, p \in Strong)
      /\ live' = live \cup {p} /\ alive' = alive /\ raw' = raw
      /\ cond' = cond /\ stack' = stack
  BY DEF Copy
<1>2. alive' \subseteq Objects /\ raw' \subseteq Objects
  BY <1>1 DEF Inv, Sound, ClientTypes
<1>3. Idle(t) /\ q \in live /\ Owner(q) = t
  BY <1>1, UsableMeans DEF Inv
<1>4. /\ Sound' /\ BeginsCall(t) /\ p \in Nodes /\ p \notin live
      /\ p \in StrongNodes' <=> p \in Strong
  BY <1>1, <1>2, <1>3, NewPointer DEF Inv
<1>5. PICK s \in BOOLEAN : s = (p \in Strong)
  BY KindIsBoolean
<1>6. ShareNode(p, q, s) /\ (p \in StrongNodes' <=> s)
  BY <1>1, <1>4, <1>5
<1> QED BY <1>1, <1>3, <1>4, <1>6, ShareNodeStep

LEMMA PointerOf ==
  ASSUME Inv, NEW n \in live
  PROVE  GetPointer(n) \in Objects \cup {Null}
<1>1. n \in Nodes
  BY DEF Inv, Sound, ClientTypes
<1>2. CASE cond.links
  BY <1>1, <1>2 DEF Inv, LinkTypes, GetPointer
<1>3. CASE ~cond.links
  <2>1. block[n] = 0 \/ info[block[n]] \in InfoType
    BY <1>1 DEF Inv, CountTypes
  <2> QED BY <1>3, <2>1 DEF GetPointer, CountsPointer, InfoType
<1> QED BY <1>2, <1>3

LEMMA TwinKeeps ==
  ASSUME Inv, WellUsed, NEW t \in Threads, NEW p \in Pointers, NEW q \in Pointers,
         Twin(t, p, q)
  PROVE  Inv'
<1>1. /\ Usable(t, q) /\ CanConstruct(p) /\ NewNode(p, GetPointer(q), p \in Strong)
      /\ live' = live \cup {p} /\ alive' = alive /\ raw' = raw
      /\ cond' = cond /\ stack' = stack
  BY DEF Twin
<1>2. alive' \subseteq Objects /\ raw' \subseteq Objects
  BY <1>1 DEF Inv, Sound, ClientTypes
<1>3. Idle(t) /\ q \in live
  BY <1>1, UsableMeans DEF Inv
<1>4. /\ Sound' /\ BeginsCall(t) /\ p \in Nodes /\ p \notin live
      /\ p \in StrongNodes' <=> p \in Strong
  BY <1>1, <1>2, <1>3, NewPointer DEF Inv
<1>5. PICK s \in BOOLEAN : s = (p \in Strong)
  BY KindIsBoolean
<1>6. PICK o \in Objects \cup {Null} : o = GetPointer(q)
  BY <1>3, PointerOf
<1>7. NewNode(p, o, s) /\ (p \in StrongNodes' <=> s)
  BY <1>1, <1>4, <1>5, <1>6
<1> QED BY <1>1, <1>4, <1>7, NewNodeStep

(* Calls that leave the stacks as they are end no node.                    *)
LEMMA QuietCall ==
  ASSUME Sound, NEW t \in Threads, Idle(t), cond' = cond, stack' = stack,
         alive' \subseteq Objects, raw' \subseteq Objects, live' = live
  PROVE  /\ Sound' /\ \A m : ~Ends(t, m) /\ ~Ends(t, m)'
         /\ \A k : k \in StrongNodes' <=> k \in StrongNodes
<1>1. Sound' /\ BeginsCall(t)
  <2>1. live \subseteq live' /\ live' \ live = {} /\ live' \subseteq Nodes
    BY DEF Sound, ClientTypes
  <2> QED BY <2>1, QuickCall
<1> QED BY <1>1 DEF Ends, Idle, Top, StrongNodes

LEMMA MergeKeeps ==
  ASSUME Inv, WellUsed, NEW t \in Threads, NEW p \in Pointers, NEW q \in Pointers,
         Merge(t, p, q)
  PROVE  Inv'
<1>1. /\ "merge" \in cond.calls /\ Usable(t, p) /\ Usable(t, q)
      /\ GetPointer(p) = GetPointer(q) /\ LinksMerge(p, q)
      /\ UNCHANGED <<countVars, pointer, cond, live, alive, raw, stack>>
  BY DEF Merge
<1>2. /\ p \in live /\ q \in live /\ Idle(t) /\ User[p] = t
  BY <1>1, UsableMeans DEF Inv
<1>3. UsedWell(cond) /\ cond.pointers \subseteq Pointers
  BY StrongPtrAssumption DEF WellUsed, Inv, Sound, ClientTypes
<1>4. cond.links /\ Cardinality(cond.pointers) <= 4 /\ OneUser(cond)
  BY <1>1, <1>3 DEF UsedWell
<1>5. live \subseteq cond.pointers
  <2> SUFFICES ASSUME NEW n \in live PROVE n \in cond.pointers
    OBVIOUS
  <2>1. p \in cond.pointers
    BY <1>1, UsableMeans DEF Inv
  <2>2. CASE n \in Threads /\ Owner(n) = n /\ ~Idle(n) /\ Top(n).as \in cond.pointers
             /\ User[Top(n).as] = n
    <3>1. n = t
      BY <1>2, <1>4, <2>1, <2>2 DEF OneUser
    <3> QED BY <1>2, <2>2, <3>1
  <2> QED BY <2>2, LiveOwner DEF Inv
<1>6. Cardinality(live) <= 4
  <2>1. IsFiniteSet(cond.pointers)
    BY <1>3, NodesAssumption, FS_Subset DEF Nodes
  <2>2. Cardinality(live) <= Cardinality(cond.pointers) /\ IsFiniteSet(live)
    BY <1>5, <2>1, FS_Subset
  <2> QED BY <1>4, <2>1, <2>2, FS_CardinalityType
<1>7. pointer[p] = pointer[q]
  BY <1>1, <1>4 DEF GetPointer
<1>8. LinkTypes' /\ LinksAgree'
  BY <1>1, <1>2, <1>4, <1>6, <1>7, LinkedMerge
     DEF Inv, LinksAreSound, Sound, ClientTypes
<1>9. Sound'
  BY <1>1, <1>2, QuietCall DEF Inv, Sound, ClientTypes
<1> QED BY <1>1, <1>4, <1>8, <1>9, InvFrom

LEMMA SwapKeeps ==
  ASSUME Inv, WellUsed, NEW t \in Threads, NEW p \in Pointers, NEW q \in Pointers,
         Swap(t, p, q)
  PROVE  Inv'
<1>1. /\ Usable(t, p) /\ Usable(t, q) /\ p # q /\ (p \in Strong <=> q \in Strong)
      /\ SwapNodes(p, q) /\ UNCHANGED <<cond, live, alive, raw, stack>>
  BY DEF Swap
<1>2. /\ p \in live /\ q \in live /\ Idle(t) /\ Owner(p) = t /\ Owner(q) = t
      /\ p \in StrongNodes <=> q \in StrongNodes
  BY <1>1, UsableMeans DEF Inv
<1>3. /\ Sound' /\ \A m : ~Ends(t, m) /\ ~Ends(t, m)'
      /\ \A k \in live : k \in StrongNodes' <=> k \in StrongNodes
  BY <1>1, <1>2, QuietCall DEF Inv, Sound, ClientTypes
<1> QED BY <1>1, <1>2, <1>3, SwapNodesStep

LEMMA ReleaseAllKeeps ==
  ASSUME Inv, WellUsed, NEW t \in Threads, NEW p \in Pointers, ReleaseAll(t, p)
  PROVE  Inv'
<1>1. /\ "reset" \in cond.calls /\ Usable(t, p) /\ SetPointer(p, Null)
      /\ raw' = raw \cup ({GetPointer(p)} \ {Null})
      /\ UNCHANGED <<cond, live, alive, stack>>
  BY DEF ReleaseAll, MayReset
<1>2. p \in live /\ Idle(t) /\ Owner(p) = t
  BY <1>1, UsableMeans DEF Inv
<1>3. ~cond.links
  BY <1>1 DEF WellUsed, UsedWell, Inv, Sound, ClientTypes
<1>4. CountsSet(p, Null) /\ UNCHANGED linkVars
  BY <1>1, <1>3 DEF SetPointer
<1>5. /\ Sound' /\ \A m : ~Ends(t, m) /\ ~Ends(t, m)'
      /\ \A k \in live : k \in StrongNodes' <=> k \in StrongNodes
  <2>1. alive' \subseteq Objects /\ raw' \subseteq Objects
    BY <1>1, <1>2, PointerOf DEF Inv, Sound, ClientTypes
  <2> QED BY <1>1, <1>2, <2>1, QuietCall DEF Inv
<1>6. CountTypes' /\ CountsAreSound'
  BY <1>1, <1>2, <1>3, <1>4, <1>5, SetStep DEF Inv
<1> QED BY <1>1, <1>3, <1>4, <1>5, <1>6, InvFrom
-----------------------------------------------------------------------------
(* Calls that go on.                                                       *)

LEMMA NoTemporary ==
  ASSUME Sound, NEW t \in Threads, Idle(t)
  PROVE  t \notin live /\ t \in Nodes
<1>1. Len(stack[t]) = 0
  BY DEF Idle
<1> QED BY <1>1 DEF Sound, TemporariesAreSound, Nodes

LEMMA PushedCall ==
  ASSUME Sound, WellUsed, NEW t \in Threads, Idle(t), cond' = cond,
         alive' \subseteq Objects, raw' \subseteq Objects,
         live \subseteq live', live' \ live \subseteq {t},
         NEW CONSTANT f \in FrameType, Push(t, f), f.at \notin CountedOff,
         FrameOK(t, f, TRUE, TRUE)',
         t \in live' <=> f.at = "swap" \/ (f.node = t /\ f.at \in Going)
  PROVE  /\ Sound' /\ BeginsCall(t) /\ \A m : ~Ends(t, m) /\ ~Ends(t, m)'
         /\ \A s \in Threads : s # t => stack'[s] = stack[s]
         /\ t \in StrongNodes' <=> f.as \in Strong
         /\ \A m \in live : m \in StrongNodes' <=> m \in StrongNodes
<1>1. PICK last \in BOOLEAN : last = TRUE
  OBVIOUS
<1>2. /\ StacksAreSound' /\ stack' \in [Threads -> Seq(FrameType)]
      /\ \A s \in Threads : s # t => stack'[s] = stack[s]
      /\ Len(stack'[t]) = Len(stack[t]) + 1 /\ stack'[t][1] = f
      /\ stack'[t] # <<>>
  <2>1. ClientTypes /\ StacksAreSound /\ (last <=> Idle(t)) /\ FrameOK(t, f, TRUE, last)'
    BY <1>1 DEF Sound
  <2> QED BY <2>1, StacksPush
<1>3. Len(stack'[t]) = 1
  BY <1>2 DEF Idle
<1>4. TemporariesAreSound'
  <2>1. \A s \in Threads : s # t => (s \in live' <=> s \in live)
    OBVIOUS
  <2> QED BY <1>2, <1>3, <2>1, TemporariesKeep DEF Sound
<1>5. ClientTypes'
  <2>1. t \in Nodes /\ t \notin Pointers
    BY NodesAssumption DEF Nodes
  <2> QED BY <1>2, <2>1 DEF Sound, ClientTypes
<1>6. t \notin Strong /\ t \notin live
  BY NodesAssumption, StrongPtrAssumption DEF Sound, TemporariesAreSound, Idle
<1>7. t \in StrongNodes' <=> f.as \in Strong
  BY <1>2, <1>3, <1>6 DEF StrongNodes, Idle
<1>8. \A m \in live : m \in StrongNodes' <=> m \in StrongNodes
  BY <1>2, <1>6, KindsStay
<1>9. Sound' /\ BeginsCall(t)
  BY <1>2, <1>4, <1>5 DEF Sound, BeginsCall
<1>10. \A m : ~Ends(t, m) /\ ~Ends(t, m)'
  BY <1>2 DEF Ends, Idle, Top
<1> QED BY <1>2, <1>7, <1>8, <1>9, <1>10

LEMMA FrameMeans ==
  ASSUME NEW at \in Labels, NEW n \in Nodes, NEW as \in Pointers, NEW o \in Objects \cup {Null}
  PROVE  /\ Frame(at, n, as, o) \in FrameType /\ Frame(at, n, as, o).at = at
         /\ Frame(at, n, as, o).node = n /\ Frame(at, n, as, o).as = as
         /\ Frame(at, n, as, o).obj = o
BY DEF Frame, FrameType

(* A temporary is pushed that is to be swapped with p.                     *)
LEMMA NewTemporary ==
  ASSUME Sound, WellUsed, NEW t \in Threads, NEW p \in Pointers, Usable(t, p),
         Temporary(t, p), alive' \subseteq Objects, raw' \subseteq Objects
  PROVE  /\ Sound' /\ BeginsCall(t) /\ t \in Nodes /\ t \notin live /\ live' = live \cup {t}
         /\ t \in StrongNodes' <=> p \in Strong
<1>1. /\ Idle(t) /\ p \in live /\ p \in Nodes /\ User[p] = t /\ p \in cond.pointers
  BY UsableMeans
<1>2. PICK f \in FrameType : f = Frame("swap", p, p, Null)
  <2>1. "swap" \in Labels
    BY DEF Labels
  <2> QED BY <1>1, <2>1, FrameMeans
<1>3. f.at = "swap" /\ f.node = p /\ f.as = p
  BY <1>2 DEF Frame
<1>4. /\ Push(t, f) /\ live' = live \cup {t} /\ cond' = cond
  BY <1>2 DEF Temporary
<1>5. FrameOK(t, f, TRUE, TRUE)'
  BY <1>1, <1>3, <1>4 DEF FrameOK, Going, CountedOff
<1>6. t \in Nodes /\ t \notin live
  BY <1>1, NoTemporary
<1>7. f.at \notin CountedOff
  BY <1>3 DEF CountedOff
<1> QED BY <1>1, <1>3, <1>4, <1>5, <1>6, <1>7, PushedCall

LEMMA AssignKeeps ==
  ASSUME Inv, WellUsed, NEW t \in Threads, NEW p \in Pointers, NEW q \in Pointers,
         Assign(t, p, q)
  PROVE  Inv'
<1>1. /\ Usable(t, p) /\ Usable(t, q) /\ ShareNode(t, q, p \in Strong)
      /\ Temporary(t, p) /\ alive' = alive /\ raw' = raw
  BY DEF Assign
<1>2. alive' \subseteq Objects /\ raw' \subseteq Objects
  BY <1>1 DEF Inv, Sound, ClientTypes
<1>3. /\ Sound' /\ BeginsCall(t) /\ t \in Nodes /\ t \notin live /\ live' = live \cup {t}
      /\ t \in StrongNodes' <=> p \in Strong
  BY <1>1, <1>2, NewTemporary DEF Inv
<1>4. q \in live /\ Owner(q) = t
  BY <1>1, UsableMeans DEF Inv
<1>5. PICK s \in BOOLEAN : s = (p \in Strong)
  BY KindIsBoolean
<1>6. ShareNode(t, q, s) /\ (t \in StrongNodes' <=> s)
  BY <1>1, <1>3, <1>5
<1> QED BY <1>3, <1>4, <1>6, ShareNodeStep

LEMMA AssignRawKeeps ==
  ASSUME Inv, WellUsed, NEW t \in Threads, NEW p \in Pointers,
         NEW o \in Objects \cup {Null}, AssignRaw(t, p, o)
  PROVE  Inv'
<1>1. /\ Usable(t, p) /\ NewNode(t, o, p \in Strong) /\ Temporary(t, p)
      /\ alive' = alive \cup ({o} \ {Null}) /\ raw' = raw \ {o}
  BY DEF AssignRaw
<1>2. alive' \subseteq Objects /\ raw' \subseteq Objects
  BY <1>1 DEF Inv, Sound, ClientTypes
<1>3. /\ Sound' /\ BeginsCall(t) /\ t \in Nodes /\ t \notin live /\ live' = live \cup {t}
      /\ t \in StrongNodes' <=> p \in Strong
  BY <1>1, <1>2, NewTemporary DEF Inv
<1>5. PICK s \in BOOLEAN : s = (p \in Strong)
  BY KindIsBoolean
<1>6. NewNode(t, o, s) /\ (t \in StrongNodes' <=> s)
  BY <1>1, <1>3, <1>5
<1> QED BY <1>3, <1>6, NewNodeStep

LEMMA CastFromKeeps ==
  ASSUME Inv, WellUsed, NEW t \in Threads, NEW p \in Pointers, NEW q \in Pointers,
         NEW isNull \in BOOLEAN, CastFrom(t, p, q, isNull)
  PROVE  Inv'
<1>1. /\ Usable(t, p) /\ Usable(t, q)
      /\ \/ isNull /\ NewNode(t, Null, p \in Strong)
         \/ ~isNull /\ ShareNode(t, q, p \in Strong)
      /\ Temporary(t, p) /\ alive' = alive /\ raw' = raw
  BY DEF CastFrom
<1>2. alive' \subseteq Objects /\ raw' \subseteq Objects
  BY <1>1 DEF Inv, Sound, ClientTypes
<1>3. /\ Sound' /\ BeginsCall(t) /\ t \in Nodes /\ t \notin live /\ live' = live \cup {t}
      /\ t \in StrongNodes' <=> p \in Strong
  BY <1>1, <1>2, NewTemporary DEF Inv
<1>4. q \in live /\ Owner(q) = t
  BY <1>1, UsableMeans DEF Inv
<1>5. PICK s \in BOOLEAN : s = (p \in Strong)
  BY KindIsBoolean
<1>6. CASE isNull
  <2>1. NewNode(t, Null, s) /\ (t \in StrongNodes' <=> s)
    BY <1>1, <1>3, <1>5, <1>6
  <2> QED BY <1>3, <2>1, NewNodeStep
<1>7. CASE ~isNull
  <2>1. ShareNode(t, q, s) /\ (t \in StrongNodes' <=> s)
    BY <1>1, <1>3, <1>5, <1>7
  <2> QED BY <1>3, <1>4, <2>1, ShareNodeStep
<1> QED BY <1>6, <1>7

LEMMA DestroyKeeps ==
  ASSUME Inv, WellUsed, NEW t \in Threads, NEW p \in Pointers, Destroy(t, p)
  PROVE  Inv'
<1>1. /\ Usable(t, p) /\ Push(t, Frame("release", p, p, Null))
      /\ UNCHANGED <<block, info, pointer, prev, next, live>>
      /\ cond' = cond /\ alive' = alive /\ raw' = raw
  BY DEF Destroy, countVars, linkVars
<1>2. /\ Idle(t) /\ p \in live /\ p \in Nodes /\ User[p] = t /\ p \in cond.pointers
      /\ p \notin Threads
  BY <1>1, UsableMeans DEF Inv
<1>3. PICK f \in FrameType : f = Frame("release", p, p, Null)
  <2>1. "release" \in Labels
    BY DEF Labels, Going
  <2> QED BY <1>2, <2>1, FrameMeans
<1>4. f.at = "release" /\ f.node = p /\ f.as = p
  BY <1>3 DEF Frame
<1>5. FrameOK(t, f, TRUE, TRUE)'
  BY <1>1, <1>2, <1>4 DEF FrameOK, Going, CountedOff
<1>6. /\ f.at \notin CountedOff /\ f.node # t /\ f.at # "swap"
      /\ t \notin live /\ Push(t, f) /\ live \subseteq live' /\ live' \ live \subseteq {t}
      /\ alive' \subseteq Objects /\ raw' \subseteq Objects
  <2>1. t \notin live
    BY <1>2, NoTemporary DEF Inv
  <2> QED BY <1>1, <1>2, <1>3, <1>4, <2>1 DEF CountedOff, Inv, Sound, ClientTypes
<1>7. t \in live' <=> f.at = "swap" \/ (f.node = t /\ f.at \in Going)
  BY <1>1, <1>6
<1>8. /\ Sound' /\ \A m : ~Ends(t, m) /\ ~Ends(t, m)'
      /\ \A s \in Threads : s # t => stack'[s] = stack[s]
      /\ \A m \in live : m \in StrongNodes' <=> m \in StrongNodes
  BY <1>1, <1>2, <1>5, <1>6, <1>7, PushedCall DEF Inv
<1> QED BY <1>1, <1>8, PolicyIdle

(* ResetAll: the old object dies before the new one is set.                *)
LEMMA ResetAllKeeps ==
  ASSUME Inv, WellUsed, NEW t \in Threads, NEW p \in Pointers,
         NEW o \in Objects \cup {Null}, ResetAll(t, p, o)
  PROVE  Inv'
<1>1. /\ "reset" \in cond.calls /\ Usable(t, p)
      /\ alive' = (alive \ {GetPointer(p)}) \cup ({o} \ {Null}) /\ raw' = raw \ {o}
      /\ stack' = [stack EXCEPT ![t] = <<Frame("members", p, p, GetPointer(p)),
                                         Frame("set", p, p, o)>>]
      /\ UNCHANGED <<block, info, pointer, prev, next, live>> /\ cond' = cond
  BY DEF ResetAll, MayReset, countVars, linkVars
<1>2. /\ Idle(t) /\ p \in live /\ p \in Nodes /\ User[p] = t /\ p \in cond.pointers
  BY <1>1, UsableMeans DEF Inv
<1>3. PICK f \in FrameType : f = Frame("members", p, p, GetPointer(p))
  <2>1. "members" \in Labels /\ GetPointer(p) \in Objects \cup {Null}
    BY <1>2, PointerOf DEF Labels
  <2> QED BY <1>2, <2>1, FrameMeans
<1>4. PICK g \in FrameType : g = Frame("set", p, p, o)
  <2>1. "set" \in Labels
    BY DEF Labels
  <2> QED BY <1>2, <2>1, FrameMeans
<1>5. /\ f.at = "members" /\ f.node = p /\ f.as = p
      /\ g.at = "set" /\ g.node = p /\ g.as = p
  BY <1>3, <1>4 DEF Frame
<1>6. /\ <<f, g>> \in Seq(FrameType) /\ Len(<<f, g>>) = 2
      /\ <<f, g>>[1] = f /\ <<f, g>>[2] = g /\ <<f, g>> # <<>>
  OBVIOUS
<1>7. /\ stack'[t] = <<f, g>> /\ stack' \in [Threads -> Seq(FrameType)]
      /\ \A s \in Threads : s # t => stack'[s] = stack[s]
  BY <1>1, <1>3, <1>4, <1>6 DEF Inv, Sound, ClientTypes
<1>8. /\ Len(stack'[t]) = 2 /\ stack'[t][1] = f /\ stack'[t][2] = g /\ stack'[t] # <<>>
  BY <1>6, <1>7
<1>9. FrameOK(t, f, TRUE, FALSE)'
  BY <1>1, <1>2, <1>5 DEF FrameOK, Going, CountedOff
<1>10. FrameOK(t, g, FALSE, TRUE)'
  BY <1>1, <1>2, <1>5 DEF FrameOK, Going, CountedOff
<1>11. StacksAreSound'
  <2>1. ASSUME NEW i \in 1 .. Len(stack'[t])
        PROVE  FrameOK(t, stack[t][i], i = 1, i = Len(stack[t]))'
    <3>1. i = 1 \/ i = 2
      BY <1>8
    <3>2. CASE i = 1
      BY <1>8, <1>9, <3>2 DEF FrameOK
    <3>3. CASE i = 2
      BY <1>8, <1>10, <3>3 DEF FrameOK
    <3> QED BY <3>1, <3>2, <3>3
  <2> QED BY <1>1, <1>7, <2>1, StacksKeep DEF Inv, Sound
<1>12. TemporariesAreSound'
  <2>1. t \notin live'
    BY <1>1, <1>2 DEF Inv, Sound, TemporariesAreSound, Idle
  <2> QED BY <1>1, <1>7, <1>8, <2>1, TemporariesKeep DEF Inv, Sound
<1>13. Sound'
  BY <1>1, <1>7, <1>11, <1>12 DEF Inv, Sound, ClientTypes
<1>14. \A m : ~Ends(t, m) /\ ~Ends(t, m)'
  BY <1>2, <1>5, <1>8 DEF Ends, Top, CountedOff
<1>15. \A m \in live : m \in StrongNodes' <=> m \in StrongNodes
  <2>1. t \notin live
    BY <1>2, NoTemporary DEF Inv
  <2> QED BY <1>7, <2>1, KindsStay
<1> QED BY <1>1, <1>7, <1>13, <1>14, <1>15, PolicyIdle
-----------------------------------------------------------------------------
(* The rest of a call.                                                     *)

LEMMA SwapTemporaryKeeps ==
  ASSUME Inv, WellUsed, NEW t \in Threads, SwapTemporary(t)
  PROVE  Inv'
<1> DEFINE p == Top(t).node
<1>1. /\ ~Idle(t) /\ Top(t).at = "swap" /\ SwapNodes(t, p)
      /\ Becomes(t, Frame("release", t, p, Null))
      /\ cond' = cond /\ live' = live /\ alive' = alive /\ raw' = raw
  BY DEF SwapTemporary, At, Top
<1>2. /\ FrameOK(t, Top(t), TRUE, Len(stack[t]) = 1)
      /\ Top(t) \in FrameType /\ Top(t).as \in Pointers
      /\ Len(stack[t]) \in Nat /\ Len(stack[t]) >= 1
  BY <1>1, TopIsSound, Frame1 DEF Inv, Sound
<1>3. /\ Len(stack[t]) = 1 /\ p = Top(t).as /\ p \in live /\ p \in cond.pointers
      /\ p \in Pointers /\ User[p] = t /\ p # t /\ Owner(p) = t
  BY <1>1, <1>2, NodesAssumption DEF FrameOK, Owner
<1>4. t \in live /\ t \in Nodes /\ t \notin Pointers /\ Owner(t) = t
  BY <1>1, <1>3, NodesAssumption DEF Inv, Sound, TemporariesAreSound, Owner, Nodes
<1>5. t \in StrongNodes <=> p \in StrongNodes
  <2>1. t \in StrongNodes <=> Top(t).as \in Strong
    BY <1>4, LiveOwner, NodesAssumption DEF Inv
  <2>2. p \in StrongNodes <=> p \in Strong
    BY <1>3, NodesAssumption, KindMeans
  <2> QED BY <1>3, <2>1, <2>2
<1>6. PICK f \in FrameType : f = Frame("release", t, p, Null)
  <2>1. "release" \in Labels
    BY DEF Labels, Going
  <2> QED BY <1>3, <1>4, <2>1, FrameMeans
<1>7. f.at = "release" /\ f.node = t /\ f.as = p /\ Becomes(t, f)
  BY <1>1, <1>6 DEF Frame
<1>8. FrameOK(t, f, TRUE, TRUE)'
  BY <1>1, <1>3, <1>4, <1>7 DEF FrameOK, Going, CountedOff
<1>9. PICK last \in BOOLEAN : last = TRUE
  OBVIOUS
<1>10. /\ StacksAreSound' /\ stack' \in [Threads -> Seq(FrameType)]
       /\ \A s \in Threads : s # t => stack'[s] = stack[s]
       /\ Len(stack'[t]) = Len(stack[t]) /\ stack'[t][1] = f
  <2>1. /\ ClientTypes /\ StacksAreSound /\ live \ live' \subseteq {Top(t).node}
        /\ live \subseteq live' /\ (last <=> Len(stack[t]) = 1) /\ FrameOK(t, f, TRUE, last)'
        /\ ~Idle(t) /\ cond' = cond /\ Becomes(t, f)
    BY <1>1, <1>3, <1>7, <1>8, <1>9 DEF Inv, Sound
  <2> HIDE DEF p
  <2> QED BY ZenonT(40), <2>1, StacksBecome
<1>11. TemporariesAreSound'
  <2>1. f.at \in Going
    BY <1>7 DEF Going
  <2>2. t \in live' <=> /\ Len(stack'[t]) = 1
                        /\ \/ stack'[t][1].at = "swap"
                           \/ stack'[t][1].node = t /\ stack'[t][1].at \in Going
    BY <1>1, <1>3, <1>4, <1>7, <1>10, <2>1
  <2> QED BY <1>1, <1>10, <2>2, TemporariesKeep DEF Inv, Sound
<1>12. Sound'
  BY <1>1, <1>10, <1>11 DEF Inv, Sound, ClientTypes
<1>13. stack'[t] # <<>>
  <2>1. Len(stack'[t]) = 1
    BY <1>3, <1>10
  <2> QED BY <2>1, EmptySeq
<1>14. \A m : ~Ends(t, m) /\ ~Ends(t, m)'
  BY <1>1, <1>7, <1>10 DEF Ends, Top, CountedOff
<1>15. \A k \in live : k \in StrongNodes' <=> k \in StrongNodes
  <2>1. \A k : k # t => (k \in StrongNodes' <=> k \in StrongNodes)
    BY <1>10, KindsStay
  <2>2. t \in StrongNodes' <=> t \in StrongNodes
    <3>1. stack'[t][Len(stack'[t])].as = stack[t][Len(stack[t])].as
      BY <1>3, <1>7, <1>10 DEF Top
    <3> QED BY <1>1, <1>13, <3>1 DEF StrongNodes, Idle
  <2> QED BY <2>1, <2>2
<1>16. PICK q \in live : q = p
  BY <1>3
<1> HIDE DEF p
<1>17. /\ t \in live /\ t # q /\ Owner(t) = t /\ Owner(q) = t /\ SwapNodes(t, q)
       /\ t \in StrongNodes <=> q \in StrongNodes
  BY <1>1, <1>3, <1>4, <1>5, <1>16
<1> QED BY <1>1, <1>10, <1>12, <1>14, <1>15, <1>17, SwapNodesStep

LEMMA SetKeeps ==
  ASSUME Inv, WellUsed, NEW t \in Threads, Set(t)
  PROVE  Inv'
<1>1. /\ ~Idle(t) /\ Top(t).at = "set" /\ SetPointer(Top(t).node, Top(t).obj) /\ Done(t)
      /\ cond' = cond /\ live' = live /\ alive' = alive /\ raw' = raw
  BY DEF Set, At, Top
<1>2. /\ FrameOK(t, Top(t), TRUE, Len(stack[t]) = 1)
      /\ Top(t) \in FrameType /\ Top(t).as \in Pointers /\ Top(t).obj \in Objects \cup {Null}
  BY <1>1, TopIsSound, Frame1 DEF Inv, Sound
<1>3. PICK n \in live : n = Top(t).node
  BY <1>1, <1>2 DEF FrameOK
<1>4. PICK o \in Objects \cup {Null} : o = Top(t).obj
  BY <1>2
<1>5. Owner(n) = t /\ n # t
  BY <1>1, <1>2, <1>3, NodesAssumption DEF FrameOK, Owner
<1>6. ~cond.links
  BY <1>1, <1>2 DEF FrameOK, WellUsed, UsedWell, Inv, Sound, ClientTypes
<1>7. CountsSet(n, o) /\ UNCHANGED linkVars
  BY <1>1, <1>3, <1>4, <1>6 DEF SetPointer
<1>8. t \notin live
  BY <1>1, <1>3, <1>5 DEF Inv, Sound, TemporariesAreSound, Going, CountedOff
<1>9. /\ live' \subseteq live /\ live \ live' \subseteq {Top(t).node} /\ t \notin live'
      /\ alive' \subseteq Objects /\ raw' \subseteq Objects
  BY <1>1, <1>8 DEF Inv, Sound, ClientTypes
<1>10. /\ Sound' /\ \A m : ~Ends(t, m)'
       /\ \A s \in Threads : s # t => stack'[s] = stack[s]
       /\ \A m \in live' : m \in StrongNodes' <=> m \in StrongNodes
  BY <1>1, <1>9, Returns DEF Inv
<1>11. \A m : ~Ends(t, m)
  BY <1>1 DEF Ends, CountedOff
<1>12. \A m \in live : m \in StrongNodes' <=> m \in StrongNodes
  BY <1>1, <1>10
<1>13. \A m : ~Ends(t, m) /\ ~Ends(t, m)'
  BY <1>10, <1>11
<1>14. CountTypes' /\ CountsAreSound'
  BY <1>1, <1>5, <1>6, <1>7, <1>10, <1>12, <1>13, SetStep DEF Inv
<1> QED BY <1>1, <1>6, <1>7, <1>10, <1>14, InvFrom

LEMMA DeleteKeeps ==
  ASSUME Inv, WellUsed, NEW t \in Threads, Delete(t)
  PROVE  Inv'
<1>1. /\ ~Idle(t) /\ Top(t).at = "delete"
      /\ \/ Done(t) /\ alive' = alive
         \/ /\ alive' = alive \ {Top(t).obj}
            /\ Becomes(t, [Top(t) EXCEPT !.at = "members"])
      /\ UNCHANGED <<block, info, pointer, prev, next, live>>
      /\ cond' = cond /\ live' = live /\ raw' = raw
  BY DEF Delete, At, Top, countVars, linkVars
<1>2. /\ FrameOK(t, Top(t), TRUE, Len(stack[t]) = 1) /\ Top(t) \in FrameType
  BY <1>1, TopIsSound, Frame1 DEF Inv, Sound
<1>3. t \notin live
  BY <1>1 DEF Inv, Sound, TemporariesAreSound, Going, CountedOff
<1>4. \A m : ~Ends(t, m)
  BY <1>1 DEF Ends, CountedOff
<1>5. /\ live' \subseteq live /\ live \ live' \subseteq {Top(t).node} /\ t \notin live'
      /\ alive' \subseteq Objects /\ raw' \subseteq Objects
  BY <1>1, <1>3 DEF Inv, Sound, ClientTypes
<1>6. CASE Done(t)
  <2>1. /\ Sound' /\ \A m : ~Ends(t, m)'
        /\ \A s \in Threads : s # t => stack'[s] = stack[s]
        /\ \A m \in live' : m \in StrongNodes' <=> m \in StrongNodes
    BY <1>1, <1>5, <1>6, Returns DEF Inv
  <2>2. /\ \A m \in live : m \in StrongNodes' <=> m \in StrongNodes
        /\ \A m : ~Ends(t, m) /\ ~Ends(t, m)'
    BY <1>1, <1>4, <2>1
  <2> QED BY <1>1, <2>1, <2>2, PolicyIdle
<1>7. CASE Becomes(t, [Top(t) EXCEPT !.at = "members"])
  <2>1. PICK f \in FrameType : f = [Top(t) EXCEPT !.at = "members"]
    BY <1>2 DEF FrameType, Labels
  <2>2. f.at = "members" /\ f.node = Top(t).node /\ f.as = Top(t).as
    BY <1>2, <2>1 DEF FrameType
  <2>3. PICK last \in BOOLEAN : last <=> Len(stack[t]) = 1
    OBVIOUS
  <2>4. FrameOK(t, f, TRUE, last)'
    BY <1>1, <1>2, <2>2, <2>3 DEF FrameOK, Going, CountedOff
  <2>5. t \in live' <=> last /\ (f.at = "swap" \/ (f.node = t /\ f.at \in Going))
    BY <1>5, <2>2 DEF Going, CountedOff
  <2>6. Becomes(t, f)
    BY <1>7, <2>1
  <2>7. /\ Sound' /\ ~Idle(t)' /\ Top(t)' = f
        /\ \A s \in Threads : s # t => stack'[s] = stack[s]
        /\ \A m : m \in StrongNodes' <=> m \in StrongNodes
    BY <1>1, <1>5, <2>2, <2>3, <2>4, <2>5, <2>6, GoesOn DEF Inv
  <2>8. \A m : ~Ends(t, m) /\ ~Ends(t, m)'
    BY <1>4, <2>2, <2>7 DEF Ends, CountedOff
  <2> QED BY <1>1, <2>7, <2>8, PolicyIdle
<1> QED BY <1>1, <1>6, <1>7

LEMMA DestroyMemberKeeps ==
  ASSUME Inv, WellUsed, NEW t \in Threads, DestroyMember(t)
  PROVE  Inv'
<1>1. /\ ~Idle(t) /\ Top(t).at = "members"
      /\ Done(t) \/ \E p \in Inside(t) : Push(t, Frame("release", p, p, Null))
      /\ UNCHANGED <<block, info, pointer, prev, next, live>>
      /\ cond' = cond /\ live' = live /\ raw' = raw /\ alive' = alive
  BY DEF DestroyMember, At, Top, countVars, linkVars
<1>2. /\ FrameOK(t, Top(t), TRUE, Len(stack[t]) = 1) /\ Top(t) \in FrameType
      /\ Len(stack[t]) \in Nat /\ Len(stack[t]) >= 1
  BY <1>1, TopIsSound, Frame1 DEF Inv, Sound
<1>3. t \notin live
  BY <1>1 DEF Inv, Sound, TemporariesAreSound, Going, CountedOff
<1>4. \A m : ~Ends(t, m)
  BY <1>1 DEF Ends, CountedOff
<1>5. /\ live' \subseteq live /\ live \ live' \subseteq {Top(t).node} /\ t \notin live'
      /\ alive' \subseteq Objects /\ raw' \subseteq Objects
  BY <1>1, <1>3 DEF Inv, Sound, ClientTypes
<1>6. CASE Done(t)
  <2>1. /\ Sound' /\ \A m : ~Ends(t, m)'
        /\ \A s \in Threads : s # t => stack'[s] = stack[s]
        /\ \A m \in live' : m \in StrongNodes' <=> m \in StrongNodes
    BY <1>1, <1>5, <1>6, Returns DEF Inv
  <2>2. /\ \A m \in live : m \in StrongNodes' <=> m \in StrongNodes
        /\ \A m : ~Ends(t, m) /\ ~Ends(t, m)'
    BY <1>1, <1>4, <2>1
  <2> QED BY <1>1, <2>1, <2>2, PolicyIdle
<1>7. ASSUME NEW p \in Inside(t), Push(t, Frame("release", p, p, Null)) PROVE Inv'
  <2>1. p \in live /\ p \in Pointers /\ Home(p) # Null
    BY <1>7 DEF Inside
  <2>2. "members" \in cond.calls /\ p \in cond.pointers /\ p \in Nodes /\ p \notin Threads
    BY <2>1, NodesAssumption DEF Home, Inv, Sound, ClientTypes
  <2>3. User[p] = t
    <3>1. OneUser(cond)
      BY <2>2 DEF WellUsed, UsedWell, Inv, Sound, ClientTypes
    <3>2. Top(t).as \in cond.pointers /\ User[Top(t).as] = t
      BY <1>2 DEF FrameOK
    <3> QED BY <2>2, <3>1, <3>2 DEF OneUser
  <2>4. PICK f \in FrameType : f = Frame("release", p, p, Null)
    <3>1. "release" \in Labels
      BY DEF Labels, Going
    <3> QED BY <2>1, <2>2, <3>1, FrameMeans
  <2>5. f.at = "release" /\ f.node = p /\ f.as = p /\ Push(t, f)
    BY <1>7, <2>4 DEF Frame
  <2>6. FrameOK(t, f, TRUE, FALSE)'
    BY <1>1, <2>1, <2>2, <2>3, <2>5 DEF FrameOK, Going, CountedOff
  <2>7. PICK last \in BOOLEAN : last = FALSE
    OBVIOUS
  <2>8. /\ StacksAreSound' /\ stack' \in [Threads -> Seq(FrameType)]
        /\ \A s \in Threads : s # t => stack'[s] = stack[s]
        /\ Len(stack'[t]) = Len(stack[t]) + 1 /\ stack'[t][1] = f
        /\ stack'[t] # <<>>
    <3>1. /\ ClientTypes /\ StacksAreSound /\ live \subseteq live'
          /\ Top(t).at \in {"members", "set"} /\ (last <=> Idle(t))
          /\ FrameOK(t, f, TRUE, last)'
      BY <1>1, <2>6, <2>7 DEF Inv, Sound
    <3> QED BY <1>1, <2>5, <3>1, StacksPush
  <2>9. TemporariesAreSound'
    <3>1. Len(stack'[t]) # 1
      BY <1>2, <2>8
    <3> QED BY <1>1, <1>3, <2>8, <3>1, TemporariesKeep DEF Inv, Sound
  <2>10. Sound'
    BY <1>1, <2>8, <2>9 DEF Inv, Sound, ClientTypes
  <2>11. \A m : ~Ends(t, m) /\ ~Ends(t, m)'
    BY <1>4, <2>5, <2>8 DEF Ends, Top, CountedOff
  <2>12. \A m \in live : m \in StrongNodes' <=> m \in StrongNodes
    BY <1>3, <2>8, KindsStay
  <2> QED BY <1>1, <2>8, <2>10, <2>11, <2>12, PolicyIdle
<1> QED BY <1>1, <1>6, <1>7

LEMMA ReleaseLinkKeeps ==
  ASSUME Inv, WellUsed, NEW t \in Threads, ReleaseLink(t)
  PROVE  Inv'
<1> DEFINE n == Top(t).node
<1>1. /\ cond.links /\ ~Idle(t) /\ Top(t).at = "release"
      /\ \/ next[n] # n /\ LinksLeave(n) /\ Done(t)
         \/ /\ LinksZap(n)
            /\ Becomes(t, [Top(t) EXCEPT !.at = "delete", !.obj = pointer[n]])
      /\ live' = live \ {n} /\ UNCHANGED countVars
      /\ cond' = cond /\ alive' = alive /\ raw' = raw
  BY DEF ReleaseLink, At, Top
<1>2. /\ FrameOK(t, Top(t), TRUE, Len(stack[t]) = 1) /\ Top(t) \in FrameType
      /\ Top(t).at \in Going
  BY <1>1, TopIsSound, Frame1 DEF Inv, Sound, Going
<1>3. n \in live /\ live \subseteq Nodes /\ LinkTypes /\ LinksAgree
  BY <1>1, <1>2 DEF FrameOK, Inv, Sound, ClientTypes, LinksAreSound
<1>4. t \in live => n = t
  BY <1>1 DEF Inv, Sound, TemporariesAreSound
<1>5. /\ live' \subseteq live /\ live \ live' \subseteq {Top(t).node} /\ t \notin live'
      /\ alive' \subseteq Objects /\ raw' \subseteq Objects
  BY <1>1, <1>4 DEF Inv, Sound, ClientTypes
<1>6. CASE next[n] # n /\ LinksLeave(n) /\ Done(t)
  <2>1. Sound'
    BY <1>1, <1>2, <1>5, <1>6, Returns DEF Inv
  <2>2. LinkTypes' /\ LinksAgree'
    BY <1>1, <1>3, <1>6, LinkedLeave
  <2> QED BY <1>1, <2>1, <2>2, InvFrom
<1>7. CASE /\ LinksZap(n)
           /\ Becomes(t, [Top(t) EXCEPT !.at = "delete", !.obj = pointer[n]])
  <2>1. LinkTypes' /\ LinksAgree'
    BY <1>1, <1>3, <1>7, LinkedZap
  <2>2. PICK o \in Objects \cup {Null} : o = pointer[n]
    BY <1>3 DEF LinkTypes
  <2>3. PICK f \in FrameType : f = [Top(t) EXCEPT !.at = "delete", !.obj = o]
    BY <1>2 DEF FrameType, Labels
  <2>4. f.at = "delete" /\ f.node = Top(t).node /\ f.as = Top(t).as
    BY <1>2, <2>3 DEF FrameType
  <2>5. PICK last \in BOOLEAN : last <=> Len(stack[t]) = 1
    OBVIOUS
  <2>6. FrameOK(t, f, TRUE, last)'
    BY <1>1, <1>2, <2>4, <2>5 DEF FrameOK, Going, CountedOff
  <2>7. t \in live' <=> last /\ (f.at = "swap" \/ (f.node = t /\ f.at \in Going))
    BY <1>5, <2>4 DEF Going, CountedOff
  <2>8. Becomes(t, f)
    BY <1>7, <2>2, <2>3
  <2>9. Sound'
    BY <1>1, <1>2, <1>5, <2>4, <2>5, <2>6, <2>7, <2>8, GoesOn DEF Inv
  <2> QED BY <1>1, <2>1, <2>9, InvFrom
<1> QED BY <1>1, <1>6, <1>7
-----------------------------------------------------------------------------
(* The invariant.                                                          *)

LEMMA InitInv == Init => Inv
<1> SUFFICES ASSUME Init PROVE Inv
  OBVIOUS
<1>1. CountTypes
  <2>1. NoInfo \in InfoType
    BY DEF NoInfo, InfoType
  <2> QED BY <2>1 DEF Init, CountsInit, CountTypes
<1>2. LinkTypes
  BY DEF Init, LinksInit, LinkTypes
<1>3. \A t \in Threads : stack[t] = <<>> /\ Len(stack[t]) = 0
  BY DEF Init
<1>4. Sound
  <2>1. ClientTypes
    <3>1. <<>> \in Seq(FrameType)
      BY EmptySeq
    <3> QED BY <3>1 DEF Init, ClientTypes
  <2>2. StacksAreSound
    BY <1>3 DEF StacksAreSound
  <2>3. TemporariesAreSound
    BY <1>3 DEF Init, TemporariesAreSound
  <2> QED BY <2>1, <2>2, <2>3 DEF Sound
<1>5. LinksAreSound
  BY DEF Init, LinksAreSound, LinksAgree
<1>6. CountsAreSound
  <2>1. \A b \in Blocks : BlockAgrees(b)
    <3> TAKE b \in Blocks
    <3>1. info[b] = NoInfo /\ live = {}
      BY DEF Init, CountsInit
    <3>2. Sharing(b) = {} /\ StrongHolders(b) = {} /\ WeakHolders(b) = {}
      BY <3>1 DEF Sharing, StrongHolders, WeakHolders, Holders
    <3> QED BY <3>1, <3>2, FS_EmptySet DEF BlockAgrees, NoInfo
  <2>2. CountsAgree
    BY <2>1, CountsMean
  <2>3. \A n \in Nodes : block[n] = 0 /\ n \notin live
    BY DEF Init, CountsInit
  <2>4. \A t \in Threads : Idle(t)
    BY <1>3 DEF Idle
  <2> QED BY <2>2, <2>3, <2>4 DEF CountsAreSound, LastOnesDiffer, Ends
<1> QED BY <1>1, <1>2, <1>4, <1>5, <1>6 DEF Inv

(* The steps of a destructor of a node that counts.                        *)
LEMMA CountingStep ==
  ASSUME Inv, WellUsed, NEW t \in Threads,
         ReleaseStrong(t) \/ ReleaseWeak(t) \/ Recheck(t) \/ Get(t) \/ Zap(t) \/ Clear(t)
  PROVE  Inv'
<1>1. ~cond.links
  <2>1. ~cond.links \/ (~Idle(t) /\ Top(t).at \in CountedOff)
    BY ZenonT(40) DEF ReleaseStrong, ReleaseWeak, Recheck, Get, Zap, Clear, At, Top, CountedOff
  <2> QED BY SMTT(30), <2>1, TopIsSound DEF FrameOK, Inv, Sound
<1>2. cond' = cond /\ UNCHANGED linkVars
  BY DEF ReleaseStrong, ReleaseWeak, Recheck, Get, Zap, Clear
<1>3. Sound /\ CountsInv
  BY <1>1 DEF Inv, CountsInv
<1>4. Sound' /\ CountsInv'
  BY <1>3, ReleaseStrongKeeps, ReleaseWeakKeeps, RecheckKeeps, GetKeeps, ZapKeeps, ClearKeeps
<1>5. CountTypes' /\ CountsAreSound'
  BY <1>4 DEF CountsInv
<1> QED BY <1>1, <1>2, <1>4, <1>5, InvFrom

LEMMA NextInv == WellUsed /\ Inv /\ [Next]_vars => Inv'
<1> SUFFICES ASSUME WellUsed, Inv, [Next]_vars PROVE Inv'
  OBVIOUS
<1>1. ASSUME NEW t \in Threads, Call(t) PROVE Inv'
  <2>1. ASSUME NEW p \in Pointers,
               \/ ConstructNull(t, p) \/ Destroy(t, p) \/ ReleaseAll(t, p)
               \/ \E o \in Objects : Construct(t, p, o)
               \/ \E o \in Objects \cup {Null} : AssignRaw(t, p, o) \/ ResetAll(t, p, o)
        PROVE  Inv'
    BY <2>1, ConstructNullKeeps, DestroyKeeps, ReleaseAllKeeps, ConstructKeeps,
       AssignRawKeeps, ResetAllKeeps
  <2>2. ASSUME NEW p \in Pointers, NEW q \in Pointers,
               \/ Copy(t, p, q) \/ Twin(t, p, q) \/ Merge(t, p, q)
               \/ Assign(t, p, q) \/ Swap(t, p, q)
               \/ \E isNull \in BOOLEAN : CastFrom(t, p, q, isNull)
        PROVE  Inv'
    BY <2>2, CopyKeeps, TwinKeeps, MergeKeeps, AssignKeeps, SwapKeeps, CastFromKeeps
  <2> QED BY <1>1, <2>1, <2>2 DEF Call
<1>2. ASSUME NEW t \in Threads, Proceed(t) PROVE Inv'
  BY <1>2, SwapTemporaryKeeps, CountingStep, ReleaseLinkKeeps, DeleteKeeps,
     DestroyMemberKeeps, SetKeeps DEF Proceed
<1>3. CASE UNCHANGED vars
  <2>1. UNCHANGED <<block, info, pointer, prev, next, cond, live, alive, raw, stack>>
    BY <1>3 DEF vars
  <2>2. CountTypes' /\ LinkTypes' /\ ClientTypes'
    BY <2>1 DEF Inv, Sound, CountTypes, LinkTypes, ClientTypes
  <2>3. StacksAreSound'
    BY <2>1 DEF Inv, Sound, StacksAreSound, FrameOK
  <2>4. TemporariesAreSound'
    BY <2>1 DEF Inv, Sound, TemporariesAreSound, Top
  <2>5. LinksAreSound'
    BY <2>1 DEF Inv, LinksAreSound, LinksAgree
  <2>6. Leaving' = Leaving /\ StrongNodes' = StrongNodes
    BY <2>1 DEF Leaving, Frames, StrongNodes, Idle
  <2>7. CountsAgree' <=> CountsAgree
    <3> HIDE DEF Leaving, StrongNodes
    <3> QED BY <2>1, <2>6 DEF CountsAgree
  <2>8. \A t \in Threads : FoundOut(t)' <=> FoundOut(t)
    BY <2>1 DEF FoundOut, Top
  <2>9. CountsAreSound'
    BY <2>1, <2>7, <2>8 DEF Inv, CountsAreSound, LastOnesDiffer, Ends, Idle, Top
  <2> QED BY <2>2, <2>3, <2>4, <2>5, <2>9 DEF Inv, Sound
<1> QED BY <1>1, <1>2, <1>3 DEF Next

(* The types of all variables, and what each frame of a call promises.     *)
THEOREM InvHolds == WellUsed => (Spec => []Inv)
<1>1. ASSUME WellUsed PROVE Inv /\ [Next]_vars => Inv'
  BY <1>1, NextInv
<1> SUFFICES ASSUME WellUsed PROVE Spec => []Inv
  OBVIOUS
<1>2. Inv /\ [Next]_vars => Inv'
  BY <1>1
<1> QED BY <1>2, InitInv, PTL DEF Spec

(* CountPrevCycle, CountNextCycle and AllNodesHaveSamePointer of           *)
(* StrongPtr.cpp: the cycle of a linked pointer leads as far back as forth *)
(* and to one object.  The counts of an info block are those of the        *)
(* pointers that share it and have not been counted off.                   *)
THEOREM CopointersTheorem == WellUsed => (Spec => []CopointersAgree)
<1>1. Inv => CopointersAgree
  BY DEF Inv, CountsAreSound, LinksAreSound, CopointersAgree
<1> QED BY <1>1, InvHolds, PTL
-----------------------------------------------------------------------------
(* Objects that are allocated.                                             *)

(* A pointer leads to the object, or a call is about to delete or set it.  *)
NodeHas(o) == \E n \in live : GetPointer(n) = o
FrameHas(o) ==
  \E t \in Threads : \E i \in 1 .. Len(stack[t]) :
    stack[t][i].at \in {"delete", "set"} /\ stack[t][i].obj = o

(* Before ResetAll sets the new object the old one has gone.               *)
OldIsGone ==
  \A t \in Threads : \A i \in 1 .. Len(stack[t]) :
    stack[t][i].at = "set" => GetPointer(stack[t][i].node) \notin alive

ObjectsAreKept ==
  /\ \A o \in alive \ raw : NodeHas(o) \/ FrameHas(o)
  /\ OldIsGone

NothingToSet(t) == \A i \in 1 .. Len(stack[t]) : stack[t][i].at # "set"

LEMMA NothingSetMeans ==
  ASSUME Inv, WellUsed, NEW t \in Threads, Idle(t) \/ Top(t).at \notin {"members", "set"}
  PROVE  NothingToSet(t)
<1> SUFFICES ASSUME NEW i \in 1 .. Len(stack[t]), stack[t][i].at = "set" PROVE FALSE
  BY DEF NothingToSet
<1>1. ~Idle(t)
  BY DEF Idle
<1>2. FrameOK(t, Top(t), TRUE, Len(stack[t]) = 1)
  BY <1>1, TopIsSound DEF Inv, Sound
<1>3. FrameOK(t, stack[t][i], i = 1, i = Len(stack[t]))
  BY DEF Inv, Sound, StacksAreSound
<1>4. "reset" \in cond.calls
  BY <1>3 DEF FrameOK
<1>5. "members" \notin cond.calls
  BY <1>4 DEF Inv, Sound, ClientTypes, WellUsed, UsedWell
<1>6. Len(stack[t]) = 1
  BY <1>1, <1>2, <1>5 DEF FrameOK
<1>7. stack[t][i] = Top(t)
  BY <1>6 DEF Top
<1> QED BY <1>1, <1>7

(* Where a pointer is reset no other thread has any.                       *)
LEMMA NoOtherSets ==
  ASSUME Inv, WellUsed, NEW t \in Threads, NEW p \in cond.pointers, User[p] = t,
         NEW s \in Threads, s # t
  PROVE  NothingToSet(s)
<1> SUFFICES ASSUME NEW i \in 1 .. Len(stack[s]), stack[s][i].at = "set" PROVE FALSE
  BY DEF NothingToSet
<1>1. FrameOK(s, stack[s][i], i = 1, i = Len(stack[s]))
  BY DEF Inv, Sound, StacksAreSound
<1>2. "reset" \in cond.calls /\ stack[s][i].as \in cond.pointers /\ User[stack[s][i].as] = s
  BY <1>1 DEF FrameOK
<1>3. OneUser(cond)
  BY <1>2 DEF Inv, Sound, ClientTypes, WellUsed, UsedWell
<1> QED BY <1>2, <1>3 DEF OneUser

LEMMA TopHasUser ==
  ASSUME Inv, NEW t \in Threads, ~Idle(t)
  PROVE  Top(t).as \in cond.pointers /\ User[Top(t).as] = t
BY TopIsSound DEF FrameOK, Inv, Sound

(* Thread t has a pointer and is not about to delete or to set an object.  *)
LEMMA KeptBy ==
  ASSUME Inv, WellUsed, ObjectsAreKept, NEW t \in Threads,
         NEW p \in cond.pointers, User[p] = t,
         Idle(t) \/ Top(t).at \notin {"members", "set", "delete"},
         \A s \in Threads : s # t => stack'[s] = stack[s],
         NothingToSet(t)',
         \A o \in alive' \ raw' : o \in alive \ raw /\ NodeHas(o) => NodeHas(o)' \/ FrameHas(o)',
         \A o \in alive' \ raw' : o \notin alive \ raw => NodeHas(o)' \/ FrameHas(o)'
  PROVE  ObjectsAreKept'
<1>1. \A i \in 1 .. Len(stack[t]) : stack[t][i].at \notin {"delete", "set"}
  <2> SUFFICES ASSUME NEW i \in 1 .. Len(stack[t]), stack[t][i].at \in {"delete", "set"}
               PROVE  FALSE
    OBVIOUS
  <2>1. NothingToSet(t)
    BY NothingSetMeans
  <2>2. ~Idle(t) /\ stack[t][i].at = "delete"
    BY <2>1 DEF NothingToSet, Idle
  <2>3. FrameOK(t, stack[t][i], i = 1, i = Len(stack[t]))
    BY DEF Inv, Sound, StacksAreSound
  <2>4. i = 1
    BY <2>2, <2>3 DEF FrameOK
  <2> QED BY <2>2, <2>4 DEF Top
<1>2. \A o : FrameHas(o) => FrameHas(o)'
  BY <1>1 DEF FrameHas
<1>3. \A s \in Threads : NothingToSet(s)'
  <2>1. \A s \in Threads : s # t => NothingToSet(s)
    BY NoOtherSets
  <2> QED BY <2>1 DEF NothingToSet
<1>4. OldIsGone'
  BY <1>3 DEF OldIsGone, NothingToSet
<1> QED BY <1>2, <1>4 DEF ObjectsAreKept

LEMMA LeadsStay ==
  ASSUME \A n \in live : n \in live' /\ GetPointer(n)' = GetPointer(n)
  PROVE  \A o : NodeHas(o) => NodeHas(o)'
BY DEF NodeHas

LEMMA SamePointers ==
  ASSUME UNCHANGED <<block, info, pointer, cond>>
  PROVE  \A n : GetPointer(n)' = GetPointer(n)
BY DEF GetPointer, CountsPointer

(* What the operations of the policies do to the pointers.                 *)
LEMMA NewLeads ==
  ASSUME Inv, NEW t \in Threads, Idle(t), cond' = cond, NEW CONSTANT n \in Nodes, n \notin live,
         NEW CONSTANT o \in Objects \cup {Null}, NEW CONSTANT s \in BOOLEAN, NewNode(n, o, s)
  PROVE  /\ \A m \in live : GetPointer(m)' = GetPointer(m)
         /\ GetPointer(n)' = o
<1>1. CASE cond.links
  <2>1. pointer' = [pointer EXCEPT ![n] = o]
    BY <1>1 DEF NewNode, LinksNew
  <2> QED BY <1>1, <2>1 DEF GetPointer, Inv, LinkTypes
<1>2. CASE ~cond.links
  <2>1. /\ CountTypes /\ ClientTypes /\ CountsAgree /\ Blocked
    BY <1>2 DEF Inv, Sound, CountsAreSound, Blocked
  <2>2. Unused \in Blocks /\ Sharing(Unused) = {}
    BY <2>1, UnusedIsThere
  <2>3. CountsNew(n, o, s)
    BY <1>2 DEF NewNode
  <2> DEFINE fresh == [NoInfo EXCEPT !.used = TRUE, !.pointer = o]
  <2>4. fresh \in InfoType /\ fresh.pointer = o
    BY FreshMeans DEF Fresh
  <2>5. /\ block' = [block EXCEPT ![n] = Unused]
        /\ info' = [info EXCEPT ![Unused] = Counted(fresh, s, 1)]
    BY <2>3 DEF CountsNew, Unused
  <2> HIDE DEF fresh, Unused
  <2>6. Counted(fresh, s, 1).pointer = o
    BY <2>4, CountedMeans
  <2>7. block'[n] = Unused /\ info'[Unused].pointer = o /\ Unused # 0
    BY <2>1, <2>2, <2>5, <2>6 DEF CountTypes, Blocks
  <2>8. \A m \in live : block'[m] = block[m] /\ block[m] \in Blocks /\ block[m] # Unused
    BY <2>1, <2>2, <2>5, BlockOfLive DEF Sharing, CountTypes
  <2>9. \A m \in live : info'[block[m]] = info[block[m]]
    BY <2>1, <2>5, <2>8 DEF CountTypes
  <2> QED BY <1>2, <2>7, <2>8, <2>9 DEF GetPointer, CountsPointer
<1> QED BY <1>1, <1>2

LEMMA ShareLeads ==
  ASSUME Inv, cond' = cond, NEW CONSTANT n \in Nodes, n \notin live,
         NEW CONSTANT q \in live, NEW CONSTANT s \in BOOLEAN, ShareNode(n, q, s)
  PROVE  \A m \in live : GetPointer(m)' = GetPointer(m)
<1>1. CASE cond.links
  <2>1. pointer' = [pointer EXCEPT ![n] = pointer[q]]
    BY <1>1 DEF ShareNode, LinksShare
  <2> QED BY <1>1, <2>1 DEF GetPointer, Inv, LinkTypes
<1>2. CASE ~cond.links
  <2>1. /\ CountTypes /\ ClientTypes /\ Blocked
    BY <1>2 DEF Inv, Sound, CountsAreSound, Blocked
  <2>2. PICK b \in Blocks : b = block[q]
    BY <2>1, BlockOfLive
  <2>3. PICK i \in InfoType : i = info[b]
    BY <2>1 DEF CountTypes
  <2>4. /\ block' = [block EXCEPT ![n] = b]
        /\ info' = [info EXCEPT ![b] = Counted(i, s, 1)]
    BY <1>2, <2>2, <2>3 DEF ShareNode, CountsShare
  <2>5. Counted(i, s, 1).pointer = i.pointer
    BY CountedMeans
  <2>6. \A c \in Blocks : info'[c].pointer = info[c].pointer
    BY <2>1, <2>3, <2>4, <2>5 DEF CountTypes
  <2>7. \A m \in live : block'[m] = block[m] /\ block[m] \in Blocks
    BY <2>1, <2>4, BlockOfLive DEF CountTypes
  <2> QED BY <1>2, <2>6, <2>7 DEF GetPointer, CountsPointer
<1> QED BY <1>1, <1>2

LEMMA SwapLeads ==
  ASSUME Inv, cond' = cond, NEW CONSTANT n \in live, NEW CONSTANT m \in live, SwapNodes(n, m)
  PROVE  /\ GetPointer(n)' = GetPointer(m) /\ GetPointer(m)' = GetPointer(n)
         /\ \A k \in live : k # n /\ k # m => GetPointer(k)' = GetPointer(k)
<1>1. live \subseteq Nodes
  BY DEF Inv, Sound, ClientTypes
<1>2. CASE cond.links
  <2>1. pointer' = [pointer EXCEPT ![n] = pointer[m], ![m] = pointer[n]]
    BY <1>2 DEF SwapNodes, LinksSwap
  <2> QED BY <1>1, <1>2, <2>1 DEF GetPointer, Inv, LinkTypes
<1>3. CASE ~cond.links
  <2>1. /\ block' = [block EXCEPT ![n] = block[m], ![m] = block[n]] /\ info' = info
    BY <1>3 DEF SwapNodes, CountsSwap
  <2> QED BY <1>1, <1>3, <2>1 DEF GetPointer, CountsPointer, Inv, CountTypes
<1> QED BY <1>2, <1>3
-----------------------------------------------------------------------------
(* Which frames a step of thread t leaves it.                              *)

LEMMA PushedFrames ==
  ASSUME ClientTypes, NEW t \in Threads, NEW f \in FrameType, Push(t, f)
  PROVE  /\ \A s \in Threads : s # t => stack'[s] = stack[s]
         /\ f.at # "set" /\ NothingToSet(t) => NothingToSet(t)'
         /\ \A i \in 1 .. Len(stack[t]) : /\ i + 1 \in 1 .. Len(stack'[t])
                                          /\ stack'[t][i + 1] = stack[t][i]
         /\ \A i \in 1 .. Len(stack'[t]) : i # 1 => /\ i - 1 \in 1 .. Len(stack[t])
                                                    /\ stack'[t][i] = stack[t][i - 1]
         /\ stack'[t][1] = f
<1>1. stack[t] \in Seq(FrameType) /\ Len(stack[t]) \in Nat
  BY LenProperties DEF ClientTypes
<1>2. /\ Len(<<f>> \o stack[t]) = Len(stack[t]) + 1
      /\ (<<f>> \o stack[t])[1] = f
      /\ \A i \in 1 .. Len(stack[t]) : (<<f>> \o stack[t])[i + 1] = stack[t][i]
  BY <1>1, PushMeans
<1>3. /\ stack'[t] = <<f>> \o stack[t]
      /\ \A s \in Threads : s # t => stack'[s] = stack[s]
  BY DEF Push, ClientTypes
<1>4. /\ Len(stack'[t]) = Len(stack[t]) + 1 /\ stack'[t][1] = f
      /\ \A i \in 1 .. Len(stack[t]) : stack'[t][i + 1] = stack[t][i]
  BY <1>2, <1>3
<1>5. \A i \in 1 .. Len(stack[t]) : i + 1 \in 1 .. Len(stack'[t])
  BY <1>1, <1>4
<1>6. ASSUME NEW i \in 1 .. Len(stack'[t]), i # 1
      PROVE  i - 1 \in 1 .. Len(stack[t]) /\ stack'[t][i] = stack[t][i - 1]
  <2>1. i - 1 \in 1 .. Len(stack[t]) /\ (i - 1) + 1 = i
    BY <1>1, <1>4, <1>6
  <2> QED BY <1>4, <2>1
<1>7. f.at # "set" /\ NothingToSet(t) => NothingToSet(t)'
  BY <1>4, <1>6 DEF NothingToSet
<1> QED BY <1>3, <1>4, <1>5, <1>6, <1>7

LEMMA BecomeFrames ==
  ASSUME ClientTypes, NEW t \in Threads, ~Idle(t), NEW f \in FrameType, Becomes(t, f)
  PROVE  /\ \A s \in Threads : s # t => stack'[s] = stack[s]
         /\ f.at # "set" /\ NothingToSet(t) => NothingToSet(t)'
         /\ 1 \in 1 .. Len(stack'[t]) /\ stack'[t][1] = f
<1>1. stack[t] \in Seq(FrameType) /\ stack[t] # <<>> /\ 1 \in 1 .. Len(stack[t])
  BY Frame1
<1>2. /\ Len(<<f>> \o Tail(stack[t])) = Len(stack[t])
      /\ (<<f>> \o Tail(stack[t]))[1] = f
      /\ \A i \in 2 .. Len(stack[t]) : (<<f>> \o Tail(stack[t]))[i] = stack[t][i]
  BY <1>1, BecomesMeans
<1>3. /\ stack'[t] = <<f>> \o Tail(stack[t])
      /\ \A s \in Threads : s # t => stack'[s] = stack[s]
  BY DEF Becomes, ClientTypes
<1>4. /\ Len(stack'[t]) = Len(stack[t]) /\ stack'[t][1] = f
      /\ \A i \in 2 .. Len(stack[t]) : stack'[t][i] = stack[t][i]
  BY <1>2, <1>3
<1>5. \A i \in 1 .. Len(stack'[t]) : i # 1 => i \in 2 .. Len(stack[t])
  BY <1>4
<1> QED BY <1>1, <1>3, <1>4, <1>5 DEF NothingToSet

LEMMA DoneFrames ==
  ASSUME ClientTypes, NEW t \in Threads, ~Idle(t), Done(t)
  PROVE  /\ \A s \in Threads : s # t => stack'[s] = stack[s]
         /\ NothingToSet(t) => NothingToSet(t)'
         /\ \A i \in 1 .. Len(stack'[t]) : /\ i + 1 \in 1 .. Len(stack[t])
                                           /\ stack'[t][i] = stack[t][i + 1]
         /\ \A i \in 1 .. Len(stack[t]) : i # 1 => /\ i - 1 \in 1 .. Len(stack'[t])
                                                   /\ stack'[t][i - 1] = stack[t][i]
<1>1. stack[t] \in Seq(FrameType) /\ stack[t] # <<>>
  BY Frame1
<1>2. /\ Len(Tail(stack[t])) = Len(stack[t]) - 1
      /\ Len(stack[t]) \in Nat /\ Len(stack[t]) >= 1
      /\ \A i \in 1 .. Len(stack[t]) - 1 : Tail(stack[t])[i] = stack[t][i + 1]
  BY <1>1, TailMeans
<1>3. /\ stack'[t] = Tail(stack[t])
      /\ \A s \in Threads : s # t => stack'[s] = stack[s]
  BY DEF Done, ClientTypes
<1>4. /\ Len(stack'[t]) = Len(stack[t]) - 1
      /\ \A i \in 1 .. Len(stack[t]) - 1 : stack'[t][i] = stack[t][i + 1]
  BY <1>2, <1>3
<1>5. \A i \in 1 .. Len(stack'[t]) : /\ i + 1 \in 1 .. Len(stack[t])
                                     /\ stack'[t][i] = stack[t][i + 1]
  BY <1>2, <1>4
<1>6. ASSUME NEW i \in 1 .. Len(stack[t]), i # 1
      PROVE  i - 1 \in 1 .. Len(stack'[t]) /\ stack'[t][i - 1] = stack[t][i]
  <2>1. i - 1 \in 1 .. Len(stack[t]) - 1 /\ (i - 1) + 1 = i
    BY <1>2, <1>6
  <2> QED BY <1>4, <2>1
<1>7. NothingToSet(t) => NothingToSet(t)'
  BY <1>5 DEF NothingToSet
<1> QED BY <1>3, <1>5, <1>6, <1>7
-----------------------------------------------------------------------------
(* Calls.                                                                  *)

(* A call of an idle thread that keeps what pointers lead to, and has a    *)
(* pointer for a new object.                                               *)
LEMMA KeptByCall ==
  ASSUME Inv, WellUsed, ObjectsAreKept, NEW t \in Threads, Idle(t),
         NEW p \in cond.pointers, User[p] = t,
         \/ stack' = stack
         \/ \E f \in FrameType : f.at # "set" /\ Push(t, f),
         \A n \in live : n \in live' /\ GetPointer(n)' = GetPointer(n),
         \A o \in alive' \ raw' : o \notin alive \ raw => \E n \in live' : GetPointer(n)' = o
  PROVE  ObjectsAreKept'
<1>1. NothingToSet(t)
  BY NothingSetMeans
<1>2. ClientTypes
  BY DEF Inv, Sound
<1>3. (\A s \in Threads : s # t => stack'[s] = stack[s]) /\ NothingToSet(t)'
  <2>1. CASE stack' = stack
    BY <1>1, <2>1 DEF NothingToSet
  <2>2. ASSUME NEW f \in FrameType, f.at # "set", Push(t, f)
        PROVE  (\A s \in Threads : s # t => stack'[s] = stack[s]) /\ NothingToSet(t)'
    BY <1>1, <1>2, <2>2, PushedFrames
  <2> QED BY <2>1, <2>2
<1>4. \A o : NodeHas(o) => NodeHas(o)'
  BY LeadsStay
<1>5. \A o \in alive' \ raw' : o \notin alive \ raw => NodeHas(o)'
  BY DEF NodeHas
<1> QED BY <1>3, <1>4, <1>5, KeptBy

LEMMA ConstructHas ==
  ASSUME Inv, WellUsed, ObjectsAreKept, NEW t \in Threads, NEW p \in Pointers,
         NEW o \in Objects, Construct(t, p, o)
  PROVE  ObjectsAreKept'
<1>1. /\ Idle(t) /\ CanConstruct(p) /\ NewNode(p, o, p \in Strong) /\ User[p] = t
      /\ live' = live \cup {p} /\ alive' = alive \cup {o} /\ raw' = raw \ {o}
      /\ cond' = cond /\ stack' = stack
  BY DEF Construct
<1>2. p \in cond.pointers /\ p \in Nodes /\ p \notin live
  BY <1>1 DEF CanConstruct, Nodes
<1>3. PICK s \in BOOLEAN : s = (p \in Strong)
  BY KindIsBoolean
<1>4. NewNode(p, o, s)
  BY <1>1, <1>3
<1>5. (\A m \in live : GetPointer(m)' = GetPointer(m)) /\ GetPointer(p)' = o
  BY <1>1, <1>2, <1>4, NewLeads
<1>6. \A x \in alive' \ raw' : x \notin alive \ raw => \E n \in live' : GetPointer(n)' = x
  BY <1>1, <1>5
<1> QED BY <1>1, <1>2, <1>5, <1>6, KeptByCall

LEMMA ConstructNullHas ==
  ASSUME Inv, WellUsed, ObjectsAreKept, NEW t \in Threads, NEW p \in Pointers,
         ConstructNull(t, p)
  PROVE  ObjectsAreKept'
<1>1. /\ Idle(t) /\ CanConstruct(p) /\ NewNode(p, Null, p \in Strong) /\ User[p] = t
      /\ live' = live \cup {p} /\ alive' = alive /\ raw' = raw
      /\ cond' = cond /\ stack' = stack
  BY DEF ConstructNull
<1>2. p \in cond.pointers /\ p \in Nodes /\ p \notin live
  BY <1>1 DEF CanConstruct, Nodes
<1>3. PICK s \in BOOLEAN : s = (p \in Strong)
  BY KindIsBoolean
<1>4. NewNode(p, Null, s)
  BY <1>1, <1>3
<1>5. \A m \in live : GetPointer(m)' = GetPointer(m)
  BY <1>1, <1>2, <1>4, NewLeads
<1>6. \A x \in alive' \ raw' : x \notin alive \ raw => \E n \in live' : GetPointer(n)' = x
  BY <1>1
<1> QED BY <1>1, <1>2, <1>5, <1>6, KeptByCall

LEMMA CopyHas ==
  ASSUME Inv, WellUsed, ObjectsAreKept, NEW t \in Threads, NEW p \in Pointers,
         NEW q \in Pointers, Copy(t, p, q)
  PROVE  ObjectsAreKept'
<1>1. /\ Usable(t, q) /\ CanConstruct(p) /\ ShareNode(p, q, p \in Strong)
      /\ live' = live \cup {p} /\ alive' = alive /\ raw' = raw
      /\ cond' = cond /\ stack' = stack
  BY DEF Copy
<1>2. p \in Nodes /\ p \notin live
  BY <1>1 DEF CanConstruct, Nodes
<1>3. Idle(t) /\ q \in live /\ q \in cond.pointers /\ User[q] = t
  BY <1>1, UsableMeans DEF Inv
<1>4. PICK s \in BOOLEAN : s = (p \in Strong)
  BY KindIsBoolean
<1>5. ShareNode(p, q, s)
  BY <1>1, <1>4
<1>6. \A m \in live : GetPointer(m)' = GetPointer(m)
  BY <1>1, <1>2, <1>3, <1>5, ShareLeads
<1>7. \A x \in alive' \ raw' : x \notin alive \ raw => \E n \in live' : GetPointer(n)' = x
  BY <1>1
<1> QED BY <1>1, <1>3, <1>6, <1>7, KeptByCall

LEMMA TwinHas ==
  ASSUME Inv, WellUsed, ObjectsAreKept, NEW t \in Threads, NEW p \in Pointers,
         NEW q \in Pointers, Twin(t, p, q)
  PROVE  ObjectsAreKept'
<1>1. /\ Usable(t, q) /\ CanConstruct(p) /\ NewNode(p, GetPointer(q), p \in Strong)
      /\ live' = live \cup {p} /\ alive' = alive /\ raw' = raw
      /\ cond' = cond /\ stack' = stack
  BY DEF Twin
<1>2. p \in Nodes /\ p \notin live
  BY <1>1 DEF CanConstruct, Nodes
<1>3. Idle(t) /\ q \in live /\ q \in cond.pointers /\ User[q] = t
  BY <1>1, UsableMeans DEF Inv
<1>4. PICK s \in BOOLEAN : s = (p \in Strong)
  BY KindIsBoolean
<1>5. PICK o \in Objects \cup {Null} : o = GetPointer(q)
  BY <1>3, PointerOf
<1>6. NewNode(p, o, s)
  BY <1>1, <1>4, <1>5
<1>7. \A m \in live : GetPointer(m)' = GetPointer(m)
  BY <1>1, <1>2, <1>3, <1>6, NewLeads
<1>8. \A x \in alive' \ raw' : x \notin alive \ raw => \E n \in live' : GetPointer(n)' = x
  BY <1>1
<1> QED BY <1>1, <1>3, <1>7, <1>8, KeptByCall

LEMMA MergeHas ==
  ASSUME Inv, WellUsed, ObjectsAreKept, NEW t \in Threads, NEW p \in Pointers,
         NEW q \in Pointers, Merge(t, p, q)
  PROVE  ObjectsAreKept'
<1>1. /\ Usable(t, p)
      /\ UNCHANGED <<block, info, pointer, cond, live, alive, raw, stack>>
  BY DEF Merge, countVars
<1>2. Idle(t) /\ p \in cond.pointers /\ User[p] = t
  BY <1>1, UsableMeans DEF Inv
<1>3. \A m \in live : m \in live' /\ GetPointer(m)' = GetPointer(m)
  BY <1>1, SamePointers
<1>4. \A x \in alive' \ raw' : x \notin alive \ raw => \E n \in live' : GetPointer(n)' = x
  BY <1>1
<1> QED BY <1>1, <1>2, <1>3, <1>4, KeptByCall

LEMMA AssignHas ==
  ASSUME Inv, WellUsed, ObjectsAreKept, NEW t \in Threads, NEW p \in Pointers,
         NEW q \in Pointers, Assign(t, p, q)
  PROVE  ObjectsAreKept'
<1>1. /\ Usable(t, q) /\ ShareNode(t, q, p \in Strong) /\ Usable(t, p)
      /\ live' = live \cup {t} /\ alive' = alive /\ raw' = raw /\ cond' = cond
      /\ Push(t, Frame("swap", p, p, Null))
  BY DEF Assign, Temporary
<1>2. Idle(t) /\ q \in live /\ q \in cond.pointers /\ User[q] = t /\ p \in Nodes
  BY <1>1, UsableMeans DEF Inv
<1>3. t \in Nodes /\ t \notin live
  BY <1>2, NoTemporary DEF Inv
<1>4. PICK s \in BOOLEAN : s = (p \in Strong)
  BY KindIsBoolean
<1>5. ShareNode(t, q, s)
  BY <1>1, <1>4
<1>6. \A m \in live : GetPointer(m)' = GetPointer(m)
  BY <1>1, <1>2, <1>3, <1>5, ShareLeads
<1>7. \A x \in alive' \ raw' : x \notin alive \ raw => \E n \in live' : GetPointer(n)' = x
  BY <1>1
<1>8. \E f \in FrameType : f.at # "set" /\ Push(t, f)
  <2>1. "swap" \in Labels
    BY DEF Labels
  <2>2. Frame("swap", p, p, Null) \in FrameType /\ Frame("swap", p, p, Null).at = "swap"
    BY <1>2, <2>1, FrameMeans
  <2> QED BY <1>1, <2>2
<1> QED BY <1>1, <1>2, <1>6, <1>7, <1>8, KeptByCall

LEMMA AssignRawHas ==
  ASSUME Inv, WellUsed, ObjectsAreKept, NEW t \in Threads, NEW p \in Pointers,
         NEW o \in Objects \cup {Null}, AssignRaw(t, p, o)
  PROVE  ObjectsAreKept'
<1>1. /\ NewNode(t, o, p \in Strong) /\ Usable(t, p)
      /\ live' = live \cup {t} /\ alive' = alive \cup ({o} \ {Null}) /\ raw' = raw \ {o}
      /\ cond' = cond /\ Push(t, Frame("swap", p, p, Null))
  BY DEF AssignRaw, Temporary
<1>2. Idle(t) /\ p \in cond.pointers /\ User[p] = t /\ p \in Nodes
  BY <1>1, UsableMeans DEF Inv
<1>3. t \in Nodes /\ t \notin live
  BY <1>2, NoTemporary DEF Inv
<1>4. PICK s \in BOOLEAN : s = (p \in Strong)
  BY KindIsBoolean
<1>5. NewNode(t, o, s)
  BY <1>1, <1>4
<1>6. (\A m \in live : GetPointer(m)' = GetPointer(m)) /\ GetPointer(t)' = o
  BY <1>1, <1>2, <1>3, <1>5, NewLeads
<1>7. \A x \in alive' \ raw' : x \notin alive \ raw => \E n \in live' : GetPointer(n)' = x
  <2> TAKE x \in alive' \ raw'
  <2>1. x \notin alive \ raw => x = o
    BY <1>1
  <2> QED BY <1>1, <1>6, <2>1
<1>8. \E f \in FrameType : f.at # "set" /\ Push(t, f)
  <2>1. "swap" \in Labels
    BY DEF Labels
  <2>2. Frame("swap", p, p, Null) \in FrameType /\ Frame("swap", p, p, Null).at = "swap"
    BY <1>2, <2>1, FrameMeans
  <2> QED BY <1>1, <2>2
<1> QED BY <1>1, <1>2, <1>6, <1>7, <1>8, KeptByCall

LEMMA CastFromHas ==
  ASSUME Inv, WellUsed, ObjectsAreKept, NEW t \in Threads, NEW p \in Pointers,
         NEW q \in Pointers, NEW isNull \in BOOLEAN, CastFrom(t, p, q, isNull)
  PROVE  ObjectsAreKept'
<1>1. /\ \/ isNull /\ NewNode(t, Null, p \in Strong)
         \/ ~isNull /\ ShareNode(t, q, p \in Strong)
      /\ Usable(t, p) /\ Usable(t, q)
      /\ live' = live \cup {t} /\ alive' = alive /\ raw' = raw /\ cond' = cond
      /\ Push(t, Frame("swap", p, p, Null))
  BY DEF CastFrom, Temporary
<1>2. Idle(t) /\ p \in cond.pointers /\ User[p] = t /\ p \in Nodes /\ q \in live
  BY <1>1, UsableMeans DEF Inv
<1>3. t \in Nodes /\ t \notin live
  BY <1>2, NoTemporary DEF Inv
<1>4. PICK s \in BOOLEAN : s = (p \in Strong)
  BY KindIsBoolean
<1>5. \A m \in live : GetPointer(m)' = GetPointer(m)
  <2>1. CASE isNull
    <3>1. NewNode(t, Null, s)
      BY <1>1, <1>4, <2>1
    <3> QED BY <1>1, <1>2, <1>3, <3>1, NewLeads
  <2>2. CASE ~isNull
    <3>1. ShareNode(t, q, s)
      BY <1>1, <1>4, <2>2
    <3> QED BY <1>1, <1>2, <1>3, <3>1, ShareLeads
  <2> QED BY <2>1, <2>2
<1>7. \A x \in alive' \ raw' : x \notin alive \ raw => \E n \in live' : GetPointer(n)' = x
  BY <1>1
<1>8. \E f \in FrameType : f.at # "set" /\ Push(t, f)
  <2>1. "swap" \in Labels
    BY DEF Labels
  <2>2. Frame("swap", p, p, Null) \in FrameType /\ Frame("swap", p, p, Null).at = "swap"
    BY <1>2, <2>1, FrameMeans
  <2> QED BY <1>1, <2>2
<1> QED BY <1>1, <1>2, <1>5, <1>7, <1>8, KeptByCall

LEMMA DestroyHas ==
  ASSUME Inv, WellUsed, ObjectsAreKept, NEW t \in Threads, NEW p \in Pointers, Destroy(t, p)
  PROVE  ObjectsAreKept'
<1>1. /\ Usable(t, p) /\ Push(t, Frame("release", p, p, Null))
      /\ UNCHANGED <<block, info, pointer, cond, live, alive, raw>>
  BY DEF Destroy, countVars, linkVars
<1>2. Idle(t) /\ p \in cond.pointers /\ User[p] = t /\ p \in Nodes
  BY <1>1, UsableMeans DEF Inv
<1>3. \A m \in live : m \in live' /\ GetPointer(m)' = GetPointer(m)
  BY <1>1, SamePointers
<1>4. \A x \in alive' \ raw' : x \notin alive \ raw => \E n \in live' : GetPointer(n)' = x
  BY <1>1
<1>5. \E f \in FrameType : f.at # "set" /\ Push(t, f)
  <2>1. "release" \in Labels
    BY DEF Labels, Going
  <2>2. Frame("release", p, p, Null) \in FrameType /\ Frame("release", p, p, Null).at = "release"
    BY <1>2, <2>1, FrameMeans
  <2> QED BY <1>1, <2>2
<1> QED BY <1>1, <1>2, <1>3, <1>4, <1>5, KeptByCall
LEMMA SwapKeepsHolders ==
  ASSUME Inv, cond' = cond, live' = live,
         NEW CONSTANT n \in live, NEW CONSTANT m \in live, SwapNodes(n, m)
  PROVE  \A o : NodeHas(o) => NodeHas(o)'
<1>1. /\ GetPointer(n)' = GetPointer(m) /\ GetPointer(m)' = GetPointer(n)
      /\ \A k \in live : k # n /\ k # m => GetPointer(k)' = GetPointer(k)
  BY SwapLeads
<1>2. ASSUME NEW o, NEW k \in live, GetPointer(k) = o PROVE \E j \in live' : GetPointer(j)' = o
  <2>1. CASE k = n
    BY <1>1, <1>2, <2>1
  <2>2. CASE k = m
    BY <1>1, <1>2, <2>2
  <2>3. CASE k # n /\ k # m
    BY <1>1, <1>2, <2>3
  <2> QED BY <2>1, <2>2, <2>3
<1> QED BY <1>2 DEF NodeHas

LEMMA SwapHas ==
  ASSUME Inv, WellUsed, ObjectsAreKept, NEW t \in Threads, NEW p \in Pointers,
         NEW q \in Pointers, Swap(t, p, q)
  PROVE  ObjectsAreKept'
<1>1. /\ Usable(t, p) /\ Usable(t, q) /\ SwapNodes(p, q)
      /\ UNCHANGED <<cond, live, alive, raw, stack>>
  BY DEF Swap
<1>2. Idle(t) /\ p \in cond.pointers /\ User[p] = t /\ p \in live /\ q \in live
  BY <1>1, UsableMeans DEF Inv
<1>3. \A o : NodeHas(o) => NodeHas(o)'
  BY <1>1, <1>2, SwapKeepsHolders
<1>4. NothingToSet(t)'
  BY <1>1, <1>2, NothingSetMeans DEF NothingToSet
<1> QED BY <1>1, <1>2, <1>3, <1>4, KeptBy

LEMMA SwapTemporaryHas ==
  ASSUME Inv, WellUsed, ObjectsAreKept, NEW t \in Threads, SwapTemporary(t)
  PROVE  ObjectsAreKept'
<1>1. /\ ~Idle(t) /\ Top(t).at = "swap" /\ SwapNodes(t, Top(t).node)
      /\ Becomes(t, Frame("release", t, Top(t).node, Null))
      /\ UNCHANGED <<cond, live, alive, raw>>
  BY DEF SwapTemporary, At, Top
<1>2. /\ FrameOK(t, Top(t), TRUE, Len(stack[t]) = 1) /\ Top(t).as \in Pointers
      /\ ClientTypes
  BY <1>1, TopIsSound, Frame1 DEF Inv, Sound
<1>3. PICK p \in live : p = Top(t).node
  BY <1>1, <1>2 DEF FrameOK
<1>4. /\ p \in cond.pointers /\ User[p] = t /\ p \in Pointers /\ Len(stack[t]) = 1
  BY <1>1, <1>2, <1>3 DEF FrameOK
<1>5. t \in live /\ t \in Nodes
  BY <1>1, <1>4 DEF Inv, Sound, TemporariesAreSound, Nodes
<1>6. SwapNodes(t, p)
  BY <1>1, <1>3
<1>7. \A o : NodeHas(o) => NodeHas(o)'
  BY <1>1, <1>5, <1>6, SwapKeepsHolders
<1>8. PICK f \in FrameType : f = Frame("release", t, p, Null) /\ f.at = "release"
  <2>1. "release" \in Labels
    BY DEF Labels, Going
  <2> QED BY <1>4, <1>5, <2>1, FrameMeans
<1>9. Becomes(t, f)
  BY <1>1, <1>3, <1>8
<1>10. NothingToSet(t)
  BY <1>1, NothingSetMeans
<1>11. NothingToSet(t)' /\ \A s \in Threads : s # t => stack'[s] = stack[s]
  BY <1>1, <1>2, <1>8, <1>9, <1>10, BecomeFrames
<1> QED BY <1>1, <1>4, <1>7, <1>11, KeptBy

(* Counting nodes that keep a block whose pointer stays.                   *)
LEMMA CountedLeads ==
  ASSUME Inv, ~cond.links, cond' = cond, NEW b,
         \A c \in Blocks : c # b => info'[c].pointer = info[c].pointer,
         NEW n \in live, block'[n] = block[n],
         block[n] # b \/ info'[b].pointer = info[b].pointer
  PROVE  GetPointer(n)' = GetPointer(n)
<1>1. block[n] \in Blocks
  BY BlockOfLive DEF Inv, Sound, CountsAreSound, Blocked
<1>2. info'[block[n]].pointer = info[block[n]].pointer
  BY <1>1
<1> QED BY <1>2 DEF GetPointer, CountsPointer

LEMMA LeadsOfBlock ==
  ASSUME Inv, ~cond.links, NEW n \in live
  PROVE  GetPointer(n) = info[block[n]].pointer /\ block[n] # 0 /\ block[n] \in Blocks
BY BlockOfLive DEF Inv, Sound, CountsAreSound, Blocked, GetPointer, CountsPointer

LEMMA LeadsLater ==
  ASSUME Inv', ~cond.links', NEW n \in live'
  PROVE  GetPointer(n)' = info'[block'[n]].pointer
<1>1. block'[n] # 0
  BY DEF Inv, Sound, CountsAreSound, ClientTypes
<1> QED BY <1>1 DEF GetPointer, CountsPointer

LEMMA ReleaseAllHas ==
  ASSUME Inv, WellUsed, ObjectsAreKept, NEW t \in Threads, NEW p \in Pointers,
         ReleaseAll(t, p)
  PROVE  ObjectsAreKept'
<1>1. /\ "reset" \in cond.calls /\ Usable(t, p) /\ SetPointer(p, Null)
      /\ raw' = raw \cup ({GetPointer(p)} \ {Null})
      /\ UNCHANGED <<cond, live, alive, stack>>
  BY DEF ReleaseAll, MayReset
<1>2. Idle(t) /\ p \in cond.pointers /\ User[p] = t /\ p \in live
  BY <1>1, UsableMeans DEF Inv
<1>3. ~cond.links
  BY <1>1 DEF WellUsed, UsedWell, Inv, Sound, ClientTypes
<1>4. PICK b \in Blocks : b = block[p] /\ GetPointer(p) = info[b].pointer
  BY <1>2, <1>3, LeadsOfBlock
<1>5. info' = [info EXCEPT ![b].pointer = Null] /\ block' = block
  BY <1>1, <1>3, <1>4 DEF SetPointer, CountsSet
<1>6. \A c \in Blocks : c # b => info'[c].pointer = info[c].pointer
  BY <1>5 DEF Inv, CountTypes
<1>7. ASSUME NEW o \in alive' \ raw', NodeHas(o) PROVE NodeHas(o)'
  <2>1. o \in Objects /\ o # Null /\ o # GetPointer(p)
    BY <1>1, NodesAssumption DEF Inv, Sound, ClientTypes
  <2>2. PICK k \in live : GetPointer(k) = o
    BY <1>7 DEF NodeHas
  <2>3. block[k] # b
    BY <1>3, <1>4, <2>1, <2>2, LeadsOfBlock
  <2>4. GetPointer(k)' = GetPointer(k)
    BY <1>1, <1>3, <1>5, <1>6, <2>3, CountedLeads
  <2> QED BY <1>1, <2>2, <2>4 DEF NodeHas
<1>8. NothingToSet(t)'
  BY <1>1, <1>2, NothingSetMeans DEF NothingToSet
<1>9. \A o \in alive' \ raw' : o \in alive \ raw
  BY <1>1
<1> QED BY <1>1, <1>2, <1>7, <1>8, <1>9, KeptBy

LEMMA ResetAllHas ==
  ASSUME Inv, WellUsed, ObjectsAreKept, NEW t \in Threads, NEW p \in Pointers,
         NEW o \in Objects \cup {Null}, ResetAll(t, p, o)
  PROVE  ObjectsAreKept'
<1>1. /\ "reset" \in cond.calls /\ Usable(t, p) /\ GetPointer(p) # o
      /\ alive' = (alive \ {GetPointer(p)}) \cup ({o} \ {Null}) /\ raw' = raw \ {o}
      /\ stack' = [stack EXCEPT ![t] = <<Frame("members", p, p, GetPointer(p)),
                                         Frame("set", p, p, o)>>]
      /\ UNCHANGED <<block, info, pointer, cond, live>>
  BY DEF ResetAll, MayReset, countVars, linkVars
<1>2. Idle(t) /\ p \in cond.pointers /\ User[p] = t /\ p \in live /\ p \in Nodes
  BY <1>1, UsableMeans DEF Inv
<1>3. PICK g : g = GetPointer(p)
  OBVIOUS
<1>4. PICK f : f = Frame("members", p, p, g)
  OBVIOUS
<1>5. PICK h : h = Frame("set", p, p, o)
  OBVIOUS
<1>6. f.at = "members" /\ h.at = "set" /\ h.node = p /\ h.obj = o
  BY <1>4, <1>5 DEF Frame
<1>7. /\ stack'[t] = <<f, h>> /\ \A s \in Threads : s # t => stack'[s] = stack[s]
  BY <1>1, <1>3, <1>4, <1>5 DEF Inv, Sound, ClientTypes
<1>8. /\ Len(stack'[t]) = 2 /\ stack'[t][1] = f /\ stack'[t][2] = h
  BY <1>7
<1>9. \A n : GetPointer(n)' = GetPointer(n)
  BY <1>1, SamePointers
<1>10. Len(stack[t]) = 0
  BY <1>2 DEF Idle
<1>11. \A x : FrameHas(x) => FrameHas(x)'
  <2> SUFFICES ASSUME NEW x, NEW s \in Threads, NEW i \in 1 .. Len(stack[s]),
                      stack[s][i].at \in {"delete", "set"} /\ stack[s][i].obj = x
               PROVE  FrameHas(x)'
    BY DEF FrameHas
  <2>1. stack'[s] = stack[s]
    BY <1>7, <1>10
  <2>2. i \in 1 .. Len(stack'[s])
    BY <2>1
  <2> QED BY <2>1, <2>2 DEF FrameHas
<1>12. ASSUME NEW x \in alive' \ raw' PROVE NodeHas(x)' \/ FrameHas(x)'
  <2>1. CASE x = o
    <3>1. 2 \in 1 .. Len(stack'[t])
      BY <1>8
    <3> QED BY <1>6, <1>8, <2>1, <3>1 DEF FrameHas
  <2>2. CASE x # o
    <3>1. x \in alive \ raw
      BY <1>1, <2>2
    <3>2. NodeHas(x) => NodeHas(x)'
      BY <1>1, <1>9, LeadsStay
    <3> QED BY <1>11, <3>1, <3>2 DEF ObjectsAreKept
  <2> QED BY <2>1, <2>2
<1>13. OldIsGone'
  <2> SUFFICES ASSUME NEW s \in Threads, NEW i \in 1 .. Len(stack'[s]), stack'[s][i].at = "set"
               PROVE  GetPointer(stack[s][i].node)' \notin alive'
    BY DEF OldIsGone
  <2>1. s = t
    <3> SUFFICES ASSUME s # t PROVE FALSE
      OBVIOUS
    <3>1. NothingToSet(s)
      BY <1>2, NoOtherSets
    <3> QED BY <1>7, <3>1 DEF NothingToSet
  <2>2. i = 2
    BY <1>6, <1>8, <2>1
  <2>3. stack'[s][i].node = p
    BY <1>6, <1>8, <2>1, <2>2
  <2>4. g \notin alive'
    BY <1>1, <1>3
  <2>5. GetPointer(p)' = g
    BY <1>3, <1>9
  <2> QED BY <2>3, <2>4, <2>5
<1> QED BY <1>12, <1>13 DEF ObjectsAreKept
-----------------------------------------------------------------------------
(* The steps of a destructor.                                              *)

(* It goes on, and the node is there yet.                                  *)
LEMMA GoingOnHas ==
  ASSUME Inv, WellUsed, ObjectsAreKept, ~cond.links, NEW t \in Threads, ~Idle(t),
         Top(t).at \in Going, UNCHANGED <<cond, live, alive, raw, block>>,
         \A c \in Blocks : info'[c].pointer = info[c].pointer,
         NEW CONSTANT g \in FrameType, Becomes(t, g), g.at # "set"
  PROVE  ObjectsAreKept'
<1>1. Top(t).at \notin {"members", "set", "delete"}
  BY DEF Going, CountedOff
<1>2. NothingToSet(t) /\ ClientTypes
  BY <1>1, NothingSetMeans DEF Inv, Sound
<1>3. NothingToSet(t)' /\ \A s \in Threads : s # t => stack'[s] = stack[s]
  BY <1>2, BecomeFrames
<1>4. PICK b : b = 0
  OBVIOUS
<1>5. \A n \in live : n \in live' /\ GetPointer(n)' = GetPointer(n)
  <2> TAKE n \in live
  <2>1. block[n] # b /\ block'[n] = block[n]
    BY <1>4, LeadsOfBlock
  <2> QED BY <2>1, CountedLeads
<1>6. \A o : NodeHas(o) => NodeHas(o)'
  BY <1>5, LeadsStay
<1>7. PICK p \in cond.pointers : User[p] = t
  BY TopHasUser
<1> QED BY <1>1, <1>3, <1>6, <1>7, KeptBy

(* The node goes, and another one has its block.                           *)
LEMMA GoneHas ==
  ASSUME Inv, WellUsed, ObjectsAreKept, Inv', ~cond.links, NEW t \in Threads, ~Idle(t),
         Top(t).at \in Going, UNCHANGED <<cond, alive, raw>>,
         NEW CONSTANT n \in live, live' = live \ {n}, block' = [block EXCEPT ![n] = 0],
         \A c \in Blocks : info'[c].pointer = info[c].pointer,
         info'[block[n]].used = info[block[n]].used,
         Done(t)
  PROVE  ObjectsAreKept'
<1>1. Top(t).at \notin {"members", "set", "delete"}
  BY DEF Going, CountedOff
<1>2. NothingToSet(t) /\ ClientTypes /\ CountTypes
  BY <1>1, NothingSetMeans DEF Inv, Sound
<1>3. NothingToSet(t)' /\ \A s \in Threads : s # t => stack'[s] = stack[s]
  BY <1>2, DoneFrames
<1>4. PICK b \in Blocks : b = block[n]
  BY LeadsOfBlock
<1>5. PICK k \in live' : block'[k] = b
  <2>1. CountsAgree /\ CountsAgree'
    BY DEF Inv, CountsAreSound
  <2>2. info[b].used
    BY <1>4, <2>1 DEF CountsAgree
  <2>3. info'[b].used
    BY <1>4, <2>2
  <2> QED BY <2>1, <2>3 DEF CountsAgree
<1>6. \A m \in live' : m \in live /\ block'[m] = block[m]
  BY <1>2 DEF CountTypes, ClientTypes
<1>7. \A m \in live' : GetPointer(m)' = GetPointer(m)
  <2> TAKE m \in live'
  <2>1. block[m] # 0 /\ m \in live /\ block'[m] = block[m]
    BY <1>6, LeadsOfBlock
  <2>2. PICK c : c = 0
    OBVIOUS
  <2> QED BY <2>1, <2>2, CountedLeads
<1>8. GetPointer(k)' = GetPointer(n)
  <2>1. k \in live /\ block[k] = b
    BY <1>5, <1>6
  <2>2. GetPointer(k) = info[b].pointer /\ GetPointer(n) = info[b].pointer
    BY <1>4, <2>1, LeadsOfBlock
  <2> QED BY <1>7, <2>2
<1>9. \A o : NodeHas(o) => NodeHas(o)'
  <2> SUFFICES ASSUME NEW m \in live PROVE \E j \in live' : GetPointer(j)' = GetPointer(m)
    BY DEF NodeHas
  <2>1. CASE m = n
    BY <1>5, <1>8, <2>1
  <2>2. CASE m # n
    BY <1>7, <2>2
  <2> QED BY <2>1, <2>2
<1>10. PICK p \in cond.pointers : User[p] = t
  BY TopHasUser
<1> QED BY <1>1, <1>3, <1>9, <1>10, KeptBy

(* The node goes, and the destructor has the object to delete.             *)
LEMMA DeletingHas ==
  ASSUME Inv, WellUsed, ObjectsAreKept, NEW t \in Threads, ~Idle(t),
         Top(t).at \in Going, UNCHANGED <<cond, alive, raw>>,
         NEW CONSTANT g \in FrameType, Becomes(t, g), g.at = "delete",
         \A m \in live : GetPointer(m) # g.obj => m \in live' /\ GetPointer(m)' = GetPointer(m)
  PROVE  ObjectsAreKept'
<1>1. Top(t).at \notin {"members", "set", "delete"}
  BY DEF Going, CountedOff
<1>2. NothingToSet(t) /\ ClientTypes
  BY <1>1, NothingSetMeans DEF Inv, Sound
<1>3. /\ NothingToSet(t)' /\ \A s \in Threads : s # t => stack'[s] = stack[s]
      /\ 1 \in 1 .. Len(stack'[t]) /\ stack'[t][1] = g
  BY <1>2, BecomeFrames
<1>4. FrameHas(g.obj)'
  BY <1>3 DEF FrameHas
<1>5. \A o : NodeHas(o) => NodeHas(o)' \/ FrameHas(o)'
  BY <1>4 DEF NodeHas
<1>6. PICK p \in cond.pointers : User[p] = t
  BY TopHasUser
<1> QED BY <1>1, <1>3, <1>5, <1>6, KeptBy

LEMMA PointersOfCounted ==
  ASSUME CountTypes, NEW CONSTANT b \in Blocks, NEW CONSTANT s \in BOOLEAN,
         info' = [info EXCEPT ![b] = Counted(@, s, -1)]
  PROVE  \A c \in Blocks : /\ info'[c].pointer = info[c].pointer
                           /\ info'[c].used = info[c].used
<1>1. PICK i \in InfoType : i = info[b]
  BY DEF CountTypes
<1>2. Counted(i, s, -1).pointer = i.pointer /\ Counted(i, s, -1).used = i.used
  BY CountedMeans
<1>3. info'[b] = Counted(i, s, -1) /\ \A c \in Blocks : c # b => info'[c] = info[c]
  BY <1>1 DEF CountTypes
<1> QED BY <1>1, <1>2, <1>3

LEMMA ReleaseStrongHas ==
  ASSUME Inv, WellUsed, ObjectsAreKept, Inv', NEW t \in Threads, ReleaseStrong(t)
  PROVE  ObjectsAreKept'
<1> DEFINE f == Top(t)
<1>1. /\ ~cond.links /\ ~Idle(t) /\ f.at = "release" /\ UNCHANGED <<cond, alive, raw>>
      /\ info' = [info EXCEPT ![block[f.node]] = Counted(@, TRUE, -1)]
      /\ IF info[block[f.node]].strong = 1
         THEN Becomes(t, [f EXCEPT !.at = "get"]) /\ live' = live /\ block' = block
         ELSE Done(t) /\ live' = live \ {f.node} /\ block' = [block EXCEPT ![f.node] = 0]
  BY DEF ReleaseStrong, At, Top, CountsLess, CountsGone
<1>2. f.at \in Going
  BY <1>1 DEF Going
<1>3. f \in FrameType /\ f.node \in live /\ CountTypes
  BY <1>1, <1>2, AtNode DEF Inv
<1>4. PICK n \in live : n = f.node
  BY <1>3
<1>5. PICK b \in Blocks : b = block[n]
  BY <1>1, LeadsOfBlock
<1>6. \A c \in Blocks : info'[c].pointer = info[c].pointer /\ info'[c].used = info[c].used
  <2>1. PICK s \in BOOLEAN : s = TRUE
    OBVIOUS
  <2>2. info' = [info EXCEPT ![b] = Counted(@, s, -1)]
    BY <1>1, <1>4, <1>5, <2>1
  <2> QED BY <1>3, <2>2, PointersOfCounted
<1>7. CASE info[block[f.node]].strong = 1
  <2>1. PICK g \in FrameType : g = [f EXCEPT !.at = "get"]
    BY <1>3 DEF FrameType, Labels, Going, CountedOff
  <2>2. g.at # "set" /\ Becomes(t, g)
    BY <1>1, <1>3, <1>7, <2>1 DEF FrameType
  <2> QED BY <1>1, <1>2, <1>6, <1>7, <2>2, GoingOnHas
<1>8. CASE info[block[f.node]].strong # 1
  <2>1. Done(t) /\ live' = live \ {n} /\ block' = [block EXCEPT ![n] = 0]
    BY <1>1, <1>4, <1>8
  <2>2. info'[block[n]].used = info[block[n]].used
    BY <1>5, <1>6
  <2> QED BY <1>1, <1>2, <1>6, <2>1, <2>2, GoneHas
<1> QED BY <1>7, <1>8

LEMMA ReleaseWeakHas ==
  ASSUME Inv, WellUsed, ObjectsAreKept, NEW t \in Threads, ReleaseWeak(t)
  PROVE  ObjectsAreKept'
<1> DEFINE f == Top(t)
<1>1. /\ ~cond.links /\ ~Idle(t) /\ f.at = "release"
      /\ UNCHANGED <<cond, live, alive, raw, block>>
      /\ info' = [info EXCEPT ![block[f.node]] = Counted(@, FALSE, -1)]
      /\ Becomes(t, [f EXCEPT !.at = "recheck"])
  BY DEF ReleaseWeak, At, Top, CountsLess
<1>2. f.at \in Going
  BY <1>1 DEF Going
<1>3. f \in FrameType /\ f.node \in live /\ CountTypes
  BY <1>1, <1>2, AtNode DEF Inv
<1>4. PICK b \in Blocks : b = block[f.node]
  BY <1>1, <1>3, LeadsOfBlock
<1>5. \A c \in Blocks : info'[c].pointer = info[c].pointer
  <2>1. PICK s \in BOOLEAN : s = FALSE
    OBVIOUS
  <2>2. info' = [info EXCEPT ![b] = Counted(@, s, -1)]
    BY <1>1, <1>4, <2>1
  <2> QED BY <1>3, <2>2, PointersOfCounted
<1>6. PICK g \in FrameType : g = [f EXCEPT !.at = "recheck"]
  BY <1>3 DEF FrameType, Labels, Going, CountedOff
<1>7. g.at # "set" /\ Becomes(t, g)
  BY <1>1, <1>3, <1>6 DEF FrameType
<1> QED BY <1>1, <1>2, <1>5, <1>7, GoingOnHas

LEMMA RecheckHas ==
  ASSUME Inv, WellUsed, ObjectsAreKept, Inv', NEW t \in Threads, Recheck(t)
  PROVE  ObjectsAreKept'
<1> DEFINE f == Top(t)
<1>1. /\ ~Idle(t) /\ f.at = "recheck" /\ UNCHANGED <<cond, alive, raw, info>>
      /\ \/ /\ Done(t) /\ live' = live \ {f.node}
            /\ block' = [block EXCEPT ![f.node] = 0]
         \/ Becomes(t, [f EXCEPT !.at = "get"]) /\ live' = live /\ block' = block
  BY DEF Recheck, At, Top, CountsGone
<1>2. f.at \in Going /\ f.at \in CountedOff
  BY <1>1 DEF Going, CountedOff
<1>3. ~cond.links /\ f \in FrameType
  BY <1>1, <1>2, TopIsSound, Frame1 DEF FrameOK, Inv, Sound
<1>4. PICK n \in live : n = f.node
  BY <1>1, <1>2, <1>3, AtNode DEF Inv
<1>5. CASE /\ Done(t) /\ live' = live \ {f.node}
           /\ block' = [block EXCEPT ![f.node] = 0]
  <2>1. Done(t) /\ live' = live \ {n} /\ block' = [block EXCEPT ![n] = 0]
    BY <1>4, <1>5
  <2>2. /\ info'[block[n]].used = info[block[n]].used
        /\ \A c \in Blocks : info'[c].pointer = info[c].pointer
    BY <1>1
  <2> QED BY <1>1, <1>2, <1>3, <2>1, <2>2, GoneHas
<1>6. CASE Becomes(t, [f EXCEPT !.at = "get"]) /\ live' = live /\ block' = block
  <2>1. PICK g \in FrameType : g = [f EXCEPT !.at = "get"]
    BY <1>3 DEF FrameType, Labels, Going, CountedOff
  <2>2. g.at # "set" /\ Becomes(t, g) /\ \A c \in Blocks : info'[c].pointer = info[c].pointer
    BY <1>1, <1>3, <1>6, <2>1 DEF FrameType
  <2> QED BY <1>1, <1>2, <1>3, <1>6, <2>2, GoingOnHas
<1> QED BY <1>1, <1>5, <1>6

LEMMA GetHas ==
  ASSUME Inv, WellUsed, ObjectsAreKept, NEW t \in Threads, Get(t)
  PROVE  ObjectsAreKept'
<1> DEFINE f == Top(t)
<1>1. /\ ~Idle(t) /\ f.at = "get" /\ UNCHANGED <<cond, live, alive, raw, block, info>>
      /\ Becomes(t, [f EXCEPT !.at = "zap", !.obj = CountsPointer(f.node)])
  BY DEF Get, At, Top, countVars
<1>2. f.at \in Going /\ f.at \in CountedOff
  BY <1>1 DEF Going, CountedOff
<1>3. ~cond.links /\ f \in FrameType
  BY <1>1, <1>2, TopIsSound, Frame1 DEF FrameOK, Inv, Sound
<1>4. block[f.node] \in Blocks
  BY <1>1, <1>2, <1>3, AtNode DEF Inv
<1>5. PICK o \in Objects \cup {Null} : o = CountsPointer(f.node)
  BY <1>4 DEF Inv, CountTypes, InfoType, CountsPointer
<1>6. PICK g \in FrameType : g = [f EXCEPT !.at = "zap", !.obj = o]
  BY <1>3 DEF FrameType, Labels, Going, CountedOff
<1>7. g.at # "set" /\ Becomes(t, g) /\ \A c \in Blocks : info'[c].pointer = info[c].pointer
  BY <1>1, <1>3, <1>5, <1>6 DEF FrameType
<1> QED BY <1>1, <1>2, <1>3, <1>7, GoingOnHas

LEMMA ZapHas ==
  ASSUME Inv, WellUsed, ObjectsAreKept, NEW t \in Threads, Zap(t) \/ Clear(t)
  PROVE  ObjectsAreKept'
<1> DEFINE f == Top(t)
<1>1. /\ ~Idle(t) /\ f.at \in {"zap", "clear"} /\ UNCHANGED <<cond, alive, raw>>
      /\ \/ /\ Becomes(t, [f EXCEPT !.at = "clear"]) /\ UNCHANGED <<block, info, live>>
         \/ /\ \E i : info' = [info EXCEPT ![block[f.node]] = i]
            /\ block' = [block EXCEPT ![f.node] = 0]
            /\ Becomes(t, [f EXCEPT !.at = "delete"]) /\ live' = live \ {f.node}
  BY DEF Zap, Clear, At, Top, CountsFree, CountsGone, countVars
<1>2. f.at \in Going /\ f.at \in CountedOff
  BY <1>1 DEF Going, CountedOff
<1>3. ~cond.links /\ f \in FrameType
  BY <1>1, <1>2, TopIsSound, Frame1 DEF FrameOK, Inv, Sound
<1>4. CASE Becomes(t, [f EXCEPT !.at = "clear"]) /\ UNCHANGED <<block, info, live>>
  <2>1. PICK g \in FrameType : g = [f EXCEPT !.at = "clear"]
    BY <1>3 DEF FrameType, Labels, Going, CountedOff
  <2>2. g.at # "set" /\ Becomes(t, g) /\ \A c \in Blocks : info'[c].pointer = info[c].pointer
    BY <1>3, <1>4, <2>1 DEF FrameType
  <2> QED BY <1>1, <1>2, <1>3, <1>4, <2>2, GoingOnHas
<1>5. CASE /\ \E i : info' = [info EXCEPT ![block[f.node]] = i]
           /\ block' = [block EXCEPT ![f.node] = 0]
           /\ Becomes(t, [f EXCEPT !.at = "delete"]) /\ live' = live \ {f.node}
  <2>1. PICK n \in live : n = f.node
    BY <1>1, <1>2, <1>3, AtNode DEF Inv
  <2>2. PICK b \in Blocks : b = block[n]
    BY <1>3, LeadsOfBlock
  <2>3. PICK g \in FrameType : g = [f EXCEPT !.at = "delete"]
    BY <1>3 DEF FrameType, Labels, Going, CountedOff
  <2>4. g.at = "delete" /\ Becomes(t, g) /\ g.obj = f.obj
    BY <1>3, <1>5, <2>3 DEF FrameType
  <2>5. info[b].pointer = g.obj
    <3>1. FoundOut(t)
      BY <1>1, <1>3 DEF Inv, CountsAreSound
    <3> QED BY <1>1, <2>1, <2>2, <2>4, <3>1 DEF FoundOut
  <2>6. \A c \in Blocks : c # b => info'[c].pointer = info[c].pointer
    BY <1>5, <2>1, <2>2 DEF Inv, CountTypes
  <2>7. \A m \in live : GetPointer(m) # g.obj => m \in live' /\ GetPointer(m)' = GetPointer(m)
    <3> SUFFICES ASSUME NEW m \in live, GetPointer(m) # g.obj
                 PROVE  m \in live' /\ GetPointer(m)' = GetPointer(m)
      OBVIOUS
    <3>1. block[m] # b
      BY <1>3, <2>5, LeadsOfBlock
    <3>2. m # n
      BY <2>2, <3>1
    <3>3. m \in live' /\ block'[m] = block[m]
      BY <1>5, <2>1, <3>2 DEF Inv, CountTypes, Sound, ClientTypes
    <3> QED BY <1>1, <1>3, <2>6, <3>1, <3>3, CountedLeads
  <2> QED BY <1>1, <1>2, <2>4, <2>7, DeletingHas
<1> QED BY SMTT(30), <1>1, <1>4, <1>5
(* A walk along a cycle meets pointers to one object only.                 *)
LEMMA OneObject ==
  ASSUME LinksAgree, live \subseteq Nodes, NEW n \in live
  PROVE  \A m \in Walk(prev, n) : pointer[m] = pointer[n]
<1> DEFINE at == Steps(prev, n)
           S == {i \in 0 .. Most : at[i] \in live /\ pointer[at[i]] = pointer[n]}
<1>1. Most \in Nat /\ Null \notin live
  BY MostIsNatural, NodesAssumption
<1>2. /\ at = [i \in 0 .. Most |-> IF i = 0 THEN n ELSE Along(prev, at[i - 1])]
      /\ Walk(prev, n) = {at[i] : i \in 1 .. Most} \ {Null}
  BY StepsMean
<1> HIDE DEF at
<1>3. at[0] = n /\ \A i \in 1 .. Most : at[i] = Along(prev, at[i - 1])
  BY <1>1, <1>2
<1>4. 0 \in S
  BY <1>1, <1>3
<1>5. ASSUME NEW i \in 1 .. Most, i - 1 \in S PROVE i \in S
  <2>1. at[i] = prev[at[i - 1]]
    BY <1>1, <1>3, <1>5 DEF Along
  <2>2. at[i] \in live /\ next[at[i]] = at[i - 1]
    BY <1>5, <2>1 DEF LinksAgree
  <2>3. pointer[at[i]] = pointer[at[i - 1]]
    BY <2>2 DEF LinksAgree
  <2> QED BY <1>5, <2>2, <2>3
<1>6. 0 .. Most \subseteq S
  <2> HIDE DEF S
  <2> QED BY <1>1, <1>4, <1>5, UpTo
<1>7. \A i \in 1 .. Most : pointer[at[i]] = pointer[n]
  <2> TAKE i \in 1 .. Most
  <2>1. i \in 0 .. Most
    BY <1>1
  <2> QED BY <1>6, <2>1
<1> QED BY <1>2, <1>7

LEMMA ReleaseLinkHas ==
  ASSUME Inv, WellUsed, ObjectsAreKept, NEW t \in Threads, ReleaseLink(t)
  PROVE  ObjectsAreKept'
<1> DEFINE f == Top(t)
           n == f.node
<1>1. /\ cond.links /\ ~Idle(t) /\ f.at = "release"
      /\ \/ next[n] # n /\ LinksLeave(n) /\ Done(t)
         \/ LinksZap(n) /\ Becomes(t, [f EXCEPT !.at = "delete", !.obj = pointer[n]])
      /\ live' = live \ {n} /\ UNCHANGED <<cond, alive, raw>>
  BY DEF ReleaseLink, At, Top
<1>2. f.at \in Going /\ f.at \notin {"members", "set", "delete"}
  BY <1>1 DEF Going
<1>3. /\ n \in live /\ live \subseteq Nodes /\ LinkTypes /\ LinksAgree /\ f \in FrameType
      /\ ClientTypes
  BY <1>1, <1>2, TopIsSound, Frame1 DEF FrameOK, Inv, Sound, ClientTypes, LinksAreSound
<1>4. CASE next[n] # n /\ LinksLeave(n) /\ Done(t)
  <2>1. pointer' = [pointer EXCEPT ![n] = Null]
    BY <1>4 DEF LinksLeave
  <2>2. \A m \in live' : m \in live /\ GetPointer(m)' = GetPointer(m)
    BY <1>1, <1>3, <2>1 DEF GetPointer, LinkTypes
  <2>3. next[n] \in live' /\ GetPointer(next[n]) = GetPointer(n)
    BY <1>1, <1>3, <1>4 DEF LinksAgree, GetPointer
  <2>4. \A o : NodeHas(o) => NodeHas(o)'
    <3> SUFFICES ASSUME NEW m \in live PROVE \E j \in live' : GetPointer(j)' = GetPointer(m)
      BY DEF NodeHas
    <3>1. PICK k \in live' : GetPointer(k) = GetPointer(n)
      BY <2>3
    <3>2. CASE m = n
      BY <2>2, <3>1, <3>2
    <3>3. CASE m # n
      BY <1>1, <2>2, <3>3
    <3> QED BY <3>2, <3>3
  <2>5. NothingToSet(t)
    BY <1>2, NothingSetMeans
  <2>6. NothingToSet(t)' /\ \A s \in Threads : s # t => stack'[s] = stack[s]
    BY <1>1, <1>3, <1>4, <2>5, DoneFrames
  <2>7. PICK p \in cond.pointers : User[p] = t
    BY <1>1, TopHasUser
  <2> QED BY <1>1, <1>2, <2>4, <2>6, <2>7, KeptBy
<1>5. CASE LinksZap(n) /\ Becomes(t, [f EXCEPT !.at = "delete", !.obj = pointer[n]])
  <2>1. PICK o \in Objects \cup {Null} : o = pointer[n]
    BY <1>3 DEF LinkTypes
  <2>2. PICK g \in FrameType : g = [f EXCEPT !.at = "delete", !.obj = o]
    BY <1>3 DEF FrameType, Labels
  <2>3. g.at = "delete" /\ g.obj = o /\ Becomes(t, g)
    BY <1>3, <1>5, <2>1, <2>2 DEF FrameType
  <2>4. ASSUME NEW m \in live, GetPointer(m) # g.obj
        PROVE  m \in live' /\ GetPointer(m)' = GetPointer(m)
    <3>1. pointer[m] # pointer[n]
      BY <1>1, <2>1, <2>3, <2>4 DEF GetPointer
    <3>2. m \notin Walk(prev, n) /\ m # n
      BY <1>3, <3>1, OneObject
    <3>3. pointer'[m] = pointer[m]
      BY <1>3, <1>5, <3>2 DEF LinksZap
    <3> QED BY <1>1, <3>2, <3>3 DEF GetPointer
  <2> QED BY <1>1, <1>2, <2>3, <2>4, DeletingHas
<1> QED BY <1>1, <1>4, <1>5

(* A frame below the innermost one is not about to delete.                 *)
LEMMA LowerFramesWait ==
  ASSUME Inv, NEW t \in Threads, NEW i \in 1 .. Len(stack[t]), i # 1
  PROVE  stack[t][i].at \in {"members", "set"}
<1>1. FrameOK(t, stack[t][i], i = 1, i = Len(stack[t]))
  BY DEF Inv, Sound, StacksAreSound
<1> QED BY <1>1 DEF FrameOK

LEMMA DeleteHas ==
  ASSUME Inv, WellUsed, ObjectsAreKept, NEW t \in Threads, Delete(t)
  PROVE  ObjectsAreKept'
<1>1. /\ ~Idle(t) /\ Top(t).at = "delete"
      /\ \/ Top(t).obj = Null /\ Done(t) /\ alive' = alive
         \/ /\ alive' = alive \ {Top(t).obj}
            /\ Becomes(t, [Top(t) EXCEPT !.at = "members"])
      /\ UNCHANGED <<block, info, pointer, cond, live, raw>>
  BY DEF Delete, At, Top, countVars, linkVars
<1>2. ClientTypes /\ Top(t) \in FrameType
  BY <1>1, Frame1 DEF Inv, Sound
<1>3. NothingToSet(t)
  BY <1>1, NothingSetMeans
<1>4. NothingToSet(t)' /\ \A s \in Threads : s # t => stack'[s] = stack[s]
  <2>1. CASE Done(t)
    BY <1>1, <1>2, <1>3, <2>1, DoneFrames
  <2>2. CASE Becomes(t, [Top(t) EXCEPT !.at = "members"])
    <3>1. PICK f \in FrameType : f = [Top(t) EXCEPT !.at = "members"]
      BY <1>2 DEF FrameType, Labels
    <3>2. f.at # "set" /\ Becomes(t, f)
      BY <1>2, <2>2, <3>1 DEF FrameType
    <3> QED BY <1>1, <1>2, <1>3, <3>2, BecomeFrames
  <2> QED BY <1>1, <2>1, <2>2
<1>5. PICK p \in cond.pointers : User[p] = t
  BY <1>1, TopHasUser
<1>6. \A s \in Threads : NothingToSet(s)'
  <2>1. \A s \in Threads : s # t => NothingToSet(s)
    BY <1>5, NoOtherSets
  <2> QED BY <1>4, <2>1 DEF NothingToSet
<1>7. ASSUME NEW x \in alive' \ raw' PROVE NodeHas(x)' \/ FrameHas(x)'
  <2>1. x \in alive \ raw /\ x # Top(t).obj
    BY <1>1, NodesAssumption DEF Inv, Sound, ClientTypes
  <2>2. CASE NodeHas(x)
    <3>1. \A n \in live : n \in live' /\ GetPointer(n)' = GetPointer(n)
      BY <1>1, SamePointers
    <3> QED BY <2>2, <3>1, LeadsStay
  <2>3. CASE FrameHas(x)
    <3>1. PICK s \in Threads : \E i \in 1 .. Len(stack[s]) :
             stack[s][i].at \in {"delete", "set"} /\ stack[s][i].obj = x
      BY <2>3 DEF FrameHas
    <3>2. PICK i \in 1 .. Len(stack[s]) :
             stack[s][i].at \in {"delete", "set"} /\ stack[s][i].obj = x
      BY <3>1
    <3>3. s # t
      <4> SUFFICES ASSUME s = t PROVE FALSE
        OBVIOUS
      <4>1. i # 1
        BY <2>1, <3>2 DEF Top
      <4>2. stack[t][i].at \in {"members", "set"}
        BY <4>1, LowerFramesWait
      <4> QED BY <1>3, <3>2, <4>2 DEF NothingToSet
    <3>4. stack'[s] = stack[s]
      BY <1>4, <3>3
    <3>5. i \in 1 .. Len(stack'[s])
      BY <3>4
    <3> QED BY <3>2, <3>4, <3>5 DEF FrameHas
  <2> QED BY <2>1, <2>2, <2>3 DEF ObjectsAreKept
<1> QED BY <1>6, <1>7 DEF ObjectsAreKept, OldIsGone, NothingToSet

(* The frames of other threads, and those of this one in their new places. *)
LEMMA FramesMove ==
  ASSUME ObjectsAreKept, NEW t \in Threads,
         UNCHANGED <<block, info, pointer, cond, live, alive, raw>>,
         \A s \in Threads : s # t => stack'[s] = stack[s],
         \A i \in 1 .. Len(stack[t]) : stack[t][i].at \in {"delete", "set"} =>
           \E j \in 1 .. Len(stack'[t]) : stack'[t][j] = stack[t][i],
         \A i \in 1 .. Len(stack'[t]) : stack'[t][i].at = "set" =>
           \E j \in 1 .. Len(stack[t]) : stack[t][j] = stack'[t][i]
  PROVE  ObjectsAreKept'
<1>1. \A n : GetPointer(n)' = GetPointer(n)
  BY SamePointers
<1>2. \A o : NodeHas(o) => NodeHas(o)'
  BY <1>1, LeadsStay
<1>3. \A o : FrameHas(o) => FrameHas(o)'
  <2> SUFFICES ASSUME NEW o, NEW s \in Threads, NEW i \in 1 .. Len(stack[s]),
                      stack[s][i].at \in {"delete", "set"}, stack[s][i].obj = o
               PROVE  FrameHas(o)'
    BY DEF FrameHas
  <2>1. PICK j \in 1 .. Len(stack'[s]) : stack'[s][j] = stack[s][i]
    <3>1. CASE s = t
      BY <3>1
    <3>2. CASE s # t
      <4>1. stack'[s] = stack[s]
        BY <3>2
      <4>2. i \in 1 .. Len(stack'[s]) /\ stack'[s][i] = stack[s][i]
        BY <4>1
      <4> QED BY <4>2
    <3> QED BY <3>1, <3>2
  <2> QED BY <2>1 DEF FrameHas
<1>4. OldIsGone'
  <2> SUFFICES ASSUME NEW s \in Threads, NEW i \in 1 .. Len(stack'[s]), stack'[s][i].at = "set"
               PROVE  GetPointer(stack[s][i].node)' \notin alive'
    BY DEF OldIsGone
  <2>1. PICK j \in 1 .. Len(stack[s]) : stack[s][j] = stack'[s][i]
    <3>1. CASE s = t
      BY <3>1
    <3>2. CASE s # t
      <4>1. stack'[s] = stack[s]
        BY <3>2
      <4>2. i \in 1 .. Len(stack[s]) /\ stack'[s][i] = stack[s][i]
        BY <4>1
      <4> QED BY <4>2
    <3> QED BY <3>1, <3>2
  <2>2. PICK n : n = stack[s][j].node
    OBVIOUS
  <2>3. GetPointer(n) \notin alive
    BY <2>1, <2>2 DEF ObjectsAreKept, OldIsGone
  <2>4. GetPointer(n)' \notin alive'
    BY <1>1, <2>3
  <2>5. n = stack'[s][i].node
    BY <2>1, <2>2
  <2> QED BY <2>4, <2>5
<1> QED BY <1>2, <1>3, <1>4 DEF ObjectsAreKept

LEMMA DestroyMemberHas ==
  ASSUME Inv, WellUsed, ObjectsAreKept, NEW t \in Threads, DestroyMember(t)
  PROVE  ObjectsAreKept'
<1>1. /\ ~Idle(t) /\ Top(t).at = "members"
      /\ Done(t) \/ \E p \in Inside(t) : Push(t, Frame("release", p, p, Null))
      /\ UNCHANGED <<block, info, pointer, cond, live, alive, raw>>
  BY DEF DestroyMember, At, Top, countVars, linkVars
<1>2. ClientTypes
  BY DEF Inv, Sound
<1>3. CASE Done(t)
  <2>1. /\ \A s \in Threads : s # t => stack'[s] = stack[s]
        /\ \A i \in 1 .. Len(stack'[t]) : /\ i + 1 \in 1 .. Len(stack[t])
                                          /\ stack'[t][i] = stack[t][i + 1]
        /\ \A i \in 1 .. Len(stack[t]) : i # 1 => /\ i - 1 \in 1 .. Len(stack'[t])
                                                  /\ stack'[t][i - 1] = stack[t][i]
    BY <1>1, <1>2, <1>3, DoneFrames
  <2>2. \A i \in 1 .. Len(stack[t]) : stack[t][i].at \in {"delete", "set"} => i # 1
    BY <1>1 DEF Top
  <2>3. \A i \in 1 .. Len(stack[t]) : stack[t][i].at \in {"delete", "set"} =>
          \E j \in 1 .. Len(stack'[t]) : stack'[t][j] = stack[t][i]
    BY <2>1, <2>2
  <2>4. \A i \in 1 .. Len(stack'[t]) : stack'[t][i].at = "set" =>
          \E j \in 1 .. Len(stack[t]) : stack[t][j] = stack'[t][i]
    BY <2>1
  <2> QED BY <1>1, <2>1, <2>3, <2>4, FramesMove
<1>4. ASSUME NEW p \in Inside(t), Push(t, Frame("release", p, p, Null)) PROVE ObjectsAreKept'
  <2>1. PICK f \in FrameType : f = Frame("release", p, p, Null) /\ f.at = "release"
    <3>1. "release" \in Labels /\ p \in Pointers /\ p \in Nodes
      BY <1>4 DEF Labels, Going, Inside, Nodes
    <3> QED BY <3>1, FrameMeans
  <2>2. Push(t, f)
    BY <1>4, <2>1
  <2>3. /\ \A s \in Threads : s # t => stack'[s] = stack[s]
        /\ \A i \in 1 .. Len(stack[t]) : /\ i + 1 \in 1 .. Len(stack'[t])
                                         /\ stack'[t][i + 1] = stack[t][i]
        /\ \A i \in 1 .. Len(stack'[t]) : i # 1 => /\ i - 1 \in 1 .. Len(stack[t])
                                                   /\ stack'[t][i] = stack[t][i - 1]
        /\ stack'[t][1] = f
    BY <1>2, <2>2, PushedFrames
  <2>4. \A i \in 1 .. Len(stack[t]) : stack[t][i].at \in {"delete", "set"} =>
          \E j \in 1 .. Len(stack'[t]) : stack'[t][j] = stack[t][i]
    BY <2>3
  <2>5. \A i \in 1 .. Len(stack'[t]) : stack'[t][i].at = "set" => i # 1
    BY <2>1, <2>3
  <2>6. \A i \in 1 .. Len(stack'[t]) : stack'[t][i].at = "set" =>
          \E j \in 1 .. Len(stack[t]) : stack[t][j] = stack'[t][i]
    BY <2>3, <2>5
  <2> QED BY <1>1, <2>3, <2>4, <2>6, FramesMove
<1> QED BY <1>1, <1>3, <1>4

(* No pointer leads to what SetPointer forgets, which has gone.            *)
LEMMA SetHas ==
  ASSUME Inv, WellUsed, ObjectsAreKept, NEW t \in Threads, Set(t)
  PROVE  ObjectsAreKept'
<1>1. /\ ~Idle(t) /\ Top(t).at = "set" /\ SetPointer(Top(t).node, Top(t).obj) /\ Done(t)
      /\ UNCHANGED <<cond, live, alive, raw>>
  BY DEF Set, At, Top
<1>2. /\ FrameOK(t, Top(t), TRUE, Len(stack[t]) = 1) /\ ClientTypes
      /\ 1 \in 1 .. Len(stack[t]) /\ Top(t).obj \in Objects \cup {Null}
  BY <1>1, TopIsSound, Frame1 DEF Inv, Sound
<1>3. PICK n \in live : n = Top(t).node
  BY <1>1, <1>2 DEF FrameOK
<1>4. PICK o \in Objects \cup {Null} : o = Top(t).obj
  BY <1>2
<1>5. ~cond.links /\ Len(stack[t]) = 1
  BY <1>1, <1>2 DEF FrameOK, WellUsed, UsedWell, Inv, Sound, ClientTypes
<1>6. PICK b \in Blocks : b = block[n] /\ GetPointer(n) = info[b].pointer /\ b # 0
  BY <1>5, LeadsOfBlock
<1>7. block' = block /\ info' = [info EXCEPT ![b].pointer = o]
  BY <1>1, <1>3, <1>4, <1>5, <1>6 DEF SetPointer, CountsSet
<1>8. \A c \in Blocks : c # b => info'[c].pointer = info[c].pointer
  BY <1>7 DEF Inv, CountTypes
<1>9. info'[b].pointer = o
  BY <1>7 DEF Inv, CountTypes, InfoType
<1>10. n \in live' /\ GetPointer(n)' = o
  BY <1>1, <1>5, <1>6, <1>7, <1>9 DEF GetPointer, CountsPointer
<1>11. GetPointer(n) \notin alive
  BY <1>1, <1>2, <1>3 DEF ObjectsAreKept, OldIsGone, Top
<1>12. stack'[t] = <<>> /\ \A s \in Threads : s # t => stack'[s] = stack[s]
  <2>1. stack[t] \in Seq(FrameType) /\ stack[t] # <<>>
    BY <1>1, <1>2, Frame1
  <2>2. Tail(stack[t]) \in Seq(FrameType) /\ Len(Tail(stack[t])) = 0
    BY <1>5, <2>1, TailMeans
  <2>3. Tail(stack[t]) = <<>>
    BY <2>2, EmptySeq
  <2> QED BY <1>1, <1>2, <2>3 DEF Done, ClientTypes
<1>13. PICK p \in cond.pointers : User[p] = t
  BY <1>1, TopHasUser
<1>14. \A s \in Threads : NothingToSet(s)'
  <2>1. \A s \in Threads : s # t => NothingToSet(s)
    BY <1>13, NoOtherSets
  <2>2. Len(stack'[t]) = 0
    BY <1>12
  <2> QED BY <1>12, <2>1, <2>2 DEF NothingToSet
<1>15. ASSUME NEW x \in alive' \ raw' PROVE NodeHas(x)' \/ FrameHas(x)'
  <2>1. x \in alive \ raw
    BY <1>1
  <2>2. CASE NodeHas(x)
    <3>1. PICK k \in live : GetPointer(k) = x
      BY <2>2 DEF NodeHas
    <3>2. block[k] # b
      BY <1>5, <1>6, <1>11, <2>1, <3>1, LeadsOfBlock
    <3>3. GetPointer(k)' = GetPointer(k)
      BY <1>1, <1>5, <1>7, <1>8, <3>2, CountedLeads
    <3> QED BY <1>1, <3>1, <3>3 DEF NodeHas
  <2>3. CASE FrameHas(x)
    <3>1. PICK s \in Threads : \E i \in 1 .. Len(stack[s]) :
             stack[s][i].at \in {"delete", "set"} /\ stack[s][i].obj = x
      BY <2>3 DEF FrameHas
    <3>2. PICK i \in 1 .. Len(stack[s]) :
             stack[s][i].at \in {"delete", "set"} /\ stack[s][i].obj = x
      BY <3>1
    <3>3. CASE s = t
      <4>1. Len(stack[s]) = 1 /\ i = 1
        <5>1. Len(stack[s]) = 1
          BY <1>5, <3>3
        <5> QED BY <5>1
      <4>2. x = o
        BY <1>4, <3>2, <3>3, <4>1 DEF Top
      <4> QED BY <1>10, <4>2 DEF NodeHas
    <3>4. CASE s # t
      <4>1. stack'[s] = stack[s]
        BY <1>12, <3>4
      <4>2. i \in 1 .. Len(stack'[s])
        BY <4>1
      <4> QED BY <3>2, <4>1, <4>2 DEF FrameHas
    <3> QED BY <3>3, <3>4
  <2> QED BY <2>1, <2>2, <2>3 DEF ObjectsAreKept
<1> QED BY <1>14, <1>15 DEF ObjectsAreKept, OldIsGone, NothingToSet
-----------------------------------------------------------------------------
LEMMA InitKept == Init => ObjectsAreKept
<1> SUFFICES ASSUME Init PROVE ObjectsAreKept
  OBVIOUS
<1>1. \A t \in Threads : stack[t] = <<>> /\ Len(stack[t]) = 0
  BY DEF Init
<1> QED BY <1>1 DEF Init, ObjectsAreKept, OldIsGone

LEMMA NextKept == WellUsed /\ Inv /\ ObjectsAreKept /\ [Next]_vars => ObjectsAreKept'
<1> SUFFICES ASSUME WellUsed, Inv, ObjectsAreKept, [Next]_vars PROVE ObjectsAreKept'
  OBVIOUS
<1>1. Inv'
  BY NextInv
<1>2. ASSUME NEW t \in Threads, Call(t) PROVE ObjectsAreKept'
  <2>1. ASSUME NEW p \in Pointers,
               \/ ConstructNull(t, p) \/ Destroy(t, p) \/ ReleaseAll(t, p)
               \/ \E o \in Objects : Construct(t, p, o)
               \/ \E o \in Objects \cup {Null} : AssignRaw(t, p, o) \/ ResetAll(t, p, o)
        PROVE  ObjectsAreKept'
    BY <2>1, ConstructNullHas, DestroyHas, ReleaseAllHas, ConstructHas, AssignRawHas, ResetAllHas
  <2>2. ASSUME NEW p \in Pointers, NEW q \in Pointers,
               \/ Copy(t, p, q) \/ Twin(t, p, q) \/ Merge(t, p, q)
               \/ Assign(t, p, q) \/ Swap(t, p, q)
               \/ \E isNull \in BOOLEAN : CastFrom(t, p, q, isNull)
        PROVE  ObjectsAreKept'
    BY <2>2, CopyHas, TwinHas, MergeHas, AssignHas, SwapHas, CastFromHas
  <2> QED BY <1>2, <2>1, <2>2 DEF Call
<1>3. ASSUME NEW t \in Threads, Proceed(t) PROVE ObjectsAreKept'
  BY <1>1, <1>3, SwapTemporaryHas, ReleaseStrongHas, ReleaseWeakHas, RecheckHas, GetHas, ZapHas,
     ReleaseLinkHas, DeleteHas, DestroyMemberHas, SetHas DEF Proceed
<1>4. CASE UNCHANGED vars
  <2>1. UNCHANGED <<block, info, pointer, cond, live, alive, raw, stack>>
    BY <1>4 DEF vars
  <2>2. \A n : GetPointer(n)' = GetPointer(n)
    BY <2>1, SamePointers
  <2>3. \A o : (NodeHas(o)' <=> NodeHas(o)) /\ (FrameHas(o)' <=> FrameHas(o))
    BY <2>1, <2>2 DEF NodeHas, FrameHas
  <2>4. OldIsGone'
    <3> SUFFICES ASSUME NEW t \in Threads, NEW i \in 1 .. Len(stack'[t]), stack'[t][i].at = "set"
                 PROVE  GetPointer(stack[t][i].node)' \notin alive'
      BY DEF OldIsGone
    <3>1. PICK n : n = stack[t][i].node
      OBVIOUS
    <3>2. GetPointer(n) \notin alive /\ n = stack'[t][i].node
      BY <2>1, <3>1 DEF ObjectsAreKept, OldIsGone
    <3> QED BY <2>1, <2>2, <3>2
  <2> QED BY <2>1, <2>3, <2>4 DEF ObjectsAreKept
<1> QED BY <1>2, <1>3, <1>4 DEF Next

(* Between calls a pointer leads to each object that is allocated, or the  *)
(* client has got it back by ReleaseAll.                                   *)
THEOREM NothingLeaksTheorem == WellUsed => (Spec => []NothingLeaks)
<1> SUFFICES ASSUME WellUsed PROVE Spec => []NothingLeaks
  OBVIOUS
<1>1. Inv /\ ObjectsAreKept /\ [Next]_vars => Inv' /\ ObjectsAreKept'
  BY NextInv, NextKept
<1>2. ObjectsAreKept => NothingLeaks
  <2>1. \A t \in Threads : Idle(t) => Len(stack[t]) = 0
    BY DEF Idle
  <2>2. (\A t \in Threads : Idle(t)) => \A o : ~FrameHas(o)
    BY <2>1 DEF FrameHas
  <2> QED BY <2>2 DEF ObjectsAreKept, NodeHas, NothingLeaks
<1> QED BY <1>1, <1>2, InitInv, InitKept, PTL DEF Spec

=============================================================================
