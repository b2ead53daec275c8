----------------------------- MODULE SharedObjects -----------------------------
(***************************************************************************)
(* What strong and weak pointers promise (loki/include/loki/StrongPtr.h,   *)
(* "Terminology"): an object lives as long as a strong pointer leads to    *)
(* it, or as no pointer to it has gone while there are only weak ones;     *)
(* then the other weak pointers lead nowhere, and after that the object is *)
(* deleted, once.  How co-pointers know of each other is not part of it.   *)
(***************************************************************************)
EXTENDS FiniteSets

CONSTANTS
  Nodes,      \* the pointers, temporary ones included
  Objects     \* the objects

VARIABLES
  alive,      \* the objects in the care of pointers
  strong,     \* for each object the strong pointers that lead to it
  weak,       \* and the weak ones
  doomed      \* the objects that are about to be deleted

vars == <<alive, strong, weak, doomed>>

LeadTo(o) == strong[o] \cup weak[o]

Free(n) == \A o \in Objects : n \notin LeadTo(o)

Init ==
  /\ alive = {}
  /\ strong = [o \in Objects |-> {}]
  /\ weak = [o \in Objects |-> {}]
  /\ doomed = {}

\* Pointers that led nowhere begin to lead to o, as strong or as weak ones.
Lead(o) ==
  /\ strong' = [strong EXCEPT ![o] = strong'[o]]
  /\ weak' = [weak EXCEPT ![o] = weak'[o]]
  /\ \/ strong[o] \subseteq strong'[o] /\ weak'[o] = weak[o]
     \/ weak[o] \subseteq weak'[o] /\ strong'[o] = strong[o]
  /\ \A n \in LeadTo(o)' \ LeadTo(o) : Free(n)

\* A client hands an object of its own to pointers, or gets it back.
Adopt(o) ==
  /\ o \notin alive
  /\ Lead(o)
  /\ alive' = alive \cup {o}
  /\ UNCHANGED doomed

Surrender(o) ==
  /\ o \in alive \ doomed /\ strong[o] = {}
  /\ weak' = [weak EXCEPT ![o] = {}]
  /\ alive' = alive \ {o}
  /\ UNCHANGED <<strong, doomed>>

\* More pointers lead to an object that some pointer leads to.
Attach(o) ==
  /\ LeadTo(o) # {} /\ o \in alive \ doomed
  /\ Lead(o)
  /\ UNCHANGED <<alive, doomed>>

\* A pointer goes.  Without strong pointers the object goes as well, and the
\* weak ones may lead nowhere at once.
Detach(o, n) ==
  /\ n \in LeadTo(o) /\ o \notin doomed
  /\ strong' = [strong EXCEPT ![o] = @ \ {n}]
  /\ IF strong[o] \ {n} = {}
     THEN /\ doomed' = doomed \cup {o}
          /\ weak' \in {[weak EXCEPT ![o] = @ \ {n}], [weak EXCEPT ![o] = {}]}
     ELSE weak' = [weak EXCEPT ![o] = @ \ {n}] /\ UNCHANGED doomed
  /\ UNCHANGED alive

\* Two pointers of one kind change places.
Exchanged(S, n, m) ==
  {IF k = n THEN m ELSE IF k = m THEN n ELSE k : k \in S}

Swap(n, m) ==
  /\ UNCHANGED <<alive, doomed>>
  /\ n # m
  /\ strong' = [o \in Objects |-> Exchanged(strong[o], n, m)]
  /\ weak' = [o \in Objects |-> Exchanged(weak[o], n, m)]

Expire(o) ==
  /\ o \in doomed /\ strong[o] = {}
  /\ weak' = [weak EXCEPT ![o] = {}]
  /\ UNCHANGED <<alive, strong, doomed>>

Delete(o) ==
  /\ o \in doomed \cap alive /\ LeadTo(o) = {}
  /\ alive' = alive \ {o}
  /\ doomed' = doomed \ {o}
  /\ UNCHANGED <<strong, weak>>

\* All weak pointers of one object, which is deleted, lead to another one, or
\* nowhere.
Replace(o, new) ==
  /\ o \in alive \ doomed /\ strong[o] = {}
  /\ weak' = [x \in Objects |-> CASE x = o -> {}
                                  [] x \in new -> weak[o]
                                  [] OTHER -> weak[x]]
  /\ alive' = (alive \ {o}) \cup new
  /\ UNCHANGED <<strong, doomed>>

Next ==
  \/ \E o \in Objects : Adopt(o) \/ Attach(o) \/ \E n \in Nodes : Detach(o, n)
  \/ \E n, m \in Nodes : Swap(n, m)
  \/ \E o \in Objects : Surrender(o) \/ Expire(o) \/ Delete(o)
  \/ \E o \in Objects, new \in SUBSET Objects : Replace(o, new)

Spec == Init /\ [][Next]_vars
===============================================================================
