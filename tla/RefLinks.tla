------------------------------- MODULE RefLinks -------------------------------
(***************************************************************************)
(* The ownership policy TwoRefLinks (loki/src/StrongPtr.cpp): each pointer *)
(* has the address of the object, and the co-pointers of an object are     *)
(* linked both ways in a cycle, which is walked to find a strong one.      *)
(***************************************************************************)
EXTENDS Copointers, Integers, FiniteSets

VARIABLES
  pointer,    \* m_pointer of each node
  prev,       \* m_prev
  next        \* m_next

linkVars == <<pointer, prev, next>>

LinksInit ==
  /\ pointer = [n \in Nodes |-> Null]
  /\ prev = [n \in Nodes |-> Null]
  /\ next = [n \in Nodes |-> Null]

\* The nodes that a walk along m_next, or along m_prev, meets, one by one.
Along(link, m) == IF m = Null THEN Null ELSE link[m]

Steps(link, n) ==
  LET at[k \in 0..Cardinality(Nodes)] ==
        IF k = 0 THEN n ELSE Along(link, at[k - 1])
  IN at

Walk(link, n) ==
  LET at == Steps(link, n) IN {at[k] : k \in 1..Cardinality(Nodes)} \ {Null}

\* TwoRefLinks(p, strong): a cycle of one.
LinksNew(n, o) ==
  /\ pointer' = [pointer EXCEPT ![n] = o]
  /\ prev' = [prev EXCEPT ![n] = n]
  /\ next' = [next EXCEPT ![n] = n]

\* TwoRefLinks(rhs, strong): linked behind rhs.
LinksShare(n, q) ==
  /\ pointer' = [pointer EXCEPT ![n] = pointer[q]]
  /\ prev' = [prev EXCEPT ![n] = q, ![next[q]] = n]
  /\ next' = [next EXCEPT ![n] = next[q], ![q] = n]

\* Neighbours change places in the cycle, first before second.
SwapNeighbours(a, b) ==
  IF next[b] = a THEN UNCHANGED <<prev, next>>
  ELSE /\ next' = [next EXCEPT ![prev[a]] = b, ![b] = a, ![a] = next[b]]
       /\ prev' = [prev EXCEPT ![next[b]] = a, ![a] = b, ![b] = prev[a]]

\* The cycle of b, which is in none of other nodes, becomes that of a.
MoveCycle(a, b) ==
  /\ next' = [next EXCEPT ![a] = next[b], ![prev[b]] = a, ![b] = b]
  /\ prev' = [prev EXCEPT ![a] = prev[b], ![next[b]] = a, ![b] = b]

Elsewhere(a, b) ==
  /\ next' = [next EXCEPT ![a] = next[b], ![b] = next[a],
                  ![prev[a]] = next[prev[b]], ![prev[b]] = next[prev[a]]]
  /\ prev' = [prev EXCEPT ![a] = prev[b], ![b] = prev[a],
                  ![next[a]] = prev[next[b]], ![next[b]] = prev[next[a]]]

LinksSwap(a, b) ==
  /\ pointer' = [pointer EXCEPT ![a] = pointer[b], ![b] = pointer[a]]
  /\ \/ next[a] = a /\ next[b] = b /\ UNCHANGED <<prev, next>>
     \/ next[a] = a /\ next[b] # b /\ MoveCycle(a, b)
     \/ next[a] # a /\ next[b] = b /\ MoveCycle(b, a)
     \/ next[a] = b /\ SwapNeighbours(a, b)
     \/ next[a] # b /\ prev[a] = b /\ SwapNeighbours(b, a)
     \/ /\ next[a] \notin {a, b} /\ next[b] # b /\ prev[a] # b
        /\ Elsewhere(a, b)

\* HasStrongPointer looks at all nodes of the cycle but this one.
LinksStrong(n, strongs) == (Walk(next, n) \ {n}) \cap strongs # {}

\* Wrong variant: the next node keeps its way back to this one.
LinksLeave_OneWay(n) ==
  /\ next' = [next EXCEPT ![prev[n]] = next[n], ![n] = Null]
  /\ prev' = [prev EXCEPT ![n] = Null]
  /\ pointer' = [pointer EXCEPT ![n] = Null]

\* Release of a node whose cycle has a strong one left.
LinksLeave(n) ==
  /\ next' = [next EXCEPT ![prev[n]] = next[n], ![n] = Null]
  /\ prev' = [prev EXCEPT ![next[n]] = prev[n], ![n] = Null]
  /\ pointer' = [pointer EXCEPT ![n] = Null]

\* Wrong variant: the other nodes keep the pointer.
LinksZap_KeepPointers(n) ==
  LET others == Walk(prev, n) \ {n} IN
  /\ next' = [m \in Nodes |->
                IF m = n THEN Null ELSE IF m \in others THEN m ELSE next[m]]
  /\ prev' = [m \in Nodes |->
                IF m = n THEN Null ELSE IF m \in others THEN m ELSE prev[m]]
  /\ pointer' = [pointer EXCEPT ![n] = Null]

\* Release of one whose cycle has none, and ZapAllNodes: the others are left
\* alone and without a pointer, and this one goes.
LinksZap(n) ==
  LET others == Walk(prev, n) \ {n} IN
  /\ next' = [m \in Nodes |->
                IF m = n THEN Null ELSE IF m \in others THEN m ELSE next[m]]
  /\ prev' = [m \in Nodes |->
                IF m = n THEN Null ELSE IF m \in others THEN m ELSE prev[m]]
  /\ pointer' = [m \in Nodes |-> IF m \in others \cup {n} THEN Null ELSE pointer[m]]

\* SetPointer does nothing to a cycle of one.  Otherwise its walk along m_next
\* begins at m_prev, so that it is over after one node, and the node that it
\* was called for gets its own address.
LinksSet(n, o) ==
  /\ pointer' = IF prev[n] \in {n, Null} THEN pointer
                ELSE [pointer EXCEPT ![prev[n]] = o, ![n] = n]
  /\ UNCHANGED <<prev, next>>

\* Merge of cycles that have the same pointer but no node in common.
LinksMerge(a, b) ==
  IF b \in Walk(prev, a) THEN UNCHANGED <<prev, next>>
  ELSE IF next[b] = b
  THEN /\ prev' = [prev EXCEPT ![b] = prev[a], ![a] = b]
       /\ next' = [next EXCEPT ![prev[a]] = b, ![b] = a]
  ELSE IF next[a] = a
  THEN /\ prev' = [prev EXCEPT ![a] = prev[b], ![b] = a]
       /\ next' = [next EXCEPT ![prev[b]] = a, ![a] = b]
  ELSE /\ prev' = [prev EXCEPT ![next[a]] = prev[b], ![b] = a]
       /\ next' = [next EXCEPT ![prev[b]] = prev[a], ![a] = b]
=============================================================================
