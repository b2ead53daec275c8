---------------------------- MODULE RecordProofs ----------------------------
(***************************************************************************)
(* Proofs about records.  Of RecordSchema, for any names, types, schemas   *)
(* and records: names lead to their fields, records of a schema have its   *)
(* fields, and memory fits, each as long as schemas change in the ways it  *)
(* allows.  Of RecordStream, for all texts, patterns, get areas and output *)
(* sizes: the records that come out are those of the reference.            *)
(***************************************************************************)
EXTENDS RecordSchema, RecordStream, FiniteSetTheorems, SequenceTheorems,
        WellFoundedInduction, TLAPS

-----------------------------------------------------------------------------
(* Induction over a set of numbers.                                        *)

LEMMA LeastOf ==
  ASSUME NEW T, T \subseteq Nat, T # {}
  PROVE  \E x \in T : \A y \in T : x <= y
<1>1. IsWellFoundedOn(OpToRel(<, Nat), Nat)
  BY NatLessThanWellFounded
<1>2. PICK x \in T : \A y \in T : ~ (<<y, x>> \in OpToRel(<, Nat))
  BY <1>1, WFMin
<1>3. \A y \in T : y < x => <<y, x>> \in OpToRel(<, Nat)
  BY DEF OpToRel
<1>4. ASSUME NEW y \in T PROVE x <= y
  <2>1. ~(y < x)
    BY <1>2, <1>3
  <2> QED BY <2>1
<1> QED BY <1>4

LEMMA UpTo ==
  ASSUME NEW n \in Nat, NEW S, 0 \in S,
         \A i \in 1 .. n : i - 1 \in S => i \in S
  PROVE  0 .. n \subseteq S
<1> SUFFICES ASSUME NEW m \in 0 .. n, m \notin S PROVE FALSE
  OBVIOUS
<1> DEFINE T == {i \in 0 .. n : i \notin S}
<1>1. PICK x \in T : \A y \in T : x <= y
  <2>1. T \subseteq Nat /\ m \in T
    OBVIOUS
  <2> HIDE DEF T
  <2> QED BY <2>1, LeastOf
<1>2. x \in 1 .. n /\ x - 1 \in 0 .. n /\ x - 1 \notin T
  BY <1>1
<1> QED BY <1>1, <1>2

-----------------------------------------------------------------------------
(* The inductive invariant.                                                *)

Field == [type : Types, mem : Types]
Row == [schema : Schemas \cup {NoSchema}, ver : Nat, vals : Seq(Field)]

Shape ==
  /\ layout \in [Schemas -> Seq(Types)]
  /\ idx = [s \in Schemas |-> idx[s]]
  /\ \A s \in Schemas : \A n \in DOMAIN idx[s] : idx[s][n] \in Nat
  /\ ridx = [s \in Schemas |-> ridx[s]]
  /\ types = [s \in Schemas |-> types[s]]
  /\ declared = [s \in Schemas |-> declared[s]]
  /\ version \in [Schemas -> Nat]
  /\ past \in [Schemas -> SUBSET {"shrunk", "hole", "reread"}]
  /\ rec \in [Records -> Row]
  /\ saved.version \in Nat
  /\ loading \in [into : Schemas \cup {NoSchema}, read : Nat]
  /\ loading.into = NoSchema => loading = Idle
  /\ changes \in 0 .. MaxChanges
  /\ \A s \in Schemas : Len(layout[s]) <= changes

(* The four tables of a schema are in step.                                *)
Tight(s) ==
  /\ DOMAIN declared[s] = DOMAIN idx[s]
  /\ \A n \in DOMAIN idx[s] : idx[s][n] \in DOMAIN types[s]
  /\ NamesLead(s)

TightUnshifted == \A s \in Schemas : "hole" \notin past[s] => Tight(s)

(* Of a schema that only grows, a record's fields are the first ones.      *)
FirstFields(row) ==
  LET vals == row.vals
      now  == layout[row.schema]
  IN  /\ \A i \in DOMAIN vals : vals[i].type = vals[i].mem
      /\ row.schema = NoSchema => vals = <<>>
      /\ row.schema \in Schemas =>
           Len(vals) <= Len(now) /\ \A i \in DOMAIN vals : vals[i].type = now[i]

OldFieldsFirst == OnlyGrew => \A r \in Records : FirstFields(rec[r])

(* A version stands for one layout, from the first, 0, that has no fields, *)
(* to that of the schema now, which is 0 again while a new one is read.    *)
Blank(s) == layout[s] = <<>> /\ DOMAIN idx[s] = {}

Follows(row, s) ==
  /\ row.ver <= version[s]
  /\ row.ver = version[s] => TypesOf(row.vals) = layout[s]

VersionsTell ==
  /\ \A s \in Schemas : version[s] = 0 => Blank(s)
  /\ saved.version = 0 => saved.fields = <<>>
  /\ loading # Idle /\ loading.read = 0 => Blank(loading.into)
  /\ \A r \in Records, s \in Schemas : rec[r].schema = s =>
       IF s = loading.into THEN rec[r].ver = 0 /\ rec[r].vals = <<>>
                           ELSE Follows(rec[r], s)

SchemaInv ==
  /\ Shape
  /\ TightUnshifted
  /\ OldFieldsFirst
  /\ OnlyReadNew => VersionsTell

-----------------------------------------------------------------------------
LEMMA ChangesAreBounded == MaxChanges \in Nat
BY SchemaAssumption

LEMMA NullIsNoSchema == NoSchema \notin Schemas
BY SchemaAssumption

LEMMA NoNames == InOrder({}) = <<>>
<1> DEFINE Sorted(o) == \A i, j \in DOMAIN o : i < j => Before(o[i], o[j])
<1>1. Cardinality({}) = 0
  BY FS_EmptySet
<1>2. <<>> \in [1 .. 0 -> {}] /\ Sorted(<<>>)
  OBVIOUS
<1>3. InOrder({}) = CHOOSE o \in [1 .. 0 -> {}] : Sorted(o)
  BY <1>1 DEF InOrder
<1> HIDE DEF Sorted
<1>4. InOrder({}) \in [1 .. 0 -> {}]
  BY <1>2, <1>3
<1> QED
  BY <1>4

LEMMA IdleLoadsNothing == Idle.into \notin Schemas /\ Idle.into = NoSchema
BY SchemaAssumption DEF Idle

(* The types of a list of fields.                                          *)
LEMMA TypesOfFields ==
  ASSUME NEW f \in Seq(Field)
  PROVE  /\ TypesOf(f) \in Seq(Types) /\ Len(TypesOf(f)) = Len(f)
         /\ \A i \in DOMAIN f : TypesOf(f)[i] = f[i].type
<1> DEFINE n == Len(f)
<1>1. n \in Nat /\ DOMAIN f = 1 .. n /\ \A i \in 1 .. n : f[i] \in Field
  OBVIOUS
<1> HIDE DEF n
<1>2. \A i \in 1 .. n : f[i].type \in Types
  BY <1>1 DEF Field
<1>3. TypesOf(f) = [i \in 1 .. n |-> f[i].type]
  BY <1>1 DEF TypesOf
<1> QED
  BY <1>1, <1>2, <1>3 DEF n

LEMMA ClonesOfTypes ==
  ASSUME NEW l \in Seq(Types)
  PROVE  /\ Clones(l) \in Seq(Field) /\ Len(Clones(l)) = Len(l)
         /\ \A i \in DOMAIN l : Clones(l)[i].type = l[i] /\ Clones(l)[i].mem = l[i]
         /\ TypesOf(Clones(l)) = l
<1> DEFINE c == [i \in 1 .. Len(l) |-> [type |-> l[i], mem |-> l[i]]]
<1>1. \A i \in 1 .. Len(l) : l[i] \in Types /\ c[i] \in Field
  BY DEF Field
<1>2. Clones(l) = c
  BY DEF Clones, New
<1>3. c \in Seq(Field) /\ Len(c) = Len(l)
  BY <1>1
<1>4. TypesOf(c) = [i \in 1 .. Len(l) |-> l[i]]
  BY DEF TypesOf
<1>5. TypesOf(c) = l
  BY <1>4
<1> QED
  BY <1>2, <1>3, <1>5

LEMMA JoinedTypes ==
  ASSUME NEW a \in Seq(Types), NEW b \in Seq(Types)
  PROVE  /\ a \o b \in Seq(Types) /\ Len(a \o b) = Len(a) + Len(b)
         /\ \A k \in 1 .. Len(a) : (a \o b)[k] = a[k]
OBVIOUS

LEMMA OverwrittenRow ==
  ASSUME NEW row \in Row, NEW l \in Seq(Types), Len(row.vals) = Len(l)
  PROVE  LET new == Reconstructed(row, l)
         IN  /\ new \in Row /\ new.schema = row.schema /\ new.ver = row.ver
             /\ TypesOf(new.vals) = l /\ Len(new.vals) = Len(l)
             /\ \A i \in DOMAIN l : /\ new.vals[i].type = l[i]
                                    /\ new.vals[i].mem = row.vals[i].mem
<1> DEFINE vals == [i \in DOMAIN l |-> [row.vals[i] EXCEPT !.type = l[i]]]
<1>1. Reconstructed(row, l) = [row EXCEPT !.vals = vals]
  BY DEF Reconstructed, Row
<1>2. \A i \in DOMAIN l : row.vals[i] \in Field
  BY DEF Row
<1>3. \A i \in DOMAIN l : /\ vals[i] \in Field /\ vals[i].type = l[i]
                          /\ vals[i].mem = row.vals[i].mem
  BY <1>2 DEF Field
<1>4. vals \in Seq(Field) /\ DOMAIN vals = DOMAIN l /\ Len(vals) = Len(l)
  <2> DEFINE m == Len(l)
  <2>1. m \in Nat /\ DOMAIN l = 1 .. m
    OBVIOUS
  <2>2. DOMAIN vals = 1 .. m /\ \A i \in 1 .. m : vals[i] \in Field
    BY <1>3, <2>1
  <2>3. vals = [i \in 1 .. m |-> vals[i]]
    BY <2>1
  <2> HIDE DEF vals, m
  <2>4. vals \in Seq(Field) /\ Len(vals) = m
    BY <2>1, <2>2, <2>3
  <2> QED
    BY <2>1, <2>2, <2>4 DEF m
<1> HIDE DEF vals
<1>5. TypesOf(vals) = l
  BY <1>3, <1>4 DEF TypesOf
<1> QED
  BY <1>1, <1>3, <1>4, <1>5 DEF Row

-----------------------------------------------------------------------------
LEMMA SchemaInvInit == SchemaInit => SchemaInv
<1> SUFFICES ASSUME SchemaInit PROVE SchemaInv
  OBVIOUS
<1>1. Shape
  <2>1. rec \in [Records -> Row]
    BY DEF SchemaInit, Row
  <2>2. loading \in [into : Schemas \cup {NoSchema}, read : Nat] /\ loading = Idle
    BY DEF SchemaInit, Idle
  <2>3. changes \in 0 .. MaxChanges /\ \A s \in Schemas : Len(layout[s]) <= changes
    <3>1. changes = 0 /\ \A s \in Schemas : layout[s] = <<>>
      BY DEF SchemaInit
    <3>2. Len(<<>>) = 0
      OBVIOUS
    <3>3. \A s \in Schemas : Len(layout[s]) <= changes
      BY <3>1, <3>2
    <3>4. MaxChanges \in Nat
      BY SchemaAssumption
    <3> QED
      BY <3>1, <3>3, <3>4
  <2>4. layout \in [Schemas -> Seq(Types)] /\ version \in [Schemas -> Nat]
    BY DEF SchemaInit
  <2> QED
    BY <2>1, <2>2, <2>3, <2>4 DEF SchemaInit, Shape, Nothing
<1>2. TightUnshifted
  BY DEF SchemaInit, TightUnshifted, Tight, NamesLead, Nothing
<1>3. OldFieldsFirst
  <2>1. \A r \in Records : rec[r].schema \notin Schemas /\ rec[r].vals = <<>>
    BY SchemaAssumption DEF SchemaInit
  <2> QED
    BY <2>1 DEF OldFieldsFirst, FirstFields
<1>4. VersionsTell
  BY SchemaAssumption DEF SchemaInit, VersionsTell, Blank, Nothing
<1> QED
  BY <1>1, <1>2, <1>3, <1>4 DEF SchemaInv

-----------------------------------------------------------------------------
(* Schemas change.                                                         *)

LEMMA PlaceFits ==
  ASSUME NEW i \in Nat, i < MaxChanges
  PROVE  Index(i) = i
<1> DEFINE m == 2^IndexWidth
<1>1. m \in Nat /\ MaxChanges <= m
  BY WidthAssumption
<1> HIDE DEF m
<1>2. i % m = i
  BY <1>1, ChangesAreBounded
<1> QED
  BY <1>2 DEF Index, m

LEMMA LayoutShape ==
  ASSUME SchemaInv, NEW s \in Schemas
  PROVE  /\ layout[s] \in Seq(Types) /\ Len(layout[s]) \in Nat
         /\ changes \in Nat /\ Len(layout[s]) <= changes /\ changes <= MaxChanges
<1>1. layout[s] \in Seq(Types) /\ changes \in 0 .. MaxChanges
      /\ Len(layout[s]) <= changes
  BY DEF SchemaInv, Shape
<1> QED
  BY <1>1, ChangesAreBounded

LEMMA TightFrame ==
  ASSUME NEW s, layout'[s] = layout[s], idx'[s] = idx[s], ridx'[s] = ridx[s],
         types'[s] = types[s], declared'[s] = declared[s], Tight(s)
  PROVE  Tight(s)'
BY DEF Tight, NamesLead

(* A new field is the last one, and leaves the tables in step.             *)
LEMMA EnterMeans ==
  ASSUME SchemaInv, NEW s \in Schemas, NEW n, NEW t \in Types,
         n \notin DOMAIN idx[s], changes < MaxChanges, Enter(s, n, t)
  PROVE  /\ layout' \in [Schemas -> Seq(Types)]
         /\ layout'[s] = Append(layout[s], t)
         /\ \A x \in Schemas \ {s} : layout'[x] = layout[x] /\ idx'[x] = idx[x]
         /\ idx' = [x \in Schemas |-> idx'[x]] /\ ridx' = [x \in Schemas |-> ridx'[x]]
         /\ types' = [x \in Schemas |-> types'[x]]
         /\ declared' = [x \in Schemas |-> declared'[x]]
         /\ \A x \in Schemas : \A m \in DOMAIN idx'[x] : idx'[x][m] \in Nat
         /\ \A x \in Schemas : Tight(x) => Tight(x)'
<1> DEFINE i == Len(layout[s])
<1>1. i \in Nat /\ Index(i) = i
  <2>1. i \in Nat /\ i < MaxChanges
    BY LayoutShape, ChangesAreBounded
  <2> QED
    BY <2>1, PlaceFits
<1>2. /\ layout' = [layout EXCEPT ![s] = Append(@, t)]
      /\ idx' = [idx EXCEPT ![s] = With([x \in {n} |-> i], @)]
      /\ ridx' = [ridx EXCEPT ![s] = With([x \in {i} |-> n], @)]
      /\ types' = [types EXCEPT ![s] = With([x \in {i} |-> t], @)]
      /\ declared' = [declared EXCEPT ![s] = With([x \in {n} |-> t], @)]
  BY <1>1 DEF Enter
<1>3. /\ layout' \in [Schemas -> Seq(Types)]
      /\ layout'[s] = Append(layout[s], t)
      /\ \A x \in Schemas \ {s} : layout'[x] = layout[x]
  BY <1>2 DEF SchemaInv, Shape
<1>4. /\ idx' = [x \in Schemas |-> idx'[x]] /\ ridx' = [x \in Schemas |-> ridx'[x]]
      /\ types' = [x \in Schemas |-> types'[x]]
      /\ declared' = [x \in Schemas |-> declared'[x]]
      /\ \A x \in Schemas \ {s} :
           /\ idx'[x] = idx[x] /\ ridx'[x] = ridx[x]
           /\ types'[x] = types[x] /\ declared'[x] = declared[x]
  BY <1>2 DEF SchemaInv, Shape
<1>5. \A x \in Schemas \ {s} : Tight(x) => Tight(x)'
  BY <1>3, <1>4, TightFrame
<1>6. \A m \in DOMAIN idx'[s] : idx'[s][m] \in Nat
  <2>1. idx'[s] = With([x \in {n} |-> i], idx[s])
    BY <1>2 DEF SchemaInv, Shape
  <2>2. \A m \in DOMAIN idx[s] : idx[s][m] \in Nat
    BY DEF SchemaInv, Shape
  <2> QED
    BY <1>1, <2>1, <2>2 DEF With
<1>7. ASSUME Tight(s) PROVE Tight(s)'
  <2>1. /\ idx'[s] = With([x \in {n} |-> i], idx[s])
        /\ ridx'[s] = With([x \in {i} |-> n], ridx[s])
        /\ types'[s] = With([x \in {i} |-> t], types[s])
        /\ declared'[s] = With([x \in {n} |-> t], declared[s])
    BY <1>2 DEF SchemaInv, Shape
  <2>2. /\ DOMAIN idx'[s] = DOMAIN idx[s] \cup {n} /\ idx'[s][n] = i
        /\ \A x \in DOMAIN idx[s] : idx'[s][x] = idx[s][x]
    BY <2>1 DEF With
  <2>3. /\ DOMAIN declared'[s] = DOMAIN declared[s] \cup {n} /\ declared'[s][n] = t
        /\ \A x \in DOMAIN idx[s] : declared'[s][x] = declared[s][x]
    BY <2>1, <1>7 DEF With, Tight
  <2>4. /\ DOMAIN ridx'[s] = DOMAIN ridx[s] \cup {i} /\ ridx'[s][i] = n
        /\ \A x \in DOMAIN ridx[s] : x # i => ridx'[s][x] = ridx[s][x]
    BY <2>1 DEF With
  <2>5. /\ DOMAIN types'[s] = DOMAIN types[s] \cup {i} /\ types'[s][i] = t
        /\ \A x \in DOMAIN types[s] : x # i => types'[s][x] = types[s][x]
    BY <2>1 DEF With
  <2>6. /\ Len(layout'[s]) = i + 1 /\ layout'[s][i + 1] = t
        /\ \A k \in 1 .. i : layout'[s][k] = layout[s][k]
    BY <1>3 DEF SchemaInv, Shape
  <2>7. \A x \in DOMAIN idx[s] : idx[s][x] \in Nat /\ idx[s][x] < i
    BY <1>7 DEF Tight, NamesLead, SchemaInv, Shape
  <2>8. /\ idx'[s][n] \in DOMAIN types'[s]
        /\ idx'[s][n] < Len(layout'[s]) /\ layout'[s][idx'[s][n] + 1] = declared'[s][n]
        /\ idx'[s][n] \in DOMAIN ridx'[s] /\ ridx'[s][idx'[s][n]] = n
        /\ types'[s][idx'[s][n]] = declared'[s][n]
    BY <1>1, <2>2, <2>3, <2>4, <2>5, <2>6
  <2>9. ASSUME NEW x \in DOMAIN idx[s]
        PROVE  /\ idx'[s][x] \in DOMAIN types'[s]
               /\ idx'[s][x] < Len(layout'[s])
               /\ layout'[s][idx'[s][x] + 1] = declared'[s][x]
               /\ idx'[s][x] \in DOMAIN ridx'[s] /\ ridx'[s][idx'[s][x]] = x
               /\ types'[s][idx'[s][x]] = declared'[s][x]
    <3> DEFINE k == idx[s][x]
    <3>1. /\ k \in Nat /\ k < i /\ k \in DOMAIN types[s]
          /\ layout[s][k + 1] = declared[s][x] /\ k \in DOMAIN ridx[s]
          /\ ridx[s][k] = x /\ types[s][k] = declared[s][x] /\ idx'[s][x] = k
      BY <1>7, <2>2, <2>7 DEF Tight, NamesLead
    <3> HIDE DEF k
    <3>2. k + 1 \in 1 .. i /\ k < i + 1
      BY <1>1, <3>1
    <3>3. layout'[s][k + 1] = layout[s][k + 1] /\ k < Len(layout'[s])
      BY <2>6, <3>2
    <3> QED
      BY <1>1, <2>3, <2>4, <2>5, <3>1, <3>3
  <2>10. DOMAIN declared'[s] = DOMAIN idx'[s]
    BY <1>7, <2>2, <2>3 DEF Tight
  <2> QED
    BY <2>2, <2>8, <2>9, <2>10 DEF Tight, NamesLead
<1> QED
  BY <1>3, <1>4, <1>5, <1>6, <1>7 DEF SchemaInv, Shape

(* The first fields of a schema that grows stay.                           *)
LEMMA GrowthKeepsOld ==
  ASSUME SchemaInv, layout' \in [Schemas -> Seq(Types)], rec' = rec, OnlyGrew' => OnlyGrew,
         \A s \in Schemas : OnlyGrew' =>
           \/ layout'[s] = layout[s]
           \/ \E t \in Types : layout'[s] = Append(layout[s], t)
  PROVE  OldFieldsFirst'
<1> SUFFICES ASSUME OnlyGrew', NEW r \in Records PROVE FirstFields(rec[r])'
  BY DEF OldFieldsFirst
<1>1. FirstFields(rec[r]) /\ rec[r] \in Row /\ layout \in [Schemas -> Seq(Types)]
  BY DEF SchemaInv, OldFieldsFirst, Shape
<1>2. ASSUME NEW s \in Schemas, rec[r].schema = s
      PROVE  /\ Len(layout[s]) <= Len(layout'[s])
             /\ \A i \in 1 .. Len(layout[s]) : layout'[s][i] = layout[s][i]
  <2>1. layout[s] \in Seq(Types)
    BY <1>1
  <2>2. CASE layout'[s] = layout[s]
    BY <2>1, <2>2
  <2>3. ASSUME NEW t \in Types, layout'[s] = Append(layout[s], t)
        PROVE  /\ Len(layout[s]) <= Len(layout'[s])
               /\ \A i \in 1 .. Len(layout[s]) : layout'[s][i] = layout[s][i]
    BY <2>1, <2>3
  <2> QED
    BY <2>2, <2>3
<1>3. DOMAIN rec[r].vals = 1 .. Len(rec[r].vals) /\ Len(rec[r].vals) \in Nat
  BY <1>1 DEF Row
<1>4. ASSUME rec[r].schema \in Schemas
      PROVE  LET now == layout'[rec[r].schema]
             IN  /\ Len(rec[r].vals) <= Len(now)
                 /\ \A i \in DOMAIN rec[r].vals : rec[r].vals[i].type = now[i]
  <2>1. PICK s \in Schemas : s = rec[r].schema
    BY <1>4
  <2>2. /\ Len(layout[s]) \in Nat /\ Len(layout'[s]) \in Nat
        /\ Len(layout[s]) <= Len(layout'[s])
        /\ \A i \in 1 .. Len(layout[s]) : layout'[s][i] = layout[s][i]
    BY SMTT(30), <1>1, <1>2, <2>1
  <2>3. /\ Len(rec[r].vals) <= Len(layout[s])
        /\ \A i \in 1 .. Len(rec[r].vals) : rec[r].vals[i].type = layout[s][i]
    BY <1>1, <1>3, <2>1 DEF FirstFields
  <2> QED
    BY SMTT(30), <1>3, <2>1, <2>2, <2>3
<1> QED
  BY <1>1, <1>4 DEF FirstFields

(* A field that was added, and everything but what records are told.       *)
LEMMA AddedFieldKeeps ==
  ASSUME SchemaInv, NEW s \in Schemas, NEW n, NEW t \in Types,
         n \notin DOMAIN idx[s], changes < MaxChanges, Enter(s, n, t),
         changes' = changes + 1, version' = [version EXCEPT ![s] = @ + 1],
         rec' = rec, saved' = saved, past' = past,
         loading' \in [into : Schemas \cup {NoSchema}, read : Nat],
         loading'.into = NoSchema => loading' = Idle
  PROVE  /\ Shape' /\ TightUnshifted' /\ OldFieldsFirst'
         /\ \A x \in Schemas \ {s} : layout'[x] = layout[x] /\ idx'[x] = idx[x]
<1>1. /\ layout' \in [Schemas -> Seq(Types)]
      /\ layout'[s] = Append(layout[s], t)
      /\ \A x \in Schemas \ {s} : layout'[x] = layout[x] /\ idx'[x] = idx[x]
      /\ idx' = [x \in Schemas |-> idx'[x]] /\ ridx' = [x \in Schemas |-> ridx'[x]]
      /\ types' = [x \in Schemas |-> types'[x]]
      /\ declared' = [x \in Schemas |-> declared'[x]]
      /\ \A x \in Schemas : \A m \in DOMAIN idx'[x] : idx'[x][m] \in Nat
      /\ \A x \in Schemas : Tight(x) => Tight(x)'
  BY EnterMeans
<1>2. Shape'
  <2>1. \A x \in Schemas : Len(layout'[x]) <= changes'
    <3>1. Len(layout'[s]) = Len(layout[s]) + 1
      BY <1>1, LayoutShape
    <3>2. \A x \in Schemas : /\ Len(layout[x]) \in Nat /\ Len(layout[x]) <= changes
                             /\ changes \in Nat
      BY LayoutShape
    <3>3. \A x \in Schemas : x # s => Len(layout'[x]) = Len(layout[x])
      BY <1>1
    <3> QED
      BY <3>1, <3>2, <3>3
  <2>2. version' \in [Schemas -> Nat]
    BY SMTT(30) DEF SchemaInv, Shape
  <2>3. changes' \in 0 .. MaxChanges
    BY LayoutShape, ChangesAreBounded
  <2> QED
    BY <1>1, <2>1, <2>2, <2>3 DEF SchemaInv, Shape
<1>3. TightUnshifted'
  BY <1>1 DEF SchemaInv, TightUnshifted
<1>4. OldFieldsFirst'
  BY <1>1, GrowthKeepsOld DEF OnlyGrew
<1> QED
  BY <1>1, <1>2, <1>3, <1>4

(* A new version is one that no record has.                                *)
LEMMA NewVersionTells ==
  ASSUME SchemaInv, OnlyReadNew, NEW s \in Schemas,
         version' = [version EXCEPT ![s] = @ + 1],
         rec' = rec, saved' = saved, loading' = loading, loading = Idle,
         \A x \in Schemas \ {s} : layout'[x] = layout[x] /\ idx'[x] = idx[x]
  PROVE  VersionsTell'
<1>1. VersionsTell
  BY DEF SchemaInv
<1>2. /\ version'[s] = version[s] + 1 /\ version[s] \in Nat
      /\ \A x \in Schemas \ {s} : version'[x] = version[x]
  BY DEF SchemaInv, Shape
<1>3. \A r \in Records : rec[r].ver \in Nat
  BY DEF SchemaInv, Shape, Row
<1>4. \A x \in Schemas : x # loading.into
  BY IdleLoadsNothing
<1>5. \A r \in Records : rec[r].schema = s => Follows(rec[r], s)'
  BY <1>1, <1>2, <1>3, <1>4 DEF VersionsTell, Follows
<1>6. \A r \in Records, x \in Schemas \ {s} : Follows(rec[r], x) => Follows(rec[r], x)'
  BY <1>2 DEF Follows
<1>7. \A x \in Schemas : version'[x] = 0 => Blank(x)'
  <2>1. \A x \in Schemas : version[x] = 0 => Blank(x)
    BY <1>1 DEF VersionsTell
  <2>2. version'[s] # 0
    BY <1>2
  <2>3. \A x \in Schemas \ {s} : Blank(x) => Blank(x)'
    BY DEF Blank
  <2> QED
    BY <1>2, <2>1, <2>2, <2>3
<1> QED
  BY <1>1, <1>4, <1>5, <1>6, <1>7 DEF VersionsTell

LEMMA DefineFieldKeeps ==
  ASSUME SchemaInv, NEW s \in Schemas, NEW n, NEW t \in Types, DefineField(s, n, t)
  PROVE  SchemaInv'
<1>1. /\ Enter(s, n, t) /\ n \notin DOMAIN idx[s]
      /\ changes < MaxChanges /\ changes' = changes + 1
      /\ version' = [version EXCEPT ![s] = @ + 1]
      /\ rec' = rec /\ saved' = saved /\ loading' = loading /\ past' = past
      /\ loading = Idle
  BY DEF DefineField, Change
<1>2. loading' \in [into : Schemas \cup {NoSchema}, read : Nat]
  BY <1>1 DEF SchemaInv, Shape
<1>3. /\ Shape' /\ TightUnshifted' /\ OldFieldsFirst'
      /\ \A x \in Schemas \ {s} : layout'[x] = layout[x] /\ idx'[x] = idx[x]
  BY <1>1, <1>2, AddedFieldKeeps
<1>4. OnlyReadNew' => VersionsTell'
  BY <1>1, <1>3, NewVersionTells DEF OnlyReadNew
<1> QED
  BY <1>3, <1>4 DEF SchemaInv

LEMMA LoadFieldKeeps ==
  ASSUME SchemaInv, LoadField
  PROVE  SchemaInv'
<1> DEFINE s == loading.into
           f == saved.fields[loading.read + 1]
<1>1. loading # Idle /\ s \in Schemas /\ loading.read \in Nat
  BY DEF LoadField, SchemaInv, Shape
<1>2. /\ f.name \notin DOMAIN idx[s] /\ f.type \in Types /\ Enter(s, f.name, f.type)
      /\ version' = [version EXCEPT ![s] = @ + 1]
      /\ changes < MaxChanges /\ changes' = changes + 1
      /\ rec' = rec /\ saved' = saved /\ past' = past
  BY DEF LoadField, Change
<1>3. loading' = [into |-> s, read |-> loading.read + 1]
  BY DEF LoadField, SchemaInv, Shape
<1> HIDE DEF f
<1>4. /\ loading' \in [into : Schemas \cup {NoSchema}, read : Nat]
      /\ loading'.into = s /\ loading'.read # 0 /\ s # NoSchema
  BY <1>1, <1>3, NullIsNoSchema
<1>5. /\ Shape' /\ TightUnshifted' /\ OldFieldsFirst'
      /\ \A x \in Schemas \ {s} : layout'[x] = layout[x] /\ idx'[x] = idx[x]
  BY <1>1, <1>2, <1>4, AddedFieldKeeps
<1>6. ASSUME OnlyReadNew' PROVE VersionsTell'
  <2>1. VersionsTell
    BY <1>2, <1>6 DEF SchemaInv, OnlyReadNew
  <2>2. /\ version'[s] = version[s] + 1 /\ version[s] \in Nat
        /\ \A x \in Schemas \ {s} : version'[x] = version[x]
    BY <1>1, <1>2 DEF SchemaInv, Shape
  <2>3. \A r \in Records, x \in Schemas \ {s} : Follows(rec[r], x) => Follows(rec[r], x)'
    BY <1>2, <1>5, <2>2 DEF Follows
  <2>4. \A x \in Schemas : version'[x] = 0 => Blank(x)'
    <3>1. \A x \in Schemas : version[x] = 0 => Blank(x)
      BY <2>1 DEF VersionsTell
    <3>2. version'[s] # 0
      BY <2>2
    <3>3. \A x \in Schemas \ {s} : Blank(x) => Blank(x)'
      BY <1>5 DEF Blank
    <3> QED
      BY <2>2, <3>1, <3>2, <3>3
  <2> QED
    BY <1>2, <1>4, <2>1, <2>3, <2>4 DEF VersionsTell
<1> QED
  BY <1>5, <1>6 DEF SchemaInv

LEMMA UndefineFieldKeeps ==
  ASSUME SchemaInv, NEW s \in Schemas, NEW n, UndefineField(s, n)
  PROVE  SchemaInv'
<1> DEFINE i == idx[s][n]
           l == layout[s]
<1>1. /\ loading = Idle /\ n \in DOMAIN idx[s] /\ i < Len(l)
      /\ changes < MaxChanges /\ changes' = changes + 1
      /\ layout' = [layout EXCEPT ![s] = SubSeq(@, 1, i) \o SubSeq(@, i + 2, Len(@))]
      /\ ridx' = [ridx EXCEPT ![s] = Without(@, i)]
      /\ types' = [types EXCEPT ![s] = Without(@, i)]
      /\ idx' = [idx EXCEPT ![s] = Without(@, n)]
      /\ declared' = [declared EXCEPT ![s] = Without(@, n)]
      /\ past' = [past EXCEPT ![s] = @ \cup
                    IF i + 1 < Len(l) THEN {"shrunk", "hole"} ELSE {"shrunk"}]
      /\ version' = [version EXCEPT ![s] = @ + 1]
      /\ rec' = rec /\ saved' = saved /\ loading' = loading
  BY DEF UndefineField, Change
<1>2. i \in Nat /\ l \in Seq(Types)
  BY SMTT(30), <1>1 DEF SchemaInv, Shape
<1>3. /\ layout'[s] = SubSeq(l, 1, i) \o SubSeq(l, i + 2, Len(l))
      /\ ridx'[s] = Without(ridx[s], i) /\ types'[s] = Without(types[s], i)
      /\ idx'[s] = Without(idx[s], n) /\ declared'[s] = Without(declared[s], n)
      /\ \A x \in Schemas \ {s} :
           /\ layout'[x] = layout[x] /\ idx'[x] = idx[x] /\ ridx'[x] = ridx[x]
           /\ types'[x] = types[x] /\ declared'[x] = declared[x]
           /\ past'[x] = past[x]
      /\ past'[s] = past[s] \cup
           IF i + 1 < Len(l) THEN {"shrunk", "hole"} ELSE {"shrunk"}
  BY <1>1 DEF SchemaInv, Shape
<1> HIDE DEF i
<1>4. /\ layout'[s] \in Seq(Types) /\ Len(layout'[s]) = Len(l) - 1
      /\ i + 1 = Len(l) => \A k \in 1 .. Len(l) - 1 : layout'[s][k] = l[k]
  <2> DEFINE a == SubSeq(l, 1, i)
             b == SubSeq(l, i + 2, Len(l))
  <2>1. /\ a \in Seq(Types) /\ Len(a) = i
        /\ \A k \in 1 .. i : a[k] = l[k]
    BY <1>1, <1>2
  <2>2. b \in Seq(Types) /\ Len(b) = Len(l) - i - 1
    BY <1>1, <1>2
  <2> HIDE DEF a, b
  <2>3. /\ a \o b \in Seq(Types) /\ Len(a \o b) = Len(a) + Len(b)
        /\ \A k \in 1 .. Len(a) : (a \o b)[k] = a[k]
    BY <2>1, <2>2, JoinedTypes
  <2>4. layout'[s] = a \o b
    BY <1>3 DEF a, b
  <2>5. Len(l) \in Nat
    BY <1>2
  <2>6. i + 1 = Len(l) => \A k \in 1 .. Len(l) - 1 : (a \o b)[k] = l[k]
    BY <1>2, <2>1, <2>3, <2>5
  <2> QED
    BY <1>2, <2>1, <2>2, <2>3, <2>4, <2>5, <2>6
<1>5. \A x \in Schemas : \A m \in DOMAIN idx'[x] : m \in DOMAIN idx[x] /\ idx'[x][m] = idx[x][m]
  <2>1. \A m \in DOMAIN idx'[s] : m \in DOMAIN idx[s] /\ idx'[s][m] = idx[s][m]
    BY <1>3 DEF Without
  <2> QED
    BY <1>3, <2>1
<1>6. Shape'
  <2>1. layout' \in [Schemas -> Seq(Types)]
    <3>1. \A x \in Schemas : layout'[x] \in Seq(Types)
      BY <1>3, <1>4 DEF SchemaInv, Shape
    <3> QED
      BY <1>1, <3>1 DEF SchemaInv, Shape
  <2>2. \A x \in Schemas : Len(layout'[x]) <= changes'
    <3>1. \A x \in Schemas : /\ Len(layout[x]) \in Nat /\ Len(layout[x]) <= changes
                             /\ changes \in Nat
      BY LayoutShape
    <3>2. \A x \in Schemas : x # s => Len(layout'[x]) = Len(layout[x])
      BY <1>3
    <3> QED
      BY SMTT(30), <1>1, <1>4, <3>1, <3>2
  <2>3. changes' \in 0 .. MaxChanges
    BY <1>1, LayoutShape, ChangesAreBounded
  <2>4. version' \in [Schemas -> Nat]
    <3>1. version' = [version EXCEPT ![s] = @ + 1] /\ version \in [Schemas -> Nat]
      BY <1>1 DEF SchemaInv, Shape
    <3> QED
      BY <3>1
  <2>5. past' \in [Schemas -> SUBSET {"shrunk", "hole", "reread"}]
    <3> DEFINE new == IF i + 1 < Len(l) THEN {"shrunk", "hole"} ELSE {"shrunk"}
    <3>1. new \subseteq {"shrunk", "hole", "reread"}
      OBVIOUS
    <3>2. past' = [past EXCEPT ![s] = @ \cup new]
      BY <1>1
    <3> HIDE DEF new
    <3> QED
      BY <3>1, <3>2 DEF SchemaInv, Shape
  <2>6. /\ idx' = [x \in Schemas |-> idx'[x]] /\ ridx' = [x \in Schemas |-> ridx'[x]]
        /\ types' = [x \in Schemas |-> types'[x]]
        /\ declared' = [x \in Schemas |-> declared'[x]]
    BY <1>1 DEF SchemaInv, Shape
  <2>7. \A x \in Schemas : \A m \in DOMAIN idx'[x] : idx'[x][m] \in Nat
    BY <1>5 DEF SchemaInv, Shape
  <2>8. /\ rec' \in [Records -> Row] /\ saved'.version \in Nat
        /\ loading' \in [into : Schemas \cup {NoSchema}, read : Nat]
        /\ loading'.into = NoSchema => loading' = Idle
    BY <1>1 DEF SchemaInv, Shape
  <2> QED
    BY <2>1, <2>2, <2>3, <2>4, <2>5, <2>6, <2>7, <2>8 DEF Shape
<1>7. TightUnshifted'
  <2>1. \A x \in Schemas \ {s} : Tight(x) => Tight(x)'
    BY <1>3, TightFrame
  <2>2. ASSUME "hole" \notin past'[s] PROVE Tight(s)'
    <3>1. i + 1 = Len(l) /\ "hole" \notin past[s]
      BY <1>1, <1>2, <1>3, <2>2
    <3>2. Tight(s)
      BY <3>1 DEF SchemaInv, TightUnshifted
    <3>3. \A m \in DOMAIN idx[s] : m # n => idx[s][m] # i
      BY <1>1, <3>2 DEF Tight, NamesLead, i
    <3>4. \A m \in DOMAIN idx[s] : idx[s][m] \in Nat /\ idx[s][m] < Len(l)
      BY <3>2 DEF Tight, NamesLead, SchemaInv, Shape
    <3>5. DOMAIN idx'[s] = DOMAIN idx[s] \ {n} /\ DOMAIN declared'[s] = DOMAIN idx'[s]
      BY <1>3, <3>2 DEF Without, Tight
    <3>6. /\ \A k \in DOMAIN ridx[s] : k # i => k \in DOMAIN ridx'[s] /\ ridx'[s][k] = ridx[s][k]
          /\ \A k \in DOMAIN types[s] : k # i => k \in DOMAIN types'[s] /\ types'[s][k] = types[s][k]
          /\ \A m \in DOMAIN idx'[s] : /\ idx'[s][m] = idx[s][m]
                                       /\ declared'[s][m] = declared[s][m]
      BY <1>3, <3>2, <3>5 DEF Without, Tight
    <3>7. ASSUME NEW m \in DOMAIN idx[s], m # n
          PROVE  /\ idx[s][m] < Len(layout'[s])
                 /\ layout'[s][idx[s][m] + 1] = layout[s][idx[s][m] + 1]
      <4>1. idx[s][m] \in Nat /\ idx[s][m] < i
        BY <1>2, <3>1, <3>3, <3>4, <3>7
      <4>2. Len(l) \in Nat
        BY <1>2
      <4>3. idx[s][m] + 1 \in 1 .. Len(l) - 1 /\ idx[s][m] < Len(l) - 1
        BY <1>2, <3>1, <4>1, <4>2
      <4> QED
        BY <1>4, <3>1, <4>3
    <3> QED
      BY <3>2, <3>3, <3>5, <3>6, <3>7 DEF Tight, NamesLead
  <2> QED
    BY <1>3, <2>1, <2>2 DEF SchemaInv, TightUnshifted
<1>8. OldFieldsFirst'
  BY <1>3 DEF OldFieldsFirst, OnlyGrew
<1>9. OnlyReadNew' => VersionsTell'
  <2>1. OnlyReadNew' => OnlyReadNew
    BY <1>3 DEF OnlyReadNew
  <2> QED
    BY <1>1, <1>3, <2>1, NewVersionTells
<1> QED
  BY <1>6, <1>7, <1>8, <1>9 DEF SchemaInv

-----------------------------------------------------------------------------
(* A schema is written and read.                                           *)

LEMMA SaveKeeps ==
  ASSUME SchemaInv, NEW s \in Schemas, Save(s)
  PROVE  SchemaInv'
<1>1. /\ layout' = layout /\ idx' = idx /\ ridx' = ridx /\ version' = version
      /\ declared' = declared /\ rec' = rec /\ loading' = loading
      /\ changes' = changes /\ past' = past
      /\ types' = [types EXCEPT ![s] =
           With(@, [i \in {idx[s][n] : n \in DOMAIN idx[s]} |-> NoType])]
      /\ saved'.version = version[s]
  BY DEF Save
<1>2. /\ \A k \in DOMAIN types[s] : k \in DOMAIN types'[s] /\ types'[s][k] = types[s][k]
      /\ \A x \in Schemas \ {s} : types'[x] = types[x]
      /\ types' = [x \in Schemas |-> types'[x]]
  <2>1. types'[s] = With(types[s], [i \in {idx[s][n] : n \in DOMAIN idx[s]} |-> NoType])
    BY <1>1 DEF SchemaInv, Shape
  <2> QED
    BY <1>1, <2>1 DEF With, SchemaInv, Shape
<1>3. Shape'
  BY <1>1, <1>2 DEF SchemaInv, Shape
<1>4. TightUnshifted'
  <2>1. \A x \in Schemas \ {s} : Tight(x) => Tight(x)'
    BY <1>1, <1>2, TightFrame
  <2>2. Tight(s) => Tight(s)'
    BY <1>1, <1>2 DEF Tight, NamesLead
  <2> QED
    BY <1>1, <2>1, <2>2 DEF SchemaInv, TightUnshifted
<1>5. OldFieldsFirst'
  BY <1>1 DEF SchemaInv, OldFieldsFirst, FirstFields, OnlyGrew
<1>6. ASSUME OnlyReadNew' PROVE VersionsTell'
  <2>1. VersionsTell
    BY <1>1, <1>6 DEF SchemaInv, OnlyReadNew
  <2>2. version[s] = 0 => saved'.fields = <<>>
    <3>1. ASSUME version[s] = 0 PROVE InOrder(DOMAIN idx[s]) = <<>>
      BY <2>1, <3>1, NoNames DEF VersionsTell, Blank
    <3>2. DOMAIN saved'.fields = DOMAIN InOrder(DOMAIN idx[s])
      BY DEF Save
    <3>3. saved'.fields = [k \in DOMAIN saved'.fields |-> saved'.fields[k]]
      BY DEF Save
    <3> QED
      BY <3>1, <3>2, <3>3
  <2>3. \A x \in Schemas : Blank(x) => Blank(x)'
    BY <1>1 DEF Blank
  <2>4. \A r \in Records, x \in Schemas : Follows(rec[r], x) => Follows(rec[r], x)'
    BY <1>1 DEF Follows
  <2>5. ~(loading # Idle)
    BY DEF Save
  <2> QED
    BY <1>1, <2>1, <2>2, <2>3, <2>4, <2>5 DEF VersionsTell
<1> QED
  BY <1>3, <1>4, <1>5, <1>6 DEF SchemaInv

LEMMA BeginLoadKeeps ==
  ASSUME SchemaInv, NEW s \in Schemas, BeginLoad(s)
  PROVE  SchemaInv'
<1>1. /\ loading = Idle /\ loading' = [into |-> s, read |-> 0]
      /\ layout' = layout /\ idx' = idx /\ ridx' = ridx /\ types' = types
      /\ version' = version /\ declared' = declared
      /\ rec' = rec /\ saved' = saved /\ changes' = changes
  BY DEF BeginLoad, schemaVars
<1> DEFINE new == IF version[s] = 0 /\ layout[s] = <<>> THEN {} ELSE {"reread"}
<1>2. past' = [past EXCEPT ![s] = @ \cup new]
  BY DEF BeginLoad
<1>3. /\ past'[s] = past[s] \cup new
      /\ \A x \in Schemas : past[x] \subseteq past'[x]
      /\ past' \in [Schemas -> SUBSET {"shrunk", "hole", "reread"}]
  BY <1>2 DEF SchemaInv, Shape
<1>4. Shape'
  <2>1. loading' \in [into : Schemas \cup {NoSchema}, read : Nat]
    BY <1>1
  <2>2. loading'.into # NoSchema
    BY <1>1, NullIsNoSchema
  <2> QED
    BY <1>1, <1>3, <2>1, <2>2 DEF SchemaInv, Shape
<1>5. TightUnshifted'
  <2>1. \A x \in Schemas : Tight(x) => Tight(x)'
    BY <1>1 DEF Tight, NamesLead
  <2> QED
    BY <1>3, <2>1 DEF SchemaInv, TightUnshifted
<1>6. OldFieldsFirst'
  <2>1. OnlyGrew' => OnlyGrew
    BY <1>3 DEF OnlyGrew
  <2>2. \A r \in Records : FirstFields(rec[r]) => FirstFields(rec[r])'
    BY <1>1 DEF FirstFields
  <2> QED
    BY <1>1, <2>1, <2>2 DEF SchemaInv, OldFieldsFirst
<1>7. ASSUME OnlyReadNew' PROVE VersionsTell'
  <2>1. OnlyReadNew /\ version[s] = 0
    BY <1>3, <1>7 DEF OnlyReadNew
  <2>2. VersionsTell /\ Blank(s)
    BY <2>1 DEF SchemaInv, VersionsTell
  <2>3. \A x \in Schemas : x # loading.into
    BY <1>1, IdleLoadsNothing
  <2>4. ASSUME NEW r \in Records, rec[r].schema = s
        PROVE  rec[r].ver = 0 /\ rec[r].vals = <<>>
    <3>1. Follows(rec[r], s) /\ rec[r] \in Row
      BY <2>2, <2>3, <2>4 DEF VersionsTell, SchemaInv, Shape
    <3>2. rec[r].ver = 0 /\ TypesOf(rec[r].vals) = <<>>
      BY <2>1, <2>2, <3>1 DEF Follows, Blank, Row
    <3>3. rec[r].vals \in Seq(Field)
      BY <3>1 DEF Row
    <3>4. Len(rec[r].vals) = 0
      BY <3>2, <3>3, TypesOfFields
    <3> QED
      BY <3>2, <3>3, <3>4
  <2>5. \A r \in Records, x \in Schemas : Follows(rec[r], x) => Follows(rec[r], x)'
    BY <1>1 DEF Follows
  <2>6. \A x \in Schemas : Blank(x) => Blank(x)'
    BY <1>1 DEF Blank
  <2>7. loading'.into = s
    BY <1>1
  <2>8. Blank(loading.into)'
    BY <1>1, <2>2, <2>7 DEF Blank
  <2> QED
    BY <1>1, <2>2, <2>3, <2>4, <2>5, <2>6, <2>7, <2>8 DEF VersionsTell
<1> QED
  BY <1>4, <1>5, <1>6, <1>7 DEF SchemaInv

(* Reading ends, with an exception at a field or with the version written. *)
LEMMA LoadEndKeeps ==
  ASSUME SchemaInv, LoadThrows \/ EndLoad
  PROVE  SchemaInv'
<1>0. PICK s \in Schemas : s = loading.into
  BY DEF LoadThrows, EndLoad, SchemaInv, Shape
<1>1. /\ loading # Idle /\ loading.read \in Nat /\ loading' = Idle
      /\ layout' = layout /\ idx' = idx /\ ridx' = ridx /\ types' = types
      /\ declared' = declared /\ past' = past
      /\ rec' = rec /\ saved' = saved /\ changes' = changes
      /\ \/ version' = version
         \/ /\ loading.read = Len(saved.fields)
            /\ version' = [version EXCEPT ![s] = saved.version]
  BY <1>0 DEF LoadThrows, EndLoad, schemaVars, SchemaInv, Shape
<1>2. /\ version' \in [Schemas -> Nat]
      /\ \A x \in Schemas \ {s} : version'[x] = version[x]
      /\ \/ version'[s] = version[s]
         \/ loading.read = Len(saved.fields) /\ version'[s] = saved.version
  BY <1>1 DEF SchemaInv, Shape
<1>3. Shape'
  <2>1. loading' \in [into : Schemas \cup {NoSchema}, read : Nat]
    BY <1>1 DEF Idle
  <2> QED
    BY <1>1, <1>2, <2>1 DEF SchemaInv, Shape
<1>4. TightUnshifted'
  BY <1>1 DEF SchemaInv, TightUnshifted, Tight, NamesLead
<1>5. OldFieldsFirst'
  BY <1>1 DEF SchemaInv, OldFieldsFirst, FirstFields, OnlyGrew
<1>6. ASSUME OnlyReadNew' PROVE VersionsTell'
  <2>1. VersionsTell
    BY <1>1, <1>6 DEF SchemaInv, OnlyReadNew
  <2>2. version'[s] = 0 => Blank(s)
    <3>1. CASE version'[s] = version[s]
      BY <1>0, <1>1, <2>1, <3>1 DEF VersionsTell
    <3>2. CASE loading.read = Len(saved.fields) /\ version'[s] = saved.version
      <4>1. version'[s] = 0 => loading.read = 0
        BY <2>1, <3>2 DEF VersionsTell
      <4> QED
        BY <1>0, <1>1, <2>1, <4>1 DEF VersionsTell
    <3> QED
      BY <1>2, <3>1, <3>2
  <2>3. \A x \in Schemas : Blank(x) => Blank(x)'
    BY <1>1 DEF Blank
  <2>4. \A r \in Records, x \in Schemas \ {s} : Follows(rec[r], x) => Follows(rec[r], x)'
    BY <1>1, <1>2 DEF Follows
  <2>5. ASSUME NEW r \in Records, rec[r].schema = s PROVE Follows(rec[r], s)'
    <3>1. rec[r].ver = 0 /\ rec[r].vals = <<>>
      BY <1>0, <1>1, <2>1, <2>5 DEF VersionsTell
    <3>2. TypesOf(<<>>) = <<>>
      BY DEF TypesOf
    <3>3. version'[s] = 0 => layout[s] = <<>>
      BY <2>2 DEF Blank
    <3>4. version'[s] \in Nat
      BY <1>1, <1>2
    <3> QED
      BY <1>1, <3>1, <3>2, <3>3, <3>4 DEF Follows
  <2>6. \A x \in Schemas : x # loading'.into
    BY <1>1, IdleLoadsNothing
  <2> QED
    BY <1>0, <1>1, <1>2, <2>1, <2>2, <2>3, <2>4, <2>5, <2>6 DEF VersionsTell
<1> QED
  BY <1>3, <1>4, <1>5, <1>6 DEF SchemaInv

-----------------------------------------------------------------------------
(* Records change.                                                         *)

LEMMA RecordKeeps ==
  ASSUME SchemaInv, UNCHANGED <<schemaVars, saved, loading, changes, past>>,
         loading = Idle, NEW r \in Records, NEW row \in Row,
         rec' = [rec EXCEPT ![r] = row],
         OnlyGrew => FirstFields(row),
         OnlyReadNew => \A s \in Schemas : row.schema = s => Follows(row, s)
  PROVE  SchemaInv'
<1>1. /\ layout' = layout /\ idx' = idx /\ ridx' = ridx /\ types' = types
      /\ version' = version /\ declared' = declared /\ past' = past
      /\ saved' = saved /\ loading' = loading /\ changes' = changes
  BY DEF schemaVars
<1>2. rec'[r] = row /\ \A q \in Records \ {r} : rec'[q] = rec[q]
  BY DEF SchemaInv, Shape
<1>3. Shape'
  <2>1. rec' \in [Records -> Row]
    BY DEF SchemaInv, Shape
  <2> QED
    BY <1>1, <2>1 DEF SchemaInv, Shape
<1>4. TightUnshifted'
  BY <1>1 DEF SchemaInv, TightUnshifted, Tight, NamesLead
<1>5. OldFieldsFirst'
  <2>1. \A q \in Records : OnlyGrew => FirstFields(rec'[q])
    BY <1>2 DEF SchemaInv, OldFieldsFirst
  <2> QED
    BY <1>1, <2>1 DEF OldFieldsFirst, OnlyGrew, FirstFields
<1>6. OnlyReadNew' => VersionsTell'
  <2>1. SUFFICES ASSUME OnlyReadNew PROVE VersionsTell'
    BY <1>1 DEF OnlyReadNew
  <2>2. VersionsTell
    BY <2>1 DEF SchemaInv
  <2>3. \A s \in Schemas : s # loading.into
    BY IdleLoadsNothing
  <2>4. ASSUME NEW q \in Records, NEW s \in Schemas, rec'[q].schema = s
        PROVE  Follows(rec'[q], s)
    BY <1>2, <2>1, <2>2, <2>3, <2>4 DEF VersionsTell
  <2>5. \A q \in Records, s \in Schemas : Follows(rec'[q], s) => Follows(rec[q], s)'
    BY <1>1 DEF Follows
  <2> QED
    BY <1>1, <2>2, <2>3, <2>4, <2>5 DEF VersionsTell, Blank
<1> QED
  BY <1>3, <1>4, <1>5, <1>6 DEF SchemaInv

(* What a record says of a schema.                                         *)
LEMMA RowsTell ==
  ASSUME SchemaInv, loading = Idle, NEW r \in Records
  PROVE  /\ rec[r] \in Row
         /\ OnlyGrew => FirstFields(rec[r])
         /\ OnlyReadNew => \A s \in Schemas : rec[r].schema = s => Follows(rec[r], s)
<1>1. \A s \in Schemas : s # loading.into
  BY IdleLoadsNothing
<1> QED
  BY <1>1 DEF SchemaInv, Shape, OldFieldsFirst, VersionsTell

LEMMA SameLengthSameTypes ==
  ASSUME SchemaInv, OnlyGrew, NEW row \in Row, FirstFields(row), NEW s \in Schemas,
         row.schema = s, Len(row.vals) = Len(layout[s])
  PROVE  \A i \in DOMAIN layout[s] : row.vals[i].mem = layout[s][i]
<1>1. layout[s] \in Seq(Types) /\ row.vals \in Seq(Field)
  BY LayoutShape DEF Row
<1>2. DOMAIN row.vals = DOMAIN layout[s]
  BY <1>1
<1> QED
  BY <1>2 DEF FirstFields

LEMMA MakeKeeps ==
  ASSUME SchemaInv, NEW r \in Records, NEW s \in Schemas, Make(r, s)
  PROVE  SchemaInv'
<1>1. /\ loading = Idle /\ UNCHANGED <<schemaVars, saved, loading, changes, past>>
      /\ layout[s] \in Seq(Types) /\ version[s] \in Nat /\ rec[r] \in Row
      /\ DOMAIN rec = Records
  BY DEF Make, SchemaInv, Shape
<1> DEFINE old == rec[r]
<1>2. CASE rec' = [rec EXCEPT ![r] = Rebuilt(@, s, version[s], layout[s])]
  <2> DEFINE row == Rebuilt(old, s, version[s], layout[s])
  <2>1. /\ row \in Row /\ row.schema = s /\ row.ver = version[s]
        /\ row.vals = Clones(layout[s])
    BY <1>1, ClonesOfTypes DEF Rebuilt, Row
  <2>2. rec' = [rec EXCEPT ![r] = row]
    BY <1>1, <1>2
  <2> HIDE DEF row
  <2>3. FirstFields(row)
    BY <1>1, <2>1, ClonesOfTypes, NullIsNoSchema DEF FirstFields
  <2>4. Follows(row, s)
    BY <1>1, <2>1, ClonesOfTypes DEF Follows
  <2> QED
    BY <1>1, <2>1, <2>2, <2>3, <2>4, RecordKeeps
<1>3. CASE /\ old.schema = s /\ Len(old.vals) = Len(layout[s])
           /\ rec' = [rec EXCEPT ![r] =
                        [Reconstructed(@, layout[s]) EXCEPT !.ver = version[s]]]
  <2> DEFINE new == Reconstructed(old, layout[s])
             row == [new EXCEPT !.ver = version[s]]
  <2>1. /\ new \in Row /\ new.schema = s /\ TypesOf(new.vals) = layout[s]
        /\ Len(new.vals) = Len(layout[s])
        /\ \A i \in DOMAIN layout[s] : /\ new.vals[i].type = layout[s][i]
                                       /\ new.vals[i].mem = old.vals[i].mem
    BY <1>1, <1>3, OverwrittenRow
  <2>2. rec' = [rec EXCEPT ![r] = row]
    BY <1>1, <1>3
  <2> HIDE DEF new
  <2>3. row \in Row /\ row.schema = s /\ row.ver = version[s] /\ row.vals = new.vals
    BY <1>1, <2>1 DEF Row
  <2> HIDE DEF row
  <2>4. ASSUME OnlyGrew PROVE FirstFields(row)
    <3>1. \A i \in DOMAIN layout[s] : old.vals[i].mem = layout[s][i]
      BY <1>1, <1>3, <2>4, RowsTell, SameLengthSameTypes
    <3>2. DOMAIN row.vals = DOMAIN layout[s]
      BY <1>1, <2>1, <2>3 DEF Row
    <3> QED
      BY <1>1, <2>1, <2>3, <3>1, <3>2, NullIsNoSchema DEF FirstFields
  <2>5. Follows(row, s)
    BY <1>1, <2>1, <2>3 DEF Follows
  <2> QED
    BY <1>1, <2>2, <2>3, <2>4, <2>5, RecordKeeps
<1> QED
  BY <1>2, <1>3 DEF Make

(* All fields of a record are made anew, like those of another one.        *)
LEMMA MadeAnewKeeps ==
  ASSUME SchemaInv, loading = Idle, UNCHANGED <<schemaVars, saved, loading, changes, past>>,
         NEW r \in Records, NEW q \in Records,
         rec' = [rec EXCEPT ![r] = [schema |-> rec[q].schema, ver |-> rec[q].ver,
                                    vals |-> Clones(TypesOf(rec[q].vals))]]
  PROVE  SchemaInv'
<1> DEFINE from == rec[q]
           list == TypesOf(from.vals)
<1>1. from \in Row
  BY DEF SchemaInv, Shape
<1>2. /\ list \in Seq(Types) /\ Len(list) = Len(from.vals)
      /\ \A i \in DOMAIN from.vals : list[i] = from.vals[i].type
      /\ DOMAIN list = DOMAIN from.vals
  BY <1>1, TypesOfFields DEF Row, TypesOf
<1> HIDE DEF list
<1> DEFINE row == [schema |-> from.schema, ver |-> from.ver, vals |-> Clones(list)]
<1>3. /\ row \in Row /\ row.schema = from.schema /\ row.ver = from.ver
      /\ row.vals = Clones(list)
  BY <1>1, <1>2, ClonesOfTypes DEF Row
<1>4. rec' = [rec EXCEPT ![r] = row]
  BY DEF list
<1> HIDE DEF row
<1>5. /\ Len(row.vals) = Len(from.vals) /\ DOMAIN row.vals = DOMAIN from.vals
      /\ \A i \in DOMAIN row.vals : /\ row.vals[i].type = from.vals[i].type
                                    /\ row.vals[i].mem = from.vals[i].type
      /\ TypesOf(row.vals) = TypesOf(from.vals)
  <2>1. Clones(list) \in Seq(Field) /\ Len(Clones(list)) = Len(list)
    BY <1>2, ClonesOfTypes
  <2>2. DOMAIN Clones(list) = DOMAIN list
    BY <1>2, <2>1
  <2>3. TypesOf(Clones(list)) = list
    BY <1>2, ClonesOfTypes
  <2>4. \A i \in DOMAIN list : /\ Clones(list)[i].type = list[i]
                               /\ Clones(list)[i].mem = list[i]
    BY <1>2, ClonesOfTypes
  <2> QED
    BY <1>2, <1>3, <2>1, <2>2, <2>3, <2>4 DEF list
<1>6. OnlyGrew => FirstFields(row)
  <2>1. SUFFICES ASSUME OnlyGrew PROVE FirstFields(row)
    OBVIOUS
  <2>2. FirstFields(from)
    BY <2>1, RowsTell
  <2>3. from.vals = <<>> => row.vals = <<>>
    BY <1>3, <1>5 DEF Row
  <2> QED
    BY <1>3, <1>5, <2>2, <2>3 DEF FirstFields
<1>7. OnlyReadNew => \A s \in Schemas : row.schema = s => Follows(row, s)
  <2>1. SUFFICES ASSUME OnlyReadNew, NEW s \in Schemas, row.schema = s
                 PROVE  Follows(row, s)
    OBVIOUS
  <2>2. Follows(from, s)
    BY <1>3, <2>1, RowsTell
  <2> QED
    BY <1>3, <1>5, <2>2 DEF Follows
<1> QED
  BY <1>3, <1>4, <1>6, <1>7, RecordKeeps

LEMMA AssignKeeps ==
  ASSUME SchemaInv, NEW r \in Records, NEW q \in Records, Assign(r, q)
  PROVE  SchemaInv'
<1> DEFINE old  == rec[r]
           from == rec[q]
           list == TypesOf(from.vals)
<1>1. /\ loading = Idle /\ UNCHANGED <<schemaVars, saved, loading, changes, past>>
      /\ old \in Row /\ from \in Row /\ DOMAIN rec = Records
  BY DEF Assign, SchemaInv, Shape
<1>2. /\ list \in Seq(Types) /\ Len(list) = Len(from.vals)
      /\ \A i \in DOMAIN from.vals : list[i] = from.vals[i].type
      /\ from.vals \in Seq(Field) /\ DOMAIN list = DOMAIN from.vals
  BY <1>1, TypesOfFields DEF Row, TypesOf
<1> HIDE DEF list
<1>3. CASE LooksSame(r, q)
  <2> DEFINE row == Reconstructed(old, list)
  <2>1. Len(old.vals) = Len(list)
    BY <1>2, <1>3 DEF LooksSame
  <2>2. /\ row \in Row /\ row.schema = old.schema /\ row.ver = old.ver
        /\ TypesOf(row.vals) = list /\ Len(row.vals) = Len(list)
        /\ \A i \in DOMAIN list : /\ row.vals[i].type = list[i]
                                  /\ row.vals[i].mem = old.vals[i].mem
    BY <1>1, <1>2, <2>1, OverwrittenRow
  <2>3. rec' = [rec EXCEPT ![r] = row]
    BY <1>1, <1>3 DEF Assign, list
  <2> HIDE DEF row
  <2>4. PICK s \in Schemas : /\ old.schema = s /\ from.schema = s
                             /\ from.ver = version[s]
    BY <1>3 DEF LooksSame, IsSame
  <2>5. ASSUME OnlyGrew PROVE FirstFields(row)
    <3>1. FirstFields(old) /\ FirstFields(from)
      BY <1>1, <2>5, RowsTell
    <3>2. DOMAIN row.vals = DOMAIN list /\ DOMAIN old.vals = DOMAIN list
      BY <1>1, <1>2, <2>1, <2>2 DEF Row
    <3>3. \A i \in DOMAIN list : /\ list[i] = layout[s][i]
                                 /\ old.vals[i].mem = layout[s][i]
      BY <1>2, <2>4, <3>1, <3>2 DEF FirstFields
    <3>4. Len(list) <= Len(layout[s])
      BY <1>2, <2>4, <3>1 DEF FirstFields
    <3> QED
      BY <2>2, <2>4, <3>2, <3>3, <3>4, NullIsNoSchema DEF FirstFields
  <2>6. ASSUME OnlyReadNew PROVE Follows(row, s)
    <3>1. Follows(old, s) /\ Follows(from, s)
      BY <1>1, <2>4, <2>6, RowsTell
    <3>2. list = layout[s]
      BY <2>4, <3>1 DEF Follows, list
    <3> QED
      BY <2>2, <3>1, <3>2 DEF Follows
  <2>7. OnlyReadNew => \A x \in Schemas : row.schema = x => Follows(row, x)
    BY <2>2, <2>4, <2>6
  <2> QED
    BY <1>1, <2>2, <2>3, <2>5, <2>7, RecordKeeps
<1>4. CASE ~LooksSame(r, q)
  BY <1>1, <1>4, MadeAnewKeeps DEF Assign, Rebuilt
<1> QED
  BY <1>3, <1>4

LEMMA CopyConstructKeeps ==
  ASSUME SchemaInv, NEW r \in Records, NEW q \in Records, CopyConstruct(r, q)
  PROVE  SchemaInv'
<1>1. rec[q] \in Row
  BY DEF SchemaInv, Shape
<1>2. [rec[q] EXCEPT !.vals = Clones(TypesOf(@))]
        = [schema |-> rec[q].schema, ver |-> rec[q].ver,
           vals |-> Clones(TypesOf(rec[q].vals))]
  BY <1>1 DEF Row
<1> QED
  BY <1>2, MadeAnewKeeps DEF CopyConstruct

-----------------------------------------------------------------------------
LEMMA SchemaInvNext == SchemaInv /\ [SchemaNext]_recordVars => SchemaInv'
<1> SUFFICES ASSUME SchemaInv, [SchemaNext]_recordVars PROVE SchemaInv'
  OBVIOUS
<1>1. ASSUME NEW s \in Schemas, NEW n \in Names,
             (\E t \in Types : DefineField(s, n, t)) \/ UndefineField(s, n)
      PROVE  SchemaInv'
  BY <1>1, DefineFieldKeeps, UndefineFieldKeeps
<1>2. ASSUME NEW s \in Schemas, Save(s) \/ BeginLoad(s) PROVE SchemaInv'
  BY <1>2, SaveKeeps, BeginLoadKeeps
<1>3. CASE LoadField \/ LoadThrows \/ EndLoad
  BY <1>3, LoadFieldKeeps, LoadEndKeeps
<1>4. ASSUME NEW r \in Records, NEW s \in Schemas, Make(r, s) PROVE SchemaInv'
  BY <1>4, MakeKeeps
<1>5. ASSUME NEW r \in Records, NEW q \in Records, Assign(r, q) \/ CopyConstruct(r, q)
      PROVE  SchemaInv'
  BY <1>5, AssignKeeps, CopyConstructKeeps
<1>6. CASE UNCHANGED recordVars
  <2>1. Shape' /\ TightUnshifted'
    BY <1>6 DEF recordVars, schemaVars, SchemaInv, Shape, TightUnshifted, Tight, NamesLead
  <2>2. OldFieldsFirst'
    BY <1>6 DEF recordVars, schemaVars, SchemaInv, OldFieldsFirst, OnlyGrew, FirstFields
  <2>3. OnlyReadNew' => VersionsTell'
    BY <1>6 DEF recordVars, schemaVars, SchemaInv, OnlyReadNew, VersionsTell, Blank, Follows
  <2> QED
    BY <2>1, <2>2, <2>3 DEF SchemaInv
<1> QED
  BY <1>1, <1>2, <1>3, <1>4, <1>5, <1>6 DEF SchemaNext

LEMMA InvHolds == SchemaSpec => []SchemaInv
BY SchemaInvInit, SchemaInvNext, PTL DEF SchemaSpec

-----------------------------------------------------------------------------
(* idx_, ridx_, types_ and the prototype agree on every name while no      *)
(* field but the last was undefined, through any definitions and readings  *)
(* (rschema.cpp:71-112), if a FIELD_INDEX counts all the fields.           *)
THEOREM NamesReachThem == SchemaSpec => []NamesReachUnshifted
<1>1. SchemaInv => NamesReachUnshifted
  BY DEF SchemaInv, TightUnshifted, Tight, NamesReachUnshifted
<1> QED
  BY <1>1, InvHolds, PTL

(* A record that isSameSchema() (rschema.cpp:95) takes to be of a schema   *)
(* has its fields: a version is never used for two layouts as long as      *)
(* schemas are only read while they are new.                               *)
THEOREM SameSchemasAgree == SchemaSpec => []SameSchemaSameFields
<1>1. SchemaInv => SameSchemaSameFields
  <2> SUFFICES ASSUME SchemaInv, OnlyReadNew, NEW s \in Schemas, NEW r \in Records,
                      loading = Idle, IsSame(s, r)
               PROVE  TypesOf(rec[r].vals) = layout[s]
    BY DEF SameSchemaSameFields
  <2> QED
    BY RowsTell DEF IsSame, Follows
<1> QED
  BY <1>1, InvHolds, PTL

(* record::operator= (record.h:203-238) constructs a field only in memory  *)
(* that was allocated for its type, as long as schemas only grow.          *)
THEOREM FieldsFit == SchemaSpec => []FieldsFitMemory
<1>1. SchemaInv => FieldsFitMemory
  BY DEF SchemaInv, OldFieldsFirst, FirstFields, FieldsFitMemory
<1> QED
  BY <1>1, InvHolds, PTL

-----------------------------------------------------------------------------
(* The names of a schema can be listed in order, and InOrder does so.      *)
Listed(o) == \A i, j \in DOMAIN o : i < j => Before(o[i], o[j])
CanBeListed(D) == \E o \in [1 .. Cardinality(D) -> D] : Listed(o)

LEMMA NamesAreNumbered ==
  /\ DOMAIN NameOrder \subseteq Nat
  /\ \A i, j \in DOMAIN NameOrder : NameOrder[i] = NameOrder[j] => i = j
BY SchemaAssumption

LEMMA BeforeIsOther == ASSUME NEW a, NEW b, Before(a, b) PROVE a # b
<1>1. PICK i \in DOMAIN NameOrder, j \in DOMAIN NameOrder :
        i < j /\ NameOrder[i] = a /\ NameOrder[j] = b
  BY DEF Before
<1>2. i \in Nat /\ j \in Nat
  BY NamesAreNumbered
<1> QED BY <1>1, <1>2, NamesAreNumbered

LEMMA FirstName ==
  ASSUME NEW D, D \subseteq Names, D # {}
  PROVE  \E n \in D : \A x \in D \ {n} : Before(n, x)
<1> DEFINE T == {i \in DOMAIN NameOrder : NameOrder[i] \in D}
<1>1. T \subseteq Nat /\ T # {}
  BY NamesAreNumbered DEF Names
<1>2. PICK i \in T : \A j \in T : i <= j
  <2> HIDE DEF T
  <2> QED BY <1>1, LeastOf
<1>3. ASSUME NEW x \in D \ {NameOrder[i]} PROVE Before(NameOrder[i], x)
  <2>1. PICK j \in DOMAIN NameOrder : NameOrder[j] = x
    BY DEF Names
  <2>2. i \in Nat /\ j \in Nat /\ i <= j /\ i # j
    BY <1>2, <2>1, NamesAreNumbered
  <2> QED BY <2>1, <2>2 DEF Before
<1> QED BY <1>3

LEMMA NamesCanBeListed ==
  ASSUME NEW D, IsFiniteSet(D), D \subseteq Names
  PROVE  CanBeListed(D)
<1> DEFINE S == {n \in Nat : \A E \in SUBSET Names :
                   IsFiniteSet(E) /\ Cardinality(E) = n => CanBeListed(E)}
<1>1. 0 \in S
  <2> SUFFICES ASSUME NEW E \in SUBSET Names, IsFiniteSet(E), Cardinality(E) = 0
               PROVE  CanBeListed(E)
    OBVIOUS
  <2>1. <<>> \in [1 .. 0 -> E] /\ Listed(<<>>)
    BY DEF Listed
  <2> QED BY <2>1 DEF CanBeListed
<1>2. ASSUME NEW n \in Nat, n >= 1, n - 1 \in S PROVE n \in S
  <2> SUFFICES ASSUME NEW E \in SUBSET Names, IsFiniteSet(E), Cardinality(E) = n
               PROVE  CanBeListed(E)
    OBVIOUS
  <2>1. E # {}
    BY <1>2, FS_EmptySet
  <2>2. PICK a \in E : \A x \in E \ {a} : Before(a, x)
    BY <2>1, FirstName
  <2> DEFINE rest == E \ {a}
  <2>3. IsFiniteSet(rest) /\ Cardinality(rest) = n - 1 /\ rest \in SUBSET Names
    BY FS_RemoveElement
  <2>4. CanBeListed(rest)
    BY <1>2, <2>3
  <2>5. PICK p \in [1 .. n - 1 -> rest] : Listed(p)
    BY <2>3, <2>4 DEF CanBeListed
  <2> DEFINE o == [k \in 1 .. n |-> IF k = 1 THEN a ELSE p[k - 1]]
  <2>6. o \in [1 .. n -> E]
    BY <1>2, <2>5
  <2>7. ASSUME NEW i \in 1 .. n, NEW j \in 1 .. n, i < j PROVE Before(o[i], o[j])
    <3>1. j - 1 \in 1 .. n - 1 /\ o[j] = p[j - 1] /\ p[j - 1] \in rest
      BY <2>5, <2>7
    <3>2. CASE i = 1
      BY <2>2, <3>1, <3>2
    <3>3. CASE i # 1
      <4>1. i - 1 \in 1 .. n - 1 /\ o[i] = p[i - 1] /\ i - 1 < j - 1
        BY <2>7, <3>3
      <4> QED BY <2>5, <3>1, <4>1 DEF Listed
    <3> QED BY <3>2, <3>3
  <2>8. Listed(o)
    <3> HIDE DEF o
    <3> QED BY <2>6, <2>7 DEF Listed
  <2> HIDE DEF o
  <2> QED BY <2>6, <2>8 DEF CanBeListed
<1>3. Cardinality(D) \in Nat
  BY FS_CardinalityType
<1>4. \A i \in 1 .. Cardinality(D) : i - 1 \in S => i \in S
  <2> HIDE DEF S
  <2>1. \A i \in 1 .. Cardinality(D) : i \in Nat /\ i >= 1
    BY <1>3
  <2> QED BY <1>2, <2>1
<1>5. 0 .. Cardinality(D) \subseteq S
  <2> HIDE DEF S
  <2> QED BY <1>1, <1>3, <1>4, UpTo
<1>6. Cardinality(D) \in S
  <2> HIDE DEF S
  <2> QED BY <1>3, <1>5
<1> QED BY <1>6

LEMMA InOrderLists ==
  ASSUME NEW D, IsFiniteSet(D), D \subseteq Names
  PROVE  LET o == InOrder(D)
         IN  /\ Cardinality(D) \in Nat /\ o \in [1 .. Cardinality(D) -> D]
             /\ \A i, j \in 1 .. Cardinality(D) : o[i] = o[j] => i = j
             /\ \A n \in D : \E i \in 1 .. Cardinality(D) : o[i] = n
<1> DEFINE o == InOrder(D)
           c == Cardinality(D)
<1>1. c \in Nat
  BY FS_CardinalityType
<1>2. o \in [1 .. c -> D] /\ Listed(o)
  <2>1. \E f \in [1 .. c -> D] : Listed(f)
    BY NamesCanBeListed DEF CanBeListed
  <2>2. o = CHOOSE f \in [1 .. c -> D] : Listed(f)
    BY DEF InOrder, Listed
  <2> HIDE DEF o, c
  <2> QED BY <2>1, <2>2
<1>3. ASSUME NEW i \in 1 .. c, NEW j \in 1 .. c, o[i] = o[j] PROVE i = j
  <2>1. ~(i < j) /\ ~(j < i)
    <3>1. DOMAIN o = 1 .. c
      BY <1>2
    <3> HIDE DEF o, c
    <3>2. i < j => Before(o[i], o[j])
      BY <1>2, <3>1 DEF Listed
    <3>3. j < i => Before(o[j], o[i])
      BY <1>2, <3>1 DEF Listed
    <3> QED BY <1>3, <3>2, <3>3, BeforeIsOther
  <2>2. i \in Nat /\ j \in Nat
    BY <1>1
  <2> HIDE DEF o, c
  <2> QED BY <2>1, <2>2
<1>4. o \in Surjection(1 .. c, D)
  <2>1. o \in Injection(1 .. c, D)
    BY <1>2, <1>3 DEF Injection, IsInjective
  <2>2. IsFiniteSet(1 .. c) /\ Cardinality(1 .. c) = c
    BY <1>1, FS_Interval
  <2> HIDE DEF o
  <2> QED BY <2>1, <2>2, FS_Injection
<1>5. \A n \in D : \E i \in 1 .. c : o[i] = n
  BY <1>4 DEF Surjection
<1> HIDE DEF c
<1> QED BY <1>1, <1>2, <1>3, <1>5 DEF c

-----------------------------------------------------------------------------
(* Reading what was written.                                               *)

TablesAreFinite ==
  \A s \in Schemas :
    /\ declared[s] = [n \in DOMAIN declared[s] |-> declared[s][n]]
    /\ DOMAIN idx[s] \subseteq Names /\ IsFiniteSet(DOMAIN idx[s])

(* What was written lists the names that lead to their fields, with types. *)
ListsNames ==
  /\ saved.declared = [n \in DOMAIN saved.declared |-> saved.declared[n]]
  /\ \A i \in 1 .. Len(saved.fields) :
       /\ saved.fields[i].name \in DOMAIN saved.declared
       /\ saved.fields[i].type = saved.declared[saved.fields[i].name]
  /\ \A n \in DOMAIN saved.declared :
       \E i \in 1 .. Len(saved.fields) : saved.fields[i].name = n

SavedIsListed ==
  /\ Len(saved.fields) \in Nat
  /\ \A i \in 1 .. Len(saved.fields) : saved.fields[i].name \in Names
  /\ ~saved.hole => ListsNames

(* A schema with a hole is not new, so it is not read into as a new one.   *)
HolesAreOld ==
  \A s \in Schemas : "hole" \in past[s] /\ "reread" \notin past[s] =>
    version[s] > 0 /\ s # loading.into

(* The fields that were read are declared as they were in what was saved.  *)
NamesRead(n) == {saved.fields[i].name : i \in 1 .. n}

LoadedSoFar ==
  loading # Idle /\ ~saved.hole /\ "reread" \notin past[loading.into] =>
    /\ loading.read \in 0 .. Len(saved.fields)
    /\ declared[loading.into] =
         [n \in NamesRead(loading.read) |-> saved.declared[n]]

LoadInv == TablesAreFinite /\ SavedIsListed /\ HolesAreOld /\ LoadedSoFar

LEMMA LoadInvInit == SchemaInit => LoadInv
<1> SUFFICES ASSUME SchemaInit PROVE LoadInv
  OBVIOUS
<1>1. TablesAreFinite
  BY FS_EmptySet DEF SchemaInit, TablesAreFinite, Nothing
<1>2. SavedIsListed
  BY DEF SchemaInit, SavedIsListed, ListsNames, Nothing
<1>3. HolesAreOld /\ LoadedSoFar
  BY DEF SchemaInit, HolesAreOld, LoadedSoFar
<1> QED BY <1>1, <1>2, <1>3 DEF LoadInv

(* Tables after a field was entered.                                       *)
LEMMA EnterTables ==
  ASSUME SchemaInv, TablesAreFinite, NEW s \in Schemas, NEW n \in Names,
         NEW t, Enter(s, n, t)
  PROVE  /\ TablesAreFinite'
         /\ declared'[s] = With([x \in {n} |-> t], declared[s])
         /\ \A x \in Schemas \ {s} : declared'[x] = declared[x]
<1>1. /\ idx'[s] = With([x \in {n} |-> Index(Len(layout[s]))], idx[s])
      /\ declared'[s] = With([x \in {n} |-> t], declared[s])
      /\ \A x \in Schemas \ {s} : declared'[x] = declared[x] /\ idx'[x] = idx[x]
  BY DEF Enter, SchemaInv, Shape
<1>2. DOMAIN idx'[s] = DOMAIN idx[s] \cup {n}
  BY <1>1 DEF With
<1>3. DOMAIN idx'[s] \subseteq Names /\ IsFiniteSet(DOMAIN idx'[s])
  <2>1. DOMAIN idx[s] \subseteq Names /\ IsFiniteSet(DOMAIN idx[s])
    BY DEF TablesAreFinite
  <2>2. IsFiniteSet(DOMAIN idx[s] \cup {n})
    BY <2>1, FS_AddElement
  <2> QED BY <1>2, <2>1, <2>2
<1>4. declared'[s] = [x \in DOMAIN declared'[s] |-> declared'[s][x]]
  BY <1>1 DEF With
<1>5. TablesAreFinite'
  BY <1>1, <1>3, <1>4 DEF TablesAreFinite
<1> QED BY <1>1, <1>5

LEMMA DefineLists ==
  ASSUME SchemaInv, LoadInv, NEW s \in Schemas, NEW n \in Names,
         (\E t \in Types : DefineField(s, n, t)) \/ UndefineField(s, n)
  PROVE  LoadInv'
<1>1. /\ loading = Idle /\ loading' = loading /\ saved' = saved
      /\ version' = [version EXCEPT ![s] = @ + 1]
  BY DEF DefineField, UndefineField
<1>2. SavedIsListed' /\ LoadedSoFar'
  BY <1>1 DEF LoadInv, SavedIsListed, ListsNames, LoadedSoFar
<1>3. Idle.into \notin Schemas
  BY IdleLoadsNothing
<1>4. HolesAreOld'
  <2>1. /\ version[s] \in Nat /\ version'[s] = version[s] + 1
        /\ \A x \in Schemas \ {s} : version'[x] = version[x]
    BY <1>1 DEF SchemaInv, Shape
  <2>2. \A x \in Schemas \ {s} : past'[x] = past[x]
    BY DEF DefineField, UndefineField, SchemaInv, Shape
  <2> QED BY <1>1, <1>3, <2>1, <2>2 DEF LoadInv, HolesAreOld
<1>5. TablesAreFinite'
  <2>1. ASSUME NEW t \in Types, DefineField(s, n, t) PROVE TablesAreFinite'
    BY <2>1, EnterTables DEF DefineField, LoadInv
  <2>2. ASSUME UndefineField(s, n) PROVE TablesAreFinite'
    <3>1. /\ idx'[s] = Without(idx[s], n) /\ declared'[s] = Without(declared[s], n)
          /\ \A x \in Schemas \ {s} : declared'[x] = declared[x] /\ idx'[x] = idx[x]
      BY <2>2 DEF UndefineField, SchemaInv, Shape
    <3>2. DOMAIN idx'[s] = DOMAIN idx[s] \ {n}
      BY <3>1 DEF Without
    <3>3. DOMAIN idx'[s] \subseteq Names /\ IsFiniteSet(DOMAIN idx'[s])
      <4>1. DOMAIN idx[s] \subseteq Names /\ IsFiniteSet(DOMAIN idx[s])
        BY DEF LoadInv, TablesAreFinite
      <4>2. IsFiniteSet(DOMAIN idx[s] \ {n})
        BY <4>1, FS_RemoveElement
      <4> QED BY <3>2, <4>1, <4>2
    <3>4. declared'[s] = [x \in DOMAIN declared'[s] |-> declared'[s][x]]
      BY <3>1 DEF Without
    <3> QED BY <3>1, <3>3, <3>4 DEF LoadInv, TablesAreFinite
  <2> QED BY <2>1, <2>2
<1> QED BY <1>2, <1>4, <1>5 DEF LoadInv

LEMMA SaveLists ==
  ASSUME SchemaInv, LoadInv, NEW s \in Schemas, Save(s)
  PROVE  LoadInv'
<1> DEFINE D == DOMAIN idx[s]
           o == InOrder(D)
           c == Cardinality(D)
<1>1. /\ loading = Idle /\ loading' = loading /\ idx' = idx /\ declared' = declared
      /\ version' = version /\ past' = past
      /\ types'[s] = With(types[s], [i \in {idx[s][n] : n \in D} |-> NoType])
      /\ saved'.declared = declared[s] /\ saved'.hole = ("hole" \in past[s])
      /\ saved'.fields = [i \in DOMAIN o |->
                            [name |-> o[i], type |-> types'[s][idx[s][o[i]]]]]
  BY DEF Save, SchemaInv, Shape
<1>2. TablesAreFinite' /\ HolesAreOld' /\ LoadedSoFar'
  BY <1>1 DEF LoadInv, TablesAreFinite, HolesAreOld, LoadedSoFar
<1>3. D \subseteq Names /\ IsFiniteSet(D)
  BY DEF LoadInv, TablesAreFinite
<1>4. /\ c \in Nat /\ o \in [1 .. c -> D]
      /\ \A n \in D : \E i \in 1 .. c : o[i] = n
  BY <1>3, InOrderLists
<1> HIDE DEF D, o, c
<1>5. /\ Len(saved'.fields) = c /\ DOMAIN o = 1 .. c
      /\ \A i \in 1 .. c : /\ saved'.fields[i].name = o[i] /\ o[i] \in D
                           /\ saved'.fields[i].type = types'[s][idx[s][o[i]]]
  <2>1. DOMAIN o = 1 .. c
    BY <1>4
  <2>2. Len(saved'.fields) = c
    BY <1>1, <1>4, <2>1
  <2>3. \A i \in 1 .. c : o[i] \in D
    BY <1>4
  <2>4. ASSUME NEW i \in 1 .. c
        PROVE  /\ saved'.fields[i].name = o[i] /\ o[i] \in D
               /\ saved'.fields[i].type = types'[s][idx[s][o[i]]]
    <3>1. saved'.fields[i] = [name |-> o[i], type |-> types'[s][idx[s][o[i]]]]
      BY <1>1, <2>1
    <3> QED BY <2>3, <3>1
  <2> QED BY <2>1, <2>2, <2>4
<1>6. ASSUME ~saved'.hole PROVE ListsNames'
  <2>1. Tight(s)
    BY <1>1, <1>6 DEF SchemaInv, TightUnshifted
  <2>2. DOMAIN declared[s] = D
    BY <2>1 DEF Tight, D
  <2>3. \A n \in D : types'[s][idx[s][n]] = declared[s][n]
    <3> SUFFICES ASSUME NEW n \in D PROVE types'[s][idx[s][n]] = declared[s][n]
      OBVIOUS
    <3>1. idx[s][n] \in DOMAIN types[s] /\ types[s][idx[s][n]] = declared[s][n]
      BY <2>1 DEF Tight, NamesLead, D
    <3>2. types'[s][idx[s][n]] = types[s][idx[s][n]]
      BY <1>1, <3>1 DEF With
    <3> QED BY <3>1, <3>2
  <2>4. declared[s] = [n \in DOMAIN declared[s] |-> declared[s][n]]
    BY DEF LoadInv, TablesAreFinite
  <2>5. saved'.declared = [n \in DOMAIN saved'.declared |-> saved'.declared[n]]
    BY SMTT(30), <1>1, <2>4
  <2>6. ASSUME NEW i \in 1 .. c
        PROVE  /\ saved'.fields[i].name \in DOMAIN saved'.declared
               /\ saved'.fields[i].type = saved'.declared[saved'.fields[i].name]
    <3>1. /\ saved'.fields[i].name = o[i] /\ o[i] \in D
          /\ saved'.fields[i].type = types'[s][idx[s][o[i]]]
      BY <1>5
    <3>2. types'[s][idx[s][o[i]]] = declared[s][o[i]]
      BY <2>3, <3>1
    <3> QED BY <1>1, <2>2, <3>1, <3>2
  <2>7. ASSUME NEW n \in DOMAIN saved'.declared
        PROVE  \E i \in 1 .. c : saved'.fields[i].name = n
    <3>1. PICK i \in 1 .. c : o[i] = n
      BY <1>1, <1>4, <2>2, <2>7
    <3> QED BY <1>5, <3>1
  <2> QED BY <1>5, <2>5, <2>6, <2>7 DEF ListsNames
<1>7. SavedIsListed'
  BY <1>3, <1>4, <1>5, <1>6 DEF SavedIsListed
<1> QED BY <1>2, <1>7 DEF LoadInv

LEMMA BeginLoadLists ==
  ASSUME SchemaInv, LoadInv, NEW s \in Schemas, BeginLoad(s)
  PROVE  LoadInv'
<1>1. /\ loading = Idle /\ loading' = [into |-> s, read |-> 0]
      /\ layout' = layout /\ idx' = idx /\ version' = version
      /\ declared' = declared /\ saved' = saved
      /\ past'[s] = past[s] \cup IF version[s] = 0 /\ layout[s] = <<>>
                                 THEN {} ELSE {"reread"}
      /\ \A x \in Schemas \ {s} : past'[x] = past[x]
  BY DEF BeginLoad, schemaVars, SchemaInv, Shape
<1>2. TablesAreFinite' /\ SavedIsListed'
  BY <1>1 DEF LoadInv, TablesAreFinite, SavedIsListed, ListsNames
<1>3. version[s] \in Nat /\ Idle.into \notin Schemas
  BY IdleLoadsNothing DEF SchemaInv, Shape
<1>4. ASSUME "reread" \notin past'[s]
      PROVE  "hole" \notin past'[s] /\ version[s] = 0 /\ layout[s] = <<>>
  <2>1. version[s] = 0 /\ layout[s] = <<>> /\ past'[s] = past[s]
    BY <1>1, <1>4
  <2> QED BY <1>4, <2>1 DEF LoadInv, HolesAreOld
<1>5. HolesAreOld'
  <2>1. loading'.into = s
    BY <1>1
  <2> QED BY <1>1, <1>4, <2>1 DEF LoadInv, HolesAreOld
<1>6. LoadedSoFar'
  <2> SUFFICES ASSUME "reread" \notin past'[s]
               PROVE  /\ 0 \in 0 .. Len(saved.fields)
                      /\ declared[s] = [n \in NamesRead(0) |-> saved.declared[n]]
    <3>1. loading'.into = s /\ loading'.read = 0
      BY <1>1
    <3> QED BY <1>1, <3>1 DEF LoadedSoFar, NamesRead
  <2>1. Tight(s) /\ layout[s] = <<>>
    BY <1>1, <1>4 DEF SchemaInv, TightUnshifted
  <2>2. DOMAIN declared[s] = {}
    <3>1. \A n \in DOMAIN idx[s] : idx[s][n] \in Nat /\ idx[s][n] < 0
      BY <2>1 DEF Tight, NamesLead, SchemaInv, Shape
    <3> QED BY <2>1, <3>1 DEF Tight
  <2>3. declared[s] = [n \in DOMAIN declared[s] |-> declared[s][n]]
    BY DEF LoadInv, TablesAreFinite
  <2>4. NamesRead(0) = {}
    BY DEF NamesRead
  <2>5. Len(saved.fields) \in Nat
    BY DEF LoadInv, SavedIsListed
  <2>6. declared[s] = [n \in {} |-> declared[s][n]]
    BY <2>2, <2>3
  <2>7. [n \in {} |-> declared[s][n]] = [n \in {} |-> saved.declared[n]]
    OBVIOUS
  <2> QED BY <2>4, <2>5, <2>6, <2>7
<1> QED BY <1>2, <1>5, <1>6 DEF LoadInv

LEMMA LoadFieldLists ==
  ASSUME SchemaInv, LoadInv, LoadField
  PROVE  LoadInv'
<1> DEFINE s == loading.into
           r == loading.read
           f == saved.fields[r + 1]
<1>1. loading # Idle /\ s \in Schemas /\ r \in Nat /\ r < Len(saved.fields)
  BY DEF LoadField, SchemaInv, Shape
<1>2. /\ Enter(s, f.name, f.type) /\ saved' = saved /\ past' = past
      /\ version' = [version EXCEPT ![s] = @ + 1]
      /\ loading' = [loading EXCEPT !.read = @ + 1]
  BY DEF LoadField
<1>3. /\ loading'.into = s /\ loading'.read = r + 1
      /\ version'[s] = version[s] + 1 /\ version[s] \in Nat
      /\ \A x \in Schemas \ {s} : version'[x] = version[x]
  BY <1>1, <1>2 DEF SchemaInv, Shape
<1>4. Len(saved.fields) \in Nat /\ r + 1 \in 1 .. Len(saved.fields) /\ f.name \in Names
  <2>1. Len(saved.fields) \in Nat
    BY DEF LoadInv, SavedIsListed
  <2>2. r + 1 \in 1 .. Len(saved.fields)
    BY <1>1, <2>1
  <2> QED BY <2>1, <2>2 DEF LoadInv, SavedIsListed
<1> HIDE DEF s, r, f
<1>5. /\ TablesAreFinite'
      /\ declared'[s] = With([x \in {f.name} |-> f.type], declared[s])
  BY <1>1, <1>2, <1>4, EnterTables DEF LoadInv
<1>6. SavedIsListed'
  BY <1>2 DEF LoadInv, SavedIsListed, ListsNames
<1>7. HolesAreOld'
  <2>1. \A x \in Schemas : "hole" \in past[x] /\ "reread" \notin past[x] =>
                              version[x] > 0 /\ x # s
    BY DEF LoadInv, HolesAreOld, s
  <2> QED BY <1>2, <1>3, <2>1 DEF HolesAreOld
<1>8. LoadedSoFar'
  <2> SUFFICES ASSUME ~saved.hole, "reread" \notin past[s]
               PROVE  /\ r + 1 \in 0 .. Len(saved.fields)
                      /\ declared'[s] =
                           [n \in NamesRead(r + 1) |-> saved.declared[n]]
    <3>1. NamesRead(loading.read)' = {saved'.fields[i].name : i \in 1 .. loading'.read}
      BY DEF NamesRead
    <3>2. NamesRead(loading.read)' = NamesRead(r + 1)
      BY <1>2, <1>3, <3>1 DEF NamesRead
    <3> QED BY <1>2, <1>3, <3>2 DEF LoadedSoFar
  <2>1. declared[s] = [n \in NamesRead(r) |-> saved.declared[n]]
    BY <1>1 DEF LoadInv, LoadedSoFar, s, r
  <2>2. f.type = saved.declared[f.name]
    BY <1>4 DEF LoadInv, SavedIsListed, ListsNames, f
  <2>3. NamesRead(r + 1) = NamesRead(r) \cup {f.name}
    <3>1. 1 .. r + 1 = (1 .. r) \cup {r + 1}
      BY <1>1
    <3> QED BY <3>1 DEF NamesRead, f
  <2>4. DOMAIN declared'[s] = NamesRead(r + 1)
    BY <1>5, <2>1, <2>3 DEF With
  <2>5. \A n \in NamesRead(r + 1) : declared'[s][n] = saved.declared[n]
    BY <1>5, <2>1, <2>2, <2>3 DEF With
  <2>6. declared'[s] = [n \in DOMAIN declared'[s] |-> declared'[s][n]]
    BY <1>1, <1>5 DEF TablesAreFinite
  <2> QED BY <1>4, <2>4, <2>5, <2>6
<1> QED BY <1>5, <1>6, <1>7, <1>8 DEF LoadInv

LEMMA LoadEndLists ==
  ASSUME SchemaInv, LoadInv, LoadThrows \/ EndLoad
  PROVE  LoadInv'
<1> DEFINE s == loading.into
<1>1. /\ s \in Schemas /\ loading' = Idle /\ idx' = idx /\ declared' = declared
      /\ saved' = saved /\ past' = past
      /\ \A x \in Schemas \ {s} : version'[x] = version[x]
  BY DEF LoadThrows, EndLoad, schemaVars, SchemaInv, Shape
<1>2. TablesAreFinite' /\ SavedIsListed' /\ LoadedSoFar'
  BY <1>1 DEF LoadInv, TablesAreFinite, SavedIsListed, ListsNames, LoadedSoFar
<1>3. HolesAreOld'
  <2>1. \A x \in Schemas : "hole" \in past[x] /\ "reread" \notin past[x] =>
                              version[x] > 0 /\ x # s
    BY DEF LoadInv, HolesAreOld
  <2>2. Idle.into \notin Schemas
    BY IdleLoadsNothing
  <2> HIDE DEF s
  <2> QED BY <1>1, <2>1, <2>2 DEF HolesAreOld
<1> QED BY <1>2, <1>3 DEF LoadInv

LEMMA LoadInvFrame ==
  ASSUME LoadInv,
         UNCHANGED <<idx, declared, version, saved, loading, past>>
  PROVE  LoadInv'
BY DEF LoadInv, TablesAreFinite, SavedIsListed, ListsNames, HolesAreOld,
       LoadedSoFar, NamesRead

LEMMA LoadInvNext == SchemaInv /\ LoadInv /\ [SchemaNext]_recordVars => LoadInv'
<1> SUFFICES ASSUME SchemaInv, LoadInv, [SchemaNext]_recordVars PROVE LoadInv'
  OBVIOUS
<1>1. ASSUME NEW s \in Schemas, NEW n \in Names,
             (\E t \in Types : DefineField(s, n, t)) \/ UndefineField(s, n)
      PROVE  LoadInv'
  BY <1>1, DefineLists
<1>2. ASSUME NEW s \in Schemas, Save(s) \/ BeginLoad(s) PROVE LoadInv'
  BY <1>2, SaveLists, BeginLoadLists
<1>3. CASE LoadField \/ LoadThrows \/ EndLoad
  BY <1>3, LoadFieldLists, LoadEndLists
<1>4. ASSUME NEW r \in Records, NEW s \in Schemas, Make(r, s) PROVE LoadInv'
  BY <1>4, LoadInvFrame DEF Make, schemaVars
<1>5. ASSUME NEW r \in Records, NEW q \in Records, Assign(r, q) \/ CopyConstruct(r, q)
      PROVE  LoadInv'
  BY <1>5, LoadInvFrame DEF Assign, CopyConstruct, schemaVars
<1>6. CASE UNCHANGED recordVars
  BY <1>6, LoadInvFrame DEF recordVars, schemaVars
<1> QED BY <1>1, <1>2, <1>3, <1>4, <1>5, <1>6 DEF SchemaNext

LEMMA EndLoadLists ==
  ASSUME SchemaInv, LoadInv, EndLoad, ~saved.hole, "reread" \notin past[loading.into]
  PROVE  /\ version'[loading.into] = saved.version
         /\ declared[loading.into] = saved.declared
<1> DEFINE s == loading.into
           r == loading.read
<1>1. loading # Idle /\ s \in Schemas /\ r = Len(saved.fields)
  BY DEF EndLoad, SchemaInv, Shape
<1>2. version'[s] = saved.version
  BY <1>1 DEF EndLoad, SchemaInv, Shape
<1>3. declared[s] = [n \in NamesRead(r) |-> saved.declared[n]]
  BY <1>1 DEF LoadInv, LoadedSoFar
<1>4. NamesRead(r) = DOMAIN saved.declared
  BY <1>1 DEF LoadInv, SavedIsListed, ListsNames, NamesRead
<1>5. saved.declared = [n \in DOMAIN saved.declared |-> saved.declared[n]]
  BY DEF LoadInv, SavedIsListed, ListsNames
<1> HIDE DEF s, r
<1> QED BY <1>2, <1>3, <1>4, <1>5 DEF s

(* A schema that was written while its names led to their fields, and read *)
(* into a new one, has the same names, types and version, for any number   *)
(* of names, in the order of the map (operator<< and operator>>,           *)
(* rschema.cpp:6-48).                                                      *)
THEOREM LoadedSchemaIsSaved == SchemaSpec => LoadedIsSaved
<1>1. SchemaInv /\ LoadInv /\ [SchemaNext]_recordVars =>
        [EndLoad /\ ~saved.hole /\ "reread" \notin past[loading.into] =>
           /\ version'[loading.into] = saved.version
           /\ declared[loading.into] = saved.declared]_recordVars
  BY EndLoadLists
<1> QED BY <1>1, LoadInvInit, LoadInvNext, InvHolds, PTL DEF SchemaSpec, LoadedIsSaved

-----------------------------------------------------------------------------
(* Record streams.                                                         *)

(* Proved of clients that keep to one form of getrecord.                   *)
OneForm == \A c \in Clients : "copy" \notin c \/ "pointer" \notin c

(* What was put out of a record that is not complete, and where the record *)
(* began.                                                                  *)
PartOut == record \o (IF pc = "copy" THEN piece ELSE <<>>)
Behind == gptr - Len(PartOut)

(* The pattern stands right behind place g.                                *)
Match(g) == SubSeq(text, g + 1, g + P) = pattern
NoMatch(from, to) == \A g \in from .. to : g + P <= Len(text) => ~Match(g)

(* Where the reference has the patterns, and the records behind them.      *)
Rest == SubSeq(text, base + 1, Len(text))
Places == Occurrences(asked, Rest)
Begins(i) == base + Places[i] + P - 1

-----------------------------------------------------------------------------
(* The inductive invariant.                                                *)

Characters == Letters \cup {Nul}

(* The read position is in the get area and that is in the text.           *)
PlacesAreSound ==
  /\ text \in Texts
  /\ egptr \in 0 .. Len(text) /\ gptr \in 0 .. egptr
  /\ egptr - gptr <= Chunk /\ (gptr = egptr => gptr = Len(text))
  /\ Len(text) <= Chunk => egptr = Len(text)
  /\ base \in 0 .. gptr /\ start \in 0 .. Len(text)

ValuesAreSound ==
  /\ client \in Clients /\ asked \in Patterns /\ isOpen \in BOOLEAN
  /\ pattern \in Seq(Characters) /\ P >= 2 /\ P >= Len(asked)
  /\ eof \in BOOLEAN /\ failed \in BOOLEAN
  /\ found \in BOOLEAN /\ lost \in BOOLEAN
  /\ state \in {"INITED", "PMATCH", "UNINITED"}
  /\ pc \in {"idle", "copy", "pointer"}
  /\ searching \in Nat /\ room \in Nat /\ off \in Nat
  /\ pc = "copy" => off <= room
  /\ maxRec \in Nat /\ distance \in Int
  /\ record \in Seq(Letters) /\ piece \in Seq(Letters)
  /\ records \in Seq(Seq(Letters))

StreamIsSound == PlacesAreSound /\ ValuesAreSound

(* Only the copying form reads and meets the end, and a closed file is     *)
(* empty.                                                                  *)
CallIsSound ==
  /\ pc = "copy" => "copy" \in client /\ ~eof /\ ~failed
  /\ pc = "pointer" => "pointer" \in client
  /\ "copy" \notin client => gptr = base /\ ~eof
  /\ "open" \notin client => isOpen
  /\ ~isOpen => text = <<>> /\ state # "PMATCH"
  /\ eof /\ ~lost => gptr = Len(text)

(* No record before the first pattern.                                     *)
NothingBefore ==
  state # "PMATCH" =>
    /\ records = <<>> /\ record = <<>> /\ searching = 0
    /\ pc = "copy" => piece = <<>>

(* What was put out of a record is the text before the read position.      *)
PartIsText ==
  state = "PMATCH" /\ ~lost /\ "copy" \in client =>
    /\ start <= gptr
    /\ eof => pc = "idle" /\ record = <<>> /\ ~failed
    /\ ~eof => /\ Len(PartOut) <= gptr
               /\ PartOut = SubSeq(text, Behind + 1, gptr)

(* The records so far are those of the reference, and the next one of the  *)
(* reference begins behind place b.                                        *)
Reached(b) ==
  /\ Len(records) < Len(Places) /\ b = Begins(Len(records) + 1)
  /\ \A i \in 1 .. Len(records) : records[i] = Reference[i]

CopiesReference ==
  InView /\ "copy" \in client =>
    /\ state # "PMATCH" /\ ~eof => gptr = base
    /\ state # "PMATCH" /\ eof => Len(Places) = 0
    /\ state = "PMATCH" /\ ~eof => Reached(Behind) /\ NoMatch(Behind, gptr - 1)
    /\ state = "PMATCH" /\ eof =>
         /\ Len(records) = Len(Places)
         /\ \A i \in 1 .. Len(records) : records[i] = Reference[i]

PointsToReference ==
  InView /\ "pointer" \in client /\ state = "PMATCH" =>
    /\ Reached(PtrHead)
    /\ ~found => NoMatch(PtrHead, Len(text))
    /\ pc = "idle" /\ failed => ~found /\ distance = egptr - PtrHead

(* A call to point was not begun after a failure, only calls find records, *)
(* and copying fails before the first pattern only when there is no file.  *)
CallsAreKept ==
  /\ pc = "pointer" => ~failed
  /\ state = "PMATCH" => "copy" \in client \/ "pointer" \in client
  /\ state # "PMATCH" /\ failed /\ ~lost /\ "copy" \in client => text = <<>>

Inv ==
  /\ StreamIsSound /\ CallIsSound /\ NothingBefore /\ CallsAreKept
  /\ PartIsText /\ PiecesInOrder
  /\ CopiesReference /\ PointsToReference

-----------------------------------------------------------------------------
(* The recursive functions of the reference exist.                         *)

LEMMA JoinedExists ==
  ASSUME NEW q, NEW rs, NEW n \in Nat
  PROVE  \E g : g = [i \in 0 .. n |-> IF i = 0 THEN <<>> ELSE WithRecord(q, rs[i], g[i - 1])]
<1> DEFINE Is(g, m) == g = [i \in 0 .. m |-> IF i = 0 THEN <<>> ELSE WithRecord(q, rs[i], g[i - 1])]
           S == {m \in 0 .. n : \E g : Is(g, m)}
<1>1. 0 \in S
  <2>1. Is([i \in 0 .. 0 |-> <<>>], 0)
    OBVIOUS
  <2> HIDE DEF Is
  <2>2. \E g : Is(g, 0)
    BY <2>1
  <2> QED BY <2>2
<1>2. ASSUME NEW m \in 1 .. n, m - 1 \in S PROVE m \in S
  <2>1. PICK g : Is(g, m - 1)
    BY <1>2
  <2> DEFINE h == [i \in 0 .. m |-> IF i = 0 THEN <<>> ELSE WithRecord(q, rs[i], g[i - 1])]
  <2>2. \A i \in 0 .. m - 1 : h[i] = g[i]
    BY <2>1
  <2>3. \A i \in 1 .. m : i - 1 \in 0 .. m - 1
    OBVIOUS
  <2>4. Is(h, m)
    BY SMTT(30), <2>2, <2>3
  <2> HIDE DEF Is
  <2>5. \E gg : Is(gg, m)
    BY <2>4
  <2> QED BY <2>5
<1>3. n \in S
  <2> HIDE DEF S
  <2> QED BY <1>1, <1>2, UpTo
<1> QED BY <1>3

LEMMA JoinedUpToDef ==
  ASSUME NEW q, NEW rs, Len(rs) \in Nat
  PROVE  JoinedUpTo(q, rs) =
           [i \in 0 .. Len(rs) |->
              IF i = 0 THEN <<>> ELSE WithRecord(q, rs[i], JoinedUpTo(q, rs)[i - 1])]
BY JoinedExists DEF JoinedUpTo

LEMMA OccurrencesExist ==
  ASSUME NEW q, NEW t, NEW n \in Nat
  PROVE  \E g : g = [i \in 0 .. n |-> IF i = 0 THEN <<>> ELSE WithPlace(q, t, g[i - 1], i)]
<1> DEFINE Is(g, m) == g = [i \in 0 .. m |-> IF i = 0 THEN <<>> ELSE WithPlace(q, t, g[i - 1], i)]
           S == {m \in 0 .. n : \E g : Is(g, m)}
<1>1. 0 \in S
  <2>1. Is([i \in 0 .. 0 |-> <<>>], 0)
    OBVIOUS
  <2> HIDE DEF Is
  <2>2. \E g : Is(g, 0)
    BY <2>1
  <2> QED BY <2>2
<1>2. ASSUME NEW m \in 1 .. n, m - 1 \in S PROVE m \in S
  <2>1. PICK g : Is(g, m - 1)
    BY <1>2
  <2> DEFINE h == [i \in 0 .. m |-> IF i = 0 THEN <<>> ELSE WithPlace(q, t, g[i - 1], i)]
  <2>2. \A i \in 0 .. m - 1 : h[i] = g[i]
    BY <2>1
  <2>3. \A i \in 1 .. m : i - 1 \in 0 .. m - 1
    OBVIOUS
  <2>4. Is(h, m)
    BY SMTT(30), <2>2, <2>3
  <2> HIDE DEF Is
  <2>5. \E gg : Is(gg, m)
    BY <2>4
  <2> QED BY <2>5
<1>3. n \in S
  <2> HIDE DEF S
  <2> QED BY <1>1, <1>2, UpTo
<1> QED BY <1>3

LEMMA OccurrencesUpToDef ==
  ASSUME NEW q, NEW t, Len(t) \in Nat
  PROVE  OccurrencesUpTo(q, t) =
           [i \in 0 .. Len(t) |->
              IF i = 0 THEN <<>> ELSE WithPlace(q, t, OccurrencesUpTo(q, t)[i - 1], i)]
BY OccurrencesExist DEF OccurrencesUpTo
-----------------------------------------------------------------------------
(* Joining records.                                                        *)

LEMMA JoinedEmpty == ASSUME NEW q PROVE Joined(q, <<>>) = <<>>
BY JoinedUpToDef DEF Joined

LEMMA JoinedIsText ==
  ASSUME NEW C, NEW q \in Seq(C), NEW rs \in Seq(Seq(C))
  PROVE  \A i \in 0 .. Len(rs) : JoinedUpTo(q, rs)[i] \in Seq(C)
<1> DEFINE f == JoinedUpTo(q, rs)
           n == Len(rs)
           S == {i \in 0 .. n : f[i] \in Seq(C)}
<1>1. n \in Nat /\ \A i \in 1 .. n : rs[i] \in Seq(C)
  BY LenProperties, ElementOfSeq
<1>2. \A i \in 0 .. n : f[i] = IF i = 0 THEN <<>> ELSE WithRecord(q, rs[i], f[i - 1])
  BY <1>1, JoinedUpToDef
<1> HIDE DEF f, n
<1>3. 0 \in S
  <2>1. 0 \in 0 .. n
    BY <1>1
  <2>2. f[0] = <<>>
    BY <1>2, <2>1
  <2> QED BY <2>1, <2>2, EmptySeq
<1>4. ASSUME NEW i \in 1 .. n, i - 1 \in S PROVE i \in S
  <2>1. f[i] = WithRecord(q, rs[i], f[i - 1])
    BY <1>1, <1>2
  <2>2. f[i - 1] \in Seq(C)
    BY <1>4
  <2>3. q \o rs[i] \in Seq(C)
    BY <1>1, ConcatProperties
  <2>4. WithRecord(q, rs[i], f[i - 1]) \in Seq(C)
    BY <2>2, <2>3, ConcatProperties DEF WithRecord
  <2> QED BY <2>1, <2>4
<1>5. 0 .. n \subseteq S
  <2> HIDE DEF S
  <2> QED BY <1>1, <1>3, <1>4, UpTo
<1> QED BY <1>5 DEF f, n

LEMMA JoinedAppend ==
  ASSUME NEW C, NEW q \in Seq(C), NEW rs \in Seq(Seq(C)), NEW r \in Seq(C)
  PROVE  /\ Joined(q, rs) \in Seq(C)
         /\ Joined(q, Append(rs, r)) = Joined(q, rs) \o (q \o r)
<1> DEFINE more == Append(rs, r)
           f == JoinedUpTo(q, rs)
           g == JoinedUpTo(q, more)
           n == Len(rs)
           S == {i \in 0 .. n : f[i] = g[i]}
<1>1. n \in Nat
  BY LenProperties
<1>2. /\ Len(more) = n + 1 /\ more[n + 1] = r
      /\ \A i \in 1 .. n : more[i] = rs[i]
  BY AppendProperties
<1>3. \A i \in 0 .. n : f[i] = IF i = 0 THEN <<>> ELSE WithRecord(q, rs[i], f[i - 1])
  BY <1>1, JoinedUpToDef
<1>4. \A i \in 0 .. n + 1 : g[i] = IF i = 0 THEN <<>> ELSE WithRecord(q, more[i], g[i - 1])
  <2> HIDE DEF more
  <2>1. Len(more) \in Nat /\ Len(more) = n + 1
    BY <1>1, <1>2
  <2>2. g = [i \in 0 .. Len(more) |->
               IF i = 0 THEN <<>> ELSE WithRecord(q, more[i], g[i - 1])]
    BY <2>1, JoinedUpToDef
  <2> HIDE DEF g
  <2> QED BY <2>1, <2>2
<1>5. Joined(q, rs) = f[n] /\ f[n] \in Seq(C)
  BY <1>1, JoinedIsText DEF Joined
<1>6. Joined(q, more) = g[n + 1]
  BY <1>2 DEF Joined
<1> HIDE DEF f, g, n, more
<1>7. 0 \in S
  <2>1. 0 \in 0 .. n /\ 0 \in 0 .. n + 1
    BY <1>1
  <2>2. f[0] = <<>> /\ g[0] = <<>>
    BY <1>3, <1>4, <2>1
  <2> QED BY <2>1, <2>2
<1>8. ASSUME NEW i \in 1 .. n, i - 1 \in S PROVE i \in S
  <2>1. f[i] = WithRecord(q, rs[i], f[i - 1])
    BY <1>1, <1>3
  <2>2. g[i] = WithRecord(q, more[i], g[i - 1])
    BY <1>1, <1>4
  <2>3. f[i - 1] = g[i - 1] /\ more[i] = rs[i]
    BY <1>2, <1>8
  <2> QED BY <2>1, <2>2, <2>3
<1>9. 0 .. n \subseteq S
  <2> HIDE DEF S
  <2> QED BY <1>1, <1>7, <1>8, UpTo
<1>10. g[n + 1] = WithRecord(q, r, f[n])
  <2>1. g[n + 1] = WithRecord(q, more[n + 1], g[(n + 1) - 1])
    BY <1>1, <1>4
  <2>2. (n + 1) - 1 = n /\ n \in 0 .. n
    BY <1>1
  <2>3. g[n] = f[n]
    BY <1>9, <2>2
  <2> QED BY <1>2, <2>1, <2>2, <2>3
<1> QED BY <1>5, <1>6, <1>10 DEF WithRecord, more

-----------------------------------------------------------------------------
(* Occurrences are taken greedily, from left to right.                     *)

MatchesAt(q, t, i) == SubSeq(t, i, i + Len(q) - 1) = q

(* Up to place n, `at' begins with the first match, goes on with the first *)
(* one behind each, and ends where none is left.                           *)
Greedy(q, t, at, n) ==
  /\ at \in Seq(Nat)
  /\ \A j \in 1 .. Len(at) : at[j] \in 1 .. n /\ MatchesAt(q, t, at[j])
  /\ \A j \in 1 .. Len(at) - 1 : at[j] + Len(q) <= at[j + 1]
  /\ \A i \in 1 .. n : MatchesAt(q, t, i) => Len(at) > 0 /\ at[1] <= i
  /\ \A j \in 1 .. Len(at) - 1 :
       \A i \in at[j] + Len(q) .. at[j + 1] - 1 : ~MatchesAt(q, t, i)
  /\ Len(at) > 0 =>
       \A i \in at[Len(at)] + Len(q) .. n : ~MatchesAt(q, t, i)

LEMMA GreedyStep ==
  ASSUME NEW q, Len(q) \in Nat \ {0}, NEW t, NEW before, NEW n \in Nat \ {0},
         Greedy(q, t, before, n - 1)
  PROVE  Greedy(q, t, WithPlace(q, t, before, n), n)
<1> DEFINE m == Len(before)
           last == before[m]
           free == before = <<>> \/ last + Len(q) <= n
<1>1. before \in Seq(Nat) /\ m \in Nat
  BY LenProperties DEF Greedy
<1>2. \A j \in 1 .. m : before[j] \in 1 .. n - 1 /\ before[j] \in Nat
  BY DEF Greedy
<1>3. before = <<>> <=> m = 0
  BY <1>1, EmptySeq
<1>4. CASE ~MatchesAt(q, t, n)
  <2>1. WithPlace(q, t, before, n) = before
    BY <1>4 DEF WithPlace, MatchesAt
  <2>2. \A i \in 1 .. n : MatchesAt(q, t, i) => i \in 1 .. n - 1
    BY <1>4
  <2> QED BY <1>1, <1>2, <2>1, <2>2 DEF Greedy
<1>5. CASE MatchesAt(q, t, n) /\ ~free
  <2>1. WithPlace(q, t, before, n) = before
    BY <1>5 DEF WithPlace, MatchesAt
  <2>2. m > 0 /\ last \in 1 .. n - 1 /\ last + Len(q) > n
    BY <1>1, <1>2, <1>3, <1>5
  <2>3. before[1] \in 1 .. n - 1
    BY <1>1, <1>2, <2>2
  <2>4. \A i \in 1 .. n : MatchesAt(q, t, i) => m > 0 /\ before[1] <= i
    <3> TAKE i \in 1 .. n
    <3>1. CASE i = n BY <2>2, <2>3, <3>1
    <3>2. CASE i \in 1 .. n - 1 BY <3>2 DEF Greedy
    <3> QED BY <3>1, <3>2
  <2>5. \A i \in last + Len(q) .. n : ~MatchesAt(q, t, i)
    BY <2>2
  <2>6. \A j \in 1 .. m : before[j] \in 1 .. n
    BY <1>2
  <2>7. Greedy(q, t, before, n)
    BY <2>4, <2>5, <2>6 DEF Greedy
  <2> QED BY <2>1, <2>7
<1>6. CASE MatchesAt(q, t, n) /\ free
  <2> DEFINE at == Append(before, n)
  <2>1. WithPlace(q, t, before, n) = at
    BY <1>6 DEF WithPlace, MatchesAt
  <2>2. /\ at \in Seq(Nat) /\ Len(at) = m + 1 /\ at[m + 1] = n
        /\ \A j \in 1 .. m : at[j] = before[j]
    BY <1>1, AppendProperties
  <2> HIDE DEF at
  <2>3. \A j \in 1 .. Len(at) : at[j] \in 1 .. n /\ MatchesAt(q, t, at[j])
    <3> TAKE j \in 1 .. Len(at)
    <3>1. CASE j = m + 1 BY <1>6, <2>2, <3>1
    <3>2. CASE j \in 1 .. m
      <4>1. before[j] \in 1 .. n - 1 /\ MatchesAt(q, t, before[j])
        BY <3>2 DEF Greedy
      <4> QED BY <2>2, <3>2, <4>1
    <3> QED BY <1>1, <2>2, <3>1, <3>2
  <2>4. \A j \in 1 .. m : j = m => last + Len(q) <= n
    BY <1>3, <1>6
  <2>5. \A j \in 1 .. Len(at) - 1 : at[j] + Len(q) <= at[j + 1]
    <3> TAKE j \in 1 .. Len(at) - 1
    <3>1. CASE j = m BY SMTT(30), <1>1, <2>2, <2>4, <3>1
    <3>2. CASE j \in 1 .. m - 1
      <4>1. before[j] + Len(q) <= before[j + 1] BY <3>2 DEF Greedy
      <4>2. j \in 1 .. m /\ j + 1 \in 1 .. m BY <1>1, <3>2
      <4>3. at[j] = before[j] /\ at[j + 1] = before[j + 1]
        BY <2>2, <4>2
      <4> QED BY <4>1, <4>3
    <3> QED BY <1>1, <2>2, <3>1, <3>2
  <2>6. \A i \in 1 .. n : MatchesAt(q, t, i) => Len(at) > 0 /\ at[1] <= i
    <3> TAKE i \in 1 .. n
    <3>1. CASE m = 0
      <4>1. ~MatchesAt(q, t, i) \/ i = n BY <3>1 DEF Greedy
      <4> QED BY <2>2, <3>1, <4>1
    <3>2. CASE m > 0
      <4>1. at[1] = before[1] /\ before[1] \in 1 .. n - 1 BY <1>1, <1>2, <2>2, <3>2
      <4>2. CASE i = n BY <1>1, <2>2, <4>1, <4>2
      <4>3. CASE i \in 1 .. n - 1 BY <1>1, <2>2, <4>1, <4>3 DEF Greedy
      <4> QED BY <4>2, <4>3
    <3> QED BY <1>1, <3>1, <3>2
  <2>7. \A j \in 1 .. Len(at) - 1 :
          \A i \in at[j] + Len(q) .. at[j + 1] - 1 : ~MatchesAt(q, t, i)
    <3> TAKE j \in 1 .. Len(at) - 1
    <3>1. CASE j = m
      <4>1. m > 0 /\ at[j] = last /\ at[j + 1] = n BY <1>1, <2>2, <3>1
      <4>2. \A i \in last + Len(q) .. n - 1 : ~MatchesAt(q, t, i)
        BY <4>1 DEF Greedy
      <4> QED BY <4>1, <4>2
    <3>2. CASE j \in 1 .. m - 1
      <4>1. \A i \in before[j] + Len(q) .. before[j + 1] - 1 : ~MatchesAt(q, t, i)
        BY <3>2 DEF Greedy
      <4>2. j \in 1 .. m /\ j + 1 \in 1 .. m BY <1>1, <3>2
      <4> QED BY <2>2, <4>1, <4>2
    <3>3. j = m \/ j \in 1 .. m - 1
      BY <1>1, <2>2
    <3> QED BY <3>1, <3>2, <3>3
  <2>8. \A i \in at[Len(at)] + Len(q) .. n : ~MatchesAt(q, t, i)
    BY <1>1, <2>2
  <2> QED BY <2>1, <2>2, <2>3, <2>5, <2>6, <2>7, <2>8 DEF Greedy
<1> QED BY <1>4, <1>5, <1>6
LEMMA OccurrencesAreGreedy ==
  ASSUME NEW q, Len(q) \in Nat \ {0}, NEW t, Len(t) \in Nat
  PROVE  Greedy(q, t, Occurrences(q, t), Larger(0, Len(t) - Len(q) + 1))
<1> DEFINE f == OccurrencesUpTo(q, t)
           n == Len(t)
           S == {i \in 0 .. n : Greedy(q, t, f[i], i)}
<1>1. \A i \in 0 .. n : f[i] = IF i = 0 THEN <<>> ELSE WithPlace(q, t, f[i - 1], i)
  BY OccurrencesUpToDef
<1>2. Occurrences(q, t) = f[Larger(0, n - Len(q) + 1)]
  BY DEF Occurrences
<1> HIDE DEF f
<1>3. 0 \in S
  <2>1. f[0] = <<>>
    BY <1>1
  <2>2. <<>> \in Seq(Nat) /\ Len(<<>>) = 0
    BY EmptySeq
  <2>3. Greedy(q, t, <<>>, 0)
    BY <2>2 DEF Greedy
  <2> QED BY <2>1, <2>3
<1>4. ASSUME NEW i \in 1 .. n, i - 1 \in S PROVE i \in S
  <2>1. Greedy(q, t, f[i - 1], i - 1)
    BY <1>4
  <2>2. Greedy(q, t, WithPlace(q, t, f[i - 1], i), i)
    BY <2>1, GreedyStep
  <2>3. f[i] = WithPlace(q, t, f[i - 1], i)
    BY <1>1
  <2> QED BY <2>2, <2>3
<1>5. 0 .. n \subseteq S
  <2> HIDE DEF S
  <2> QED BY <1>3, <1>4, UpTo
<1>6. Larger(0, n - Len(q) + 1) \in 0 .. n
  BY DEF Larger
<1> QED BY <1>2, <1>5, <1>6

(* What is behind place b of t, by its places in t.                        *)
LEMMA PieceOfRest ==
  ASSUME NEW t \in Seq(Letters), NEW b \in 0 .. Len(t),
         NEW i \in Nat \ {0}, NEW j \in Nat, i <= j + 1, j <= Len(t) - b
  PROVE  SubSeq(SubSeq(t, b + 1, Len(t)), i, j) = SubSeq(t, b + i, b + j)
<1> DEFINE rest == SubSeq(t, b + 1, Len(t))
           u == SubSeq(rest, i, j)
           v == SubSeq(t, b + i, b + j)
<1>1. Len(t) \in Nat /\ \A k \in 1 .. Len(t) : t[k] \in Letters
  BY LenProperties, ElementOfSeq
<1>2. \A k \in 1 .. Len(t) - b : rest[k] = t[b + k]
  <2>1. \A k \in b + 1 .. Len(t) : t[k] \in Letters
    BY <1>1
  <2>2. \A k \in 1 .. Len(t) - b : (b + 1) + k - 1 = b + k
    BY <1>1
  <2>3. \A k \in 1 .. Len(t) - (b + 1) + 1 :
          SubSeq(t, b + 1, Len(t))[k] = t[(b + 1) + k - 1]
    BY <1>1, <2>1, SubSeqProperties
  <2> QED BY <1>1, <2>2, <2>3
<1> HIDE DEF rest
<1>3. /\ \A k \in i .. j : k \in 1 .. Len(t) - b
      /\ \A k \in i .. j : b + k \in 1 .. Len(t)
      /\ \A k \in b + i .. b + j : k \in 1 .. Len(t)
  BY <1>1
<1>4. /\ \A k \in i .. j : rest[k] \in Letters
      /\ \A k \in b + i .. b + j : t[k] \in Letters
  BY <1>1, <1>2, <1>3
<1>5. i \in Int /\ j \in Int /\ b + i \in Int /\ b + j \in Int
  BY <1>1
<1>6. /\ u \in Seq(Letters) /\ Len(u) = IF i <= j THEN j - i + 1 ELSE 0
      /\ \A k \in 1 .. j - i + 1 : u[k] = rest[i + k - 1]
  <2>1. i \in Int /\ j \in Int /\ \A k \in i .. j : rest[k] \in Letters
    BY <1>4, <1>5
  <2> QED BY <2>1, SubSeqProperties
<1>7. /\ v \in Seq(Letters)
      /\ Len(v) = IF b + i <= b + j THEN (b + j) - (b + i) + 1 ELSE 0
      /\ \A k \in 1 .. (b + j) - (b + i) + 1 : v[k] = t[(b + i) + k - 1]
  <2> DEFINE x == b + i
             y == b + j
  <2>1. x \in Int /\ y \in Int /\ \A k \in x .. y : t[k] \in Letters
    BY <1>4, <1>5
  <2>2. v = SubSeq(t, x, y)
    OBVIOUS
  <2> HIDE DEF x, y, v
  <2>3. /\ SubSeq(t, x, y) \in Seq(Letters)
        /\ Len(SubSeq(t, x, y)) = IF x <= y THEN y - x + 1 ELSE 0
        /\ \A k \in 1 .. y - x + 1 : SubSeq(t, x, y)[k] = t[x + k - 1]
    BY <2>1, SubSeqProperties
  <2> QED BY <2>2, <2>3 DEF x, y
<1> HIDE DEF u, v
<1>8. Len(u) = j - i + 1 /\ Len(v) = j - i + 1
  BY <1>1, <1>6, <1>7
<1>9. ASSUME NEW k \in 1 .. j - i + 1 PROVE u[k] = v[k]
  <2>1. u[k] = rest[i + k - 1] /\ v[k] = t[(b + i) + k - 1]
    BY <1>1, <1>6, <1>7
  <2>2. i + k - 1 \in 1 .. Len(t) - b /\ b + (i + k - 1) = (b + i) + k - 1
    BY <1>1
  <2> QED BY <1>2, <2>1, <2>2
<1>10. u = v
  BY <1>6, <1>7, <1>8, <1>9, SeqEqual
<1> QED BY <1>10 DEF u, v, rest

(* The same in places of the whole text t, of which all behind b is cut:   *)
(* the first record begins behind the first match, and a record ends where *)
(* the first match behind its beginning stands.                            *)
Followed(q, t, b) ==
  LET rest == SubSeq(t, b + 1, Len(t))
      at == Occurrences(q, rest)
      Begin(k) == b + at[k] + Len(q) - 1
      Matched(g) == SubSeq(t, g + 1, g + Len(q)) = q
      last == Len(t) - Len(q)
  IN  /\ Len(rest) = Len(t) - b
      /\ at \in Seq(Nat) /\ Len(at) \in Nat
      /\ \A k \in 1 .. Len(at) :
           at[k] \in Nat \ {0} /\ Begin(k) \in b + Len(q) .. Len(t)
      /\ \A k \in 1 .. Len(at) - 1 : at[k] + Len(q) <= at[k + 1]
      /\ (\A g \in b .. last : ~Matched(g)) => Len(at) = 0
      /\ \A g \in b .. last :
           Matched(g) /\ (\A h \in b .. g - 1 : ~Matched(h)) =>
             Len(at) > 0 /\ Begin(1) = g + Len(q)
      /\ \A k \in 1 .. Len(at) :
           /\ (\A g \in Begin(k) .. last : ~Matched(g)) => k = Len(at)
           /\ \A g \in Begin(k) .. last :
                Matched(g) /\ (\A h \in Begin(k) .. g - 1 : ~Matched(h)) =>
                  k < Len(at) /\ Begin(k + 1) = g + Len(q)

LEMMA RecordsFollow ==
  ASSUME NEW q, Len(q) \in Nat \ {0}, NEW t \in Seq(Letters),
         NEW b \in 0 .. Len(t)
  PROVE  Followed(q, t, b)
<1> DEFINE rest == SubSeq(t, b + 1, Len(t))
           at == Occurrences(q, rest)
           m == Len(q)
           Begin(k) == b + at[k] + m - 1
           Matched(g) == SubSeq(t, g + 1, g + m) = q
           last == Len(t) - m
           n == Larger(0, Len(rest) - m + 1)
<1>0. Len(t) \in Nat
  BY LenProperties
<1>1. Len(t) \in Nat /\ \A i \in 1 .. Len(t) : t[i] \in Letters
  BY LenProperties, ElementOfSeq
<1>2. /\ rest \in Seq(Letters) /\ Len(rest) = Len(t) - b
      /\ \A i \in 1 .. Len(t) - b : rest[i] = t[b + i]
  <2>1. \A i \in b + 1 .. Len(t) : t[i] \in Letters
    BY <1>1
  <2>2. \A i \in 1 .. Len(t) - b : (b + 1) + i - 1 = b + i
    BY <1>1
  <2>3. /\ SubSeq(t, b + 1, Len(t)) \in Seq(Letters)
        /\ Len(SubSeq(t, b + 1, Len(t))) =
             IF b + 1 <= Len(t) THEN Len(t) - (b + 1) + 1 ELSE 0
        /\ \A i \in 1 .. Len(t) - (b + 1) + 1 :
             SubSeq(t, b + 1, Len(t))[i] = t[(b + 1) + i - 1]
    BY <1>1, <2>1, SubSeqProperties
  <2> QED BY <1>1, <2>2, <2>3
<1>3. Len(rest) \in Nat
  BY <1>1, <1>2
<1> HIDE DEF rest
<1>4. Greedy(q, rest, at, n)
  BY <1>3, OccurrencesAreGreedy
<1>5. n \in Nat /\ (n > 0 => n = last - b + 1) /\ (n = 0 => last < b)
  BY <1>1, <1>2 DEF Larger
<1> HIDE DEF n, at
<1>6. ASSUME NEW g \in b .. last
      PROVE  /\ g - b + 1 \in 1 .. n
             /\ Matched(g) <=> MatchesAt(q, rest, g - b + 1)
  <2>1. g - b + 1 \in 1 .. n
    BY <1>1, <1>5
  <2>2. SubSeq(rest, g - b + 1, (g - b + 1) + m - 1) = SubSeq(t, g + 1, g + m)
    <3>1. /\ g - b + 1 \in Nat \ {0} /\ (g - b + 1) + m - 1 \in Nat
          /\ g - b + 1 <= (g - b + 1) + m - 1 + 1
          /\ (g - b + 1) + m - 1 <= Len(t) - b
          /\ b + (g - b + 1) = g + 1 /\ b + ((g - b + 1) + m - 1) = g + m
      BY <1>1
    <3>2. SubSeq(SubSeq(t, b + 1, Len(t)), g - b + 1, (g - b + 1) + m - 1) =
            SubSeq(t, b + (g - b + 1), b + ((g - b + 1) + m - 1))
      BY <3>1, PieceOfRest
    <3> QED BY <3>1, <3>2 DEF rest
  <2> QED BY <2>1, <2>2 DEF MatchesAt
<1>7. at \in Seq(Nat) /\ Len(at) \in Nat
  BY <1>4, LenProperties DEF Greedy
<1>8. \A k \in 1 .. Len(at) : at[k] \in 1 .. n /\ MatchesAt(q, rest, at[k])
  BY <1>4 DEF Greedy
<1>9. \A k \in 1 .. Len(at) : at[k] \in Nat \ {0} /\ Begin(k) \in b + m .. Len(t)
  BY SMTT(30), <1>1, <1>5, <1>8
<1>10. \A k \in 1 .. Len(at) : b + at[k] - 1 \in b .. last /\ Matched(b + at[k] - 1)
  <2> TAKE k \in 1 .. Len(at)
  <2>1. b + at[k] - 1 \in b .. last /\ (b + at[k] - 1) - b + 1 = at[k]
    BY <1>1, <1>5, <1>8
  <2> QED BY <1>6, <1>8, <2>1
<1>11. (\A g \in b .. last : ~Matched(g)) => Len(at) = 0
  <2> HAVE \A g \in b .. last : ~Matched(g)
  <2>1. \A k \in 1 .. Len(at) : FALSE
    BY <1>10
  <2> QED BY <1>7, <2>1
<1>12. ASSUME NEW g \in b .. last, Matched(g), \A h \in b .. g - 1 : ~Matched(h)
       PROVE  Len(at) > 0 /\ Begin(1) = g + m
  <2>1. Len(at) > 0 /\ at[1] <= g - b + 1
    BY <1>4, <1>6, <1>12 DEF Greedy
  <2>2. 1 \in 1 .. Len(at)
    BY <1>7, <2>1
  <2>3. b + at[1] - 1 \in b .. last /\ Matched(b + at[1] - 1) /\ at[1] \in Nat
    BY <1>9, <1>10, <2>2
  <2>4. ~(b + at[1] - 1 \in b .. g - 1)
    BY <1>12, <2>3
  <2> DEFINE x == at[1]
  <2>5. /\ b + x - 1 \in b .. last /\ x \in Nat /\ x <= g - b + 1
        /\ ~(b + x - 1 \in b .. g - 1)
    BY <2>1, <2>3, <2>4
  <2>6. Begin(1) = b + x + m - 1
    OBVIOUS
  <2> HIDE DEF x
  <2>7. b + x - 1 = g
    BY <1>0, <2>5
  <2>8. b + x + m - 1 = g + m
    BY <1>0, <2>5, <2>7
  <2> QED BY <2>1, <2>6, <2>8
<1>13. ASSUME NEW k \in 1 .. Len(at), \A g \in Begin(k) .. last : ~Matched(g)
       PROVE  k = Len(at)
  <2> SUFFICES ASSUME k < Len(at) PROVE FALSE
    BY <1>7
  <2>1. k + 1 \in 1 .. Len(at) /\ k \in 1 .. Len(at) - 1
    BY <1>7
  <2>2. at[k] + m <= at[k + 1]
    BY <1>4, <2>1 DEF Greedy
  <2>3. b + at[k + 1] - 1 \in b .. last /\ Matched(b + at[k + 1] - 1)
    BY <1>10, <2>1
  <2>4. b + at[k + 1] - 1 \in Begin(k) .. last
    <3>1. at[k] \in Nat \ {0} /\ at[k + 1] \in Nat \ {0}
      BY <1>9, <2>1
    <3> DEFINE x == at[k]
               y == at[k + 1]
    <3>2. /\ x \in Nat \ {0} /\ y \in Nat \ {0}
          /\ x + m <= y
          /\ b + y - 1 \in b .. last
      BY <2>2, <2>3, <3>1
    <3> HIDE DEF x, y
    <3>3. b + y - 1 \in b + x + m - 1 .. last
      BY <1>0, <3>2
    <3> QED BY <3>3 DEF x, y
  <2> QED BY <1>13, <2>3, <2>4
<1>14. ASSUME NEW k \in 1 .. Len(at), NEW g \in Begin(k) .. last, Matched(g),
              \A h \in Begin(k) .. g - 1 : ~Matched(h)
       PROVE  k < Len(at) /\ Begin(k + 1) = g + m
  <2>1. at[k] \in Nat \ {0}
    BY <1>9
  <2>2. /\ g \in b .. last /\ g - b + 1 \in 1 .. n
        /\ MatchesAt(q, rest, g - b + 1) /\ at[k] + m <= g - b + 1
    BY SMTT(30), <1>1, <1>6, <1>14, <2>1
  <2>3. k # Len(at)
    <3> SUFFICES ASSUME k = Len(at) PROVE FALSE
      OBVIOUS
    <3>1. \A i \in at[k] + m .. n : ~MatchesAt(q, rest, i)
      BY <1>4, <1>7 DEF Greedy
    <3>2. g - b + 1 \in at[k] + m .. n
      BY <1>1, <1>5, <2>1, <2>2
    <3> QED BY <2>2, <3>1, <3>2
  <2>4. k + 1 \in 1 .. Len(at) /\ k \in 1 .. Len(at) - 1
    BY <1>7, <2>3
  <2>5. /\ at[k] + m <= at[k + 1]
        /\ \A i \in at[k] + m .. at[k + 1] - 1 : ~MatchesAt(q, rest, i)
    BY <1>4, <2>4 DEF Greedy
  <2>6. /\ at[k + 1] \in Nat \ {0} /\ Matched(b + at[k + 1] - 1)
        /\ b + at[k + 1] - 1 \in b .. last
    BY <1>9, <1>10, <2>4
  <2>7. ~(b + at[k + 1] - 1 < g)
    <3> SUFFICES ASSUME b + at[k + 1] - 1 < g PROVE FALSE
      OBVIOUS
    <3>1. b + at[k + 1] - 1 \in Begin(k) .. g - 1
      <4>1. at[k + 1] \in Nat /\ at[k] + m <= at[k + 1] /\ g \in Nat
        BY <1>0, <2>2, <2>5, <2>6
      <4> DEFINE x == at[k]
                 y == at[k + 1]
      <4>2. x \in Nat /\ y \in Nat /\ x + m <= y /\ g \in Nat
        BY <2>1, <4>1
      <4> HIDE DEF x, y
      <4>3. b + y - 1 < g => b + y - 1 \in b + x + m - 1 .. g - 1
        BY <1>0, <4>2
      <4> QED BY <4>3 DEF x, y
    <3> QED BY <1>14, <2>6, <3>1
  <2>8. ~(g < b + at[k + 1] - 1)
    <3> SUFFICES ASSUME g < b + at[k + 1] - 1 PROVE FALSE
      OBVIOUS
    <3> DEFINE x == at[k]
               y == at[k + 1]
    <3>1. /\ x \in Nat /\ y \in Nat /\ x + m <= g - b + 1 /\ g < b + y - 1
          /\ g - b + 1 \in 1 .. n
      BY <2>1, <2>2, <2>6
    <3> HIDE DEF x, y
    <3>2. g - b + 1 \in x + m .. y - 1
      BY <1>0, <3>1
    <3> QED BY <2>2, <2>5, <3>2 DEF x, y
  <2>9. b + at[k + 1] - 1 = g
    <3>1. at[k + 1] \in Nat /\ g \in Nat
      BY <1>0, <2>2, <2>6
    <3> QED BY SMTT(30), <1>0, <2>7, <2>8, <3>1
  <2>10. k < Len(at)
    BY <1>7, <2>3
  <2>11. Begin(k + 1) = g + m
    <3> DEFINE y == at[k + 1]
    <3>1. y \in Nat /\ b + y - 1 = g
      BY <2>6, <2>9
    <3>2. Begin(k + 1) = b + y + m - 1
      OBVIOUS
    <3> HIDE DEF y
    <3> QED BY <1>0, <3>1, <3>2
  <2> QED BY <2>10, <2>11
<1>15. \A k \in 1 .. Len(at) - 1 : at[k] + m <= at[k + 1]
  BY <1>4 DEF Greedy
<1> QED BY <1>2, <1>7, <1>9, <1>11, <1>12, <1>13, <1>14, <1>15 DEF rest, at, Followed
-----------------------------------------------------------------------------
(* Searching and reading.                                                  *)

LEMMA StreamFacts ==
  ASSUME StreamIsSound
  PROVE  /\ text \in Seq(Letters) /\ text \in Seq(Characters) /\ Len(text) \in Nat
         /\ egptr \in Nat /\ egptr <= Len(text)
         /\ gptr \in Nat /\ gptr <= egptr
         /\ egptr - gptr <= Chunk /\ Chunk \in Nat
         /\ base \in Nat /\ base <= gptr /\ start \in Nat /\ start <= Len(text)
         /\ P \in Nat /\ P >= 2 /\ pattern \in Seq(Characters)
         /\ searching \in Nat /\ off \in Nat /\ room \in Nat /\ maxRec \in Nat
<1>1. text \in Seq(Letters) /\ pattern \in Seq(Characters)
  BY StreamAssumption DEF StreamIsSound, PlacesAreSound, ValuesAreSound
<1>2. text \in Seq(Characters)
  BY <1>1, SeqMonotonic DEF Characters
<1>3. Len(text) \in Nat /\ Len(pattern) \in Nat
  BY <1>1, LenProperties
<1>4. /\ egptr \in 0 .. Len(text) /\ gptr \in 0 .. egptr
      /\ egptr - gptr <= Chunk /\ Chunk \in Nat
      /\ base \in 0 .. gptr /\ start \in 0 .. Len(text)
  BY StreamAssumption DEF StreamIsSound, PlacesAreSound
<1> QED BY <1>1, <1>2, <1>3, <1>4 DEF StreamIsSound, ValuesAreSound, P

LEMMA SearchMeans ==
  ASSUME StreamIsSound, NEW p \in Nat
  PROVE  \/ Search(p) = None /\ \A g \in p .. egptr - P : ~Match(g)
         \/ /\ Search(p) \in Nat /\ p + Search(p) + P <= egptr
            /\ Match(p + Search(p))
            /\ \A g \in p .. p + Search(p) - 1 : ~Match(g)
<1> DEFINE hits == {i \in 0 .. egptr - p - P :
                      SubSeq(text, p + i + 1, p + i + P) = pattern}
<1>1. egptr \in Nat /\ P \in Nat
  BY StreamFacts
<1>2. \A i \in hits : i \in 0 .. egptr - p - P /\ Match(p + i)
  BY DEF Match
<1>3. \A g \in p .. egptr - P : Match(g) => g - p \in hits
  <2> TAKE g \in p .. egptr - P
  <2>1. g - p \in 0 .. egptr - p - P /\ p + (g - p) = g
    BY <1>1
  <2> QED BY <2>1 DEF Match
<1>4. hits \subseteq Nat
  BY <1>1
<1>5. Search(p) = IF hits = {} THEN None
                  ELSE CHOOSE i \in hits : \A j \in hits : i <= j
  BY DEF Search
<1> HIDE DEF hits
<1>6. CASE hits = {}
  BY <1>3, <1>5, <1>6
<1>7. CASE hits # {}
  <2>1. \E i \in hits : \A j \in hits : i <= j
    BY <1>4, <1>7, LeastOf
  <2> DEFINE s == CHOOSE i \in hits : \A j \in hits : i <= j
  <2>2. s \in hits /\ \A j \in hits : s <= j
    BY <2>1
  <2>3. Search(p) = s
    BY <1>5, <1>7
  <2> HIDE DEF s
  <2>4. s \in Nat /\ p + s + P <= egptr /\ Match(p + s)
    <3>1. s \in 0 .. egptr - p - P /\ Match(p + s)
      BY <1>2, <2>2
    <3> QED BY <1>1, <3>1
  <2>5. ASSUME NEW g \in p .. p + s - 1 PROVE ~Match(g)
    <3> SUFFICES ASSUME Match(g) PROVE FALSE
      OBVIOUS
    <3>1. s \in Nat /\ p + s + P <= egptr
      BY <2>4
    <3>2. g \in p .. egptr - P /\ g - p < s
      BY <1>1, <3>1
    <3>3. s <= g - p
      BY <1>3, <2>2, <3>2
    <3> QED BY <3>1, <3>2, <3>3
  <2> QED BY <2>3, <2>4, <2>5
<1> QED BY <1>6, <1>7

(* What has been read moves gptr; the get area follows.                    *)
LEMMA ConsumeMeans ==
  ASSUME StreamIsSound, NEW n \in Nat, n <= Avail, Consume(n)
  PROVE  /\ text' = text /\ gptr' = gptr + n /\ gptr + n <= egptr
         /\ \E e \in Nat :
              /\ egptr' = e /\ e <= Len(text) /\ gptr + n <= e
              /\ e - (gptr + n) <= Chunk
              /\ e = gptr + n => e = Len(text)
              /\ Len(text) <= Chunk => e = Len(text)
<1>1. /\ egptr \in Nat /\ gptr \in Nat /\ Len(text) \in Nat /\ Chunk \in Nat
      /\ gptr <= egptr /\ egptr <= Len(text) /\ egptr - gptr <= Chunk
      /\ Chunk >= 2
  BY StreamFacts, StreamAssumption
<1>2. Len(text) <= Chunk => egptr = Len(text)
  BY DEF StreamIsSound, PlacesAreSound
<1>3. gptr + n <= egptr
  BY <1>1 DEF Avail
<1> DEFINE l == Len(text)
           e == IF gptr + n = egptr THEN Smaller(l, egptr + Chunk) ELSE egptr
<1>4. text' = text /\ gptr' = gptr + n /\ egptr' = e
  BY DEF Consume, Filled
<1> HIDE DEF l
<1>5. l \in Nat /\ gptr <= egptr /\ egptr <= l /\ l = Len(text)
  BY <1>1 DEF l
<1>6. /\ e \in Nat /\ e <= l /\ gptr + n <= e
      /\ e - (gptr + n) <= Chunk
      /\ e = gptr + n => e = l
  BY <1>1, <1>3, <1>5 DEF Smaller
<1>7. l <= Chunk => e = l
  BY <1>1, <1>2, <1>5 DEF Smaller
<1> HIDE DEF e
<1> QED BY <1>3, <1>4, <1>5, <1>6, <1>7

(* What of the text is between two places, and how pieces of it join.      *)
LEMMA PieceOf ==
  ASSUME NEW t \in Seq(Letters), NEW a \in Nat, NEW b \in Nat, a <= b, b <= Len(t)
  PROVE  SubSeq(t, a + 1, b) \in Seq(Letters) /\ Len(SubSeq(t, a + 1, b)) = b - a
<1>1. Len(t) \in Nat /\ \A i \in 1 .. Len(t) : t[i] \in Letters
  BY LenProperties, ElementOfSeq
<1>2. \A i \in a + 1 .. b : t[i] \in Letters
  BY <1>1
<1>3. /\ SubSeq(t, a + 1, b) \in Seq(Letters)
      /\ Len(SubSeq(t, a + 1, b)) = IF a + 1 <= b THEN b - (a + 1) + 1 ELSE 0
  BY <1>2, SubSeqProperties
<1> QED BY <1>3

LEMMA PiecesJoin ==
  ASSUME NEW t \in Seq(Letters), NEW a \in Nat, NEW b \in Nat, NEW c \in Nat,
         a <= b, b <= c, c <= Len(t)
  PROVE  SubSeq(t, a + 1, b) \o SubSeq(t, b + 1, c) = SubSeq(t, a + 1, c)
<1>1. Len(t) \in Nat
  BY LenProperties
<1>2. a + 1 \in 1 .. Len(t) + 1 /\ b \in (a + 1) - 1 .. Len(t) /\ c \in b .. Len(t)
  BY <1>1
<1> QED BY <1>2, ConcatAdjacentSubSeq
-----------------------------------------------------------------------------
(* Types, and what calls may do.                                           *)

Sound == StreamIsSound /\ CallIsSound /\ NothingBefore

LEMMA CharsMeans ==
  ASSUME StreamIsSound, NEW n \in Nat, n <= Avail
  PROVE  Chars(n) \in Seq(Letters) /\ Len(Chars(n)) = n
<1>1. /\ egptr \in Nat /\ gptr \in Nat /\ Len(text) \in Nat
      /\ egptr <= Len(text) /\ text \in Seq(Letters)
  BY StreamFacts
<1>2. gptr + n \in Nat /\ gptr <= gptr + n /\ gptr + n <= Len(text)
  BY <1>1 DEF Avail
<1>3. /\ SubSeq(text, gptr + 1, gptr + n) \in Seq(Letters)
      /\ Len(SubSeq(text, gptr + 1, gptr + n)) = (gptr + n) - gptr
  BY <1>1, <1>2, PieceOf
<1> QED BY <1>1, <1>3 DEF Chars

LEMMA PlacesAfterRead ==
  ASSUME StreamIsSound, NEW n \in Nat, n <= Avail, Consume(n),
         base' = base, start' \in 0 .. Len(text)
  PROVE  PlacesAreSound'
<1>1. PICK e \in Nat :
        /\ egptr' = e /\ e <= Len(text) /\ gptr + n <= e
        /\ e - (gptr + n) <= Chunk
        /\ e = gptr + n => e = Len(text)
        /\ Len(text) <= Chunk => e = Len(text)
  BY ConsumeMeans
<1>2. text' = text /\ gptr' = gptr + n
  BY ConsumeMeans
<1>3. gptr \in Nat /\ Len(text) \in Nat /\ base \in Nat /\ base <= gptr
  BY StreamFacts
<1>4. text \in Texts
  BY DEF StreamIsSound, PlacesAreSound
<1>5. PICK g \in Nat : gptr' = g /\ g = gptr + n
  BY <1>2, <1>3
<1>6. /\ e \in 0 .. Len(text) /\ g \in 0 .. e /\ e - g <= Chunk
      /\ (g = e => g = Len(text))
      /\ (Len(text) <= Chunk => e = Len(text))
      /\ base \in 0 .. g
  BY <1>1, <1>3, <1>5
<1> QED BY <1>1, <1>2, <1>4, <1>5, <1>6 DEF PlacesAreSound

LEMMA SearchFits ==
  ASSUME StreamIsSound, NEW p \in Nat, Search(p) # None
  PROVE  /\ Search(p) \in Nat /\ p + Search(p) + P <= egptr
         /\ p + Search(p) + P <= Len(text) /\ text # <<>>
<1>1. Search(p) \in Nat /\ p + Search(p) + P <= egptr
  BY SearchMeans
<1>2. egptr \in Nat /\ Len(text) \in Nat /\ egptr <= Len(text) /\ P \in Nat /\ P >= 2
  BY StreamFacts
<1>3. p + Search(p) + P <= Len(text) /\ Len(text) > 0
  BY <1>1, <1>2
<1>4. text # <<>>
  BY <1>3, EmptySeq
<1> QED BY <1>1, <1>3, <1>4

LEMMA SoundInit == Init => Sound
<1> SUFFICES ASSUME Init PROVE Sound
  OBVIOUS
<1>1. text \in Seq(Letters) /\ pattern \in Seq(Letters) /\ Len(pattern) >= 2
  BY StreamAssumption DEF Init
<1>2. Len(text) \in Nat /\ pattern \in Seq(Characters)
  BY <1>1, LenProperties, SeqMonotonic DEF Characters
<1>3. /\ egptr \in 0 .. Len(text) /\ 0 \in 0 .. egptr
      /\ egptr - 0 <= Chunk /\ (0 = egptr => 0 = Len(text))
      /\ Len(text) <= Chunk => egptr = Len(text)
  BY <1>2, StreamAssumption DEF Init, Smaller
<1>4. PlacesAreSound
  BY <1>2, <1>3 DEF Init, PlacesAreSound
<1>5. asked \in Patterns /\ pattern \in Seq(Characters) /\ P >= 2 /\ P >= Len(asked)
  <2>1. Len(pattern) \in Nat
    BY <1>1, LenProperties
  <2> QED BY <1>1, <1>2, <2>1 DEF Init, P
<1>6. <<>> \in Seq(Letters) /\ <<>> \in Seq(Seq(Letters))
  BY EmptySeq
<1>7. ValuesAreSound
  <2>1. /\ client \in Clients /\ isOpen \in BOOLEAN
        /\ eof \in BOOLEAN /\ failed \in BOOLEAN
        /\ found \in BOOLEAN /\ lost \in BOOLEAN
    BY DEF Init
  <2>2. /\ state \in {"INITED", "PMATCH", "UNINITED"} /\ pc = "idle"
        /\ searching \in Nat /\ room \in Nat /\ off \in Nat
        /\ maxRec \in Nat /\ distance \in Int
    BY DEF Init
  <2>3. /\ record \in Seq(Letters) /\ piece \in Seq(Letters)
        /\ records \in Seq(Seq(Letters))
    BY <1>6 DEF Init
  <2> QED BY <1>5, <2>1, <2>2, <2>3 DEF ValuesAreSound
<1>8. CallIsSound /\ NothingBefore
  BY DEF Init, CallIsSound, NothingBefore
<1> QED BY <1>4, <1>7, <1>8 DEF Sound, StreamIsSound

LEMMA SoundSkipArea == ASSUME Sound, SkipArea, UNCHANGED setup PROVE Sound'
<1>0. StreamIsSound /\ CallIsSound /\ NothingBefore
  BY DEF Sound
<1>1. /\ egptr \in Nat /\ gptr \in Nat /\ Len(text) \in Nat
      /\ gptr <= egptr /\ start \in 0 .. Len(text)
  BY <1>0, StreamFacts
<1>2. Avail \in Nat /\ Avail <= Avail
  BY <1>1 DEF Avail
<1>3. PlacesAreSound'
  BY <1>0, <1>1, <1>2, PlacesAfterRead DEF SkipArea, history
<1>4. ValuesAreSound'
  BY <1>0 DEF StreamIsSound, ValuesAreSound, SkipArea, history, searchVars, setup, AtEnd, P
<1>5. text' = text /\ gptr' = gptr + Avail
  BY <1>0, <1>2, ConsumeMeans DEF SkipArea
<1>6. CallIsSound' /\ NothingBefore'
  BY <1>0, <1>5 DEF CallIsSound, NothingBefore, SkipArea, history, searchVars, setup, AtEnd
<1> QED BY <1>3, <1>4, <1>6 DEF Sound, StreamIsSound

LEMMA SoundFirstMatch == ASSUME Sound, FirstMatch, UNCHANGED setup PROVE Sound'
<1>0. StreamIsSound /\ CallIsSound /\ NothingBefore
  BY DEF Sound
<1>1. /\ egptr \in Nat /\ gptr \in Nat /\ Len(text) \in Nat
      /\ gptr <= egptr /\ P \in Nat
  BY <1>0, StreamFacts
<1> DEFINE s == Search(gptr)
<1>2. s \in Nat /\ gptr + s + P <= egptr /\ gptr + s + P <= Len(text) /\ text # <<>>
  BY <1>0, <1>1, SearchFits DEF FirstMatch
<1>3. start' = gptr + s /\ Consume(s + P)
  BY DEF FirstMatch
<1> HIDE DEF s
<1>4. /\ s + P \in Nat /\ s + P <= Avail
      /\ gptr + s \in 0 .. Len(text)
  BY <1>1, <1>2 DEF Avail
<1>5. base' = base /\ start' \in 0 .. Len(text)
  BY <1>3, <1>4 DEF FirstMatch
<1>6. PlacesAreSound'
  BY <1>0, <1>3, <1>4, <1>5, PlacesAfterRead
<1>7. ValuesAreSound'
  BY <1>0 DEF StreamIsSound, ValuesAreSound, FirstMatch, searchVars, setup, P
<1>8. text' = text
  BY <1>3 DEF Consume
<1>9. CallIsSound' /\ NothingBefore'
  BY <1>0, <1>2, <1>8 DEF CallIsSound, NothingBefore, FirstMatch, searchVars, setup
<1> QED BY <1>6, <1>7, <1>9 DEF Sound, StreamIsSound

LEMMA SoundGather == ASSUME Sound, Gather, UNCHANGED setup PROVE Sound'
<1>0. StreamIsSound /\ CallIsSound /\ NothingBefore
  BY DEF Sound
<1>1. /\ egptr \in Nat /\ gptr \in Nat /\ Len(text) \in Nat
      /\ gptr <= egptr /\ start \in 0 .. Len(text)
      /\ off \in Nat /\ room \in Nat /\ maxRec \in Nat
  BY <1>0, StreamFacts
<1>2. off < room /\ state = "PMATCH" /\ pc = "copy"
  BY DEF Gather, Copying
<1> DEFINE n == Smaller(room - off, Avail)
<1>3. /\ Consume(n) /\ off' = off + n /\ piece' = piece \o Chars(n)
      /\ eof' = AtEnd(n)
  BY DEF Gather
<1>4. n \in Nat /\ n <= Avail /\ off + n <= room
  BY <1>1, <1>2 DEF Avail, Smaller
<1> HIDE DEF n
<1>5. base' = base /\ start' = start /\ room' = room
  BY DEF Gather, CopyFrame
<1>6. PlacesAreSound'
  BY <1>0, <1>1, <1>3, <1>4, <1>5, PlacesAfterRead
<1>7. piece' \in Seq(Letters) /\ record \in Seq(Letters) /\ records \in Seq(Seq(Letters))
  BY <1>0, <1>3, <1>4, CharsMeans, ConcatProperties DEF StreamIsSound, ValuesAreSound
<1>8. record' \in Seq(Letters) /\ records' \in Seq(Seq(Letters))
  <2>1. record \o piece' \in Seq(Letters) /\ <<>> \in Seq(Letters)
    BY <1>7, ConcatProperties, EmptySeq
  <2>2. Append(records, record \o piece') \in Seq(Seq(Letters))
    BY <1>7, <2>1, AppendProperties
  <2> QED BY <1>7, <2>1, <2>2 DEF Gather, Complete
<1>9. PICK o \in Nat : off' = o /\ o <= room
  BY <1>1, <1>3, <1>4
<1>10. maxRec' \in Nat
  BY <1>1, <1>9 DEF Gather, Larger
<1>11. (pc' = "copy" => off' <= room') /\ off' \in Nat /\ room' \in Nat
  BY <1>1, <1>5, <1>9
<1>12. pc' \in {"idle", "copy"} /\ lost' = lost /\ failed' = failed
  BY <1>2 DEF Gather, Complete
<1>13. eof' \in BOOLEAN
  BY <1>3 DEF AtEnd
<1>14. ValuesAreSound'
  BY <1>0, <1>7, <1>8, <1>10, <1>11, <1>12, <1>13
  DEF StreamIsSound, ValuesAreSound, Gather, CopyFrame, searchVars, setup, P
<1>15. text' = text /\ gptr' = gptr + n
  BY <1>0, <1>3, <1>4, ConsumeMeans
<1>16. pc' = "copy" => ~eof'
  BY DEF Gather
<1>17. CallIsSound' /\ NothingBefore'
  <2>1. eof' => gptr' = Len(text')
    BY <1>3, <1>15 DEF AtEnd
  <2>2. /\ client' = client /\ isOpen' = isOpen /\ text' = text
        /\ state' = "PMATCH"
    BY <1>2, <1>15 DEF Gather, CopyFrame, setup
  <2>3. "copy" \in client /\ "open" \notin client => isOpen
    BY <1>0, <1>2 DEF CallIsSound
  <2>4. /\ "copy" \in client' /\ ("open" \notin client' => isOpen')
        /\ isOpen'
    BY <1>0, <1>2, <2>2, <2>3 DEF CallIsSound, StreamIsSound, ValuesAreSound
  <2>5. failed' = FALSE
    BY <1>0, <1>2, <1>12 DEF CallIsSound, StreamIsSound, ValuesAreSound
  <2>6. CallIsSound'
    BY <1>12, <1>16, <2>1, <2>4, <2>5 DEF CallIsSound
  <2>7. NothingBefore'
    BY <2>2 DEF NothingBefore
  <2> QED BY <2>6, <2>7
<1> QED BY <1>6, <1>14, <1>17 DEF Sound, StreamIsSound

LEMMA SoundOverflow == ASSUME Sound, Overflow, UNCHANGED setup PROVE Sound'
<1>0. StreamIsSound /\ CallIsSound /\ NothingBefore
  BY DEF Sound
<1>1. /\ egptr \in Nat /\ gptr \in Nat /\ Len(text) \in Nat
      /\ gptr <= egptr /\ start \in 0 .. Len(text)
  BY <1>0, StreamFacts
<1>2. Avail \in Nat /\ Avail <= Avail /\ Consume(Avail)
  BY <1>1 DEF Avail, Overflow
<1>3. PlacesAreSound'
  BY <1>0, <1>1, <1>2, PlacesAfterRead DEF Overflow, CopyFrame
<1>4. <<>> \in Seq(Letters)
  BY EmptySeq
<1>5. ValuesAreSound'
  BY <1>0, <1>4
  DEF StreamIsSound, ValuesAreSound, Overflow, CopyFrame, searchVars, setup, AtEnd, P
<1>6. text' = text
  BY <1>2 DEF Consume
<1>7. CallIsSound' /\ NothingBefore'
  BY <1>0, <1>6
  DEF CallIsSound, NothingBefore, Overflow, Copying, CopyFrame, searchVars, setup
<1> QED BY <1>3, <1>5, <1>7 DEF Sound, StreamIsSound

LEMMA SoundPartOfRecord == ASSUME Sound, PartOfRecord, UNCHANGED setup PROVE Sound'
<1>0. StreamIsSound /\ CallIsSound /\ NothingBefore
  BY DEF Sound
<1>1. /\ egptr \in Nat /\ gptr \in Nat /\ Len(text) \in Nat /\ P \in Nat
      /\ gptr <= egptr /\ start \in 0 .. Len(text)
      /\ off \in Nat /\ room \in Nat
  BY <1>0, StreamFacts
<1>2. off <= room /\ state = "PMATCH" /\ pc = "copy"
  BY <1>0 DEF PartOfRecord, Copying, StreamIsSound, ValuesAreSound
<1> DEFINE n == room - off
           s == Search(gptr)
<1>3. s > n /\ Consume(n) /\ piece' = piece \o Chars(n)
  BY DEF PartOfRecord
<1>4. n \in Nat
  BY <1>1, <1>2
<1>5. s # None
  BY <1>3, <1>4 DEF None
<1>6. s \in Nat /\ gptr + s + P <= egptr
  BY <1>0, <1>1, <1>5, SearchFits
<1> HIDE DEF n, s
<1>7. n <= Avail
  BY <1>1, <1>3, <1>4, <1>6 DEF Avail
<1>8. base' = base /\ start' = start /\ room' = room /\ off' = room
  BY DEF PartOfRecord, CopyFrame
<1>9. PlacesAreSound'
  BY <1>0, <1>1, <1>3, <1>4, <1>7, <1>8, PlacesAfterRead
<1>10. piece' \in Seq(Letters) /\ record \o piece' \in Seq(Letters)
  BY <1>0, <1>3, <1>4, <1>7, CharsMeans, ConcatProperties DEF StreamIsSound, ValuesAreSound
<1>11. ValuesAreSound'
  BY <1>0, <1>1, <1>8, <1>10
  DEF StreamIsSound, ValuesAreSound, PartOfRecord, CopyFrame, searchVars, setup, P
<1>12. text' = text
  BY <1>3 DEF Consume
<1>13. CallIsSound' /\ NothingBefore'
  BY <1>0, <1>2, <1>12
  DEF CallIsSound, NothingBefore, PartOfRecord, CopyFrame, searchVars, setup
<1> QED BY <1>9, <1>11, <1>13 DEF Sound, StreamIsSound

LEMMA SoundEndOfRecord == ASSUME Sound, EndOfRecord, UNCHANGED setup PROVE Sound'
<1>0. StreamIsSound /\ CallIsSound /\ NothingBefore
  BY DEF Sound
<1>1. /\ egptr \in Nat /\ gptr \in Nat /\ Len(text) \in Nat /\ P \in Nat
      /\ gptr <= egptr /\ start \in 0 .. Len(text)
      /\ off \in Nat /\ room \in Nat /\ maxRec \in Nat
  BY <1>0, StreamFacts
<1>2. off <= room /\ state = "PMATCH" /\ pc = "copy"
  BY <1>0 DEF EndOfRecord, Copying, StreamIsSound, ValuesAreSound
<1> DEFINE n == Search(gptr)
<1>3. /\ n \in 0 .. room - off /\ Consume(n + P) /\ off' = off + n
      /\ piece' = piece \o Chars(n)
  BY DEF EndOfRecord
<1>4. n # None
  BY <1>1, <1>3 DEF None
<1>5. n \in Nat /\ gptr + n + P <= egptr
  BY <1>0, <1>1, <1>4, SearchFits
<1> HIDE DEF n
<1>6. n + P \in Nat /\ n + P <= Avail /\ n <= Avail
  BY <1>1, <1>5 DEF Avail
<1>7. base' = base /\ start' = start /\ room' = room
  BY DEF EndOfRecord, CopyFrame
<1>8. PlacesAreSound'
  BY <1>0, <1>1, <1>3, <1>6, <1>7, PlacesAfterRead
<1>9. piece' \in Seq(Letters) /\ record \o piece' \in Seq(Letters)
  BY <1>0, <1>3, <1>5, <1>6, CharsMeans, ConcatProperties DEF StreamIsSound, ValuesAreSound
<1>10. record' \in Seq(Letters) /\ records' \in Seq(Seq(Letters))
  <2>1. <<>> \in Seq(Letters) /\ records \in Seq(Seq(Letters))
    BY <1>0, EmptySeq DEF StreamIsSound, ValuesAreSound
  <2>2. Append(records, record \o piece') \in Seq(Seq(Letters))
    BY <1>9, <2>1, AppendProperties
  <2> QED BY <2>1, <2>2 DEF EndOfRecord, Complete
<1>11. PICK o \in Nat : off' = o
  BY <1>1, <1>3, <1>5
<1>12. maxRec' \in Nat /\ off' \in Nat
  BY <1>1, <1>11 DEF EndOfRecord, Larger
<1>13. ValuesAreSound'
  BY <1>0, <1>9, <1>10, <1>12
  DEF StreamIsSound, ValuesAreSound, EndOfRecord, Complete, CopyFrame, searchVars, setup, P
<1>14. text' = text
  BY <1>3 DEF Consume
<1>15. CallIsSound' /\ NothingBefore'
  BY <1>0, <1>2, <1>14
  DEF CallIsSound, NothingBefore, EndOfRecord, Complete, CopyFrame, searchVars, setup
<1> QED BY <1>8, <1>13, <1>15 DEF Sound, StreamIsSound

LEMMA SoundPointing ==
  ASSUME Sound, PointTo, UNCHANGED setup
  PROVE  Sound'
<1>0. StreamIsSound /\ CallIsSound /\ NothingBefore
  BY DEF Sound
<1>1. PlacesAreSound' /\ text' = text /\ eof' = eof /\ lost' = lost
  BY <1>0 DEF PointTo, NoFirstPointer, FirstPointer, Pointer, NoMorePointer,
              PointerFrame, streamVars, StreamIsSound, PlacesAreSound
<1>2. /\ egptr \in Nat /\ gptr \in Nat /\ searching \in Nat /\ maxRec \in Nat
      /\ P \in Nat /\ off \in Nat /\ egptr <= Len(text) /\ Len(text) \in Nat
      /\ text \in Seq(Letters)
  BY <1>0, StreamFacts
<1>3. PtrHead \in Nat
  BY <1>2 DEF PtrHead
<1> DEFINE s == SearchNptr
<1>4. s # None =>
        /\ s \in Nat /\ PtrHead + s + P <= egptr /\ PtrHead + s <= Len(text)
        /\ text # <<>>
  BY <1>0, <1>2, <1>3, SearchFits DEF SearchNptr
<1>5. searching' \in Nat
  <2>1. CASE searching' = searching
    BY <1>2, <2>1
  <2>2. CASE s # None /\ searching' = searching + s + P
    BY <1>2, <1>4, <2>2
  <2> QED BY <2>1, <2>2 DEF PointTo, NoFirstPointer, FirstPointer, Pointer, NoMorePointer
<1>6. off' \in Nat /\ maxRec' \in Nat /\ distance' \in Int
  <2>1. CASE NoFirstPointer
    BY <1>0, <2>1 DEF NoFirstPointer, StreamIsSound, ValuesAreSound
  <2>2. CASE FirstPointer
    BY <1>0, <2>2 DEF FirstPointer, StreamIsSound, ValuesAreSound
  <2>3. CASE Pointer
    <3>1. s \in Nat
      BY <1>4, <2>3 DEF Pointer
    <3> QED BY <1>2, <2>3, <3>1 DEF Pointer, Larger
  <2>4. CASE NoMorePointer
    <3>1. egptr - PtrHead \in Int
      BY <1>2, <1>3
    <3> QED BY <1>2, <2>4, <3>1 DEF NoMorePointer
  <2> QED BY <2>1, <2>2, <2>3, <2>4 DEF PointTo
<1>7. records' \in Seq(Seq(Letters))
  <2>1. records \in Seq(Seq(Letters))
    BY <1>0 DEF StreamIsSound, ValuesAreSound
  <2>2. CASE Pointer
    <3> DEFINE p == PtrHead
    <3>1. s \in Nat /\ p + s <= Len(text) /\ p \in Nat /\ p <= p + s /\ p + s \in Nat
      BY <1>3, <1>4, <2>2 DEF Pointer
    <3>2. SubSeq(text, p + 1, p + s) \in Seq(Letters)
      BY <1>2, <3>1, PieceOf
    <3> QED BY <2>1, <2>2, <3>2, AppendProperties DEF Pointer
  <2> QED BY <2>1, <2>2 DEF PointTo, NoFirstPointer, FirstPointer, NoMorePointer
<1>8. /\ found' \in BOOLEAN /\ failed' \in BOOLEAN
      /\ state' \in {"INITED", "PMATCH", "UNINITED"}
      /\ pc' \in {"idle", "pointer"}
  BY <1>0 DEF PointTo, NoFirstPointer, FirstPointer, Pointer, NoMorePointer,
              StreamIsSound, ValuesAreSound
<1>9. record' = record /\ piece' = piece /\ room' = room /\ P' = P /\ pattern' = pattern
      /\ base' = base /\ gptr' = gptr
  BY DEF PointTo, NoFirstPointer, FirstPointer, Pointer, NoMorePointer,
         PointerFrame, setup, P, streamVars
<1>10. ValuesAreSound'
  BY <1>0, <1>1, <1>5, <1>6, <1>7, <1>8, <1>9
  DEF StreamIsSound, ValuesAreSound, setup
<1>11. "pointer" \in client
  BY <1>0 DEF PointTo, NoFirstPointer, FirstPointer, Pointer, NoMorePointer, CallIsSound
<1>12. ~isOpen => state' # "PMATCH"
  BY <1>0, <1>4 DEF PointTo, NoFirstPointer, FirstPointer, Pointer, NoMorePointer, CallIsSound
<1>13. CallIsSound'
  BY <1>0, <1>1, <1>8, <1>9, <1>11, <1>12 DEF CallIsSound, setup
<1>14. NothingBefore'
  BY <1>0, <1>8, <1>9
  DEF PointTo, NoFirstPointer, FirstPointer, Pointer, NoMorePointer, NothingBefore
<1> QED BY <1>1, <1>10, <1>13, <1>14 DEF Sound, StreamIsSound

(* The beginning of a call, and a call that cannot begin.                  *)
LEMMA SoundCalls ==
  ASSUME Sound, UNCHANGED setup,
         Uninited \/ GetPointer \/ \E size \in Sizes : GetRecord(size)
  PROVE  Sound'
<1>0. StreamIsSound /\ CallIsSound /\ NothingBefore
  BY DEF Sound
<1>1. CASE Uninited
  BY <1>0, <1>1
  DEF Sound, StreamIsSound, PlacesAreSound, ValuesAreSound, CallIsSound, NothingBefore,
      Uninited, streamVars, searchVars, history, setup, P
<1>2. CASE GetPointer
  BY <1>0, <1>2
  DEF Sound, StreamIsSound, PlacesAreSound, ValuesAreSound, CallIsSound, NothingBefore,
      GetPointer, streamVars, searchVars, history, setup, P
<1>3. ASSUME NEW size \in Sizes, GetRecord(size) PROVE Sound'
  <2>1. size - 1 \in Nat /\ <<>> \in Seq(Letters)
    BY StreamAssumption, EmptySeq
  <2>2. room' = size - 1 /\ off' = 0 /\ room' \in Nat /\ off' <= room'
    BY <1>3, <2>1 DEF GetRecord
  <2>3. PlacesAreSound'
    BY <1>0, <1>3 DEF GetRecord, StreamIsSound, PlacesAreSound, streamVars, history
  <2>4. ValuesAreSound'
    BY <1>0, <1>3, <2>1, <2>2
    DEF GetRecord, StreamIsSound, ValuesAreSound, streamVars, searchVars, history, setup, P
  <2>5. CallIsSound' /\ NothingBefore'
    BY <1>0, <1>3
    DEF GetRecord, CallIsSound, NothingBefore, streamVars, searchVars, history, setup
  <2> QED BY <2>3, <2>4, <2>5 DEF Sound, StreamIsSound
<1> QED BY <1>1, <1>2, <1>3

LEMMA SoundClear == ASSUME Sound, Clear PROVE Sound'
BY DEF Sound, StreamIsSound, PlacesAreSound, ValuesAreSound, CallIsSound, NothingBefore,
       Clear, searchVars, history, setup, P

LEMMA SoundOpenFails == ASSUME Sound, OpenFails PROVE Sound'
BY DEF Sound, StreamIsSound, PlacesAreSound, ValuesAreSound, CallIsSound, NothingBefore,
       OpenFails, streamVars, searchVars, history, setup, P

LEMMA SoundResearch == ASSUME Sound, Research PROVE Sound'
<1>0. StreamIsSound /\ CallIsSound /\ NothingBefore
  BY DEF Sound
<1>1. gptr \in Nat /\ egptr \in Nat /\ Len(text) \in Nat /\ start \in 0 .. Len(text)
  BY <1>0, StreamFacts
<1>2. base' = gptr /\ gptr \in 0 .. gptr
  BY <1>1 DEF Research
<1>3. PlacesAreSound'
  BY <1>0, <1>2 DEF Research, StreamIsSound, PlacesAreSound
<1>4. <<>> \in Seq(Letters) /\ <<>> \in Seq(Seq(Letters))
  BY EmptySeq
<1>5. ValuesAreSound'
  BY <1>0, <1>4 DEF Research, Restarted, StreamIsSound, ValuesAreSound, setup, P
<1>6. CallIsSound' /\ NothingBefore'
  BY <1>0 DEF Research, Restarted, CallIsSound, NothingBefore, setup
<1> QED BY <1>3, <1>5, <1>6 DEF Sound, StreamIsSound

(* A shorter pattern keeps the size of a longer one.                       *)
LEMMA OverwrittenMeans ==
  ASSUME StreamIsSound, NEW q \in Patterns
  PROVE  /\ Overwritten(q) \in Seq(Characters)
         /\ Len(Overwritten(q)) >= 2 /\ Len(Overwritten(q)) >= Len(q)
<1> DEFINE n == Larger(P, Len(q))
           e(i) == IF i <= Len(q) THEN q[i] ELSE IF i = Len(q) + 1 THEN Nul ELSE pattern[i]
<1>1. q \in Seq(Letters) /\ Len(q) \in Nat /\ Len(q) >= 2
  BY StreamAssumption, LenProperties
<1>2. P \in Nat /\ pattern \in Seq(Characters)
  BY StreamFacts
<1>3. n \in Nat /\ n >= Len(q) /\ n >= 2 /\ (n = Len(q) \/ n = P)
  BY <1>1, <1>2 DEF Larger
<1> HIDE DEF n
<1>4. ASSUME NEW i \in 1 .. n PROVE e(i) \in Characters
  <2>1. CASE i \in 1 .. Len(q)
    BY <1>1, <2>1, ElementOfSeq DEF Characters
  <2>2. CASE i = Len(q) + 1
    BY <1>1, <2>2 DEF Characters
  <2>3. CASE i > Len(q) + 1
    <3>1. i \in 1 .. Len(pattern)
      BY <1>1, <1>2, <1>3, <2>3 DEF P
    <3>2. pattern[i] \in Characters
      BY <1>2, <3>1, ElementOfSeq
    <3> QED BY <1>1, <2>3, <3>2
  <2> QED BY <1>1, <1>3, <2>1, <2>2, <2>3
<1> DEFINE f == [i \in 1 .. n |-> e(i)]
<1>5. f \in [1 .. n -> Characters]
  BY <1>4
<1>6. Overwritten(q) = f
  BY DEF Overwritten, n
<1> HIDE DEF e, f
<1>7. f \in Seq(Characters)
  BY <1>3, <1>5, SeqDef
<1>8. Len(f) = n
  <2>1. DOMAIN f = 1 .. n /\ DOMAIN f = 1 .. Len(f) /\ Len(f) \in Nat
    BY <1>5, <1>7, LenProperties
  <2> QED BY <1>3, <2>1
<1> QED BY <1>3, <1>6, <1>7, <1>8

LEMMA SoundBeginPattern ==
  ASSUME Sound, NEW q \in Patterns, BeginPattern(q)
  PROVE  Sound'
<1>0. StreamIsSound /\ CallIsSound /\ NothingBefore
  BY DEF Sound
<1>1. /\ pattern' \in Seq(Characters) /\ Len(pattern') >= 2 /\ Len(pattern') >= Len(asked')
      /\ asked' = q
  BY <1>0, OverwrittenMeans DEF BeginPattern
<1>2. PlacesAreSound'
  BY <1>0 DEF BeginPattern, StreamIsSound, PlacesAreSound, streamVars, history
<1>3. ValuesAreSound'
  BY <1>0, <1>1 DEF BeginPattern, StreamIsSound, ValuesAreSound, streamVars, searchVars, history, P
<1>4. CallIsSound' /\ NothingBefore'
  BY <1>0 DEF BeginPattern, CallIsSound, NothingBefore, streamVars, searchVars, history
<1> QED BY <1>2, <1>3, <1>4 DEF Sound, StreamIsSound

LEMMA PlacesInNewText ==
  ASSUME NEW t \in Texts, NewText(t)
  PROVE  PlacesAreSound'
<1>1. Len(t) \in Nat /\ Chunk \in Nat /\ Chunk >= 2
  BY StreamAssumption, LenProperties
<1>2. /\ Smaller(Len(t), Chunk) \in 0 .. Len(t)
      /\ 0 \in 0 .. Smaller(Len(t), Chunk)
      /\ Smaller(Len(t), Chunk) - 0 <= Chunk
      /\ (0 = Smaller(Len(t), Chunk) => 0 = Len(t))
      /\ (Len(t) <= Chunk => Smaller(Len(t), Chunk) = Len(t))
      /\ 0 \in 0 .. 0 /\ 0 \in 0 .. Len(t)
  BY <1>1 DEF Smaller
<1> QED BY <1>2 DEF NewText, PlacesAreSound

LEMMA SoundNewText ==
  ASSUME Sound,
         \/ Close
         \/ \E t \in NewTexts : Open(t) \/ Str(t)
  PROVE  Sound'
<1>0. StreamIsSound /\ CallIsSound /\ NothingBefore
  BY DEF Sound
<1>1. <<>> \in Seq(Letters) /\ <<>> \in Seq(Seq(Letters)) /\ Len(<<>>) = 0
  BY EmptySeq
<1>2. CASE Close
  <2>1. NewText(<<>>) /\ <<>> \in Texts
    BY <1>2, StreamAssumption DEF Close
  <2>2. PlacesAreSound'
    BY <2>1, PlacesInNewText
  <2>3. ValuesAreSound'
    BY <1>0, <1>1, <1>2, <2>1
    DEF Close, NewText, Restarted, StreamIsSound, ValuesAreSound, P
  <2>4. CallIsSound' /\ NothingBefore'
    BY <1>0, <1>1, <1>2, <2>1
    DEF Close, NewText, Restarted, CallIsSound, NothingBefore
  <2> QED BY <2>2, <2>3, <2>4 DEF Sound, StreamIsSound
<1>3. ASSUME NEW t \in NewTexts, Open(t) PROVE Sound'
  <2>1. NewText(t) /\ t \in Texts
    BY <1>3, StreamAssumption DEF Open
  <2>2. PlacesAreSound'
    BY <2>1, PlacesInNewText
  <2>3. ValuesAreSound'
    BY <1>0, <1>1, <1>3, <2>1
    DEF Open, NewText, Restarted, StreamIsSound, ValuesAreSound, P
  <2>4. CallIsSound' /\ NothingBefore'
    BY <1>0, <1>1, <1>3, <2>1
    DEF Open, NewText, Restarted, CallIsSound, NothingBefore
  <2> QED BY <2>2, <2>3, <2>4 DEF Sound, StreamIsSound
<1>4. ASSUME NEW t \in NewTexts, Str(t) PROVE Sound'
  <2>1. NewText(t) /\ t \in Texts
    BY <1>4, StreamAssumption DEF Str
  <2>2. PlacesAreSound'
    BY <2>1, PlacesInNewText
  <2>3. ValuesAreSound'
    BY <1>0, <1>1, <1>4, <2>1
    DEF Str, NewText, StreamIsSound, ValuesAreSound, setup, searchVars, P
  <2>4. "str" \in client /\ "open" \notin client /\ isOpen
    BY <1>0, <1>4, StreamAssumption DEF Str, CallIsSound, StreamIsSound, ValuesAreSound
  <2>5. CallIsSound' /\ NothingBefore'
    BY <1>0, <1>1, <1>4, <2>1, <2>4
    DEF Str, NewText, CallIsSound, NothingBefore, setup, searchVars
  <2> QED BY <2>2, <2>3, <2>5 DEF Sound, StreamIsSound
<1> QED BY <1>2, <1>3, <1>4

LEMMA SoundNext == ASSUME Sound, [Next]_vars PROVE Sound'
<1>1. CASE Copy /\ UNCHANGED setup
  BY <1>1, SoundSkipArea, SoundFirstMatch, SoundGather, SoundOverflow,
     SoundPartOfRecord, SoundEndOfRecord DEF Copy
<1>2. CASE PointTo /\ UNCHANGED setup
  BY <1>2, SoundPointing
<1>3. CASE /\ Uninited \/ GetPointer \/ \E size \in Sizes : GetRecord(size)
           /\ UNCHANGED setup
  BY <1>3, SoundCalls
<1>4. CASE Clear \/ OpenFails \/ Research \/ \E q \in Patterns : BeginPattern(q)
  BY <1>4, SoundClear, SoundOpenFails, SoundResearch, SoundBeginPattern
<1>5. CASE Close \/ \E t \in NewTexts : Open(t) \/ Str(t)
  BY <1>5, SoundNewText
<1>6. CASE UNCHANGED vars
  BY <1>6 DEF Sound, StreamIsSound, PlacesAreSound, ValuesAreSound, CallIsSound,
              NothingBefore, vars, setup, streamVars, searchVars, history, P
<1> QED BY <1>1, <1>2, <1>3, <1>4, <1>5, <1>6 DEF Next, Get, Step
-----------------------------------------------------------------------------
(* What is put out is the text.                                            *)

LEMMA LettersKnown ==
  /\ \A s \in Seq(Letters) : s \in Seq(Characters)
  /\ \A s \in Seq(Seq(Letters)) : s \in Seq(Seq(Characters))
<1>1. \A s \in Seq(Letters) : s \in Seq(Characters)
  BY SeqMonotonic DEF Characters
<1>2. Seq(Letters) \subseteq Seq(Characters)
  BY <1>1
<1>3. ASSUME NEW s \in Seq(Seq(Letters)) PROVE s \in Seq(Seq(Characters))
  BY <1>2, SeqMonotonic
<1> QED BY <1>1, <1>3

LEMMA PiecesAssociate ==
  \A s, t, u \in Seq(Characters) : (s \o t) \o u = s \o (t \o u)
BY ConcatAssociative

(* n more characters of the text behind the part of a record.              *)
PartGrown(t, g, n, r, p) ==
  LET more == r \o (p \o SubSeq(t, g + 1, g + n))
  IN  /\ more \in Seq(Letters) /\ Len(more) = Len(r \o p) + n
      /\ more = (r \o p) \o SubSeq(t, g + 1, g + n)
      /\ Len(r \o p) <= g /\ r \o p = SubSeq(t, g - Len(r \o p) + 1, g) =>
           more = SubSeq(t, (g + n) - Len(more) + 1, g + n)

LEMMA PartGrows ==
  ASSUME NEW t \in Seq(Letters), NEW g \in Nat, NEW n \in Nat, g + n <= Len(t),
         NEW r \in Seq(Letters), NEW p \in Seq(Letters)
  PROVE  PartGrown(t, g, n, r, p)
<1> DEFINE c == SubSeq(t, g + 1, g + n)
           more == r \o (p \o c)
           b == g - Len(r \o p)
<1>1. Len(t) \in Nat
  BY LenProperties
<1>2. c \in Seq(Letters) /\ Len(c) = (g + n) - g
  BY <1>1, PieceOf
<1> HIDE DEF c
<1>3. r \o p \in Seq(Letters) /\ Len(r \o p) \in Nat
  BY ConcatProperties, LenProperties
<1>4. (r \o p) \o c = more
  <2>1. c \in Seq(Characters) /\ r \in Seq(Characters) /\ p \in Seq(Characters)
    BY <1>2, LettersKnown
  <2> QED BY <2>1, PiecesAssociate
<1>5. (r \o p) \o c \in Seq(Letters) /\ Len((r \o p) \o c) = Len(r \o p) + Len(c)
  <2> DEFINE rp == r \o p
  <2>1. rp \in Seq(Letters) /\ c \in Seq(Letters)
    BY <1>2, <1>3
  <2> HIDE DEF rp
  <2>2. rp \o c \in Seq(Letters) /\ Len(rp \o c) = Len(rp) + Len(c)
    BY <2>1, ConcatProperties
  <2> QED BY <2>2 DEF rp
<1>6. more \in Seq(Letters) /\ Len(more) = Len(r \o p) + n
  BY <1>2, <1>4, <1>5
<1>7. ASSUME Len(r \o p) <= g, r \o p = SubSeq(t, b + 1, g)
      PROVE  more = SubSeq(t, (g + n) - Len(more) + 1, g + n)
  <2>1. b \in Nat /\ b <= g /\ g <= g + n /\ g + n \in Nat
    BY <1>3, <1>7
  <2>2. (g + n) - Len(more) = b
    BY <1>3, <1>6
  <2> HIDE DEF b, more
  <2>3. SubSeq(t, b + 1, g) \o c = SubSeq(t, b + 1, g + n)
    BY <2>1, PiecesJoin DEF c
  <2> QED BY <1>4, <1>7, <2>2, <2>3
<1> QED BY <1>4, <1>6, <1>7 DEF c, PartGrown

(* What was put out in order stays so when n more characters follow, to    *)
(* the same record or as its end.                                          *)
OrderGrown(t, a, g, n, q, rs, p) ==
  LET more == p \o SubSeq(t, g + 1, g + n)
  IN  SubSeq(t, a + 1, g) = Joined(q, rs) \o (q \o p) =>
        /\ SubSeq(t, a + 1, g + n) = Joined(q, rs) \o (q \o more)
        /\ SubSeq(t, a + 1, g + n) = Joined(q, Append(rs, more))

LEMMA OrderGrows ==
  ASSUME NEW t \in Seq(Letters), NEW a \in Nat, NEW g \in Nat, NEW n \in Nat,
         a <= g, g + n <= Len(t), NEW q \in Seq(Characters),
         NEW rs \in Seq(Seq(Letters)), NEW p \in Seq(Letters)
  PROVE  OrderGrown(t, a, g, n, q, rs, p)
<1> DEFINE c == SubSeq(t, g + 1, g + n)
           j == Joined(q, rs)
<1>1. Len(t) \in Nat
  BY LenProperties
<1>2. c \in Seq(Letters)
  BY <1>1, PieceOf
<1>3. SubSeq(t, a + 1, g) \o c = SubSeq(t, a + 1, g + n)
  BY <1>1, PiecesJoin
<1> HIDE DEF c
<1>4. /\ c \in Seq(Characters) /\ p \in Seq(Characters)
      /\ rs \in Seq(Seq(Characters))
  BY <1>2, LettersKnown
<1>5. p \o c \in Seq(Characters) /\ q \o p \in Seq(Characters)
  BY <1>4, ConcatProperties
<1> DEFINE more == p \o c
           qp == q \o p
<1>6. more \in Seq(Characters) /\ qp \in Seq(Characters)
  BY <1>5
<1> HIDE DEF j, more, qp
<1>7. j \in Seq(Characters) /\ Joined(q, Append(rs, more)) = j \o (q \o more)
  BY <1>4, <1>6, JoinedAppend DEF j
<1>8. (j \o qp) \o c = j \o (qp \o c)
  BY <1>4, <1>6, <1>7, PiecesAssociate
<1>9. (q \o p) \o c = q \o (p \o c)
  BY <1>4, PiecesAssociate
<1>10. qp \o c = q \o more
  BY <1>9 DEF qp, more
<1> HIDE DEF c
<1>11. ASSUME SubSeq(t, a + 1, g) = j \o qp
       PROVE  SubSeq(t, a + 1, g + n) = j \o (q \o more)
  BY <1>3, <1>8, <1>10, <1>11
<1> QED BY <1>7, <1>11 DEF c, j, qp, more, OrderGrown

TextKept == PartIsText /\ PiecesInOrder

LEMMA TextCases ==
  ASSUME state # "PMATCH" \/ lost \/ "copy" \notin client
  PROVE  TextKept
BY DEF TextKept, PartIsText, PiecesInOrder

(* While copying, in terms of what was put out.                            *)
LEMMA TextFacts ==
  ASSUME Sound, TextKept, state = "PMATCH", ~lost, pc = "copy"
  PROVE  /\ start \in Nat /\ start <= gptr /\ "copy" \in client /\ ~eof /\ ~failed
         /\ record \in Seq(Letters) /\ piece \in Seq(Letters)
         /\ record \o piece \in Seq(Letters) /\ records \in Seq(Seq(Letters))
         /\ Len(record \o piece) \in Nat /\ Len(record \o piece) <= gptr
         /\ record \o piece = SubSeq(text, gptr - Len(record \o piece) + 1, gptr)
         /\ SubSeq(text, start + 1, gptr) =
              Joined(pattern, records) \o (pattern \o (record \o piece))
<1>1. "copy" \in client /\ ~eof /\ ~failed
  BY DEF Sound, CallIsSound
<1>2. record \in Seq(Letters) /\ piece \in Seq(Letters) /\ records \in Seq(Seq(Letters))
  BY DEF Sound, StreamIsSound, ValuesAreSound
<1>3. record \o piece \in Seq(Letters) /\ Len(record \o piece) \in Nat
  BY <1>2, ConcatProperties, LenProperties
<1>4. start \in Nat
  BY StreamFacts DEF Sound
<1>5. PartOut = record \o piece
  BY DEF PartOut
<1>6. /\ start <= gptr /\ Len(PartOut) <= gptr
      /\ PartOut = SubSeq(text, gptr - Len(PartOut) + 1, gptr)
  BY <1>1 DEF TextKept, PartIsText, Behind
<1>7. SubSeq(text, start + 1, gptr) =
        Joined(pattern, records) \o (pattern \o (record \o piece))
  BY <1>1 DEF TextKept, PiecesInOrder
<1> QED BY <1>1, <1>2, <1>3, <1>4, <1>5, <1>6, <1>7

LEMMA TextFirstMatch ==
  ASSUME Sound, FirstMatch, UNCHANGED setup
  PROVE  TextKept'
<1>0. StreamIsSound /\ CallIsSound /\ NothingBefore
  BY DEF Sound
<1>1. /\ egptr \in Nat /\ gptr \in Nat /\ Len(text) \in Nat
      /\ text \in Seq(Letters) /\ pattern \in Seq(Characters)
      /\ P \in Nat /\ P >= 2
  BY <1>0, StreamFacts
<1> DEFINE s == Search(gptr)
<1>2. s \in Nat /\ Match(gptr + s) /\ gptr + s + P <= egptr
  BY <1>0, <1>1, SearchMeans DEF FirstMatch
<1>3. Consume(s + P) /\ start' = gptr + s
  BY DEF FirstMatch
<1>4. s + P \in Nat /\ s + P <= Avail
  BY <1>1, <1>2 DEF Avail
<1> HIDE DEF s
<1>5. text' = text /\ gptr' = gptr + (s + P)
  BY <1>0, <1>3, <1>4, ConsumeMeans
<1>6. PICK g \in Nat : gptr' = g /\ g = gptr + s + P
  BY <1>1, <1>2, <1>4, <1>5
<1>7. PICK a \in Nat : start' = a /\ a = gptr + s
  BY <1>1, <1>2, <1>3
<1>8. /\ record' = <<>> /\ piece' = <<>> /\ records' = <<>> /\ pc' = "copy"
      /\ eof' = FALSE /\ pattern' = pattern
  BY <1>0 DEF FirstMatch, NothingBefore, CallIsSound, setup
<1>9. <<>> \o <<>> = <<>> /\ Len(<<>>) = 0
  BY EmptySeq, ConcatEmptySeq
<1>10. PartOut' = <<>>
  BY <1>8, <1>9 DEF PartOut
<1>11. SubSeq(text, g - 0 + 1, g) = <<>>
  BY <1>6, SubSeqEmpty
<1>12. Behind' = g - 0
  BY <1>6, <1>9, <1>10 DEF Behind
<1>13. PartIsText'
  <2>1. a <= g /\ 0 <= g
    BY <1>1, <1>6, <1>7
  <2> QED BY <1>5, <1>6, <1>7, <1>8, <1>9, <1>10, <1>11, <1>12, <2>1 DEF PartIsText
<1>14. SubSeq(text, a + 1, g) = pattern
  <2>1. g = a + P
    BY <1>1, <1>2, <1>6, <1>7
  <2> QED BY <1>2, <1>7, <2>1 DEF Match
<1>15. Joined(pattern, <<>>) \o (pattern \o <<>>) = pattern
  <2>1. Joined(pattern, <<>>) = <<>>
    BY JoinedEmpty
  <2>2. pattern \o <<>> = pattern /\ <<>> \o pattern = pattern
    BY <1>1, ConcatEmptySeq
  <2> QED BY <2>1, <2>2
<1>16. PiecesInOrder'
  BY <1>5, <1>6, <1>7, <1>8, <1>9, <1>14, <1>15 DEF PiecesInOrder
<1> QED BY <1>13, <1>16 DEF TextKept

(* n more characters are read and put out.                                 *)
LEMMA TextReads ==
  ASSUME Sound, TextKept, state = "PMATCH", ~lost, pc = "copy",
         NEW n \in Nat, n <= Avail
  PROVE  LET more == record \o (piece \o Chars(n))
         IN  /\ more \in Seq(Letters) /\ Len(more) \in Nat
             /\ Len(more) = Len(record \o piece) + n
             /\ Len(more) <= gptr + n
             /\ more = SubSeq(text, (gptr + n) - Len(more) + 1, gptr + n)
             /\ SubSeq(text, start + 1, gptr + n) =
                  Joined(pattern, records) \o (pattern \o more)
             /\ SubSeq(text, start + 1, gptr + n) =
                  Joined(pattern, Append(records, more))
<1> DEFINE c == Chars(n)
           more == record \o (piece \o c)
           old == record \o piece
<1>1. /\ egptr \in Nat /\ gptr \in Nat /\ Len(text) \in Nat
      /\ egptr <= Len(text) /\ text \in Seq(Letters) /\ pattern \in Seq(Characters)
  BY StreamFacts DEF Sound
<1>2. gptr + n <= Len(text)
  BY <1>1 DEF Avail
<1>3. /\ start \in Nat /\ start <= gptr
      /\ record \in Seq(Letters) /\ piece \in Seq(Letters) /\ records \in Seq(Seq(Letters))
      /\ old \in Seq(Letters) /\ Len(old) \in Nat /\ Len(old) <= gptr
      /\ old = SubSeq(text, gptr - Len(old) + 1, gptr)
      /\ SubSeq(text, start + 1, gptr) = Joined(pattern, records) \o (pattern \o old)
  BY TextFacts
<1>4. c = SubSeq(text, gptr + 1, gptr + n)
  BY DEF Chars
<1> HIDE DEF c
<1>11. /\ text \in Seq(Letters) /\ gptr \in Nat /\ gptr + n <= Len(text)
       /\ record \in Seq(Letters) /\ piece \in Seq(Letters)
  BY <1>1, <1>2, <1>3
<1>12. PartGrown(text, gptr, n, record, piece)
  BY <1>11, PartGrows
<1>5. /\ more \in Seq(Letters) /\ Len(more) = Len(old) + n
      /\ more = old \o c
      /\ Len(old) <= gptr /\ old = SubSeq(text, gptr - Len(old) + 1, gptr) =>
           more = SubSeq(text, (gptr + n) - Len(more) + 1, gptr + n)
  BY <1>4, <1>12 DEF PartGrown
<1> HIDE DEF more, old
<1>6. /\ Len(more) \in Nat /\ Len(more) <= gptr + n
  BY <1>1, <1>3, <1>5
<1>7. more = SubSeq(text, (gptr + n) - Len(more) + 1, gptr + n)
  BY <1>3, <1>5
<1>13. /\ start \in Nat /\ start <= gptr /\ pattern \in Seq(Characters)
       /\ records \in Seq(Seq(Letters)) /\ old \in Seq(Letters)
  BY <1>1, <1>3
<1>14. OrderGrown(text, start, gptr, n, pattern, records, old)
  BY <1>11, <1>13, OrderGrows
<1>8. /\ SubSeq(text, start + 1, gptr + n) = Joined(pattern, records) \o (pattern \o (old \o c))
      /\ SubSeq(text, start + 1, gptr + n) = Joined(pattern, Append(records, old \o c))
  BY <1>3, <1>4, <1>14 DEF OrderGrown
<1>9. /\ SubSeq(text, start + 1, gptr + n) = Joined(pattern, records) \o (pattern \o more)
      /\ SubSeq(text, start + 1, gptr + n) = Joined(pattern, Append(records, more))
  BY <1>5, <1>8
<1>10. more \in Seq(Letters) /\ Len(more) = Len(old) + n
  BY <1>5
<1> QED BY <1>6, <1>7, <1>9, <1>10 DEF more, old, c

LEMMA TextGather ==
  ASSUME Sound, TextKept, Gather, UNCHANGED setup
  PROVE  TextKept'
<1>0. StreamIsSound /\ state = "PMATCH" /\ pc = "copy" /\ state' = state
  BY DEF Sound, Gather, Copying, CopyFrame
<1>1. /\ egptr \in Nat /\ gptr \in Nat /\ Len(text) \in Nat /\ gptr <= egptr
      /\ off \in Nat /\ room \in Nat /\ text \in Seq(Letters)
  BY <1>0, StreamFacts
<1>2. CASE lost
  <2>1. lost'
    BY <1>2 DEF Gather, Complete
  <2> QED BY <2>1 DEF TextKept, PartIsText, PiecesInOrder
<1>3. CASE ~lost
  <2> DEFINE n == Smaller(room - off, Avail)
             more == record \o (piece \o Chars(n))
  <2>1. n \in Nat /\ n <= Avail
    BY <1>1 DEF Gather, Avail, Smaller
  <2>2. Consume(n) /\ piece' = piece \o Chars(n) /\ eof' = AtEnd(n)
    BY DEF Gather
  <2> HIDE DEF n
  <2>3. text' = text /\ gptr' = gptr + n
    BY <1>0, <2>1, <2>2, ConsumeMeans
  <2>4. PICK g \in Nat : gptr' = g /\ g = gptr + n
    BY <1>1, <2>1, <2>3
  <2>5. PICK a \in Nat : start = a /\ start' = a /\ a <= gptr
    <3>1. start \in Nat /\ start <= gptr
      BY <1>0, <1>3, TextFacts
    <3> QED BY <3>1 DEF Gather, CopyFrame
  <2>6. /\ more \in Seq(Letters) /\ Len(more) \in Nat /\ Len(more) <= g
        /\ more = SubSeq(text, g - Len(more) + 1, g)
        /\ SubSeq(text, a + 1, g) = Joined(pattern, records) \o (pattern \o more)
        /\ SubSeq(text, a + 1, g) = Joined(pattern, Append(records, more))
    BY <1>0, <1>3, <2>1, <2>4, <2>5, TextReads
  <2>7. record \o piece' = more /\ pattern' = pattern
    BY <2>2 DEF setup
  <2>8. a <= g
    BY <1>1, <2>1, <2>4, <2>5
  <2> HIDE DEF more
  <2>9. CASE ~eof'
    <3>1. record' = record /\ records' = records /\ pc' = "copy"
      BY <1>0, <2>9 DEF Gather
    <3>2. PartOut' = more
      BY <2>7, <3>1 DEF PartOut
    <3>3. Behind' = g - Len(more)
      BY <2>4, <3>2 DEF Behind
    <3>4. PartIsText'
      BY <2>3, <2>4, <2>5, <2>6, <2>8, <2>9, <3>2, <3>3 DEF PartIsText
    <3>5. PiecesInOrder'
      BY <2>3, <2>4, <2>5, <2>6, <2>7, <2>9, <3>1 DEF PiecesInOrder
    <3> QED BY <3>4, <3>5 DEF TextKept
  <2>10. CASE eof'
    <3>1. /\ records' = Append(records, more) /\ record' = <<>> /\ pc' = "idle"
          /\ failed' = failed
      BY <2>7, <2>10 DEF Gather, Complete
    <3>2. failed = FALSE
      <4>1. ~failed /\ failed \in BOOLEAN
        BY <1>0, <1>3, TextFacts DEF StreamIsSound, ValuesAreSound
      <4> QED BY <4>1
    <3>3. PartIsText'
      BY <2>4, <2>5, <2>8, <2>10, <3>1, <3>2 DEF PartIsText
    <3>4. SubSeq(text, a + 1, g) \in Seq(Letters)
      <4>1. g <= Len(text)
        BY <1>1, <2>1, <2>3, <2>4, ConsumeMeans, <1>0, <2>2
      <4> QED BY <1>1, <2>8, <4>1, PieceOf
    <3>5. Joined(pattern, Append(records, more)) \o <<>> = SubSeq(text, a + 1, g)
      BY <2>6, <3>4, ConcatEmptySeq
    <3>6. PiecesInOrder'
      BY <2>3, <2>4, <2>5, <2>7, <2>10, <3>1, <3>5 DEF PiecesInOrder
    <3> QED BY <3>3, <3>6 DEF TextKept
  <2> QED BY <2>9, <2>10
<1> QED BY <1>2, <1>3

LEMMA TextPartOfRecord ==
  ASSUME Sound, TextKept, PartOfRecord, UNCHANGED setup
  PROVE  TextKept'
<1>0. StreamIsSound /\ state = "PMATCH" /\ pc = "copy" /\ state' = state
  BY DEF Sound, PartOfRecord, Copying, CopyFrame
<1>1. /\ egptr \in Nat /\ gptr \in Nat /\ Len(text) \in Nat /\ gptr <= egptr
      /\ off \in Nat /\ room \in Nat /\ text \in Seq(Letters) /\ P \in Nat
  BY <1>0, StreamFacts
<1>2. CASE lost
  <2>1. lost'
    BY <1>2 DEF PartOfRecord
  <2> QED BY <2>1 DEF TextKept, PartIsText, PiecesInOrder
<1>3. CASE ~lost
  <2> DEFINE n == room - off
             more == record \o (piece \o Chars(n))
  <2>1. n \in Nat /\ n <= Avail
    <3>1. off <= room
      BY <1>0 DEF StreamIsSound, ValuesAreSound
    <3>2. Search(gptr) > n
      BY DEF PartOfRecord
    <3>3. Search(gptr) # None
      BY <1>1, <3>1, <3>2 DEF None
    <3>4. Search(gptr) \in Nat /\ gptr + Search(gptr) + P <= egptr
      BY <1>0, <1>1, <3>3, SearchFits
    <3> QED BY <1>1, <3>1, <3>2, <3>4 DEF Avail
  <2>2. /\ Consume(n) /\ piece' = piece \o Chars(n) /\ record' = record \o piece'
        /\ pc' = "idle" /\ eof' = eof /\ records' = records /\ start' = start
        /\ pattern' = pattern
    BY DEF PartOfRecord, CopyFrame, setup
  <2> HIDE DEF n
  <2>3. text' = text /\ gptr' = gptr + n
    BY <1>0, <2>1, <2>2, ConsumeMeans
  <2>4. PICK g \in Nat : gptr' = g /\ g = gptr + n
    BY <1>1, <2>1, <2>3
  <2>5. PICK a \in Nat : start = a /\ start' = a /\ a <= gptr
    <3>1. start \in Nat /\ start <= gptr
      BY <1>0, <1>3, TextFacts
    <3> QED BY <2>2, <3>1
  <2>6. /\ more \in Seq(Letters) /\ Len(more) \in Nat /\ Len(more) <= g
        /\ more = SubSeq(text, g - Len(more) + 1, g)
        /\ SubSeq(text, a + 1, g) = Joined(pattern, records) \o (pattern \o more)
    BY <1>0, <1>3, <2>1, <2>4, <2>5, TextReads
  <2>7. record' = more
    BY <2>2
  <2>8. a <= g
    BY <1>1, <2>1, <2>4, <2>5
  <2>9. ~eof /\ eof' = eof
    BY <1>0, <1>3, <2>2, TextFacts
  <2> HIDE DEF more
  <2>10. more \o <<>> = more
    BY <2>6, ConcatEmptySeq
  <2>11. PartOut' = more
    BY <2>2, <2>7, <2>10 DEF PartOut
  <2>12. Behind' = g - Len(more)
    BY <2>4, <2>11 DEF Behind
  <2>13. PartIsText'
    BY <2>3, <2>4, <2>5, <2>6, <2>8, <2>9, <2>11, <2>12 DEF PartIsText
  <2>14. PiecesInOrder'
    <3>1. record' \o (IF pc' = "copy" THEN piece' ELSE <<>>) = more
      BY <2>2, <2>7, <2>10
    <3>2. SubSeq(text', start' + 1, gptr') = Joined(pattern', records') \o (pattern' \o more)
      BY <2>2, <2>3, <2>4, <2>5, <2>6
    <3>3. eof' = FALSE
      BY <1>0, <2>9 DEF StreamIsSound, ValuesAreSound
    <3> QED BY <3>1, <3>2, <3>3 DEF PiecesInOrder
  <2> QED BY <2>13, <2>14 DEF TextKept
<1> QED BY <1>2, <1>3

LEMMA TextEndOfRecord ==
  ASSUME Sound, TextKept, EndOfRecord, UNCHANGED setup
  PROVE  TextKept'
<1>0. StreamIsSound /\ state = "PMATCH" /\ pc = "copy" /\ state' = state
  BY DEF Sound, EndOfRecord, Copying, CopyFrame
<1>1. /\ egptr \in Nat /\ gptr \in Nat /\ Len(text) \in Nat /\ gptr <= egptr
      /\ off \in Nat /\ room \in Nat /\ text \in Seq(Letters) /\ P \in Nat
      /\ egptr <= Len(text) /\ pattern \in Seq(Characters)
  BY <1>0, StreamFacts
<1>2. CASE lost
  <2>1. lost'
    BY <1>2 DEF EndOfRecord, Complete
  <2> QED BY <2>1 DEF TextKept, PartIsText, PiecesInOrder
<1>3. CASE ~lost
  <2> DEFINE n == Search(gptr)
             more == record \o (piece \o Chars(n))
  <2>1. n \in Nat /\ gptr + n + P <= egptr /\ Match(gptr + n)
    <3>1. n \in 0 .. room - off
      BY DEF EndOfRecord
    <3>2. n # None
      BY <1>1, <3>1 DEF None
    <3> QED BY <1>0, <1>1, <3>2, SearchMeans
  <2>2. /\ Consume(n + P) /\ piece' = piece \o Chars(n)
        /\ records' = Append(records, record \o piece') /\ record' = <<>>
        /\ pc' = "idle" /\ eof' = eof /\ start' = start
        /\ pattern' = pattern
    BY DEF EndOfRecord, CopyFrame, Complete, setup
  <2> HIDE DEF n
  <2>3. n <= Avail /\ n + P <= Avail /\ n + P \in Nat
    BY <1>1, <2>1 DEF Avail
  <2>4. text' = text /\ gptr' = gptr + (n + P)
    BY <1>0, <2>2, <2>3, ConsumeMeans
  <2>5. PICK e \in Nat : e = gptr + n
    BY <1>1, <2>1
  <2>6. PICK g \in Nat : gptr' = g /\ g = e + P /\ g <= Len(text) /\ e <= g
    BY <1>1, <2>1, <2>3, <2>4, <2>5
  <2>7. PICK a \in Nat : start = a /\ start' = a /\ a <= gptr
    <3>1. start \in Nat /\ start <= gptr
      BY <1>0, <1>3, TextFacts
    <3> QED BY <2>2, <3>1
  <2>8. SubSeq(text, a + 1, e) = Joined(pattern, Append(records, more))
    BY <1>0, <1>3, <2>1, <2>3, <2>5, <2>7, TextReads
  <2>9. records' = Append(records, more)
    BY <2>2
  <2> HIDE DEF more
  <2>10. a <= e /\ a <= g
    BY <1>1, <2>1, <2>5, <2>6, <2>7
  <2>11. SubSeq(text, e + 1, g) = pattern
    BY <2>1, <2>5, <2>6 DEF Match
  <2>12. SubSeq(text, a + 1, e) \o SubSeq(text, e + 1, g) = SubSeq(text, a + 1, g)
    BY <1>1, <2>6, <2>10, PiecesJoin
  <2>13. ~eof /\ eof' = eof
    BY <1>0, <1>3, <2>2, TextFacts
  <2>14. <<>> \o <<>> = <<>> /\ Len(<<>>) = 0 /\ pattern \o <<>> = pattern
    BY <1>1, EmptySeq, ConcatEmptySeq
  <2>15. PartOut' = <<>>
    BY <2>2, <2>14 DEF PartOut
  <2>16. Behind' = g - 0
    BY <2>6, <2>14, <2>15 DEF Behind
  <2>17. SubSeq(text, g - 0 + 1, g) = <<>>
    BY <2>6, SubSeqEmpty
  <2>18. PartIsText'
    <3>1. 0 <= g
      BY <2>6
    <3> QED BY <2>4, <2>6, <2>7, <2>10, <2>13, <2>14, <2>15, <2>16, <2>17, <3>1 DEF PartIsText
  <2>19. PiecesInOrder'
    <3>1. record' \o (IF pc' = "copy" THEN piece' ELSE <<>>) = <<>>
      BY <2>2, <2>14
    <3>2. SubSeq(text', start' + 1, gptr') = Joined(pattern', records') \o pattern'
      BY <2>2, <2>4, <2>6, <2>7, <2>8, <2>9, <2>11, <2>12
    <3>3. eof' = FALSE /\ pattern' \o <<>> = pattern'
      BY <1>0, <2>2, <2>13, <2>14 DEF StreamIsSound, ValuesAreSound
    <3> QED BY <3>1, <3>2, <3>3 DEF PiecesInOrder
  <2> QED BY <2>18, <2>19 DEF TextKept
<1> QED BY <1>2, <1>3

LEMMA TextNext ==
  ASSUME OneForm, Sound, TextKept, [Next]_vars
  PROVE  TextKept'
<1>1. CASE SkipArea /\ UNCHANGED setup
  BY <1>1 DEF SkipArea, TextKept, PartIsText, PiecesInOrder
<1>2. CASE (FirstMatch \/ Gather \/ PartOfRecord \/ EndOfRecord) /\ UNCHANGED setup
  BY <1>2, TextFirstMatch, TextGather, TextPartOfRecord, TextEndOfRecord
<1>3. CASE Overflow
  BY <1>3 DEF Overflow, TextKept, PartIsText, PiecesInOrder
<1>4. CASE (PointTo \/ GetPointer) /\ UNCHANGED setup
  <2>1. "pointer" \in client
    BY <1>4 DEF Sound, CallIsSound, PointTo, NoFirstPointer, FirstPointer, Pointer,
                NoMorePointer, GetPointer
  <2>2. "copy" \notin client'
    BY <1>4, <2>1 DEF Sound, StreamIsSound, ValuesAreSound, OneForm, setup
  <2> QED BY <2>2 DEF TextKept, PartIsText, PiecesInOrder
<1>5. CASE Uninited
  BY <1>5 DEF Uninited, TextKept, PartIsText, PiecesInOrder
<1>6. ASSUME NEW size \in Sizes, GetRecord(size), UNCHANGED setup PROVE TextKept'
  <2>1. /\ UNCHANGED <<text, gptr, eof, state, lost, client, start, record, records, pattern>>
        /\ pc = "idle" /\ pc' = "copy" /\ piece' = <<>> /\ ~eof
    BY <1>6 DEF GetRecord, streamVars, history, setup
  <2>2. PartOut' = PartOut
    BY <2>1 DEF PartOut
  <2>3. Behind' = Behind
    BY <2>1, <2>2 DEF Behind
  <2>4. PartIsText'
    BY <2>1, <2>2, <2>3 DEF TextKept, PartIsText
  <2>5. PiecesInOrder'
    BY <2>1 DEF TextKept, PiecesInOrder
  <2> QED BY <2>4, <2>5 DEF TextKept
<1>7. CASE Clear
  <2>1. UNCHANGED <<text, gptr, state, lost, client, start, record, records, pattern, pc, piece>>
    BY <1>7 DEF Clear, history, setup
  <2>2. state = "PMATCH" /\ ~lost /\ "copy" \in client => ~eof /\ ~eof'
    BY <1>7 DEF Clear, TextKept, PartIsText
  <2>3. PartOut' = PartOut /\ Behind' = Behind
    BY <2>1 DEF PartOut, Behind
  <2>4. PartIsText'
    BY <2>1, <2>2, <2>3 DEF TextKept, PartIsText
  <2>5. PiecesInOrder'
    BY <2>1, <2>2 DEF TextKept, PiecesInOrder
  <2> QED BY <2>4, <2>5 DEF TextKept
<1>8. CASE Research \/ Close \/ \E t \in NewTexts : Open(t) \/ Str(t)
  BY <1>8 DEF Research, Close, Open, Str, Restarted, TextKept, PartIsText, PiecesInOrder
<1>9. CASE OpenFails \/ \E q \in Patterns : BeginPattern(q)
  <2>1. state' # "PMATCH"
    BY <1>9 DEF OpenFails, BeginPattern, Sound, CallIsSound
  <2> QED BY <2>1 DEF TextKept, PartIsText, PiecesInOrder
<1>10. CASE UNCHANGED vars
  <2>1. UNCHANGED <<text, gptr, eof, failed, state, lost, client, start, record, records,
                    pattern, pc, piece>>
    BY <1>10 DEF vars, streamVars, history, setup
  <2>2. PartOut' = PartOut /\ Behind' = Behind
    BY <2>1 DEF PartOut, Behind
  <2> QED BY <2>1, <2>2 DEF TextKept, PartIsText, PiecesInOrder
<1> QED BY <1>1, <1>2, <1>3, <1>4, <1>5, <1>6, <1>7, <1>8, <1>9, <1>10
        DEF Next, Get, Step, Copy

-----------------------------------------------------------------------------
(* What comes out is the reference.                                        *)

(* Where the reference begins records, in terms of searching.              *)
PlacesKnown ==
  /\ Len(Places) \in Nat
  /\ \A k \in 1 .. Len(Places) :
       Begins(k) \in Nat /\ base <= Begins(k) /\ Begins(k) <= Len(text)
  /\ NoMatch(base, Len(text)) => Len(Places) = 0
  /\ \A g \in Nat :
       base <= g /\ g + P <= Len(text) /\ Match(g) /\ NoMatch(base, g - 1) =>
         Len(Places) > 0 /\ Begins(1) = g + P
  /\ \A k \in 1 .. Len(Places) :
       /\ NoMatch(Begins(k), Len(text)) => k = Len(Places)
       /\ \A g \in Nat :
            Begins(k) <= g /\ g + P <= Len(text) /\ Match(g) /\ NoMatch(Begins(k), g - 1) =>
              k < Len(Places) /\ Begins(k + 1) = g + P

LEMMA PlacesMean == ASSUME StreamIsSound, pattern = asked PROVE PlacesKnown
<1>1. /\ text \in Seq(Letters) /\ Len(text) \in Nat /\ P \in Nat /\ P >= 2
      /\ base \in Nat /\ base <= Len(text) /\ P = Len(asked)
  BY StreamFacts DEF P
<1>2. Followed(asked, text, base)
  <2>1. Len(asked) \in Nat \ {0} /\ base \in 0 .. Len(text)
    BY <1>1
  <2> QED BY <1>1, <2>1, RecordsFollow
<1> DEFINE last == Len(text) - P
<1>3. /\ Places \in Seq(Nat) /\ Len(Places) \in Nat
      /\ \A k \in 1 .. Len(Places) :
           Places[k] \in Nat \ {0} /\ Begins(k) \in base + P .. Len(text)
      /\ (\A g \in base .. last : ~Match(g)) => Len(Places) = 0
      /\ \A g \in base .. last :
           Match(g) /\ (\A h \in base .. g - 1 : ~Match(h)) =>
             Len(Places) > 0 /\ Begins(1) = g + P
      /\ \A k \in 1 .. Len(Places) :
           /\ (\A g \in Begins(k) .. last : ~Match(g)) => k = Len(Places)
           /\ \A g \in Begins(k) .. last :
                Match(g) /\ (\A h \in Begins(k) .. g - 1 : ~Match(h)) =>
                  k < Len(Places) /\ Begins(k + 1) = g + P
  <2>1. /\ Places \in Seq(Nat) /\ Len(Places) \in Nat
        /\ \A k \in 1 .. Len(Places) :
             Places[k] \in Nat \ {0} /\ Begins(k) \in base + P .. Len(text)
    BY <1>1, <1>2 DEF Followed, Places, Rest, Begins
  <2>2. /\ (\A g \in base .. last : ~Match(g)) => Len(Places) = 0
        /\ \A g \in base .. last :
             Match(g) /\ (\A h \in base .. g - 1 : ~Match(h)) =>
               Len(Places) > 0 /\ Begins(1) = g + P
    BY <1>1, <1>2 DEF Followed, Places, Rest, Begins, Match
  <2>3. \A k \in 1 .. Len(Places) :
          (\A g \in Begins(k) .. last : ~Match(g)) => k = Len(Places)
    BY <1>1, <1>2 DEF Followed, Places, Rest, Begins, Match
  <2>4. \A k \in 1 .. Len(Places) :
          \A g \in Begins(k) .. last :
            Match(g) /\ (\A h \in Begins(k) .. g - 1 : ~Match(h)) =>
              k < Len(Places) /\ Begins(k + 1) = g + P
    <3> TAKE k \in 1 .. Len(Places)
    <3>1. P = Len(asked)
      BY <1>1
    <3>2. LET Begin(i) == base + Places[i] + Len(asked) - 1
              Matched(g) == SubSeq(text, g + 1, g + Len(asked)) = asked
          IN  \A g \in Begin(k) .. Len(text) - Len(asked) :
                Matched(g) /\ (\A h \in Begin(k) .. g - 1 : ~Matched(h)) =>
                  k < Len(Places) /\ Begin(k + 1) = g + Len(asked)
      BY <1>2 DEF Followed, Places, Rest
    <3> QED BY <3>1, <3>2 DEF Begins, Match
  <2> QED BY <2>1, <2>2, <2>3, <2>4
<1>4. ASSUME NEW from \in Nat, NoMatch(from, Len(text))
      PROVE  \A g \in from .. last : ~Match(g)
  <2> TAKE g \in from .. last
  <2>1. g \in from .. Len(text) /\ g + P <= Len(text)
    BY <1>1
  <2> QED BY <1>4, <2>1 DEF NoMatch
<1>5. ASSUME NEW from \in Nat, NEW g \in Nat, g + P <= Len(text), NoMatch(from, g - 1)
      PROVE  \A h \in from .. g - 1 : ~Match(h)
  <2> TAKE h \in from .. g - 1
  <2>1. h + P <= Len(text)
    BY <1>1, <1>5
  <2> QED BY <1>5, <2>1 DEF NoMatch
<1>6. \A k \in 1 .. Len(Places) :
        Begins(k) \in Nat /\ base <= Begins(k) /\ Begins(k) <= Len(text)
  <2> TAKE k \in 1 .. Len(Places)
  <2>1. Begins(k) \in base + P .. Len(text)
    BY <1>3
  <2> QED BY <1>1, <2>1
<1>7. NoMatch(base, Len(text)) => Len(Places) = 0
  BY <1>1, <1>3, <1>4
<1>8. ASSUME NEW g \in Nat, base <= g, g + P <= Len(text), Match(g), NoMatch(base, g - 1)
      PROVE  Len(Places) > 0 /\ Begins(1) = g + P
  <2>1. g \in base .. last
    BY <1>1, <1>8
  <2>2. \A h \in base .. g - 1 : ~Match(h)
    BY <1>1, <1>5, <1>8
  <2> QED BY <1>3, <1>8, <2>1, <2>2
<1>9. ASSUME NEW k \in 1 .. Len(Places), NoMatch(Begins(k), Len(text))
      PROVE  k = Len(Places)
  BY <1>3, <1>4, <1>6, <1>9
<1>10. ASSUME NEW k \in 1 .. Len(Places), NEW g \in Nat,
              Begins(k) <= g, g + P <= Len(text), Match(g), NoMatch(Begins(k), g - 1)
       PROVE  k < Len(Places) /\ Begins(k + 1) = g + P
  <2>1. Begins(k) \in Nat
    BY <1>6
  <2>2. g \in Begins(k) .. last
    BY <1>1, <1>10, <2>1
  <2>3. \A h \in Begins(k) .. g - 1 : ~Match(h)
    BY <1>5, <1>10, <2>1
  <2> QED BY <1>3, <1>10, <2>2, <2>3
<1> QED BY <1>3, <1>6, <1>7, <1>8, <1>9, <1>10 DEF PlacesKnown

(* The records of the reference, as pieces of the text.                    *)
LEMMA ReferenceMeans ==
  ASSUME StreamIsSound, pattern = asked
  PROVE  /\ Len(Reference) = Len(Places) /\ Len(Places) \in Nat
         /\ \A k \in 1 .. Len(Places) :
              Reference[k] =
                SubSeq(text, Begins(k) + 1,
                       IF k < Len(Places) THEN Begins(k + 1) - P ELSE Len(text))
<1>1. /\ text \in Seq(Letters) /\ Len(text) \in Nat /\ P \in Nat /\ P >= 2
      /\ base \in Nat /\ base <= Len(text) /\ P = Len(asked) /\ base \in 0 .. Len(text)
  BY StreamFacts DEF P
<1>2. Followed(asked, text, base)
  <2>1. Len(asked) \in Nat \ {0}
    BY <1>1
  <2> QED BY <1>1, <2>1, RecordsFollow
<1>3. /\ Len(Rest) = Len(text) - base
      /\ Places \in Seq(Nat) /\ Len(Places) \in Nat
      /\ \A k \in 1 .. Len(Places) :
           Places[k] \in Nat \ {0} /\ Begins(k) \in base + P .. Len(text)
      /\ \A k \in 1 .. Len(Places) - 1 : Places[k] + P <= Places[k + 1]
  BY <1>1, <1>2 DEF Followed, Places, Rest, Begins
<1> DEFINE n == Len(Places)
           upTo(k) == IF k < n THEN Places[k + 1] - 1 ELSE Len(Rest)
           R == [k \in 1 .. n |-> SubSeq(Rest, Places[k] + P, upTo(k))]
<1>4. Reference = R
  <2>1. asked \in Patterns /\ Rest \in Texts
    BY <1>1, StreamAssumption DEF StreamIsSound, ValuesAreSound, PlacesAreSound, Rest
  <2>2. Reference = Split[asked][Rest]
    BY DEF Reference, Rest
  <2> QED BY <1>1, <2>1, <2>2 DEF Split, Places
<1>5. ASSUME NEW k \in 1 .. n
      PROVE  /\ R[k] = SubSeq(text, Begins(k) + 1,
                              IF k < n THEN Begins(k + 1) - P ELSE Len(text))
             /\ R[k] \in Seq(Letters)
  <2> DEFINE i == Places[k] + P
             j == upTo(k)
  <2>1. Places[k] \in Nat \ {0} /\ Begins(k) \in base + P .. Len(text)
    BY <1>3
  <2>2. i \in Nat \ {0} /\ Begins(k) + 1 = base + i /\ base + i - 1 <= Len(text)
    <3> DEFINE x == Places[k]
    <3>1. x \in Nat \ {0} /\ base + x + P - 1 <= Len(text) /\ i = x + P
          /\ Begins(k) = base + x + P - 1
      BY <1>1, <2>1 DEF Begins
    <3> HIDE DEF x, i
    <3> QED BY <1>1, <3>1
  <2> HIDE DEF i
  <2>3. /\ j \in Nat /\ i <= j + 1 /\ j <= Len(text) - base
        /\ base + j = IF k < n THEN Begins(k + 1) - P ELSE Len(text)
    <3>1. CASE k < n
      <4>1. k \in 1 .. Len(Places) - 1 /\ k + 1 \in 1 .. Len(Places)
        BY <1>3, <3>1
      <4>2. Places[k] + P <= Places[k + 1]
        BY <1>3, <4>1
      <4>3. Places[k + 1] \in Nat \ {0} /\ Begins(k + 1) \in base + P .. Len(text)
        BY <1>3, <4>1
      <4>4. j = Places[k + 1] - 1
        BY <3>1
      <4>5. Begins(k + 1) = base + Places[k + 1] + P - 1
        BY DEF Begins
      <4> DEFINE y == Places[k + 1]
      <4>6. /\ y \in Nat \ {0} /\ base + y + P - 1 <= Len(text)
            /\ i <= y /\ j = y - 1 /\ Begins(k + 1) = base + y + P - 1
        BY <1>1, <4>2, <4>3, <4>4, <4>5 DEF i
      <4> HIDE DEF y, upTo
      <4>7. /\ y - 1 \in Nat /\ i <= (y - 1) + 1 /\ y - 1 <= Len(text) - base
            /\ base + (y - 1) = (base + y + P - 1) - P
        BY <1>1, <2>2, <4>6
      <4> QED BY <3>1, <4>6, <4>7
    <3>2. CASE ~(k < n)
      <4>1. j = Len(text) - base
        BY <1>3, <3>2
      <4>2. /\ Len(text) - base \in Nat /\ i <= (Len(text) - base) + 1
            /\ base + (Len(text) - base) = Len(text)
        BY <1>1, <2>2
      <4> QED BY <3>2, <4>1, <4>2
    <3> QED BY <3>1, <3>2
  <2>4. R[k] = SubSeq(Rest, i, j)
    BY DEF i
  <2> HIDE DEF j, R
  <2>5. SubSeq(Rest, i, j) = SubSeq(text, base + i, base + j)
    BY <1>1, <2>2, <2>3, PieceOfRest DEF Rest
  <2>6. SubSeq(text, base + i, base + j) \in Seq(Letters)
    <3>1. Begins(k) \in Nat /\ base + j \in Nat /\ Begins(k) <= base + j /\ base + j <= Len(text)
      BY <1>1, <2>1, <2>2, <2>3
    <3>2. SubSeq(text, Begins(k) + 1, base + j) \in Seq(Letters)
      BY <1>1, <3>1, PieceOf
    <3> QED BY <2>2, <3>2
  <2> QED BY <2>2, <2>3, <2>4, <2>5, <2>6
<1>6. Len(R) = n
  <2>1. R \in [1 .. n -> Seq(Letters)]
    BY <1>5
  <2>4. n \in Nat
    BY <1>3
  <2> HIDE DEF R, n
  <2>2. R \in Seq(Seq(Letters))
    BY <2>1, <2>4, SeqDef
  <2>3. DOMAIN R = 1 .. n /\ DOMAIN R = 1 .. Len(R) /\ Len(R) \in Nat
    BY <2>1, <2>2, LenProperties
  <2> QED BY <2>3, <2>4
<1> HIDE DEF R
<1> QED BY <1>3, <1>4, <1>5, <1>6

LEMMA SearchedAll ==
  ASSUME StreamIsSound, InView, NEW p \in Nat, Search(p) = None
  PROVE  egptr = Len(text) /\ NoMatch(p, Len(text))
<1>1. P \in Nat /\ P >= 2 /\ Len(text) \in Nat
  BY StreamFacts
<1>2. egptr = Len(text)
  BY DEF StreamIsSound, PlacesAreSound, InView
<1>3. \A g \in p .. egptr - P : ~Match(g)
  BY <1>1, SearchMeans DEF None
<1>4. ASSUME NEW g \in p .. Len(text), g + P <= Len(text) PROVE ~Match(g)
  <2>1. g \in p .. egptr - P
    BY <1>1, <1>2, <1>4
  <2> QED BY <1>3, <2>1
<1> QED BY <1>2, <1>4 DEF NoMatch

LEMMA SearchFound ==
  ASSUME StreamIsSound, NEW p \in Nat, Search(p) # None
  PROVE  /\ Search(p) \in Nat /\ p + Search(p) + P <= Len(text)
         /\ Match(p + Search(p)) /\ NoMatch(p, p + Search(p) - 1)
BY SearchFits, SearchMeans DEF NoMatch

LEMMA NoMatchJoins ==
  ASSUME NEW a \in Nat, NEW b \in Nat, NEW c \in Int, NEW d \in Int, d <= c,
         NoMatch(a, b - 1), NoMatch(b, c)
  PROVE  NoMatch(a, d)
<1> SUFFICES ASSUME NEW g \in a .. d, g + P <= Len(text) PROVE ~Match(g)
  BY DEF NoMatch
<1>1. g \in a .. b - 1 \/ g \in b .. c
  OBVIOUS
<1> QED BY <1>1 DEF NoMatch

(* The reference depends on where the search began and what for.           *)
LEMMA ViewKept ==
  ASSUME UNCHANGED <<text, base, asked, pattern>>
  PROVE  /\ P' = P /\ Rest' = Rest /\ Places' = Places /\ Reference' = Reference
         /\ \A i : Begins(i)' = Begins(i)
         /\ \A g : Match(g)' <=> Match(g)
         /\ \A a, b : NoMatch(a, b)' <=> NoMatch(a, b)
<1>1. P' = P /\ Rest' = Rest
  BY DEF P, Rest
<1>2. Places' = Places
  BY <1>1 DEF Places
<1>3. Reference' = Reference
  BY DEF Reference
<1>4. \A i : Begins(i)' = Begins(i)
  BY <1>1, <1>2 DEF Begins
<1>5. \A g : Match(g)' <=> Match(g)
  BY <1>1 DEF Match
<1>6. \A a, b : NoMatch(a, b)' <=> NoMatch(a, b)
  BY <1>1, <1>5 DEF NoMatch
<1> QED BY <1>1, <1>2, <1>3, <1>4, <1>5, <1>6

LEMMA OneMore ==
  ASSUME NEW S, NEW rs \in Seq(S), NEW r \in S, NEW f,
         \A i \in 1 .. Len(rs) : rs[i] = f[i], r = f[Len(rs) + 1]
  PROVE  /\ Len(Append(rs, r)) = Len(rs) + 1
         /\ \A i \in 1 .. Len(rs) + 1 : Append(rs, r)[i] = f[i]
<1> DEFINE more == Append(rs, r)
<1>1. Len(rs) \in Nat
  BY LenProperties
<1>2. /\ Len(more) = Len(rs) + 1 /\ more[Len(rs) + 1] = r
      /\ \A i \in 1 .. Len(rs) : more[i] = rs[i]
  BY AppendProperties
<1> HIDE DEF more
<1>3. \A i \in 1 .. Len(rs) + 1 : i \in 1 .. Len(rs) \/ i = Len(rs) + 1
  BY <1>1
<1>4. \A i \in 1 .. Len(rs) + 1 : more[i] = f[i]
  BY <1>2, <1>3
<1> QED BY <1>2, <1>4 DEF more

(* The k-th record, which begins behind place b, is being copied.          *)
OpenRecord(b, k) ==
  /\ b <= gptr /\ gptr - Len(record \o piece) = b
  /\ Len(records) + 1 = k /\ k <= Len(Places) /\ b = Begins(k)
  /\ \A i \in 1 .. Len(records) : records[i] = Reference[i]
  /\ NoMatch(b, gptr - 1)

LEMMA CopyingFacts ==
  ASSUME Sound, TextKept, CopiesReference, InView, state = "PMATCH", pc = "copy"
  PROVE  \E b \in Nat : \E k \in Nat \ {0} : OpenRecord(b, k)
<1>1. /\ ~eof /\ Len(record \o piece) \in Nat /\ Len(record \o piece) <= gptr
      /\ records \in Seq(Seq(Letters)) /\ "copy" \in client
  BY TextFacts DEF InView
<1>2. gptr \in Nat /\ Len(records) \in Nat
  BY <1>1, StreamFacts, LenProperties DEF Sound
<1>3. PartOut = record \o piece
  BY DEF PartOut
<1>4. Reached(Behind) /\ NoMatch(Behind, gptr - 1)
  BY <1>1 DEF CopiesReference
<1>5. Behind \in Nat /\ Behind <= gptr /\ gptr - Len(record \o piece) = Behind
  BY <1>1, <1>2, <1>3 DEF Behind
<1>6. Len(Places) \in Nat
  BY ReferenceMeans DEF Sound, InView
<1> DEFINE k == Len(records) + 1
<1>7. k \in Nat \ {0} /\ k <= Len(Places)
  BY <1>2, <1>4, <1>6 DEF Reached
<1>8. OpenRecord(Behind, k)
  BY <1>4, <1>5, <1>7 DEF OpenRecord, Reached
<1> QED BY <1>5, <1>7, <1>8

LEMMA CopySkipArea ==
  ASSUME Sound, CopiesReference, SkipArea, UNCHANGED setup
  PROVE  CopiesReference'
<1> SUFFICES ASSUME InView', "copy" \in client' PROVE CopiesReference'
  BY DEF CopiesReference
<1>1. UNCHANGED <<text, base, asked, pattern, lost, state>> /\ client' = client
  BY DEF SkipArea, Consume, history, setup
<1>2. InView /\ "copy" \in client
  BY <1>1 DEF InView
<1>3. StreamIsSound /\ ~eof /\ state = "INITED" /\ Search(gptr) = None
  BY DEF Sound, CallIsSound, SkipArea
<1>4. gptr = base
  BY <1>2, <1>3 DEF CopiesReference
<1>5. gptr \in Nat /\ egptr \in Nat /\ Len(text) \in Nat
  BY <1>3, StreamFacts
<1>6. egptr = Len(text) /\ NoMatch(gptr, Len(text))
  BY <1>2, <1>3, <1>5, SearchedAll
<1>7. eof' = TRUE
  <2>1. gptr + Avail = Len(text)
    BY <1>5, <1>6 DEF Avail
  <2> QED BY <2>1 DEF SkipArea, AtEnd
<1>8. Len(Places) = 0
  BY <1>2, <1>3, <1>4, <1>6, PlacesMean DEF PlacesKnown, InView
<1>9. Len(Places') = 0
  BY <1>1, <1>8, ViewKept
<1> QED BY <1>1, <1>3, <1>7, <1>9 DEF CopiesReference

LEMMA CopyFirstMatch ==
  ASSUME Sound, CopiesReference, FirstMatch, UNCHANGED setup
  PROVE  CopiesReference'
<1> SUFFICES ASSUME InView', "copy" \in client' PROVE CopiesReference'
  BY DEF CopiesReference
<1>1. UNCHANGED <<text, base, asked, pattern, lost, eof, records, record, piece>>
      /\ client' = client /\ state' = "PMATCH"
  BY DEF FirstMatch, Consume, setup
<1>2. InView /\ "copy" \in client
  BY <1>1 DEF InView
<1>3. /\ StreamIsSound /\ ~eof /\ state = "INITED" /\ Search(gptr) # None
      /\ records = <<>> /\ record = <<>> /\ piece = <<>>
  BY DEF Sound, CallIsSound, NothingBefore, FirstMatch
<1>4. gptr = base
  BY <1>2, <1>3 DEF CopiesReference
<1>5. gptr \in Nat /\ egptr \in Nat /\ Len(text) \in Nat /\ P \in Nat
  BY <1>3, StreamFacts
<1> DEFINE s == Search(gptr)
<1>6. /\ s \in Nat /\ gptr + s + P <= Len(text)
      /\ Match(gptr + s) /\ NoMatch(gptr, gptr + s - 1)
  BY <1>3, <1>5, SearchFound
<1>7. gptr' = gptr + (s + P)
  BY DEF FirstMatch, Consume
<1> HIDE DEF s
<1>8. PICK f \in Nat : f = gptr + s
  BY <1>5, <1>6
<1>9. Len(Places) > 0 /\ Begins(1) = f + P
  <2>1. base <= f /\ f + P <= Len(text) /\ Match(f) /\ NoMatch(base, f - 1)
    BY <1>4, <1>5, <1>6, <1>8
  <2> QED BY <1>2, <1>3, <2>1, PlacesMean DEF PlacesKnown, InView
<1>10. PICK g \in Nat : gptr' = g /\ g = f + P
  BY <1>5, <1>6, <1>7, <1>8
<1>11. <<>> \o <<>> = <<>> /\ Len(<<>>) = 0
  BY EmptySeq, ConcatEmptySeq
<1>12. PartOut' = <<>>
  BY <1>1, <1>3, <1>11 DEF PartOut
<1>13. Behind' = g
  BY <1>10, <1>11, <1>12 DEF Behind
<1>14. Reached(Behind)'
  <2>1. Len(records') < Len(Places') /\ Begins(Len(records) + 1)' = g
    BY <1>1, <1>3, <1>9, <1>10, <1>11, ViewKept
  <2> QED BY <1>1, <1>3, <1>11, <1>13, <2>1 DEF Reached
<1>15. NoMatch(Behind, gptr - 1)'
  BY <1>10, <1>13 DEF NoMatch
<1> QED BY <1>1, <1>3, <1>14, <1>15 DEF CopiesReference

(* The record being copied goes on: it is still the one that was open.     *)
LEMMA RecordGoesOn ==
  ASSUME Sound, TextKept, InView, state = "PMATCH", pc = "copy",
         NEW b \in Nat, NEW k \in Nat \ {0}, OpenRecord(b, k),
         NEW n \in Nat, n <= Avail, NoMatch(gptr, gptr + n - 1),
         UNCHANGED <<text, base, asked, pattern, records>>, eof' = FALSE,
         state' = "PMATCH", gptr' = gptr + n,
         PartOut' = record \o (piece \o Chars(n))
  PROVE  CopiesReference'
<1>1. gptr \in Nat
  BY StreamFacts DEF Sound
<1>2. PICK g \in Nat : gptr' = g /\ g = gptr + n
  BY <1>1
<1> DEFINE l == Len(record \o (piece \o Chars(n)))
<1>3. l \in Nat /\ l = Len(record \o piece) + n /\ Len(record \o piece) \in Nat
  BY TextReads, TextFacts DEF InView
<1>4. g - l = b
  <2> DEFINE m == Len(record \o piece)
  <2>1. l \in Nat /\ l = m + n /\ m \in Nat /\ gptr - m = b
    BY <1>3 DEF OpenRecord
  <2> HIDE DEF l, m
  <2> QED BY <1>1, <1>2, <2>1
<1>5. Behind' = b
  BY <1>2, <1>4 DEF Behind
<1>6. NoMatch(b, g - 1)
  BY <1>1, <1>2, NoMatchJoins DEF OpenRecord
<1>7. NoMatch(Behind, gptr - 1)'
  BY <1>2, <1>5, <1>6, ViewKept DEF NoMatch
<1>8. Reached(Behind)'
  <2>1. Len(records) \in Nat /\ Len(Places) \in Nat
    BY ReferenceMeans, LenProperties DEF Sound, StreamIsSound, ValuesAreSound, InView
  <2>2. Len(records') < Len(Places')
    BY <2>1, ViewKept DEF OpenRecord
  <2>3. Begins(Len(records) + 1)' = b
    BY ViewKept DEF OpenRecord, Begins
  <2>4. \A i \in 1 .. Len(records') : records'[i] = Reference'[i]
    BY ViewKept DEF OpenRecord
  <2> QED BY <1>5, <2>2, <2>3, <2>4 DEF Reached
<1> QED BY <1>7, <1>8 DEF CopiesReference

LEMMA CopyGather ==
  ASSUME Sound, TextKept, CopiesReference, Gather, UNCHANGED setup
  PROVE  CopiesReference'
<1> SUFFICES ASSUME InView', "copy" \in client' PROVE CopiesReference'
  BY DEF CopiesReference
<1>1. /\ UNCHANGED <<text, base, asked, pattern, lost, state>> /\ client' = client
      /\ state = "PMATCH" /\ pc = "copy" /\ Search(gptr) = None
  BY DEF Gather, Copying, CopyFrame, Complete, Consume, setup
<1>2. InView /\ StreamIsSound
  BY <1>1 DEF InView, Sound
<1>3. PICK b \in Nat : \E k \in Nat \ {0} : OpenRecord(b, k)
  BY <1>1, <1>2, CopyingFacts
<1>4. PICK k \in Nat \ {0} : OpenRecord(b, k)
  BY <1>3
<1>5. /\ gptr \in Nat /\ egptr \in Nat /\ Len(text) \in Nat /\ gptr <= egptr
      /\ off \in Nat /\ room \in Nat
  BY <1>2, StreamFacts
<1>6. egptr = Len(text) /\ NoMatch(gptr, Len(text))
  BY <1>1, <1>2, <1>5, SearchedAll
<1> DEFINE n == Smaller(room - off, Avail)
           more == record \o (piece \o Chars(n))
<1>7. n \in Nat /\ n <= Avail /\ gptr + n <= Len(text)
  BY <1>5, <1>6 DEF Gather, Avail, Smaller
<1>8. piece' = piece \o Chars(n) /\ gptr' = gptr + n /\ eof' = AtEnd(n)
  BY DEF Gather, Consume
<1> HIDE DEF n
<1>9. CASE ~eof'
  <2>1. eof' = FALSE /\ records' = records /\ PartOut' = more
    BY <1>1, <1>8, <1>9 DEF Gather, PartOut, AtEnd
  <2>2. NoMatch(gptr, gptr + n - 1)
    BY <1>5, <1>6, <1>7 DEF NoMatch
  <2> QED BY <1>1, <1>2, <1>4, <1>7, <1>8, <2>1, <2>2, RecordGoesOn
<1>10. CASE eof'
  <2>1. gptr + n = Len(text) /\ records' = Append(records, more)
    BY <1>8, <1>10 DEF AtEnd, Gather, Complete
  <2>2. /\ more \in Seq(Letters) /\ more = SubSeq(text, (gptr + n) - Len(more) + 1, gptr + n)
        /\ Len(more) = Len(record \o piece) + n /\ Len(record \o piece) \in Nat
    BY <1>1, <1>2, <1>7, TextReads, TextFacts DEF InView
  <2> HIDE DEF more
  <2>3. (gptr + n) - Len(more) = b
    <3> DEFINE m == Len(record \o piece)
    <3>1. Len(more) = m + n /\ m \in Nat /\ gptr - m = b
      BY <1>4, <2>2 DEF OpenRecord
    <3> HIDE DEF m
    <3> QED BY <1>5, <1>7, <3>1
  <2>4. more = SubSeq(text, b + 1, Len(text))
    BY <2>1, <2>2, <2>3
  <2>5. /\ k <= Len(Places) /\ b = Begins(k) /\ Len(records) + 1 = k /\ b <= gptr
        /\ \A i \in 1 .. Len(records) : records[i] = Reference[i]
        /\ NoMatch(b, gptr - 1)
    BY <1>4 DEF OpenRecord
  <2>6. /\ Len(Reference) = Len(Places) /\ Len(Places) \in Nat
        /\ \A i \in 1 .. Len(Places) :
             Reference[i] =
               SubSeq(text, Begins(i) + 1,
                      IF i < Len(Places) THEN Begins(i + 1) - P ELSE Len(text))
    BY <1>2, ReferenceMeans DEF InView
  <2>7. k \in 1 .. Len(Places)
    BY <2>5, <2>6
  <2>8. NoMatch(b, Len(text))
    BY <1>5, <1>6, <2>5, NoMatchJoins
  <2>9. k = Len(Places)
    BY <1>2, <2>5, <2>7, <2>8, PlacesMean DEF PlacesKnown, InView
  <2>10. Reference[k] = more
    BY <2>4, <2>5, <2>6, <2>7, <2>9
  <2>11. records \in Seq(Seq(Letters))
    BY <1>2 DEF StreamIsSound, ValuesAreSound
  <2>12. /\ Len(Append(records, more)) = k
         /\ \A i \in 1 .. k : Append(records, more)[i] = Reference[i]
    BY <2>2, <2>5, <2>10, <2>11, OneMore
  <2>13. Len(records') = Len(Places') /\ \A i \in 1 .. Len(records') : records'[i] = Reference'[i]
    BY <1>1, <2>1, <2>9, <2>12, ViewKept
  <2> QED BY <1>1, <1>10, <2>13 DEF CopiesReference
<1> QED BY <1>9, <1>10

LEMMA CopyPartOfRecord ==
  ASSUME Sound, TextKept, CopiesReference, PartOfRecord, UNCHANGED setup
  PROVE  CopiesReference'
<1> SUFFICES ASSUME InView', "copy" \in client' PROVE CopiesReference'
  BY DEF CopiesReference
<1>1. /\ UNCHANGED <<text, base, asked, pattern, lost, state, records, eof>> /\ client' = client
      /\ state = "PMATCH" /\ pc = "copy" /\ Search(gptr) > room - off
  BY DEF PartOfRecord, Copying, CopyFrame, Consume, setup
<1>2. InView /\ StreamIsSound
  BY <1>1 DEF InView, Sound
<1>3. PICK b \in Nat : \E k \in Nat \ {0} : OpenRecord(b, k)
  BY <1>1, <1>2, CopyingFacts
<1>4. PICK k \in Nat \ {0} : OpenRecord(b, k)
  BY <1>3
<1>5. /\ gptr \in Nat /\ egptr \in Nat /\ Len(text) \in Nat /\ gptr <= egptr
      /\ egptr <= Len(text) /\ off \in Nat /\ room \in Nat /\ P \in Nat
  BY <1>2, StreamFacts
<1> DEFINE n == room - off
           more == record \o (piece \o Chars(n))
<1>6. n \in Nat
  BY <1>1, <1>2, <1>5 DEF StreamIsSound, ValuesAreSound
<1>7. Search(gptr) # None
  BY <1>1, <1>5, <1>6 DEF None
<1>8. /\ Search(gptr) \in Nat /\ gptr + Search(gptr) + P <= egptr
      /\ NoMatch(gptr, gptr + Search(gptr) - 1)
  BY <1>2, <1>5, <1>7, SearchFound, SearchFits
<1>9. n <= Avail /\ gptr + n <= Len(text)
  BY <1>1, <1>5, <1>6, <1>8 DEF Avail
<1>10. NoMatch(gptr, gptr + n - 1)
  BY <1>1, <1>5, <1>6, <1>8 DEF NoMatch
<1>11. /\ gptr' = gptr + n /\ record' = record \o (piece \o Chars(n)) /\ pc' = "idle"
  BY DEF PartOfRecord, Consume
<1> HIDE DEF n
<1>12. more \in Seq(Letters)
  BY <1>1, <1>2, <1>6, <1>9, TextReads DEF InView
<1>13. PartOut' = more
  <2>1. more \o <<>> = more
    <3> HIDE DEF more
    <3> QED BY <1>12, ConcatEmptySeq
  <2> QED BY <1>11, <2>1 DEF PartOut
<1>14. eof' = FALSE
  BY <1>1, <1>2 DEF Sound, CallIsSound, StreamIsSound, ValuesAreSound
<1> QED BY <1>1, <1>2, <1>4, <1>6, <1>9, <1>10, <1>11, <1>13, <1>14, RecordGoesOn

LEMMA CopyEndOfRecord ==
  ASSUME Sound, TextKept, CopiesReference, EndOfRecord, UNCHANGED setup
  PROVE  CopiesReference'
<1> SUFFICES ASSUME InView', "copy" \in client' PROVE CopiesReference'
  BY DEF CopiesReference
<1>1. /\ UNCHANGED <<text, base, asked, pattern, lost, state, eof>> /\ client' = client
      /\ state = "PMATCH" /\ pc = "copy" /\ Search(gptr) \in 0 .. room - off
  BY DEF EndOfRecord, Copying, CopyFrame, Consume, Complete, setup
<1>2. InView /\ StreamIsSound
  BY <1>1 DEF InView, Sound
<1>3. PICK b \in Nat : \E k \in Nat \ {0} : OpenRecord(b, k)
  BY <1>1, <1>2, CopyingFacts
<1>4. PICK k \in Nat \ {0} : OpenRecord(b, k)
  BY <1>3
<1>5. /\ gptr \in Nat /\ egptr \in Nat /\ Len(text) \in Nat /\ gptr <= egptr
      /\ egptr <= Len(text) /\ off \in Nat /\ room \in Nat /\ P \in Nat
  BY <1>2, StreamFacts
<1> DEFINE n == Search(gptr)
           more == record \o (piece \o Chars(n))
<1>6. n # None
  BY <1>1, <1>5 DEF None
<1>7. /\ n \in Nat /\ gptr + n + P <= egptr /\ Match(gptr + n)
      /\ NoMatch(gptr, gptr + n - 1)
  BY <1>2, <1>5, <1>6, SearchFound, SearchFits
<1>8. n <= Avail
  BY <1>5, <1>7 DEF Avail
<1>9. /\ gptr' = gptr + (n + P) /\ records' = Append(records, more) /\ record' = <<>>
      /\ pc' = "idle"
  BY DEF EndOfRecord, Consume, Complete
<1> HIDE DEF n
<1>10. PICK e \in Nat : e = gptr + n /\ e + P <= Len(text) /\ gptr <= e
  BY <1>5, <1>7
<1>11. PICK g \in Nat : gptr' = g /\ g = e + P
  BY <1>5, <1>7, <1>9, <1>10
<1>12. /\ more \in Seq(Letters) /\ more = SubSeq(text, e - Len(more) + 1, e)
       /\ Len(more) = Len(record \o piece) + n /\ Len(record \o piece) \in Nat
  BY <1>1, <1>2, <1>7, <1>8, <1>10, TextReads, TextFacts DEF InView
<1> HIDE DEF more
<1>13. e - Len(more) = b
  <2> DEFINE m == Len(record \o piece)
  <2>1. Len(more) = m + n /\ m \in Nat /\ gptr - m = b
    BY <1>4, <1>12 DEF OpenRecord
  <2> HIDE DEF m
  <2> QED BY <1>5, <1>7, <1>10, <2>1
<1>14. more = SubSeq(text, b + 1, e)
  BY <1>12, <1>13
<1>15. /\ k <= Len(Places) /\ b = Begins(k) /\ Len(records) + 1 = k /\ b <= gptr
       /\ \A i \in 1 .. Len(records) : records[i] = Reference[i]
       /\ NoMatch(b, gptr - 1)
  BY <1>4 DEF OpenRecord
<1>16. /\ Len(Places) \in Nat
       /\ \A i \in 1 .. Len(Places) :
            Reference[i] =
              SubSeq(text, Begins(i) + 1,
                     IF i < Len(Places) THEN Begins(i + 1) - P ELSE Len(text))
  BY <1>2, ReferenceMeans DEF InView
<1>17. k \in 1 .. Len(Places)
  BY <1>15, <1>16
<1>18. NoMatch(b, e - 1)
  BY <1>5, <1>7, <1>10, <1>15, NoMatchJoins
<1>19. k < Len(Places) /\ Begins(k + 1) = e + P
  <2>1. b <= e /\ Match(e)
    BY SMTT(30), <1>5, <1>7, <1>10, <1>15
  <2> QED BY <1>2, <1>10, <1>15, <1>17, <1>18, <2>1, PlacesMean DEF PlacesKnown, InView
<1>20. Reference[k] = more
  <2>1. (e + P) - P = e
    BY <1>5, <1>10
  <2> QED BY <1>14, <1>15, <1>16, <1>17, <1>19, <2>1
<1>21. records \in Seq(Seq(Letters))
  BY <1>2 DEF StreamIsSound, ValuesAreSound
<1>22. /\ Len(Append(records, more)) = k
       /\ \A i \in 1 .. k : Append(records, more)[i] = Reference[i]
  BY <1>12, <1>15, <1>20, <1>21, OneMore
<1>23. PartOut' = <<>> /\ Len(<<>>) = 0
  BY <1>9, EmptySeq, ConcatEmptySeq DEF PartOut
<1>24. Behind' = g
  BY <1>11, <1>23 DEF Behind
<1>25. Reached(Behind)'
  <2>1. Len(records') < Len(Places') /\ Len(records') = k
    BY <1>1, <1>9, <1>19, <1>22, ViewKept
  <2>2. Begins(Len(records) + 1)' = g
    BY <1>1, <1>11, <1>19, <2>1, ViewKept DEF Begins
  <2>3. \A i \in 1 .. Len(records') : records'[i] = Reference'[i]
    BY <1>1, <1>9, <1>22, <2>1, ViewKept
  <2> QED BY <1>24, <2>1, <2>2, <2>3 DEF Reached
<1>26. NoMatch(Behind, gptr - 1)'
  BY <1>11, <1>24 DEF NoMatch
<1>27. eof' = FALSE
  BY <1>1, <1>2 DEF Sound, CallIsSound, StreamIsSound, ValuesAreSound
<1> QED BY <1>1, <1>25, <1>26, <1>27 DEF CopiesReference

LEMMA CallsNext ==
  ASSUME OneForm, Sound, CallsAreKept, [Next]_vars
  PROVE  CallsAreKept'
<1>0. CallIsSound /\ StreamIsSound
  BY DEF Sound
<1>1. CASE Copy /\ UNCHANGED setup
  <2>1. /\ pc' \in {"idle", "copy"} /\ client' = client /\ "copy" \in client
        /\ state' # "PMATCH" => ~failed'
    BY <1>0, <1>1
    DEF Copy, SkipArea, FirstMatch, Gather, Overflow, PartOfRecord, EndOfRecord,
        Copying, CopyFrame, setup, CallIsSound, searchVars, history
  <2> QED BY <2>1 DEF CallsAreKept
<1>2. CASE (PointTo \/ GetPointer) /\ UNCHANGED setup
  <2>1. "pointer" \in client
    BY <1>0, <1>2 DEF CallIsSound, PointTo, NoFirstPointer, FirstPointer, Pointer,
                NoMorePointer, GetPointer
  <2>2. "copy" \notin client' /\ "pointer" \in client'
    BY <1>0, <1>2, <2>1 DEF StreamIsSound, ValuesAreSound, OneForm, setup
  <2>3. pc' = "pointer" => ~failed'
    BY <1>2 DEF PointTo, NoFirstPointer, FirstPointer, Pointer, NoMorePointer, GetPointer,
                CallsAreKept
  <2> QED BY <2>2, <2>3 DEF CallsAreKept
<1>3. CASE (Uninited \/ \E size \in Sizes : GetRecord(size)) /\ UNCHANGED setup
  BY <1>3 DEF Uninited, GetRecord, CallsAreKept, setup, streamVars, history
<1>4. CASE Clear \/ OpenFails
  BY <1>0, <1>4 DEF Clear, OpenFails, CallsAreKept, CallIsSound, setup, streamVars, history
<1>5. CASE Research \/ \E q \in Patterns : BeginPattern(q)
  BY <1>5 DEF Research, Restarted, BeginPattern, CallsAreKept, setup, streamVars, history
<1>6. CASE Close \/ \E t \in NewTexts : Open(t) \/ Str(t)
  BY <1>6 DEF Close, Open, Str, NewText, Restarted, CallsAreKept, setup
<1>7. CASE UNCHANGED vars
  BY <1>7 DEF CallsAreKept, vars, setup, streamVars, history
<1> QED BY <1>1, <1>2, <1>3, <1>4, <1>5, <1>6, <1>7 DEF Next, Get, Step

(* Steps that copy nothing and leave the reference alone.                  *)
LEMMA CopyStays ==
  ASSUME CopiesReference,
         UNCHANGED <<text, base, asked, pattern, lost, client, gptr, eof, records,
                     record>>,
         (state' = "PMATCH") <=> (state = "PMATCH"), PartOut' = PartOut
  PROVE  CopiesReference'
<1> SUFFICES ASSUME InView', "copy" \in client' PROVE CopiesReference'
  BY DEF CopiesReference
<1>1. InView /\ "copy" \in client
  BY DEF InView
<1>2. Behind' = Behind
  BY DEF Behind
<1>3. Reached(Behind) => Reached(Behind)'
  BY <1>2, ViewKept DEF Reached, Begins
<1>4. NoMatch(Behind, gptr - 1) => NoMatch(Behind, gptr - 1)'
  BY <1>2, ViewKept DEF NoMatch
<1> QED BY <1>1, <1>3, <1>4, ViewKept DEF CopiesReference

LEMMA CopiesNext ==
  ASSUME OneForm, Sound, CallsAreKept, TextKept, CopiesReference, [Next]_vars
  PROVE  CopiesReference'
<1>0. CallIsSound /\ StreamIsSound
  BY DEF Sound
<1>1. CASE (SkipArea \/ FirstMatch \/ Gather \/ PartOfRecord \/ EndOfRecord)
           /\ UNCHANGED setup
  BY <1>1, CopySkipArea, CopyFirstMatch, CopyGather, CopyPartOfRecord, CopyEndOfRecord
<1>2. CASE Overflow
  BY <1>2 DEF Overflow, CopiesReference, InView
<1>3. CASE (PointTo \/ GetPointer) /\ UNCHANGED setup
  <2>1. "pointer" \in client
    BY <1>0, <1>3 DEF CallIsSound, PointTo, NoFirstPointer, FirstPointer, Pointer,
                NoMorePointer, GetPointer
  <2>2. "copy" \notin client'
    BY <1>0, <1>3, <2>1 DEF StreamIsSound, ValuesAreSound, OneForm, setup
  <2> QED BY <2>2 DEF CopiesReference
<1>4. CASE Uninited /\ UNCHANGED setup
  <2>1. /\ UNCHANGED <<text, base, asked, pattern, lost, client, gptr, eof, records, record>>
        /\ state' = "UNINITED" /\ state = "UNINITED" /\ pc' = "idle"
    BY <1>4 DEF Uninited, setup, streamVars, history
  <2> SUFFICES ASSUME InView', "copy" \in client' PROVE CopiesReference'
    BY DEF CopiesReference
  <2>2. InView /\ "copy" \in client
    BY <2>1 DEF InView
  <2> QED BY <2>1, <2>2, ViewKept DEF CopiesReference
<1>5. ASSUME NEW size \in Sizes, GetRecord(size), UNCHANGED setup PROVE CopiesReference'
  <2>1. /\ UNCHANGED <<text, base, asked, pattern, lost, client, gptr, eof, records, record,
                       state>>
        /\ pc = "idle" /\ pc' = "copy" /\ piece' = <<>>
    BY <1>5 DEF GetRecord, setup, streamVars, history
  <2>2. PartOut' = PartOut
    BY <2>1 DEF PartOut
  <2> QED BY <2>1, <2>2, CopyStays
<1>6. CASE Clear
  <2>1. /\ UNCHANGED <<text, base, asked, pattern, lost, client, gptr, records, record,
                       state, pc, piece>>
        /\ eof' = FALSE /\ failed
    BY <1>6 DEF Clear, setup, history
  <2>2. PartOut' = PartOut
    BY <2>1 DEF PartOut
  <2>3. CASE eof' = eof
    BY <2>1, <2>2, <2>3, CopyStays
  <2>4. CASE eof
    <3> SUFFICES ASSUME InView', "copy" \in client' PROVE CopiesReference'
      BY DEF CopiesReference
    <3>1. InView /\ "copy" \in client
      BY <2>1 DEF InView
    <3>2. state # "PMATCH"
      BY <2>1, <2>4, <3>1 DEF TextKept, PartIsText, InView
    <3>3. text = <<>>
      BY <2>1, <3>1, <3>2 DEF CallsAreKept, InView
    <3>4. gptr = base
      <4>1. gptr \in Nat /\ base \in Nat /\ base <= gptr /\ gptr <= Len(text)
        BY <1>0, StreamFacts
      <4>2. Len(text) = 0
        BY <3>3, EmptySeq
      <4> QED BY <4>1, <4>2
    <3> QED BY <2>1, <3>2, <3>4 DEF CopiesReference
  <2> QED BY <1>0, <2>1, <2>3, <2>4 DEF StreamIsSound, ValuesAreSound
<1>7. CASE Research \/ Close \/ \E t \in NewTexts : Open(t)
  <2>1. state' = "INITED" /\ eof' = FALSE /\ gptr' = base'
    BY <1>7 DEF Research, Close, Open, NewText, Restarted
  <2> QED BY <2>1 DEF CopiesReference
<1>8. CASE \E t \in NewTexts : Str(t)
  BY <1>8 DEF Str, CopiesReference, InView
<1>9. ASSUME NEW q \in Patterns, BeginPattern(q) PROVE CopiesReference'
  <2> SUFFICES ASSUME InView', "copy" \in client' PROVE CopiesReference'
    BY DEF CopiesReference
  <2>1. /\ state' # "PMATCH" /\ gptr = base /\ gptr' = base'
        /\ UNCHANGED <<text, base, lost, eof>> /\ asked' = q
    BY <1>9 DEF BeginPattern, streamVars, history
  <2>2. ASSUME eof' PROVE Len(Places') = 0
    <3>1. base = Len(text)
      BY <1>0, <2>1, <2>2 DEF CallIsSound, InView
    <3>2. Len(q) \in Nat \ {0} /\ text \in Seq(Letters) /\ Len(text) \in 0 .. Len(text)
      BY <1>0, StreamAssumption, StreamFacts, LenProperties
    <3>3. Followed(q, text, Len(text))
      BY <3>2, RecordsFollow
    <3>4. Len(Occurrences(q, SubSeq(text, Len(text) + 1, Len(text)))) = 0
      <4>1. \A g \in Len(text) .. Len(text) - Len(q) : FALSE
        BY <3>2
      <4> QED BY <3>3, <4>1 DEF Followed
    <3> QED BY <2>1, <3>1, <3>4 DEF Places, Rest
  <2> QED BY <2>1, <2>2 DEF CopiesReference
<1>10. CASE OpenFails
  <2>1. /\ UNCHANGED <<text, base, asked, pattern, lost, client, gptr, eof, records, record,
                       state, pc, piece>>
    BY <1>10 DEF OpenFails, setup, streamVars, history
  <2>2. PartOut' = PartOut
    BY <2>1 DEF PartOut
  <2> QED BY <2>1, <2>2, CopyStays
<1>11. CASE UNCHANGED vars
  <2>1. /\ UNCHANGED <<text, base, asked, pattern, lost, client, gptr, eof, records, record,
                       state, pc, piece>>
    BY <1>11 DEF vars, setup, streamVars, history
  <2>2. PartOut' = PartOut
    BY <2>1 DEF PartOut
  <2> QED BY <2>1, <2>2, CopyStays
<1> QED BY <1>1, <1>2, <1>3, <1>4, <1>5, <1>6, <1>7, <1>8, <1>9, <1>10, <1>11
        DEF Next, Get, Step, Copy

(* Steps that do not point and leave the reference alone.                  *)
LEMMA PointStays ==
  ASSUME PointsToReference,
         UNCHANGED <<text, base, asked, pattern, lost, client, gptr, egptr, records,
                     searching, found, state, distance>>,
         pc' = "idle" /\ failed' => pc = "idle" /\ failed
  PROVE  PointsToReference'
<1> SUFFICES ASSUME InView', "pointer" \in client', state' = "PMATCH"
             PROVE  PointsToReference'
  BY DEF PointsToReference
<1>1. InView /\ "pointer" \in client /\ state = "PMATCH"
  BY DEF InView
<1>2. PtrHead' = PtrHead
  BY DEF PtrHead
<1>3. Reached(PtrHead) => Reached(PtrHead)'
  BY <1>2, ViewKept DEF Reached, Begins
<1>4. NoMatch(PtrHead, Len(text)) => NoMatch(PtrHead, Len(text))'
  BY <1>2, ViewKept DEF NoMatch
<1> QED BY <1>1, <1>2, <1>3, <1>4 DEF PointsToReference

LEMMA PointFirst ==
  ASSUME Sound, FirstPointer, UNCHANGED setup, OneForm, CallsAreKept
  PROVE  PointsToReference'
<1> SUFFICES ASSUME InView', "pointer" \in client' PROVE PointsToReference'
  BY DEF PointsToReference
<1>0. CallIsSound /\ StreamIsSound /\ NothingBefore
  BY DEF Sound
<1>1. /\ UNCHANGED <<text, base, asked, pattern, lost, client, gptr, egptr, records, found,
                     pc, failed>>
      /\ pc = "pointer" /\ state = "INITED" /\ SearchNptr # None
  BY DEF FirstPointer, PointerFrame, streamVars, setup
<1>2. "copy" \notin client /\ gptr = base /\ searching = 0 /\ records = <<>>
  BY <1>0, <1>1 DEF OneForm, StreamIsSound, ValuesAreSound, CallIsSound, NothingBefore
<1>3. found = TRUE /\ SearchNptr = Search(PtrHead)
  BY <1>0, <1>1 DEF SearchNptr, StreamIsSound, ValuesAreSound
<1>4. gptr \in Nat /\ P \in Nat /\ Len(text) \in Nat
  BY <1>0, StreamFacts
<1>5. PtrHead = base /\ PtrHead \in Nat
  BY <1>2, <1>4 DEF PtrHead
<1> DEFINE s == Search(PtrHead)
<1>6. s \in Nat /\ PtrHead + s + P <= Len(text) /\ Match(PtrHead + s) /\ NoMatch(PtrHead, PtrHead + s - 1)
  BY <1>0, <1>1, <1>3, <1>5, SearchFound
<1>7. searching' = searching + s + P
  BY <1>3 DEF FirstPointer
<1> HIDE DEF s
<1>8. PICK f \in Nat : f = base + s
  BY <1>4, <1>5, <1>6
<1>9. Len(Places) > 0 /\ Begins(1) = f + P
  <2>1. base <= f /\ f + P <= Len(text) /\ Match(f) /\ NoMatch(base, f - 1)
    BY <1>4, <1>5, <1>6, <1>8
  <2>2. pattern = asked
    BY <1>1 DEF InView
  <2> QED BY <1>0, <2>1, <2>2, PlacesMean DEF PlacesKnown
<1>10. PtrHead' = f + P
  <2>1. searching' = s + P
    BY <1>2, <1>4, <1>6, <1>7
  <2>2. gptr' = base
    BY <1>1, <1>2
  <2> QED BY <1>2, <1>4, <1>6, <1>8, <2>1, <2>2 DEF PtrHead
<1>11. Reached(PtrHead)'
  <2>1. Len(<<>>) = 0
    BY EmptySeq
  <2>2. Len(records') < Len(Places') /\ Len(records') = 0
    BY <1>1, <1>2, <1>9, <2>1, ViewKept
  <2>3. Begins(Len(records) + 1)' = f + P
    BY <1>1, <1>9, <2>2, ViewKept DEF Begins
  <2>4. \A i \in 1 .. Len(records') : records'[i] = Reference'[i]
    BY <2>2
  <2> QED BY <1>10, <2>2, <2>3, <2>4 DEF Reached
<1> QED BY <1>1, <1>3, <1>11 DEF PointsToReference

LEMMA PointNext ==
  ASSUME Sound, Pointer, UNCHANGED setup, CallsAreKept, PointsToReference
  PROVE  PointsToReference'
<1> SUFFICES ASSUME InView', "pointer" \in client' PROVE PointsToReference'
  BY DEF PointsToReference
<1>0. CallIsSound /\ StreamIsSound
  BY DEF Sound
<1>1. /\ UNCHANGED <<text, base, asked, pattern, lost, client, gptr, egptr, found, failed,
                     state>>
      /\ pc = "pointer" /\ state = "PMATCH" /\ SearchNptr # None
  BY DEF Pointer, PointerFrame, streamVars, setup
<1>2. InView /\ "pointer" \in client /\ pattern = asked
  BY <1>1 DEF InView
<1>3. found = TRUE /\ SearchNptr = Search(PtrHead)
  BY <1>0, <1>1 DEF SearchNptr, StreamIsSound, ValuesAreSound
<1>4. gptr \in Nat /\ P \in Nat /\ Len(text) \in Nat /\ searching \in Nat /\ text \in Seq(Letters)
  BY <1>0, StreamFacts
<1> DEFINE s == Search(PtrHead)
           r == SubSeq(text, PtrHead + 1, PtrHead + s)
<1>5. PICK b \in Nat : PtrHead = b /\ b = gptr + searching
  BY <1>4 DEF PtrHead
<1>6. s \in Nat /\ b + s + P <= Len(text) /\ Match(b + s) /\ NoMatch(b, b + s - 1)
  BY <1>0, <1>1, <1>3, <1>5, SearchFound
<1>7. searching' = searching + s + P /\ records' = Append(records, r)
  BY <1>3 DEF Pointer
<1> HIDE DEF s
<1>8. PICK e \in Nat : e = b + s /\ b <= e /\ e + P <= Len(text)
  BY <1>4, <1>6
<1>9. r = SubSeq(text, b + 1, e)
  BY <1>5, <1>8
<1>10. r \in Seq(Letters)
  <2>1. e <= Len(text)
    BY <1>4, <1>8
  <2> QED BY <1>4, <1>8, <1>9, <2>1, PieceOf
<1> HIDE DEF r
<1>11. Reached(b)
  BY <1>1, <1>2, <1>5 DEF PointsToReference
<1>12. records \in Seq(Seq(Letters)) /\ Len(records) \in Nat
  BY <1>0, LenProperties DEF StreamIsSound, ValuesAreSound
<1>13. /\ Len(Places) \in Nat
       /\ \A i \in 1 .. Len(Places) :
            Reference[i] =
              SubSeq(text, Begins(i) + 1,
                     IF i < Len(Places) THEN Begins(i + 1) - P ELSE Len(text))
  BY <1>0, <1>2, ReferenceMeans
<1>14. PICK k \in Nat \ {0} : k = Len(records) + 1
  BY <1>12
<1>15. /\ k \in 1 .. Len(Places) /\ b = Begins(k)
       /\ \A i \in 1 .. Len(records) : records[i] = Reference[i]
  BY <1>11, <1>12, <1>13, <1>14 DEF Reached
<1>16. k < Len(Places) /\ Begins(k + 1) = e + P
  <2>1. b <= e /\ e + P <= Len(text) /\ Match(e) /\ NoMatch(b, e - 1)
    BY <1>6, <1>8
  <2> QED BY <1>0, <1>2, <1>15, <2>1, PlacesMean DEF PlacesKnown
<1>17. Reference[k] = r
  <2>1. (e + P) - P = e
    BY <1>4, <1>8
  <2> QED BY <1>9, <1>13, <1>15, <1>16, <2>1
<1>18. /\ Len(Append(records, r)) = Len(records) + 1
       /\ \A i \in 1 .. Len(records) + 1 : Append(records, r)[i] = Reference[i]
  <2>1. r = Reference[Len(records) + 1]
    BY <1>14, <1>17
  <2> QED BY <1>10, <1>12, <1>15, <2>1, OneMore
<1>19. PtrHead' = e + P
  <2>1. gptr + (searching + s + P) = e + P
    BY <1>4, <1>5, <1>6, <1>8
  <2> QED BY <1>1, <1>7, <2>1 DEF PtrHead
<1>20. Reached(PtrHead)'
  <2>1. Len(records') < Len(Places') /\ Len(records') = k
    BY <1>1, <1>7, <1>14, <1>16, <1>18, ViewKept
  <2>2. Begins(Len(records) + 1)' = e + P
    BY <1>1, <1>16, <2>1, ViewKept DEF Begins
  <2>3. \A i \in 1 .. Len(records') : records'[i] = Reference'[i]
    BY <1>1, <1>7, <1>14, <1>18, <2>1, ViewKept
  <2> QED BY <1>19, <2>1, <2>2, <2>3 DEF Reached
<1>21. ~failed'
  BY <1>1 DEF CallsAreKept
<1> QED BY <1>1, <1>3, <1>20, <1>21 DEF PointsToReference

LEMMA PointNoMore ==
  ASSUME Sound, NoMorePointer, UNCHANGED setup, PointsToReference
  PROVE  PointsToReference'
<1> SUFFICES ASSUME InView', "pointer" \in client' PROVE PointsToReference'
  BY DEF PointsToReference
<1>0. StreamIsSound
  BY DEF Sound
<1>1. /\ UNCHANGED <<text, base, asked, pattern, lost, client, gptr, egptr, records, state,
                     searching>>
      /\ state = "PMATCH" /\ SearchNptr = None
      /\ found' = FALSE /\ distance' = egptr - PtrHead
  BY DEF NoMorePointer, PointerFrame, streamVars, setup
<1>2. InView /\ "pointer" \in client
  BY <1>1 DEF InView
<1>3. gptr \in Nat /\ searching \in Nat
  BY <1>0, StreamFacts
<1>4. PtrHead \in Nat
  BY <1>3 DEF PtrHead
<1>5. NoMatch(PtrHead, Len(text))
  <2>1. CASE found
    BY <1>0, <1>1, <1>2, <1>4, <2>1, SearchedAll DEF SearchNptr
  <2>2. CASE ~found
    BY <1>1, <1>2, <2>2 DEF PointsToReference
  <2> QED BY <2>1, <2>2
<1>6. PtrHead' = PtrHead
  BY <1>1 DEF PtrHead
<1>7. Reached(PtrHead)'
  BY <1>1, <1>2, <1>6, ViewKept DEF PointsToReference, Reached, Begins
<1>8. NoMatch(PtrHead, Len(text))'
  BY <1>1, <1>5, <1>6, ViewKept DEF NoMatch
<1> QED BY <1>1, <1>6, <1>7, <1>8 DEF PointsToReference

LEMMA PointsNext ==
  ASSUME OneForm, Sound, CallsAreKept, PointsToReference, [Next]_vars
  PROVE  PointsToReference'
<1>0. CallIsSound /\ StreamIsSound
  BY DEF Sound
<1>1. CASE (Copy \/ \E size \in Sizes : GetRecord(size)) /\ UNCHANGED setup
  <2>1. "copy" \in client
    BY <1>0, <1>1 DEF CallIsSound, Copy, SkipArea, FirstMatch, Gather, Overflow,
                PartOfRecord, EndOfRecord, Copying, GetRecord
  <2>2. "pointer" \notin client'
    BY <1>0, <1>1, <2>1 DEF StreamIsSound, ValuesAreSound, OneForm, setup
  <2> QED BY <2>2 DEF PointsToReference
<1>2. CASE (FirstPointer \/ Pointer \/ NoMorePointer) /\ UNCHANGED setup
  BY <1>2, PointFirst, PointNext, PointNoMore
<1>3. CASE NoFirstPointer \/ Uninited
  BY <1>3 DEF NoFirstPointer, Uninited, PointsToReference
<1>4. CASE GetPointer /\ UNCHANGED setup
  <2>1. /\ UNCHANGED <<text, base, asked, pattern, lost, client, gptr, egptr, records,
                     searching, found, state, distance>>
        /\ pc' # "idle"
    BY <1>4 DEF GetPointer, setup, streamVars, searchVars, history
  <2> QED BY <2>1, PointStays
<1>5. CASE Clear
  <2>1. /\ UNCHANGED <<text, base, asked, pattern, lost, client, gptr, egptr, records,
                     searching, found, state, distance>>
        /\ ~failed'
    BY <1>5 DEF Clear, setup, searchVars, history
  <2> QED BY <2>1, PointStays
<1>6. CASE Research \/ Close \/ \E t \in NewTexts : Open(t) \/ Str(t)
  BY <1>6 DEF Research, Close, Open, Str, Restarted, PointsToReference, InView
<1>7. CASE OpenFails \/ \E q \in Patterns : BeginPattern(q)
  <2>1. state' # "PMATCH"
    BY <1>0, <1>7 DEF OpenFails, BeginPattern, CallIsSound
  <2> QED BY <2>1 DEF PointsToReference
<1>8. CASE UNCHANGED vars
  <2>1. UNCHANGED <<text, base, asked, pattern, lost, client, gptr, egptr, records,
                    searching, found, state, distance, pc, failed>>
    BY <1>8 DEF vars, setup, streamVars, searchVars, history
  <2> QED BY <2>1, PointStays
<1> QED BY <1>1, <1>2, <1>3, <1>4, <1>5, <1>6, <1>7, <1>8
        DEF Next, Get, Step, PointTo

-----------------------------------------------------------------------------
(* The theorems.                                                           *)

LEMMA InvInit == Init => Inv
<1> SUFFICES ASSUME Init PROVE Inv
  OBVIOUS
<1>1. state # "PMATCH" /\ ~eof /\ ~failed /\ gptr = base /\ pc = "idle"
  BY DEF Init
<1>2. StreamIsSound /\ CallIsSound /\ NothingBefore
  BY SoundInit DEF Sound
<1>3. CallsAreKept /\ PartIsText /\ PiecesInOrder
  BY <1>1 DEF CallsAreKept, PartIsText, PiecesInOrder
<1>4. CopiesReference /\ PointsToReference
  BY <1>1 DEF CopiesReference, PointsToReference
<1> QED BY <1>2, <1>3, <1>4 DEF Inv

LEMMA InvNext == ASSUME OneForm, Inv, [Next]_vars PROVE Inv'
<1>1. Sound /\ TextKept /\ CallsAreKept /\ CopiesReference /\ PointsToReference
  BY DEF Inv, Sound, TextKept
<1>2. Sound'
  BY <1>1, SoundNext
<1>3. TextKept'
  BY <1>1, TextNext
<1>4. CallsAreKept'
  BY <1>1, CallsNext
<1>5. CopiesReference'
  BY <1>1, CopiesNext
<1>6. PointsToReference'
  BY <1>1, PointsNext
<1> QED BY <1>2, <1>3, <1>4, <1>5, <1>6 DEF Inv, Sound, TextKept

LEMMA Invariance == OneForm => (Spec => []Inv)
<1> SUFFICES ASSUME OneForm PROVE Spec => []Inv
  OBVIOUS
<1>1. Inv /\ [Next]_vars => Inv'
  BY InvNext
<1> QED BY InvInit, <1>1, PTL DEF Spec

(* Type correctness, of clients of every kind: the read position stays in  *)
(* the get area and that in the text, and no call writes more than it was  *)
(* given room for.                                                         *)
THEOREM StreamTypes == Spec => []TypeOK
<1>1. Sound => TypeOK
  <2> SUFFICES ASSUME Sound PROVE TypeOK
    OBVIOUS
  <2>1. Len(pattern) >= Len(asked)
    BY DEF Sound, StreamIsSound, ValuesAreSound, P
  <2> QED BY <2>1 DEF Sound, StreamIsSound, PlacesAreSound, ValuesAreSound, TypeOK
<1>2. Sound /\ [Next]_vars => Sound'
  BY SoundNext
<1> QED BY SoundInit, <1>1, <1>2, PTL DEF Spec

(* What a copying client was handed is the text from the first pattern to  *)
(* the read position, with nothing left out, twice or out of order,        *)
(* whatever the sizes of the get area and of its buffers.                  *)
THEOREM NothingIsTorn == OneForm => (Spec => []PiecesInOrder)
<1> SUFFICES ASSUME OneForm PROVE Spec => []PiecesInOrder
  OBVIOUS
<1>1. Inv => PiecesInOrder
  BY DEF Inv
<1> QED BY <1>1, Invariance, PTL

(* Of a text that fits into the get area, the records handed out, copied   *)
(* or pointed to, are those of the reference, in order.                    *)
THEOREM RecordsAreTheReference == OneForm => (Spec => []RecordsAreSplit)
<1> SUFFICES ASSUME OneForm PROVE Spec => []RecordsAreSplit
  OBVIOUS
<1>1. Inv => RecordsAreSplit
  <2> SUFFICES ASSUME Inv, InView, NEW i \in 1 .. Len(records)
               PROVE  i <= Len(Reference) /\ records[i] = Reference[i]
    BY DEF RecordsAreSplit
  <2>1. Len(Reference) = Len(Places) /\ Len(Places) \in Nat
    BY ReferenceMeans DEF Inv, InView
  <2>2. Len(records) \in Nat
    BY LenProperties DEF Inv, StreamIsSound, ValuesAreSound
  <2>3. state = "PMATCH"
    <3> SUFFICES ASSUME state # "PMATCH" PROVE FALSE
      OBVIOUS
    <3>1. Len(records) = 0
      BY EmptySeq DEF Inv, NothingBefore
    <3> QED BY <3>1
  <2>4. /\ Len(records) <= Len(Places)
        /\ \A j \in 1 .. Len(records) : records[j] = Reference[j]
    <3>1. CASE "copy" \in client
      BY <2>1, <2>2, <2>3, <3>1 DEF Inv, CopiesReference, Reached
    <3>2. CASE "pointer" \in client
      BY <2>1, <2>2, <2>3, <3>2 DEF Inv, PointsToReference, Reached
    <3> QED BY <2>3, <3>1, <3>2 DEF Inv, CallsAreKept
  <2> QED BY <2>1, <2>2, <2>4
<1> QED BY <1>1, Invariance, PTL

(* A client that read such a text to its end has every record of it.       *)
THEOREM AllRecordsAreRead == OneForm => (Spec => []NoRecordMissing)
<1> SUFFICES ASSUME OneForm PROVE Spec => []NoRecordMissing
  OBVIOUS
<1>1. Inv => NoRecordMissing
  <2> SUFFICES ASSUME Inv, InView, eof PROVE Len(records) = Len(Reference)
    BY DEF NoRecordMissing
  <2>1. Len(Reference) = Len(Places)
    BY ReferenceMeans DEF Inv, InView
  <2>2. "copy" \in client
    BY DEF Inv, CallIsSound
  <2>3. CASE state = "PMATCH"
    BY <2>1, <2>2, <2>3 DEF Inv, CopiesReference
  <2>4. CASE state # "PMATCH"
    <3>1. Len(records) = 0
      BY <2>4, EmptySeq DEF Inv, NothingBefore
    <3> QED BY <2>1, <2>2, <2>4, <3>1 DEF Inv, CopiesReference
  <2> QED BY <2>3, <2>4
<1> QED BY <1>1, Invariance, PTL

(* When getrecord(beg) finds no more pattern it returns the length of the  *)
(* last record, which lies behind the last pattern.                        *)
THEOREM DistanceIsTheLastRecord == OneForm => (Spec => []DistanceIsRest)
<1> SUFFICES ASSUME OneForm PROVE Spec => []DistanceIsRest
  OBVIOUS
<1>1. Inv => DistanceIsRest
  <2> SUFFICES ASSUME Inv, pc = "idle", failed, state = "PMATCH", InView,
                      "pointer" \in client
               PROVE  distance = Len(Reference[Len(Reference)])
    BY DEF DistanceIsRest
  <2>1. StreamIsSound /\ pattern = asked
    BY DEF Inv, InView
  <2>2. /\ Reached(PtrHead) /\ NoMatch(PtrHead, Len(text))
        /\ distance = egptr - PtrHead
    BY DEF Inv, PointsToReference
  <2>3. /\ text \in Seq(Letters) /\ Len(text) \in Nat /\ egptr = Len(text)
    BY <2>1, StreamFacts DEF StreamIsSound, PlacesAreSound, InView
  <2>4. Len(records) \in Nat
    BY <2>1, LenProperties DEF StreamIsSound, ValuesAreSound
  <2>5. /\ Len(Reference) = Len(Places) /\ Len(Places) \in Nat
        /\ \A k \in 1 .. Len(Places) :
             Reference[k] =
               SubSeq(text, Begins(k) + 1,
                      IF k < Len(Places) THEN Begins(k + 1) - P ELSE Len(text))
    BY <2>1, ReferenceMeans
  <2>6. PICK k \in Nat : k = Len(records) + 1
    BY <2>4
  <2>7. k \in 1 .. Len(Places) /\ PtrHead = Begins(k)
    BY <2>2, <2>4, <2>5, <2>6 DEF Reached
  <2>8. k = Len(Places)
    BY <2>1, <2>2, <2>7, PlacesMean DEF PlacesKnown
  <2>9. Begins(k) \in Nat /\ Begins(k) <= Len(text)
    BY <2>1, <2>7, PlacesMean DEF PlacesKnown
  <2>10. Reference[k] = SubSeq(text, Begins(k) + 1, Len(text))
    BY <2>5, <2>7, <2>8
  <2>11. Len(SubSeq(text, Begins(k) + 1, Len(text))) = Len(text) - Begins(k)
    BY <2>3, <2>9, PieceOf
  <2>12. distance = Len(text) - Begins(k)
    BY <2>2, <2>3, <2>7
  <2> QED BY <2>5, <2>8, <2>10, <2>11, <2>12
<1> QED BY <1>1, Invariance, PTL

=============================================================================
