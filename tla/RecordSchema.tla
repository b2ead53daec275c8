---------------------------- MODULE RecordSchema ----------------------------
(***************************************************************************)
(* rschema (rschema.h, rschema.cpp) and record (record.h): a schema maps   *)
(* field names to places in a prototype record, records are made from the  *)
(* prototype and remember the schema and its version.  Schemas change      *)
(* while records made from them live on.  A field is its type and the type *)
(* its memory was allocated for.                                           *)
(***************************************************************************)
EXTENDS Integers, Sequences, FiniteSets

CONSTANTS
  NameOrder,   \* the field names, in the order of Index (by name)
  Types,       \* the types the field factory knows
  Schemas, Records,
  NoSchema,    \* the null pointer
  IndexWidth,  \* bits of a FIELD_INDEX
  MaxChanges   \* bound: fields defined, undefined or read

ASSUME SchemaAssumption ==
  /\ NoSchema \notin Schemas /\ "" \notin Types
  /\ IndexWidth \in Nat /\ MaxChanges \in Nat
  /\ DOMAIN NameOrder \subseteq Nat
  /\ \A i, j \in DOMAIN NameOrder : NameOrder[i] = NameOrder[j] => i = j

(* No schema gets more fields than a FIELD_INDEX can count.                *)
ASSUME WidthAssumption == 2^IndexWidth \in Nat /\ MaxChanges <= 2^IndexWidth

VARIABLES
  layout,      \* the types of proto_->vals_
  idx,         \* idx_: name to FIELD_INDEX
  ridx, types, \* ridx_, types_: FIELD_INDEX to name and to type
  version,     \* version_
  rec,         \* the records: schema_, schema_ver_, vals_
  saved,       \* a schema written by operator<<, and what it declared
  loading,     \* operator>> at work: into which schema, fields read so far
  declared,    \* history: the type each name was defined with
  changes,     \* fields defined, undefined or read so far
  past         \* history: what happened to a schema: "shrunk" when a field
               \* was undefined, "hole" when it was not the last one,
               \* "reread" when operator>> added to what it had

schemaVars == <<layout, idx, ridx, types, version, declared>>
recordVars == <<schemaVars, rec, saved, loading, changes, past>>

Names == {NameOrder[i] : i \in DOMAIN NameOrder}
Index(n) == n % 2^IndexWidth

(* f with the pairs of g, which win.                                       *)
With(g, f) ==
  [x \in DOMAIN f \cup DOMAIN g |-> IF x \in DOMAIN g THEN g[x] ELSE f[x]]
Without(f, x) == [y \in DOMAIN f \ {x} |-> f[y]]
Nothing == [x \in {} |-> x]

Change == changes < MaxChanges /\ changes' = changes + 1

(* The names of D, as an iterator of the map comes by them.                *)
Before(a, b) ==
  \E i, j \in DOMAIN NameOrder : i < j /\ NameOrder[i] = a /\ NameOrder[j] = b
InOrder(D) ==
  CHOOSE o \in [1 .. Cardinality(D) -> D] :
    \A i, j \in DOMAIN o : i < j => Before(o[i], o[j])

NoType == ""
Idle == [into |-> NoSchema, read |-> 0]

New(t) == [type |-> t, mem |-> t]
Clones(fields) == [i \in DOMAIN fields |-> New(fields[i])]
TypesOf(fields) == [i \in DOMAIN fields |-> fields[i].type]

-----------------------------------------------------------------------------
SchemaInit ==
  /\ layout = [s \in Schemas |-> <<>>]
  /\ idx = [s \in Schemas |-> Nothing]
  /\ ridx = [s \in Schemas |-> Nothing]
  /\ types = [s \in Schemas |-> Nothing]
  /\ version = [s \in Schemas |-> 0]
  /\ rec = [r \in Records |-> [schema |-> NoSchema, ver |-> 0, vals |-> <<>>]]
  /\ saved = [fields |-> <<>>, version |-> 0, declared |-> Nothing,
              hole |-> FALSE]
  /\ loading = Idle
  /\ declared = [s \in Schemas |-> Nothing]
  /\ changes = 0
  /\ past = [s \in Schemas |-> {}]

-----------------------------------------------------------------------------
(* The schema.                                                             *)

(* Wrong variant: the place behind the new field is entered.               *)
Enter_OffByOne(s, n, t) ==
  LET i == Index(Len(layout[s]) + 1)
  IN  /\ layout' = [layout EXCEPT ![s] = Append(@, t)]
      /\ idx' = [idx EXCEPT ![s] = With([x \in {n} |-> i], @)]
      /\ ridx' = [ridx EXCEPT ![s] = With([x \in {i} |-> n], @)]
      /\ types' = [types EXCEPT ![s] = With([x \in {i} |-> t], @)]
      /\ declared' = [declared EXCEPT ![s] = With([x \in {n} |-> t], @)]

(* A field of a new name, at the end of the prototype.                     *)
Enter(s, n, t) ==
  LET i == Index(Len(layout[s]))
  IN  /\ layout' = [layout EXCEPT ![s] = Append(@, t)]
      /\ idx' = [idx EXCEPT ![s] = With([x \in {n} |-> i], @)]
      /\ ridx' = [ridx EXCEPT ![s] = With([x \in {i} |-> n], @)]
      /\ types' = [types EXCEPT ![s] = With([x \in {i} |-> t], @)]
      /\ declared' = [declared EXCEPT ![s] = With([x \in {n} |-> t], @)]

(* Wrong variant: the version stays.                                       *)
DefineField_SameVersion(s, n, t) ==
  /\ loading = Idle
  /\ n \notin DOMAIN idx[s] /\ t \in Types
  /\ Change
  /\ Enter(s, n, t)
  /\ UNCHANGED <<version, rec, saved, loading, past>>

(* A name that is taken or an unknown type throws and changes nothing.     *)
DefineField(s, n, t) ==
  /\ loading = Idle
  /\ n \notin DOMAIN idx[s] /\ t \in Types
  /\ Change
  /\ Enter(s, n, t)
  /\ version' = [version EXCEPT ![s] = @ + 1]
  /\ UNCHANGED <<rec, saved, loading, past>>

(* The place is erased from the prototype; other names keep their places.  *)
(* Erasing a place that is behind the last one is undefined.               *)
UndefineField(s, n) ==
  /\ loading = Idle
  /\ n \in DOMAIN idx[s] /\ idx[s][n] < Len(layout[s])
  /\ Change
  /\ LET i == idx[s][n]
     IN  /\ layout' = [layout EXCEPT ![s] =
                         SubSeq(@, 1, i) \o SubSeq(@, i + 2, Len(@))]
         /\ ridx' = [ridx EXCEPT ![s] = Without(@, i)]
         /\ types' = [types EXCEPT ![s] = Without(@, i)]
         /\ idx' = [idx EXCEPT ![s] = Without(@, n)]
         /\ declared' = [declared EXCEPT ![s] = Without(@, n)]
         /\ past' = [past EXCEPT ![s] = @ \cup
                       IF i + 1 < Len(layout[s]) THEN {"shrunk", "hole"}
                                                 ELSE {"shrunk"}]
  /\ version' = [version EXCEPT ![s] = @ + 1]
  /\ UNCHANGED <<rec, saved, loading>>

(* Wrong variant: the types are written in the order of the places.        *)
Save_TypesByPlace(s) ==
  /\ loading = Idle
  /\ types' = [types EXCEPT ![s] =
       With(@, [i \in 0 .. Cardinality(DOMAIN idx[s]) |-> NoType])]
  /\ saved' = [fields |-> LET ordered == InOrder(DOMAIN idx[s])
                          IN  [i \in DOMAIN ordered |->
                                 [name |-> ordered[i],
                                  type |-> types'[s][i - 1]]],
               version |-> version[s], declared |-> declared[s],
               hole |-> "hole" \in past[s]]
  /\ UNCHANGED <<layout, idx, ridx, version, declared>>
  /\ UNCHANGED <<rec, loading, changes, past>>

(* operator<<: the names in order, each with the type of its place, which  *)
(* types_[...] enters as "" where it is missing.                           *)
Save(s) ==
  /\ loading = Idle
  /\ types' = [types EXCEPT ![s] =
       With(@, [i \in {idx[s][n] : n \in DOMAIN idx[s]} |-> NoType])]
  /\ saved' = [fields |-> LET ordered == InOrder(DOMAIN idx[s])
                          IN  [i \in DOMAIN ordered |->
                                 [name |-> ordered[i],
                                  type |-> types'[s][idx[s][ordered[i]]]]],
               version |-> version[s], declared |-> declared[s],
               hole |-> "hole" \in past[s]]
  /\ UNCHANGED <<layout, idx, ridx, version, declared>>
  /\ UNCHANGED <<rec, loading, changes, past>>

(* operator>> *)
BeginLoad(s) ==
  /\ loading = Idle
  /\ changes + Len(saved.fields) <= MaxChanges
  /\ past' = [past EXCEPT ![s] =
                 @ \cup IF version[s] = 0 /\ layout[s] = <<>>
                        THEN {} ELSE {"reread"}]
  /\ loading' = [into |-> s, read |-> 0]
  /\ UNCHANGED <<schemaVars, rec, saved, changes>>

LoadField ==
  /\ loading # Idle /\ loading.read < Len(saved.fields)
  /\ LET s == loading.into
         f == saved.fields[loading.read + 1]
     IN  /\ f.name \notin DOMAIN idx[s] /\ f.type \in Types
         /\ Enter(s, f.name, f.type)
         /\ version' = [version EXCEPT ![s] = @ + 1]
  /\ Change
  /\ loading' = [loading EXCEPT !.read = @ + 1]
  /\ UNCHANGED <<rec, saved, past>>

(* A name that is taken, or no type, ends it with half the fields read.    *)
LoadThrows ==
  /\ loading # Idle /\ loading.read < Len(saved.fields)
  /\ LET f == saved.fields[loading.read + 1]
     IN  f.name \in DOMAIN idx[loading.into] \/ f.type \notin Types
  /\ loading' = Idle
  /\ UNCHANGED <<schemaVars, rec, saved, changes, past>>

EndLoad ==
  /\ loading # Idle /\ loading.read = Len(saved.fields)
  /\ version' = [version EXCEPT ![loading.into] = saved.version]
  /\ loading' = Idle
  /\ UNCHANGED <<layout, idx, ridx, types, declared>>
  /\ UNCHANGED <<rec, saved, changes, past>>

-----------------------------------------------------------------------------
(* Records.                                                                *)

IsSame(s, r) == rec[r].schema = s /\ rec[r].ver = version[s]

(* record::operator= when the layouts differ: all fields are made anew.    *)
Rebuilt(to, schema, ver, fields) ==
  [schema |-> schema, ver |-> ver, vals |-> Clones(fields)]

(* record::operator= when they are taken to be the same: every field is    *)
(* constructed in the memory of the old one.                               *)
Reconstructed(to, fields) ==
  [to EXCEPT !.vals = [i \in DOMAIN fields |->
                         [@[i] EXCEPT !.type = fields[i]]]]

(* make(): the prototype's own version was never written, so the schemas   *)
(* compare as they happen to.                                              *)
Make(r, s) ==
  /\ loading = Idle
  /\ \/ rec' = [rec EXCEPT ![r] = Rebuilt(@, s, version[s], layout[s])]
     \/ /\ rec[r].schema = s /\ Len(rec[r].vals) = Len(layout[s])
        /\ rec' = [rec EXCEPT ![r] =
                     [Reconstructed(@, layout[s]) EXCEPT !.ver = version[s]]]
  /\ UNCHANGED <<schemaVars, saved, loading, changes, past>>

(* Wrong variant: only the number of fields is compared.                   *)
LooksSame_ByLength(r, q) == Len(rec[r].vals) = Len(rec[q].vals)

(* schema_->isSameSchema(cp), and as many fields.                         *)
LooksSame(r, q) ==
  /\ Len(rec[r].vals) = Len(rec[q].vals)
  /\ rec[r].schema \in Schemas /\ IsSame(rec[r].schema, q)

Assign(r, q) ==
  /\ loading = Idle
  /\ rec[r].schema = NoSchema => rec[q].schema # NoSchema
  /\ LET from == rec[q]
     IN  rec' = [rec EXCEPT ![r] =
           IF LooksSame(r, q)
           THEN Reconstructed(@, TypesOf(from.vals))
           ELSE Rebuilt(@, from.schema, from.ver, TypesOf(from.vals))]
  /\ UNCHANGED <<schemaVars, saved, loading, changes, past>>

(* A record is destroyed, and another one copied from q in its place.      *)
CopyConstruct(r, q) ==
  /\ loading = Idle /\ r # q
  /\ rec' = [rec EXCEPT ![r] = [rec[q] EXCEPT !.vals = Clones(TypesOf(@))]]
  /\ UNCHANGED <<schemaVars, saved, loading, changes, past>>

-----------------------------------------------------------------------------
SchemaNext ==
  \/ \E s \in Schemas, n \in Names :
       \/ \E t \in Types : DefineField(s, n, t)
       \/ UndefineField(s, n)
  \/ \E s \in Schemas : Save(s) \/ BeginLoad(s)
  \/ LoadField \/ LoadThrows \/ EndLoad
  \/ \E r \in Records, s \in Schemas : Make(r, s)
  \/ \E r, q \in Records : Assign(r, q) \/ CopyConstruct(r, q)

SchemaSpec == SchemaInit /\ [][SchemaNext]_recordVars

-----------------------------------------------------------------------------
Map(S, T) == UNION {[D -> T] : D \in SUBSET S}
Indices == 0 .. 2^IndexWidth - 1

SchemaTypeOK ==
  /\ layout \in [Schemas -> Seq(Types)]
  /\ \A s \in Schemas :
       /\ idx[s] \in Map(Names, Indices)
       /\ DOMAIN declared[s] = DOMAIN idx[s]
       /\ ridx[s] \in Map(DOMAIN ridx[s], Names)
       /\ DOMAIN ridx[s] \subseteq DOMAIN types[s]
       /\ types[s] \in Map(Indices, Types \cup {NoType})
  /\ version \in [Schemas -> 0 .. MaxChanges]
  /\ \A r \in Records :
       /\ rec[r].schema \in Schemas \cup {NoSchema}
       /\ TypesOf(rec[r].vals) \in Seq(Types)
  /\ loading.into \in Schemas \cup {NoSchema}

(* record.h: the name of a field leads to that field, and back: idx_,      *)
(* ridx_, types_ and the prototype agree.                                  *)
NamesLead(s) ==
  \A n \in DOMAIN idx[s] :
    LET i == idx[s][n]
    IN  /\ i < Len(layout[s]) /\ layout[s][i + 1] = declared[s][n]
        /\ i \in DOMAIN ridx[s] /\ ridx[s][i] = n
        /\ types[s][i] = declared[s][n]

NamesReachFields == \A s \in Schemas : NamesLead(s)

(* They do as long as no field but the last was undefined.                 *)
NamesReachUnshifted ==
  \A s \in Schemas : "hole" \notin past[s] => NamesLead(s)

(* Schemas were only read while they were new.                             *)
OnlyReadNew == \A s \in Schemas : "reread" \notin past[s]

(* A record that a schema calls its own has the fields of the schema,      *)
(* through definitions and removals in any order, as long as schemas are   *)
(* only read while they are new.                                           *)
SameSchemaSameFields ==
  OnlyReadNew =>
    \A s \in Schemas, r \in Records :
      loading = Idle /\ IsSame(s, r) => TypesOf(rec[r].vals) = layout[s]

(* No schema lost a field or was read into twice: schemas only grew.       *)
OnlyGrew == \A s \in Schemas : past[s] = {}

(* An object is only ever constructed in memory of its own type, however   *)
(* much schemas have grown since the record assigned to was made.          *)
FieldsFitMemory ==
  OnlyGrew =>
    \A r \in Records : \A i \in DOMAIN rec[r].vals :
      rec[r].vals[i].type = rec[r].vals[i].mem

(* What was written by a schema whose names reached their fields, and read *)
(* back into a new schema, has the same fields and the same version.       *)
LoadedIsSaved ==
  [][EndLoad /\ ~saved.hole /\ "reread" \notin past[loading.into] =>
       /\ version'[loading.into] = saved.version
       /\ declared[loading.into] = saved.declared]_recordVars

=============================================================================
