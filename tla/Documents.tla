------------------------------ MODULE Documents ------------------------------
(***************************************************************************)
(* What the documents of one entity become: the rows they hold for the     *)
(* entity's table and for its explode, junction and unpivot tables, and    *)
(* which of them migrate/load.py writes, drops under an on_missing policy, *)
(* or fails on.  FastPass and CountDiff predict and audit the same.        *)
(*                                                                         *)
(* A row the source holds is a place <<table, document, i, j>>: the        *)
(* document itself, its item i, part j of item i (a nested explode), its   *)
(* tag i (a junction), or its code i (an unpivot).                         *)
(***************************************************************************)
EXTENDS Integers, Sequences, FiniteSets

CONSTANTS
  Ref,       \* _ids of documents of the entity that is looked up
  Mappings,  \* the mapping files
  Datasets,  \* the contents of the collection: sequences of documents
  Lookups,   \* the <<parents, known>> to look references up in
  None,      \* an absent or null value
  Empty,     \* the empty text
  Raw,       \* a value that its column gives back in another form
  Bad        \* a value the field's transform cannot convert

Policies == {"error", "null", "skip_row"}

(* A field's lookup and policy, whether its column may be NULL, whether its *)
(* transform supplies a default, and whether the column gives the literal  *)
(* of a default back as a number, a Boolean or a time.                     *)
Field == [lookup : BOOLEAN, onMissing : Policies, nullable : BOOLEAN, default : BOOLEAN,
          typed : BOOLEAN]

(* identity: the field id_strategy.source_field names, 0 for _id; derived:  *)
(* id_strategy is objectid_to_uuid.  tags: the child_fk of a junction; one  *)
(* without a lookup copies its values, and is left out.                    *)
Mapping == [main : Seq(Field), items : Seq(Field), parts : Seq(Field),
            tags : Field, codes : Seq(Field), skipNull : BOOLEAN,
            identity : Nat, derived : BOOLEAN]

(* What should be an array may be a scalar: list is FALSE then.            *)
ArrayOf(S) == [list : BOOLEAN, at : Seq(S)]

Value == Ref \cup {None, Empty, Raw, Bad}
Part  == [values : Seq(Value)]
Item  == [values : Seq(Value), parts : ArrayOf(Part)]
Document == [values : Seq(Value), items : ArrayOf(Item), tags : ArrayOf(Value),
             codes : Seq(Value), objectId : BOOLEAN] \* is the identity an ObjectId?

ASSUME DocumentsAssumption ==
  /\ Ref \cap {None, Empty, Raw, Bad} = {}
  /\ None \notin {Empty, Raw, Bad} /\ Empty \notin {Raw, Bad} /\ Raw # Bad
  /\ Mappings \subseteq Mapping
  /\ Datasets \subseteq Seq(Document)
  /\ Lookups \subseteq (SUBSET Ref) \X (SUBSET Ref)
  /\ \A m \in Mappings :
       /\ m.identity \in 0 .. Len(m.main)
       /\ \A k \in DOMAIN m.main : m.main[k].onMissing # "error" => m.main[k].lookup
       /\ m.tags.lookup /\ m.tags.onMissing # "null" /\ m.tags.nullable
       /\ \A i \in DOMAIN m.codes : ~m.codes[i].lookup /\ m.codes[i].onMissing = "error"
  /\ \A m \in Mappings, c \in Datasets : \A d \in DOMAIN c :
       /\ Len(c[d].values) = Len(m.main)
       /\ Len(c[d].codes) = Len(m.codes)
       /\ \A i \in DOMAIN c[d].items.at :
            /\ Len(c[d].items.at[i].values) = Len(m.items)
            /\ \A j \in DOMAIN c[d].items.at[i].parts.at :
                 Len(c[d].items.at[i].parts.at[j].values) = Len(m.parts)

VARIABLES
  mapping,   \* the mapping file
  docs,      \* the collection
  parents,   \* _ids in the collection that is looked up
  known      \* _ids that id_map resolves

inputs == <<mapping, docs, parents, known>>

-----------------------------------------------------------------------------
Tables == {"main", "items", "parts", "tags", "codes"}

(* The rows document d holds.  An unpivot item without a value is none if  *)
(* skip_null says so.                                                      *)
PlacesOf(d) ==
  LET items == docs[d].items.at IN
  {<<"main", d, 0, 0>>} \cup
  {<<"items", d, i, 0>> : i \in DOMAIN items} \cup
  (UNION {{<<"parts", d, i, j>> : j \in DOMAIN items[i].parts.at} : i \in DOMAIN items}) \cup
  {<<"tags", d, i, 0>> : i \in DOMAIN docs[d].tags.at} \cup
  {<<"codes", d, i, 0>> : i \in {c \in DOMAIN docs[d].codes :
                                   ~mapping.skipNull \/ docs[d].codes[c] # None}}

Places == UNION {PlacesOf(d) : d \in DOMAIN docs}

(* The fields a row is built from, and their values in the source.         *)
Fields(p) ==
  CASE p[1] = "main"  -> mapping.main
    [] p[1] = "items" -> mapping.items
    [] p[1] = "parts" -> mapping.parts
    [] p[1] = "tags"  -> <<mapping.tags>>
    [] p[1] = "codes" -> <<mapping.codes[p[3]]>>

Values(p) ==
  LET d == docs[p[2]] IN
  CASE p[1] = "main"  -> d.values
    [] p[1] = "items" -> d.items.at[p[3]].values
    [] p[1] = "parts" -> d.items.at[p[3]].parts.at[p[4]].values
    [] p[1] = "tags"  -> <<d.tags.at[p[3]]>>
    [] p[1] = "codes" -> <<d.codes[p[3]]>>

-----------------------------------------------------------------------------
(* One field of one row.  A reference dangles if it is present and not     *)
(* among the ids that resolve.                                             *)
Dangles(p, k, ids) ==
  Fields(p)[k].lookup /\ Values(p)[k] # None /\ Values(p)[k] \notin ids

(* NULL, for want of a value or by the policy, into a NOT NULL column.     *)
NullRefused(p, k, ids) ==
  /\ Values(p)[k] = None \/ Dangles(p, k, ids)
  /\ ~Fields(p)[k].default
  /\ ~Fields(p)[k].nullable

Unconvertible(p, k) == ~Fields(p)[k].lookup /\ Values(p)[k] = Bad

(* No policy applies while the looked-up entity has no id_map row at all.  *)
FieldSkips(p, k) ==
  Dangles(p, k, known) /\ Fields(p)[k].onMissing = "skip_row" /\ known # {}

FieldFails(p, k) ==
  \/ Dangles(p, k, known) /\ (Fields(p)[k].onMissing = "error" \/ known = {})
  \/ Unconvertible(p, k)
  \/ ~FieldSkips(p, k) /\ NullRefused(p, k, known)

(* Fields are resolved in mapping order; the first that cannot be decides. *)
Stops(p) == {k \in DOMAIN Fields(p) : FieldSkips(p, k) \/ FieldFails(p, k)}

First(p, k) == k \in Stops(p) /\ \A j \in Stops(p) : k <= j

Fails(p) == \E k \in DOMAIN Fields(p) : First(p, k) /\ FieldFails(p, k)
Skips(p) == \E k \in DOMAIN Fields(p) : First(p, k) /\ FieldSkips(p, k)

-----------------------------------------------------------------------------
(* One document.  Without its identity it is dropped if the identity field *)
(* is mapped on_missing: skip_row, and an error otherwise.  An empty text  *)
(* is an identity like any other.                                          *)
Identified(d) == mapping.identity = 0 \/ docs[d].values[mapping.identity] # None

Main(d) == <<"main", d, 0, 0>>

DocSkips(d) ==
  IF Identified(d) THEN Skips(Main(d))
  ELSE mapping.main[mapping.identity].onMissing = "skip_row"

(* A nested row is not built if the item around it is dropped.             *)
Reached(p) == p[1] = "parts" => ~Skips(<<"items", p[2], p[3], 0>>)

(* The fields of document d that should be arrays and are not.             *)
Scalars(d) ==
  {p \in {<<"items", d, 0, 0>>} : ~docs[d].items.list} \cup
  {p \in {<<"tags", d, 0, 0>>} : ~docs[d].tags.list} \cup
  {<<"parts", d, i, 0>> :
     i \in {x \in DOMAIN docs[d].items.at : ~docs[d].items.at[x].parts.list}}

DocFails(d) ==
  /\ ~DocSkips(d)
  /\ Identified(d) =>
       \/ \E p \in Scalars(d) : Reached(p)
       \/ \E p \in PlacesOf(d) : Reached(p) /\ Fails(p)

(* The rows that document d leaves unwritten on purpose.                   *)
Dropped(d) ==
  IF DocSkips(d) THEN PlacesOf(d)
  ELSE {p \in PlacesOf(d) : Skips(p) \/ ~Reached(p)}

Written(d) == PlacesOf(d) \ Dropped(d)
=============================================================================
