------------------------------ MODULE SampleDiff ------------------------------
(***************************************************************************)
(* The sample diff of `validate' (report/validate.py) and its on_missing   *)
(* summary: rows that id_map knows are drawn at random, their columns made *)
(* again from the document and compared.  Between the load and the audit,  *)
(* applications go on writing to either database.                          *)
(*                                                                         *)
(* Only an entity's own table is sampled.  A reference stands for the id   *)
(* that id_map gives it, which either side casts to a uuid, an integer or  *)
(* text.  A column may give a value back in another form than the mapping  *)
(* made it: `default:0' is a text, and from an integer column a number; an *)
(* ObjectId goes to a jsonb column through json_safe, and is a text there. *)
(***************************************************************************)
EXTENDS Documents

CONSTANTS
  SampleSize,  \* --sample-size
  Default,     \* the literal of a default: transform
  Changes,     \* what a document may become once it was loaded
  MaxDrifts    \* bound: changes between the load and the audit

(* A value in the form that its column gave it.                            *)
InColumn(v) == <<v>>

ASSUME SampleDiffAssumption ==
  /\ SampleSize \in Nat \ {0} /\ MaxDrifts \in Nat
  /\ Default \notin Value
  /\ \A v \in {Default, Raw} : InColumn(v) \notin Value \cup {Default}
  /\ \A m \in Mappings, c \in Changes : c \in Document /\ Len(c.values) = Len(m.main)

VARIABLES
  image,       \* image[d]: columns of the row of d; documents in id_map are its domain
  numbers,     \* documents whose _id is a number
  deleted,     \* documents that are no longer in the collection
  gone,        \* documents whose row is no longer in the table
  drifts,      \* changes since the load
  sampled,     \* documents that were sampled
  mismatches,  \* <<d, k>>: column k of d; <<d, 0>>: its document or its row
  listed,      \* <<table, k>>: the fields of the on_missing summary
  report       \* "none", "loaded", "done", or "crashed"

audit  == <<sampled, mismatches, listed>>
sdvars == <<inputs, image, numbers, deleted, gone, drifts, audit, report>>

-----------------------------------------------------------------------------
(* _resolve_field_value: a default covers an absent value and what         *)
(* on_missing: null made of a dangling one.                                *)
OrDefault(p, k) == IF Fields(p)[k].default THEN Default ELSE None

Resolved(p, k) ==
  IF Values(p)[k] = None \/ Dangles(p, k, known) THEN OrDefault(p, k) ELSE Values(p)[k]

(* Does field k's way to its column and back give v another form?          *)
Retyped(k, v) == v = Raw \/ (v = Default /\ mapping.main[k].typed)

(* What is read back from column k once v was made for it.                 *)
Stored(k, v) == IF Retyped(k, v) THEN InColumn(v) ELSE v

Row(d) == [k \in DOMAIN mapping.main |-> Stored(k, Resolved(Main(d), k))]

(* The load got as far as document n.  A dropped document has no id_map    *)
(* row.                                                                    *)
LoadUpTo(n) ==
  /\ report = "none"
  /\ \A d \in 1 .. n : ~DocFails(d)
  /\ image' = [d \in {x \in 1 .. n : ~DocSkips(x)} |-> Row(d)]
  /\ report' = "loaded"
  /\ UNCHANGED <<inputs, numbers, deleted, gone, drifts, audit>>

-----------------------------------------------------------------------------
Drift ==
  /\ report = "loaded"
  /\ drifts < MaxDrifts
  /\ drifts' = drifts + 1
  /\ UNCHANGED <<numbers, audit, report>>

(* In Mongo.                                                               *)
ChangeDocument(d, c) ==
  /\ Drift
  /\ docs' = [docs EXCEPT ![d] = c]
  /\ UNCHANGED <<mapping, parents, known, image, deleted, gone>>

DeleteDocument(d) ==
  /\ Drift
  /\ deleted' = deleted \cup {d}
  /\ UNCHANGED <<inputs, image, gone>>

(* The looked-up entity is truncated, or loaded again or further.          *)
Reload(ids) ==
  /\ Drift
  /\ known' = ids
  /\ UNCHANGED <<mapping, docs, parents, image, deleted, gone>>

(* In Postgres, which keeps NULL out of a NOT NULL column.                 *)
WriteColumn(d, k, v) ==
  /\ Drift
  /\ v = None => mapping.main[k].nullable
  /\ image' = [image EXCEPT ![d][k] = v]
  /\ UNCHANGED <<inputs, deleted, gone>>

DeleteRow(d) ==
  /\ Drift
  /\ gone' = gone \cup {d}
  /\ UNCHANGED <<inputs, image, deleted>>

-----------------------------------------------------------------------------
(* _refetch_mongo_doc: by the text of its _id, as an ObjectId if it reads  *)
(* as one, else as a string.                                               *)
Refetched(d) == d \notin deleted /\ d \notin numbers

(* _LOOKUP_MISSING, which equals nothing.                                  *)
LookupMissing(d, k) ==
  Dangles(Main(d), k, known) /\ mapping.main[k].onMissing # "null"

(* Mutant: the default is for values of a transform alone.                 *)
RecomputedBare(d, k) ==
  IF mapping.main[k].lookup /\ Values(Main(d))[k] \notin known THEN None
  ELSE IF Values(Main(d))[k] = None THEN OrDefault(Main(d), k) ELSE Values(Main(d))[k]

(* _recompute_field_value, which reads id_map afresh.  It knows nothing of *)
(* json_safe, nor of the column's type but for a reference's.              *)
Recomputed(d, k) ==
  IF \/ Values(Main(d))[k] = None
     \/ mapping.main[k].lookup /\ Values(Main(d))[k] \notin known
  THEN OrDefault(Main(d), k) ELSE Values(Main(d))[k]

(* Mutant: a reference that does not resolve counts as NULL.               *)
DiffersFromNull(d, k) == Recomputed(d, k) # image[d][k]

Differs(d, k) == LookupMissing(d, k) \/ Recomputed(d, k) # image[d][k]

Compared(d) ==
  IF Refetched(d) /\ d \notin gone
  THEN {<<d, k>> : k \in {x \in DOMAIN mapping.main : Differs(d, x)}}
  ELSE {<<d, 0>>}

(* Mutant: only what the counts have to make up for is listed.             *)
DroppedOnly ==
  UNION {{<<p[1], k>> : k \in {x \in DOMAIN Fields(p) :
            Fields(p)[x].onMissing = "skip_row" /\ Dangles(p, x, known)}} :
         p \in {q \in Places : q[2] \notin deleted}}

(* _count_on_missing: the fields with a policy and a value that dangles.   *)
OnMissing ==
  UNION {{<<p[1], k>> : k \in {x \in DOMAIN Fields(p) :
            Fields(p)[x].onMissing # "error" /\ Dangles(p, x, known)}} :
         p \in {q \in Places : q[2] \notin deleted}}

(* ORDER BY random() LIMIT n.  A value that no longer converts is not      *)
(* caught: there is no report at all.                                      *)
Sample(S) ==
  /\ report = "loaded"
  /\ \/ Cardinality(S) = SampleSize
     \/ Cardinality(S) < SampleSize /\ S = DOMAIN image
  /\ sampled' = S
  /\ IF \E d \in S : Refetched(d) /\ \E k \in DOMAIN mapping.main : Unconvertible(Main(d), k)
     THEN report' = "crashed" /\ UNCHANGED <<mismatches, listed>>
     ELSE /\ report' = "done"
          /\ mismatches' = UNION {Compared(d) : d \in S}
          /\ listed' = OnMissing
  /\ UNCHANGED <<inputs, image, numbers, deleted, gone, drifts>>

SampleInit ==
  /\ mapping \in Mappings
  /\ docs \in Datasets
  /\ \E lookups \in Lookups : parents = lookups[1] /\ known = lookups[2]
  /\ image = <<>>
  /\ numbers \in SUBSET {1}
  /\ deleted = {} /\ gone = {} /\ drifts = 0
  /\ sampled = {} /\ mismatches = {} /\ listed = {}
  /\ report = "none"

SampleNext ==
  \/ \E n \in 0 .. Len(docs) : LoadUpTo(n)
  \/ \E d \in DOMAIN docs, c \in Changes : ChangeDocument(d, c)
  \/ \E d \in DOMAIN docs : DeleteDocument(d)
  \/ \E ids \in SUBSET Ref : Reload(ids)
  \/ \E d \in DOMAIN image, k \in DOMAIN mapping.main, v \in Ref \cup {None} : WriteColumn(d, k, v)
  \/ \E d \in DOMAIN image : DeleteRow(d)
  \/ \E S \in SUBSET DOMAIN image : Sample(S)

SampleSpec == SampleInit /\ [][SampleNext]_sdvars

-----------------------------------------------------------------------------
(* What may be reported of a load that nothing changed since: documents    *)
(* whose _id is a number, which are not found again, and values that their *)
(* columns give back in another form.                                      *)
KnownAlarms ==
  {<<d, 0>> : d \in numbers} \cup
  UNION {{<<d, k>> : k \in {x \in DOMAIN mapping.main : Retyped(x, Resolved(Main(d), x))}} :
         d \in DOMAIN docs}

(* No other false alarm: of a load, also a partial one, that nothing       *)
(* changed since, the audit reports no column that gives back the value    *)
(* made for it, whatever policy or default made it.                        *)
SampleClean ==
  drifts = 0 => report # "crashed" /\ mismatches \subseteq KnownAlarms

(* A sample without a mismatch holds only rows that `migrate' would write  *)
(* now, and with these values.  (If nothing of the looked-up entity is     *)
(* loaded any more, `migrate' would fail and the audit be content.)        *)
SampleFinds ==
  (report = "done" /\ mismatches = {}) =>
    \A d \in sampled :
      /\ d \notin deleted /\ d \notin gone
      /\ image[d] = Row(d)
      /\ known # {} => Stops(Main(d)) = {}

(* No reference is lost in silence: a sampled column that does not hold    *)
(* the reference its document does is either a mismatch, or in a field     *)
(* that the summary lists, although id_map changed since the load.         *)
NoSilentNull ==
  report = "done" =>
    \A d \in sampled : \A k \in DOMAIN mapping.main :
      (/\ mapping.main[k].lookup /\ docs[d].values[k] # None
       /\ image[d][k] # docs[d].values[k]) =>
         {<<d, 0>>, <<d, k>>} \cap mismatches # {} \/ <<"main", k>> \in listed
=============================================================================
