------------------------------ MODULE CountDiff ------------------------------
(***************************************************************************)
(* The count diff of `validate' (report/validate.py): for every table an   *)
(* entity writes, the rows its documents hold, less the reduction that     *)
(* on_missing: skip_row is expected to have made, against the rows that    *)
(* are there.                                                              *)
(***************************************************************************)
EXTENDS Documents

VARIABLES
  rows,     \* places whose row is in Postgres
  verdict   \* "none", "ok", "mismatch", or "error"

cdvars == <<rows, verdict>>

In(S, t) == {p \in S : p[1] = t}

(* What the aggregations count: $unwind takes a scalar for an array of it. *)
Counted(t) == In(Places \cup UNION {Scalars(d) : d \in DOMAIN docs}, t)

(* Fields of a row that may drop it, with the value they dangle on.        *)
SkipFields(p) ==
  {k \in DOMAIN Fields(p) : Fields(p)[k].lookup /\ Fields(p)[k].onMissing = "skip_row"}

(* Mutant: an absent value is taken for a dangling one.                    *)
AbsentOrDangling(t) ==
  UNION {{<<p, k>> : k \in {x \in SkipFields(p) : Values(p)[x] \notin known}} :
           p \in In(Places, t)}

Reasons(p) == {k \in SkipFields(p) : Dangles(p, k, known)}

(* The dangling references that drop a row of table t, wherever they are.  *)
Dangling(t) == UNION {{<<p, k>> : k \in Reasons(p)} : p \in In(Places, t)}

(* _entity_skipped_doc_ids: their rows in the other tables are not there   *)
(* either.                                                                 *)
SkippedDocs == {p[2] : p \in {q[1] : q \in Dangling("main")}}

OfSkipped(t) == {p \in Counted(t) : p[2] \in SkippedDocs}

(* Documents whose identity is absent, null or empty, if it may be missing. *)
Unidentified ==
  {d \in DOMAIN docs : /\ mapping.identity \in SkipFields(Main(d))
                       /\ docs[d].values[mapping.identity] \in {None, Empty}}

(* Of a junction, the distinct values that id_map lacks.                   *)
MissingTags ==
  {Values(p)[1] : p \in {q \in In(Places, "tags") : SkipFields(q) # {}}} \ known

(* Mutant: rows that share a dangling value are counted once.              *)
ExpectedValues(t) ==
  LET values == {<<Values(x[1])[x[2]], x[2]>> : x \in Dangling(t)} IN
  CASE t = "main"  -> Cardinality(values) + Cardinality(Unidentified)
    [] t \in {"items", "parts"} -> Cardinality(values) + Cardinality(OfSkipped(t))
    [] t = "tags"  -> Cardinality(MissingTags) + Cardinality(OfSkipped(t))
    [] t = "codes" -> Cardinality(OfSkipped(t))

ExpectedSkip(t) ==
  CASE t = "main"  -> Cardinality(Dangling(t)) + Cardinality(Unidentified)
    [] t \in {"items", "parts"} -> Cardinality(Dangling(t)) + Cardinality(OfSkipped(t))
    [] t = "tags"  -> Cardinality(MissingTags) + Cardinality(OfSkipped(t))
    [] t = "codes" -> Cardinality(OfSkipped(t))

(* Where this arithmetic is exact.  _skip_row_reduction says of itself that *)
(* a row with two dangling fields is subtracted twice; so is one that the  *)
(* loader drops with its document, or drops and would fail on, and a       *)
(* document whose identity is the empty text, which dangles and counts as  *)
(* missing.  What is nested in a dropped item, or in a document without    *)
(* its identity, is not subtracted, nor is a second tag with the same      *)
(* value; a null tag is.                                                   *)
Countable ==
  /\ \A p \in Places : \A k \in Reasons(p) : First(p, k)
  /\ \A d \in DOMAIN docs :
       /\ d \in SkippedDocs =>
            /\ Identified(d) /\ docs[d].tags.list
            /\ \A p \in PlacesOf(d) : Reasons(p) # {} => p = Main(d)
       /\ d \in Unidentified =>
            ~Identified(d) /\ PlacesOf(d) = {Main(d)} /\ Scalars(d) = {}
       /\ \A i \in DOMAIN docs[d].items.at : Reasons(<<"items", d, i, 0>>) # {} =>
            docs[d].items.at[i].parts.list /\ DOMAIN docs[d].items.at[i].parts.at = {}
  /\ \A p \in In(Places, "tags") : SkipFields(p) # {} =>
       /\ Values(p)[1] # None
       /\ Reasons(p) # {} => \A q \in In(Places, "tags") : Values(q) = Values(p) => q = p

Matches(t) ==
  Cardinality(In(rows, t)) = Cardinality(Counted(t)) - ExpectedSkip(t)

(* Mongo cannot take the $size of a junction field that is no array.       *)
Validate ==
  /\ verdict = "none"
  /\ verdict' = IF \E d \in DOMAIN docs : ~docs[d].tags.list THEN "error"
                ELSE IF \A t \in Tables : Matches(t) THEN "ok" ELSE "mismatch"
  /\ UNCHANGED <<inputs, rows>>
=============================================================================
