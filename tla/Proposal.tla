------------------------------- MODULE Proposal -------------------------------
(***************************************************************************)
(* How a mapping file comes about, for one entity: `propose' drafts it     *)
(* (mapping/propose.py), a language model may move fields                  *)
(* (mapping/llm_propose.py), an operator edits it, and `validate-mapping'  *)
(* holds it against a new sample of the collection (mapping/schema.py).    *)
(*                                                                         *)
(* Names are told apart by what the proposer makes of them: the column     *)
(* that resembles most, and whether it resembles enough.  `lookup:' names  *)
(* are the business of LoadOrder.  Arrays in exploded items are left out.  *)
(***************************************************************************)
EXTENDS Integers, FiniteSets

CONSTANTS
  Field,        \* names of fields, at either level
  Column,       \* columns of the target table
  IdColumn,     \* the one that id_strategy fills
  Collections,  \* what a sample may show: [names -> Shape]
  MaxEdits,     \* bound: paths that the operator edits
  Nothing

(* The best match of a name, if the score is LOW_CONFIDENCE at least; high *)
(* if HIGH_CONFIDENCE.                                                     *)
Guess ==
  [column : Column \cup {Nothing}, high : BOOLEAN]

(* FieldStats of a top-level field: one type, or "mixed"; the child or     *)
(* junction table found for an array; the fields one level below, if it is *)
(* an object or an array of objects.                                       *)
Shape ==
  [kind  : {"scalar", "mixed", "object", "objects", "values"},
   guess : Guess,
   table : {"none", "no key", "found", "no entity"},
   subs  : UNION {[F -> Guess] : F \in SUBSET Field}]

Path == Field \X (Field \cup {Nothing})

ASSUME ProposalAssumption ==
  /\ Nothing \notin Field \cup Column /\ IdColumn \in Column /\ MaxEdits \in Nat
  /\ \A c \in Collections : DOMAIN c \subseteq Field /\ c \in [DOMAIN c -> Shape]
  /\ \A c \in Collections : \A f \in DOMAIN c :
       /\ c[f].guess.high => c[f].guess.column # Nothing
       /\ \A s \in DOMAIN c[f].subs : c[f].subs[s].high => c[f].subs[s].column # Nothing

VARIABLES
  sample,        \* the sample that propose saw, or validate-mapping accepted
  jsonFallback,  \* the first json column of the target table, or Nothing
  fields,        \* <<path, column>>: `fields:'
  exploded,      \* keys of `explode:'
  items,         \* paths with a disposition, other than drop, in an explode
  itemDrop,      \* paths under `unmapped.drop' of an explode
  junction,      \* keys of `junction:'
  drop, jsonb, jsonbColumn,  \* `unmapped:'
  told,          \* history: paths that an issue named
  quiet,         \* history: fields that propose disposed of without an issue
  edited,        \* history: paths that the operator edited
  stage          \* how far the mapping file has come

unmapped == <<drop, jsonb, jsonbColumn>>
pvars == <<sample, jsonFallback, fields, exploded, items, itemDrop, junction,
           unmapped, told, quiet, edited, stage>>

-----------------------------------------------------------------------------
(* propose_entity                                                          *)
Top == DOMAIN sample
Subs(f) == DOMAIN sample[f].subs
Of(kind) == {f \in Top : sample[f].kind = kind}

Exploded == {f \in Of("objects") : sample[f].table = "found"}
Junctions == {f \in Of("values") : sample[f].table \in {"found", "no entity"}}
Matched(f) == {s \in Subs(f) : sample[f].subs[s].column # Nothing}
Nested == {f \in Of("object") : Matched(f) # {}}
Plain == {f \in Of("scalar") : sample[f].guess.column # Nothing}

Handled == Exploded \cup Junctions \cup Nested \cup Plain

(* Arrays and mixed fields that are left to the operator.                  *)
ByHand ==
  Of("mixed") \cup (Of("objects") \ Exploded) \cup {f \in Of("values") : sample[f].table # "found"}

(* Of an object in which nothing matched, an issue names each sub-field;   *)
(* of one that has none in the sample there is no issue.                   *)
Issues ==
  {<<f, Nothing>> : f \in ByHand \cup {g \in Of("scalar") : ~sample[g].guess.high}} \cup
  UNION {{<<f, s>> : s \in {x \in Subs(f) : ~sample[f].subs[x].high}} :
           f \in Exploded \cup Of("object")}

Empty == {f \in Of("object") : Subs(f) = {}}

Propose ==
  /\ stage = "observed"
  /\ fields' = {<<<<f, Nothing>>, sample[f].guess.column>> : f \in Plain} \cup
               UNION {{<<<<f, s>>, sample[f].subs[s].column>> : s \in Matched(f)} : f \in Nested}
  /\ exploded' = Exploded
  /\ items' = UNION {{<<f, s>> : s \in Matched(f)} : f \in Exploded}
  /\ junction' = Junctions
  /\ drop' = IF jsonFallback = Nothing THEN Top \ Handled ELSE {}
  /\ jsonb' = IF jsonFallback = Nothing THEN {} ELSE Top \ Handled
  /\ jsonbColumn' = IF Top \subseteq Handled THEN Nothing ELSE jsonFallback
  /\ told' = Issues
  /\ quiet' = Empty
  /\ stage' = "proposed"
  /\ UNCHANGED <<sample, jsonFallback, itemDrop, edited>>

-----------------------------------------------------------------------------
(* apply_suggestions: a column is taken if a field is mapped to it, or the *)
(* id is.                                                                  *)
Claimed == {x[2] : x \in fields} \cup {IdColumn}

Suggest(f, c) ==
  /\ stage = "proposed"
  /\ f \in drop \cup jsonb
  /\ c \notin Claimed
  /\ fields' = fields \cup {<<<<f, Nothing>>, c>>}
  /\ drop' = drop \ {f}
  /\ jsonb' = jsonb \ {f}
  /\ told' = told \cup {<<f, Nothing>>}
  /\ UNCHANGED <<sample, jsonFallback, exploded, items, itemDrop, junction,
                 jsonbColumn, quiet, edited, stage>>

(* A split, nothing, or a column that is not there or is taken.            *)
SuggestNothing(f) ==
  /\ stage = "proposed"
  /\ f \in drop \cup jsonb
  /\ told' = told \cup {<<f, Nothing>>}
  /\ UNCHANGED <<sample, jsonFallback, fields, exploded, items, itemDrop,
                 junction, unmapped, quiet, edited, stage>>

DumpMapping ==
  /\ stage = "proposed"
  /\ stage' = "written"
  /\ UNCHANGED <<sample, jsonFallback, fields, exploded, items, itemDrop,
                 junction, unmapped, told, quiet, edited>>

-----------------------------------------------------------------------------
Edit(p) ==
  /\ stage \in {"written", "unreadable", "refused"}
  /\ Cardinality(edited \cup {p}) <= MaxEdits
  /\ edited' = edited \cup {p}
  /\ stage' = "written"
  /\ UNCHANGED <<sample, jsonFallback, told, quiet>>

(* The operator takes f out wherever it is, and puts it elsewhere, or not. *)
Redispose(f) ==
  /\ Edit(<<f, Nothing>>)
  /\ LET others == {x \in fields : x[1][1] # f} IN
       \/ /\ \E c \in Column : fields' = others \cup {<<<<f, Nothing>>, c>>}
          /\ exploded' = exploded \ {f} /\ junction' = junction \ {f}
          /\ drop' = drop \ {f} /\ jsonb' = jsonb \ {f}
       \/ /\ fields' = others
          /\ \E place \in {"explode", "junction", "drop", "jsonb", "nowhere"} :
               LET In(p, S) == IF place = p THEN S \cup {f} ELSE S \ {f} IN
               /\ exploded' = In("explode", exploded) /\ junction' = In("junction", junction)
               /\ drop' = In("drop", drop) /\ jsonb' = In("jsonb", jsonb)
  /\ items' = {p \in items : p[1] # f}
  /\ itemDrop' = {p \in itemDrop : p[1] # f}
  /\ jsonbColumn' \in {Nothing, jsonFallback}

EditItem(f, s) ==
  /\ Edit(<<f, s>>)
  /\ f \in exploded
  /\ \/ items' = items \cup {<<f, s>>} /\ itemDrop' = itemDrop \ {<<f, s>>}
     \/ items' = items \ {<<f, s>>} /\ itemDrop' = itemDrop \cup {<<f, s>>}
  /\ UNCHANGED <<fields, exploded, junction, unmapped>>

-----------------------------------------------------------------------------
(* UnmappedPolicy: fields in both lists, a column without fields, or       *)
(* fields without a column, and the file is not loaded.                    *)
Readable ==
  /\ drop \cap jsonb = {}
  /\ jsonb # {} <=> jsonbColumn # Nothing

(* mapped_source_fields: `fields:' counts by its keys, and "a.b" is not a. *)
Accounted ==
  {x[1][1] : x \in {y \in fields : y[1][2] = Nothing}} \cup exploded \cup junction \cup drop \cup jsonb

(* The fields of the items of an exploded array in a sample.               *)
ItemFields(seen, f) ==
  IF f \in DOMAIN seen /\ seen[f].kind = "objects" THEN DOMAIN seen[f].subs ELSE {}

(* Mutant: fields inside exploded arrays need no disposition.              *)
MissingTop(seen) == {<<f, Nothing>> : f \in DOMAIN seen \ Accounted}

Missing(seen) ==
  {<<f, Nothing>> : f \in DOMAIN seen \ Accounted} \cup
  UNION {{<<f, s>> : s \in {x \in ItemFields(seen, f) : <<f, x>> \notin items \cup itemDrop}} :
           f \in exploded}

(* Each command samples the collection anew.                               *)
ValidateMapping(seen) ==
  /\ stage = "written"
  /\ \/ ~Readable /\ stage' = "unreadable" /\ UNCHANGED sample
     \/ Readable /\ Missing(seen) # {} /\ stage' = "refused" /\ UNCHANGED sample
     \/ Readable /\ Missing(seen) = {} /\ stage' = "accepted" /\ sample' = seen
  /\ UNCHANGED <<jsonFallback, fields, exploded, items, itemDrop, junction,
                 unmapped, told, quiet, edited>>

ProposalInit ==
  /\ sample \in Collections
  /\ jsonFallback \in (Column \ {IdColumn}) \cup {Nothing}
  /\ fields = {} /\ exploded = {} /\ items = {} /\ itemDrop = {} /\ junction = {}
  /\ drop = {} /\ jsonb = {} /\ jsonbColumn = Nothing
  /\ told = {} /\ quiet = {} /\ edited = {}
  /\ stage = "observed"

ProposalNext ==
  \/ Propose
  \/ \E f \in Field : SuggestNothing(f) \/ \E c \in Column : Suggest(f, c)
  \/ DumpMapping
  \/ \E f \in Field : Redispose(f) \/ \E s \in Field : EditItem(f, s)
  \/ \E seen \in Collections : ValidateMapping(seen)

ProposalSpec == ProposalInit /\ [][ProposalNext]_pvars

-----------------------------------------------------------------------------
(* Fields whose value goes to Postgres as a whole.                         *)
Whole == {f \in Field : <<f, Nothing>> \in {x[1] : x \in fields}} \cup junction \cup jsonb

Mentioned(f) == \E q \in told \cup edited : q[1] = f

(* Nothing is lost in silence: once `validate-mapping' accepts a file,     *)
(* every field that its sample shows, also of the items of an exploded     *)
(* array, goes to Postgres, or the operator was told of it or disposed of  *)
(* it himself, whatever the model suggested and however the collection     *)
(* differs from what propose saw.  (Of an object that was empty in every   *)
(* document of propose's sample, nobody is told.)                          *)
NothingLost ==
  stage = "accepted" => \A f \in Top :
    IF f \in exploded
    THEN \A s \in ItemFields(sample, f) : <<f, s>> \in items \cup edited
    ELSE f \in Whole \/ Mentioned(f) \/ f \in quiet

(* A draft that no one has edited can be read by the next command.         *)
DraftReadable == (stage = "written" /\ edited = {}) => Readable
=============================================================================
