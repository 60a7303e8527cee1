------------------------------- MODULE FastPass -------------------------------
(***************************************************************************)
(* Layer A of the dry run (migrate/dryrun.py, run_fast_pass): reads the    *)
(* collection batch by batch, looks references up in the source collection *)
(* instead of id_map, and reports what `migrate' would fail on (errors) or *)
(* drop or null under a policy (infos).                                    *)
(***************************************************************************)
EXTENDS Documents

CONSTANTS
  BatchSize,      \* --batch-size
  MaxViolations   \* max_violations

ASSUME FastPassAssumption == BatchSize \in Nat \ {0} /\ MaxViolations \in Nat \ {0}

VARIABLES
  external,    \* the looked-up entity is one of external_entities
  examined,    \* documents examined
  violations,  \* what was reported: [at, field, severity]
  fast         \* "running", "truncated" or "done"

fpvars == <<external, examined, violations, fast>>

-----------------------------------------------------------------------------
(* _check_existence: references to an entity of the mapping file are       *)
(* looked up in its collection, others in id_map.                          *)
Found == IF external THEN known ELSE parents

Report(p, k, severity) == [at |-> p, field |-> k, severity |-> severity]

(* Mutant: what on_missing covers is not reported.                         *)
NothingAnnounced(p, k) == FALSE

Announced(p, k) == Dangles(p, k, Found) /\ Fields(p)[k].onMissing # "error"

(* After a skip_row no NULL is checked for, and after an error the value   *)
(* counts as present.                                                      *)
Refused(p, k) ==
  \/ Dangles(p, k, Found) /\ Fields(p)[k].onMissing = "error"
  \/ Unconvertible(p, k)
  \/ /\ Dangles(p, k, Found) => Fields(p)[k].onMissing = "null"
     /\ NullRefused(p, k, Found)

FieldViolations(p, k) ==
  {Report(p, k, s) : s \in {x \in {"info"} : Announced(p, k)} \cup
                          {x \in {"error"} : Refused(p, k)}}

(* Mutant: the rows of nested explode levels are not looked at.            *)
OuterPlaces(d) == {p \in PlacesOf(d) : p[1] # "parts"}

(* Every row of a document is examined, those a skip_row drops included.   *)
Examined(d) == PlacesOf(d)

IdViolations(d) ==
  IF ~Identified(d) \/ (mapping.derived /\ ~docs[d].objectId)
  THEN {Report(Main(d), 0, "error")} ELSE {}

DocViolations(d) ==
  IdViolations(d) \cup
  {Report(p, 0, "error") : p \in Scalars(d)} \cup
  UNION {UNION {FieldViolations(p, k) : k \in DOMAIN Fields(p)} : p \in Examined(d)}

-----------------------------------------------------------------------------
(* The documents after position n that make the next batch.                *)
NextBatch(n) == {d \in DOMAIN docs : n < d /\ d <= n + BatchSize}

(* The limit is looked at between batches.                                 *)
ExamineBatch ==
  /\ fast = "running"
  /\ Cardinality(violations) < MaxViolations
  /\ NextBatch(examined) # {}
  /\ violations' = violations \cup UNION {DocViolations(d) : d \in NextBatch(examined)}
  /\ examined' = examined + Cardinality(NextBatch(examined))
  /\ UNCHANGED <<inputs, external, fast>>

EndFastPass ==
  /\ fast = "running"
  /\ \/ Cardinality(violations) >= MaxViolations /\ fast' = "truncated"
     \/ /\ Cardinality(violations) < MaxViolations
        /\ NextBatch(examined) = {}
        /\ fast' = "done"
  /\ UNCHANGED <<inputs, external, examined, violations>>

FastPassInit ==
  /\ external \in BOOLEAN
  /\ examined = 0
  /\ violations = {}
  /\ fast = "running"

FastPassNext == ExamineBatch \/ EndFastPass

(* DryRunReport.ok                                                         *)
Clean == \A v \in violations : v.severity # "error"
=============================================================================
