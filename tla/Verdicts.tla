------------------------------- MODULE Verdicts -------------------------------
(***************************************************************************)
(* dry-run, migrate and validate, one after another, over the same data:   *)
(* what the first predicts and the last audits is what migrate/load.py     *)
(* does with the documents.  Load models how it commits and resumes; here  *)
(* it is only asked which rows it writes.                                  *)
(***************************************************************************)
EXTENDS FastPass, CountDiff

VARIABLES
  taken,  \* documents whose batch was committed
  load    \* "waiting", "loaded", "failed" or "killed"

vvars == <<inputs, fpvars, cdvars, taken, load>>

-----------------------------------------------------------------------------
(* _load_entity_batches: a batch is written as a whole, or not at all.     *)
LoadBatch ==
  /\ fast # "running"
  /\ load = "waiting"
  /\ NextBatch(taken) # {}
  /\ \A d \in NextBatch(taken) : ~DocFails(d)
  /\ rows' = rows \cup UNION {Written(d) : d \in NextBatch(taken)}
  /\ taken' = taken + Cardinality(NextBatch(taken))
  /\ UNCHANGED <<inputs, fpvars, verdict, load>>

BatchFails ==
  /\ fast # "running"
  /\ load = "waiting"
  /\ \E d \in NextBatch(taken) : DocFails(d)
  /\ load' = "failed"
  /\ UNCHANGED <<inputs, fpvars, cdvars, taken>>

EndLoad ==
  /\ fast # "running"
  /\ load = "waiting"
  /\ NextBatch(taken) = {}
  /\ load' = "loaded"
  /\ UNCHANGED <<inputs, fpvars, cdvars, taken>>

Kill ==
  /\ fast # "running"
  /\ load = "waiting"
  /\ load' = "killed"
  /\ UNCHANGED <<inputs, fpvars, cdvars, taken>>

Audit ==
  /\ load # "waiting"
  /\ Validate
  /\ UNCHANGED <<fpvars, taken, load>>

Init ==
  /\ mapping \in Mappings
  /\ docs \in Datasets
  /\ \E lookups \in Lookups : parents = lookups[1] /\ known = lookups[2]
  /\ FastPassInit
  /\ rows = {}
  /\ verdict = "none"
  /\ taken = 0
  /\ load = "waiting"

Next ==
  \/ FastPassNext /\ UNCHANGED <<cdvars, taken, load>>
  \/ LoadBatch \/ BatchFails \/ EndLoad \/ Kill \/ Audit

Spec == Init /\ [][Next]_vvars

-----------------------------------------------------------------------------
(* What a reviewer of a migration relies on.                               *)

(* A reference to a document that the dry run found in its collection and  *)
(* that has no id_map row: it was filtered out, dropped, or not loaded.    *)
Unloaded(d) ==
  \E p \in PlacesOf(d) : \E k \in DOMAIN Fields(p) :
    Dangles(p, k, known) /\ ~Dangles(p, k, Found)

(* `migrate' fails on no document that a finished dry run passed, unless   *)
(* it refers to one that is in the source but was not loaded, or nothing   *)
(* of the entity it refers to was loaded.                                  *)
FailuresForeseen ==
  (fast = "done" /\ Clean /\ load = "failed") =>
    \E d \in NextBatch(taken) : DocFails(d) /\ (Unloaded(d) \/ known = {})

(* Nothing is left out in silence: of each row that a committed document   *)
(* holds and that was not written, the dry run reported the row itself, or *)
(* the row or the document it hangs from.                                  *)
DropsAnnounced ==
  fast = "done" =>
    \A d \in 1 .. taken : ~Unloaded(d) =>
      \A p \in PlacesOf(d) \ rows :
        \E v \in violations :
          \/ v.at = p
          \/ v.at = Main(d)
          \/ p[1] = "parts" /\ v.at = <<"items", d, p[3], 0>>

(* After a load that went through, every table holds what `validate'       *)
(* expects: it cries wolf over no row that a policy dropped, if each has   *)
(* one reason to be dropped.                                               *)
CountsMatch == (load = "loaded" /\ verdict # "none" /\ Countable) => verdict = "ok"

(* `validate' accepts no load that was cut short: each row that is not     *)
(* there is one that the loader would drop.  (If id_map holds nothing of   *)
(* the looked-up entity, the loader fails on what is expected dropped.)    *)
AcceptedIsComplete ==
  (verdict = "ok" /\ known # {} /\ Countable) =>
    \A d \in DOMAIN docs : PlacesOf(d) \ rows \subseteq Dropped(d)
=============================================================================
