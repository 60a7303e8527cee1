-------------------------------- MODULE Load --------------------------------
(***************************************************************************)
(* The batch loader of mongopg-migrate (migrate/load.py, with              *)
(* migrate/checkpoint.py and the id_map writes of migrate/idmap.py): one   *)
(* `migrate` process at a time copies the documents of every entity, in    *)
(* load order, batch by batch, into Postgres.                              *)
(*                                                                         *)
(* Every statement of the process acts on tx, what its open transaction    *)
(* sees; only a commit copies tx to db, what survives.  The process may be *)
(* killed between any two statements, and the source collections grow (and *)
(* shrink) while it runs.                                                  *)
(*                                                                         *)
(* The operators whose comment begins with `Mutant' are plausible bugs;    *)
(* each stands for the definition it precedes when a property is shown to  *)
(* be able to fail.                                                        *)
(***************************************************************************)
EXTENDS Integers, Sequences, FiniteSets

CONSTANTS
  Entity,       \* the entities of the mapping file
  Rank,         \* Rank[e]: place of e in entity_load_order()
  Target,       \* Target[e]: the main table of e, which entities may share
  Strategy,     \* Strategy[e]: id_strategy.type
  Lookups,      \* Lookups[e]: its lookup fields in mapping order,
                \*   each [to |-> entity, onMissing |-> policy]
  SkipsNoIdentity, \* [e]: its source_field is mapped on_missing: skip_row
  Identity,     \* Identity[e][d]: value of id_strategy.source_field in
                \*   document d, 0 if absent (d itself when it is _id)
  Reference,    \* Reference[e][d][k]: value of lookup field k, 0 if absent
  ForeignKeys,  \* <<child table, parent table>>: foreign keys of the target
  Deletable,    \* entities whose source documents may be deleted
  Commands,     \* the command lines the operator uses: [mode, only], where
                \*   only = {} is no --only; `migrate' refuses an unknown
                \*   name before load() runs
  Namespace,    \* --uuid-namespace values the operator uses
  BatchSize,    \* --batch-size
  MaxDoc,       \* bound: documents ever created in one collection
  MaxKills,     \* bound: how often the process is killed
  None          \* SQL NULL; no such id_map row

(* A document is its _id; ids of one collection grow with creation time.   *)
Doc == 1 .. MaxDoc

Table == {Target[e] : e \in Entity}

Minted   == {"int_sequence", "uuid_generate"}
Policies == {"error", "null", "skip_row"}

(* A target id: minted by a sequence or uuid4, the source value itself, or *)
(* uuid5 of the value under a namespace.                                   *)
Key == (Namespace \cup Minted \cup {"passthrough"}) \X Nat

Row == [src : Doc, key : Key, fk : Seq(Key \cup {None})]

Checkpoint == [last   : 0 .. MaxDoc,  \* last_source_id, 0 for NULL or no row
               status : {"absent", "in_progress", "done"},
               loaded : Nat]          \* rows_loaded

NoCheckpoint == [last |-> 0, status |-> "absent", loaded |-> 0]

ASSUME ConstantsAssumption ==
  /\ IsFiniteSet(Entity)
  /\ Rank \in [Entity -> Nat]
  /\ \A e, f \in Entity : Rank[e] = Rank[f] => e = f
  /\ Strategy \in [Entity -> Minted \cup {"passthrough", "objectid_to_uuid"}]
  /\ Lookups \in [Entity -> Seq([to : Entity, onMissing : Policies])]
  /\ \A e \in Entity : \A k \in DOMAIN Lookups[e] :
       Rank[Lookups[e][k].to] < Rank[e]
  /\ SkipsNoIdentity \in [Entity -> BOOLEAN]
  /\ Identity \in [Entity -> [Doc -> Nat]]
  /\ \A e \in Entity :
       Reference[e] \in [Doc -> [DOMAIN Lookups[e] -> 0 .. MaxDoc]]
  /\ ForeignKeys \subseteq Table \X Table
  /\ Deletable \subseteq Entity
  /\ Commands \subseteq [mode : {"append", "upsert", "truncate"},
                         only : SUBSET Entity]
  /\ Namespace \cap (Minted \cup {"passthrough"}) = {}
  /\ BatchSize \in Nat \ {0}
  /\ MaxDoc \in Nat
  /\ MaxKills \in Nat
  /\ None \notin Key

VARIABLES
  source,   \* source[e]: documents now in the collection e reads
  clock,    \* clock[e]: newest _id ever created there
  db,       \* the committed database
  tx,       \* the database as the process's open transaction sees it
  pc,       \* the process's next statement, "idle" when none runs
  run,      \* the options of the running process
  todo,     \* selected entities it has not finished
  cur,      \* entity it is loading
  snap,     \* snap[p]: id_map of p, prefetched for cur
  cursor,   \* the _id the find() cursor has reached
  opened,   \* clock[cur] when the cursor was opened
  batch,    \* documents read from the cursor, not yet committed
  out,      \* main-table rows built from batch
  outcome,  \* how the last process ended
  kills     \* how often a process was killed

mongo  == <<source, clock>>
reader == <<cur, snap, cursor, opened>>
vars   == <<source, clock, db, tx, pc, run, todo, cur, snap, cursor, opened,
            batch, out, outcome, kills>>

-----------------------------------------------------------------------------
(* A database: the rows each entity has in its table, how often the        *)
(* explode children of a document were copied (0, 1, or 2 for "more than   *)
(* once"), id_map, load_checkpoint, the identity sequence of each table,   *)
(* and (history, not stored) the documents that an on_missing policy       *)
(* dropped on the way to the checkpoint.                                   *)
Database ==
  [rows     : [Entity -> SUBSET Row],
   children : [Entity -> [Doc -> 0 .. 2]],
   idmap    : [Entity -> [Doc -> Key \cup {None}]],
   ckpt     : [Entity -> Checkpoint],
   seq      : [Table -> Nat],
   dropped  : [Entity -> SUBSET Doc]]

EmptyMap == [d \in Doc |-> None]

EmptyDatabase ==
  [rows     |-> [e \in Entity |-> {}],
   children |-> [e \in Entity |-> [d \in Doc |-> 0]],
   idmap    |-> [e \in Entity |-> EmptyMap],
   ckpt     |-> [e \in Entity |-> NoCheckpoint],
   seq      |-> [t \in Table |-> 0],
   dropped  |-> [e \in Entity |-> {}]]

Keys(rows) == {r.key : r \in rows}
Sources(rows) == {r.src : r \in rows}

TableKeys(D, t) == UNION {Keys(D.rows[e]) : e \in {f \in Entity : Target[f] = t}}

(* --only: the entities a run loads, and the tables truncate empties.      *)
Selected(only) == IF only = {} THEN Entity ELSE only

Emptied(only) == {Target[e] : e \in Selected(only)}

Parents(e) == {Lookups[e][k].to : k \in DOMAIN Lookups[e]}

-----------------------------------------------------------------------------
(* Building the row of one document.                                       *)

Lookup(e, d, k) ==
  IF Reference[e][d][k] = 0 THEN None
  ELSE snap[Lookups[e][k].to][Reference[e][d][k]]

(* A reference that is present and that id_map does not resolve.           *)
Dangling(e, d) ==
  {k \in DOMAIN Lookups[e] : Reference[e][d][k] # 0 /\ Lookup(e, d, k) = None}

(* error, or any policy while the referenced entity has no id_map row.     *)
Fatal(e, k) ==
  \/ Lookups[e][k].onMissing = "error"
  \/ snap[Lookups[e][k].to] = EmptyMap

(* Fields resolve in mapping order; the first that raises decides.         *)
Raises(e, d) ==
  {k \in Dangling(e, d) : Fatal(e, k) \/ Lookups[e][k].onMissing = "skip_row"}

FirstRaise(e, d) ==
  CHOOSE k \in Raises(e, d) : \A j \in Raises(e, d) : k <= j

Fails(e, d) ==
  \/ Identity[e][d] = 0 /\ ~SkipsNoIdentity[e]
  \/ /\ Identity[e][d] # 0
     /\ Raises(e, d) # {}
     /\ Fatal(e, FirstRaise(e, d))

Loads(e, d) == Identity[e][d] # 0 /\ Raises(e, d) = {}

(* Ids drawn for docs: one each, in reading order, unless its identity is  *)
(* absent.                                                                 *)
Drawn(e, docs) == Cardinality({d \in docs : Identity[e][d] # 0})

(* resolve_new_id                                                          *)
NewKey(e, d, docs) ==
  IF Strategy[e] \in Minted
  THEN <<Strategy[e], tx.seq[Target[e]] + Drawn(e, {x \in docs : x <= d})>>
  ELSE IF Strategy[e] = "passthrough"
  THEN <<"passthrough", Identity[e][d]>>
  ELSE <<run.ns, Identity[e][d]>>

NewRow(e, d, docs) ==
  [src |-> d,
   key |-> NewKey(e, d, docs),
   fk  |-> [k \in DOMAIN Lookups[e] |-> Lookup(e, d, k)]]

-----------------------------------------------------------------------------
(* The process ends: the connection closes, an open transaction is gone,   *)
(* and so is everything the process held in memory.                        *)
NoRun == [mode |-> "none", only |-> {}, ns |-> None,
          since |-> [e \in Entity |-> 0]]

Run == [mode : {"none", "append", "upsert", "truncate"}, only : SUBSET Entity,
        ns : Namespace \cup {None}, since : [Entity -> 0 .. MaxDoc]]

EmptySnap == [p \in Entity |-> EmptyMap]

CloseReader ==
  /\ cur' = None
  /\ snap' = EmptySnap
  /\ cursor' = 0
  /\ opened' = 0
  /\ batch' = {}
  /\ out' = {}

End(how) ==
  /\ tx' = db
  /\ pc' = "idle"
  /\ run' = NoRun
  /\ todo' = {}
  /\ outcome' = how
  /\ CloseReader

(* One transaction step: from one statement to the next.                   *)
Step(from, to) == pc = from /\ pc' = to

Commit(from, to) ==
  /\ Step(from, to)
  /\ db' = tx
  /\ UNCHANGED <<mongo, tx, run, outcome, kills>>

-----------------------------------------------------------------------------
(* load(): start, --mode truncate.                                         *)

(* Mutant: upsert truncates as well.                                       *)
StartRunTruncatingUpsert(c, ns) ==
  /\ Step("idle", IF c.mode = "append" THEN "entity" ELSE "truncate")
  /\ run' = [mode |-> c.mode, only |-> c.only, ns |-> ns, since |-> clock]
  /\ todo' = Selected(c.only)
  /\ outcome' = "none"
  /\ UNCHANGED <<mongo, db, tx, reader, batch, out, kills>>

StartRun(c, ns) ==
  /\ Step("idle", IF c.mode = "truncate" THEN "truncate" ELSE "entity")
  /\ run' = [mode |-> c.mode, only |-> c.only, ns |-> ns, since |-> clock]
  /\ todo' = Selected(c.only)
  /\ outcome' = "none"
  /\ UNCHANGED <<mongo, db, tx, reader, batch, out, kills>>

(* Postgres refuses to truncate a table that a table outside the same      *)
(* statement references.                                                   *)
TruncateAllowed(only) ==
  \A fk \in ForeignKeys : fk[2] \in Emptied(only) => fk[1] \in Emptied(only)

(* Mutant: the truncation commits by itself.                               *)
TruncateAutocommitted ==
  /\ Step("truncate", "reset")
  /\ TruncateAllowed(run.only)
  /\ tx' = [tx EXCEPT !.rows     = [e \in Entity |-> {}],
                      !.children = [e \in Entity |-> [d \in Doc |-> 0]],
                      !.seq      = [t \in Table |-> 0]]
  /\ db' = tx'
  /\ UNCHANGED <<mongo, run, todo, reader, batch, out, outcome, kills>>

(* RESTART IDENTITY restarts a sequence, not uuid4.                        *)
Serial(t) == \E e \in Entity : Target[e] = t /\ Strategy[e] = "int_sequence"

(* Whole tables, with the rows other entities have in them; their explode  *)
(* tables are not named.                                                   *)
TruncateTables ==
  /\ Step("truncate", "reset")
  /\ TruncateAllowed(run.only)
  /\ LET tables == Emptied(run.only) IN
     tx' = [tx EXCEPT
       !.rows     = [e \in Entity |-> IF Target[e] \in tables THEN {} ELSE tx.rows[e]],
       !.children = [e \in Entity |-> IF e \in Selected(run.only) THEN [d \in Doc |-> 0]
                                      ELSE tx.children[e]],
       !.seq      = [t \in Table |-> IF t \in tables /\ Serial(t) THEN 0 ELSE tx.seq[t]]]
  /\ UNCHANGED <<mongo, db, run, todo, reader, batch, out, outcome, kills>>

TruncateFails ==
  /\ pc = "truncate"
  /\ ~TruncateAllowed(run.only)
  /\ End("failed")
  /\ UNCHANGED <<mongo, db, kills>>

(* Every entity of the load order, whatever --only selects.                *)
ResetCheckpoints ==
  /\ Step("reset", "commit_truncate")
  /\ tx' = [tx EXCEPT !.ckpt    = [e \in Entity |-> NoCheckpoint],
                      !.dropped = [e \in Entity |-> {}]]
  /\ UNCHANGED <<mongo, db, run, todo, reader, batch, out, outcome, kills>>

CommitTruncate ==
  /\ Commit("commit_truncate", "entity")
  /\ UNCHANGED <<todo, reader, batch, out>>

-----------------------------------------------------------------------------
(* _load_entity_batches: one entity.                                       *)

(* Mutant: entities are loaded in any order.                               *)
AnyEntity(e) == e \in todo

NextEntity(e) == e \in todo /\ \A f \in todo : Rank[e] <= Rank[f]

(* Mutants: no check of the namespace; the check looks at the document     *)
(* after the checkpointed one.                                             *)
NamespaceUnchecked(e) == FALSE

NamespaceOfNext(e) ==
  LET last == tx.ckpt[e].last IN
  /\ last # 0
  /\ Strategy[e] = "objectid_to_uuid"
  /\ tx.idmap[e][last] \notin {None, <<run.ns, last + 1>>}

(* The checkpointed document's id was derived under another namespace.     *)
NamespaceChanged(e) ==
  LET last == tx.ckpt[e].last IN
  /\ last # 0
  /\ Strategy[e] = "objectid_to_uuid"
  /\ tx.idmap[e][last] \notin {None, <<run.ns, last>>}

BeginEntity(e) ==
  /\ Step("entity", "scan")
  /\ NextEntity(e)
  /\ ~NamespaceChanged(e)
  /\ cur' = e
  /\ snap' = [p \in Entity |-> IF p \in Parents(e) THEN tx.idmap[p] ELSE EmptyMap]
  /\ cursor' = tx.ckpt[e].last
  /\ opened' = clock[e]
  /\ UNCHANGED <<mongo, db, tx, run, todo, batch, out, outcome, kills>>

RefuseNamespace(e) ==
  /\ pc = "entity"
  /\ NextEntity(e)
  /\ NamespaceChanged(e)
  /\ End("refused")
  /\ UNCHANGED <<mongo, db, kills>>

(* Mutants: the query resumes at the checkpointed document, not after it;  *)
(* an entity that is marked done is not queried again.                     *)
UnreadFromCheckpoint == {d \in source[cur] : d >= cursor}

UnreadUnlessDone ==
  {d \in source[cur] : d > cursor /\ db.ckpt[cur].status # "done"}

Unread == {d \in source[cur] : d > cursor}

(* The documents the next batch holds when it ends with document last:     *)
(* BatchSize of them, or all that is left.                                 *)
UpTo(last) == {d \in Unread : d <= last}

EndsBatch(last) ==
  /\ last \in Unread
  /\ Cardinality(UpTo(last)) <= BatchSize
  /\ Cardinality(UpTo(last)) < BatchSize => UpTo(last) = Unread

ReadBatch(last) ==
  /\ Step("scan", "copy")
  /\ EndsBatch(last)
  /\ \A d \in UpTo(last) : ~Fails(cur, d)
  /\ batch' = UpTo(last)
  /\ out' = {NewRow(cur, d, batch') : d \in {x \in batch' : Loads(cur, x)}}
  /\ tx' = [tx EXCEPT !.seq[Target[cur]] =
                       IF Strategy[cur] \in Minted THEN @ + Drawn(cur, batch') ELSE @]
  /\ UNCHANGED <<mongo, db, run, todo, reader, outcome, kills>>

BatchFails(last) ==
  /\ pc = "scan"
  /\ EndsBatch(last)
  /\ \E d \in UpTo(last) : Fails(cur, d)
  /\ End("failed")
  /\ UNCHANGED <<mongo, db, kills>>

(* The main table's primary key and the target's foreign keys.  Two rows   *)
(* of one batch with the same key fail in every mode.                      *)
CopyAllowed ==
  /\ \A r, s \in out : r.key = s.key => r = s
  /\ run.mode # "upsert" => Keys(out) \cap TableKeys(tx, Target[cur]) = {}
  /\ \A r \in out : \A k \in DOMAIN Lookups[cur] :
       LET parent == Target[Lookups[cur][k].to] IN
         <<Target[cur], parent>> \in ForeignKeys =>
           r.fk[k] \in {None} \cup TableKeys(tx, parent)

(* The rows of e that an upsert does not overwrite.                        *)
Kept(e) == {r \in tx.rows[e] : Target[e] = Target[cur] => r.key \notin Keys(out)}

CopyRows ==
  /\ Step("copy", "idmap")
  /\ CopyAllowed
  /\ tx' = [tx EXCEPT
       !.rows = [e \in Entity |-> Kept(e) \cup (IF e = cur THEN out ELSE {})],
       !.children[cur] =
          [d \in Doc |-> IF d \in Sources(out) /\ @[d] < 2 THEN @[d] + 1 ELSE @[d]]]
  /\ UNCHANGED <<mongo, db, run, todo, reader, batch, out, outcome, kills>>

CopyFails ==
  /\ pc = "copy"
  /\ ~CopyAllowed
  /\ End("failed")
  /\ UNCHANGED <<mongo, db, kills>>

(* Mutants: an id_map row that exists is kept; id_map commits on its own.  *)
PutManyKeepingOld ==
  /\ Step("idmap", "advance")
  /\ tx' = [tx EXCEPT !.idmap[cur] =
       [d \in Doc |-> IF d \in Sources(out) /\ @[d] = None
                      THEN (CHOOSE r \in out : r.src = d).key
                      ELSE @[d]]]
  /\ UNCHANGED <<mongo, db, run, todo, reader, batch, out, outcome, kills>>

PutManyAutocommitted ==
  /\ Step("idmap", "advance")
  /\ tx' = [tx EXCEPT !.idmap[cur] =
       [d \in Doc |-> IF d \in Sources(out)
                      THEN (CHOOSE r \in out : r.src = d).key
                      ELSE @[d]]]
  /\ db' = [db EXCEPT !.idmap = tx'.idmap]
  /\ UNCHANGED <<mongo, run, todo, reader, batch, out, outcome, kills>>

PutMany ==
  /\ Step("idmap", "advance")
  /\ tx' = [tx EXCEPT !.idmap[cur] =
       [d \in Doc |-> IF d \in Sources(out)
                      THEN (CHOOSE r \in out : r.src = d).key
                      ELSE @[d]]]
  /\ UNCHANGED <<mongo, db, run, todo, reader, batch, out, outcome, kills>>

Newest(docs) == CHOOSE d \in docs : \A x \in docs : x <= d

(* Mutants: the checkpoint moves to the newest document of the collection; *)
(* rows_loaded counts documents.                                           *)
AdvanceToNewest ==
  /\ Step("advance", "commit_batch")
  /\ tx' = [tx EXCEPT
       !.ckpt[cur] = [last   |-> clock[cur],
                      status |-> IF @.status = "absent" THEN "in_progress" ELSE @.status,
                      loaded |-> @.loaded + Cardinality(out)],
       !.dropped[cur] = @ \cup (batch \ Sources(out))]
  /\ UNCHANGED <<mongo, db, run, todo, reader, batch, out, outcome, kills>>

AdvanceCountingDocuments ==
  /\ Step("advance", "commit_batch")
  /\ tx' = [tx EXCEPT
       !.ckpt[cur] = [last   |-> Newest(batch),
                      status |-> IF @.status = "absent" THEN "in_progress" ELSE @.status,
                      loaded |-> @.loaded + Cardinality(batch)],
       !.dropped[cur] = @ \cup (batch \ Sources(out))]
  /\ UNCHANGED <<mongo, db, run, todo, reader, batch, out, outcome, kills>>

(* advance() leaves the status of an existing row alone.                   *)
AdvanceCheckpoint ==
  /\ Step("advance", "commit_batch")
  /\ tx' = [tx EXCEPT
       !.ckpt[cur] = [last   |-> Newest(batch),
                      status |-> IF @.status = "absent" THEN "in_progress" ELSE @.status,
                      loaded |-> @.loaded + Cardinality(out)],
       !.dropped[cur] = @ \cup (batch \ Sources(out))]
  /\ UNCHANGED <<mongo, db, run, todo, reader, batch, out, outcome, kills>>

CommitBatch ==
  /\ Commit("commit_batch", "scan")
  /\ cursor' = Newest(batch)
  /\ batch' = {}
  /\ out' = {}
  /\ UNCHANGED <<todo, cur, snap, opened>>

(* Mutants: done after the first batch; a status the reader does not know. *)
MarkDoneEarly ==
  /\ Step("scan", "commit_done")
  /\ tx' = [tx EXCEPT !.ckpt[cur].status = "done"]
  /\ UNCHANGED <<mongo, db, run, todo, reader, batch, out, outcome, kills>>

MarkFinished ==
  /\ Step("scan", "commit_done")
  /\ \A d \in Unread : d > opened
  /\ tx' = [tx EXCEPT !.ckpt[cur].status = "finished"]
  /\ UNCHANGED <<mongo, db, run, todo, reader, batch, out, outcome, kills>>

(* The cursor is exhausted.  It has delivered every document that existed  *)
(* when it was opened, and of the later ones those it happened to reach.   *)
MarkDone ==
  /\ Step("scan", "commit_done")
  /\ \A d \in Unread : d > opened
  /\ tx' = [tx EXCEPT !.ckpt[cur].status = "done"]
  /\ UNCHANGED <<mongo, db, run, todo, reader, batch, out, outcome, kills>>

CommitDone ==
  /\ Commit("commit_done", "entity")
  /\ todo' = todo \ {cur}
  /\ CloseReader

EndRun ==
  /\ pc = "entity"
  /\ todo = {}
  /\ End("ok")
  /\ UNCHANGED <<mongo, db, kills>>

-----------------------------------------------------------------------------
(* The environment.                                                        *)

Kill ==
  /\ pc # "idle"
  /\ kills < MaxKills
  /\ kills' = kills + 1
  /\ End("killed")
  /\ UNCHANGED <<mongo, db>>

InsertDoc(e) ==
  /\ clock[e] < MaxDoc
  /\ clock' = [clock EXCEPT ![e] = @ + 1]
  /\ source' = [source EXCEPT ![e] = @ \cup {clock[e] + 1}]
  /\ UNCHANGED <<db, tx, pc, run, todo, reader, batch, out, outcome, kills>>

DeleteDoc(e, d) ==
  /\ e \in Deletable
  /\ d \in source[e]
  /\ source' = [source EXCEPT ![e] = @ \ {d}]
  /\ UNCHANGED <<clock, db, tx, pc, run, todo, reader, batch, out, outcome, kills>>

-----------------------------------------------------------------------------
Init ==
  /\ source = [e \in Entity |-> {}]
  /\ clock = [e \in Entity |-> 0]
  /\ db = EmptyDatabase
  /\ tx = EmptyDatabase
  /\ pc = "idle"
  /\ run = NoRun
  /\ todo = {}
  /\ cur = None
  /\ snap = EmptySnap
  /\ cursor = 0
  /\ opened = 0
  /\ batch = {}
  /\ out = {}
  /\ outcome = "none"
  /\ kills = 0

(* What a running process does by itself.                                  *)
Process ==
  \/ TruncateTables \/ TruncateFails \/ ResetCheckpoints \/ CommitTruncate
  \/ \E e \in Entity : BeginEntity(e) \/ RefuseNamespace(e)
  \/ \E last \in Doc : ReadBatch(last) \/ BatchFails(last)
  \/ CopyRows \/ CopyFails \/ PutMany \/ AdvanceCheckpoint \/ CommitBatch
  \/ MarkDone \/ CommitDone \/ EndRun

Operator ==
  \E c \in Commands, ns \in Namespace : StartRun(c, ns)

Environment ==
  \/ Kill
  \/ \E e \in Entity : InsertDoc(e)
  \/ \E e \in Entity, d \in Doc : DeleteDoc(e, d)

Next == Process \/ Operator \/ Environment

Spec == Init /\ [][Next]_vars
-----------------------------------------------------------------------------
(* What the loader must keep true.                                         *)

TypeOK ==
  /\ source \in [Entity -> SUBSET Doc]
  /\ clock \in [Entity -> 0 .. MaxDoc]
  /\ db \in Database
  /\ tx \in Database
  /\ pc \in {"idle", "truncate", "reset", "commit_truncate", "entity", "scan",
             "copy", "idmap", "advance", "commit_batch", "commit_done"}
  /\ run \in Run
  /\ todo \subseteq Entity
  /\ cur \in Entity \cup {None}
  /\ snap \in [Entity -> [Doc -> Key \cup {None}]]
  /\ cursor \in 0 .. MaxDoc
  /\ opened \in 0 .. MaxDoc
  /\ batch \subseteq Doc
  /\ out \subseteq Row
  /\ outcome \in {"none", "ok", "failed", "refused", "killed"}
  /\ kills \in 0 .. MaxKills

(* A document is settled once its row is committed or a policy dropped it. *)
Settled(e) == Sources(db.rows[e]) \cup db.dropped[e]

(* Resuming from the checkpoint skips nothing: every source document at or *)
(* before last_source_id has been loaded or was dropped on purpose.        *)
NoGap ==
  \A e \in Entity : \A d \in source[e] :
    d <= db.ckpt[e].last => d \in Settled(e)

(* Nothing already committed is loaded again: a document has one row, and  *)
(* its explode children were copied exactly as often as its row.           *)
LoadedOnce ==
  \A e \in Entity :
    /\ \A r, s \in db.rows[e] : r.src = s.src => r = s
    /\ \A d \in Doc :
         db.children[e][d] = IF d \in Sources(db.rows[e]) THEN 1 ELSE 0

(* id_map and the target agree: every committed row is the one id_map      *)
(* answers for its source document.                                        *)
RowsMapped ==
  \A e \in Entity : \A r \in db.rows[e] : db.idmap[e][r.src] = r.key

(* rows_loaded counts the rows written, not the documents looked at.       *)
RowsCounted ==
  \A e \in Entity : db.ckpt[e].loaded = Cardinality(db.rows[e])

(* Every looked-up value stored in a row is the key of the row that the    *)
(* referenced document itself was loaded into.                             *)
ReferencesResolve ==
  \A e \in Entity : \A r \in db.rows[e] : \A k \in DOMAIN Lookups[e] :
    r.fk[k] # None =>
      \E p \in db.rows[Lookups[e][k].to] :
        p.key = r.fk[k] /\ p.src = Reference[e][r.src][k]

(* All ids of an objectid_to_uuid entity come from one namespace: a resume *)
(* under another one never adds to them.                                   *)
OneNamespace ==
  \A e \in Entity : Strategy[e] = "objectid_to_uuid" =>
    \A r, s \in db.rows[e] : r.key[1] = s.key[1]

(* A reference is treated as dangling - nulled, or its document dropped    *)
(* for good - only if the referenced document is gone, was dropped itself, *)
(* or was created after the run began.                                     *)
DanglingForReal ==
  \A d \in batch : \A k \in Dangling(cur, d) :
    LET p == Lookups[cur][k].to
        r == Reference[cur][d][k]
    IN r \in source[p] => r \in db.dropped[p] \/ r > run.since[p]

(* A run that ends well has settled every document of the entities it      *)
(* selected that existed when it began.                                    *)
RunComplete ==
  (pc = "entity" /\ todo = {}) =>
    \A e \in Selected(run.only) : \A d \in source[e] :
      d <= run.since[e] => d \in Settled(e)

(* Unless a truncating run starts over, the checkpoint only moves forward  *)
(* and what is committed stays: append and upsert take nothing away.       *)
Progress ==
  [][ \/ run.mode = "truncate"
      \/ \A e \in Entity :
           /\ db.ckpt[e].last <= db'.ckpt[e].last
           /\ Keys(db.rows[e]) \subseteq Keys(db'.rows[e]) ]_db

(* A resume is refused only if the entity really holds an id of another    *)
(* namespace.                                                              *)
RefusedForCause ==
  [][ outcome' = "refused" =>
        \E e \in todo : \E r \in db.rows[e] : r.key[1] # run.ns ]_outcome

(* A run reports a document it cannot load only if that document lacks its *)
(* identity, or refers to one that is gone, was dropped, or was created    *)
(* after the run began - never because an entity is not loaded yet.        *)
FailedForCause ==
  [][ (pc = "scan" /\ outcome' = "failed") =>
        \E d \in Unread :
          \/ Identity[cur][d] = 0
          \/ \E k \in DOMAIN Lookups[cur] :
               LET p == Lookups[cur][k].to
                   r == Reference[cur][d][k]
               IN r # 0 /\ (r \notin source[p] \/ r \in db.dropped[p] \/ r > run.since[p]) ]_outcome

(* The loader implements the abstract migration.                           *)
Abstract == INSTANCE Migration WITH
  loaded   <- [e \in Entity |-> Sources(db.rows[e])],
  dropped  <- db.dropped,
  frontier <- [e \in Entity |-> db.ckpt[e].last]

ImplementsMigration == Abstract!Spec

-----------------------------------------------------------------------------
(* A process that is not killed keeps executing its statements, and the    *)
(* operator re-runs a migration that ended: the cure every error message   *)
(* of `migrate` names.  Nothing is assumed of the source or of kills,      *)
(* which MaxKills bounds.                                                  *)
FairSpec == Spec /\ WF_vars(Process) /\ WF_vars(Operator)

(* Every document is eventually settled, unless it is deleted first or the *)
(* runs keep reporting an error: no document is passed over in silence.    *)
EventuallySettled ==
  \/ []<>(outcome \in {"failed", "refused"})
  \/ \A e \in Entity : \A d \in Doc :
       (d \in source[e]) ~> (d \in Settled(e) \/ d \notin source[e])

=============================================================================
