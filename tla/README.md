# Verification of mongopg-migrate

mongopg-migrate copies the collections of a MongoDB database into the tables of
a PostgreSQL schema, as a reviewed mapping file says. This directory holds TLA+
models of its state-changing parts, the TLC configurations that check them on
small instances, and theorems proved with TLAPS. Paths below are relative to
`src/src/mongopg_migrate/`.

Conventions: an operator whose comment begins with `Mutant` is a plausible bug.
It stands for the definition that follows it when a property is shown to be able
to fail (`PROJECT.json`, "mutants"); no action uses it.

## 1. The system

A migration is a sequence of commands, each its own process; nothing in the tool
keeps two of them from running side by side. They share the mapping file, the source database (which other
applications may still be writing), the target schema, and the tool's own two
tables in `_mongopg`: `id_map` and `load_checkpoint`.

| Component | State it keeps | Operations | Used by / uses |
|---|---|---|---|
| Mapping schema, `mapping/schema.py` | the mapping file (entities, fields, lookups, explode/junction/unpivot, policies) | validators, `validate_structure`, `entity_dependencies`, `entity_load_order`, coverage checks | every command |
| Batch loader, `migrate/load.py` | one open transaction, a find() cursor, the rows of one batch, statistics, external connections | `load`, `_load_entity_batches`, truncation, building and copying rows | calls checkpoint, id map, id strategies, transforms |
| Checkpoint, `migrate/checkpoint.py` | `load_checkpoint`: last `_id`, status, rows loaded, per entity | `get`, `advance`, `mark_done`, `reset` | called by the loader, in its transaction |
| Id map, `migrate/idmap.py` | `id_map` table; per connection a snapshot or a bounded fallback cache per entity | `prefetch`, `get`, `put`, `put_many`, `has_any`, `clear_prefetch` | called by the loader, the dry run, validate |
| Id strategies, `migrate/idstrategy.py` | a buffer of reserved sequence values | `resolve_new_id` | called by the loader |
| Transforms, `migrate/transform.py` | none | `apply_transform`, `apply_default`, `get_nested` | loader, dry run, validate |
| Dry run, `migrate/dryrun.py` | a list of violations; in Layer B a disposable clone of the schema | `run_fast_pass`, `run_realistic_pass` | Layer B calls the loader |
| Validation report, `report/validate.py` | none | count diff, sample diff, on_missing summary | reads both databases and id_map |
| Postgres introspection, `introspect/postgres.py` | tables, columns, foreign keys | catalogue queries, `load_order` | every command |
| Mongo introspection, `introspect/mongo.py` | field statistics of sampled documents | `introspect` | propose, validate-mapping |
| Fan-in reshape, `fanin_reshape.py` | a derived collection | `run_reshape` | run by hand before migrate |
| Proposal, `mapping/propose.py`, `mapping/llm_*.py` | a draft mapping file | `propose` | a person edits the result |
| Command line, `cli.py`; `connerrors.py` | options | one function per command | all of the above |

What makes them correct, and what is hard about it:

* **Loader, checkpoint, id map.** A batch is a transaction of COPYs, id_map rows
  and a checkpoint. The process may be killed between any two statements and is
  cured by running it again, in any mode, on any selection of entities, perhaps
  with other options, while documents come and go. No document may be lost,
  loaded twice, dropped for a reason that will pass, or referred to by a wrong id.
* **Caches of id_map.** Read once per entity and never invalidated; right only
  because of the order of reads and writes in the loader.
* **Load order.** Lookups hide at any depth of an explode tree; a missed edge
  makes every reference look dangling, and a policy then nulls or drops them.
* **Resuming.** The checkpoint is a text in one row per entity, read once and
  overwritten by whoever commits. It must mean the same to a later process, for
  every type of `_id`, and beside another process.
* **Fan-in reshape** replaces, extends or rebuilds a collection that migrate may
  be reading or have read in part.
* **Proposal** passes one file through a rule-based draft, a language model, an
  operator and a checker that looks at another sample; no field may get lost on
  the way without anybody having been told.
* **Dry run and validate** each repeat, by other means, the decision the loader
  takes for every row. They are right if they agree with it.
* **Policies** (`on_missing: error | null | skip_row`) act at three scopes: the
  document, an explode item, a junction row; a default, a NOT NULL column or an
  absent identity change what they do.

PROJECT.json lists the hazards, each at its line.

## 2. Modules

| Module | What it models |
|---|---|
| `Load` | `load()` and `_load_entity_batches`: one action per database statement |
| `LoadInv` | the inductive invariants of `Load` and the assumptions of its theorems |
| `Migration` | what a migration promises, in four actions |
| `IdMap` | `id_map` and its two caches, as the loader drives them |
| `LoadOrder` | `validate_structure` and `entity_load_order` |
| `TableOrder` | `PostgresSchema.load_order` |
| `Documents` | the rows of a document: written, dropped, or failing |
| `FastPass` | Layer A of the dry run |
| `CountDiff` | the count diff of validate |
| `Verdicts` | composes `FastPass`, the loader's outcome, and `CountDiff` |
| `SampleDiff` | the sample diff and the on_missing summary of validate, over data that changes |
| `DryRun` | Layer B of the dry run, and the truncating migrate it rehearses |
| `Resume` | cursors and checkpoints of processes side by side, `_id`s of any type |
| `FanIn` | `mongopg-fanin`, composed with the migrates of `Resume` |
| `Proposal` | a mapping file from `propose` to an accepted `validate-mapping` |
| `MCLoad`, `MCResume`, `MCVerdicts`, `MCDryRun`, `MCProposal`, `MCMapping` | instances for TLC |
| `LoadProofs`, `LoadRunProofs`, `ResumeProofs`, `IdMapProofs`, `OrderProofs`, `VerdictsProofs`, `DryRunProofs`, `ProposalProofs` | theorems |

How they compose: `LoadOrder` computes what `Load` and `IdMap` take as the
constant `Rank`, and `DryRun` as `Order`; its theorem `OrderPutsParentsFirst` is
their assumption on it. `IdMap` shows that `get()` answers what the table holds, so `Load` reads
the table of a parent as it was at the start of the entity (`snap`).
`Load` shows that a batch is committed as a whole or not at all, so `Resume` takes
a batch as one step and adds other processes, and `Verdicts` only asks which rows a
batch has. `Load` implements `Migration` (`INSTANCE ... WITH`). `DryRun` runs the
loader with an entity to a step: it asks in which schema a row ends up and which
constraint it meets there, not what happens between two statements of a batch.
`FanIn` EXTENDS `Resume`: its derived collection is the one migrate reads.
`SampleDiff` EXTENDS `Documents`, so that the audit is compared with the same rows
the loader and the dry run are.

### Load

* `db` is the committed database, `tx` what the open transaction sees; a commit
  copies `tx` to `db`, any end of the process copies `db` to `tx`. `pc` names the
  next statement: `truncate`, `reset`, `commit_truncate` (load.py:1086-1090),
  `entity` and `scan` (717-786), `copy`, `idmap`, `advance`, `commit_batch`
  (952-1000), `commit_done` (1010-1021).
* A row is its source document, its key and its lookup columns. A key says how it
  was made: drawn from the table's sequence, uuid4, kept, or uuid5 under a
  namespace. Explode, junction and unpivot rows are one counter per document.
* `NextEntity` follows the load order; `BeginEntity` takes the snapshot of the
  parents, checks the namespace and opens the cursor at the checkpoint.
* `ReadBatch` reads the next batch and builds its rows; `BatchFails` is any
  `LoadError` in it. `CopyFails` is a primary-key or foreign-key violation.
* The source grows (`InsertDoc`) and shrinks (`DeleteDoc`) at any time. A find()
  cursor returns all documents that were there when it was opened and stay, and
  may or may not return later ones: `MarkDone` may end the scan as soon as nothing
  older than `opened` is unread.
* `Operator` starts a run whenever none runs, with any of `Commands` and any
  namespace. One process at a time.
* `db.dropped` and `run.since` are history variables: what policies dropped, and
  the newest documents when the run began.

Abstracted: sequence gaps (aborted batches and block reservation draw numbers
that are not used); the uuid4 counter is a supply of fresh values that is never
reset; an id column has one type; document ids have one type and grow with time;
edits of documents; `null` into a NOT NULL column behaves as `error` (exact in
`Documents`); filters (folded into `source`); every error that is not a
`LoadError` or a constraint violation acts like `Kill`.

### IdMap

`snapshot` and `fallback` are `_PREFETCHED` and `_FALLBACK`; `Prefetch` takes a
snapshot unless the map exceeds `MaxRows`; `Get` is `get()` with its bounded
cache (`Remember`); `PutMany` writes through to snapshots only. `GetCheckpointed`
and `GetParent` are the loader's two callers. `put_many` and the advance of the
checkpoint are one step here: they are in one transaction, and no `get()` runs
between them.

### Resume, FanIn

* A process opens its cursor at the checkpoint (`Open`), receives any number of
  next documents at a time (`Receive`: a reply of the server holds more than a
  batch, so a process works on documents it read before others were inserted),
  and commits batches of `BatchSize` (`CommitBatch`), until `MarkDone`.
* An `_id` is a kind and a text; the text is its place in the order. `Before` is
  BSON order across types, `Selected` what `$gt` returns for the text of the
  checkpoint: ObjectIds if it reads as one, else strings.
* A batch is one step, its commit. Two processes that insert the same primary key
  do not both get on: the second waits for the first's transaction and then
  meets its row (`Collides`), or takes it over in upsert mode.
* `late` and `crossed` are history: documents that were inserted behind one that
  was already read, and an upsert run beside another process. `Beside` says which
  modes may run beside others. A truncating run is started alone: TRUNCATE beside
  a reader of the old checkpoint leaves a gap (section 4).
* `FanIn` adds the collection to be reshaped (`raw`), and `Picks`, the pick-one
  pipeline: one document for each group, with the best stamp. `ReshapeOut` swaps
  the derived collection, `ReshapeMerge` adds to it and is refused, part of the
  way, at a group whose document has another `_id`; `RebuildDrop`,
  `RebuildInsert`, `RebuildEnd` are the client-side fallback, which
  `RebuildKilled` may end anywhere. Dropping or swapping a collection kills the
  cursors on it (`CloseCursors`, `CursorDead`).
* Of a derived collection, one migrate is run at a time.

Abstracted: rows are keyed by uuid5 of the `_id` (for serial keys see section 4);
one entity; the namespace check, id_map and dropped documents, which `Load` has;
`--filter`, `--pipeline-file` and `--dry-run` of fan-in.

### LoadOrder, TableOrder

`LoadOrder` checks names as `validate_structure` does, then places, layer by
layer and each layer in alphabetical order, the entities whose dependencies are
placed (`PlaceReady`), or refuses a cycle. The explode tree of an entity is a
sequence of levels by depth: only the union of its lookups matters. `TableOrder`
does the same for foreign keys: what remains, when nothing is ready, is one batch
if no foreign key in it is immediate.

### Documents, FastPass, CountDiff, Verdicts

A row the source holds is a place `<<table, document, i, j>>`. `Fields` and
`Values` are what its row is built from; `FieldSkips`, `FieldFails`, `Stops` and
`First` follow `_resolve_field_value` through the fields in mapping order;
`DocSkips`, `DocFails` and `Dropped` apply the scopes of skip_row. One lookup
target, one explode with one nested explode, one junction, one unpivot.

`FastPass` reports for the same places what `_validate_field` and its callers
report, looking references up in `parents` (the source collection) instead of
`known` (id_map). `CountDiff` computes the expected counts from aggregations.
`Verdicts` runs dry-run, one migrate, and validate over one collection that does
not change.

`SampleDiff` loads some prefix of a collection (`LoadUpTo`), lets either database
change (`ChangeDocument`, `DeleteDocument`, `Reload`, `WriteColumn`,
`DeleteRow`), then samples (`Sample`): `Recomputed` is `_recompute_field_value`,
`Refetched` is `_refetch_mongo_doc`, `OnMissing` the summary. An id stands for the
reference it was made from, so `image[d]` is comparable with `docs[d]`. A column
need not give back the value made for it: `Stored` is what is read once `Resolved`
was written, another form (`InColumn`) for the literal of a default in a column of
numbers, Booleans or times (`typed`), and for a value such as an ObjectId in a jsonb
column (`Raw`, of which `_resolve_field_value` writes `json_safe`); `Recomputed`
makes neither conversion, as the code does not. Only an
entity's own table is sampled, as the code does for fields; nested places count
for the summary.

### Proposal

One entity, from `sample`, the statistics of its collection, to a file that
`validate-mapping` accepts. `Propose` is `propose_entity`: a field is handled
(`Plain`, `Nested`, `Exploded`, `Junctions`), or left to `drop`, or to `jsonb` if
the table has a json column; `Issues` are the paths its issues name. `Suggest` and
`SuggestNothing` are `apply_suggestions` for any answer. `Redispose` and
`EditItem` are the operator, who may move a field anywhere. `Missing` is the P0
check, at the top and inside exploded arrays, against a sample of its own;
`Readable` is the validator of `unmapped:` that runs whenever a file is read.

Abstracted: a name is what the proposer makes of it, its best column and whether
that is above `HIGH_CONFIDENCE`; which table, child table or junction is found is
part of a field's `Shape`; one level of exploded arrays; arrays of mixed fields
show nothing below; `lookup:` names are checked in `LoadOrder`; names with a dot
(section 4).

### DryRun

Schema 0 is the target with the real id_map; schema n is the clone of the n-th dry
run with its own (`migrate_dryrun_*` and `_mongopg_dryrun_*` are fresh names).
`CreateSchema`, `CloneTable`, `AddForeignKeys`, `EnsureIds`, `SeedIds`,
`DropClone` and `DropIds` are the autocommitted statements of
`run_realistic_pass`; `OpenLoad`, `TruncateTables`, `LoadEntity`, `EndLoad` and
`LoadRefused` are the loader, called by both commands. `Home` resolves an
unqualified table name along the search_path: the clone if it has the table, else
the target. `ClonedKeys` are the keys the clone gets: those among mapped tables,
each deferrable one INITIALLY DEFERRED. A column that refers to a table takes its
value from the document's own key (`own`), from id_map (`lookup`) or from the _id
referred to (`copied`); a key is checked at the end of a COPY or at commit.

Abstracted: one batch per entity and one row per document and table; keys are
uuid5 of the _id; on_missing policies (in `Documents`); Layer A, whose outcome only
decides whether Layer B runs without `--realistic`; the source does not change
between a rehearsal and the load; checkpoints, since both commands truncate.
Killing a dry run, losing its connection, and an error of any of its statements
are separate actions (`Kill`, `DropFails`, `LoadBreaks`, `CloneFails`).

## 3. Runs

| Run | Question | Bounds |
|---|---|---|
| `Load_append` | Do whole and `--only` append runs, killed anywhere, skip nothing, repeat nothing and store no wrong reference? | 2 entities in one table, 3 documents each, batches of 2, 1 kill |
| `Load_whole` | Do modes and namespaces mix safely, and is nothing dropped, refused or failed because a parent is not loaded yet? | 3 documents, 2 namespaces, 2 lookup fields |
| `Load_restart` | With truncating runs and deleted parents, do the inductive invariants hold, does the loader implement `Migration`, and is every document settled in the end? | 2 documents, 1 kill, fairness below |
| `Resume` | Do processes side by side, and reshapes between and during migrates, leave no document behind, load none twice, and give each group one row? | 2 processes in any mode and 3 ObjectIds; 1 process at a time and 4 derived documents in 2 groups; batches of 2, inserts of 1 |
| `Mapping` | Does a draft lose a field in silence? Is the load order right for every mapping file, and the batches for every schema? Does `get()` answer what the table holds, and do the caches keep their limits? | one field of any shape, alone or beside a scalar, 2 edited paths; 3 entities or tables, one or two explode levels, an external name, a typo; a chain of 2 entities, 3 documents, limits of 2 |
| `Verdicts` | Do dry-run, migrate and validate agree about each row? Does the sample diff report what changed, and nothing else that it need not? | all pairs of bookings with one irregular value each, and bookings with several that depend on one another; 12 mappings, 5 states of the looked-up entity; for the sample diff 24 mappings, pairs of 7 bookings, a sample of 1, one change |
| `DryRun` | Does Layer B leave everything real alone, clean up, and foretell whether the load goes through? | 2 entities, 3 tables and one outside the mapping, 3 documents, 2 namespaces, 11 target schemas, 2 dry runs and any number of migrates |

What the properties say, beyond the names:

* `NoGap`, `LoadedOnce`, `RowsMapped`, `RowsCounted` relate the target to the
  checkpoint and id_map after any history of runs and kills.
* `ReferencesResolve`: a stored foreign key is the key of the row into which the
  referenced document itself was loaded.
* `DanglingForReal`, `FailedForCause`, `RefusedForCause`: a document is dropped or
  nulled, or a run fails or refuses, only for a reason in the source data.
* `RunComplete`: a run that ends well has settled every document that existed
  when it began. `EventuallySettled`: in the end every document is settled, or
  deleted, or the runs keep reporting an error.
* `NothingBehind`: what a resume would not read is loaded, unless it was inserted
  behind a document that was read (`late`). `NothingAhead`: what it would read is
  not loaded, so that an append run does not meet rows of an earlier one, unless
  documents came late or an upsert run was beside another. `DoneIsComplete`: a
  process that ends well has all that was there when it opened its cursor, though
  another loaded some of it.
* `OnePerGroup`: after a reshape that went through, and any number that failed,
  each group has one document. `OneRowPerGroup`: and one row after a truncating
  migrate that nothing came between.
* `NothingLost`: of a file that `validate-mapping` accepts, every field that its
  sample shows goes to Postgres, or was named to the operator or edited by him.
  The exception is an object that was empty in all of propose's sample.
* `FailuresForeseen`, `DropsAnnounced`: what a finished dry run did not report
  does not fail and is not dropped. Exempted by name: references that are in the
  source but not in id_map (`Unloaded`), and an empty id_map.
* `CountsMatch`, `AcceptedIsComplete`: validate neither flags a complete load nor
  accepts one that was cut short, where its arithmetic is exact (`Countable`).
* `SampleClean`, `SampleFinds`, `NoSilentNull`: a sampled row that is not what
  migrate would write now is reported; one that nothing changed is not, but for what
  `KnownAlarms` names, documents whose `_id` is a number and values that their
  columns give back in another form (section 4); and a reference that was lost shows as a mismatch or in the on_missing
  summary, also if id_map changed in between.
* `RealUntouched`: from the first statement of a dry run to its last, the target's
  rows and the real id_map stay as they are, although the loader truncates and
  copies under names without a schema. `NothingLeft`: no disposable schema is left
  when no command runs, unless the dry run is in `lost`.
* `PassedIsLoadable`, `NoFalseAlarm`: a truncating migrate right after a rehearsal
  ends as the rehearsal did. The first exempts what the clone cannot know, each
  exemption needed: keys that cross the boundary of the mapped tables, keys
  DEFERRABLE but INITIALLY IMMEDIATE; both exempt a rehearsal under another
  namespace, which is what `--realistic` with `--uuid-namespace` gives.
* `OwnRowsReferred`: a lookup of a document that this load loads gives the row of
  this load, not one that was copied from the real id_map or left in it.

Why the bounds are enough: the protocol of a batch involves one document before,
in, and after the checkpoint, so 3 documents with batches of 2 give a full batch,
a partial one, and a document inserted behind an open cursor; one kill can fall
between any two statements, and a second starts from a state that a run can also
reach with one, since a kill restores `tx = db`. Two entities, one looking up the
other, give all orders of parent and child. The theorems remove the bounds for
the properties they cover. In `DryRun` two rehearsals suffice for one to leave a
schema behind and the next to start beside it; two hospitals for one that is
loaded and one that only id_map knows. In `Resume` three documents and batches of
two give two processes a full and a partial batch each, and a third document for
one to be ahead of the other; four derived ones give each group two winners, so
that one can replace the other. One change suffices for the sample diff, since
each sampled row is compared by itself.

`Mapping` and `Verdicts` each run machines that share no state, side by side:
each from all its initial states, with the others at rest.

Two documents suffice in `Verdicts` because only the counts relate documents: the
second one tells rows from distinct values. `OneReason` gives documents with one
irregular value; `Entangled` gives those in which one interferes with another, for
which validate's arithmetic is known not to be exact: `_skip_row_reduction` says so
of a row with two dangling fields. The predicate `Countable` states where it is
exact, and `CountsMatch` and `AcceptedIsComplete` claim nothing beyond it. None of
its conditions is idle: without any one of them TLC finds one of the two violated
in this run. Section 4 says what happens outside it.

`CHECK_DEADLOCK FALSE` is used where the system really stops: `Mapping` and
`Verdicts` end when the commands have ended.

### Fairness

`FairSpec` (run `Load_restart`) assumes weak fairness of `Process` (a process that is not killed
executes its next statement) and of `Operator` (a migration that ended is run
again, the remedy every message of `cli.py` names). Nothing is assumed of the
environment; `MaxKills` bounds kills, since a process that is always killed in
its first statement loads nothing.

## 4. Where the code departs from what it says

Each is a run that TLC ends with a counterexample.

* `Load_truncate_only`: `--mode truncate --only X` empties X's tables but resets
  every checkpoint (load.py:1089). The next run loads all other entities again.
* `Load_stale_idmap`: truncation leaves id_map. A reference to a hospital deleted
  since resolves to its old id, now the id of another hospital, so that the foreign
  key accepts it.
* `Load_refused`: with `source_field` other than `_id` the namespace check
  compares ids derived from different values and refuses every resume.
* `Resume_typed`: the checkpoint keeps `_id` as text. After a batch that ended with
  a number a resume asks for strings (load.py:774-778), reads none of the
  remaining numbers and marks the entity done.
* `Proposal_llm`: if the model maps the last field of `unmapped.jsonb`,
  `unmapped.jsonb_column` stays set (llm_propose.py:194), and the file `propose`
  writes is one that no command reads (schema.py:225).

Seen while modelling and kept out of the runs:

* Loader. The guard before a policy applies asks whether the parent has any id_map
  row (load.py:369), so after an interrupted load of the parent, `--only` the
  child drops documents whose parent is merely not loaded yet, for good
  (`DanglingForReal` is therefore checked for whole runs). The namespace check
  passes when the checkpointed document was dropped and has no id_map row
  (`OneNamespace` is therefore checked without skip_row).
* Resuming. `query["_id"]` replaces a condition the entity's filter has on `_id`
  (load.py:778); a checkpointed `_id` of "" reads as none; a string of 24
  hexadecimal digits resumes as an ObjectId; documents inserted behind the
  checkpoint are never read; the number 5 and the string "5" share one id_map row.
* Side by side. A truncating run beside an appending one lets the latter go on from
  a place of which nothing is left; with keys from a sequence nothing collides, and
  two processes load each document twice; an upsert run beside another may set the
  checkpoint back, so that later append runs collide until one is run in upsert mode.
* Dry run. A clone that fails half-way is left behind (dryrun.py:715), though the
  module's docstring says both schemas are dropped "success or failure";
  `--realistic` does not pass `--uuid-namespace` on (cli.py:402); the clone checks
  DEFERRABLE INITIALLY IMMEDIATE keys later than the target does (dryrun.py:624); a
  rehearsal draws from the target's sequences (dryrun.py:616), which leaves gaps;
  the fast pass does not look at `has_any`, nor at the parent's filter; its report
  can be ok although it was truncated at 200 reports.
* Validate. It subtracts distinct dangling values of a junction (validate.py:389),
  the loader drops one row per occurrence, and keeps a null one, which is
  subtracted too; the children of a document dropped for want of an identity, and
  what is nested in a dropped item, are not subtracted, a dangling child of a
  dropped document twice. A document whose identity is the empty text and maps
  skip_row is dropped once, as a dangling reference (load.py:819 takes only None for
  absent), and subtracted twice, as dangling (validate.py:264) and as missing
  (validate.py:277): a complete load is flagged, and one that lacks a row besides is
  accepted. A document that lacks its identity under an error policy
  and refers, in a skip_row field, to what is not there is one that migrate fails
  on, but the counts of the interrupted load agree; a document whose `_id` is a number, or a
  string of 24 hexadecimal digits, is reported as missing; a value that no longer
  converts ends the command without a report. `_recompute_field_value` "Mirrors
  migrate/load.py's field resolution exactly" (validate.py:511), but for the form a
  value has in its column: the literal of a default stays a text (transform.py:304),
  so each row that `default:0` filled in an integer column is a mismatch, also in a
  numeric, Boolean or timestamp column; and without `json_safe` (load.py:460) so is an
  ObjectId or a Decimal128 in a jsonb column. A reference that was nulled is
  accepted when the looked-up entity has no id_map rows at all, where migrate would
  refuse.
* Fan-in. A merge is refused once the winner of a group has another `_id`
  (docs/fanin-reshape.md:41-43 presents it as the way to re-run); an append run
  after a second reshape keeps the row of the former winner beside the new one; a
  rebuild that was killed leaves a part that looks whole; documents without the
  group key are one group.
* Proposal. The model may map a field to the json column that is the fallback of
  the others; the rules may map two fields, or one and the id, to one column;
  matches of tables between 0.55 and 0.85 carry no issue; an object whose
  sub-fields the sample does not show is left to drop without an issue
  (propose.py:385); a draft with a nested object is refused until the operator
  disposes of the object itself, since "a.b" does not account for a; a top-level
  name with a dot is no top-level field to the check. `migrate` and `dry-run` check
  the structure only.
* `PostgresSchema.load_order` refuses some schemas whose cycles are all deferrable.

## 5. Proofs

Proved for every value of the constants that satisfies the named assumptions:

* **`LoadProofs`.** `TypeCorrect` (`[]TypeOK`) and `LoaderInvariant` give
  `ResumeLeavesNoGap` (`NoGap`), `NothingLoadedTwice` (`LoadedOnce`),
  `IdMapAgrees` (`RowsMapped`) and `LoaderRefinesMigration`
  (`ImplementsMigration`). Assumptions: `ConstantsAssumption`; `WholeTruncates`
  (a truncating run selects every entity or is refused by Postgres; without it
  `Load_truncate_only` is a counterexample); `DistinctIdentities` (ids that are
  not minted tell documents of a table apart; else upsert overwrites rows).
  None of the properties is inductive: what is committed next is decided by `tx`
  and `batch`. `LoadInvariant` (in `LoadInv`) adds what the process holds at each
  statement: `tx` is `db` plus the effect of the statements executed so far
  (`TransactionInv`), `batch` is all the source holds between the checkpoint and
  its last document, and the keys in `out` are used nowhere else (`BatchInv`).
  `Sound` is the invariant of the committed data, `Behind` (nothing stored lies
  beyond the checkpoint) its strengthening. The refinement maps a commit of a
  batch to `Settle`, one of a truncation to `StartOver`, and all else to stutters.
* **`LoadRunProofs`.** What a reader of a migration's log relies on, from
  `RunInvariant` (`RunsInvariant`; `Load_restart` checks it too), under
  `WholeTruncates` and `DistinctIdentities`. `RunsAreComplete` (`RunComplete`):
  what a run has behind it is settled up to its checkpoint and nothing that is
  still to be read is older than the run (`RunInv`). `RowsAreCounted`
  (`RowsCounted`): the counters of `db` and of `tx` each count their own rows
  (`CountInv`). `NothingTakenBack` (`Progress`): only a truncation removes rows or
  sets a checkpoint back. The others need what the code leaves to its operator,
  each assumption for a case that section 4 describes:
  `NamespacesDoNotMix` (`OneNamespace`) that no policy drops the checkpointed
  document (`NoSkips`), since its id is all the check looks at; `RefusalsHaveCause`
  (`RefusedForCause`) also that `source_field` is `_id` (`IdsAreIdentities`, see
  `Load_refused`); `ReferencesAreKeys` (`ReferencesResolve`) that no run empties
  tables (`NothingTruncated`, see `Load_stale_idmap`): then an id_map row is the key
  of a row at every statement (`ResolveInv`); `DanglingIsReal` (`DanglingForReal`)
  and `FailuresHaveCause` (`FailedForCause`) that a run selects the entities it
  refers to, as every run without `--only` does (`ParentsSelected`): then those are
  finished, and `RunInv` says that all their old documents are in id_map.
* **`ResumeProofs`.** `NoneLeftBehind` (`NothingBehind`), `DoneMeansLoaded`
  (`DoneIsComplete`) and `NoneLoadedAgain` (`NothingAhead`), for any number of
  processes, documents and any batch size. Assumptions: `OneType` (without it
  `Resume_typed` is a counterexample) and `TruncateAlone`. `ResumeInvariant` says
  of each scanning process that what is not loaded is in its buffer or still ahead
  of its cursor (`Scan`), and of every text in a checkpoint that a loaded document
  has it (`Reached`), so that setting the checkpoint back skips nothing.
  `AheadInvariant` adds what keeps the checkpoint from going back: an upsert run
  that is alone reads on from it (`ReadsOn`), and an append run that is behind
  meets rows before it can commit. `ResumeTypeCorrect` needs neither assumption.
  `GroupsHaveOneDocument` (`OnePerGroup`) and `GroupsGetOneRow`
  (`OneRowPerGroup`) hold of `FanInSpec` for any collection and grouping, from
  `FanInInvariant`: at each step of a reshape the derived collection has each group
  at most once (`ShapeInv`); a truncating run has rows of one and the same
  collection, all of it when its cursor has ended (`AloneInv`).
* **`ProposalProofs`.** `AcceptedLosesNothing` (`NothingLost`), for every
  collection, sequence of suggestions and number of edits, from `Disposed`: each
  field under `drop` was told, edited or empty, and each item field under `drop`
  was edited. `UnhandledIsTold` goes through the branches of `propose_entity`.
* **`IdMapProofs`.** `GetAnswersTable` and `CachesStayBounded`, from
  `CacheInvariant`: a snapshot equals the table because no parent of the current
  entity is still to be loaded; a fallback holds table rows, and rows of the
  current entity only behind its checkpoint, where a batch never writes.
* **`OrderProofs`.** `OrderPutsParentsFirst`, `OrderIsPermutation` and
  `CircularExactly`, from `SortInvariant`: placed and remaining entities partition
  the file, and what is placed has its dependencies before it. For tables,
  `BatchesRespectForeignKeys`, from `BatchInvariant`.
* **`VerdictsProofs`.** `DryRunForeseesFailures` (`FailuresForeseen`) and
  `DryRunAnnouncesDrops` (`DropsAnnounced`), for every mapping, collection, batch
  size and report limit. Two lemmas about one field carry them: a field that
  stops the loader is one `_validate_field` reports (`FailingFieldReported`), and
  a row or a document that the loader drops is named (`SkipReported`,
  `DropReported`). The invariant `Agreement` adds that the report covers every
  document examined, that a finished dry run examined all, and that committed
  documents have their rows. `SampleRaisesNoFalseAlarm` (`SampleClean`, no alarm
  beyond `KnownAlarms`),
  `SamplePassesOnlyCurrentRows` (`SampleFinds`) and `LostReferenceShows`
  (`NoSilentNull`) are about the sample diff, for any mapping, sample size
  and number of changes; they compare `Recomputed` with `Row` column by column, and
  need that a value once read back is never changed again (`StoredOnce`).
  `CompleteLoadIsAccepted` (`CountsMatch`) and `AcceptedLoadIsComplete`
  (`AcceptedIsComplete`) hold for every countable collection. The places that the
  count diff takes to be lost (`Lost`) are in number what it subtracts, because the
  sets it adds up are disjoint and each counts a place once (`LostIsExpected`); they
  are dropped (`LostIsDropped`), and all others are written (`OthersAreWritten`). So
  a whole load matches; and since the rows of a part are among those expected,
  equal numbers mean equal sets. `Tally` says that the rows are those of the
  documents taken, and that the verdict is still about them.
* **`DryRunProofs`.** `DryRunWritesNothingReal` (`RealUntouched`) and
  `DryRunCleansUp` (`NothingLeft`), for every mapping, target schema, source and
  number of runs. The invariant `Disposable` says what exists at each statement: a
  disposable schema is the running command's, or lost; and once the loader is
  called the clone has every mapped table, so that no name the loader uses
  resolves to the target. `RehearsalIsSufficient` (`PassedIsLoadable`) and
  `RehearsalIsNecessary` (`NoFalseAlarm`) compare two loads of the same source: what
  a batch makes, and whether Postgres refuses it, depends on nothing but the id_map
  rows it finds, the namespace and the keys (`Made`, `Refuses`, `Passes`), and the
  seeded id_map of the clone answers what the real one does (`Replays`). What the
  clone cannot know is isolated in `RefusedInClone` and `RefusedInTarget`.
  `ForetellInvariant` keeps the comparison through every step.
  `OwnRowsAreReferred` (`OwnRowsReferred`) rests on `ParentsFirst`, the order
  that `OrderPutsParentsFirst` establishes.

Only model-checked: liveness (`EventuallySettled`; fairness and ENABLED are out
of the prover's reach). Every other property of a passing run is a theorem. The
runs with counterexamples need no proof. The models have no RECURSIVE operator.
Induction over data is out of reach too, which is why the explode tree is a
sequence of levels.

## 6. Plan

1. Transforms and the split of an enum or a pipeline, as operators.
2. External connections: opened all or none, each closed once.
3. `unmapped.jsonb` of a row: what it holds, and its check in validate.
4. Nested arrays and unpivot in `Proposal`, as `Documents` has them.
5. Theorems: that `Verdicts`' loader, which takes a batch as one step, is
   implemented by `Load` with one entity.

Not modelled and not planned: sampling and statistics of Mongo introspection
(reads), similarity scores (numbers without a specification), `connerrors.py`
(messages), the HTTP client of the language model, prompts and progress output.
