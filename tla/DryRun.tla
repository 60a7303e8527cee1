------------------------------- MODULE DryRun -------------------------------
(***************************************************************************)
(* Layer B of the dry run (migrate/dryrun.py, run_realistic_pass): clone   *)
(* the mapped tables into a disposable schema, seed a disposable id_map,   *)
(* run the real loader against both, and drop them; and the truncating     *)
(* `migrate' that it rehearses, by the same loader.                        *)
(*                                                                         *)
(* Schema 0 is the target schema with the real id_map, schema n > 0 the    *)
(* clone of the n-th dry run with its own.  An entity is loaded in one     *)
(* batch and one step: Load has the steps, and on_missing policies are in  *)
(* Documents.                                                              *)
(***************************************************************************)
EXTENDS Integers, Sequences, FiniteSets

CONSTANTS
  Table,      \* tables of the target schema
  Entity,     \* entities of the mapping file
  Order,      \* Entity in load order
  Writes,     \* the tables of an entity, in the order of their COPYs
  Doc,        \* source documents, and what else id_map has rows for
  Filed,      \* the entity under which id_map has a document's row
  Namespace,  \* uuid namespaces
  Default,    \* DEFAULT_UUID_NAMESPACE
  Targets,    \* target schemas: sets of columns that refer to a table
  Sources,    \* <<documents of each entity, the document that each refers to>>
  Seeds,      \* contents of the real id_map
  MaxRuns,    \* bound: dry runs
  None, Absent

(* own: the key of the document's own row; lookup: through id_map; copied: *)
(* derived from the _id referred to.  check: the foreign key constraint.   *)
(* "deferrable" is DEFERRABLE INITIALLY IMMEDIATE: checked at once, since  *)
(* the loader does not defer it.                                           *)
Column == [table : Table, to : Table, value : {"own", "lookup", "copied"},
           check : {"none", "immediate", "deferrable", "deferred"}]

Key == Doc \X Namespace
Ids == [Doc -> Key \cup {None}]
NoIds == [d \in Doc |-> None]
Number == 0 .. MaxRuns

ASSUME DryRunAssumption ==
  /\ None \notin Doc \cup Key /\ Absent \notin Ids /\ MaxRuns \in Nat
  /\ Order \in Seq(Entity) /\ Writes \in [Entity -> Seq(Table)]
  /\ Filed \in [Doc -> Entity \cup {None}] /\ Default \in Namespace
  /\ \A T \in Targets : T \subseteq Column
  /\ Sources \subseteq [Entity -> SUBSET Doc] \X [Doc -> Doc \cup {None}]
  /\ \A s \in Sources : \A e \in Entity : \A d \in s[1][e] : Filed[d] = e
  /\ Seeds \subseteq Ids \cup {Absent}

VARIABLES
  columns, source, refers, namespace, \* inputs: the target schema, the source, --uuid-namespace
  tables,    \* of each schema that exists, the rows of its tables
  keys,      \* the foreign keys of each schema: [column, deferred]
  ids,       \* the id_map beside each schema, or Absent
  run,       \* the command: number of its schema, namespace, next entity, what was foretold
  pc,        \* the next statement
  forecast,  \* what the last Layer B said: [verdict, ns]
  outcome,   \* how the last command ended
  lost       \* history: dry runs that could not clean up

given == <<columns, source, refers, namespace>>
dvars == <<given, tables, keys, ids, run, pc, forecast, outcome, lost>>

Unknown == [verdict |-> "none", ns |-> Default]
Foretold(verdict) == [verdict |-> verdict, ns |-> run.ns]

-----------------------------------------------------------------------------
(* The loader, as it is called by both commands.                           *)

TablesOf(e) == {Writes[e][i] : i \in DOMAIN Writes[e]}
Mapped == UNION {TablesOf(e) : e \in Entity}

(* entity_load_order: every entity has its turn, and one that looks        *)
(* documents up comes after the entity that they belong to.                *)
ASSUME ParentsFirst ==
  /\ \A e \in Entity : \E j \in DOMAIN Order : Order[j] = e
  /\ \A T \in Targets, s \in Sources : \A i, j \in DOMAIN Order : \A d \in s[1][Order[i]] :
       (/\ s[2][d] \in s[1][Order[j]]
        /\ \E c \in T : c.table \in TablesOf(Order[i]) /\ c.value = "lookup") => j < i

(* The schema in which an unqualified table name is found: search_path is  *)
(* the clone and then the target schema.                                   *)
Home(t) == IF run.number # 0 /\ t \in DOMAIN tables[run.number] THEN run.number ELSE 0

ColumnsOf(t) == {c \in columns : c.table = t}

ValueOf(d, c) ==
  IF c.value = "own" THEN <<d, run.ns>>
  ELSE IF refers[d] = None THEN None
  ELSE IF c.value = "lookup" THEN ids[run.number][refers[d]]
  ELSE <<refers[d], run.ns>>

RowsOf(e, t) ==
  {[doc |-> d, key |-> <<d, run.ns>>, refs |-> [c \in ColumnsOf(t) |-> ValueOf(d, c)]] :
     d \in source[e]}

(* The tables after the first i COPYs of the batch of entity e.            *)
After(e, i) ==
  [s \in DOMAIN tables |-> [t \in DOMAIN tables[s] |->
     IF Home(t) = s /\ \E j \in 1 .. i : Writes[e][j] = t
     THEN tables[s][t] \cup RowsOf(e, t) ELSE tables[s][t]]]

Breaks(db, s, k) ==
  \E row \in db[s][k.column.table] :
    /\ row.refs[k.column] # None
    /\ \A x \in db[s][k.column.to] : x.key # row.refs[k.column]

(* A reference without an id_map row, a foreign key checked at the end of  *)
(* a COPY, or one checked at commit.                                       *)
BatchRefused(e) ==
  \/ \E t \in TablesOf(e), d \in source[e] : \E c \in ColumnsOf(t) :
       c.value = "lookup" /\ refers[d] # None /\ ids[run.number][refers[d]] = None
  \/ \E i \in DOMAIN Writes[e] : \E k \in keys[Home(Writes[e][i])] :
       /\ k.column.table = Writes[e][i] /\ ~k.deferred
       /\ Breaks(After(e, i), Home(Writes[e][i]), k)
  \/ \E t \in TablesOf(e) : \E k \in keys[Home(t)] :
       k.column.table = t /\ k.deferred /\ Breaks(After(e, Len(Writes[e])), Home(t), k)

(* TRUNCATE without CASCADE: no other table may refer to one it empties.   *)
Emptied == {<<Home(t), t>> : t \in Mapped}

TruncateRefused ==
  \E s \in Number : \E k \in keys[s] :
    <<s, k.column.to>> \in Emptied /\ <<s, k.column.table>> \notin Emptied

(* Mutant: the clean-up is not in a finally block.                         *)
LeaveWithoutCleanUp(verdict, result) ==
  IF run.number = 0 \/ verdict # "clean"
  THEN pc' = "idle" /\ outcome' = result /\ forecast' = IF run.number = 0 THEN forecast ELSE Foretold(verdict)
  ELSE pc' = "drop" /\ forecast' = Foretold(verdict) /\ UNCHANGED outcome

(* load() is left with an error, or at its end.  run_realistic_pass cleans *)
(* up after either.                                                        *)
LeaveLoad(verdict, result) ==
  IF run.number = 0
  THEN pc' = "idle" /\ outcome' = result /\ UNCHANGED forecast
  ELSE pc' = "drop" /\ forecast' = Foretold(verdict) /\ UNCHANGED outcome

OpenLoad ==
  /\ pc = "open"
  /\ ids' = [ids EXCEPT ![run.number] = IF @ = Absent THEN NoIds ELSE @]
  /\ pc' = "truncate"
  /\ UNCHANGED <<given, tables, keys, run, forecast, outcome, lost>>

TruncateTables ==
  /\ pc = "truncate"
  /\ ~TruncateRefused
  /\ tables' = [s \in DOMAIN tables |-> [t \in DOMAIN tables[s] |->
                  IF <<s, t>> \in Emptied THEN {} ELSE tables[s][t]]]
  /\ pc' = "batch"
  /\ UNCHANGED <<given, keys, ids, run, forecast, outcome, lost>>

Loading == pc = "batch" /\ run.next <= Len(Order)

(* Mutant: rows that id_map has already are kept.                          *)
PutNew(m, docs) == [d \in Doc |-> IF d \in docs /\ m[d] = None THEN <<d, run.ns>> ELSE m[d]]

Put(m, docs) == [d \in Doc |-> IF d \in docs THEN <<d, run.ns>> ELSE m[d]]

LoadEntity ==
  /\ Loading
  /\ LET e == Order[run.next] IN
       /\ ~BatchRefused(e)
       /\ tables' = After(e, Len(Writes[e]))
       /\ ids' = [ids EXCEPT ![run.number] = Put(@, source[e])]
  /\ run' = [run EXCEPT !.next = @ + 1]
  /\ UNCHANGED <<given, keys, pc, forecast, outcome, lost>>

LoadRefused ==
  /\ \/ pc = "truncate" /\ TruncateRefused
     \/ Loading /\ BatchRefused(Order[run.next])
  /\ LeaveLoad("error", "failed")
  /\ UNCHANGED <<given, tables, keys, ids, run, lost>>

EndLoad ==
  /\ pc = "batch" /\ run.next > Len(Order)
  /\ LeaveLoad("clean", "loaded")
  /\ UNCHANGED <<given, tables, keys, ids, run, lost>>

(* A database fails while the loader runs, or before.                      *)
LoadBreaks ==
  /\ pc \in {"ids", "seed", "open", "truncate", "batch"}
  /\ LeaveLoad("none", "broken")
  /\ UNCHANGED <<given, tables, keys, ids, run, lost>>

-----------------------------------------------------------------------------
(* What the dry run does before and after, each statement its own          *)
(* transaction.                                                            *)

CreateSchema ==
  /\ pc = "create"
  /\ tables' = [s \in DOMAIN tables \cup {run.number} |->
                  IF s = run.number THEN [t \in {} |-> {}] ELSE tables[s]]
  /\ pc' = "clone"
  /\ UNCHANGED <<given, keys, ids, run, forecast, outcome, lost>>

(* Mutant: only the entities' own tables are cloned.                       *)
OwnTables == {Writes[e][1] : e \in Entity}

Cloned == Mapped

CloneTable ==
  /\ pc = "clone"
  /\ \E t \in Cloned \ DOMAIN tables[run.number] :
       tables' = [tables EXCEPT ![run.number] =
                    [x \in DOMAIN tables[run.number] \cup {t} |-> {}]]
  /\ UNCHANGED <<given, keys, ids, run, pc, forecast, outcome, lost>>

(* Mutant: LIKE copies no foreign key, and none is added.                  *)
NoKeys == {}

(* Among the clones; every deferrable constraint becomes INITIALLY DEFERRED. *)
ClonedKeys ==
  {[column |-> c, deferred |-> c.check # "immediate"] :
     c \in {x \in columns : x.check # "none" /\ x.table \in Cloned /\ x.to \in Cloned}}

AddForeignKeys ==
  /\ pc = "clone"
  /\ Cloned \subseteq DOMAIN tables[run.number]
  /\ keys' = [keys EXCEPT ![run.number] = ClonedKeys]
  /\ pc' = "ids"
  /\ UNCHANGED <<given, tables, ids, run, forecast, outcome, lost>>

(* A statement of the clone fails: the pass returns what is wrong.         *)
CloneFails ==
  /\ pc \in {"create", "clone"}
  /\ pc' = "idle"
  /\ outcome' = "reported"
  /\ lost' = lost \cup {run.number}
  /\ UNCHANGED <<given, tables, keys, ids, run, forecast>>

EnsureIds ==
  /\ pc = "ids"
  /\ ids' = [ids EXCEPT ![run.number] = NoIds]
  /\ pc' = "seed"
  /\ UNCHANGED <<given, tables, keys, run, forecast, outcome, lost>>

(* Mutant: rows of the entities that are loaded are not copied.            *)
SeedUnmapped == [d \in Doc |-> IF Filed[d] # None THEN None ELSE ids[0][d]]

Seeded == ids[0]

SeedIds ==
  /\ pc = "seed"
  /\ ids' = IF ids[0] = Absent THEN ids ELSE [ids EXCEPT ![run.number] = Seeded]
  /\ pc' = "open"
  /\ UNCHANGED <<given, tables, keys, run, forecast, outcome, lost>>

DropClone ==
  /\ pc = "drop"
  /\ tables' = [s \in DOMAIN tables \ {run.number} |-> tables[s]]
  /\ keys' = [keys EXCEPT ![run.number] = {}]
  /\ pc' = "drop_ids"
  /\ UNCHANGED <<given, ids, run, forecast, outcome, lost>>

DropIds ==
  /\ pc = "drop_ids"
  /\ ids' = [ids EXCEPT ![run.number] = Absent]
  /\ pc' = "idle"
  /\ outcome' = "reported"
  /\ UNCHANGED <<given, tables, keys, run, forecast, lost>>

(* The connection that was idle during the load is gone.                   *)
DropFails ==
  /\ pc \in {"drop", "drop_ids"}
  /\ pc' = "idle"
  /\ outcome' = "broken"
  /\ lost' = lost \cup {run.number}
  /\ UNCHANGED <<given, tables, keys, ids, run, forecast>>

-----------------------------------------------------------------------------
(* The operator.                                                           *)

(* --realistic forgets to pass --uuid-namespace on; without it Layer B     *)
(* gets it, if Layer A found nothing.                                      *)
StartDryRun(realistic) ==
  /\ pc = "idle" /\ run.last < MaxRuns
  /\ run' = [number |-> run.last + 1, last |-> run.last + 1, next |-> 1,
             ns |-> IF realistic THEN Default ELSE namespace, foretold |-> Unknown]
  /\ forecast' = Unknown
  /\ outcome' = "none"
  /\ pc' = "create"
  /\ UNCHANGED <<given, tables, keys, ids, lost>>

(* migrate --mode truncate.  What was foretold is compared once.           *)
StartMigrate ==
  /\ pc = "idle"
  /\ run' = [run EXCEPT !.number = 0, !.next = 1, !.ns = namespace, !.foretold = forecast]
  /\ forecast' = Unknown
  /\ outcome' = "none"
  /\ pc' = "open"
  /\ UNCHANGED <<given, tables, keys, ids, lost>>

Kill ==
  /\ pc # "idle"
  /\ pc' = "idle"
  /\ outcome' = "killed"
  /\ forecast' = Unknown
  /\ lost' = lost \cup ({run.number} \ {0})
  /\ UNCHANGED <<given, tables, keys, ids, run>>

-----------------------------------------------------------------------------
Init ==
  /\ columns \in Targets
  /\ \E s \in Sources : source = s[1] /\ refers = s[2]
  /\ namespace \in Namespace
  /\ tables = [s \in {0} |-> [t \in Table |-> {}]]
  /\ keys = [s \in Number |->
               IF s # 0 THEN {}
               ELSE {[column |-> c, deferred |-> c.check = "deferred"] :
                       c \in {x \in columns : x.check # "none"}}]
  /\ \E m \in Seeds : ids = [s \in Number |-> IF s = 0 THEN m ELSE Absent]
  /\ run = [number |-> 0, last |-> 0, next |-> 1, ns |-> namespace, foretold |-> Unknown]
  /\ pc = "idle"
  /\ forecast = Unknown
  /\ outcome = "none"
  /\ lost = {}

Next ==
  \/ OpenLoad \/ TruncateTables \/ LoadEntity \/ LoadRefused \/ EndLoad \/ LoadBreaks
  \/ CreateSchema \/ CloneTable \/ AddForeignKeys \/ CloneFails \/ EnsureIds \/ SeedIds
  \/ DropClone \/ DropIds \/ DropFails
  \/ \E realistic \in BOOLEAN : StartDryRun(realistic)
  \/ StartMigrate \/ Kill

Spec == Init /\ [][Next]_dvars

-----------------------------------------------------------------------------
(* What a rehearsal is good for.                                           *)

(* A dry run writes nothing to the target tables, nor to the real id_map,  *)
(* although the loader names its tables without a schema.                  *)
RealUntouched ==
  [][run.number # 0 /\ pc # "idle" => UNCHANGED <<tables[0], keys[0], ids[0]>>]_dvars

(* Both disposable schemas are dropped, success or failure: one is left    *)
(* only by a dry run that was killed, that lost the connection to drop it  *)
(* with, or whose clone failed half-way.                                   *)
NothingLeft ==
  pc = "idle" =>
    \A n \in Number \ {0} : n \in DOMAIN tables \/ ids[n] # Absent => n \in lost

(* Keys that the clone cannot know: those into or out of the mapped tables. *)
Crosses == \E k \in keys[0] : ~(k.column.table \in Mapped <=> k.column.to \in Mapped)

ChecksEarly == \E c \in columns : c.check = "deferrable"

(* What passes the rehearsal can be loaded.                                *)
PassedIsLoadable ==
  (run.foretold.verdict = "clean" /\ outcome = "failed") =>
    Crosses \/ ChecksEarly \/ run.foretold.ns # namespace

(* What fails in the rehearsal cannot be loaded.                           *)
NoFalseAlarm ==
  (run.foretold.verdict = "error" /\ outcome = "loaded") => run.foretold.ns # namespace

(* A reference to a document that the run itself loads is to the row it    *)
(* made of it, never to the one that id_map had from before.               *)
OwnRowsReferred ==
  \A s \in DOMAIN tables :
    \A t \in DOMAIN tables[s] : \A row \in tables[s][t] : \A c \in DOMAIN row.refs :
      (c.value = "lookup" /\ row.refs[c] # None /\ \E e \in Entity : refers[row.doc] \in source[e])
        => row.refs[c] = <<refers[row.doc], row.key[2]>>
=============================================================================
