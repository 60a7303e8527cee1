----------------------------- MODULE TableOrder -----------------------------
(***************************************************************************)
(* The order in which `introspect' says the tables of the target can be    *)
(* loaded (introspect/postgres.py, PostgresSchema.load_order): batches of  *)
(* one table each, and one batch of all that is left when every foreign    *)
(* key in it is deferrable.                                                *)
(***************************************************************************)
EXTENDS Integers, Sequences, FiniteSets

CONSTANTS
  Table,       \* the tables of the introspected schema
  Elsewhere,   \* a table of another schema
  TablePlace,  \* TablePlace[t]: place of t in the alphabet
  Schemas      \* the target schemas: sets of foreign keys

ForeignKey == [table : Table, references : Table \cup {Elsewhere}, deferrable : BOOLEAN]

ASSUME TableAssumption ==
  /\ IsFiniteSet(Table)
  /\ Elsewhere \notin Table
  /\ TablePlace \in [Table -> Nat]
  /\ \A t, u \in Table : TablePlace[t] = TablePlace[u] => t = u
  /\ Schemas \subseteq SUBSET ForeignKey

VARIABLES
  keys,       \* the foreign keys of the schema
  left,       \* tables not in a batch yet
  batches,    \* sequence of batches, each a sequence of tables
  verdict     \* "running", "circular" or "ordered"

tvars == <<keys, left, batches, verdict>>

-----------------------------------------------------------------------------
(* dependency_edges: a table does not wait for itself.                     *)
Edges(t) ==
  {fk.references : fk \in {k \in keys : k.table = t}} \cap (Table \ {t})

ReadyTables == {t \in left : Edges(t) \cap left = {}}

(* Mutant: deferrability is not asked for.                                 *)
NothingNonDeferrable == {}

(* Foreign keys of a table to itself count here.                           *)
NonDeferrable ==
  {fk \in keys : fk.table \in left /\ fk.references \in left /\ ~fk.deferrable}

TablesByName(s, S) ==
  /\ \A i, j \in DOMAIN s : i < j => TablePlace[s[i]] < TablePlace[s[j]]
  /\ \A t \in S : \E i \in DOMAIN s : s[i] = t

Listed(S) == {s \in [1 .. Cardinality(S) -> S] : TablesByName(s, S)}

BatchReady ==
  /\ verdict = "running"
  /\ ReadyTables # {}
  /\ \E s \in Listed(ReadyTables) : batches' = batches \o [i \in DOMAIN s |-> <<s[i]>>]
  /\ left' = left \ ReadyTables
  /\ UNCHANGED <<keys, verdict>>

(* Every table left waits for another one.                                 *)
BatchCycle ==
  /\ verdict = "running"
  /\ left # {}
  /\ ReadyTables = {}
  /\ NonDeferrable = {}
  /\ \E s \in Listed(left) : batches' = Append(batches, s)
  /\ left' = {}
  /\ UNCHANGED <<keys, verdict>>

RefuseTables ==
  /\ verdict = "running"
  /\ left # {}
  /\ ReadyTables = {}
  /\ NonDeferrable # {}
  /\ verdict' = "circular"
  /\ UNCHANGED <<keys, left, batches>>

ReturnBatches ==
  /\ verdict = "running"
  /\ left = {}
  /\ verdict' = "ordered"
  /\ UNCHANGED <<keys, left, batches>>

TableInit ==
  /\ keys \in Schemas
  /\ left = Table
  /\ batches = <<>>
  /\ verdict = "running"

TableNext == BatchReady \/ BatchCycle \/ RefuseTables \/ ReturnBatches

TableSpec == TableInit /\ [][TableNext]_tvars

-----------------------------------------------------------------------------
TablesOK ==
  /\ keys \subseteq ForeignKey
  /\ left \subseteq Table
  /\ batches \in Seq(Seq(Table))
  /\ verdict \in {"running", "circular", "ordered"}

InBatch(t, n) == \E i \in DOMAIN batches[n] : batches[n][i] = t

(* When batches are returned, every table is in one, and loading them in   *)
(* sequence violates no foreign key: what a table references is in an      *)
(* earlier batch, or in its own if it is the table itself or the key can   *)
(* be deferred to the end of the batch's transaction.                      *)
ForeignKeysHold ==
  verdict = "ordered" =>
    \A t \in Table : \E n \in DOMAIN batches :
      /\ InBatch(t, n)
      /\ \A fk \in keys : fk.table = t /\ fk.references \in Table =>
           \E m \in 1 .. n :
             /\ InBatch(fk.references, m)
             /\ m = n => fk.deferrable \/ fk.references = t
=============================================================================
