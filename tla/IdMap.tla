-------------------------------- MODULE IdMap --------------------------------
(***************************************************************************)
(* The id_map table and the two caches migrate/idmap.py keeps in front of  *)
(* it, as the loader uses them: a snapshot of the whole map of an entity,  *)
(* read once and authoritative from then on, or, for one too large to hold *)
(* in memory, a bounded cache of the rows that were found.  Neither is     *)
(* invalidated; that they answer as the table would rests on the order in  *)
(* which the loader reads and writes.                                      *)
(*                                                                         *)
(* Load takes the result for granted: its snap is the id_map of a parent.  *)
(***************************************************************************)
EXTENDS Integers, FiniteSets

CONSTANTS
  Entity,   \* the entities of the mapping file
  Rank,     \* Rank[e]: place of e in entity_load_order()
  Parents,  \* Parents[e]: the entities e looks up
  Derived,  \* entities whose id_strategy is objectid_to_uuid
  Key,      \* target ids
  MaxRows,  \* --idmap-prefetch-max: rows of one snapshot
  Limit,    \* _FALLBACK_LIMIT: rows of one fallback cache
  MaxId,    \* bound: documents of one collection
  None      \* no such row, no snapshot, no entity

Id == 1 .. MaxId

ASSUME IdMapAssumption ==
  /\ Rank \in [Entity -> Nat]
  /\ \A e, f \in Entity : Rank[e] = Rank[f] => e = f
  /\ Parents \in [Entity -> SUBSET Entity]
  /\ \A e \in Entity : \A p \in Parents[e] : Rank[p] < Rank[e]
  /\ Derived \subseteq Entity
  /\ MaxRows \in Nat /\ Limit \in Nat /\ MaxId \in Nat
  /\ None \notin Key /\ None \notin Entity

Map == [Id -> Key \cup {None}]

EmptyMap == [i \in Id |-> None]

(* id_map, and the last_source_id of each entity's checkpoint.             *)
Database == [map : [Entity -> Map], last : [Entity -> 0 .. MaxId]]

VARIABLES
  db,        \* what is committed
  tx,        \* what the open transaction sees
  pc,        \* "idle", or what the loader does next
  todo,      \* entities the running process has to load, cur included
  cur,       \* the entity it is loading
  fetched,   \* parents of cur that prefetch() was called for
  snapshot,  \* snapshot[e]: the cached map of e, or None
  fallback,  \* fallback[e]: the rows of e found one by one
  answer     \* what the last step's get() returned: [of, id, key], or None

cache == <<snapshot, fallback>>
ivars == <<db, tx, pc, todo, cur, fetched, snapshot, fallback, answer>>

Rows(map) == {i \in Id : map[i] # None}

Answer == [of : Entity, id : Id, key : Key \cup {None}]

-----------------------------------------------------------------------------
(* A process opens its own connection, and the caches live as long as it.  *)
Disconnect ==
  /\ snapshot' = [e \in Entity |-> None]
  /\ fallback' = [e \in Entity |-> EmptyMap]
  /\ pc' = "idle"
  /\ todo' = {}
  /\ cur' = None
  /\ fetched' = {}
  /\ answer' = None

(* load(): a truncating run forgets every checkpoint, and keeps id_map.    *)
Start(selected, truncate) ==
  /\ pc = "idle"
  /\ pc' = "entity"
  /\ todo' = selected
  /\ tx' = IF truncate THEN [tx EXCEPT !.last = [e \in Entity |-> 0]] ELSE tx
  /\ db' = tx'
  /\ UNCHANGED <<cur, fetched, cache, answer>>

NextEntity(e) == e \in todo /\ \A f \in todo : Rank[e] <= Rank[f]

Begin(e) ==
  /\ pc = "entity"
  /\ NextEntity(e)
  /\ pc' = "prefetch"
  /\ cur' = e
  /\ UNCHANGED <<db, tx, todo, fetched, cache, answer>>

(* prefetch(): too large a map is not read, and what was cached stays.     *)
Prefetch(p) ==
  /\ pc = "prefetch"
  /\ p \in Parents[cur] \ fetched
  /\ fetched' = fetched \cup {p}
  /\ snapshot' = IF Cardinality(Rows(tx.map[p])) > MaxRows THEN snapshot
                 ELSE [snapshot EXCEPT ![p] = tx.map[p]]
  /\ UNCHANGED <<db, tx, pc, todo, cur, fallback, answer>>

(* Mutant: the cache is emptied one row too late.                          *)
RememberTooMany(found, i, key) ==
  IF Cardinality(Rows(found)) > Limit THEN [EmptyMap EXCEPT ![i] = key]
  ELSE [found EXCEPT ![i] = key]

(* A full cache is emptied before the row is added.                        *)
Remember(found, i, key) ==
  IF Cardinality(Rows(found)) >= Limit THEN [EmptyMap EXCEPT ![i] = key]
  ELSE [found EXCEPT ![i] = key]

Get(e, i) ==
  /\ answer' = [of |-> e, id |-> i,
                key |-> IF snapshot[e] # None THEN snapshot[e][i]
                        ELSE IF fallback[e][i] # None THEN fallback[e][i]
                        ELSE tx.map[e][i]]
  /\ fallback' =
       IF snapshot[e] = None /\ fallback[e][i] = None /\ tx.map[e][i] # None /\ Limit > 0
       THEN [fallback EXCEPT ![e] = Remember(@, i, tx.map[e][i])]
       ELSE fallback

(* The namespace check reads the checkpointed document's id, through the   *)
(* same get(): it is the one read of an entity's map before its own load.  *)
GetCheckpointed ==
  /\ pc = "prefetch"
  /\ fetched = Parents[cur]
  /\ pc' = "load"
  /\ IF tx.last[cur] = 0 \/ cur \notin Derived THEN answer' = None /\ UNCHANGED fallback
     ELSE Get(cur, tx.last[cur])
  /\ UNCHANGED <<db, tx, todo, cur, fetched, snapshot>>

GetParent(p, i) ==
  /\ pc = "load"
  /\ p \in Parents[cur]
  /\ Get(p, i)
  /\ UNCHANGED <<db, tx, pc, todo, cur, fetched, snapshot>>

(* Mutant: a batch may reach back behind the checkpoint.                   *)
AnyDocuments(docs) == TRUE

FollowCheckpoint(docs) == \A i \in docs : i > tx.last[cur]

(* put_many(): documents after the checkpoint get ids, written through to  *)
(* a snapshot of cur if there is one, but not to the fallback cache; then  *)
(* the checkpoint advances.                                                *)
PutMany(entries) ==
  LET put(map) == [i \in Id |-> IF i \in DOMAIN entries THEN entries[i] ELSE map[i]] IN
  /\ pc = "load"
  /\ FollowCheckpoint(DOMAIN entries)
  /\ pc' = "commit"
  /\ \E newest \in DOMAIN entries :
       /\ \A i \in DOMAIN entries : i <= newest
       /\ tx' = [map  |-> [tx.map EXCEPT ![cur] = put(@)],
                 last |-> [tx.last EXCEPT ![cur] = newest]]
  /\ snapshot' = IF snapshot[cur] = None THEN snapshot
                 ELSE [snapshot EXCEPT ![cur] = put(@)]
  /\ answer' = None
  /\ UNCHANGED <<db, todo, cur, fetched, fallback>>

Commit ==
  /\ pc = "commit"
  /\ pc' = "load"
  /\ db' = tx
  /\ UNCHANGED <<tx, todo, cur, fetched, cache, answer>>

EndEntity ==
  /\ pc = "load"
  /\ pc' = "entity"
  /\ todo' = todo \ {cur}
  /\ cur' = None
  /\ fetched' = {}
  /\ answer' = None
  /\ UNCHANGED <<db, tx, cache>>

EndRun ==
  /\ pc = "entity"
  /\ todo = {}
  /\ Disconnect
  /\ UNCHANGED <<db, tx>>

(* An error or a kill: the open transaction is gone.                       *)
Fail ==
  /\ pc # "idle"
  /\ Disconnect
  /\ tx' = db
  /\ UNCHANGED db

Init ==
  /\ db = [map |-> [e \in Entity |-> EmptyMap], last |-> [e \in Entity |-> 0]]
  /\ tx = db
  /\ pc = "idle"
  /\ todo = {}
  /\ cur = None
  /\ fetched = {}
  /\ snapshot = [e \in Entity |-> None]
  /\ fallback = [e \in Entity |-> EmptyMap]
  /\ answer = None

Next ==
  \/ \E selected \in (SUBSET Entity) \ {{}}, truncate \in BOOLEAN : Start(selected, truncate)
  \/ \E e \in Entity : Begin(e)
  \/ \E p \in Entity : Prefetch(p)
  \/ GetCheckpointed
  \/ \E p \in Entity, i \in Id : GetParent(p, i)
  \/ \E docs \in (SUBSET Id) \ {{}} : \E entries \in [docs -> Key] : PutMany(entries)
  \/ Commit \/ EndEntity \/ EndRun \/ Fail

Spec == Init /\ [][Next]_ivars

-----------------------------------------------------------------------------
TypeOK ==
  /\ db \in Database
  /\ tx \in Database
  /\ pc \in {"idle", "entity", "prefetch", "load", "commit"}
  /\ todo \subseteq Entity
  /\ cur \in Entity \cup {None}
  /\ fetched \subseteq Entity
  /\ snapshot \in [Entity -> Map \cup {None}]
  /\ fallback \in [Entity -> Map]
  /\ answer \in Answer \cup {None}

(* get() answers what the table holds: a miss is a missing row, never a    *)
(* cache that is behind, and an id is never one that was replaced.         *)
AnswersTable ==
  answer # None => answer.key = tx.map[answer.of][answer.id]

(* Neither cache outgrows its limit, whatever is written after it is read. *)
CachesBounded ==
  \A e \in Entity :
    /\ snapshot[e] # None => Cardinality(Rows(snapshot[e])) <= MaxRows
    /\ Cardinality(Rows(fallback[e])) <= Limit
=============================================================================
