----------------------------- MODULE IdMapProofs -----------------------------
(***************************************************************************)
(* For every mapping, number of documents and size of the caches: get()    *)
(* answers what the table holds, and no cache outgrows its limit.          *)
(*                                                                         *)
(* A snapshot is of an entity the run is through with, because parents     *)
(* come first; a row in a fallback cache is of such an entity too, or lies *)
(* behind the checkpoint of one still to be loaded, where no batch writes. *)
(***************************************************************************)
EXTENDS IdMap, TLAPS, FiniteSetTheorems

Loading == {"prefetch", "load", "commit"}

CacheInvariant ==
  /\ TypeOK
  /\ AnswersTable
  /\ CachesBounded
  /\ pc # "commit" => tx = db
  /\ pc = "idle" => /\ snapshot = [e \in Entity |-> None]
                    /\ fallback = [e \in Entity |-> EmptyMap]
  /\ pc \in Loading => cur \in todo /\ \A f \in todo : Rank[cur] <= Rank[f]
  /\ \A e \in Entity : snapshot[e] # None => e \notin todo /\ snapshot[e] = tx.map[e]
  /\ \A e \in Entity : \A i \in Id : fallback[e][i] # None =>
       /\ fallback[e][i] = tx.map[e][i]
       /\ e \in todo => i <= tx.last[e]

(* The parents of the entity being loaded are loaded, or not selected.     *)
LEMMA ParentsBehind ==
  ASSUME CacheInvariant, pc \in Loading, NEW p \in Parents[cur]
  PROVE  p \in Entity \ todo
<1>1. cur \in Entity /\ cur \in todo /\ \A f \in todo : Rank[cur] <= Rank[f]
  BY DEF CacheInvariant, TypeOK
<1>2. p \in Entity /\ Rank[p] < Rank[cur] /\ Rank[p] \in Nat /\ Rank[cur] \in Nat
  BY <1>1, IdMapAssumption DEF IdMapAssumption
<1> QED BY <1>1, <1>2

LEMMA RowsFinite ==
  ASSUME NEW m
  PROVE  IsFiniteSet(Rows(m)) /\ Cardinality(Rows(m)) \in Nat
<1>1. IsFiniteSet(Id)
  BY IdMapAssumption, FS_Interval DEF IdMapAssumption, Id
<1> QED BY <1>1, FS_Subset, FS_CardinalityType DEF Rows

(* Remember keeps the cache within its limit and adds one row.             *)
LEMMA RememberBounded ==
  ASSUME NEW m \in Map, NEW i \in Id, NEW k \in Key, m[i] = None, Limit > 0,
         Cardinality(Rows(m)) <= Limit
  PROVE  /\ Remember(m, i, k) \in Map
         /\ Cardinality(Rows(Remember(m, i, k))) <= Limit
         /\ \A j \in Id : Remember(m, i, k)[j] \in {None, m[j]} \/ j = i
         /\ Remember(m, i, k)[i] = k
<1>1. k # None /\ Limit \in Nat
  BY IdMapAssumption DEF IdMapAssumption
<1>2. CASE Cardinality(Rows(m)) >= Limit
  <2>1. Remember(m, i, k) = [EmptyMap EXCEPT ![i] = k]
    BY <1>2 DEF Remember
  <2>2. Rows(Remember(m, i, k)) = {i}
    BY <1>1, <2>1 DEF Rows, EmptyMap
  <2>3. Cardinality({i}) = 1
    BY FS_Singleton
  <2>4. Remember(m, i, k) = [j \in Id |-> IF j = i THEN k ELSE None]
    BY <2>1 DEF EmptyMap
  <2>5. Cardinality(Rows(Remember(m, i, k))) <= Limit
    BY <1>1, <2>2, <2>3
  <2> QED BY <2>4, <2>5 DEF Map
<1>3. CASE ~(Cardinality(Rows(m)) >= Limit)
  <2>1. Remember(m, i, k) = [m EXCEPT ![i] = k]
    BY <1>3 DEF Remember
  <2>2. Rows(Remember(m, i, k)) = Rows(m) \cup {i} /\ i \notin Rows(m)
    BY <1>1, <2>1 DEF Rows, Map
  <2>3. Cardinality(Rows(m) \cup {i}) = Cardinality(Rows(m)) + 1
    BY <2>2, RowsFinite, FS_AddElement
  <2>4. Cardinality(Rows(m)) \in Nat
    BY RowsFinite
  <2>5. Cardinality(Rows(Remember(m, i, k))) <= Limit
    BY <1>1, <1>3, <2>2, <2>3, <2>4
  <2>6. Remember(m, i, k) = [j \in Id |-> IF j = i THEN k ELSE m[j]]
    BY <2>1 DEF Map
  <2> QED BY <2>5, <2>6 DEF Map
<1> QED BY <1>2, <1>3

(* One get(): the answer is the table's, the cache stays true and bounded. *)
LEMMA GetCorrect ==
  ASSUME CacheInvariant, NEW e \in Entity, NEW i \in Id, Get(e, i),
         e \in todo => i <= tx.last[e]
  PROVE  /\ answer' = [of |-> e, id |-> i, key |-> tx.map[e][i]]
         /\ answer' \in Answer
         /\ fallback' \in [Entity -> Map]
         /\ \A f \in Entity : Cardinality(Rows(fallback'[f])) <= Limit
         /\ \A f \in Entity : \A j \in Id : fallback'[f][j] # None =>
              /\ fallback'[f][j] = tx.map[f][j]
              /\ f \in todo => j <= tx.last[f]
<1>1. /\ tx.map[e] \in Map /\ tx.map[e][i] \in Key \cup {None}
      /\ fallback \in [Entity -> Map] /\ fallback[e] \in Map
      /\ snapshot[e] # None => snapshot[e] = tx.map[e]
      /\ fallback[e][i] # None => fallback[e][i] = tx.map[e][i]
      /\ Cardinality(Rows(fallback[e])) <= Limit
      /\ Limit \in Nat
  BY IdMapAssumption DEF CacheInvariant, TypeOK, Database, Map, CachesBounded, IdMapAssumption
<1>2. answer' = [of |-> e, id |-> i, key |-> tx.map[e][i]]
  BY <1>1 DEF Get
<1>3. answer' \in Answer
  BY <1>1, <1>2 DEF Answer
<1>4. CASE fallback' = fallback
  BY <1>2, <1>3, <1>4 DEF CacheInvariant, TypeOK, CachesBounded
<1>5. CASE fallback' # fallback
  <2>1. /\ fallback[e][i] = None /\ tx.map[e][i] # None /\ Limit > 0
        /\ fallback' = [fallback EXCEPT ![e] = Remember(@, i, tx.map[e][i])]
    BY <1>5 DEF Get
  <2> DEFINE m == Remember(fallback[e], i, tx.map[e][i])
  <2>2. tx.map[e][i] \in Key
    BY <1>1, <2>1
  <2>3. /\ m \in Map
        /\ Cardinality(Rows(m)) <= Limit
        /\ \A j \in Id : m[j] \in {None, fallback[e][j]} \/ j = i
        /\ m[i] = tx.map[e][i]
    BY <1>1, <2>1, <2>2, RememberBounded
  <2>4. fallback' = [fallback EXCEPT ![e] = m]
    BY <2>1
  <2> HIDE DEF m
  <2>5. fallback' \in [Entity -> Map]
    BY <1>1, <2>3, <2>4
  <2>6. \A f \in Entity : Cardinality(Rows(fallback'[f])) <= Limit
    BY <1>1, <2>3, <2>4 DEF CacheInvariant, CachesBounded
  <2>7. ASSUME NEW f \in Entity, NEW j \in Id, fallback'[f][j] # None
        PROVE  /\ fallback'[f][j] = tx.map[f][j]
               /\ f \in todo => j <= tx.last[f]
    <3>1. CASE f = e /\ j = i
      BY <1>1, <2>3, <2>4, <3>1
    <3>2. CASE f = e /\ j # i
      <4>1. m[j] # None /\ fallback'[f][j] = m[j]
        BY <1>1, <2>4, <2>7, <3>2
      <4>2. m[j] = fallback[f][j] /\ fallback[f][j] # None
        BY <2>3, <3>2, <4>1
      <4> QED BY <4>1, <4>2 DEF CacheInvariant
    <3>3. CASE f # e
      <4>1. fallback'[f][j] = fallback[f][j]
        BY <1>1, <2>4, <3>3
      <4> QED BY <2>7, <4>1 DEF CacheInvariant
    <3> QED BY <3>1, <3>2, <3>3
  <2> QED BY <1>2, <1>3, <2>5, <2>6, <2>7
<1> QED BY <1>4, <1>5

LEMMA EmptyRows ==
  Cardinality(Rows(EmptyMap)) = 0 /\ EmptyMap \in Map
BY FS_EmptySet DEF Rows, EmptyMap, Map

LEMMA CacheInit == Init => CacheInvariant
<1> SUFFICES ASSUME Init PROVE CacheInvariant
  OBVIOUS
<1>1. TypeOK
  BY EmptyRows, IdMapAssumption DEF Init, TypeOK, Database, IdMapAssumption
<1>2. CachesBounded
  BY EmptyRows, IdMapAssumption DEF Init, CachesBounded, IdMapAssumption
<1> QED BY <1>1, <1>2 DEF Init, CacheInvariant, AnswersTable, Loading, EmptyMap

LEMMA StartPreserves ==
  ASSUME CacheInvariant, NEW selected \in (SUBSET Entity) \ {{}}, NEW truncate \in BOOLEAN,
         Start(selected, truncate)
  PROVE  CacheInvariant'
<1>1. tx' \in Database
  BY IdMapAssumption DEF CacheInvariant, TypeOK, Start, Database, IdMapAssumption
<1>2. TypeOK'
  BY <1>1 DEF CacheInvariant, TypeOK, Start, cache
<1>3. tx'.map = tx.map
  BY DEF CacheInvariant, TypeOK, Start, Database
<1>4. \A e \in Entity : snapshot'[e] = None /\ fallback'[e] = EmptyMap
  BY DEF CacheInvariant, Start, cache
<1>5. AnswersTable' /\ CachesBounded'
  BY <1>3 DEF CacheInvariant, AnswersTable, CachesBounded, Start, cache
<1> QED BY <1>2, <1>4, <1>5 DEF CacheInvariant, Start, Loading, EmptyMap

LEMMA PrefetchPreserves ==
  ASSUME CacheInvariant, NEW p \in Entity, Prefetch(p)
  PROVE  CacheInvariant'
<1>1. p \in Entity \ todo
  BY ParentsBehind DEF Prefetch, Loading
<1>2. /\ UNCHANGED <<db, tx, pc, todo, cur, fallback, answer>>
      /\ snapshot \in [Entity -> Map \cup {None}] /\ tx.map[p] \in Map
      /\ pc = "prefetch"
  BY DEF Prefetch, CacheInvariant, TypeOK, Database
<1>3. \/ snapshot' = snapshot
      \/ /\ snapshot' = [snapshot EXCEPT ![p] = tx.map[p]]
         /\ Cardinality(Rows(tx.map[p])) <= MaxRows
  <2>1. Cardinality(Rows(tx.map[p])) \in Nat /\ MaxRows \in Nat
    BY RowsFinite, IdMapAssumption DEF IdMapAssumption
  <2> QED BY <2>1 DEF Prefetch
<1>4. TypeOK'
  BY <1>2, <1>3 DEF CacheInvariant, TypeOK, Prefetch
<1>5. CachesBounded'
  BY <1>2, <1>3 DEF CacheInvariant, CachesBounded
<1>6. \A e \in Entity : snapshot'[e] # None => e \notin todo /\ snapshot'[e] = tx.map[e]
  BY <1>1, <1>2, <1>3 DEF CacheInvariant
<1> QED BY <1>2, <1>4, <1>5, <1>6 DEF CacheInvariant, AnswersTable

LEMMA GetPreserves ==
  ASSUME CacheInvariant, GetCheckpointed \/ \E p \in Entity, i \in Id : GetParent(p, i)
  PROVE  CacheInvariant'
<1>1. CASE GetCheckpointed /\ UNCHANGED fallback
  <2>1. answer' = None \/ Get(cur, tx.last[cur])
    BY <1>1 DEF GetCheckpointed
  <2>2. CASE answer' = None
    BY <1>1, <2>2 DEF GetCheckpointed, CacheInvariant, TypeOK, AnswersTable, CachesBounded,
                      Loading
  <2>3. CASE answer' # None
    <3>1. cur \in Entity /\ tx.last[cur] \in Id /\ Get(cur, tx.last[cur])
      BY <1>1, <2>3, IdMapAssumption DEF GetCheckpointed, CacheInvariant, TypeOK, Database,
         Loading, Id, IdMapAssumption
    <3>2. tx.last[cur] <= tx.last[cur]
      BY <3>1 DEF Id
    <3>3. answer' = [of |-> cur, id |-> tx.last[cur], key |-> tx.map[cur][tx.last[cur]]]
          /\ answer' \in Answer
      BY <3>1, <3>2, GetCorrect
    <3> QED BY <1>1, <3>3 DEF GetCheckpointed, CacheInvariant, TypeOK, AnswersTable,
                              CachesBounded, Loading
  <2> QED BY <2>2, <2>3
<1>2. ASSUME NEW e \in Entity, NEW i \in Id, Get(e, i), e \in todo => i <= tx.last[e],
             UNCHANGED <<db, tx, todo, cur, fetched, snapshot>>,
             pc \in {"prefetch", "load"}, pc' = "load"
      PROVE  CacheInvariant'
  <2>1. /\ answer' = [of |-> e, id |-> i, key |-> tx.map[e][i]]
        /\ answer' \in Answer
        /\ fallback' \in [Entity -> Map]
        /\ \A f \in Entity : Cardinality(Rows(fallback'[f])) <= Limit
        /\ \A f \in Entity : \A j \in Id : fallback'[f][j] # None =>
             /\ fallback'[f][j] = tx.map[f][j]
             /\ f \in todo => j <= tx.last[f]
    BY <1>2, GetCorrect
  <2>2. TypeOK'
    BY <1>2, <2>1 DEF CacheInvariant, TypeOK
  <2>3. AnswersTable'
    BY <1>2, <2>1 DEF AnswersTable
  <2>4. CachesBounded'
    BY <1>2, <2>1 DEF CacheInvariant, CachesBounded
  <2> QED BY <1>2, <2>1, <2>2, <2>3, <2>4 DEF CacheInvariant, Loading
<1>3. CASE GetCheckpointed /\ ~UNCHANGED fallback
  <2>1. cur \in Entity /\ tx.last[cur] \in Id /\ Get(cur, tx.last[cur])
    BY <1>3, IdMapAssumption DEF GetCheckpointed, CacheInvariant, TypeOK, Database,
       Loading, Id, IdMapAssumption
  <2>2. tx.last[cur] <= tx.last[cur]
    BY <2>1 DEF Id
  <2> QED BY <1>2, <1>3, <2>1, <2>2 DEF GetCheckpointed, Loading
<1>4. ASSUME NEW p \in Entity, NEW i \in Id, GetParent(p, i)
      PROVE  CacheInvariant'
  <2>1. p \notin todo
    BY <1>4, ParentsBehind DEF GetParent, Loading
  <2> QED BY <1>2, <1>4, <2>1 DEF GetParent, Loading
<1> QED BY <1>1, <1>3, <1>4

LEMMA PutManyPreserves ==
  ASSUME CacheInvariant,
         NEW docs \in (SUBSET Id) \ {{}}, NEW entries \in [docs -> Key], PutMany(entries)
  PROVE  CacheInvariant'
<1> DEFINE put(map) == [i \in Id |-> IF i \in docs THEN entries[i] ELSE map[i]]
<1>1. /\ pc = "load" /\ cur \in Entity /\ cur \in todo
      /\ tx.map \in [Entity -> Map] /\ tx.last \in [Entity -> 0 .. MaxId]
      /\ MaxId \in Nat
      /\ DOMAIN entries = docs
  BY IdMapAssumption DEF PutMany, CacheInvariant, TypeOK, Database, Loading, IdMapAssumption
<1>2. /\ \A i \in docs : i > tx.last[cur]
      /\ snapshot[cur] = None /\ snapshot' = snapshot
      /\ UNCHANGED <<db, todo, cur, fetched, fallback>> /\ answer' = None /\ pc' = "commit"
  BY <1>1 DEF PutMany, FollowCheckpoint, CacheInvariant
<1>3. PICK newest \in docs :
        tx' = [map |-> [tx.map EXCEPT ![cur] = put(@)], last |-> [tx.last EXCEPT ![cur] = newest]]
  BY <1>1 DEF PutMany
<1>11. newest \in 0 .. MaxId
  BY <1>1 DEF Id
<1>4. put(tx.map[cur]) \in Map
  BY <1>1 DEF Map
<1> HIDE DEF put
<1>5. tx'.map = [tx.map EXCEPT ![cur] = put(tx.map[cur])] /\ tx'.last = [tx.last EXCEPT ![cur] = newest]
  BY <1>3
<1>6. tx' \in Database
  BY <1>1, <1>3, <1>4, <1>11 DEF Database
<1>7. TypeOK'
  BY <1>2, <1>6 DEF CacheInvariant, TypeOK
<1>8. \A e \in Entity : snapshot[e] # None => e # cur /\ tx'.map[e] = tx.map[e]
  BY <1>1, <1>2, <1>5
<1>9. ASSUME NEW e \in Entity, NEW i \in Id, fallback[e][i] # None
      PROVE  fallback[e][i] = tx'.map[e][i] /\ (e \in todo => i <= tx'.last[e])
  <2>1. fallback[e][i] = tx.map[e][i] /\ (e \in todo => i <= tx.last[e])
    BY <1>9 DEF CacheInvariant
  <2>2. CASE e # cur
    BY <1>1, <1>5, <2>1, <2>2
  <2>3. CASE e = cur
    <3>1. i <= tx.last[cur] /\ i \notin docs /\ tx.last[cur] < newest
      BY <1>1, <1>2, <1>3, <2>1, <2>3 DEF Id
    <3>2. put(tx.map[cur])[i] = tx.map[cur][i]
      BY <3>1 DEF put
    <3>3. i <= newest
      BY <1>1, <1>3, <3>1 DEF Id
    <3> QED BY <1>1, <1>5, <2>1, <2>3, <3>2, <3>3
  <2> QED BY <2>2, <2>3
<1>10. AnswersTable' /\ CachesBounded'
  BY <1>2 DEF CacheInvariant, AnswersTable, CachesBounded
<1> QED BY <1>1, <1>2, <1>7, <1>8, <1>9, <1>10 DEF CacheInvariant, Loading

(* The steps that neither read nor write the maps.                         *)
LEMMA OthersPreserve ==
  ASSUME CacheInvariant,
         \/ \E e \in Entity : Begin(e)
         \/ Commit \/ EndEntity \/ EndRun \/ Fail \/ UNCHANGED ivars
  PROVE  CacheInvariant'
<1>1. ASSUME NEW e \in Entity, Begin(e)
      PROVE  CacheInvariant'
  BY <1>1 DEF Begin, NextEntity, cache, CacheInvariant, TypeOK, AnswersTable, CachesBounded,
              Loading
<1>2. CASE Commit
  BY <1>2 DEF Commit, cache, CacheInvariant, TypeOK, AnswersTable, CachesBounded, Loading
<1>3. CASE EndEntity
  BY <1>3 DEF EndEntity, cache, CacheInvariant, TypeOK, AnswersTable, CachesBounded, Loading
<1>4. CASE EndRun \/ Fail
  <2>1. Disconnect /\ db' = db /\ (Fail => tx' = db) /\ (EndRun => tx' = tx)
    BY <1>4 DEF EndRun, Fail
  <2>2. tx' = db
    BY <1>4, <2>1 DEF EndRun, CacheInvariant
  <2>3. TypeOK'
    BY <2>1, <2>2, EmptyRows DEF CacheInvariant, TypeOK, Disconnect
  <2>4. CachesBounded'
    BY <2>1, EmptyRows, IdMapAssumption DEF CachesBounded, Disconnect, IdMapAssumption
  <2>5. \A e \in Entity : snapshot'[e] = None /\ fallback'[e] = EmptyMap
    BY <2>1 DEF Disconnect
  <2> QED BY <2>1, <2>2, <2>3, <2>4, <2>5
          DEF CacheInvariant, AnswersTable, Disconnect, Loading, EmptyMap
<1>5. CASE UNCHANGED ivars
  BY <1>5 DEF ivars, cache, CacheInvariant, TypeOK, AnswersTable, CachesBounded
<1> QED BY <1>1, <1>2, <1>3, <1>4, <1>5

LEMMA CachesCorrect == Spec => []CacheInvariant
<1>1. CacheInvariant /\ [Next]_ivars => CacheInvariant'
  BY StartPreserves, PrefetchPreserves, GetPreserves, PutManyPreserves, OthersPreserve DEF Next
<1> QED BY <1>1, CacheInit, PTL DEF Spec

(* get() answers what a query of the table would, cached or not.           *)
THEOREM GetAnswersTable == Spec => []AnswersTable
<1>1. CacheInvariant => AnswersTable
  BY DEF CacheInvariant
<1> QED BY <1>1, CachesCorrect, PTL

(* The memory the caches hold stays within the limits given.               *)
THEOREM CachesStayBounded == Spec => []CachesBounded
<1>1. CacheInvariant => CachesBounded
  BY DEF CacheInvariant
<1> QED BY <1>1, CachesCorrect, PTL
=============================================================================
