---------------------------- MODULE OrderProofs -----------------------------
(***************************************************************************)
(* The two topological sorts.  For every mapping file, however many        *)
(* entities it has: an order that is returned puts parents first and every *)
(* entity in once, and a mapping is refused exactly if it cannot be        *)
(* ordered.  For every schema: batches that are returned hold every table  *)
(* and respect every foreign key.                                          *)
(***************************************************************************)
EXTENDS LoadOrder, TableOrder, TLAPS, FiniteSetTheorems

-----------------------------------------------------------------------------
(* The order of the entities.  The argument is one invariant of the sort.  *)
(* What is placed has all it depends on placed before it; and no entity of *)
(* an entangled set is ever placed, since the first one placed would have  *)
(* no dependency remaining.                                                *)
Placed(i) == \A p \in Dependencies(order[i]) \cap Declared : p \in Before(i)

SortInvariant ==
  /\ OrderOK
  /\ EachOnce
  /\ status \in {"ordering", "circular", "ordered"} => \A e \in Declared : Valid(e)
  /\ \A i \in DOMAIN order : Placed(i)
  /\ \A S \in SUBSET Declared : Entangled(S) => S \subseteq remaining
  /\ status = "circular" => remaining # {} /\ Ready = {}

(* Dependencies is what the code computes, Needs what the file says.       *)
LEMMA DependenciesAreNeeds ==
  ASSUME NEW e, NEW p
  PROVE  p \in Dependencies(e) <=> Needs(e, p)
BY DEF Dependencies, LookupEntities, ExplodeLookups, Needs, LooksUp

(* The listing of a finite set in alphabetical order: a sequence of its    *)
(* elements, each once.                                                    *)
LEMMA Listing ==
  ASSUME NEW S, S \subseteq Declared,
         NEW s \in [1 .. Cardinality(S) -> S], Alphabetical(s, S)
  PROVE  /\ Cardinality(S) \in Nat
         /\ s \in Seq(S)
         /\ Len(s) = Cardinality(S)
         /\ \A i, j \in 1 .. Len(s) : s[i] = s[j] => i = j
         /\ \A e \in S : \E i \in 1 .. Len(s) : s[i] = e
<1>1. Cardinality(S) \in Nat
  BY OrderAssumption, FS_Subset, FS_CardinalityType DEF OrderAssumption
<1>2. s \in Seq(S) /\ Len(s) = Cardinality(S) /\ DOMAIN s = 1 .. Cardinality(S)
  BY <1>1
<1>3. ASSUME NEW i \in 1 .. Len(s), NEW j \in 1 .. Len(s), s[i] = s[j]
      PROVE  i = j
  <2>1. Place[s[i]] \in Nat /\ Place[s[j]] \in Nat
    BY <1>2, <1>3, OrderAssumption DEF OrderAssumption
  <2>2. ~(i < j) /\ ~(j < i)
    BY <1>2, <1>3, <2>1 DEF Alphabetical
  <2> QED BY <1>1, <1>2, <2>2
<1>4. \A e \in S : \E i \in 1 .. Len(s) : s[i] = e
  BY <1>2 DEF Alphabetical
<1> QED BY <1>1, <1>2, <1>3, <1>4

(* What PlaceReady does to the order: the old one, then a listing of the   *)
(* entities that are ready.                                                *)
LEMMA PlaceReadyExtends ==
  ASSUME OrderOK, PlaceReady
  PROVE  \E s \in Seq(Ready) :
           /\ order' \in Seq(Declared)
           /\ Len(order') = Len(order) + Len(s)
           /\ \A i \in 1 .. Len(order) : order'[i] = order[i]
           /\ \A i \in 1 .. Len(s) : order'[Len(order) + i] = s[i]
           /\ \A i, j \in 1 .. Len(s) : s[i] = s[j] => i = j
           /\ \A e \in Ready : \E i \in 1 .. Len(s) : s[i] = e
<1>1. Ready \subseteq Declared
  BY DEF Ready, OrderOK
<1>2. PICK s \in [1 .. Cardinality(Ready) -> Ready] :
        Alphabetical(s, Ready) /\ order' = order \o s
  BY DEF PlaceReady
<1>3. /\ s \in Seq(Ready)
      /\ \A i, j \in 1 .. Len(s) : s[i] = s[j] => i = j
      /\ \A e \in Ready : \E i \in 1 .. Len(s) : s[i] = e
  <2>1. s \in [1 .. Cardinality(Ready) -> Ready] /\ Alphabetical(s, Ready)
    BY <1>2
  <2>2. s \in Seq(Ready) /\ \A i, j \in 1 .. Len(s) : s[i] = s[j] => i = j
    BY ZenonT(30), <1>1, <2>1, Listing
  <2>3. \A e \in Ready : \E i \in 1 .. Len(s) : s[i] = e
    BY ZenonT(30), <1>1, <2>1, Listing
  <2> QED BY <2>2, <2>3
<1>4. s \in Seq(Declared) /\ order \in Seq(Declared)
  BY <1>1, <1>3 DEF OrderOK
<1>5. /\ order' \in Seq(Declared)
      /\ Len(order') = Len(order) + Len(s)
      /\ \A i \in 1 .. Len(order) : order'[i] = order[i]
      /\ \A i \in 1 .. Len(s) : order'[Len(order) + i] = s[i]
  BY <1>2, <1>4
<1> QED BY <1>3, <1>5

LEMMA SortInit == OrderInit => SortInvariant
<1> SUFFICES ASSUME OrderInit PROVE SortInvariant
  OBVIOUS
<1>1. OrderOK
  BY OrderAssumption DEF OrderInit, OrderOK, OrderAssumption
<1>2. EachOnce /\ \A i \in DOMAIN order : Placed(i)
  BY DEF OrderInit, EachOnce
<1>3. \A S \in SUBSET Declared : Entangled(S) => S \subseteq remaining
  BY DEF OrderInit
<1> QED BY <1>1, <1>2, <1>3 DEF SortInvariant, OrderInit

LEMMA PlaceReadyPreserves ==
  ASSUME SortInvariant, PlaceReady
  PROVE  SortInvariant'
<1>1. PICK s \in Seq(Ready) :
        /\ order' \in Seq(Declared)
        /\ Len(order') = Len(order) + Len(s)
        /\ \A i \in 1 .. Len(order) : order'[i] = order[i]
        /\ \A i \in 1 .. Len(s) : order'[Len(order) + i] = s[i]
        /\ \A i, j \in 1 .. Len(s) : s[i] = s[j] => i = j
        /\ \A e \in Ready : \E i \in 1 .. Len(s) : s[i] = e
  BY PlaceReadyExtends DEF SortInvariant
<1>2. /\ Ready \subseteq remaining
      /\ remaining \subseteq Declared
      /\ remaining' = remaining \ Ready
      /\ mapping' = mapping
      /\ status = "ordering" /\ status' = "ordering"
      /\ order \in Seq(Declared)
      /\ Len(order) \in Nat /\ Len(s) \in Nat
  BY <1>1 DEF PlaceReady, Ready, SortInvariant, OrderOK
<1>3. OrderOK'
  BY <1>1, <1>2 DEF SortInvariant, OrderOK
<1>4. \A i \in 1 .. Len(s) : order'[Len(order) + i] \in Ready
  <2>1. \A i \in 1 .. Len(s) : s[i] \in Ready
    OBVIOUS
  <2> QED BY <1>1, <2>1
<1>5. \A i \in 1 .. Len(order) : order'[i] \in Declared \ remaining
  BY <1>1, <1>2 DEF SortInvariant, EachOnce
<1>6. \A i \in 1 .. Len(order') :
        i \in 1 .. Len(order) \/ \E k \in 1 .. Len(s) : i = Len(order) + k
  <2> SUFFICES ASSUME NEW i \in 1 .. Len(order'), i \notin 1 .. Len(order)
               PROVE  \E k \in 1 .. Len(s) : i = Len(order) + k
    OBVIOUS
  <2>1. i - Len(order) \in 1 .. Len(s) /\ i = Len(order) + (i - Len(order))
    BY <1>1, <1>2
  <2> QED BY <2>1
<1>7. EachOnce'
  <2>1. ASSUME NEW i \in 1 .. Len(order'), NEW j \in 1 .. Len(order'),
               order'[i] = order'[j]
        PROVE  i = j
    <3>1. CASE i \in 1 .. Len(order) /\ j \in 1 .. Len(order)
      <4>1. DOMAIN order = 1 .. Len(order) /\ order[i] = order[j]
        BY <1>1, <1>2, <2>1, <3>1
      <4> QED BY <3>1, <4>1 DEF SortInvariant, EachOnce
    <3>2. CASE i \notin 1 .. Len(order) /\ j \notin 1 .. Len(order)
      BY <1>1, <1>6, <2>1, <3>2
    <3>3. CASE i \in 1 .. Len(order) <=> j \notin 1 .. Len(order)
      BY <1>2, <1>4, <1>5, <1>6, <2>1, <3>3
    <3> QED BY <3>1, <3>2, <3>3
  <2>2. \A i \in 1 .. Len(order') : order'[i] \in Declared \ remaining'
    BY <1>2, <1>4, <1>5, <1>6
  <2>3. ASSUME NEW e \in Declared \ remaining'
        PROVE  \E i \in 1 .. Len(order') : order'[i] = e
    <3>1. CASE e \in Ready
      <4>1. PICK k \in 1 .. Len(s) : s[k] = e
        BY <1>1, <3>1
      <4>2. Len(order) + k \in 1 .. Len(order')
        BY <1>1, <1>2
      <4> QED BY <1>1, <4>1, <4>2
    <3>2. CASE e \notin remaining
      <4>1. PICK i \in 1 .. Len(order) : order[i] = e
        BY <1>2, <3>2 DEF SortInvariant, EachOnce
      <4> QED BY <1>1, <1>2, <4>1
    <3> QED BY <1>2, <3>1, <3>2
  <2>4. DOMAIN order' = 1 .. Len(order')
    BY <1>1
  <2>5. {order'[i] : i \in DOMAIN order'} = Declared \ remaining'
    BY <2>2, <2>3, <2>4
  <2> QED BY <1>2, <2>1, <2>4, <2>5 DEF EachOnce
<1>8. ASSUME NEW i \in DOMAIN order'
      PROVE  Placed(i)'
  <2>1. i \in 1 .. Len(order') /\ DOMAIN order = 1 .. Len(order)
    BY <1>1, <1>2, <1>8
  <2>2. \A j \in 1 .. Len(order) : j < i => order'[j] \in Before(i)'
    BY <2>1, <1>2 DEF Before
  <2>3. CASE i \in 1 .. Len(order)
    <3>1. Before(i)' = Before(i)
      <4>1. \A j \in 1 .. i - 1 : order'[j] = order[j]
        BY <1>1, <1>2, <2>3
      <4> QED BY <4>1 DEF Before
    <3>2. Dependencies(order[i])' = Dependencies(order'[i])
      BY <1>1, <1>2, <2>3 DEF Dependencies, LookupEntities
    <3>3. Dependencies(order'[i]) = Dependencies(order[i])
      BY <1>1, <2>3
    <3>4. Placed(i)
      BY <2>1, <2>3 DEF SortInvariant
    <3> QED BY <3>1, <3>2, <3>3, <3>4 DEF Placed
  <2>4. CASE i \notin 1 .. Len(order)
    <3>1. order'[i] \in Ready
      BY <1>4, <1>6, <2>1, <2>4
    <3>2. Dependencies(order[i])' = Dependencies(order'[i])
      BY <1>2 DEF Dependencies, LookupEntities
    <3>3. ASSUME NEW p \in Dependencies(order'[i]) \cap Declared
          PROVE  p \in Before(i)'
      <4>1. p \in Declared \ remaining
        BY <3>1, <3>3 DEF Ready
      <4>2. PICK j \in 1 .. Len(order) : order[j] = p
        BY <2>1, <4>1 DEF SortInvariant, EachOnce
      <4>3. j < i
        BY <1>2, <2>1, <2>4
      <4> QED BY <1>1, <2>2, <4>2, <4>3
    <3> QED BY <3>2, <3>3 DEF Placed
  <2> QED BY <2>3, <2>4
<1>9. ASSUME NEW S \in SUBSET Declared, Entangled(S)'
      PROVE  S \subseteq remaining'
  <2>1. Entangled(S)
    BY <1>2, <1>9 DEF Entangled, Needs, LooksUp
  <2>2. S \subseteq remaining
    BY <2>1 DEF SortInvariant
  <2>3. S \cap Ready = {}
    BY <2>1, <2>2, DependenciesAreNeeds DEF Entangled, Ready
  <2> QED BY <1>2, <2>2, <2>3
<1>10. \A e \in Declared : Valid(e)'
  BY <1>2 DEF SortInvariant, Valid, LookupEntities
<1> QED BY <1>2, <1>3, <1>7, <1>8, <1>9, <1>10 DEF SortInvariant

(* The steps that place nothing.                                           *)
LEMMA OthersPreserve ==
  ASSUME SortInvariant,
         ValidateStructure \/ RefuseCycle \/ ReturnOrder \/ UNCHANGED ovars
  PROVE  SortInvariant'
<1>1. mapping' = mapping /\ remaining' = remaining /\ order' = order
  BY DEF ValidateStructure, RefuseCycle, ReturnOrder, ovars
<1>2. /\ \A e \in Declared : Valid(e)' <=> Valid(e)
      /\ \A i \in DOMAIN order : Placed(i)' <=> Placed(i)
      /\ \A S \in SUBSET Declared : Entangled(S)' <=> Entangled(S)
      /\ Ready' = Ready
  BY <1>1 DEF Valid, Placed, Before, Entangled, Needs, LooksUp, Ready, Dependencies,
              LookupEntities
<1>3. OrderOK'
  BY <1>1 DEF SortInvariant, OrderOK, ValidateStructure, RefuseCycle, ReturnOrder, ovars
<1>4. EachOnce'
  BY <1>1 DEF SortInvariant, EachOnce, OrderOK, ValidateStructure, RefuseCycle,
              ReturnOrder, ovars
<1>5. status' \in {"ordering", "circular", "ordered"} => \A e \in Declared : Valid(e)
  BY DEF SortInvariant, ValidateStructure, RefuseCycle, ReturnOrder, ovars
<1>6. status' = "circular" => remaining # {} /\ Ready = {}
  BY DEF SortInvariant, ValidateStructure, RefuseCycle, ReturnOrder, ovars
<1> QED BY <1>1, <1>2, <1>3, <1>4, <1>5, <1>6 DEF SortInvariant

LEMMA SortCorrect == OrderSpec => []SortInvariant
<1>1. SortInvariant /\ [OrderNext]_ovars => SortInvariant'
  BY PlaceReadyPreserves, OthersPreserve DEF OrderNext
<1> QED BY <1>1, SortInit, PTL DEF OrderSpec

(* Every order that is returned has the parents of an entity before it.    *)
THEOREM OrderPutsParentsFirst == OrderSpec => []ParentsFirst
<1>1. SortInvariant => ParentsFirst
  <2> SUFFICES ASSUME SortInvariant, status = "ordered",
                      NEW i \in DOMAIN order, NEW p \in Name
               PROVE  /\ LooksUp(order[i], p) => p \in Before(i) \cup (External \ Declared)
                      /\ p \in mapping[order[i]].depends_on => p \in Before(i)
    BY DEF ParentsFirst
  <2>1. order[i] \in Declared
    BY DEF SortInvariant, OrderOK
  <2>2. Valid(order[i]) /\ Placed(i)
    BY <2>1 DEF SortInvariant
  <2>3. LooksUp(order[i], p) => p \in LookupEntities(order[i])
    BY DEF LooksUp, LookupEntities, ExplodeLookups
  <2> QED BY <2>2, <2>3 DEF Valid, Placed, Dependencies
<1> QED BY <1>1, SortCorrect, PTL

(* An order holds every entity of the mapping file exactly once.           *)
THEOREM OrderIsPermutation == OrderSpec => []EachOnce
<1>1. SortInvariant => EachOnce
  BY DEF SortInvariant
<1> QED BY <1>1, SortCorrect, PTL

(* A mapping is refused as circular exactly if some of its entities need   *)
(* one another.                                                            *)
THEOREM CircularExactly == OrderSpec => []RefusedIffCyclic
<1>1. SortInvariant => RefusedIffCyclic
  <2> SUFFICES ASSUME SortInvariant PROVE RefusedIffCyclic
    OBVIOUS
  <2>1. ASSUME status = "circular"
        PROVE  \E S \in SUBSET Declared : S # {} /\ Entangled(S)
    <3>1. remaining # {} /\ remaining \in SUBSET Declared
      BY <2>1 DEF SortInvariant, OrderOK
    <3>2. Entangled(remaining)
      BY <2>1, DependenciesAreNeeds DEF SortInvariant, Ready, Entangled
    <3> QED BY <3>1, <3>2
  <2>2. ASSUME status = "ordered", NEW S \in SUBSET Declared, S # {}
        PROVE  ~Entangled(S)
    BY <2>2 DEF SortInvariant, EachOnce
  <2> QED BY <2>1, <2>2 DEF RefusedIffCyclic
<1> QED BY <1>1, SortCorrect, PTL

-----------------------------------------------------------------------------
(* The batches of the tables.                                              *)

(* Batch n holds table t, and nothing t references comes after it.         *)
Loadable(t, n) ==
  /\ InBatch(t, n)
  /\ \A fk \in keys : fk.table = t /\ fk.references \in Table =>
       \E m \in 1 .. n :
         /\ InBatch(fk.references, m)
         /\ m = n => fk.deferrable \/ fk.references = t

BatchInvariant ==
  /\ TablesOK
  /\ \A t \in Table \ left : \E n \in DOMAIN batches : Loadable(t, n)
  /\ verdict = "ordered" => left = {}

LEMMA ListedIsSequence ==
  ASSUME NEW S, S \subseteq Table, NEW s \in Listed(S)
  PROVE  /\ s \in Seq(S)
         /\ \A t \in S : \E i \in 1 .. Len(s) : s[i] = t
<1>1. Cardinality(S) \in Nat
  BY TableAssumption, FS_Subset, FS_CardinalityType DEF TableAssumption
<1>2. s \in [1 .. Cardinality(S) -> S] /\ TablesByName(s, S)
  BY DEF Listed
<1>3. s \in Seq(S) /\ DOMAIN s = 1 .. Len(s)
  BY <1>1, <1>2
<1> QED BY <1>2, <1>3 DEF TablesByName

(* What stays true when batches are added behind the ones there are.       *)
LEMMA Extended ==
  ASSUME TablesOK, keys' = keys,
         batches' \in Seq(Seq(Table)),
         Len(batches) <= Len(batches'),
         \A n \in 1 .. Len(batches) : batches'[n] = batches[n]
  PROVE  /\ \A t \in Table, n \in 1 .. Len(batches) : InBatch(t, n) => InBatch(t, n)'
         /\ \A t \in Table, n \in 1 .. Len(batches) : Loadable(t, n) => Loadable(t, n)'
         /\ 1 .. Len(batches) \subseteq 1 .. Len(batches')
<1>1. Len(batches) \in Nat /\ Len(batches') \in Nat
  BY DEF TablesOK
<1>2. \A t \in Table, n \in 1 .. Len(batches) : InBatch(t, n) => InBatch(t, n)'
  BY DEF InBatch
<1>3. ASSUME NEW t \in Table, NEW n \in 1 .. Len(batches), Loadable(t, n)
      PROVE  Loadable(t, n)'
  <2>1. InBatch(t, n)'
    BY <1>2, <1>3 DEF Loadable
  <2>2. ASSUME NEW fk \in keys, fk.table = t, fk.references \in Table
        PROVE  \E m \in 1 .. n : /\ InBatch(fk.references, m)'
                                 /\ m = n => fk.deferrable \/ fk.references = t
    <3>1. PICK m \in 1 .. n : /\ InBatch(fk.references, m)
                              /\ m = n => fk.deferrable \/ fk.references = t
      BY <1>3, <2>2 DEF Loadable
    <3>2. m \in 1 .. Len(batches)
      BY <1>1
    <3> QED BY <1>2, <2>2, <3>1, <3>2
  <2> QED BY <2>1, <2>2 DEF Loadable
<1> QED BY <1>1, <1>2, <1>3

LEMMA BatchReadyPreserves ==
  ASSUME BatchInvariant, BatchReady
  PROVE  BatchInvariant'
<1>1. /\ ReadyTables \subseteq left /\ left \subseteq Table
      /\ batches \in Seq(Seq(Table))
      /\ keys' = keys /\ verdict' = "running"
      /\ left' = left \ ReadyTables
  BY DEF BatchReady, ReadyTables, BatchInvariant, TablesOK
<1>2. PICK s \in Listed(ReadyTables) : batches' = batches \o [i \in DOMAIN s |-> <<s[i]>>]
  BY DEF BatchReady
<1>3. s \in Seq(ReadyTables) /\ \A t \in ReadyTables : \E i \in 1 .. Len(s) : s[i] = t
  BY <1>1, <1>2, ListedIsSequence
<1>4. s \in Seq(Table)
  BY <1>1, <1>3
<1> DEFINE new == [i \in DOMAIN s |-> <<s[i]>>]
<1>5. new \in Seq(Seq(Table)) /\ Len(new) = Len(s) /\ \A i \in 1 .. Len(s) : new[i] = <<s[i]>>
  <2>1. DOMAIN s = 1 .. Len(s) /\ Len(s) \in Nat /\ \A i \in 1 .. Len(s) : s[i] \in Table
    BY <1>4
  <2>2. \A i \in 1 .. Len(s) : <<s[i]>> \in Seq(Table)
    BY <2>1
  <2>3. new = [i \in 1 .. Len(s) |-> <<s[i]>>]
    BY <2>1
  <2> QED BY <2>1, <2>2, <2>3
<1>6. /\ batches' \in Seq(Seq(Table))
      /\ Len(batches') = Len(batches) + Len(s)
      /\ \A n \in 1 .. Len(batches) : batches'[n] = batches[n]
      /\ \A i \in 1 .. Len(s) : batches'[Len(batches) + i] = new[i]
  <2>1. batches' = batches \o new
    BY <1>2
  <2> DEFINE A == Seq(Table)
  <2>2. new \in Seq(A) /\ batches \in Seq(A) /\ Len(new) = Len(s)
    BY <1>1, <1>5
  <2> HIDE DEF new, A
  <2>3. /\ batches \o new \in Seq(A)
        /\ Len(batches \o new) = Len(batches) + Len(new)
        /\ \A n \in 1 .. Len(batches) : (batches \o new)[n] = batches[n]
        /\ \A i \in 1 .. Len(new) : (batches \o new)[Len(batches) + i] = new[i]
    BY <2>2
  <2> QED BY <2>1, <2>2, <2>3 DEF A
<1>7. Len(batches) \in Nat /\ Len(s) \in Nat
  BY <1>1, <1>3
<1>8. /\ \A t \in Table, n \in 1 .. Len(batches) : InBatch(t, n) => InBatch(t, n)'
      /\ \A t \in Table, n \in 1 .. Len(batches) : Loadable(t, n) => Loadable(t, n)'
      /\ 1 .. Len(batches) \subseteq 1 .. Len(batches')
  BY <1>1, <1>6, <1>7, Extended DEF BatchInvariant
<1>9. ASSUME NEW t \in Table \ left
      PROVE  \E n \in 1 .. Len(batches) : Loadable(t, n)
  BY <1>1 DEF BatchInvariant
<1>10. ASSUME NEW t \in ReadyTables
       PROVE  \E n \in 1 .. Len(batches') : Loadable(t, n)'
  <2>1. PICK i \in 1 .. Len(s) : s[i] = t
    BY <1>3
  <2>2. PICK n \in 1 .. Len(batches') : n = Len(batches) + i
    <3>1. Len(batches') = Len(batches) + Len(s)
      BY <1>6
    <3> HIDE DEF new
    <3> QED BY <1>7, <3>1
  <2>3. InBatch(t, n)'
    <3>1. batches'[n] = <<t>>
      BY <1>5, <1>6, <2>1, <2>2
    <3>2. 1 \in DOMAIN <<t>> /\ <<t>>[1] = t
      OBVIOUS
    <3> QED BY <3>1, <3>2 DEF InBatch
  <2>4. ASSUME NEW fk \in keys, fk.table = t, fk.references \in Table
        PROVE  \E m \in 1 .. n :
                 /\ InBatch(fk.references, m)'
                 /\ m = n => fk.deferrable \/ fk.references = t
    <3>1. CASE fk.references = t
      <4>1. n \in 1 .. n
        BY <1>7, <2>2
      <4> QED BY <2>3, <3>1, <4>1
    <3>2. CASE fk.references # t
      <4>1. fk.references \in Edges(t)
        BY <2>4, <3>2 DEF Edges
      <4>2. fk.references \in Table \ left
        BY <2>4, <4>1 DEF ReadyTables
      <4>3. PICK m \in 1 .. Len(batches) : Loadable(fk.references, m)
        BY <1>9, <4>2
      <4>4. InBatch(fk.references, m)'
        BY <1>8, <2>4, <4>3 DEF Loadable
      <4>5. m \in 1 .. n /\ m # n
        BY <1>7, <2>2
      <4> QED BY <4>4, <4>5
    <3> QED BY <3>1, <3>2
  <2>5. Loadable(t, n)'
    BY <1>1, <2>3, <2>4 DEF Loadable
  <2> QED BY <2>2, <2>5
<1>11. ASSUME NEW t \in Table \ left'
       PROVE  \E n \in DOMAIN batches' : Loadable(t, n)'
  <2>1. DOMAIN batches' = 1 .. Len(batches')
    BY <1>6
  <2>2. CASE t \in ReadyTables
    BY <1>10, <2>1, <2>2
  <2>3. CASE t \notin left
    BY <1>8, <1>9, <2>1, <2>3
  <2> QED BY <1>1, <2>2, <2>3
<1> QED BY <1>1, <1>6, <1>11 DEF BatchInvariant, TablesOK

LEMMA BatchCyclePreserves ==
  ASSUME BatchInvariant, BatchCycle
  PROVE  BatchInvariant'
<1>1. /\ left \subseteq Table /\ left' = {}
      /\ batches \in Seq(Seq(Table)) /\ Len(batches) \in Nat
      /\ keys' = keys /\ verdict' = "running"
  BY DEF BatchCycle, BatchInvariant, TablesOK
<1>2. PICK s \in Listed(left) : batches' = Append(batches, s)
  BY DEF BatchCycle
<1>3. s \in Seq(left) /\ \A t \in left : \E i \in 1 .. Len(s) : s[i] = t
  BY <1>1, <1>2, ListedIsSequence
<1>4. s \in Seq(Table)
  BY <1>1, <1>3
<1>0. PICK last \in Nat : last = Len(batches) + 1
  BY <1>1
<1>5. /\ batches' \in Seq(Seq(Table))
      /\ Len(batches') = last
      /\ \A n \in 1 .. Len(batches) : batches'[n] = batches[n]
      /\ batches'[last] = s
      /\ last \in 1 .. Len(batches')
  BY <1>1, <1>2, <1>4, <1>0
<1>6. /\ \A t \in Table, n \in 1 .. Len(batches) : InBatch(t, n) => InBatch(t, n)'
      /\ \A t \in Table, n \in 1 .. Len(batches) : Loadable(t, n) => Loadable(t, n)'
      /\ 1 .. Len(batches) \subseteq 1 .. Len(batches')
  BY <1>1, <1>5, <1>0, Extended DEF BatchInvariant
<1>7. ASSUME NEW t \in Table \ left
      PROVE  \E n \in 1 .. Len(batches) : Loadable(t, n)
  BY <1>1 DEF BatchInvariant
<1>8. \A t \in left : InBatch(t, last)'
  BY <1>3, <1>5 DEF InBatch
<1>9. ASSUME NEW t \in left
      PROVE  Loadable(t, last)'
  <2>1. ASSUME NEW fk \in keys, fk.table = t, fk.references \in Table
        PROVE  \E m \in 1 .. last : /\ InBatch(fk.references, m)'
                                    /\ m = last => fk.deferrable \/ fk.references = t
    <3>1. CASE fk.references \in left
      <4>1. fk.deferrable
        BY <2>1, <3>1 DEF BatchCycle, NonDeferrable
      <4>2. last \in 1 .. last
        BY <1>1, <1>0
      <4> QED BY <1>8, <3>1, <4>1, <4>2
    <3>2. CASE fk.references \notin left
      <4>1. PICK m \in 1 .. Len(batches) : Loadable(fk.references, m)
        BY <1>7, <2>1, <3>2
      <4>2. InBatch(fk.references, m)'
        BY <1>6, <2>1, <4>1 DEF Loadable
      <4>3. m \in 1 .. last /\ m # last
        BY <1>1, <1>0
      <4> QED BY <4>2, <4>3
    <3> QED BY <3>1, <3>2
  <2> QED BY <1>1, <1>8, <2>1 DEF Loadable
<1>10. ASSUME NEW t \in Table
       PROVE  \E n \in DOMAIN batches' : Loadable(t, n)'
  <2>1. DOMAIN batches' = 1 .. Len(batches')
    BY <1>5
  <2> QED BY <1>5, <1>6, <1>7, <1>9, <2>1
<1> QED BY <1>1, <1>5, <1>10 DEF BatchInvariant, TablesOK

LEMMA BatchInvariantHolds == TableSpec => []BatchInvariant
<1>1. TableInit => BatchInvariant
  <2> SUFFICES ASSUME TableInit PROVE BatchInvariant
    OBVIOUS
  <2>1. TablesOK
    BY TableAssumption DEF TableInit, TablesOK, TableAssumption
  <2> QED BY <2>1 DEF TableInit, BatchInvariant
<1>2. BatchInvariant /\ [TableNext]_tvars => BatchInvariant'
  <2> SUFFICES ASSUME BatchInvariant, [TableNext]_tvars PROVE BatchInvariant'
    OBVIOUS
  <2>1. CASE BatchReady
    BY <2>1, BatchReadyPreserves
  <2>2. CASE BatchCycle
    BY <2>2, BatchCyclePreserves
  <2>3. CASE RefuseTables \/ ReturnBatches \/ UNCHANGED tvars
    <3>1. keys' = keys /\ left' = left /\ batches' = batches
      BY <2>3 DEF RefuseTables, ReturnBatches, tvars
    <3>2. TablesOK' /\ (verdict' = "ordered" => left' = {})
      BY <2>3 DEF BatchInvariant, TablesOK, RefuseTables, ReturnBatches, tvars
    <3>3. \A t \in Table, n \in DOMAIN batches : Loadable(t, n)' <=> Loadable(t, n)
      BY <3>1 DEF Loadable, InBatch
    <3> QED BY <3>1, <3>2, <3>3 DEF BatchInvariant
  <2> QED BY <2>1, <2>2, <2>3 DEF TableNext
<1> QED BY <1>1, <1>2, PTL DEF TableSpec

(* Loading the returned batches in sequence violates no foreign key.       *)
THEOREM BatchesRespectForeignKeys == TableSpec => []ForeignKeysHold
<1>1. BatchInvariant => ForeignKeysHold
  BY DEF BatchInvariant, ForeignKeysHold, Loadable
<1> QED BY <1>1, BatchInvariantHolds, PTL
=============================================================================
