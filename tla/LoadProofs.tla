----------------------------- MODULE LoadProofs -----------------------------
(***************************************************************************)
(* Theorems about Load, for every mapping, batch size and bound.           *)
(***************************************************************************)
EXTENDS LoadInv, FiniteSetTheorems, SequenceTheorems, TLAPS

-----------------------------------------------------------------------------
(* Finite sets of documents.                                               *)

LEMMA DocsFinite == ASSUME NEW S \in SUBSET Doc
                    PROVE  IsFiniteSet(S) /\ Cardinality(S) \in Nat
<1>1. MaxDoc \in Nat
  BY ConstantsAssumption
<1>2. IsFiniteSet(Doc)
  BY <1>1, FS_Interval DEF Doc
<1>. QED
  BY <1>2, FS_Subset, FS_CardinalityType

LEMMA DrawnType == ASSUME NEW e \in Entity, NEW S \in SUBSET Doc
                   PROVE  Drawn(e, S) \in Nat
<1>1. {d \in S : Identity[e][d] # 0} \in SUBSET Doc
  OBVIOUS
<1>. QED
  BY <1>1, DocsFinite DEF Drawn

(* The last document of a batch is one of its documents.                   *)
LEMMA LastType == ASSUME batch \subseteq Doc, Control, pc \in Holding
                  PROVE  /\ Newest(batch) \in batch
                         /\ Newest(batch) \in Doc
                         /\ \A x \in batch : x <= Newest(batch)
BY DEF Control, Newest

LEMMA NewestIs ==
  ASSUME NEW S \in SUBSET Doc, NEW last \in S, \A x \in S : x <= last
  PROVE  Newest(S) = last
<1>1. \A d \in S : d \in Nat
  BY ConstantsAssumption DEF Doc
<1>2. \A d \in S : (\A x \in S : x <= d) => d = last
  BY <1>1
<1>3. Newest(S) \in S /\ \A x \in S : x <= Newest(S)
  BY DEF Newest
<1>. QED
  BY <1>2, <1>3

LEMMA LookupsType ==
  ASSUME NEW e \in Entity
  PROVE  /\ DOMAIN Lookups[e] = 1 .. Len(Lookups[e])
         /\ Len(Lookups[e]) \in Nat
         /\ \A k \in DOMAIN Lookups[e] : Lookups[e][k] \in [to : Entity, onMissing : Policies]
<1>1. Lookups[e] \in Seq([to : Entity, onMissing : Policies])
  BY ConstantsAssumption
<1>. QED
  BY <1>1, ElementOfSeq, LenProperties

LEMMA LookupType ==
  ASSUME TypeOK, NEW e \in Entity, NEW d \in Doc, NEW k \in DOMAIN Lookups[e]
  PROVE  Lookup(e, d, k) \in Key \cup {None}
<1>1. Reference[e][d][k] \in 0 .. MaxDoc
  BY ConstantsAssumption
<1>2. Reference[e][d][k] # 0 => Reference[e][d][k] \in Doc
  <2>1. MaxDoc \in Nat
    BY ConstantsAssumption
  <2>. QED
    BY <1>1, <2>1 DEF Doc
<1>3. Lookups[e][k].to \in Entity
  BY LookupsType
<1>4. snap[Lookups[e][k].to] \in [Doc -> Key \cup {None}]
  BY <1>3 DEF TypeOK
<1>. QED
  BY <1>2, <1>4 DEF Lookup

LEMMA NewKeyType ==
  ASSUME TypeOK, run.ns \in Namespace, NEW e \in Entity, NEW d \in Doc,
         NEW S \in SUBSET Doc
  PROVE  NewKey(e, d, S) \in Key
<1>1. Drawn(e, {x \in S : x <= d}) \in Nat
  BY DrawnType, {x \in S : x <= d} \in SUBSET Doc
<1>2. tx.seq[Target[e]] \in Nat /\ Identity[e][d] \in Nat
  BY ConstantsAssumption DEF TypeOK, Database, Table
<1>. QED
  BY <1>1, <1>2 DEF NewKey, Key

LEMMA NewRowType ==
  ASSUME TypeOK, run.ns \in Namespace, NEW e \in Entity, NEW d \in Doc,
         NEW S \in SUBSET Doc
  PROVE  NewRow(e, d, S) \in Row
<1>1. \A k \in DOMAIN Lookups[e] : Lookup(e, d, k) \in Key \cup {None}
  BY LookupType
<1>2. DOMAIN Lookups[e] = 1 .. Len(Lookups[e]) /\ Len(Lookups[e]) \in Nat
  BY LookupsType
<1>3. [k \in DOMAIN Lookups[e] |-> Lookup(e, d, k)] \in Seq(Key \cup {None})
  BY <1>1, <1>2
<1>4. NewKey(e, d, S) \in Key
  BY NewKeyType
<1>. QED
  BY <1>3, <1>4 DEF NewRow, Row

-----------------------------------------------------------------------------
(* What each statement does to the transaction, table by table.            *)

LEMMA TruncateEffect ==
  ASSUME TypeOK, TruncateTables
  PROVE  /\ tx' \in Database
         /\ Selected(run.only) = Entity =>
              \A e \in Entity : tx'.rows[e] = {} /\ tx'.children[e] = [d \in Doc |-> 0]
<1>. DEFINE tables == Emptied(run.only)
            rows == [e \in Entity |-> IF Target[e] \in tables THEN {} ELSE tx.rows[e]]
            children == [e \in Entity |-> IF e \in Selected(run.only) THEN [d \in Doc |-> 0]
                                          ELSE tx.children[e]]
            seq == [t \in Table |-> IF t \in tables /\ Serial(t) THEN 0 ELSE tx.seq[t]]
<1>1. tx \in Database
  BY DEF TypeOK
<1>2. tx' = [tx EXCEPT !.rows = rows, !.children = children, !.seq = seq]
  BY DEF TruncateTables
<1>3. /\ rows \in [Entity -> SUBSET Row]
      /\ children \in [Entity -> [Doc -> 0 .. 2]]
      /\ seq \in [Table -> Nat]
  BY <1>1 DEF Database
<1>4. Selected(run.only) = Entity =>
        \A e \in Entity : rows[e] = {} /\ children[e] = [d \in Doc |-> 0]
  BY DEF Emptied
<1>. HIDE DEF rows, children, seq
<1>. QED
  BY <1>1, <1>2, <1>3, <1>4 DEF Database

LEMMA ResetEffect ==
  ASSUME TypeOK, ResetCheckpoints
  PROVE  /\ tx' \in Database
         /\ tx'.rows = tx.rows /\ tx'.children = tx.children
         /\ \A e \in Entity : tx'.ckpt[e] = NoCheckpoint /\ tx'.dropped[e] = {}
<1>. DEFINE ckpt == [e \in Entity |-> NoCheckpoint]
            dropped == [e \in Entity |-> {}]
<1>1. tx \in Database
  BY DEF TypeOK
<1>2. tx' = [tx EXCEPT !.ckpt = ckpt, !.dropped = dropped]
  BY DEF ResetCheckpoints
<1>3. NoCheckpoint \in Checkpoint
  BY ConstantsAssumption DEF NoCheckpoint, Checkpoint
<1>4. ckpt \in [Entity -> Checkpoint] /\ dropped \in [Entity -> SUBSET Doc]
  BY <1>3
<1>5. \A e \in Entity : ckpt[e] = NoCheckpoint /\ dropped[e] = {}
  OBVIOUS
<1>. HIDE DEF ckpt, dropped
<1>. QED
  BY <1>1, <1>2, <1>4, <1>5 DEF Database

LEMMA ReadEffect ==
  ASSUME TypeOK, NEW last \in Doc, ReadBatch(last), cur \in Entity, batch' \subseteq Doc
  PROVE  /\ tx' \in Database
         /\ tx'.rows = tx.rows /\ tx'.children = tx.children /\ tx'.idmap = tx.idmap
         /\ tx'.ckpt = tx.ckpt /\ tx'.dropped = tx.dropped
         /\ tx'.seq = [tx.seq EXCEPT ![Target[cur]] =
                          IF Strategy[cur] \in Minted THEN @ + Drawn(cur, batch') ELSE @]
<1>. DEFINE next == IF Strategy[cur] \in Minted THEN tx.seq[Target[cur]] + Drawn(cur, batch')
                    ELSE tx.seq[Target[cur]]
<1>1. tx \in Database /\ Target[cur] \in Table
  BY DEF TypeOK, Table
<1>2. next \in Nat
  BY <1>1, DrawnType DEF Database
<1>3. tx' = [tx EXCEPT !.seq[Target[cur]] = next]
  BY <1>1 DEF ReadBatch, Database
<1>4. tx'.seq = [tx.seq EXCEPT ![Target[cur]] = next]
  BY <1>1, <1>3 DEF Database
<1>5. tx' \in Database
      /\ tx'.rows = tx.rows /\ tx'.children = tx.children /\ tx'.idmap = tx.idmap
      /\ tx'.ckpt = tx.ckpt /\ tx'.dropped = tx.dropped
  <2>. HIDE DEF next
  <2>. QED
    BY <1>1, <1>2, <1>3 DEF Database
<1>. QED
  BY <1>4, <1>5

LEMMA CopyEffect ==
  ASSUME TypeOK, CopyRows, cur \in Entity
  PROVE  /\ tx' \in Database
         /\ tx'.rows = [e \in Entity |-> Kept(e) \cup (IF e = cur THEN out ELSE {})]
         /\ tx'.children = [tx.children EXCEPT ![cur] = [d \in Doc |->
                IF d \in Sources(out) /\ @[d] < 2 THEN @[d] + 1 ELSE @[d]]]
         /\ tx'.idmap = tx.idmap /\ tx'.seq = tx.seq
         /\ tx'.ckpt = tx.ckpt /\ tx'.dropped = tx.dropped
<1>. DEFINE rows == [e \in Entity |-> Kept(e) \cup (IF e = cur THEN out ELSE {})]
            children == [d \in Doc |->
              IF d \in Sources(out) /\ tx.children[cur][d] < 2
              THEN tx.children[cur][d] + 1 ELSE tx.children[cur][d]]
<1>1. tx \in Database /\ out \subseteq Row
  BY DEF TypeOK
<1>2. rows \in [Entity -> SUBSET Row]
  BY <1>1 DEF Database, Kept
<1>3. children \in [Doc -> 0 .. 2]
  BY <1>1 DEF Database
<1>4. tx' = [tx EXCEPT !.rows = rows, !.children[cur] = children]
  BY <1>1 DEF CopyRows, Database
<1>5. tx'.rows = rows
      /\ tx'.children = [tx.children EXCEPT ![cur] = children]
  BY <1>1, <1>4 DEF Database
<1>6. tx' \in Database /\ tx'.idmap = tx.idmap /\ tx'.seq = tx.seq
      /\ tx'.ckpt = tx.ckpt /\ tx'.dropped = tx.dropped
  <2>. HIDE DEF rows, children
  <2>. QED
    BY <1>1, <1>2, <1>3, <1>4 DEF Database
<1>. QED
  BY <1>5, <1>6

LEMMA PutEffect ==
  ASSUME TypeOK, PutMany, cur \in Entity
  PROVE  /\ tx' \in Database
         /\ tx'.idmap = [tx.idmap EXCEPT ![cur] = MappedBatch(@)]
         /\ tx'.rows = tx.rows /\ tx'.children = tx.children /\ tx'.seq = tx.seq
         /\ tx'.ckpt = tx.ckpt /\ tx'.dropped = tx.dropped
<1>. DEFINE map == MappedBatch(tx.idmap[cur])
<1>1. tx \in Database /\ out \subseteq Row
  BY DEF TypeOK
<1>2. \A d \in Sources(out) : (CHOOSE r \in out : r.src = d).key \in Key
  BY <1>1 DEF Sources, Row
<1>3. map \in [Doc -> Key \cup {None}]
  BY <1>1, <1>2 DEF Database, MappedBatch
<1>4. tx' = [tx EXCEPT !.idmap[cur] = map]
  BY <1>1 DEF PutMany, Database, MappedBatch
<1>. HIDE DEF map
<1>5. tx' \in Database /\ tx'.idmap = [tx.idmap EXCEPT ![cur] = map]
      /\ tx'.rows = tx.rows /\ tx'.children = tx.children /\ tx'.seq = tx.seq
      /\ tx'.ckpt = tx.ckpt /\ tx'.dropped = tx.dropped
  BY <1>1, <1>3, <1>4 DEF Database
<1>. QED
  BY <1>5 DEF map

LEMMA AdvanceEffect ==
  ASSUME TypeOK, Control, AdvanceCheckpoint
  PROVE  /\ tx' \in Database
         /\ tx'.ckpt[cur].last = Newest(batch)
         /\ \A e \in Entity \ {cur} : tx'.ckpt[e] = tx.ckpt[e]
         /\ tx'.dropped = [tx.dropped EXCEPT ![cur] = @ \cup (batch \ Sources(out))]
         /\ tx'.rows = tx.rows /\ tx'.children = tx.children
         /\ tx'.idmap = tx.idmap /\ tx'.seq = tx.seq
<1>. DEFINE next == [last   |-> Newest(batch),
                     status |-> IF tx.ckpt[cur].status = "absent" THEN "in_progress"
                                ELSE tx.ckpt[cur].status,
                     loaded |-> tx.ckpt[cur].loaded + Cardinality(out)]
            dropped == tx.dropped[cur] \cup (batch \ Sources(out))
<1>1. tx \in Database /\ cur \in Entity /\ batch \subseteq Doc /\ Newest(batch) \in 0 .. MaxDoc
  BY LastType, ConstantsAssumption
  DEF TypeOK, Control, Scanning, Holding, Written, AdvanceCheckpoint, Step, Doc
<1>2. Cardinality(out) \in Nat
  BY FS_CardinalityType DEF Control
<1>3. next \in Checkpoint /\ next.last = Newest(batch)
  BY <1>1, <1>2 DEF Database, Checkpoint
<1>4. dropped \subseteq Doc
  BY <1>1 DEF Database
<1>5. tx' = [tx EXCEPT !.ckpt[cur] = next, !.dropped[cur] = dropped]
  BY <1>1 DEF AdvanceCheckpoint, Database
<1>6. tx'.dropped = [tx.dropped EXCEPT ![cur] = dropped]
  BY <1>1, <1>5 DEF Database
<1>7. tx' \in Database /\ tx'.ckpt = [tx.ckpt EXCEPT ![cur] = next]
      /\ tx'.rows = tx.rows /\ tx'.children = tx.children
      /\ tx'.idmap = tx.idmap /\ tx'.seq = tx.seq
  <2>. HIDE DEF next, dropped
  <2>. QED
    BY <1>1, <1>3, <1>4, <1>5 DEF Database
<1>8. tx.ckpt \in [Entity -> Checkpoint]
  BY <1>1 DEF Database
<1>. QED
  BY <1>1, <1>3, <1>6, <1>7, <1>8

LEMMA DoneEffect ==
  ASSUME TypeOK, MarkDone, cur \in Entity
  PROVE  /\ tx' \in Database
         /\ \A e \in Entity : tx'.ckpt[e].last = tx.ckpt[e].last
         /\ tx' = [tx EXCEPT !.ckpt = tx'.ckpt]
<1>. DEFINE next == [tx.ckpt[cur] EXCEPT !.status = "done"]
<1>1. tx \in Database
  BY DEF TypeOK
<1>2. next \in Checkpoint /\ next.last = tx.ckpt[cur].last
  BY <1>1 DEF Database, Checkpoint
<1>3. tx' = [tx EXCEPT !.ckpt[cur] = next]
  BY <1>1 DEF MarkDone, Database, Checkpoint
<1>4. tx.ckpt \in [Entity -> Checkpoint]
  BY <1>1 DEF Database
<1>. HIDE DEF next
<1>5. tx' \in Database /\ tx'.ckpt = [tx.ckpt EXCEPT ![cur] = next]
  BY <1>1, <1>2, <1>3 DEF Database
<1>6. tx' = [tx EXCEPT !.ckpt = tx'.ckpt]
  BY <1>1, <1>3 DEF Database
<1>. QED
  BY <1>2, <1>4, <1>5, <1>6

-----------------------------------------------------------------------------
(* Steps that keep the types.                                              *)

LEMMA EmptyDatabaseType == EmptyDatabase \in Database
BY ConstantsAssumption DEF EmptyDatabase, Database, EmptyMap, NoCheckpoint, Checkpoint

LEMMA EndType ==
  ASSUME TypeOK, NEW how \in {"ok", "failed", "refused", "killed"}, End(how),
         UNCHANGED <<mongo, db>>, kills' \in 0 .. MaxKills
  PROVE  TypeOK' /\ Control'
<1>1. NoRun \in Run
  BY ConstantsAssumption DEF NoRun, Run
<1>2. EmptySnap \in [Entity -> [Doc -> Key \cup {None}]]
  BY DEF EmptySnap, EmptyMap
<1>3. 0 \in 0 .. MaxDoc
  BY ConstantsAssumption
<1>4. TypeOK'
  BY <1>1, <1>2, <1>3 DEF TypeOK, End, CloseReader, mongo
<1>5. Control'
  BY FS_EmptySet DEF Control, End, CloseReader, Scanning, Holding, Written
<1>. QED
  BY <1>4, <1>5

LEMMA TypeInit == Init => TypeOK /\ Control
<1>. SUFFICES ASSUME Init PROVE TypeOK /\ Control
  OBVIOUS
<1>1. NoRun \in Run
  BY ConstantsAssumption DEF NoRun, Run
<1>2. EmptySnap \in [Entity -> [Doc -> Key \cup {None}]]
  BY DEF EmptySnap, EmptyMap
<1>3. 0 \in 0 .. MaxDoc /\ 0 \in 0 .. MaxKills
  BY ConstantsAssumption
<1>4. TypeOK
  BY <1>1, <1>2, <1>3, EmptyDatabaseType DEF TypeOK, Init
<1>5. Control
  BY FS_EmptySet DEF Control, Init, Scanning, Holding, Written
<1>. QED
  BY <1>4, <1>5

(* The rows built from a batch: as many as documents at most, all well     *)
(* formed.                                                                 *)
LEMMA OutType ==
  ASSUME TypeOK, Control, NEW last \in Doc, ReadBatch(last)
  PROVE  /\ batch' \subseteq Doc
         /\ last \in batch' /\ \A x \in batch' : x <= last
         /\ out' \subseteq Row
         /\ IsFiniteSet(out')
<1>1. cur \in Entity /\ run.ns \in Namespace
  BY DEF Control, ReadBatch, Step, Scanning, Holding, Written
<1>2. batch' \subseteq Doc /\ last \in batch' /\ \A x \in batch' : x <= last
  BY <1>1, ConstantsAssumption DEF ReadBatch, EndsBatch, UpTo, Unread, TypeOK, Doc
<1>. DEFINE loaded == {x \in batch' : Loads(cur, x)}
            row == [d \in loaded |-> NewRow(cur, d, batch')]
<1>3. out' = {NewRow(cur, d, batch') : d \in loaded}
  BY DEF ReadBatch
<1>4. out' \subseteq Row
  BY <1>1, <1>2, <1>3, NewRowType
<1>5. IsFiniteSet(loaded)
  BY <1>2, DocsFinite, loaded \in SUBSET Doc
<1>6. row \in Surjection(loaded, out')
  BY <1>3 DEF Surjection
<1>7. IsFiniteSet(out')
  BY <1>5, <1>6, FS_Surjection
<1>. QED
  BY <1>2, <1>4, <1>7

LEMMA TypeNext == TypeOK /\ Control /\ [Next]_vars => TypeOK' /\ Control'
<1>. SUFFICES ASSUME TypeOK, Control, [Next]_vars
              PROVE  TypeOK' /\ Control'
  OBVIOUS
<1>. USE DEF Holding, Scanning, Written
<1>1. ASSUME NEW c \in Commands, NEW ns \in Namespace, StartRun(c, ns)
      PROVE  TypeOK' /\ Control'
  <2>1. c.mode \in {"append", "upsert", "truncate"} /\ c.only \in SUBSET Entity
    BY ConstantsAssumption
  <2>2. run' \in Run /\ run'.ns \in Namespace
    BY <1>1, <2>1 DEF StartRun, Run, TypeOK
  <2>3. todo' \subseteq Entity
    BY <1>1, <2>1 DEF StartRun, Selected
  <2>4. TypeOK'
    BY <1>1, <2>2, <2>3 DEF StartRun, Step, TypeOK, mongo, reader
  <2>. QED
    BY <1>1, <2>2, <2>4 DEF StartRun, Step, Control, mongo, reader
<1>2. CASE TruncateTables
  <2>1. tx' \in Database
    BY <1>2, TruncateEffect
  <2>2. TypeOK'
    BY <1>2, <2>1 DEF TruncateTables, Step, TypeOK, mongo, reader
  <2>. QED
    BY <1>2, <2>2 DEF TruncateTables, Step, Control, mongo, reader
<1>3. CASE ResetCheckpoints
  <2>1. tx' \in Database
    BY <1>3, ResetEffect
  <2>2. TypeOK'
    BY <1>3, <2>1 DEF ResetCheckpoints, Step, TypeOK, mongo, reader
  <2>. QED
    BY <1>3, <2>2 DEF ResetCheckpoints, Step, Control, mongo, reader
<1>4. CASE CommitTruncate
  <2>1. TypeOK'
    BY <1>4 DEF CommitTruncate, Commit, Step, TypeOK, mongo, reader
  <2>. QED
    BY <1>4, <2>1 DEF CommitTruncate, Commit, Step, Control, mongo, reader
<1>5. ASSUME NEW e \in Entity, BeginEntity(e)
      PROVE  TypeOK' /\ Control'
  <2>1. snap' \in [Entity -> [Doc -> Key \cup {None}]]
    <3>1. tx.idmap \in [Entity -> [Doc -> Key \cup {None}]]
      BY DEF TypeOK, Database
    <3>2. EmptyMap \in [Doc -> Key \cup {None}]
      BY DEF EmptyMap
    <3>. QED
      BY <1>5, <3>1, <3>2 DEF BeginEntity
  <2>2. cursor' \in 0 .. MaxDoc /\ opened' \in 0 .. MaxDoc
    BY <1>5 DEF BeginEntity, TypeOK, Database, Checkpoint
  <2>3. TypeOK'
    BY <1>5, <2>1, <2>2 DEF BeginEntity, Step, TypeOK, mongo, reader
  <2>. QED
    BY <1>5, <2>3 DEF BeginEntity, Step, Control, mongo, reader
<1>6. ASSUME NEW last \in Doc, ReadBatch(last)
      PROVE  TypeOK' /\ Control'
  <2>1. /\ batch' \subseteq Doc
        /\ last \in batch' /\ \A x \in batch' : x <= last
        /\ out' \subseteq Row
        /\ IsFiniteSet(out')
    BY <1>6, OutType
  <2>2. cur \in Entity
    BY <1>6 DEF ReadBatch, Step, Control
  <2>4. tx' \in Database
    BY <1>6, <2>1, <2>2, ReadEffect
  <2>5. TypeOK'
    BY <1>6, <2>1, <2>4 DEF ReadBatch, Step, TypeOK, mongo, reader
  <2>. QED
    BY <1>6, <2>1, <2>5 DEF ReadBatch, Step, Control, mongo, reader
<1>7. CASE CopyRows
  <2>1. cur \in Entity /\ out \subseteq Row
    BY <1>7 DEF CopyRows, Step, Control, TypeOK
  <2>2. tx' \in Database
    BY <1>7, <2>1, CopyEffect
  <2>3. TypeOK'
    BY <1>7, <2>2 DEF CopyRows, Step, TypeOK, mongo, reader
  <2>. QED
    BY <1>7, <2>3 DEF CopyRows, Step, Control, mongo, reader
<1>8. CASE PutMany
  <2>1. cur \in Entity /\ out \subseteq Row
    BY <1>8 DEF PutMany, Step, Control, TypeOK
  <2>3. tx' \in Database
    BY <1>8, <2>1, PutEffect
  <2>4. TypeOK'
    BY <1>8, <2>3 DEF PutMany, Step, TypeOK, mongo, reader
  <2>. QED
    BY <1>8, <2>4 DEF PutMany, Step, Control, mongo, reader
<1>9. CASE AdvanceCheckpoint
  <2>3. tx' \in Database
    BY <1>9, AdvanceEffect
  <2>4. TypeOK'
    BY <1>9, <2>3 DEF AdvanceCheckpoint, Step, TypeOK, mongo, reader
  <2>. QED
    BY <1>9, <2>4 DEF AdvanceCheckpoint, Step, Control, mongo, reader
<1>10. CASE CommitBatch
  <2>1. Newest(batch) \in 0 .. MaxDoc
    BY <1>10, LastType DEF CommitBatch, Commit, Step, TypeOK, Doc
  <2>2. TypeOK'
    BY <1>10, <2>1 DEF CommitBatch, Commit, Step, TypeOK, mongo, reader
  <2>. QED
    BY <1>10, <2>2, FS_EmptySet DEF CommitBatch, Commit, Step, Control, mongo, reader
<1>11. CASE MarkDone
  <2>1. cur \in Entity
    BY <1>11 DEF MarkDone, Step, Control
  <2>2. tx' \in Database
    BY <1>11, <2>1, DoneEffect
  <2>3. TypeOK'
    BY <1>11, <2>2 DEF MarkDone, Step, TypeOK, mongo, reader
  <2>. QED
    BY <1>11, <2>3 DEF MarkDone, Step, Control, mongo, reader
<1>12. CASE CommitDone
  <2>1. EmptySnap \in [Entity -> [Doc -> Key \cup {None}]] /\ 0 \in 0 .. MaxDoc
    BY ConstantsAssumption DEF EmptySnap, EmptyMap
  <2>2. TypeOK'
    BY <1>12, <2>1 DEF CommitDone, Commit, CloseReader, Step, TypeOK, mongo
  <2>. QED
    BY <1>12, <2>2, FS_EmptySet DEF CommitDone, Commit, CloseReader, Step, Control, mongo
<1>13. CASE TruncateFails \/ CopyFails
  BY <1>13, EndType DEF TruncateFails, CopyFails, TypeOK
<1>14. CASE EndRun
  BY <1>14, EndType DEF EndRun, TypeOK
<1>15. ASSUME NEW e \in Entity, RefuseNamespace(e)
       PROVE  TypeOK' /\ Control'
  BY <1>15, EndType DEF RefuseNamespace, TypeOK
<1>16. ASSUME NEW last \in Doc, BatchFails(last)
       PROVE  TypeOK' /\ Control'
  BY <1>16, EndType DEF BatchFails, TypeOK
<1>17. CASE Kill
  <2>1. kills' \in 0 .. MaxKills
    BY <1>17, ConstantsAssumption DEF Kill, TypeOK
  <2>. QED
    BY <1>17, <2>1, EndType DEF Kill
<1>18. ASSUME NEW e \in Entity, InsertDoc(e)
       PROVE  TypeOK' /\ Control'
  <2>1. clock' \in [Entity -> 0 .. MaxDoc] /\ source' \in [Entity -> SUBSET Doc]
    BY <1>18, ConstantsAssumption DEF InsertDoc, TypeOK, Doc
  <2>2. TypeOK'
    BY <1>18, <2>1 DEF InsertDoc, TypeOK, reader
  <2>. QED
    BY <1>18, <2>2 DEF InsertDoc, Control, reader
<1>19. ASSUME NEW e \in Entity, NEW d \in Doc, DeleteDoc(e, d)
       PROVE  TypeOK' /\ Control'
  <2>1. TypeOK'
    BY <1>19 DEF DeleteDoc, TypeOK, reader
  <2>. QED
    BY <1>19, <2>1 DEF DeleteDoc, Control, reader
<1>20. CASE UNCHANGED vars
  BY <1>20 DEF vars, mongo, reader, TypeOK, Control
<1>. QED
  BY <1>1, <1>2, <1>3, <1>4, <1>5, <1>6, <1>7, <1>8, <1>9, <1>10, <1>11,
     <1>12, <1>13, <1>14, <1>15, <1>16, <1>17, <1>18, <1>19, <1>20
  DEF Next, Process, Operator, Environment

(* Every state of the loader is well formed.                               *)
THEOREM TypeCorrect == Spec => [](TypeOK /\ Control)
<1>. QED
  BY TypeInit, TypeNext, PTL DEF Spec

-----------------------------------------------------------------------------
(* The invariant at the points where the database, the batch and the       *)
(* transaction change.                                                     *)

(* Sound only speaks of the database and of what the source holds.         *)
LEMMA SoundKept ==
  ASSUME Sound(db), UNCHANGED <<source, clock, db>>
  PROVE  Sound(db)'
BY DEF Sound, Behind, Covered, Single, Mapped, Issued

LEMMA SoundEmptied ==
  ASSUME TypeOK, NEW D,
         \A e \in Entity : /\ D.rows[e] = {}
                           /\ D.children[e] = [d \in Doc |-> 0]
                           /\ D.ckpt[e] = NoCheckpoint
                           /\ D.dropped[e] = {}
  PROVE  Sound(D)
<1>. SUFFICES ASSUME NEW e \in Entity
              PROVE  Behind(D, e) /\ Covered(D, e) /\ Single(D, e) /\ Mapped(D, e)
  BY DEF Sound
<1>1. D.rows[e] = {} /\ D.children[e] = [d \in Doc |-> 0] /\ D.ckpt[e].last = 0
      /\ D.dropped[e] = {}
  BY DEF NoCheckpoint
<1>2. clock[e] \in Nat /\ 0 <= clock[e]
  BY ConstantsAssumption DEF TypeOK
<1>3. source[e] \subseteq Doc /\ \A d \in Doc : d \in Nat /\ ~(d <= 0)
  BY ConstantsAssumption DEF TypeOK, Doc
<1>4. Sources({}) = {}
  BY DEF Sources
<1>5. Behind(D, e)
  BY <1>1, <1>2, <1>4 DEF Behind
<1>6. Covered(D, e)
  BY <1>1, <1>3 DEF Covered
<1>7. Single(D, e) /\ Mapped(D, e)
  BY <1>1, <1>4 DEF Single, Mapped
<1>. QED
  BY <1>5, <1>6, <1>7

(* A new document is newer than every checkpoint and every batch.          *)
LEMMA InsertKeeps ==
  ASSUME LoadInvariant, NEW e \in Entity, InsertDoc(e)
  PROVE  Clocked' /\ Sound(db)' /\ BatchInv'
<1>. USE DEF LoadInvariant
<1>1. /\ clock \in [Entity -> 0 .. MaxDoc] /\ source \in [Entity -> SUBSET Doc]
      /\ clock' = [clock EXCEPT ![e] = @ + 1]
      /\ source' = [source EXCEPT ![e] = @ \cup {clock[e] + 1}]
      /\ UNCHANGED <<db, tx, pc, cur, cursor, batch, out>>
  BY DEF InsertDoc, TypeOK, reader
<1>2. \A f \in Entity : /\ clock[f] \in Nat /\ clock'[f] \in Nat /\ clock[f] <= clock'[f]
                        /\ \A d \in source'[f] : d \in source[f] \/ (d = clock'[f] /\ clock[f] < d)
                        /\ source[f] \subseteq Nat
  <2>. TAKE f \in Entity
  <2>1. clock[f] \in Nat /\ source[f] \subseteq Nat
    BY <1>1, ConstantsAssumption DEF Doc
  <2>2. CASE f = e
    BY <1>1, <2>1, <2>2
  <2>3. CASE f # e
    BY <1>1, <2>1, <2>3
  <2>. QED
    BY <2>2, <2>3
<1>3. Clocked'
  BY <1>2 DEF Clocked
<1>4. Sound(db)'
  <2>. SUFFICES ASSUME NEW f \in Entity
                PROVE  (Behind(db, f) /\ Covered(db, f) /\ Single(db, f) /\ Mapped(db, f))'
    BY DEF Sound
  <2>1. Behind(db, f) /\ Covered(db, f) /\ Single(db, f) /\ Mapped(db, f)
    BY DEF Sound
  <2>2. db.ckpt[f].last \in Nat
    BY ConstantsAssumption DEF TypeOK, Database, Checkpoint
  <2>3. Behind(db, f)' /\ Covered(db, f)'
    BY <1>1, <1>2, <2>1, <2>2 DEF Behind, Covered
  <2>4. Single(db, f)' /\ Mapped(db, f)'
    BY <1>1, <2>1 DEF Single, Mapped
  <2>. QED
    BY <2>3, <2>4
<1>5. BatchInv'
  <2>1. CASE pc \in Holding
    <3>1. cur \in Entity /\ batch \subseteq Nat /\ Newest(batch) \in batch /\ cursor \in Nat
      BY <2>1, LastType, ConstantsAssumption DEF Control, TypeOK, Scanning, Doc
    <3>2. Newest(batch') = Newest(batch)
      BY <1>1 DEF Newest
    <3>3. \A d \in batch : cursor < d /\ d <= clock'[cur]
      <4>1. \A d \in batch : cursor < d /\ d <= clock[cur]
        BY <2>1 DEF BatchInv
      <4>2. clock[cur] \in Nat /\ clock'[cur] \in Nat /\ clock[cur] <= clock'[cur]
        BY <1>2, <3>1
      <4>. DEFINE old == clock[cur]
                  new == clock'[cur]
      <4>3. /\ old \in Nat /\ new \in Nat /\ old <= new
            /\ \A d \in batch : cursor < d /\ d <= old
        BY <4>1, <4>2
      <4>. HIDE DEF LoadInvariant, old, new
      <4>4. \A d \in batch : cursor < d /\ d <= new
        BY <3>1, <4>3
      <4>. QED
        BY <4>4 DEF new
    <3>4. \A d \in source'[cur] : cursor < d /\ d <= Newest(batch) => d \in batch
      <4>1. Newest(batch) \in Nat /\ Newest(batch) <= clock[cur]
        BY <2>1, <3>1 DEF BatchInv
      <4>2. \A d \in source'[cur] : d <= Newest(batch) => d \in source[cur]
        BY <1>2, <3>1, <4>1
      <4>. QED
        BY <2>1, <4>2 DEF BatchInv
    <3>. QED
      BY <1>1, <2>1, <3>2, <3>3, <3>4 DEF BatchInv, Issued
  <2>2. CASE pc \notin Holding
    BY <1>1, <2>2 DEF BatchInv
  <2>. QED
    BY <2>1, <2>2
<1>. QED
  BY <1>3, <1>4, <1>5

LEMMA DeleteKeeps ==
  ASSUME LoadInvariant, NEW e \in Entity, NEW x \in Doc, DeleteDoc(e, x)
  PROVE  Clocked' /\ Sound(db)' /\ BatchInv'
<1>. USE DEF LoadInvariant
<1>1. /\ source' = [source EXCEPT ![e] = @ \ {x}]
      /\ UNCHANGED <<clock, db, tx, pc, cur, cursor, batch, out>>
  BY DEF DeleteDoc, reader
<1>2. \A f \in Entity : source'[f] \subseteq source[f]
  BY <1>1 DEF TypeOK
<1>3. Clocked' /\ Sound(db)'
  BY <1>1, <1>2 DEF Clocked, Sound, Behind, Covered, Single, Mapped
<1>4. Newest(batch') = Newest(batch)
  BY <1>1 DEF Newest
<1>5. BatchInv'
  BY <1>1, <1>2, <1>4 DEF BatchInv, Issued, Control, Scanning
<1>. QED
  BY <1>3, <1>5

(* A document that draws an id has drawn one by its turn.                  *)
LEMMA DrawnBounds ==
  ASSUME NEW e \in Entity, NEW S \in SUBSET Doc, NEW d \in S, Identity[e][d] # 0
  PROVE  1 <= Drawn(e, {x \in S : x <= d}) /\ Drawn(e, {x \in S : x <= d}) <= Drawn(e, S)
<1>. DEFINE all == {x \in S : Identity[e][x] # 0}
            part == {x \in {y \in S : y <= d} : Identity[e][x] # 0}
<1>1. /\ all \in SUBSET Doc /\ part \in SUBSET all /\ {d} \in SUBSET part
  <2>1. d <= d
    BY ConstantsAssumption DEF Doc
  <2>. QED
    BY <2>1
<1>2. IsFiniteSet(all) /\ IsFiniteSet(part)
  BY <1>1, DocsFinite
<1>3. Cardinality(part) <= Cardinality(all) /\ Cardinality({d}) <= Cardinality(part)
  BY <1>1, <1>2, FS_Subset
<1>4. Cardinality({d}) = 1
  BY FS_Singleton
<1>. QED
  BY <1>3, <1>4 DEF Drawn

(* Every row of a batch belongs to one of its documents, whose id it bears. *)
LEMMA OutRows ==
  ASSUME LoadInvariant, NEW last \in Doc, ReadBatch(last)
  PROVE  /\ Sources(out') \subseteq batch'
         /\ \A r, s \in out' : r.src = s.src => r = s
         /\ \A r \in out' : Issued(cur, r, tx'.seq[Target[cur]])
         /\ \A r \in out' : Strategy[cur] \in Minted => tx.seq[Target[cur]] < r.key[2]
<1>. USE DEF LoadInvariant
<1>1. cur \in Entity /\ batch' \subseteq Doc
  BY OutType DEF Control, ReadBatch, Step, Scanning
<1>2. \A r \in out' : /\ r.src \in batch' /\ Identity[cur][r.src] # 0
                      /\ r = NewRow(cur, r.src, batch')
  BY DEF ReadBatch, NewRow, Loads
<1>3. Target[cur] \in Table /\ tx.seq[Target[cur]] \in Nat /\ Drawn(cur, batch') \in Nat
  BY <1>1, DrawnType DEF TypeOK, Database, Table
<1>4. ASSUME NEW r \in out'
      PROVE  /\ Issued(cur, r, tx'.seq[Target[cur]])
             /\ Strategy[cur] \in Minted => tx.seq[Target[cur]] < r.key[2]
  <2>. DEFINE turn == Drawn(cur, {x \in batch' : x <= r.src})
  <2>1. r.key = NewKey(cur, r.src, batch') /\ r.src \in batch' /\ Identity[cur][r.src] # 0
    BY <1>2 DEF NewRow
  <2>2. CASE Strategy[cur] \in Minted
    <3>1. r.key[1] \in Minted /\ r.key[2] = tx.seq[Target[cur]] + turn
      BY <2>1, <2>2 DEF NewKey
    <3>2. tx'.seq[Target[cur]] = tx.seq[Target[cur]] + Drawn(cur, batch')
      BY <1>1, <1>3, <2>2, ReadEffect DEF TypeOK, Database
    <3>3. turn \in Nat /\ 1 <= turn /\ turn <= Drawn(cur, batch')
      BY <1>1, <2>1, DrawnBounds, DrawnType
    <3>. QED
      BY <1>3, <2>2, <3>1, <3>2, <3>3 DEF Issued
  <2>3. CASE Strategy[cur] \notin Minted
    <3>1. run.ns \in Namespace /\ run.ns \notin Minted /\ "passthrough" \notin Minted
      BY ConstantsAssumption DEF Control, ReadBatch, Step, Minted
    <3>2. r.key[1] \in {"passthrough", run.ns} /\ r.key[2] = Identity[cur][r.src]
      BY <2>1, <2>3 DEF NewKey
    <3>. QED
      BY <2>1, <2>3, <3>1, <3>2 DEF Issued
  <2>. QED
    BY <2>2, <2>3
<1>5. \A r, s \in out' : r.src = s.src => r = s
  BY <1>2
<1>. QED
  BY <1>2, <1>4, <1>5 DEF Sources

LEMMA ReadKeeps ==
  ASSUME LoadInvariant, NEW last \in Doc, ReadBatch(last)
  PROVE  BatchInv' /\ TransactionInv'
<1>. USE DEF LoadInvariant
<1>1. /\ pc = "scan" /\ pc' = "copy" /\ cur \in Entity /\ tx = db
      /\ cursor = db.ckpt[cur].last
      /\ UNCHANGED <<source, clock, db, cur, cursor>>
  BY DEF ReadBatch, Step, Control, BatchInv, TransactionInv, Scanning, reader, mongo
<1>2. /\ batch' \subseteq Doc
      /\ last \in batch' /\ \A x \in batch' : x <= last
  BY OutType
<1>3. batch' = {d \in source[cur] : d > cursor /\ d <= last}
  BY DEF ReadBatch, UpTo, Unread
<1>4. Newest(batch') = last
  BY <1>2, NewestIs
<1>5. /\ tx'.rows = db.rows /\ tx'.children = db.children /\ tx'.idmap = db.idmap
      /\ tx'.ckpt = db.ckpt /\ tx'.dropped = db.dropped
      /\ tx'.seq = [db.seq EXCEPT ![Target[cur]] =
                       IF Strategy[cur] \in Minted THEN @ + Drawn(cur, batch') ELSE @]
  BY <1>1, <1>2, ReadEffect
<1>6. db.seq \in [Table -> Nat] /\ Drawn(cur, batch') \in Nat
  BY <1>1, <1>2, DrawnType DEF TypeOK, Database
<1>7. \A t \in Table : db.seq[t] <= tx'.seq[t]
  BY <1>5, <1>6
<1>8. \A d \in batch' : cursor < d /\ d <= clock[cur]
  BY <1>1, <1>3, ConstantsAssumption DEF Clocked, TypeOK, Doc
<1>9. BatchInv'
  BY <1>1, <1>3, <1>4, <1>7, <1>8, OutRows DEF BatchInv, Issued
<1>10. TransactionInv'
  BY <1>1, <1>5 DEF TransactionInv, Written
<1>. QED
  BY <1>9, <1>10

(* No row already stored has the key of a row about to be written, and no  *)
(* document of the batch has children yet.                                 *)
LEMMA CopyIsNew ==
  ASSUME LoadInvariant, DistinctIdentities, CopyRows
  PROVE  /\ \A e \in Entity : Kept(e) = tx.rows[e]
         /\ \A d \in Sources(out) : tx.children[cur][d] = 0
<1>. USE DEF LoadInvariant
<1>1. /\ pc = "copy" /\ cur \in Entity
      /\ tx.rows = db.rows /\ tx.children = db.children
      /\ cursor = db.ckpt[cur].last
      /\ \A d \in Sources(out) : d \in batch /\ cursor < d
  BY DEF CopyRows, Step, Control, BatchInv, TransactionInv, Scanning, Holding, Written
<1>2. /\ cursor \in Nat /\ batch \subseteq Nat /\ out \subseteq Row
      /\ \A e \in Entity : db.rows[e] \subseteq Row
      /\ Target[cur] \in Table /\ db.seq[Target[cur]] \in Nat
  BY <1>1, ConstantsAssumption DEF TypeOK, Database, Doc, Table
<1>3. Behind(db, cur) /\ Single(db, cur)
  BY <1>1 DEF Sound
<1>4. \A r \in db.rows[cur] : r.src <= cursor
  BY <1>1, <1>3 DEF Behind, Sources
<1>5. \A s \in out : cursor < s.src
  BY <1>1 DEF Sources
<1>6. ASSUME NEW e \in Entity, Target[e] = Target[cur],
             NEW r \in db.rows[e], NEW s \in out, r.key = s.key
      PROVE  FALSE
  <2>1. r.src \in Nat /\ s.src \in Nat /\ r.src \in Doc /\ s.src \in Doc
        /\ r.key[2] \in Nat /\ s.key[2] \in Nat
    BY <1>2, ConstantsAssumption DEF Row, Doc, Key
  <2>2. Issued(e, r, db.seq[Target[cur]]) /\ Issued(cur, s, tx.seq[Target[cur]])
    <3>1. Mapped(db, e)
      BY DEF Sound
    <3>. QED
      BY <1>1, <1>6, <3>1 DEF Mapped, BatchInv, Holding
  <2>3. CASE Strategy[cur] \in Minted /\ Strategy[e] \in Minted
    <3>1. r.key[2] <= db.seq[Target[cur]] /\ db.seq[Target[cur]] < s.key[2]
      BY <1>1, <2>2, <2>3 DEF Issued, BatchInv, Holding
    <3>. QED
      BY <1>2, <1>6, <2>1, <3>1
  <2>4. CASE Strategy[cur] \notin Minted /\ Strategy[e] \notin Minted
    <3>1. Identity[e][r.src] = Identity[cur][s.src] /\ Identity[e][r.src] # 0
      BY <1>6, <2>2, <2>4 DEF Issued
    <3>2. e = cur /\ r.src = s.src
      BY <1>1, <1>6, <2>1, <2>4, <3>1 DEF DistinctIdentities
    <3>. QED
      BY <1>2, <1>4, <1>5, <2>1, <3>2
  <2>5. CASE (Strategy[cur] \in Minted) # (Strategy[e] \in Minted)
    BY <1>6, <2>2, <2>5 DEF Issued
  <2>. QED
    BY <2>3, <2>4, <2>5
<1>7. ASSUME NEW d \in Sources(out)
      PROVE  db.children[cur][d] = 0
  <2>1. d \in Doc /\ d \in Nat /\ cursor < d
    BY <1>1, <1>2 DEF TypeOK
  <2>2. d \notin Sources(db.rows[cur])
    BY <1>1, <1>2, <1>4, <2>1, ConstantsAssumption DEF Sources, Row, Doc
  <2>. QED
    BY <1>3, <2>1, <2>2 DEF Single
<1>8. \A e \in Entity : Kept(e) = tx.rows[e]
  BY <1>1, <1>6 DEF Kept, Keys
<1>. QED
  BY <1>1, <1>7, <1>8

LEMMA CopyKeeps ==
  ASSUME LoadInvariant, DistinctIdentities, CopyRows
  PROVE  BatchInv' /\ TransactionInv'
<1>. USE DEF LoadInvariant
<1>1. /\ pc = "copy" /\ pc' = "idmap" /\ cur \in Entity
      /\ tx.rows = db.rows /\ tx.children = db.children
      /\ UNCHANGED <<source, clock, db, cur, cursor, batch, out>>
  BY DEF CopyRows, Step, Control, TransactionInv, Scanning, Holding, Written, reader, mongo
<1>2. /\ tx'.rows = [e \in Entity |-> Kept(e) \cup (IF e = cur THEN out ELSE {})]
      /\ tx'.children = [tx.children EXCEPT ![cur] = [d \in Doc |->
             IF d \in Sources(out) /\ @[d] < 2 THEN @[d] + 1 ELSE @[d]]]
      /\ tx'.idmap = tx.idmap /\ tx'.seq = tx.seq
      /\ tx'.ckpt = tx.ckpt /\ tx'.dropped = tx.dropped
  BY <1>1, CopyEffect
<1>3. \A e \in Entity : Kept(e) = db.rows[e]
  BY <1>1, CopyIsNew
<1>4. [d \in Doc |-> IF d \in Sources(out) /\ tx.children[cur][d] < 2
                     THEN tx.children[cur][d] + 1 ELSE tx.children[cur][d]]
      = [d \in Doc |-> IF d \in Sources(out) THEN 1 ELSE tx.children[cur][d]]
  BY CopyIsNew
<1>5. tx'.rows = [db.rows EXCEPT ![cur] = @ \cup out]
  <2>1. db.rows \in [Entity -> SUBSET Row]
    BY DEF TypeOK, Database
  <2>2. [db.rows EXCEPT ![cur] = @ \cup out]
          = [e \in Entity |-> db.rows[e] \cup (IF e = cur THEN out ELSE {})]
    BY <2>1
  <2>. QED
    BY <1>2, <1>3, <2>2
<1>6. tx'.children = [db.children EXCEPT ![cur] =
                        [d \in Doc |-> IF d \in Sources(out) THEN 1 ELSE @[d]]]
  BY <1>1, <1>2, <1>4
<1>7. BatchInv'
  BY <1>1, <1>2 DEF BatchInv, Issued, Holding, Scanning, Written
<1>8. TransactionInv'
  BY <1>1, <1>2, <1>5, <1>6 DEF TransactionInv, Holding, Written
<1>. QED
  BY <1>7, <1>8

LEMMA PutKeeps ==
  ASSUME LoadInvariant, PutMany
  PROVE  BatchInv' /\ TransactionInv'
<1>. USE DEF LoadInvariant
<1>1. /\ pc = "idmap" /\ pc' = "advance" /\ cur \in Entity
      /\ UNCHANGED <<source, clock, db, cur, cursor, batch, out>>
  BY DEF PutMany, Step, Control, Scanning, Holding, Written, reader, mongo
<1>2. /\ tx'.idmap = [tx.idmap EXCEPT ![cur] = MappedBatch(@)]
      /\ tx'.rows = tx.rows /\ tx'.children = tx.children /\ tx'.seq = tx.seq
      /\ tx'.ckpt = tx.ckpt /\ tx'.dropped = tx.dropped
  BY <1>1, PutEffect
<1>3. MappedBatch(db.idmap[cur])' = MappedBatch(db.idmap[cur])
  BY <1>1 DEF MappedBatch
<1>4. BatchInv'
  BY <1>1, <1>2 DEF BatchInv, Issued, Holding, Scanning, Written
<1>5. TransactionInv'
  BY <1>1, <1>2, <1>3 DEF TransactionInv, Holding, Written
<1>. QED
  BY <1>4, <1>5

LEMMA AdvanceKeeps ==
  ASSUME LoadInvariant, AdvanceCheckpoint
  PROVE  BatchInv' /\ TransactionInv'
<1>. USE DEF LoadInvariant
<1>1. /\ pc = "advance" /\ pc' = "commit_batch" /\ cur \in Entity
      /\ UNCHANGED <<source, clock, db, cur, cursor, batch, out>>
  BY DEF AdvanceCheckpoint, Step, Control, Scanning, Holding, Written, reader, mongo
<1>2. /\ tx'.ckpt[cur].last = Newest(batch)
      /\ \A e \in Entity \ {cur} : tx'.ckpt[e] = tx.ckpt[e]
      /\ tx'.dropped = [tx.dropped EXCEPT ![cur] = @ \cup (batch \ Sources(out))]
      /\ tx'.rows = tx.rows /\ tx'.children = tx.children
      /\ tx'.idmap = tx.idmap /\ tx'.seq = tx.seq
  BY AdvanceEffect
<1>3. MappedBatch(db.idmap[cur])' = MappedBatch(db.idmap[cur])
  BY <1>1 DEF MappedBatch
<1>4. BatchInv'
  BY <1>1, <1>2 DEF BatchInv, Issued, Holding, Scanning, Written
<1>5. TransactionInv'
  BY <1>1, <1>2, <1>3 DEF TransactionInv, Holding, Written
<1>. QED
  BY <1>4, <1>5

(* What a batch commits is sound: the checkpoint has moved past the batch, *)
(* which holds all the source held up to there.                            *)
LEMMA SoundBatch ==
  ASSUME LoadInvariant, pc = "commit_batch"
  PROVE  Sound(tx)
<1>. USE DEF LoadInvariant
<1>1. cur \in Entity
  BY DEF Control, Scanning, Holding, Written
<1>2. /\ tx.rows = [db.rows EXCEPT ![cur] = @ \cup out]
      /\ tx.children = [db.children EXCEPT ![cur] =
                          [d \in Doc |-> IF d \in Sources(out) THEN 1 ELSE @[d]]]
      /\ tx.idmap = [db.idmap EXCEPT ![cur] = MappedBatch(@)]
      /\ tx.dropped = [db.dropped EXCEPT ![cur] = @ \cup (batch \ Sources(out))]
      /\ tx.ckpt[cur].last = Newest(batch)
      /\ \A e \in Entity \ {cur} : tx.ckpt[e] = db.ckpt[e]
  BY DEF TransactionInv, Holding, Written
<1>3. /\ cursor = db.ckpt[cur].last
      /\ \A d \in batch : cursor < d /\ d <= clock[cur]
      /\ \A d \in source[cur] : cursor < d /\ d <= Newest(batch) => d \in batch
      /\ Sources(out) \subseteq batch
      /\ \A r, s \in out : r.src = s.src => r = s
      /\ \A r \in out : Issued(cur, r, tx.seq[Target[cur]])
      /\ \A t \in Table : db.seq[t] <= tx.seq[t]
  BY DEF BatchInv, Scanning, Holding, Written
<1>4. /\ db.rows \in [Entity -> SUBSET Row] /\ db.children \in [Entity -> [Doc -> 0 .. 2]]
      /\ db.idmap \in [Entity -> [Doc -> Key \cup {None}]]
      /\ db.dropped \in [Entity -> SUBSET Doc]
      /\ db.seq \in [Table -> Nat] /\ tx.seq \in [Table -> Nat]
      /\ \A e \in Entity : Target[e] \in Table
      /\ out \subseteq Row /\ batch \subseteq Doc /\ clock \in [Entity -> 0 .. MaxDoc]
      /\ source \in [Entity -> SUBSET Doc] /\ cursor \in 0 .. MaxDoc
  BY DEF TypeOK, Database, Table
<1>5. /\ Newest(batch) \in batch
      /\ \A d \in batch : d <= Newest(batch)
  BY <1>4, LastType DEF Holding, Written
<1>6. ASSUME NEW e \in Entity \ {cur}
      PROVE  Behind(tx, e) /\ Covered(tx, e) /\ Single(tx, e) /\ Mapped(tx, e)
  <2>1. /\ tx.rows[e] = db.rows[e] /\ tx.children[e] = db.children[e]
        /\ tx.idmap[e] = db.idmap[e] /\ tx.dropped[e] = db.dropped[e]
        /\ tx.ckpt[e] = db.ckpt[e]
    BY <1>1, <1>2, <1>4
  <2>2. Behind(db, e) /\ Covered(db, e) /\ Single(db, e) /\ Mapped(db, e)
    BY DEF Sound
  <2>3. ASSUME NEW r \in db.rows[e]
        PROVE  Issued(e, r, tx.seq[Target[e]])
    <3>1. Issued(e, r, db.seq[Target[e]])
      BY <2>2 DEF Mapped
    <3>2. /\ r.key[2] \in Nat /\ db.seq[Target[e]] \in Nat /\ tx.seq[Target[e]] \in Nat
          /\ db.seq[Target[e]] <= tx.seq[Target[e]]
      BY <1>3, <1>4 DEF Row, Key
    <3>. QED
      BY <3>1, <3>2 DEF Issued
  <2>4. Mapped(tx, e)
    BY <2>1, <2>2, <2>3 DEF Mapped
  <2>. QED
    BY <2>1, <2>2, <2>4 DEF Behind, Covered, Single
<1>7. /\ Behind(db, cur) /\ Covered(db, cur) /\ Single(db, cur) /\ Mapped(db, cur)
  BY <1>1 DEF Sound
<1>8. /\ tx.rows[cur] = db.rows[cur] \cup out
      /\ tx.dropped[cur] = db.dropped[cur] \cup (batch \ Sources(out))
      /\ tx.children[cur] = [d \in Doc |-> IF d \in Sources(out) THEN 1
                                           ELSE db.children[cur][d]]
      /\ tx.idmap[cur] = MappedBatch(db.idmap[cur])
  BY <1>1, <1>2, <1>4
<1>9. Sources(tx.rows[cur]) = Sources(db.rows[cur]) \cup Sources(out)
  BY <1>8 DEF Sources
<1>10. Sources(tx.rows[cur]) \cup tx.dropped[cur]
         = Sources(db.rows[cur]) \cup db.dropped[cur] \cup batch
  BY <1>3, <1>8, <1>9
<1>11. batch \subseteq Nat /\ cursor \in Nat /\ clock[cur] \in Nat /\ source[cur] \subseteq Nat
       /\ Sources(db.rows[cur]) \subseteq Nat /\ db.dropped[cur] \subseteq Nat
  BY <1>1, <1>4, ConstantsAssumption DEF Doc, Sources, Row
<1>12. Behind(tx, cur)
  <2>1. \A d \in Sources(db.rows[cur]) \cup db.dropped[cur] : d <= cursor
    BY <1>3, <1>7 DEF Behind
  <2>2. cursor < Newest(batch) /\ Newest(batch) <= clock[cur] /\ Newest(batch) \in Nat
    BY <1>3, <1>5, <1>11
  <2>. QED
    <3>1. \A d \in Sources(db.rows[cur]) \cup db.dropped[cur] \cup batch :
            d <= Newest(batch)
      BY <1>5, <1>11, <2>1, <2>2
    <3>. QED
      BY <1>2, <1>10, <2>2, <3>1 DEF Behind
<1>13. Covered(tx, cur)
  <2>. SUFFICES ASSUME NEW d \in source[cur], d <= Newest(batch)
                PROVE  d \in Sources(db.rows[cur]) \cup db.dropped[cur] \cup batch
    BY <1>2, <1>10 DEF Covered
  <2>1. CASE d <= cursor
    BY <1>3, <1>7, <2>1 DEF Covered
  <2>2. CASE cursor < d
    BY <1>3, <2>2
  <2>. QED
    BY <1>11, <2>1, <2>2
<1>14. \A r \in db.rows[cur], s \in out : r.src # s.src
  <2>1. \A r \in db.rows[cur] : r.src \in Nat /\ r.src <= cursor
    BY <1>3, <1>7, <1>11 DEF Behind, Sources
  <2>2. \A s \in out : s.src \in Nat /\ cursor < s.src
    BY <1>3, <1>11 DEF Sources
  <2>. QED
    BY <1>11, <2>1, <2>2
<1>15. Single(tx, cur)
  <2>1. \A r, s \in tx.rows[cur] : r.src = s.src => r = s
    BY <1>3, <1>7, <1>8, <1>14 DEF Single
  <2>2. \A d \in Doc : tx.children[cur][d] = IF d \in Sources(tx.rows[cur]) THEN 1 ELSE 0
    BY <1>7, <1>8, <1>9 DEF Single
  <2>. QED
    BY <2>1, <2>2 DEF Single
<1>16. Mapped(tx, cur)
  <2>. SUFFICES ASSUME NEW r \in tx.rows[cur]
                PROVE  tx.idmap[cur][r.src] = r.key /\ Issued(cur, r, tx.seq[Target[cur]])
    BY DEF Mapped
  <2>1. r.src \in Doc /\ r \in Row
    BY <1>1, <1>4, <1>8 DEF Row
  <2>2. CASE r \in out
    <3>1. r.src \in Sources(out)
      BY <2>2 DEF Sources
    <3>2. (CHOOSE s \in out : s.src = r.src) = r
      BY <1>3, <2>2
    <3>. QED
      BY <1>3, <1>8, <2>1, <2>2, <3>1, <3>2 DEF MappedBatch
  <2>3. CASE r \in db.rows[cur]
    <3>1. r.src \notin Sources(out)
      BY <1>14, <2>3 DEF Sources
    <3>2. db.idmap[cur][r.src] = r.key /\ Issued(cur, r, db.seq[Target[cur]])
      BY <1>7, <2>3 DEF Mapped
    <3>3. r.key[2] \in Nat /\ db.seq[Target[cur]] \in Nat /\ tx.seq[Target[cur]] \in Nat
          /\ db.seq[Target[cur]] <= tx.seq[Target[cur]]
      BY <1>1, <1>3, <1>4, <2>1 DEF Row, Key
    <3>4. Issued(cur, r, tx.seq[Target[cur]])
      BY <1>3, <3>2, <3>3 DEF Issued
    <3>. QED
      BY <1>8, <2>1, <3>1, <3>2, <3>4 DEF MappedBatch
  <2>. QED
    BY <1>8, <2>2, <2>3
<1>. QED
  BY <1>6, <1>12, <1>13, <1>15, <1>16 DEF Sound

LEMMA CommitBatchKeeps ==
  ASSUME LoadInvariant, CommitBatch
  PROVE  Sound(db)' /\ BatchInv' /\ TransactionInv'
<1>. USE DEF LoadInvariant
<1>1. /\ pc = "commit_batch" /\ pc' = "scan" /\ db' = tx /\ tx' = tx
      /\ cursor' = Newest(batch)
      /\ UNCHANGED <<source, clock, cur>>
  BY DEF CommitBatch, Commit, Step, mongo
<1>2. Sound(db)'
  BY <1>1, SoundBatch DEF Sound, Behind, Covered, Single, Mapped
<1>3. tx.ckpt[cur].last = Newest(batch)
  BY <1>1 DEF TransactionInv, Holding, Written
<1>4. BatchInv'
  BY <1>1, <1>3 DEF BatchInv, Holding, Written
<1>5. TransactionInv'
  BY <1>1 DEF TransactionInv, Holding, Written
<1>. QED
  BY <1>2, <1>4, <1>5

LEMMA CommitDoneKeeps ==
  ASSUME LoadInvariant, CommitDone
  PROVE  Sound(db)' /\ BatchInv' /\ TransactionInv'
<1>. USE DEF LoadInvariant
<1>1. /\ pc = "commit_done" /\ pc' = "entity" /\ db' = tx /\ tx' = tx
      /\ UNCHANGED <<source, clock>>
  BY DEF CommitDone, Commit, Step, mongo
<1>2. /\ \A e \in Entity : tx.ckpt[e].last = db.ckpt[e].last
      /\ tx = [db EXCEPT !.ckpt = tx.ckpt]
  BY <1>1 DEF TransactionInv
<1>3. /\ tx.rows = db.rows /\ tx.children = db.children /\ tx.idmap = db.idmap
      /\ tx.dropped = db.dropped /\ tx.seq = db.seq
  BY <1>2 DEF TypeOK, Database
<1>4. Sound(db)'
  BY <1>1, <1>2, <1>3 DEF Sound, Behind, Covered, Single, Mapped
<1>5. BatchInv' /\ TransactionInv'
  BY <1>1 DEF BatchInv, TransactionInv, Scanning, Holding, Written
<1>. QED
  BY <1>4, <1>5

LEMMA EndKeeps ==
  ASSUME LoadInvariant, NEW how, End(how), UNCHANGED <<source, clock, db>>
  PROVE  Sound(db)' /\ BatchInv' /\ TransactionInv'
<1>1. Sound(db)'
  BY SoundKept DEF LoadInvariant
<1>2. BatchInv' /\ TransactionInv'
  BY DEF End, BatchInv, TransactionInv, Scanning, Holding, Written
<1>. QED
  BY <1>1, <1>2

-----------------------------------------------------------------------------
(* The invariant is inductive.                                             *)

LEMMA InvariantInit == Init => LoadInvariant
<1>. SUFFICES ASSUME Init PROVE LoadInvariant
  OBVIOUS
<1>1. TypeOK /\ Control
  BY TypeInit
<1>2. Sound(db)
  <2>1. \A e \in Entity : /\ db.rows[e] = {} /\ db.children[e] = [d \in Doc |-> 0]
                          /\ db.ckpt[e] = NoCheckpoint /\ db.dropped[e] = {}
    BY DEF Init, EmptyDatabase
  <2>. QED
    BY <1>1, <2>1, SoundEmptied
<1>3. Clocked /\ BatchInv /\ TransactionInv
  BY DEF Init, Clocked, BatchInv, TransactionInv, Scanning, Holding, Written
<1>. QED
  BY <1>1, <1>2, <1>3 DEF LoadInvariant

LEMMA InvariantNext ==
  ASSUME WholeTruncates, DistinctIdentities, LoadInvariant, [Next]_vars
  PROVE  LoadInvariant'
<1>1. TypeOK' /\ Control'
  BY TypeNext DEF LoadInvariant
<1>. DEFINE Rest == Clocked /\ Sound(db) /\ BatchInv /\ TransactionInv
<1>. SUFFICES Rest'
  BY <1>1 DEF LoadInvariant
<1>. USE DEF LoadInvariant
<1>2. ASSUME UNCHANGED <<source, clock>>
      PROVE  Clocked'
  BY <1>2 DEF Clocked
<1>3. ASSUME NEW how, End(how), UNCHANGED <<mongo, db>>
      PROVE  Rest'
  BY <1>2, <1>3, EndKeeps DEF mongo
<1>4. ASSUME NEW c \in Commands, NEW ns \in Namespace, StartRun(c, ns)
      PROVE  Rest'
  <2>1. /\ pc = "idle" /\ UNCHANGED <<source, clock, db, tx>>
        /\ run'.only = c.only /\ pc' \in {"truncate", "entity"}
        /\ pc' = "truncate" => c.mode = "truncate"
    BY <1>4 DEF StartRun, Step, mongo
  <2>2. pc' = "truncate" => Starts(run.only)'
    BY <2>1 DEF WholeTruncates, Starts, TruncateAllowed, Emptied, Selected
  <2>3. BatchInv' /\ TransactionInv'
    BY <2>1, <2>2 DEF BatchInv, TransactionInv, Scanning, Holding, Written
  <2>. QED
    BY <1>2, <2>1, <2>3, SoundKept
<1>5. CASE TruncateTables
  <2>1. /\ pc = "truncate" /\ pc' = "reset" /\ UNCHANGED <<source, clock, db>>
    BY <1>5 DEF TruncateTables, Step, mongo
  <2>2. \A e \in Entity : tx'.rows[e] = {} /\ tx'.children[e] = [d \in Doc |-> 0]
    BY <1>5, <2>1, TruncateEffect DEF TransactionInv, Starts, TruncateTables
  <2>3. BatchInv' /\ TransactionInv'
    BY <2>1, <2>2 DEF BatchInv, TransactionInv, Scanning, Holding, Written
  <2>. QED
    BY <1>2, <2>1, <2>3, SoundKept
<1>6. CASE ResetCheckpoints
  <2>1. /\ pc = "reset" /\ pc' = "commit_truncate" /\ UNCHANGED <<source, clock, db>>
    BY <1>6 DEF ResetCheckpoints, Step, mongo
  <2>2. BatchInv' /\ TransactionInv'
    BY <1>6, <2>1, ResetEffect DEF BatchInv, TransactionInv, Scanning, Holding, Written
  <2>. QED
    BY <1>2, <2>1, <2>2, SoundKept
<1>7. CASE CommitTruncate
  <2>1. /\ pc = "commit_truncate" /\ pc' = "entity" /\ db' = tx /\ tx' = tx
        /\ UNCHANGED <<source, clock>>
    BY <1>7 DEF CommitTruncate, Commit, Step, mongo
  <2>2. Sound(tx)
    BY <2>1, SoundEmptied DEF TransactionInv
  <2>3. Sound(db)'
    BY <2>1, <2>2 DEF Sound, Behind, Covered, Single, Mapped
  <2>4. BatchInv' /\ TransactionInv'
    BY <2>1 DEF BatchInv, TransactionInv, Scanning, Holding, Written
  <2>. QED
    BY <1>2, <2>1, <2>3, <2>4
<1>8. ASSUME NEW e \in Entity, BeginEntity(e)
      PROVE  Rest'
  <2>1. /\ pc = "entity" /\ pc' = "scan" /\ cur' = e /\ cursor' = tx.ckpt[e].last
        /\ UNCHANGED <<source, clock, db, tx>>
    BY <1>8 DEF BeginEntity, Step, mongo
  <2>2. BatchInv' /\ TransactionInv'
    BY <2>1 DEF BatchInv, TransactionInv, Scanning, Holding, Written
  <2>. QED
    BY <1>2, <2>1, <2>2, SoundKept
<1>9. ASSUME NEW last \in Doc, ReadBatch(last)
      PROVE  Rest'
  <2>1. UNCHANGED <<source, clock, db>>
    BY <1>9 DEF ReadBatch, mongo
  <2>. QED
    BY <1>2, <1>9, <2>1, ReadKeeps, SoundKept
<1>10. CASE CopyRows
  <2>1. UNCHANGED <<source, clock, db>>
    BY <1>10 DEF CopyRows, mongo
  <2>. QED
    BY <1>2, <1>10, <2>1, CopyKeeps, SoundKept
<1>11. CASE PutMany
  <2>1. UNCHANGED <<source, clock, db>>
    BY <1>11 DEF PutMany, mongo
  <2>. QED
    BY <1>2, <1>11, <2>1, PutKeeps, SoundKept
<1>12. CASE AdvanceCheckpoint
  <2>1. UNCHANGED <<source, clock, db>>
    BY <1>12 DEF AdvanceCheckpoint, mongo
  <2>. QED
    BY <1>2, <1>12, <2>1, AdvanceKeeps, SoundKept
<1>13. CASE CommitBatch
  <2>1. UNCHANGED <<source, clock>>
    BY <1>13 DEF CommitBatch, Commit, mongo
  <2>. QED
    BY <1>2, <1>13, <2>1, CommitBatchKeeps
<1>14. CASE MarkDone
  <2>1. /\ pc = "scan" /\ pc' = "commit_done" /\ cur \in Entity
        /\ UNCHANGED <<source, clock, db, cur, cursor>>
    BY <1>14 DEF MarkDone, Step, Control, Scanning, mongo, reader
  <2>2. BatchInv'
    BY <2>1 DEF BatchInv, Scanning, Holding, Written
  <2>3. TransactionInv'
    BY <1>14, <2>1, DoneEffect DEF TransactionInv, Holding, Written
  <2>. QED
    BY <1>2, <2>1, <2>2, <2>3, SoundKept
<1>15. CASE CommitDone
  <2>1. UNCHANGED <<source, clock>>
    BY <1>15 DEF CommitDone, Commit, mongo
  <2>. QED
    BY <1>2, <1>15, <2>1, CommitDoneKeeps
<1>16. CASE TruncateFails \/ CopyFails \/ EndRun \/ Kill
  BY <1>3, <1>16 DEF TruncateFails, CopyFails, EndRun, Kill
<1>17. ASSUME NEW e \in Entity, RefuseNamespace(e)
       PROVE  Rest'
  BY <1>3, <1>17 DEF RefuseNamespace
<1>18. ASSUME NEW last \in Doc, BatchFails(last)
       PROVE  Rest'
  BY <1>3, <1>18 DEF BatchFails
<1>19. ASSUME NEW e \in Entity, InsertDoc(e)
       PROVE  Rest'
  <2>1. UNCHANGED <<db, tx, pc, run, cur, batch, out>>
    BY <1>19 DEF InsertDoc, reader
  <2>2. TransactionInv'
    BY <2>1 DEF TransactionInv, MappedBatch
  <2>. QED
    BY <1>19, <2>2, InsertKeeps
<1>20. ASSUME NEW e \in Entity, NEW d \in Doc, DeleteDoc(e, d)
       PROVE  Rest'
  <2>1. UNCHANGED <<db, tx, pc, run, cur, batch, out>>
    BY <1>20 DEF DeleteDoc, reader
  <2>2. TransactionInv'
    BY <2>1 DEF TransactionInv, MappedBatch
  <2>. QED
    BY <1>20, <2>2, DeleteKeeps
<1>21. CASE UNCHANGED vars
  <2>1. UNCHANGED <<source, clock, db, tx, pc, run, cur, cursor, batch, out>>
    BY <1>21 DEF vars
  <2>2. BatchInv' /\ TransactionInv'
    BY <2>1 DEF BatchInv, TransactionInv, MappedBatch, Issued
  <2>. QED
    BY <1>2, <2>1, <2>2, SoundKept
<1>. QED
  BY <1>4, <1>5, <1>6, <1>7, <1>8, <1>9, <1>10, <1>11, <1>12, <1>13, <1>14,
     <1>15, <1>16, <1>17, <1>18, <1>19, <1>20, <1>21
  DEF Next, Process, Operator, Environment

-----------------------------------------------------------------------------
(* At every statement, the open transaction is exactly the committed       *)
(* database plus the batch in memory, and what is committed is sound.      *)
THEOREM LoaderInvariant ==
  ASSUME WholeTruncates, DistinctIdentities
  PROVE  Spec => []LoadInvariant
<1>1. LoadInvariant /\ [Next]_vars => LoadInvariant'
  BY InvariantNext
<1>. QED
  BY <1>1, InvariantInit, PTL DEF Spec

(* Resuming from the checkpoint passes no document over: what last_source_id *)
(* has left behind is in the target, or a policy dropped it.               *)
THEOREM ResumeLeavesNoGap ==
  ASSUME WholeTruncates, DistinctIdentities
  PROVE  Spec => []NoGap
<1>1. LoadInvariant => NoGap
  BY DEF LoadInvariant, Sound, Covered, NoGap, Settled
<1>. QED
  BY <1>1, LoaderInvariant, PTL

(* However often a run is killed and repeated, a document has one row and  *)
(* one set of explode children.                                            *)
THEOREM NothingLoadedTwice ==
  ASSUME WholeTruncates, DistinctIdentities
  PROVE  Spec => []LoadedOnce
<1>1. LoadInvariant => LoadedOnce
  BY DEF LoadInvariant, Sound, Single, LoadedOnce
<1>. QED
  BY <1>1, LoaderInvariant, PTL

(* Every committed row is the one id_map answers for its document: put_many *)
(* and the COPY it describes commit together.                              *)
THEOREM IdMapAgrees ==
  ASSUME WholeTruncates, DistinctIdentities
  PROVE  Spec => []RowsMapped
<1>1. LoadInvariant => RowsMapped
  BY DEF LoadInvariant, Sound, Mapped, RowsMapped
<1>. QED
  BY <1>1, LoaderInvariant, PTL

-----------------------------------------------------------------------------
(* The loader refines Migration: its commits are the abstract steps.       *)

(* What the abstract state is made of: nothing but the source, the clock   *)
(* and the committed database.                                             *)
LEMMA CommittedOnly ==
  ASSUME UNCHANGED <<source, clock, db>>
  PROVE  UNCHANGED Abstract!mvars
BY DEF Abstract!mvars

LEMMA TruncateStartsOver ==
  ASSUME LoadInvariant, CommitTruncate
  PROVE  Abstract!StartOver
<1>1. /\ pc = "commit_truncate" /\ db' = tx /\ UNCHANGED <<source, clock>>
  BY DEF CommitTruncate, Commit, Step, mongo
<1>2. \A e \in Entity : tx.rows[e] = {} /\ tx.ckpt[e].last = 0 /\ tx.dropped[e] = {}
  BY <1>1 DEF LoadInvariant, TransactionInv, NoCheckpoint
<1>3. tx.dropped = [e \in Entity |-> {}]
  BY <1>2 DEF LoadInvariant, TypeOK, Database
<1>4. [e \in Entity |-> Sources(tx.rows[e])] = [e \in Entity |-> {}]
  BY <1>2 DEF Sources
<1>5. [e \in Entity |-> tx.ckpt[e].last] = [e \in Entity |-> 0]
  BY <1>2
<1>. QED
  BY <1>1, <1>3, <1>4, <1>5 DEF Abstract!StartOver

LEMMA BatchSettles ==
  ASSUME LoadInvariant, CommitBatch
  PROVE  Abstract!Settle(cur, Newest(batch), Sources(out), batch \ Sources(out))
         /\ cur \in Entity /\ Newest(batch) \in Doc /\ batch \subseteq Doc
         /\ Sources(out) \subseteq batch
<1>. USE DEF LoadInvariant
<1>1. /\ pc = "commit_batch" /\ db' = tx /\ cur \in Entity /\ UNCHANGED <<source, clock>>
      /\ cursor = db.ckpt[cur].last
      /\ \A d \in batch : cursor < d /\ d <= clock[cur]
      /\ \A d \in source[cur] : cursor < d /\ d <= Newest(batch) => d \in batch
      /\ Sources(out) \subseteq batch
  BY DEF CommitBatch, Commit, Step, mongo, Control, BatchInv, Scanning, Holding, Written
<1>2. /\ batch \subseteq Doc /\ Newest(batch) \in batch /\ Newest(batch) \in Doc
      /\ \A d \in batch : d <= Newest(batch)
  BY <1>1, LastType DEF TypeOK, Holding, Written
<1>3. /\ tx.rows = [db.rows EXCEPT ![cur] = @ \cup out]
      /\ tx.dropped = [db.dropped EXCEPT ![cur] = @ \cup (batch \ Sources(out))]
      /\ tx.ckpt[cur].last = Newest(batch)
      /\ \A e \in Entity \ {cur} : tx.ckpt[e] = db.ckpt[e]
  BY <1>1 DEF TransactionInv, Holding, Written
<1>4. db.rows \in [Entity -> SUBSET Row]
  BY DEF TypeOK, Database
<1>. DEFINE loaded == [e \in Entity |-> Sources(db.rows[e])]
            frontier == [e \in Entity |-> db.ckpt[e].last]
<1>5. [e \in Entity |-> Sources(tx.rows[e])] = [loaded EXCEPT ![cur] = @ \cup Sources(out)]
  <2>1. Sources(tx.rows[cur]) = Sources(db.rows[cur]) \cup Sources(out)
    BY <1>1, <1>3, <1>4 DEF Sources
  <2>2. \A e \in Entity \ {cur} : Sources(tx.rows[e]) = Sources(db.rows[e])
    BY <1>1, <1>3, <1>4
  <2>. QED
    BY <1>1, <2>1, <2>2
<1>6. [e \in Entity |-> tx.ckpt[e].last] = [frontier EXCEPT ![cur] = Newest(batch)]
  BY <1>1, <1>3
<1>7. /\ frontier[cur] < Newest(batch) /\ Newest(batch) <= clock[cur]
      /\ Newest(batch) \in Sources(out) \cup (batch \ Sources(out))
      /\ Sources(out) \cap (batch \ Sources(out)) = {}
      /\ Sources(out) \cup (batch \ Sources(out))
           \subseteq {d \in Doc : frontier[cur] < d /\ d <= Newest(batch)}
      /\ {d \in source[cur] : frontier[cur] < d /\ d <= Newest(batch)}
           \subseteq Sources(out) \cup (batch \ Sources(out))
  BY <1>1, <1>2
<1>8. Abstract!Settle(cur, Newest(batch), Sources(out), batch \ Sources(out))
  BY <1>1, <1>3, <1>5, <1>6, <1>7 DEF Abstract!Settle, Abstract!Doc, Doc
<1>. QED
  BY <1>1, <1>2, <1>8

LEMMA StepRefines ==
  ASSUME LoadInvariant, [Next]_vars
  PROVE  [Abstract!Next]_(Abstract!mvars)
<1>1. CASE CommitTruncate
  BY <1>1, TruncateStartsOver DEF Abstract!Next
<1>2. CASE CommitBatch
  <2>1. \E last \in Doc, kept, lost \in SUBSET Doc : Abstract!Settle(cur, last, kept, lost)
    <3>1. /\ Newest(batch) \in Doc
          /\ Sources(out) \in SUBSET Doc /\ batch \ Sources(out) \in SUBSET Doc
          /\ Abstract!Settle(cur, Newest(batch), Sources(out), batch \ Sources(out))
      BY <1>2, BatchSettles
    <3>. QED
      BY <3>1 DEF Abstract!Settle
  <2>. QED
    BY <1>2, <2>1, BatchSettles DEF Abstract!Next, Abstract!Doc, Doc
<1>3. CASE CommitDone
  <2>1. /\ pc = "commit_done" /\ db' = tx /\ UNCHANGED <<source, clock>>
    BY <1>3 DEF CommitDone, Commit, Step, mongo
  <2>2. /\ tx.rows = db.rows /\ tx.dropped = db.dropped
        /\ \A e \in Entity : tx.ckpt[e].last = db.ckpt[e].last
    BY <2>1 DEF LoadInvariant, TransactionInv, TypeOK, Database
  <2>. QED
    BY <2>1, <2>2 DEF Abstract!mvars
<1>4. ASSUME NEW e \in Entity, InsertDoc(e)
      PROVE  [Abstract!Next]_(Abstract!mvars)
  <2>1. Abstract!Create(e)
    BY <1>4 DEF InsertDoc, Abstract!Create, Abstract!target
  <2>. QED
    BY <2>1 DEF Abstract!Next
<1>5. ASSUME NEW e \in Entity, NEW d \in Doc, DeleteDoc(e, d)
      PROVE  [Abstract!Next]_(Abstract!mvars)
  <2>1. Abstract!Delete(e, d)
    BY <1>5 DEF DeleteDoc, Abstract!Delete, Abstract!target
  <2>. QED
    BY <2>1 DEF Abstract!Next, Abstract!Doc, Doc
<1>6. ASSUME UNCHANGED <<source, clock, db>>
      PROVE  [Abstract!Next]_(Abstract!mvars)
  BY <1>6, CommittedOnly
<1>7. ASSUME NEW c \in Commands, NEW ns \in Namespace, StartRun(c, ns)
      PROVE  UNCHANGED <<source, clock, db>>
  BY <1>7 DEF StartRun, mongo
<1>8. CASE TruncateTables \/ TruncateFails \/ ResetCheckpoints
  BY <1>6, <1>8 DEF TruncateTables, TruncateFails, ResetCheckpoints, mongo
<1>9. ASSUME NEW e \in Entity, BeginEntity(e) \/ RefuseNamespace(e)
      PROVE  UNCHANGED <<source, clock, db>>
  BY <1>9 DEF BeginEntity, RefuseNamespace, mongo
<1>10. ASSUME NEW last \in Doc, ReadBatch(last) \/ BatchFails(last)
       PROVE  UNCHANGED <<source, clock, db>>
  BY <1>10 DEF ReadBatch, BatchFails, mongo
<1>11. CASE CopyRows \/ CopyFails \/ PutMany \/ AdvanceCheckpoint
  BY <1>6, <1>11 DEF CopyRows, CopyFails, PutMany, AdvanceCheckpoint, mongo
<1>12. CASE MarkDone \/ EndRun \/ Kill
  BY <1>6, <1>12 DEF MarkDone, EndRun, Kill, mongo
<1>13. CASE UNCHANGED vars
  BY <1>6, <1>13 DEF vars
<1>. QED
  BY <1>1, <1>2, <1>3, <1>4, <1>5, <1>6, <1>7, <1>8, <1>9, <1>10, <1>11, <1>12, <1>13
  DEF Next, Process, Operator, Environment

LEMMA InitRefines == Init => Abstract!Init
<1>. SUFFICES ASSUME Init PROVE Abstract!Init
  OBVIOUS
<1>1. [e \in Entity |-> Sources(db.rows[e])] = [e \in Entity |-> {}]
  BY DEF Init, EmptyDatabase, Sources
<1>2. [e \in Entity |-> db.ckpt[e].last] = [e \in Entity |-> 0]
  BY DEF Init, EmptyDatabase, NoCheckpoint
<1>. QED
  BY <1>1, <1>2 DEF Init, EmptyDatabase, Abstract!Init

(* The loader keeps the promise of Migration: each batch is settled in one *)
(* indivisible step at its commit, exactly once, and nothing else moves    *)
(* the target, the checkpoint or the frontier.                             *)
THEOREM LoaderRefinesMigration ==
  ASSUME WholeTruncates, DistinctIdentities
  PROVE  Spec => ImplementsMigration
<1>1. LoadInvariant /\ [Next]_vars => [Abstract!Next]_(Abstract!mvars)
  BY StepRefines
<1>. QED
  BY <1>1, InitRefines, LoaderInvariant, PTL
  DEF Spec, ImplementsMigration, Abstract!Spec
=============================================================================
