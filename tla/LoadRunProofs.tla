---------------------------- MODULE LoadRunProofs ----------------------------
(***************************************************************************)
(* Theorems about whole runs of Load: what a run that ended has done, what *)
(* a commit never takes back, what rows_loaded counts, and what the keys   *)
(* in the database refer to.                                               *)
(***************************************************************************)
EXTENDS LoadProofs

-----------------------------------------------------------------------------
(* What each commit does to the database; nothing else changes it.         *)

LEMMA DatabaseSteps ==
  ASSUME [Next]_vars
  PROVE  CommitTruncate \/ CommitBatch \/ CommitDone \/ db' = db
<1>1. ASSUME NEW c \in Commands, NEW ns \in Namespace, StartRun(c, ns)
      PROVE  db' = db
  BY <1>1 DEF StartRun
<1>2. ASSUME NEW e \in Entity, BeginEntity(e) \/ RefuseNamespace(e)
      PROVE  db' = db
  BY <1>2 DEF BeginEntity, RefuseNamespace
<1>3. ASSUME NEW last \in Doc, ReadBatch(last) \/ BatchFails(last)
      PROVE  db' = db
  BY <1>3 DEF ReadBatch, BatchFails
<1>4. ASSUME NEW e \in Entity, InsertDoc(e)
      PROVE  db' = db
  BY <1>4 DEF InsertDoc
<1>5. ASSUME NEW e \in Entity, NEW d \in Doc, DeleteDoc(e, d)
      PROVE  db' = db
  BY <1>5 DEF DeleteDoc
<1>6. CASE \/ TruncateTables \/ TruncateFails \/ ResetCheckpoints \/ CopyRows \/ CopyFails
           \/ PutMany \/ AdvanceCheckpoint \/ MarkDone \/ EndRun \/ Kill
  BY <1>6 DEF TruncateTables, TruncateFails, ResetCheckpoints, CopyRows, CopyFails,
              PutMany, AdvanceCheckpoint, MarkDone, EndRun, Kill
<1>7. CASE UNCHANGED vars
  BY <1>7 DEF vars
<1>. QED
  BY <1>1, <1>2, <1>3, <1>4, <1>5, <1>6, <1>7 DEF Next, Process, Operator, Environment

LEMMA TruncateCommitted ==
  ASSUME LoadInvariant, CommitTruncate
  PROVE  /\ pc = "commit_truncate" /\ pc' = "entity"
         /\ UNCHANGED <<source, clock, run, todo>>
         /\ \A e \in Entity : db'.rows[e] = {} /\ db'.ckpt[e] = NoCheckpoint
<1>1. /\ pc = "commit_truncate" /\ pc' = "entity" /\ db' = tx
      /\ UNCHANGED <<source, clock, run, todo>>
  BY DEF CommitTruncate, Commit, Step, mongo
<1>2. \A e \in Entity : tx.rows[e] = {} /\ tx.ckpt[e] = NoCheckpoint
  BY <1>1 DEF LoadInvariant, TransactionInv
<1>. QED
  BY <1>1, <1>2

LEMMA BatchCommitted ==
  ASSUME LoadInvariant, CommitBatch
  PROVE  /\ pc = "commit_batch" /\ pc' = "scan" /\ cur \in Entity
         /\ UNCHANGED <<source, clock, run, todo, cur, snap, opened>>
         /\ db' = tx
         /\ Newest(batch) \in batch /\ batch \subseteq Doc
         /\ Sources(out) \subseteq batch
         /\ \A d \in batch : db.ckpt[cur].last < d
         /\ db'.rows = [db.rows EXCEPT ![cur] = @ \cup out]
         /\ db'.idmap = [db.idmap EXCEPT ![cur] = MappedBatch(@)]
         /\ db'.ckpt[cur].last = Newest(batch)
         /\ \A e \in Entity \ {cur} : db'.ckpt[e] = db.ckpt[e]
<1>. USE DEF LoadInvariant
<1>1. /\ pc = "commit_batch" /\ pc' = "scan" /\ db' = tx /\ cur \in Entity
      /\ UNCHANGED <<source, clock, run, todo, cur, snap, opened>>
  BY DEF CommitBatch, Commit, Step, mongo, Control, Scanning, Holding, Written
<1>2. /\ tx.rows = [db.rows EXCEPT ![cur] = @ \cup out]
      /\ tx.idmap = [db.idmap EXCEPT ![cur] = MappedBatch(@)]
      /\ tx.ckpt[cur].last = Newest(batch)
      /\ \A e \in Entity \ {cur} : tx.ckpt[e] = db.ckpt[e]
  BY <1>1 DEF TransactionInv, Holding, Written
<1>3. batch \subseteq Doc /\ Newest(batch) \in batch
  BY <1>1, LastType DEF TypeOK, Holding, Written
<1>4. Sources(out) \subseteq batch /\ \A d \in batch : db.ckpt[cur].last < d
  BY <1>1 DEF BatchInv, Scanning, Holding, Written
<1>. QED
  BY <1>1, <1>2, <1>3, <1>4

LEMMA DoneCommitted ==
  ASSUME LoadInvariant, CommitDone
  PROVE  /\ pc = "commit_done" /\ pc' = "entity" /\ cur \in Entity
         /\ todo' = todo \ {cur} /\ UNCHANGED <<source, clock, run>>
         /\ db' = tx /\ db'.rows = db.rows /\ db'.idmap = db.idmap
         /\ \A e \in Entity : db'.ckpt[e].last = db.ckpt[e].last
<1>1. /\ pc = "commit_done" /\ pc' = "entity" /\ db' = tx /\ cur \in Entity
      /\ todo' = todo \ {cur} /\ UNCHANGED <<source, clock, run>>
  BY DEF CommitDone, Commit, Step, mongo, LoadInvariant, Control, Scanning
<1>2. /\ \A e \in Entity : tx.ckpt[e].last = db.ckpt[e].last
      /\ tx = [db EXCEPT !.ckpt = tx.ckpt]
  BY <1>1 DEF LoadInvariant, TransactionInv
<1>3. tx.rows = db.rows /\ tx.idmap = db.idmap
  BY <1>2 DEF LoadInvariant, TypeOK, Database
<1>. QED
  BY <1>1, <1>2, <1>3

(* The rows of a batch are those of documents that have none yet.          *)
LEMMA BatchIsNew ==
  ASSUME LoadInvariant, CommitBatch
  PROVE  db.rows[cur] \cap out = {}
<1>1. /\ cur \in Entity /\ Sources(out) \subseteq batch /\ batch \subseteq Doc
      /\ \A d \in batch : db.ckpt[cur].last < d
  BY BatchCommitted
<1>2. \A d \in Sources(db.rows[cur]) : d <= db.ckpt[cur].last
  BY <1>1 DEF LoadInvariant, Sound, Behind
<1>3. db.ckpt[cur].last \in Nat /\ Doc \subseteq Nat
  BY <1>1, ConstantsAssumption DEF LoadInvariant, TypeOK, Database, Checkpoint, Doc
<1>4. \A r \in out : r.src \in Nat /\ db.ckpt[cur].last < r.src
  BY <1>1, <1>3 DEF Sources
<1>5. \A r \in db.rows[cur] : r.src <= db.ckpt[cur].last
  BY <1>2 DEF Sources
<1>. QED
  BY <1>3, <1>4, <1>5

-----------------------------------------------------------------------------
(* What a run has done.                                                    *)

(* The steps that leave the run, its entity and the database alone.        *)
LEMMA RunKept ==
  ASSUME RunInv, pc' = pc \/ (pc \in Holding \cup {"scan"} /\ pc' \in Holding \cup {"scan"}),
         UNCHANGED <<source, clock, db, run, todo, cur, snap, opened>>
  PROVE  RunInv'
BY DEF RunInv, Reached, Scanning, Holding, Written, Truncating, Selected

LEMMA RunInit == Init => RunInv
BY ConstantsAssumption DEF Init, RunInv, NoRun, Scanning, Holding, Written, Truncating, Selected

LEMMA RunNext ==
  ASSUME LoadInvariant, RunInv, [Next]_vars
  PROVE  RunInv'
<1>. USE DEF Scanning, Holding, Written, Truncating
<1>1. ASSUME NEW c \in Commands, NEW ns \in Namespace, StartRun(c, ns)
      PROVE  RunInv'
  <2>1. /\ pc' \in {"truncate", "entity"}
        /\ pc' = "truncate" => run'.mode = "truncate"
        /\ run'.since = clock /\ todo' = Selected(run'.only) /\ clock' = clock
    BY <1>1 DEF StartRun, Step, mongo
  <2>2. \A e \in Entity : clock[e] \in Nat
    BY ConstantsAssumption DEF LoadInvariant, TypeOK
  <2>3. todo' = Selected(run.only)'
    BY <2>1 DEF Selected
  <2>. QED
    BY <2>1, <2>2, <2>3 DEF RunInv
<1>2. CASE TruncateTables
  BY <1>2 DEF TruncateTables, Step, mongo, reader, RunInv, Reached, Selected
<1>3. CASE ResetCheckpoints
  BY <1>3 DEF ResetCheckpoints, Step, mongo, reader, RunInv, Reached, Selected
<1>4. CASE CommitTruncate
  <2>1. /\ pc = "commit_truncate" /\ pc' = "entity"
        /\ UNCHANGED <<source, clock, run, todo>>
    BY <1>4, TruncateCommitted
  <2>. QED
    BY <2>1 DEF RunInv, Selected
<1>5. ASSUME NEW e \in Entity, BeginEntity(e)
      PROVE  RunInv'
  <2>1. /\ pc = "entity" /\ pc' = "scan" /\ cur' = e /\ e \in todo
        /\ opened' = clock[e] /\ tx = db
        /\ snap' = [p \in Entity |-> IF p \in Parents(e) THEN tx.idmap[p] ELSE EmptyMap]
        /\ UNCHANGED <<source, clock, db, run, todo>>
        /\ \A f \in todo : Rank[e] <= Rank[f]
    BY <1>5 DEF BeginEntity, NextEntity, Step, mongo, LoadInvariant, TransactionInv
  <2>2. Parents(e) \subseteq Entity /\ \A p \in Parents(e) : Rank[p] < Rank[e]
    BY LookupsType, ConstantsAssumption DEF Parents
  <2>3. Parents(e) \cap todo = {}
    BY <2>1, <2>2, ConstantsAssumption
  <2>4. Parents(cur)' = Parents(e)
    BY <2>1 DEF Parents
  <2>5. \A p \in Parents(e) : snap'[p] = db'.idmap[p]
    BY <2>1, <2>2
  <2>. QED
    BY <2>1, <2>3, <2>4, <2>5 DEF RunInv, Reached, Selected
<1>6. ASSUME NEW last \in Doc, ReadBatch(last)
      PROVE  RunInv'
  BY <1>6, RunKept DEF ReadBatch, Step, mongo, reader
<1>7. CASE CopyRows
  BY <1>7, RunKept DEF CopyRows, Step, mongo, reader
<1>8. CASE PutMany
  BY <1>8, RunKept DEF PutMany, Step, mongo, reader
<1>9. CASE AdvanceCheckpoint
  BY <1>9, RunKept DEF AdvanceCheckpoint, Step, mongo, reader
<1>10. CASE CommitBatch
  <2>1. /\ pc = "commit_batch" /\ pc' = "scan" /\ cur \in Entity
        /\ UNCHANGED <<source, clock, run, todo, cur, snap, opened>>
        /\ db'.idmap = [db.idmap EXCEPT ![cur] = MappedBatch(@)]
        /\ \A e \in Entity \ {cur} : db'.ckpt[e] = db.ckpt[e]
    BY <1>10, BatchCommitted
  <2>2. cur \in todo /\ Parents(cur) \cap todo = {} /\ Parents(cur) \subseteq Entity
    BY <2>1, LookupsType DEF RunInv, Parents
  <2>3. \A p \in Parents(cur) : db'.idmap[p] = db.idmap[p]
    BY <2>1, <2>2 DEF LoadInvariant, TypeOK, Database
  <2>4. \A e \in Selected(run.only) \ todo : Reached(e) => Reached(e)'
    <3>1. Selected(run.only) \subseteq Entity
      BY DEF Selected, LoadInvariant, TypeOK, Run
    <3>2. \A e \in Selected(run.only) \ todo : e \in Entity \ {cur}
      BY <2>2, <3>1
    <3>. QED
      BY <2>1, <3>2 DEF Reached
  <2>5. Parents(cur)' = Parents(cur) /\ Selected(run.only)' = Selected(run.only)
    BY <2>1 DEF Parents, Selected
  <2>. QED
    BY <2>1, <2>2, <2>3, <2>4, <2>5 DEF RunInv
<1>11. CASE MarkDone
  <2>1. /\ pc = "scan" /\ pc' = "commit_done" /\ cur \in Entity
        /\ UNCHANGED <<source, clock, db, run, todo, cur, snap, opened>>
        /\ \A d \in source[cur] : d > cursor => d > opened
        /\ cursor = db.ckpt[cur].last
    BY <1>11 DEF MarkDone, Step, mongo, reader, Unread, LoadInvariant, Control, BatchInv
  <2>2. source[cur] \subseteq Nat /\ cursor \in Nat /\ opened \in Nat /\ run.since[cur] \in Nat
    BY <2>1, ConstantsAssumption DEF LoadInvariant, TypeOK, Run, Doc
  <2>3. Reached(cur)
    BY <2>1, <2>2 DEF RunInv, Reached
  <2>. QED
    BY <2>1, <2>3 DEF RunInv, Reached, Selected
<1>12. CASE CommitDone
  <2>1. /\ pc = "commit_done" /\ pc' = "entity" /\ cur \in Entity
        /\ todo' = todo \ {cur} /\ UNCHANGED <<source, clock, run>>
        /\ \A e \in Entity : db'.ckpt[e].last = db.ckpt[e].last
    BY <1>12, DoneCommitted
  <2>2. Selected(run.only) \subseteq Entity /\ Selected(run.only)' = Selected(run.only)
    BY <2>1 DEF Selected, LoadInvariant, TypeOK, Run
  <2>3. \A e \in Selected(run.only) \ todo' : Reached(e)
    BY <2>1, <2>2 DEF RunInv
  <2>4. \A e \in Selected(run.only) \ todo' : Reached(e)'
    BY <2>1, <2>2, <2>3 DEF Reached
  <2>. QED
    BY <2>1, <2>2, <2>4 DEF RunInv
<1>13. ASSUME NEW how, End(how), UNCHANGED <<mongo, db>>
       PROVE  RunInv'
  <2>1. \A e \in Entity : clock[e] \in Nat
    BY ConstantsAssumption DEF LoadInvariant, TypeOK
  <2>. QED
    BY <1>13, <2>1 DEF End, NoRun, mongo, RunInv
<1>14. CASE TruncateFails \/ CopyFails \/ EndRun \/ Kill
  BY <1>13, <1>14 DEF TruncateFails, CopyFails, EndRun, Kill
<1>15. ASSUME NEW e \in Entity, RefuseNamespace(e)
       PROVE  RunInv'
  BY <1>13, <1>15 DEF RefuseNamespace
<1>16. ASSUME NEW last \in Doc, BatchFails(last)
       PROVE  RunInv'
  BY <1>13, <1>16 DEF BatchFails
<1>17. ASSUME NEW e \in Entity, InsertDoc(e)
       PROVE  RunInv'
  <2>1. /\ UNCHANGED <<db, pc, run, todo, cur, snap, opened>>
        /\ clock' = [clock EXCEPT ![e] = @ + 1]
        /\ source' = [source EXCEPT ![e] = @ \cup {clock[e] + 1}]
    BY <1>17 DEF InsertDoc, reader
  <2>2. \A f \in Entity : clock[f] \in Nat /\ run.since[f] \in Nat /\ run.since[f] <= clock[f]
    BY ConstantsAssumption DEF LoadInvariant, TypeOK, Run, RunInv
  <2>3. \A f \in Entity : run.since[f] <= clock'[f]
    BY <2>1, <2>2 DEF LoadInvariant, TypeOK
  <2>4. \A f \in Entity : Reached(f) => Reached(f)'
    <3>1. \A f \in Entity : \A d \in source'[f] : d <= run.since[f] => d \in source[f]
      BY <2>1, <2>2 DEF LoadInvariant, TypeOK
    <3>. QED
      BY <2>1, <3>1 DEF Reached
  <2>5. Selected(run.only) \subseteq Entity /\ todo \subseteq Entity
    BY DEF LoadInvariant, TypeOK, Run, Selected
  <2>. QED
    BY <2>1, <2>3, <2>4, <2>5 DEF RunInv, Selected
<1>18. ASSUME NEW e \in Entity, NEW d \in Doc, DeleteDoc(e, d)
       PROVE  RunInv'
  <2>1. /\ UNCHANGED <<clock, db, pc, run, todo, cur, snap, opened>>
        /\ source' = [source EXCEPT ![e] = @ \ {d}]
    BY <1>18 DEF DeleteDoc, reader
  <2>2. \A f \in Entity : Reached(f) => Reached(f)'
    BY <2>1 DEF Reached, LoadInvariant, TypeOK
  <2>3. Selected(run.only) \subseteq Entity /\ todo \subseteq Entity
    BY DEF LoadInvariant, TypeOK, Run, Selected
  <2>. QED
    BY <2>1, <2>2, <2>3 DEF RunInv, Selected
<1>19. CASE UNCHANGED vars
  BY <1>19, RunKept DEF vars
<1>. QED
  BY <1>1, <1>2, <1>3, <1>4, <1>5, <1>6, <1>7, <1>8, <1>9, <1>10, <1>11, <1>12,
     <1>14, <1>15, <1>16, <1>17, <1>18, <1>19
  DEF Next, Process, Operator, Environment

-----------------------------------------------------------------------------
(* What rows_loaded counts.                                                *)

LEMMA AdvanceCounts ==
  ASSUME TypeOK, cur \in Entity, AdvanceCheckpoint
  PROVE  tx'.ckpt[cur].loaded = tx.ckpt[cur].loaded + Cardinality(out)
<1>. DEFINE next == [last   |-> Newest(batch),
                     status |-> IF tx.ckpt[cur].status = "absent" THEN "in_progress"
                                ELSE tx.ckpt[cur].status,
                     loaded |-> tx.ckpt[cur].loaded + Cardinality(out)]
            dropped == tx.dropped[cur] \cup (batch \ Sources(out))
<1>1. tx \in Database
  BY DEF TypeOK
<1>2. tx' = [tx EXCEPT !.ckpt[cur] = next, !.dropped[cur] = dropped]
  BY <1>1 DEF AdvanceCheckpoint, Database
<1>3. next.loaded = tx.ckpt[cur].loaded + Cardinality(out)
  OBVIOUS
<1>. HIDE DEF next, dropped
<1>4. tx'.ckpt[cur] = next
  BY <1>1, <1>2 DEF Database
<1>. QED
  BY <1>3, <1>4

LEMMA DoneCounts ==
  ASSUME TypeOK, cur \in Entity, MarkDone
  PROVE  \A e \in Entity : tx'.ckpt[e].loaded = tx.ckpt[e].loaded
<1>. DEFINE next == [tx.ckpt[cur] EXCEPT !.status = "done"]
<1>1. tx \in Database
  BY DEF TypeOK
<1>2. tx' = [tx EXCEPT !.ckpt[cur] = next]
  BY <1>1 DEF MarkDone, Database, Checkpoint
<1>3. next.loaded = tx.ckpt[cur].loaded
  BY <1>1 DEF Database, Checkpoint
<1>. HIDE DEF next
<1>4. tx'.ckpt = [tx.ckpt EXCEPT ![cur] = next]
  BY <1>1, <1>2 DEF Database
<1>5. tx.ckpt \in [Entity -> Checkpoint]
  BY <1>1 DEF Database
<1>. QED
  BY <1>3, <1>4, <1>5

(* Steps that neither commit nor come to a commit.                         *)
LEMMA CountKept ==
  ASSUME CountInv, db' = db,
         \/ pc' \notin {"commit_batch", "commit_done"}
         \/ UNCHANGED <<pc, tx, cur, out>>
  PROVE  CountInv'
BY DEF CountInv, RowsCounted

LEMMA CountInit == Init => CountInv
BY FS_EmptySet DEF Init, CountInv, RowsCounted, EmptyDatabase, NoCheckpoint

LEMMA CountBatch ==
  ASSUME LoadInvariant, CountInv, CommitBatch
  PROVE  CountInv'
<1>1. /\ pc = "commit_batch" /\ pc' = "scan" /\ cur \in Entity /\ db' = tx
      /\ db'.rows = [db.rows EXCEPT ![cur] = @ \cup out]
      /\ \A e \in Entity \ {cur} : db'.ckpt[e] = db.ckpt[e]
  BY BatchCommitted
<1>2. /\ db'.rows[cur] = db.rows[cur] \cup out
      /\ \A e \in Entity \ {cur} : db'.rows[e] = db.rows[e]
  BY <1>1 DEF LoadInvariant, TypeOK, Database
<1>3. /\ db'.ckpt[cur].loaded = db.ckpt[cur].loaded + Cardinality(out)
      /\ db.ckpt[cur].loaded = Cardinality(db.rows[cur])
      /\ IsFiniteSet(db.rows[cur]) /\ IsFiniteSet(out)
  BY <1>1 DEF CountInv, RowsCounted, LoadInvariant, Control
<1>4. /\ IsFiniteSet(db.rows[cur] \cup out)
      /\ Cardinality(db.rows[cur] \cup out)
           = Cardinality(db.rows[cur]) + Cardinality(out) - Cardinality(db.rows[cur] \cap out)
  BY <1>3, FS_Union
<1>5. db.rows[cur] \cap out = {}
  BY BatchIsNew
<1>6. /\ Cardinality(db.rows[cur]) \in Nat /\ Cardinality(out) \in Nat
      /\ Cardinality(db.rows[cur] \cap out) = 0
  BY <1>3, <1>5, FS_CardinalityType, FS_EmptySet
<1>7. db'.ckpt[cur].loaded = Cardinality(db'.rows[cur])
  BY <1>2, <1>3, <1>4, <1>6
<1>8. RowsCounted' /\ \A e \in Entity : IsFiniteSet(db'.rows[e])
  BY <1>1, <1>2, <1>4, <1>7 DEF CountInv, RowsCounted
<1>. QED
  BY <1>1, <1>8 DEF CountInv

LEMMA CountNext ==
  ASSUME LoadInvariant, CountInv, [Next]_vars
  PROVE  CountInv'
<1>. USE DEF Scanning, Holding, Written
<1>1. CASE CommitTruncate
  <2>1. pc' = "entity" /\ \A e \in Entity : db'.rows[e] = {} /\ db'.ckpt[e] = NoCheckpoint
    BY <1>1, TruncateCommitted
  <2>2. IsFiniteSet({}) /\ Cardinality({}) = 0 /\ NoCheckpoint.loaded = 0
    BY FS_EmptySet DEF NoCheckpoint
  <2>3. \A e \in Entity : IsFiniteSet(db'.rows[e]) /\ db'.ckpt[e].loaded = Cardinality(db'.rows[e])
    BY <2>1, <2>2
  <2>. QED
    BY <2>1, <2>3 DEF CountInv, RowsCounted
<1>2. CASE AdvanceCheckpoint
  <2>1. /\ pc = "advance" /\ pc' = "commit_batch" /\ cur \in Entity
        /\ UNCHANGED <<db, cur, out>> /\ tx.ckpt = db.ckpt
    BY <1>2 DEF AdvanceCheckpoint, Step, reader, LoadInvariant, Control, TransactionInv
  <2>2. tx'.ckpt[cur].loaded = tx.ckpt[cur].loaded + Cardinality(out)
    BY <1>2, <2>1, AdvanceCounts DEF LoadInvariant
  <2>. QED
    BY <2>1, <2>2 DEF CountInv, RowsCounted
<1>3. CASE CommitBatch
  BY <1>3, CountBatch
<1>4. CASE MarkDone
  <2>1. /\ pc = "scan" /\ pc' = "commit_done" /\ cur \in Entity /\ db' = db /\ tx = db
    BY <1>4 DEF MarkDone, Step, LoadInvariant, Control, TransactionInv
  <2>2. \A e \in Entity : tx'.ckpt[e].loaded = tx.ckpt[e].loaded
    BY <1>4, <2>1, DoneCounts DEF LoadInvariant
  <2>. QED
    BY <2>1, <2>2 DEF CountInv, RowsCounted
<1>5. CASE CommitDone
  <2>1. pc = "commit_done" /\ pc' = "entity" /\ db' = tx /\ db'.rows = db.rows
    BY <1>5, DoneCommitted
  <2>. QED
    BY <2>1 DEF CountInv, RowsCounted
<1>6. ASSUME NEW c \in Commands, NEW ns \in Namespace, StartRun(c, ns)
      PROVE  CountInv'
  BY <1>6, CountKept DEF StartRun, Step
<1>7. ASSUME NEW e \in Entity, BeginEntity(e)
      PROVE  CountInv'
  BY <1>7, CountKept DEF BeginEntity, Step
<1>8. ASSUME NEW last \in Doc, ReadBatch(last)
      PROVE  CountInv'
  BY <1>8, CountKept DEF ReadBatch, Step
<1>9. CASE TruncateTables \/ ResetCheckpoints \/ CopyRows \/ PutMany
  BY <1>9, CountKept DEF TruncateTables, ResetCheckpoints, CopyRows, PutMany, Step
<1>10. ASSUME NEW how, End(how), db' = db
       PROVE  CountInv'
  BY <1>10, CountKept DEF End
<1>11. CASE TruncateFails \/ CopyFails \/ EndRun \/ Kill
  BY <1>10, <1>11 DEF TruncateFails, CopyFails, EndRun, Kill
<1>12. ASSUME NEW e \in Entity, RefuseNamespace(e)
       PROVE  CountInv'
  BY <1>10, <1>12 DEF RefuseNamespace
<1>13. ASSUME NEW last \in Doc, BatchFails(last)
       PROVE  CountInv'
  BY <1>10, <1>13 DEF BatchFails
<1>14. ASSUME NEW e \in Entity, InsertDoc(e)
       PROVE  CountInv'
  BY <1>14, CountKept DEF InsertDoc, reader
<1>15. ASSUME NEW e \in Entity, NEW d \in Doc, DeleteDoc(e, d)
       PROVE  CountInv'
  BY <1>15, CountKept DEF DeleteDoc, reader
<1>16. CASE UNCHANGED vars
  BY <1>16, CountKept DEF vars
<1>. QED
  BY <1>1, <1>2, <1>3, <1>4, <1>5, <1>6, <1>7, <1>8, <1>9, <1>11, <1>12, <1>13,
     <1>14, <1>15, <1>16
  DEF Next, Process, Operator, Environment

-----------------------------------------------------------------------------
(* The namespace of the ids of an objectid_to_uuid entity.                 *)

(* A set of naturals has a least element: the interval that ends in it     *)
(* contains no other interval that ends in the set.                        *)
LEMMA LeastOf ==
  ASSUME NEW S \in SUBSET Nat, S # {}
  PROVE  \E k \in S : \A j \in S : k <= j
<1>. DEFINE upTo == {0 .. k : k \in S}
            within == StrictSubsetOrdering(Nat)
<1>1. IsWellFoundedOn(within, FiniteSubsetsOf(Nat))
  BY FS_StrictSubsetOrderingWellFounded
<1>2. \A k \in S : k \in Nat /\ 0 .. k \in SUBSET Nat /\ IsFiniteSet(0 .. k)
  BY FS_Interval
<1>3. upTo \subseteq FiniteSubsetsOf(Nat) /\ upTo # {}
  BY <1>2 DEF FiniteSubsetsOf
<1>4. \E I \in upTo : \A J \in upTo : <<J, I>> \notin within
  <2>. HIDE DEF upTo, within
  <2>. QED
    BY <1>1, <1>3, WFMin
<1>5. PICK k \in S : \A j \in S : <<0 .. j, 0 .. k>> \notin within
  BY <1>4
<1>6. ASSUME NEW j \in S
      PROVE  k <= j
  <2>1. ~(0 .. j \subseteq 0 .. k /\ 0 .. j # 0 .. k)
    BY <1>2, <1>5, <1>6 DEF StrictSubsetOrdering
  <2>2. j < k => 0 .. j \subseteq 0 .. k /\ k \in 0 .. k /\ k \notin 0 .. j
    BY <1>2
  <2>. QED
    BY <1>2, <2>1, <2>2
<1>. QED
  BY <1>6

(* Where no policy skips, a batch that is read is loaded as a whole.       *)
LEMMA NoneSkipped ==
  ASSUME NoSkips, NEW e \in Entity, Strategy[e] = "objectid_to_uuid",
         NEW d \in Doc, ~Fails(e, d)
  PROVE  Loads(e, d)
<1>1. Identity[e][d] # 0
  BY DEF NoSkips, Fails
<1>2. Raises(e, d) \in SUBSET Nat
  BY LookupsType DEF Raises, Dangling
<1>3. \A k \in Raises(e, d) : Fatal(e, k)
  BY DEF NoSkips, Raises, Dangling
<1>4. Raises(e, d) # {} => FirstRaise(e, d) \in Raises(e, d)
  BY <1>2, LeastOf DEF FirstRaise
<1>. QED
  BY <1>1, <1>3, <1>4 DEF Fails, Loads

LEMMA ReadInNamespace ==
  ASSUME LoadInvariant, NoSkips, NEW last \in Doc, ReadBatch(last),
         Strategy[cur] = "objectid_to_uuid"
  PROVE  batch' = Sources(out') /\ \A r \in out' : r.key[1] = run.ns
<1>1. cur \in Entity /\ batch' \subseteq Doc
  BY OutType DEF LoadInvariant, Control, ReadBatch, Step, Scanning
<1>2. /\ batch' = UpTo(last) /\ \A d \in batch' : ~Fails(cur, d)
      /\ out' = {NewRow(cur, d, batch') : d \in {x \in batch' : Loads(cur, x)}}
  BY DEF ReadBatch
<1>3. \A d \in batch' : Loads(cur, d)
  BY <1>1, <1>2, NoneSkipped
<1>4. out' = {NewRow(cur, d, batch') : d \in batch'}
  BY <1>2, <1>3
<1>5. \A d \in batch' : NewRow(cur, d, batch').src = d /\ NewRow(cur, d, batch').key[1] = run.ns
  BY DEF NewRow, NewKey, Minted
<1>. QED
  BY <1>4, <1>5 DEF Sources

(* The check at the start of an entity compares the run's namespace with   *)
(* that of every row.                                                      *)
LEMMA BeginInNamespace ==
  ASSUME LoadInvariant, NamespaceInv, NEW e \in Entity, BeginEntity(e),
         Strategy[e] = "objectid_to_uuid"
  PROVE  \A r \in db.rows[e] : r.key[1] = run.ns
<1>. DEFINE last == db.ckpt[e].last
<1>1. tx = db /\ ~NamespaceChanged(e)
  BY DEF BeginEntity, Step, LoadInvariant, TransactionInv
<1>2. Behind(db, e) /\ Mapped(db, e)
  BY DEF LoadInvariant, Sound
<1>3. db.rows[e] \subseteq Row /\ Doc \subseteq Nat \ {0}
  BY ConstantsAssumption DEF LoadInvariant, TypeOK, Database, Doc
<1>4. CASE last = 0
  <2>1. \A r \in db.rows[e] : r.src \in Nat \ {0} /\ r.src <= 0
    BY <1>2, <1>3, <1>4 DEF Behind, Sources, Row
  <2>. QED
    BY <2>1
<1>5. CASE last # 0
  <2>1. PICK r \in db.rows[e] : r.src = last
    BY <1>5 DEF NamespaceInv, Sources
  <2>2. db.idmap[e][last] = r.key /\ r.key # None
    BY <1>2, <1>3, <2>1, ConstantsAssumption DEF Mapped, Row
  <2>3. r.key = <<run.ns, last>>
    BY <1>1, <1>5, <2>2 DEF NamespaceChanged
  <2>4. r.key[1] = run.ns
    BY <2>3
  <2>. QED
    BY <2>4 DEF NamespaceInv
<1>. QED
  BY <1>4, <1>5

(* Steps that commit nothing, and neither begin an entity nor read.        *)
LEMMA NamespaceKept ==
  ASSUME NamespaceInv, db' = db,
         \/ pc' \notin Scanning
         \/ UNCHANGED <<cur, run>> /\ pc \in Scanning /\ pc' \in Scanning \ Holding
         \/ UNCHANGED <<cur, run, batch, out>> /\ pc \in Holding
  PROVE  NamespaceInv'
BY DEF NamespaceInv, Scanning, Holding, Written

LEMMA NamespaceInit == Init => NamespaceInv
BY DEF Init, NamespaceInv, EmptyDatabase, NoCheckpoint, Scanning, Holding, Written

LEMMA NamespaceBatch ==
  ASSUME LoadInvariant, NamespaceInv, CommitBatch
  PROVE  NamespaceInv'
<1>. USE DEF Scanning, Holding, Written
<1>1. /\ pc = "commit_batch" /\ pc' = "scan" /\ cur \in Entity
      /\ UNCHANGED <<run, cur>>
      /\ Newest(batch) \in batch /\ db'.ckpt[cur].last = Newest(batch)
      /\ db'.rows = [db.rows EXCEPT ![cur] = @ \cup out]
      /\ \A e \in Entity \ {cur} : db'.ckpt[e] = db.ckpt[e]
  BY BatchCommitted
<1>2. /\ db'.rows[cur] = db.rows[cur] \cup out
      /\ \A e \in Entity \ {cur} : db'.rows[e] = db.rows[e]
  BY <1>1 DEF LoadInvariant, TypeOK, Database
<1>3. CASE Strategy[cur] = "objectid_to_uuid"
  <2>1. /\ batch = Sources(out)
        /\ \A r \in db.rows[cur] \cup out : r.key[1] = run.ns
    BY <1>1, <1>3 DEF NamespaceInv
  <2>2. db'.ckpt[cur].last \in Sources(db'.rows[cur])
    BY <1>1, <1>2, <2>1 DEF Sources
  <2>3. \A r \in db'.rows[cur] : r.key[1] = run'.ns
    BY <1>1, <1>2, <2>1
  <2>. QED
    BY <1>1, <1>2, <2>2, <2>3 DEF NamespaceInv
<1>4. CASE Strategy[cur] # "objectid_to_uuid"
  BY <1>1, <1>2, <1>4 DEF NamespaceInv
<1>. QED
  BY <1>3, <1>4

LEMMA NamespaceNext ==
  ASSUME LoadInvariant, NoSkips, NamespaceInv, [Next]_vars
  PROVE  NamespaceInv'
<1>. USE DEF Scanning, Holding, Written
<1>1. CASE CommitTruncate
  <2>1. pc' = "entity" /\ \A e \in Entity : db'.rows[e] = {} /\ db'.ckpt[e].last = 0
    BY <1>1, TruncateCommitted DEF NoCheckpoint
  <2>. QED
    BY <2>1 DEF NamespaceInv
<1>2. ASSUME NEW e \in Entity, BeginEntity(e)
      PROVE  NamespaceInv'
  <2>1. pc' = "scan" /\ cur' = e /\ UNCHANGED <<db, run>>
    BY <1>2 DEF BeginEntity, Step
  <2>2. Strategy[e] = "objectid_to_uuid" => \A r \in db.rows[e] : r.key[1] = run.ns
    BY <1>2, BeginInNamespace
  <2>. QED
    BY <2>1, <2>2 DEF NamespaceInv
<1>3. ASSUME NEW last \in Doc, ReadBatch(last)
      PROVE  NamespaceInv'
  <2>1. pc = "scan" /\ pc' = "copy" /\ UNCHANGED <<db, run, cur>>
    BY <1>3 DEF ReadBatch, Step, reader
  <2>2. Strategy[cur] = "objectid_to_uuid" =>
          batch' = Sources(out') /\ \A r \in out' : r.key[1] = run.ns
    BY <1>3, ReadInNamespace
  <2>. QED
    BY <2>1, <2>2 DEF NamespaceInv
<1>4. CASE CopyRows \/ PutMany \/ AdvanceCheckpoint \/ MarkDone
  BY <1>4, NamespaceKept DEF CopyRows, PutMany, AdvanceCheckpoint, MarkDone, Step, reader
<1>5. CASE CommitBatch
  BY <1>5, NamespaceBatch
<1>6. CASE CommitDone
  <2>1. /\ pc' = "entity" /\ db'.rows = db.rows
        /\ \A e \in Entity : db'.ckpt[e].last = db.ckpt[e].last
    BY <1>6, DoneCommitted
  <2>. QED
    BY <2>1 DEF NamespaceInv
<1>7. ASSUME NEW c \in Commands, NEW ns \in Namespace, StartRun(c, ns)
      PROVE  NamespaceInv'
  BY <1>7, NamespaceKept DEF StartRun, Step
<1>8. CASE TruncateTables \/ ResetCheckpoints
  BY <1>8, NamespaceKept DEF TruncateTables, ResetCheckpoints, Step
<1>9. ASSUME NEW how, End(how), db' = db
      PROVE  NamespaceInv'
  BY <1>9, NamespaceKept DEF End
<1>10. CASE TruncateFails \/ CopyFails \/ EndRun \/ Kill
  BY <1>9, <1>10 DEF TruncateFails, CopyFails, EndRun, Kill
<1>11. ASSUME NEW e \in Entity, RefuseNamespace(e)
       PROVE  NamespaceInv'
  BY <1>9, <1>11 DEF RefuseNamespace
<1>12. ASSUME NEW last \in Doc, BatchFails(last)
       PROVE  NamespaceInv'
  BY <1>9, <1>12 DEF BatchFails
<1>13. ASSUME UNCHANGED <<db, pc, run, cur, batch, out>>
       PROVE  NamespaceInv'
  BY <1>13 DEF NamespaceInv
<1>14. ASSUME NEW e \in Entity, InsertDoc(e)
       PROVE  NamespaceInv'
  BY <1>13, <1>14 DEF InsertDoc, reader
<1>15. ASSUME NEW e \in Entity, NEW d \in Doc, DeleteDoc(e, d)
       PROVE  NamespaceInv'
  BY <1>13, <1>15 DEF DeleteDoc, reader
<1>16. CASE UNCHANGED vars
  BY <1>13, <1>16 DEF vars
<1>. QED
  BY <1>1, <1>2, <1>3, <1>4, <1>5, <1>6, <1>7, <1>8, <1>10, <1>11, <1>12,
     <1>14, <1>15, <1>16
  DEF Next, Process, Operator, Environment

-----------------------------------------------------------------------------
(* What the references in the rows resolve to.                             *)

(* Once resolved, a reference stays so: rows are only added.               *)
LEMMA RefersStays ==
  ASSUME \A e \in Entity : db.rows[e] \subseteq db'.rows[e],
         NEW e \in Entity, NEW r, Refers(e, r)
  PROVE  Refers(e, r)'
<1>1. \A k \in DOMAIN Lookups[e] : Lookups[e][k].to \in Entity
  BY LookupsType
<1>. QED
  BY <1>1 DEF Refers

LEMMA ResolveInit == Init => ResolveInv
BY DEF Init, ResolveInv, EmptyDatabase, EmptyMap, Holding, Written

(* Steps that commit nothing and read no batch.                            *)
LEMMA ResolveKept ==
  ASSUME ResolveInv, db' = db,
         pc' \notin {"truncate", "reset", "commit_truncate"},
         pc' \notin Holding \/ (UNCHANGED <<cur, out>> /\ pc \in Holding)
  PROVE  ResolveInv'
BY DEF ResolveInv, Refers, Holding, Written

(* The row of a document takes its references from the snapshot, which is  *)
(* the id_map of the parent, which names rows.                             *)
LEMMA ReadRefers ==
  ASSUME LoadInvariant, RunInv, ResolveInv, NEW last \in Doc, ReadBatch(last)
  PROVE  \A r \in out' : Refers(cur, r)
<1>1. cur \in Entity /\ pc = "scan" /\ batch' \subseteq Doc
  BY OutType DEF LoadInvariant, Control, ReadBatch, Step, Scanning
<1>2. \A p \in Parents(cur) : snap[p] = db.idmap[p]
  BY <1>1 DEF RunInv, Scanning
<1>. SUFFICES ASSUME NEW r \in out', NEW k \in DOMAIN Lookups[cur], r.fk[k] # None
              PROVE  \E p \in db.rows[Lookups[cur][k].to] :
                       p.key = r.fk[k] /\ p.src = Reference[cur][r.src][k]
  BY DEF Refers
<1>3. PICK d \in batch' : r = NewRow(cur, d, batch')
  BY DEF ReadBatch
<1>4. r.src = d /\ r.fk[k] = Lookup(cur, d, k)
  BY <1>3 DEF NewRow
<1>. DEFINE parent == Lookups[cur][k].to
            ref == Reference[cur][d][k]
<1>5. parent \in Entity /\ parent \in Parents(cur)
  BY <1>1, LookupsType DEF Parents
<1>6. ref # 0 /\ r.fk[k] = db.idmap[parent][ref]
  BY <1>2, <1>4, <1>5 DEF Lookup
<1>7. ref \in Doc
  <2>1. ref \in 0 .. MaxDoc /\ MaxDoc \in Nat
    BY <1>1, <1>3, ConstantsAssumption
  <2>. QED
    BY <1>6, <2>1 DEF Doc
<1>8. PICK p \in db.rows[parent] : p.src = ref /\ p.key = db.idmap[parent][ref]
  BY <1>5, <1>6, <1>7 DEF ResolveInv
<1>. QED
  BY <1>4, <1>6, <1>8

LEMMA ResolveBatch ==
  ASSUME LoadInvariant, ResolveInv, CommitBatch
  PROVE  ResolveInv'
<1>. USE DEF Scanning, Holding, Written
<1>1. /\ pc = "commit_batch" /\ pc' = "scan" /\ cur \in Entity
      /\ db'.rows = [db.rows EXCEPT ![cur] = @ \cup out]
      /\ db'.idmap = [db.idmap EXCEPT ![cur] = MappedBatch(@)]
  BY BatchCommitted
<1>2. /\ db.rows \in [Entity -> SUBSET Row]
      /\ db.idmap \in [Entity -> [Doc -> Key \cup {None}]]
  BY DEF LoadInvariant, TypeOK, Database
<1>3. /\ db'.rows[cur] = db.rows[cur] \cup out
      /\ db'.idmap[cur] = MappedBatch(db.idmap[cur])
      /\ \A e \in Entity \ {cur} : db'.rows[e] = db.rows[e] /\ db'.idmap[e] = db.idmap[e]
  BY <1>1, <1>2
<1>4. \A e \in Entity : db.rows[e] \subseteq db'.rows[e]
  BY <1>3
<1>5. \A e \in Entity : \A r \in db.rows[e] : Refers(e, r)'
  <2>1. \A e \in Entity : \A r \in db.rows[e] : Refers(e, r)
    BY DEF ResolveInv
  <2>. QED
    BY <1>4, <2>1, RefersStays
<1>6. \A e \in Entity : e = cur => \A r \in out : Refers(e, r)'
  <2>1. \A e \in Entity : e = cur => \A r \in out : Refers(e, r)
    BY <1>1 DEF ResolveInv
  <2>. QED
    BY <1>4, <2>1, RefersStays
<1>7. \A e \in Entity : \A r \in db'.rows[e] : Refers(e, r)'
  BY <1>3, <1>5, <1>6
<1>8. ASSUME NEW e \in Entity, NEW d \in Doc, db'.idmap[e][d] # None
      PROVE  \E r \in db'.rows[e] : r.src = d /\ r.key = db'.idmap[e][d]
  <2>1. CASE e = cur /\ d \in Sources(out)
    <3>1. PICK r \in out : r.src = d
      BY <2>1 DEF Sources
    <3>2. /\ (CHOOSE s \in out : s.src = d) \in out
          /\ (CHOOSE s \in out : s.src = d).src = d
      BY <3>1
    <3>3. db'.idmap[e][d] = (CHOOSE s \in out : s.src = d).key
      BY <1>3, <2>1 DEF MappedBatch
    <3>. QED
      BY <1>3, <2>1, <3>2, <3>3
  <2>2. CASE ~(e = cur /\ d \in Sources(out))
    <3>1. db'.idmap[e][d] = db.idmap[e][d]
      BY <1>3, <2>2 DEF MappedBatch
    <3>2. \E r \in db.rows[e] : r.src = d /\ r.key = db.idmap[e][d]
      BY <1>8, <3>1 DEF ResolveInv
    <3>. QED
      BY <1>4, <3>1, <3>2
  <2>. QED
    BY <2>1, <2>2
<1>. QED
  BY <1>1, <1>7, <1>8 DEF ResolveInv

LEMMA ResolveNext ==
  ASSUME LoadInvariant, RunInv, NothingTruncated, ResolveInv, [Next]_vars
  PROVE  ResolveInv'
<1>. USE DEF Holding, Written
<1>1. ASSUME NEW c \in Commands, NEW ns \in Namespace, StartRun(c, ns)
      PROVE  ResolveInv'
  <2>1. /\ pc' \in {"truncate", "entity"} /\ run'.only = c.only /\ db' = db
        /\ pc' = "truncate" => c.mode = "truncate"
    BY <1>1 DEF StartRun, Step
  <2>2. pc' = "truncate" => ~TruncateAllowed(run.only)'
    BY <2>1 DEF NothingTruncated, TruncateAllowed, Emptied, Selected
  <2>3. \A e \in Entity : \A r \in db.rows[e] : Refers(e, r)'
    BY <2>1 DEF ResolveInv, Refers
  <2>. QED
    BY <2>1, <2>2, <2>3 DEF ResolveInv
<1>2. CASE TruncateTables \/ ResetCheckpoints \/ CommitTruncate
  <2>1. FALSE
    BY <1>2 DEF TruncateTables, ResetCheckpoints, CommitTruncate, Commit, Step, ResolveInv
  <2>. QED
    BY <2>1
<1>3. ASSUME NEW e \in Entity, BeginEntity(e)
      PROVE  ResolveInv'
  BY <1>3, ResolveKept DEF BeginEntity, Step
<1>4. ASSUME NEW last \in Doc, ReadBatch(last)
      PROVE  ResolveInv'
  <2>1. pc' = "copy" /\ UNCHANGED <<db, cur>>
    BY <1>4 DEF ReadBatch, Step, reader
  <2>2. \A r \in out' : Refers(cur, r)
    BY <1>4, ReadRefers
  <2>3. \A r \in out' : Refers(cur, r)'
    BY <2>1, <2>2 DEF Refers
  <2>4. \A e \in Entity : \A r \in db.rows[e] : Refers(e, r)'
    BY <2>1 DEF ResolveInv, Refers
  <2>. QED
    BY <2>1, <2>3, <2>4 DEF ResolveInv
<1>5. CASE CopyRows \/ PutMany \/ AdvanceCheckpoint \/ MarkDone
  BY <1>5, ResolveKept DEF CopyRows, PutMany, AdvanceCheckpoint, MarkDone, Step, reader
<1>6. CASE CommitBatch
  BY <1>6, ResolveBatch
<1>7. CASE CommitDone
  <2>1. pc' = "entity" /\ db'.rows = db.rows /\ db'.idmap = db.idmap
    BY <1>7, DoneCommitted
  <2>2. \A e \in Entity : \A r \in db.rows[e] : Refers(e, r)'
    BY <2>1 DEF ResolveInv, Refers
  <2>. QED
    BY <2>1, <2>2 DEF ResolveInv
<1>8. ASSUME NEW how, End(how), db' = db
      PROVE  ResolveInv'
  BY <1>8, ResolveKept DEF End
<1>9. CASE TruncateFails \/ CopyFails \/ EndRun \/ Kill
  BY <1>8, <1>9 DEF TruncateFails, CopyFails, EndRun, Kill
<1>10. ASSUME NEW e \in Entity, RefuseNamespace(e)
       PROVE  ResolveInv'
  BY <1>8, <1>10 DEF RefuseNamespace
<1>11. ASSUME NEW last \in Doc, BatchFails(last)
       PROVE  ResolveInv'
  BY <1>8, <1>11 DEF BatchFails
<1>12. ASSUME UNCHANGED <<db, pc, run, cur, out>>
       PROVE  ResolveInv'
  BY <1>12 DEF ResolveInv, Refers
<1>13. ASSUME NEW e \in Entity, InsertDoc(e)
       PROVE  ResolveInv'
  BY <1>12, <1>13 DEF InsertDoc, reader
<1>14. ASSUME NEW e \in Entity, NEW d \in Doc, DeleteDoc(e, d)
       PROVE  ResolveInv'
  BY <1>12, <1>14 DEF DeleteDoc, reader
<1>15. CASE UNCHANGED vars
  BY <1>12, <1>15 DEF vars
<1>. QED
  BY <1>1, <1>2, <1>3, <1>4, <1>5, <1>6, <1>7, <1>9, <1>10, <1>11, <1>13, <1>14, <1>15
  DEF Next, Process, Operator, Environment

-----------------------------------------------------------------------------
(* The parents of what a run selects.                                      *)

LEMMA ParentsNext ==
  ASSUME ParentsSelected, ParentsInv, [Next]_vars
  PROVE  ParentsInv'
<1>1. ASSUME NEW c \in Commands, NEW ns \in Namespace, StartRun(c, ns)
      PROVE  ParentsInv'
  <2>1. run'.only = c.only /\ Closed(c.only)
    BY <1>1 DEF StartRun, ParentsSelected
  <2>2. Closed(run.only)'
    BY <2>1 DEF Closed, Selected, Parents
  <2>. QED
    BY <2>2 DEF ParentsInv
<1>2. ASSUME run' = run, pc' # "idle" => pc # "idle"
      PROVE  ParentsInv'
  BY <1>2 DEF ParentsInv, Closed, Selected, Parents
<1>3. CASE TruncateTables \/ ResetCheckpoints \/ CommitTruncate \/ CopyRows \/ PutMany
           \/ AdvanceCheckpoint \/ CommitBatch \/ MarkDone \/ CommitDone
  BY <1>2, <1>3 DEF TruncateTables, ResetCheckpoints, CommitTruncate, CopyRows, PutMany,
              AdvanceCheckpoint, CommitBatch, MarkDone, CommitDone, Commit, Step
<1>4. ASSUME NEW e \in Entity, BeginEntity(e)
      PROVE  ParentsInv'
  BY <1>2, <1>4 DEF BeginEntity, Step
<1>5. ASSUME NEW last \in Doc, ReadBatch(last)
      PROVE  ParentsInv'
  BY <1>2, <1>5 DEF ReadBatch, Step
<1>6. ASSUME NEW how, End(how)
      PROVE  ParentsInv'
  BY <1>6 DEF End, ParentsInv
<1>7. CASE TruncateFails \/ CopyFails \/ EndRun \/ Kill
  BY <1>6, <1>7 DEF TruncateFails, CopyFails, EndRun, Kill
<1>8. ASSUME NEW e \in Entity, RefuseNamespace(e)
      PROVE  ParentsInv'
  BY <1>6, <1>8 DEF RefuseNamespace
<1>9. ASSUME NEW last \in Doc, BatchFails(last)
      PROVE  ParentsInv'
  BY <1>6, <1>9 DEF BatchFails
<1>10. ASSUME NEW e \in Entity, InsertDoc(e)
       PROVE  ParentsInv'
  BY <1>2, <1>10 DEF InsertDoc
<1>11. ASSUME NEW e \in Entity, NEW d \in Doc, DeleteDoc(e, d)
       PROVE  ParentsInv'
  BY <1>2, <1>11 DEF DeleteDoc
<1>12. CASE UNCHANGED vars
  BY <1>2, <1>12 DEF vars
<1>. QED
  BY <1>1, <1>3, <1>4, <1>5, <1>7, <1>8, <1>9, <1>10, <1>11, <1>12
  DEF Next, Process, Operator, Environment

-----------------------------------------------------------------------------
(* All of it together is inductive.                                        *)

LEMMA RunInvariantInit == Init => RunInvariant
BY InvariantInit, RunInit, CountInit, NamespaceInit, ResolveInit
DEF RunInvariant, ParentsInv, Init

LEMMA RunInvariantNext ==
  ASSUME WholeTruncates, DistinctIdentities, RunInvariant, [Next]_vars
  PROVE  RunInvariant'
<1>1. LoadInvariant /\ RunInv /\ CountInv
  BY DEF RunInvariant
<1>2. LoadInvariant' /\ RunInv' /\ CountInv'
  BY <1>1, InvariantNext, RunNext, CountNext
<1>3. NoSkips => NamespaceInv'
  BY <1>1, NamespaceNext DEF RunInvariant
<1>4. NothingTruncated => ResolveInv'
  BY <1>1, ResolveNext DEF RunInvariant
<1>5. ParentsSelected => ParentsInv'
  BY ParentsNext DEF RunInvariant
<1>. QED
  BY <1>2, <1>3, <1>4, <1>5
  DEF RunInvariant, NoSkips, NothingTruncated, ParentsSelected, Closed, TruncateAllowed,
      Emptied, Selected, Parents

(* At every statement of every run: the transaction is the database and    *)
(* the batch, the finished entities are behind their checkpoints, the      *)
(* counters count, and the keys say what they should.                      *)
THEOREM RunsInvariant ==
  ASSUME WholeTruncates, DistinctIdentities
  PROVE  Spec => []RunInvariant
<1>1. RunInvariant /\ [Next]_vars => RunInvariant'
  BY RunInvariantNext
<1>. QED
  BY <1>1, RunInvariantInit, PTL DEF Spec

-----------------------------------------------------------------------------
(* What follows for the operator of the tool.                              *)

(* A run that gets to its end has settled every document of the entities   *)
(* it selected that was there when it began, and still is.                 *)
THEOREM RunsAreComplete ==
  ASSUME WholeTruncates, DistinctIdentities
  PROVE  Spec => []RunComplete
<1>1. ASSUME RunInvariant
      PROVE  RunComplete
  <2>. SUFFICES ASSUME pc = "entity", todo = {},
                       NEW e \in Selected(run.only), NEW d \in source[e], d <= run.since[e]
                PROVE  d \in Settled(e)
    BY DEF RunComplete
  <2>1. e \in Entity
    BY <1>1 DEF RunInvariant, LoadInvariant, TypeOK, Run, Selected
  <2>2. d <= db.ckpt[e].last
    BY <1>1 DEF RunInvariant, RunInv, Reached
  <2>. QED
    BY <1>1, <2>1, <2>2 DEF RunInvariant, LoadInvariant, Sound, Covered, Settled
<1>. QED
  BY <1>1, RunsInvariant, PTL

(* rows_loaded is the number of rows, after any number of kills, failures, *)
(* resumes and truncations.                                                *)
THEOREM RowsAreCounted ==
  ASSUME WholeTruncates, DistinctIdentities
  PROVE  Spec => []RowsCounted
<1>1. RunInvariant => RowsCounted
  BY DEF RunInvariant, CountInv
<1>. QED
  BY <1>1, RunsInvariant, PTL

(* An append or upsert run never moves a checkpoint back and never takes a *)
(* key away: the database changes only where a batch, an entity or the     *)
(* truncation of a truncating run is committed.                            *)
THEOREM NothingTakenBack ==
  ASSUME WholeTruncates, DistinctIdentities
  PROVE  Spec => Progress
<1>. DEFINE Forward == \/ run.mode = "truncate"
                       \/ \A e \in Entity :
                            /\ db.ckpt[e].last <= db'.ckpt[e].last
                            /\ Keys(db.rows[e]) \subseteq Keys(db'.rows[e])
<1>1. ASSUME RunInvariant, [Next]_vars
      PROVE  [Forward]_db
  <2>1. LoadInvariant /\ \A e \in Entity : db.ckpt[e].last \in Nat
    BY <1>1, ConstantsAssumption
    DEF RunInvariant, LoadInvariant, TypeOK, Database, Checkpoint
  <2>2. CASE CommitTruncate
    BY <1>1, <2>1, <2>2, TruncateCommitted DEF RunInvariant, RunInv, Truncating
  <2>3. CASE CommitBatch
    <3>1. /\ cur \in Entity /\ Newest(batch) \in batch /\ batch \subseteq Doc
          /\ \A d \in batch : db.ckpt[cur].last < d
          /\ db'.rows = [db.rows EXCEPT ![cur] = @ \cup out]
          /\ db'.ckpt[cur].last = Newest(batch)
          /\ \A e \in Entity \ {cur} : db'.ckpt[e] = db.ckpt[e]
      BY <2>1, <2>3, BatchCommitted
    <3>2. \A e \in Entity : db.rows[e] \subseteq db'.rows[e]
      BY <2>1, <3>1 DEF LoadInvariant, TypeOK, Database
    <3>3. \A e \in Entity : db.ckpt[e].last <= db'.ckpt[e].last
      <4>1. Newest(batch) \in Nat /\ db.ckpt[cur].last < Newest(batch)
        <5>1. Doc \subseteq Nat
          BY ConstantsAssumption DEF Doc
        <5>. QED
          BY <3>1, <5>1
      <4>2. db.ckpt[cur].last <= db'.ckpt[cur].last
        BY <2>1, <3>1, <4>1
      <4>3. \A e \in Entity \ {cur} : db.ckpt[e].last <= db'.ckpt[e].last
        BY <2>1, <3>1
      <4>. QED
        BY <4>2, <4>3
    <3>. QED
      BY <3>2, <3>3 DEF Keys
  <2>4. CASE CommitDone
    BY <2>1, <2>4, DoneCommitted
  <2>. QED
    BY <1>1, <2>2, <2>3, <2>4, DatabaseSteps
<1>. QED
  BY <1>1, RunsInvariant, PTL DEF Spec, Progress

(* Where no policy skips a document, all ids of an objectid_to_uuid entity *)
(* were derived under one namespace, whatever --uuid-namespace the runs    *)
(* were given.                                                             *)
THEOREM NamespacesDoNotMix ==
  ASSUME WholeTruncates, DistinctIdentities, NoSkips
  PROVE  Spec => []OneNamespace
<1>1. RunInvariant => OneNamespace
  BY DEF RunInvariant, NamespaceInv, OneNamespace
<1>. QED
  BY <1>1, RunsInvariant, PTL

(* Where ids are also derived from _id, a resume is refused only if the    *)
(* entity does hold a row of another namespace.                            *)
THEOREM RefusalsHaveCause ==
  ASSUME WholeTruncates, DistinctIdentities, NoSkips, IdsAreIdentities
  PROVE  Spec => RefusedForCause
<1>. DEFINE Cause == outcome' = "refused" =>
                       \E e \in todo : \E r \in db.rows[e] : r.key[1] # run.ns
<1>1. ASSUME RunInvariant, NEW e \in Entity, RefuseNamespace(e)
      PROVE  \E r \in db.rows[e] : r.key[1] # run.ns
  <2>. DEFINE last == db.ckpt[e].last
  <2>1. tx = db /\ NamespaceChanged(e)
    BY <1>1 DEF RefuseNamespace, RunInvariant, LoadInvariant, TransactionInv
  <2>2. /\ last # 0 /\ Strategy[e] = "objectid_to_uuid"
        /\ db.idmap[e][last] # <<run.ns, last>>
    BY <2>1 DEF NamespaceChanged
  <2>3. PICK r \in db.rows[e] : r.src = last
    BY <1>1, <2>2 DEF RunInvariant, NamespaceInv, Sources
  <2>4. /\ r \in Row
        /\ db.idmap[e][last] = r.key /\ r.key[2] = Identity[e][last] /\ Identity[e][last] # 0
    <3>1. r \in Row
      BY <1>1, <2>3 DEF RunInvariant, LoadInvariant, TypeOK, Database
    <3>2. Strategy[e] \notin Minted
      BY <2>2 DEF Minted
    <3>3. Mapped(db, e)
      BY <1>1 DEF RunInvariant, LoadInvariant, Sound
    <3>. QED
      BY <2>3, <3>1, <3>2, <3>3 DEF Mapped, Issued
  <2>5. r.key = <<r.key[1], last>>
    <3>1. last \in Doc /\ r.key \in Key
      BY <2>3, <2>4 DEF Row
    <3>2. r.key[2] = last
      BY <2>2, <2>4, <3>1 DEF IdsAreIdentities
    <3>. QED
      BY <3>1, <3>2 DEF Key
  <2>. QED
    BY <2>2, <2>4, <2>5
<1>2. ASSUME RunInvariant, [Next]_vars
      PROVE  [Cause]_outcome
  <2>. SUFFICES ASSUME outcome' = "refused", outcome' # outcome
                PROVE  \E e \in todo : \E r \in db.rows[e] : r.key[1] # run.ns
    OBVIOUS
  <2>1. \E e \in Entity : RefuseNamespace(e)
    BY <1>2
    DEF Next, Process, Operator, Environment, StartRun, TruncateTables, TruncateFails,
        ResetCheckpoints, CommitTruncate, Commit, BeginEntity, ReadBatch, BatchFails,
        CopyRows, CopyFails, PutMany, AdvanceCheckpoint, CommitBatch, MarkDone, CommitDone,
        EndRun, Kill, InsertDoc, DeleteDoc, End, vars
  <2>2. PICK e \in Entity : RefuseNamespace(e)
    BY <2>1
  <2>3. e \in todo
    BY <2>2 DEF RefuseNamespace, NextEntity
  <2>. QED
    BY <1>1, <1>2, <2>2, <2>3
<1>. QED
  BY <1>2, RunsInvariant, PTL DEF Spec, RefusedForCause

(* Where no run empties tables, every reference stored in a row is the key *)
(* of the row of the document referred to.                                 *)
THEOREM ReferencesAreKeys ==
  ASSUME DistinctIdentities, NothingTruncated
  PROVE  Spec => []ReferencesResolve
<1>1. WholeTruncates
  BY DEF NothingTruncated, WholeTruncates, Starts
<1>2. RunInvariant => ReferencesResolve
  BY DEF RunInvariant, ResolveInv, Refers, ReferencesResolve
<1>. QED
  BY <1>1, <1>2, RunsInvariant, PTL

(* A reference that id_map does not resolve, in a run that selects the     *)
(* parents: its document is gone, dropped, or newer than the run.          *)
LEMMA DanglingHasCause ==
  ASSUME RunInvariant, ParentsSelected, pc \in Scanning,
         NEW d \in Doc, NEW k \in Dangling(cur, d)
  PROVE  LET p == Lookups[cur][k].to
             r == Reference[cur][d][k]
         IN  r # 0 /\ (r \in source[p] => r \in db.dropped[p] \/ r > run.since[p])
<1>. USE DEF RunInvariant, LoadInvariant
<1>. DEFINE p == Lookups[cur][k].to
            r == Reference[cur][d][k]
<1>1. cur \in Entity /\ cur \in todo /\ Parents(cur) \cap todo = {}
      /\ snap[p] = db.idmap[p] /\ p \in Entity /\ p \in Parents(cur)
  <2>1. cur \in Entity /\ p \in Entity /\ p \in Parents(cur)
    BY LookupsType DEF Control, Dangling, Parents
  <2>. QED
    BY <2>1 DEF RunInv
<1>2. r # 0 /\ snap[p][r] = None
  BY DEF Dangling, Lookup
<1>3. Reached(p)
  <2>1. p \in Selected(run.only) \ todo
    BY <1>1 DEF RunInv, ParentsInv, Closed, Scanning, Holding, Written
  <2>. QED
    BY <2>1 DEF RunInv, Scanning, Holding, Written
<1>4. ASSUME r \in source[p], ~(r > run.since[p])
      PROVE  r \in db.dropped[p]
  <2>1. r \in Nat /\ run.since[p] \in Nat
    <3>1. source[p] \subseteq Doc /\ run.since[p] \in 0 .. MaxDoc /\ MaxDoc \in Nat
      BY <1>1, ConstantsAssumption DEF TypeOK, Run
    <3>. QED
      BY <1>4, <3>1 DEF Doc
  <2>2. r <= db.ckpt[p].last
    BY <1>3, <1>4, <2>1 DEF Reached
  <2>3. r \in Sources(db.rows[p]) \cup db.dropped[p]
    BY <1>1, <1>4, <2>2 DEF Sound, Covered
  <2>4. r \notin Sources(db.rows[p])
    <3>. SUFFICES ASSUME NEW s \in db.rows[p], s.src = r PROVE FALSE
      BY DEF Sources
    <3>1. db.idmap[p][r] = s.key
      BY <1>1 DEF Sound, Mapped
    <3>2. s.key # None
      <4>1. db.rows[p] \subseteq Row
        BY <1>1 DEF TypeOK, Database
      <4>. QED
        BY <4>1, ConstantsAssumption DEF Row
    <3>. QED
      BY <1>1, <1>2, <3>1, <3>2
  <2>. QED
    BY <2>3, <2>4
<1>. QED
  BY <1>2, <1>4

(* A policy for dangling references acts on references that do dangle.     *)
THEOREM DanglingIsReal ==
  ASSUME WholeTruncates, DistinctIdentities, ParentsSelected
  PROVE  Spec => []DanglingForReal
<1>1. ASSUME RunInvariant
      PROVE  DanglingForReal
  <2>. SUFFICES ASSUME NEW d \in batch, NEW k \in Dangling(cur, d)
                PROVE  LET p == Lookups[cur][k].to
                           r == Reference[cur][d][k]
                       IN  r \in source[p] => r \in db.dropped[p] \/ r > run.since[p]
    BY DEF DanglingForReal
  <2>1. d \in Doc /\ pc \in Scanning
    BY <1>1 DEF RunInvariant, LoadInvariant, TypeOK, Control, Scanning
  <2>. QED
    BY <1>1, <2>1, DanglingHasCause
<1>. QED
  BY <1>1, RunsInvariant, PTL

(* A run fails on a document only if the document lacks its identity, or   *)
(* refers to one that is gone, was dropped, or is newer than the run.      *)
THEOREM FailuresHaveCause ==
  ASSUME WholeTruncates, DistinctIdentities, ParentsSelected
  PROVE  Spec => FailedForCause
<1>. DEFINE Cause(d) ==
       \/ Identity[cur][d] = 0
       \/ \E k \in DOMAIN Lookups[cur] :
            LET p == Lookups[cur][k].to
                r == Reference[cur][d][k]
            IN r # 0 /\ (r \notin source[p] \/ r \in db.dropped[p] \/ r > run.since[p])
     Failed == (pc = "scan" /\ outcome' = "failed") => \E d \in Unread : Cause(d)
<1>1. ASSUME RunInvariant, NEW last \in Doc, BatchFails(last)
      PROVE  \E d \in Unread : Cause(d)
  <2>1. PICK d \in UpTo(last) : Fails(cur, d)
    BY <1>1 DEF BatchFails
  <2>2. d \in Unread /\ d \in Doc /\ pc \in Scanning
    <3>1. pc = "scan" /\ cur \in Entity
      BY <1>1 DEF BatchFails, RunInvariant, LoadInvariant, Control, Scanning
    <3>. QED
      BY <1>1, <2>1, <3>1 DEF UpTo, Unread, RunInvariant, LoadInvariant, TypeOK, Scanning
  <2>3. CASE Identity[cur][d] = 0
    BY <2>2, <2>3
  <2>4. CASE Identity[cur][d] # 0
    <3>1. PICK k \in Dangling(cur, d) : TRUE
      BY <2>1, <2>4 DEF Fails, Raises
    <3>2. k \in DOMAIN Lookups[cur]
      BY DEF Dangling
    <3>. QED
      BY <1>1, <2>2, <3>2, DanglingHasCause
  <2>. QED
    BY <2>3, <2>4
<1>2. ASSUME RunInvariant, [Next]_vars
      PROVE  [Failed]_outcome
  <2>. SUFFICES ASSUME pc = "scan", outcome' = "failed", outcome' # outcome
                PROVE  \E d \in Unread : Cause(d)
    OBVIOUS
  <2>1. \E last \in Doc : BatchFails(last)
    <3>. HIDE DEF Cause, Failed
    <3>. QED
      BY <1>2
      DEF Next, Process, Operator, Environment, StartRun, TruncateTables, TruncateFails,
          ResetCheckpoints, CommitTruncate, Commit, Step, BeginEntity, RefuseNamespace,
          ReadBatch, CopyRows, CopyFails, PutMany, AdvanceCheckpoint, CommitBatch, MarkDone,
          CommitDone, EndRun, Kill, InsertDoc, DeleteDoc, End, vars
  <2>. QED
    BY <1>1, <1>2, <2>1
<1>. QED
  BY <1>2, RunsInvariant, PTL DEF Spec, FailedForCause
=============================================================================
