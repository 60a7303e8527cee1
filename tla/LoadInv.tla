------------------------------ MODULE LoadInv ------------------------------
(***************************************************************************)
(* The inductive invariants of Load.  LoadInvariant relates, at every      *)
(* statement, the open transaction, the committed database, the batch in   *)
(* memory and the cursor; RunInvariant adds what one run has done so far   *)
(* and what the ids in the database say.  LoadProofs and LoadRunProofs     *)
(* prove them; TLC checks them on small instances.                         *)
(***************************************************************************)
EXTENDS Load

(* What the invariant needs of the command lines and of the mapping: a     *)
(* truncating run selects every entity, or Postgres refuses it; and ids    *)
(* that are not minted tell the documents of one table apart.              *)
Starts(only) == Selected(only) = Entity \/ ~TruncateAllowed(only)

WholeTruncates ==
  \A c \in Commands : c.mode = "truncate" => Starts(c.only)

DistinctIdentities ==
  \A e, f \in Entity :
    Target[e] = Target[f] /\ Strategy[e] \notin Minted /\ Strategy[f] \notin Minted =>
      \A d, x \in Doc :
        Identity[e][d] = Identity[f][x] /\ Identity[e][d] # 0 => e = f /\ d = x

(* Where the process reads the documents of one entity, where it holds a   *)
(* batch of them, and where it has written their rows.                     *)
Written  == {"idmap", "advance", "commit_batch"}
Holding  == Written \cup {"copy"}
Scanning == Holding \cup {"scan", "commit_done"}

Control ==
  /\ pc \in Scanning => cur \in Entity
  /\ pc \in Holding => \E d \in batch : \A x \in batch : x <= d
  /\ pc \notin Holding => batch = {} /\ out = {}
  /\ pc # "idle" => run.ns \in Namespace
  /\ IsFiniteSet(out)

-----------------------------------------------------------------------------
(* Entity e in database D: everything stored is behind the checkpoint,     *)
(* everything behind it is stored or dropped, and each loaded document has *)
(* one row, one set of children and the id_map row that names it.          *)
Issued(e, r, n) ==
  IF Strategy[e] \in Minted THEN r.key[1] \in Minted /\ r.key[2] <= n
  ELSE /\ r.key[1] \notin Minted
       /\ r.key[2] = Identity[e][r.src] /\ Identity[e][r.src] # 0

Behind(D, e) ==
  /\ \A d \in Sources(D.rows[e]) \cup D.dropped[e] : d <= D.ckpt[e].last
  /\ D.ckpt[e].last <= clock[e]

Covered(D, e) ==
  \A d \in source[e] :
    d <= D.ckpt[e].last => d \in Sources(D.rows[e]) \cup D.dropped[e]

Single(D, e) ==
  /\ \A r, s \in D.rows[e] : r.src = s.src => r = s
  /\ \A d \in Doc :
       D.children[e][d] = IF d \in Sources(D.rows[e]) THEN 1 ELSE 0

Mapped(D, e) ==
  \A r \in D.rows[e] : D.idmap[e][r.src] = r.key /\ Issued(e, r, D.seq[Target[e]])

Sound(D) == \A e \in Entity :
  Behind(D, e) /\ Covered(D, e) /\ Single(D, e) /\ Mapped(D, e)

-----------------------------------------------------------------------------
(* The batch: all the source holds between the checkpoint and its last     *)
(* document; and the rows built from it, whose ids nothing else has.       *)
BatchInv ==
  /\ pc \in Scanning => cursor = db.ckpt[cur].last
  /\ pc \in Holding =>
       /\ \A d \in batch : cursor < d /\ d <= clock[cur]
       /\ \A d \in source[cur] : cursor < d /\ d <= Newest(batch) => d \in batch
       /\ Sources(out) \subseteq batch
       /\ \A r, s \in out : r.src = s.src => r = s
       /\ \A r \in out : Issued(cur, r, tx.seq[Target[cur]])
       /\ \A r \in out : Strategy[cur] \in Minted => db.seq[Target[cur]] < r.key[2]
       /\ \A t \in Table : db.seq[t] <= tx.seq[t]

MappedBatch(map) ==
  [d \in Doc |-> IF d \in Sources(out) THEN (CHOOSE r \in out : r.src = d).key
                 ELSE map[d]]

(* What the open transaction has done to the committed database.           *)
TransactionInv ==
  /\ pc = "truncate" => Starts(run.only)
  /\ pc \in {"idle", "truncate", "entity", "scan"} => tx = db
  /\ pc \in {"reset", "commit_truncate"} => \A e \in Entity :
       tx.rows[e] = {} /\ tx.children[e] = [d \in Doc |-> 0]
  /\ pc = "commit_truncate" => \A e \in Entity :
       tx.ckpt[e] = NoCheckpoint /\ tx.dropped[e] = {}
  /\ pc \in Holding =>
       /\ tx.rows = IF pc \in Written
                    THEN [db.rows EXCEPT ![cur] = @ \cup out] ELSE db.rows
       /\ tx.children = IF pc \in Written
                        THEN [db.children EXCEPT ![cur] =
                                [d \in Doc |-> IF d \in Sources(out) THEN 1 ELSE @[d]]]
                        ELSE db.children
       /\ tx.idmap = IF pc \in {"advance", "commit_batch"}
                     THEN [db.idmap EXCEPT ![cur] = MappedBatch(@)] ELSE db.idmap
       /\ IF pc = "commit_batch"
          THEN /\ tx.dropped = [db.dropped EXCEPT ![cur] = @ \cup (batch \ Sources(out))]
               /\ tx.ckpt[cur].last = Newest(batch)
               /\ \A e \in Entity \ {cur} : tx.ckpt[e] = db.ckpt[e]
          ELSE tx.dropped = db.dropped /\ tx.ckpt = db.ckpt
  /\ pc = "commit_done" =>
       /\ \A e \in Entity : tx.ckpt[e].last = db.ckpt[e].last
       /\ tx = [db EXCEPT !.ckpt = tx.ckpt]

Clocked == \A e \in Entity : \A d \in source[e] : d <= clock[e]

LoadInvariant ==
  /\ TypeOK
  /\ Control
  /\ Clocked
  /\ Sound(db)
  /\ BatchInv
  /\ TransactionInv

-----------------------------------------------------------------------------
(* What the run has done: it has got past every document its finished      *)
(* entities had when it began, it loads an entity after the parents it     *)
(* selected, and holds the id_map of the parents as it is.                 *)
Truncating == {"truncate", "reset", "commit_truncate"}

Reached(e) == \A d \in source[e] : d <= run.since[e] => d <= db.ckpt[e].last

RunInv ==
  /\ \A e \in Entity : run.since[e] <= clock[e]
  /\ todo \subseteq Selected(run.only)
  /\ pc \in Truncating => run.mode = "truncate" /\ todo = Selected(run.only)
  /\ pc # "idle" => \A e \in Selected(run.only) \ todo : Reached(e)
  /\ pc \in Scanning =>
       /\ cur \in todo
       /\ Parents(cur) \cap todo = {}
       /\ run.since[cur] <= opened
       /\ \A p \in Parents(cur) : snap[p] = db.idmap[p]
  /\ pc = "commit_done" => Reached(cur)

(* rows_loaded, of what is committed and of what is about to be.           *)
CountInv ==
  /\ RowsCounted
  /\ \A e \in Entity : IsFiniteSet(db.rows[e])
  /\ pc = "commit_batch" => tx.ckpt[cur].loaded = db.ckpt[cur].loaded + Cardinality(out)
  /\ pc = "commit_done" => \A e \in Entity : tx.ckpt[e].loaded = db.ckpt[e].loaded

-----------------------------------------------------------------------------
(* No policy drops a document of an objectid_to_uuid entity.  Then the     *)
(* checkpointed document has a row, whose key shows the namespace of all.  *)
NoSkips == \A e \in Entity : Strategy[e] = "objectid_to_uuid" =>
  /\ ~SkipsNoIdentity[e]
  /\ \A k \in DOMAIN Lookups[e] : Lookups[e][k].onMissing # "skip_row"

(* id_strategy.source_field is _id, the value whose id the check expects   *)
(* the checkpointed document to have.                                      *)
IdsAreIdentities == \A e \in Entity : Strategy[e] = "objectid_to_uuid" =>
  \A d \in Doc : Identity[e][d] \in {0, d}

NamespaceInv == \A e \in Entity : Strategy[e] = "objectid_to_uuid" =>
  /\ \A r, s \in db.rows[e] : r.key[1] = s.key[1]
  /\ db.ckpt[e].last # 0 => db.ckpt[e].last \in Sources(db.rows[e])
  /\ e = cur /\ pc \in Scanning => \A r \in db.rows[e] : r.key[1] = run.ns
  /\ e = cur /\ pc \in Holding =>
       batch = Sources(out) /\ \A r \in out : r.key[1] = run.ns

(* No run empties a table.  Then every id_map row is the key of a row, and *)
(* what a snapshot answers is a row of the parent.                         *)
NothingTruncated ==
  \A c \in Commands : c.mode = "truncate" => ~TruncateAllowed(c.only)

Refers(e, r) == \A k \in DOMAIN Lookups[e] : r.fk[k] # None =>
  \E p \in db.rows[Lookups[e][k].to] :
    p.key = r.fk[k] /\ p.src = Reference[e][r.src][k]

ResolveInv ==
  /\ pc \notin {"reset", "commit_truncate"}
  /\ pc = "truncate" => ~TruncateAllowed(run.only)
  /\ \A e \in Entity : \A d \in Doc : db.idmap[e][d] # None =>
       \E r \in db.rows[e] : r.src = d /\ r.key = db.idmap[e][d]
  /\ \A e \in Entity : \A r \in db.rows[e] : Refers(e, r)
  /\ pc \in Holding => \A r \in out : Refers(cur, r)

(* With an entity, a run selects the entities it refers to - as every run  *)
(* without --only does.                                                    *)
Closed(only) == \A e \in Selected(only) : Parents(e) \subseteq Selected(only)

ParentsSelected == \A c \in Commands : Closed(c.only)

ParentsInv == pc # "idle" => Closed(run.only)

RunInvariant ==
  /\ LoadInvariant
  /\ RunInv
  /\ CountInv
  /\ NoSkips => NamespaceInv
  /\ NothingTruncated => ResolveInv
  /\ ParentsSelected => ParentsInv
=============================================================================
