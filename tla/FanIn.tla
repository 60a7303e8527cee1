-------------------------------- MODULE FanIn --------------------------------
(***************************************************************************)
(* mongopg-fanin (fanin_reshape.py): one document for each group of a      *)
(* collection is written to a derived collection, which migrate then       *)
(* reads.  The derived collection is the docs of Resume, so that this is   *)
(* also how a collection changes under the cursors of running migrates.    *)
(***************************************************************************)
EXTENDS Resume

CONSTANTS
  Group,       \* Group[i]: value of --group-by in document i
  Stamp,       \* Stamp[i]: value of --pick-latest-by
  InsertSize,  \* documents to an insert_many: 1000 in the code
  Outputs      \* --mode in use, where "rebuild" is what --mode out does in
               \*   an internal database

ASSUME FanInAssumption ==
  /\ Stamp \in [Ids -> Int] /\ DOMAIN Group = Ids
  /\ InsertSize \in Nat \ {0}
  /\ Outputs \subseteq {"out", "merge", "rebuild"}

VARIABLES
  raw,      \* the source collection, which only grows
  todo,     \* derived documents that the rebuild has in memory
  rebuilds, \* a client-side rebuild is under way
  wanted,   \* history: the groups the last successful reshape found
  whole     \* history: no reshape broke off since

fvars == <<raw, todo, rebuilds, wanted, whole>>

GroupsOf(S) == {Group[i] : i \in S}

(* $sort, $group, $first: of the documents with the best stamp, any one.   *)
Picks(W) ==
  /\ \A i \in W : \A j \in raw : Group[j] = Group[i] => Stamp[j] <= Stamp[i]
  /\ \A i, j \in W : Group[i] = Group[j] => i = j
  /\ GroupsOf(W) = GroupsOf(raw)

(* docs becomes S; a cursor on a collection that was dropped is closed.    *)
Become(S) ==
  /\ docs' = S
  /\ late' = late \cup {i \in S \ docs : Passed(i)}

CloseCursors ==
  cursor' = [p \in Process |->
               IF pc[p] = "scanning" /\ cursor[p] = "open" THEN "dead" ELSE cursor[p]]

Untouched == UNCHANGED <<rows, cp, pc, mode, resume, at, buffer, opened, crossed>>

AddRaw(i) ==
  /\ i \notin raw
  /\ raw' = raw \cup {i}
  /\ UNCHANGED <<vars, todo, rebuilds, wanted, whole>>

(* $out: the server builds the result aside and swaps it in.               *)
ReshapeOut(W) ==
  /\ "out" \in Outputs /\ ~rebuilds
  /\ Become(W) /\ CloseCursors
  /\ wanted' = GroupsOf(W) /\ whole' = TRUE
  /\ Untouched /\ UNCHANGED <<raw, todo, rebuilds>>

(* In the derived collection another document stands for the group of i.   *)
Replaces(i) == \E j \in docs : j # i /\ Group[j] = Group[i]

(* Mutant: a document with another _id is inserted, not matched.           *)
ReshapeMergeOnId(W) ==
  /\ "merge" \in Outputs /\ ~rebuilds
  /\ Become(docs \cup W)
  /\ wanted' = GroupsOf(W) /\ whole' = TRUE
  /\ Untouched /\ UNCHANGED <<raw, todo, rebuilds, cursor>>

(* $merge on the group key, which a unique index covers: documents go in   *)
(* one by one, and the server refuses to replace one by another _id, which *)
(* ends the command wherever it stands.                                    *)
ReshapeMerge(W) ==
  /\ "merge" \in Outputs /\ ~rebuilds
  /\ \/ /\ \A i \in W : ~Replaces(i)
        /\ Become(docs \cup W)
        /\ wanted' = GroupsOf(W) /\ whole' = TRUE
     \/ /\ \E i \in W : Replaces(i)
        /\ \E some \in SUBSET {i \in W : ~Replaces(i)} : Become(docs \cup some)
        /\ UNCHANGED <<wanted, whole>>
  /\ Untouched /\ UNCHANGED <<raw, todo, rebuilds, cursor>>

(* Code 31321: the pipeline is read into memory, the destination dropped.  *)
RebuildDrop(W) ==
  /\ "rebuild" \in Outputs /\ ~rebuilds
  /\ Become({}) /\ CloseCursors
  /\ todo' = W /\ rebuilds' = TRUE
  /\ wanted' = GroupsOf(W) /\ whole' = FALSE
  /\ Untouched /\ UNCHANGED raw

RebuildInsert ==
  /\ rebuilds /\ todo # {}
  /\ \E b \in SUBSET todo :
       /\ Cardinality(b) = InsertSize \/ (Cardinality(b) < InsertSize /\ b = todo)
       /\ Become(docs \cup b)
       /\ todo' = todo \ b
  /\ Untouched /\ UNCHANGED <<raw, rebuilds, wanted, whole, cursor>>

RebuildEnd ==
  /\ rebuilds /\ todo = {}
  /\ rebuilds' = FALSE /\ whole' = TRUE
  /\ UNCHANGED <<vars, raw, todo, wanted>>

RebuildKilled ==
  /\ rebuilds
  /\ rebuilds' = FALSE /\ todo' = {}
  /\ UNCHANGED <<vars, raw, wanted, whole>>

FanInInit ==
  /\ raw = {} /\ todo = {} /\ rebuilds = FALSE
  /\ wanted = {} /\ whole = FALSE

Reshape(W) == Picks(W) /\ (ReshapeOut(W) \/ ReshapeMerge(W) \/ RebuildDrop(W))

(* Of a derived collection, one migrate is run at a time.                  *)
FanInNext ==
  \/ \E i \in Ids : AddRaw(i)
  \/ \E W \in SUBSET raw : Reshape(W)
  \/ RebuildInsert \/ RebuildEnd \/ RebuildKilled
  \/ \E p \in Process : /\ {q \in Process \ {p} : Running(q)} = {}
                        /\ Migrate(p)
                        /\ UNCHANGED fvars

FanInSpec == Init /\ docs = {} /\ FanInInit /\ [][FanInNext]_<<vars, fvars>>

-----------------------------------------------------------------------------
(* After a reshape that went through, and whatever reshapes failed before  *)
(* or since, each group it found has one document: none is missing and no  *)
(* former winner is left beside the new one.  A rebuild that was killed is *)
(* the exception: it leaves a part, which looks like a whole.              *)
OnePerGroup ==
  whole => \A g \in wanted : Cardinality({i \in docs : Group[i] = g}) = 1

(* A truncating migrate that nothing came between gives each group one     *)
(* row.  (An append or upsert run after a second reshape does not: a new   *)
(* winner has another _id, and the row of the former one stays.)           *)
OneRowPerGroup ==
  [][\A p \in Process :
       (MarkDone(p) /\ mode[p] = "truncate" /\ whole /\ opened[p] = docs) =>
         \A g \in wanted : Cardinality({i \in rows : Group[i] = g}) = 1]_<<vars, fvars>>
=============================================================================
