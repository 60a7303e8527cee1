------------------------------- MODULE Resume -------------------------------
(***************************************************************************)
(* The cursor over one collection and the checkpoint it resumes from       *)
(* (_load_entity_batches in migrate/load.py, migrate/checkpoint.py), for   *)
(* _ids of any BSON type, documents inserted with any _id, and migrate     *)
(* processes that run side by side: nothing in the tool keeps them apart.  *)
(*                                                                         *)
(* Load models the statements of one process; here a batch is one step,    *)
(* its commit.  Rows are keyed by uuid5 of the _id, so that a document     *)
(* that is loaded twice meets its own primary key.                         *)
(***************************************************************************)
EXTENDS Integers, FiniteSets

CONSTANTS
  Ids,        \* _ids that documents may have, [kind, text]
  HexText,    \* texts that read as an ObjectId: 24 hexadecimal digits
  Process,    \* migrate processes
  Modes,      \* --mode values in use
  Beside,     \* those in which processes may run while another one runs
  BatchSize,  \* --batch-size
  None        \* SQL NULL; no document

(* A text stands for its place in the order of strings, which is also the  *)
(* order of the numbers, and of the ObjectIds, that print so.              *)
Text == Nat

ASSUME ConstantsAssumption ==
  /\ Ids \subseteq [kind : {"number", "string", "objectId"}, text : Text]
  /\ \A i, j \in Ids : i.text = j.text => i = j
  /\ HexText \subseteq Text
  /\ \A i \in Ids : /\ i.kind = "objectId" => i.text \in HexText
                    /\ i.kind = "number" => i.text \notin HexText
  /\ Beside \subseteq Modes
  /\ Modes \subseteq {"append", "upsert", "truncate"}
  /\ BatchSize \in Nat \ {0}
  /\ None \notin Ids /\ None \notin Text

VARIABLES
  docs,    \* the collection
  rows,    \* documents that have their row in the target table
  cp,      \* the checkpoint: [text |-> last_source_id, done |-> status]
  pc,      \* pc[p]: "idle", "opening" or "scanning"
  mode,    \* mode[p]: its --mode
  resume,  \* resume[p]: the text it resumes from
  at,      \* at[p]: last document its cursor received
  buffer,  \* buffer[p]: documents received and not yet loaded
  cursor,  \* cursor[p]: "open", "ended", or "dead" if Mongo closed it
  opened,  \* opened[p]: the collection when it opened its cursor
  late,    \* history: documents inserted behind one that was already read
  crossed  \* history: an upsert run was beside another process

process == <<pc, mode, resume, at, buffer, cursor, opened>>
history == <<late, crossed>>
vars    == <<docs, rows, cp, process, history>>

-----------------------------------------------------------------------------
(* BSON order: numbers, then strings, then ObjectIds.                      *)
Bracket(i) == CASE i.kind = "number" -> 1 [] i.kind = "string" -> 2 [] i.kind = "objectId" -> 3

Before(i, j) ==
  \/ Bracket(i) < Bracket(j)
  \/ Bracket(i) = Bracket(j) /\ i.text < j.text

(* What find({"_id": {"$gt": ...}}) selects when the checkpoint holds this *)
(* text: an ObjectId if it reads as one, else the string itself; $gt       *)
(* compares within one type.                                               *)
Selected(i, text) ==
  \/ text = None
  \/ text \in HexText    /\ i.kind = "objectId" /\ i.text > text
  \/ text \notin HexText /\ i.kind = "string"   /\ i.text > text

Running(p) == pc[p] # "idle"

Apart(p, m) ==
  \A q \in Process \ {p} : Running(q) => m \in Beside /\ mode[q] \in Beside

(* Mutant: a truncating run forgets the checkpoint and keeps the rows.     *)
StartKeepsRows(p, m) ==
  /\ ~Running(p)
  /\ Apart(p, m)
  /\ pc' = [pc EXCEPT ![p] = "opening"]
  /\ mode' = [mode EXCEPT ![p] = m]
  /\ cp' = IF m = "truncate" THEN [text |-> None, done |-> FALSE] ELSE cp
  /\ UNCHANGED <<docs, rows, resume, at, buffer, cursor, opened, history>>

(* load(): a truncating run empties the table and forgets the checkpoint,  *)
(* in one transaction, before it opens a cursor.                           *)
Start(p, m) ==
  /\ ~Running(p)
  /\ Apart(p, m)
  /\ pc' = [pc EXCEPT ![p] = "opening"]
  /\ mode' = [mode EXCEPT ![p] = m]
  /\ IF m = "truncate"
     THEN rows' = {} /\ cp' = [text |-> None, done |-> FALSE] /\ late' = {} /\ crossed' = FALSE
     ELSE /\ crossed' = IF \E q \in Process \ {p} : Running(q) /\ "upsert" \in {m, mode[q]}
                        THEN TRUE ELSE crossed
          /\ UNCHANGED <<rows, cp, late>>
  /\ UNCHANGED <<docs, resume, at, buffer, cursor, opened>>

(* The checkpoint is read once, when the cursor is opened.                 *)
Open(p) ==
  /\ pc[p] = "opening"
  /\ pc' = [pc EXCEPT ![p] = "scanning"]
  /\ resume' = [resume EXCEPT ![p] = cp.text]
  /\ opened' = [opened EXCEPT ![p] = docs]
  /\ UNCHANGED <<docs, rows, cp, mode, at, buffer, cursor, history>>

Rest(p) ==
  {i \in docs : Selected(i, resume[p]) /\ (at[p] # None => Before(at[p], i))}

UpTo(S, last) == {i \in S : ~Before(last, i)}

(* islice() draws on the cursor, and the cursor on replies of the server,  *)
(* which hold any number of the next documents; the last reply closes it.  *)
Receive(p) ==
  /\ pc[p] = "scanning"
  /\ cursor[p] = "open"
  /\ Cardinality(buffer[p]) < BatchSize
  /\ \/ \E last \in Rest(p) :
          /\ buffer' = [buffer EXCEPT ![p] = @ \cup UpTo(Rest(p), last)]
          /\ at' = [at EXCEPT ![p] = last]
          /\ \/ UNCHANGED cursor
             \/ UpTo(Rest(p), last) = Rest(p) /\ cursor' = [cursor EXCEPT ![p] = "ended"]
     \/ /\ Rest(p) = {}
        /\ cursor' = [cursor EXCEPT ![p] = "ended"]
        /\ UNCHANGED <<buffer, at>>
  /\ UNCHANGED <<docs, rows, cp, pc, mode, resume, opened, history>>

(* The next batch ends with the document last.                             *)
NextBatch(p, last) ==
  LET b == UpTo(buffer[p], last) IN
  /\ pc[p] = "scanning"
  /\ last \in buffer[p]
  /\ \/ Cardinality(b) = BatchSize
     \/ Cardinality(b) < BatchSize /\ b = buffer[p] /\ cursor[p] = "ended"

(* Mutant: COPY passes over rows that are there.                           *)
NeverCollides(p, last) == FALSE

(* COPY meets a primary key that is there; ON CONFLICT takes it over.      *)
Collides(p, last) ==
  mode[p] # "upsert" /\ UpTo(buffer[p], last) \cap rows # {}

(* Mutant: the checkpoint is taken from what was received.                 *)
CommitReceived(p) ==
  \E last \in buffer[p] :
    /\ NextBatch(p, last)
    /\ ~Collides(p, last)
    /\ rows' = rows \cup UpTo(buffer[p], last)
    /\ buffer' = [buffer EXCEPT ![p] = @ \ UpTo(@, last)]
    /\ cp' = [cp EXCEPT !.text = at[p].text]
    /\ UNCHANGED <<docs, pc, mode, resume, at, cursor, opened, history>>

(* One transaction: rows, id_map, checkpoint.  advance() overwrites the    *)
(* checkpoint, wherever it stands by now, and leaves the status alone.     *)
CommitBatch(p) ==
  \E last \in buffer[p] :
    /\ NextBatch(p, last)
    /\ ~Collides(p, last)
    /\ rows' = rows \cup UpTo(buffer[p], last)
    /\ buffer' = [buffer EXCEPT ![p] = @ \ UpTo(@, last)]
    /\ cp' = [cp EXCEPT !.text = last.text]
    /\ UNCHANGED <<docs, pc, mode, resume, at, cursor, opened, history>>

(* The process is gone, its open transaction and its cursor with it.       *)
Ends(p) ==
  /\ pc' = [pc EXCEPT ![p] = "idle"]
  /\ mode' = [mode EXCEPT ![p] = "append"]
  /\ resume' = [resume EXCEPT ![p] = None]
  /\ at' = [at EXCEPT ![p] = None]
  /\ buffer' = [buffer EXCEPT ![p] = {}]
  /\ cursor' = [cursor EXCEPT ![p] = "open"]
  /\ opened' = [opened EXCEPT ![p] = {}]

BatchCollides(p) ==
  /\ \E last \in buffer[p] : NextBatch(p, last) /\ Collides(p, last)
  /\ Ends(p)
  /\ UNCHANGED <<docs, rows, cp, history>>

(* A cursor on a collection that was dropped or replaced.                  *)
CursorDead(p) ==
  /\ cursor[p] = "dead"
  /\ Cardinality(buffer[p]) < BatchSize
  /\ Ends(p)
  /\ UNCHANGED <<docs, rows, cp, history>>

(* Mutant: a process that was killed is not one to be run again.           *)
KillForGood(p) ==
  /\ Running(p)
  /\ pc' = [pc EXCEPT ![p] = "killed"]
  /\ UNCHANGED <<docs, rows, cp, mode, resume, at, buffer, cursor, opened, history>>

Kill(p) ==
  /\ Running(p)
  /\ Ends(p)
  /\ UNCHANGED <<docs, rows, cp, history>>

(* Mutant: what is left of a last, partial batch is forgotten.             *)
MarkDoneEarly(p) ==
  /\ pc[p] = "scanning"
  /\ cursor[p] = "ended"
  /\ Cardinality(buffer[p]) < BatchSize
  /\ cp' = [cp EXCEPT !.done = TRUE]
  /\ Ends(p)
  /\ UNCHANGED <<docs, rows, history>>

(* The cursor has nothing more: the entity is done.                        *)
MarkDone(p) ==
  /\ pc[p] = "scanning"
  /\ cursor[p] = "ended"
  /\ buffer[p] = {}
  /\ cp' = [cp EXCEPT !.done = TRUE]
  /\ Ends(p)
  /\ UNCHANGED <<docs, rows, history>>

(* Documents that are read, or loaded, and do not come before i.           *)
Passed(i) ==
  \/ \E j \in rows : ~Before(j, i)
  \/ \E p \in Process : at[p] # None /\ ~Before(at[p], i)

InsertDoc(i) ==
  /\ i \notin docs
  /\ docs' = docs \cup {i}
  /\ late' = IF Passed(i) THEN late \cup {i} ELSE late
  /\ UNCHANGED <<rows, cp, process, crossed>>

Init ==
  /\ docs \in SUBSET Ids
  /\ rows = {}
  /\ cp = [text |-> None, done |-> FALSE]
  /\ pc = [p \in Process |-> "idle"]
  /\ mode = [p \in Process |-> "append"]
  /\ resume = [p \in Process |-> None]
  /\ at = [p \in Process |-> None]
  /\ buffer = [p \in Process |-> {}]
  /\ cursor = [p \in Process |-> "open"]
  /\ opened = [p \in Process |-> {}]
  /\ late = {}
  /\ crossed = FALSE

Migrate(p) ==
  \/ \E m \in Modes : Start(p, m)
  \/ Open(p) \/ Receive(p) \/ CommitBatch(p) \/ BatchCollides(p)
  \/ CursorDead(p) \/ MarkDone(p) \/ Kill(p)

Next ==
  \/ \E p \in Process : Migrate(p)
  \/ \E i \in Ids : InsertDoc(i)

Spec == Init /\ [][Next]_vars

-----------------------------------------------------------------------------
TypeOK ==
  /\ docs \subseteq Ids /\ rows \subseteq Ids /\ late \subseteq Ids
  /\ crossed \in BOOLEAN
  /\ cp \in [text : Text \cup {None}, done : BOOLEAN]
  /\ pc \in [Process -> {"idle", "opening", "scanning"}]
  /\ mode \in [Process -> {"append", "upsert", "truncate"}]
  /\ resume \in [Process -> Text \cup {None}]
  /\ at \in [Process -> Ids \cup {None}]
  /\ buffer \in [Process -> SUBSET Ids]
  /\ cursor \in [Process -> {"open", "ended", "dead"}]
  /\ opened \in [Process -> SUBSET Ids]

(* What a resume would not read again is loaded, however many processes    *)
(* advanced the checkpoint, and even where one set it back: no document is *)
(* left behind unless it was inserted behind another that was read.        *)
NothingBehind ==
  \A i \in docs \ late : Selected(i, cp.text) \/ i \in rows

(* What a resume would read again is not loaded, so that an append run     *)
(* that resumes meets no row of an earlier one: only a late document, or   *)
(* an upsert run beside another process, sets the checkpoint back.         *)
NothingAhead ==
  (late = {} /\ ~crossed) =>
    \A i \in rows : cp.text # None /\ ~Selected(i, cp.text)

(* A run that ends well has loaded every document that was there when it   *)
(* opened its cursor, also those that another process was to load.         *)
DoneIsComplete ==
  [][\A p \in Process : MarkDone(p) => opened[p] \ late \subseteq rows]_vars
=============================================================================
