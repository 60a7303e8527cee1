----------------------------- MODULE ResumeProofs -----------------------------
(***************************************************************************)
(* Any number of migrate processes over one collection: no resume leaves a *)
(* document behind, and none is loaded again by an append run.  And over a *)
(* collection that mongopg-fanin makes: each group has one document, and   *)
(* after a truncating run one row.                                         *)
(***************************************************************************)
EXTENDS FanIn, FiniteSetTheorems, TLAPS

(* All _ids are ObjectIds, or strings that do not read as one.             *)
OneType ==
  \/ \A i \in Ids : i.kind = "objectId"
  \/ \A i \in Ids : i.kind = "string" /\ i.text \notin HexText

(* A truncating run is not started beside another one, nor another beside. *)
TruncateAlone == "truncate" \notin Beside

(* A text a checkpoint held is that of a document that was loaded.         *)
Reached(text) == text = None \/ \E j \in rows : j.text = text

(* What a process has not loaded, it holds or has yet to read.             *)
Scan(p) ==
  /\ Reached(resume[p])
  /\ \A i \in docs \ late : i \in rows \/ i \in buffer[p] \/ i \in Rest(p)
  /\ buffer[p] \subseteq docs /\ opened[p] \subseteq docs
  /\ \A i \in buffer[p] : at[p] # None /\ ~Before(at[p], i)
  /\ cursor[p] = "ended" => opened[p] \cap Rest(p) = {}

(* An upsert run that is alone reads on from the checkpoint.               *)
ReadsOn(p) == \A i \in buffer[p] \cup Rest(p) : Selected(i, cp.text)

ResumeInvariant ==
  /\ TypeOK
  /\ Reached(cp.text)
  /\ NothingBehind
  /\ \A p \in Process : pc[p] = "scanning" => Scan(p)
  /\ \A p \in Process : pc[p] # "scanning" =>
       at[p] = None /\ buffer[p] = {} /\ cursor[p] = "open"
  /\ \A p, q \in Process : p # q /\ Running(p) /\ Running(q) => mode[p] \in Beside

AheadInvariant ==
  /\ NothingAhead
  /\ ~crossed => \A p, q \in Process : p # q /\ Running(p) /\ Running(q) => mode[p] # "upsert"
  /\ late = {} /\ ~crossed => \A p \in Process :
       pc[p] = "scanning" /\ mode[p] = "upsert" => ReadsOn(p)

-----------------------------------------------------------------------------
(* S has no two documents of one group.                                    *)
Apiece(S) == \A i, j \in S : Group[i] = Group[j] => i = j

(* A truncating run started over: its rows and what it holds are documents *)
(* of one and the same collection, all of it once its cursor has ended.    *)
Fresh(p) ==
  /\ pc[p] = "opening" => rows = {} /\ cp.text = None
  /\ pc[p] = "scanning" =>
       /\ resume[p] = None
       /\ Apiece(rows \cup buffer[p])
       /\ cursor[p] = "open" =>
            /\ rows \cup buffer[p] \subseteq docs
            /\ opened[p] \subseteq rows \cup buffer[p] \cup Rest(p)
       /\ cursor[p] = "ended" => opened[p] \subseteq rows \cup buffer[p]

(* What was reshaped, and what a rebuild has yet to insert, have one       *)
(* document for each group that is wanted.                                 *)
ShapeInv ==
  /\ raw \subseteq Ids /\ todo \subseteq Ids /\ docs \subseteq Ids
  /\ rebuilds \in BOOLEAN /\ whole \in BOOLEAN
  /\ Apiece(docs \cup todo)
  /\ rebuilds => ~whole
  /\ ~rebuilds => todo = {}
  /\ whole \/ rebuilds => wanted \subseteq GroupsOf(docs \cup todo)

AloneInv ==
  /\ \A p, q \in Process : Running(p) /\ Running(q) => p = q
  /\ \A p \in Process : pc[p] # "scanning" =>
       at[p] = None /\ buffer[p] = {} /\ cursor[p] = "open"
  /\ \A p \in Process : mode[p] = "truncate" => Fresh(p)

FanInInvariant == TypeOK /\ ShapeInv /\ AloneInv

-----------------------------------------------------------------------------
(* Every statement of migrate leaves well-formed what it changes.          *)
LEMMA StartType ==
  ASSUME TypeOK, NEW p \in Process, NEW m \in Modes, Start(p, m)
  PROVE  TypeOK'
<1>1. m \in {"append", "upsert", "truncate"}
  BY ConstantsAssumption DEF ConstantsAssumption
<1>2. crossed' \in BOOLEAN
  <2> DEFINE Cross == \E q \in Process \ {p} : Running(q) /\ "upsert" \in {m, mode[q]}
  <2>1. CASE m = "truncate"
    BY <2>1, Zenon DEF Start
  <2>2. CASE m # "truncate"
    <3>1. crossed' = IF Cross THEN TRUE ELSE crossed
      BY <2>2, Zenon DEF Start
    <3>2. crossed \in BOOLEAN
      BY DEF TypeOK
    <3> QED BY <3>1, <3>2, Zenon
  <2> QED BY <2>1, <2>2
<1>3. rows' \subseteq Ids /\ late' \subseteq Ids
  BY DEF TypeOK, Start
<1>4. cp' \in [text : Text \cup {None}, done : BOOLEAN]
  <2>1. cp' = [text |-> None, done |-> FALSE] \/ cp' = cp
    BY Zenon DEF Start
  <2>2. [text |-> None, done |-> FALSE] \in [text : Text \cup {None}, done : BOOLEAN]
    OBVIOUS
  <2>3. cp \in [text : Text \cup {None}, done : BOOLEAN]
    BY DEF TypeOK
  <2> QED BY <2>1, <2>2, <2>3
<1>5. pc' \in [Process -> {"idle", "opening", "scanning"}]
  BY DEF TypeOK, Start
<1>6. mode' \in [Process -> {"append", "upsert", "truncate"}]
  BY <1>1 DEF TypeOK, Start
<1> QED BY <1>2, <1>3, <1>4, <1>5, <1>6 DEF TypeOK, Start

LEMMA ReceiveType ==
  ASSUME TypeOK, NEW p \in Process, Receive(p)
  PROVE  TypeOK'
<1>1. Rest(p) \subseteq Ids
  BY DEF Rest, TypeOK
<1>2. cursor' \in [Process -> {"open", "ended", "dead"}]
  BY DEF TypeOK, Receive
<1>3. at' \in [Process -> Ids \cup {None}]
  BY <1>1 DEF TypeOK, Receive
<1>4. buffer' \in [Process -> SUBSET Ids]
  BY <1>1 DEF TypeOK, Receive, UpTo
<1> QED BY <1>2, <1>3, <1>4 DEF TypeOK, Receive, history

LEMMA CommitType ==
  ASSUME TypeOK, NEW p \in Process, CommitBatch(p)
  PROVE  TypeOK'
<1>1. PICK last \in buffer[p] :
        /\ rows' = rows \cup UpTo(buffer[p], last)
        /\ buffer' = [buffer EXCEPT ![p] = @ \ UpTo(@, last)]
        /\ cp' = [cp EXCEPT !.text = last.text]
        /\ UNCHANGED <<docs, pc, mode, resume, at, cursor, opened, history>>
  BY DEF CommitBatch
<1>2. buffer[p] \subseteq Ids /\ last \in Ids
  BY <1>1 DEF TypeOK
<1>3. last.text \in Text
  BY <1>2, ConstantsAssumption DEF ConstantsAssumption
<1>4. buffer' \in [Process -> SUBSET Ids]
  BY <1>1 DEF TypeOK
<1>5. rows' \subseteq Ids
  BY <1>1, <1>2 DEF TypeOK, UpTo
<1>6. cp' \in [text : Text \cup {None}, done : BOOLEAN]
  BY <1>1, <1>3 DEF TypeOK
<1> QED BY <1>1, <1>4, <1>5, <1>6 DEF TypeOK, history

LEMMA EndsType ==
  ASSUME TypeOK, NEW p \in Process, Ends(p), UNCHANGED <<docs, rows, history>>,
         cp' \in [text : Text \cup {None}, done : BOOLEAN]
  PROVE  TypeOK'
<1>1. mode' \in [Process -> {"append", "upsert", "truncate"}] /\ buffer' \in [Process -> SUBSET Ids]
  BY DEF Ends, TypeOK
<1>2. resume' \in [Process -> Text \cup {None}] /\ at' \in [Process -> Ids \cup {None}]
  BY DEF Ends, TypeOK
<1>3. cursor' \in [Process -> {"open", "ended", "dead"}] /\ opened' \in [Process -> SUBSET Ids]
  BY DEF Ends, TypeOK
<1>4. pc' \in [Process -> {"idle", "opening", "scanning"}]
  BY DEF Ends, TypeOK
<1> QED BY <1>1, <1>2, <1>3, <1>4 DEF TypeOK, history

LEMMA EndingActions ==
  ASSUME TypeOK, NEW p \in Process,
         BatchCollides(p) \/ CursorDead(p) \/ MarkDone(p) \/ Kill(p)
  PROVE  /\ Ends(p) /\ UNCHANGED <<docs, rows, history>>
         /\ cp'.text = cp.text /\ cp' \in [text : Text \cup {None}, done : BOOLEAN]
BY DEF BatchCollides, CursorDead, MarkDone, Kill, TypeOK

LEMMA MigrateType ==
  ASSUME TypeOK, NEW p \in Process, Migrate(p)
  PROVE  TypeOK'
<1>1. CASE Open(p)
  <2>1. resume' \in [Process -> Text \cup {None}] /\ opened' \in [Process -> SUBSET Ids]
    BY <1>1 DEF TypeOK, Open
  <2>2. pc' \in [Process -> {"idle", "opening", "scanning"}]
    BY <1>1 DEF TypeOK, Open
  <2> QED BY <1>1, <2>1, <2>2 DEF TypeOK, Open, history
<1>2. CASE BatchCollides(p) \/ CursorDead(p) \/ MarkDone(p) \/ Kill(p)
  BY <1>2, EndingActions, EndsType
<1> QED BY <1>1, <1>2, StartType, ReceiveType, CommitType DEF Migrate

LEMMA StepType ==
  ASSUME TypeOK, [Next]_vars
  PROVE  TypeOK'
<1>1. ASSUME NEW i \in Ids, InsertDoc(i) PROVE TypeOK'
  <2>1. docs' \subseteq Ids /\ late' \subseteq Ids
    BY <1>1 DEF InsertDoc, TypeOK
  <2> QED BY <1>1, <2>1 DEF InsertDoc, process, TypeOK
<1>2. CASE UNCHANGED vars
  BY <1>2 DEF vars, process, history, TypeOK
<1> QED BY <1>1, <1>2, MigrateType DEF Next

LEMMA InitType == ASSUME Init PROVE TypeOK
BY ConstantsAssumption DEF ConstantsAssumption, Init, TypeOK

(* Every state of processes and collection is well formed, whatever the    *)
(* _ids are and however many processes run.                                *)
THEOREM ResumeTypeCorrect == Spec => []TypeOK
BY InitType, StepType, PTL DEF Spec

-----------------------------------------------------------------------------
(* With one type of _id, $gt, sort() and the texts have one order.         *)
LEMMA OneOrder ==
  ASSUME OneType, NEW i \in Ids, NEW j \in Ids
  PROVE  /\ i.text \in Nat /\ j.text \in Nat
         /\ Before(i, j) <=> i.text < j.text
         /\ Selected(i, j.text) <=> j.text < i.text
<1>1. i \in [kind : {"number", "string", "objectId"}, text : Nat]
  BY ConstantsAssumption DEF ConstantsAssumption, Text
<1>2. j \in [kind : {"number", "string", "objectId"}, text : Nat]
  BY ConstantsAssumption DEF ConstantsAssumption, Text
<1>3. j.text # None
  BY <1>2, ConstantsAssumption DEF ConstantsAssumption, Text
<1>4. CASE \A k \in Ids : k.kind = "objectId"
  <2>1. i.kind = "objectId" /\ j.kind = "objectId" /\ j.text \in HexText
    BY <1>4, ConstantsAssumption DEF ConstantsAssumption
  <2> QED BY <1>1, <1>2, <1>3, <2>1 DEF Before, Bracket, Selected
<1>5. CASE \A k \in Ids : k.kind = "string" /\ k.text \notin HexText
  <2>1. i.kind = "string" /\ j.kind = "string" /\ j.text \notin HexText
    BY <1>5
  <2> QED BY <1>1, <1>2, <1>3, <2>1 DEF Before, Bracket, Selected
<1> QED BY <1>4, <1>5 DEF OneType

LEMMA FromTheStart == ASSUME NEW i PROVE Selected(i, None)
BY DEF Selected

(* A document that is not late comes after every checkpoint.               *)
LEMMA NotLateIsAhead ==
  ASSUME OneType, TypeOK, NEW i \in Ids, ~Passed(i), NEW text, Reached(text)
  PROVE  Selected(i, text)
<1>1. CASE text = None
  BY <1>1, FromTheStart
<1>2. CASE \E j \in rows : j.text = text
  <2>1. PICK j \in rows : j.text = text
    BY <1>2
  <2>2. j \in Ids /\ Before(j, i)
    BY <2>1 DEF TypeOK, Passed
  <2> QED BY <2>1, <2>2, OneOrder
<1> QED BY <1>1, <1>2 DEF Reached

(* A process keeps its place while others load, and Mongo closes cursors.  *)
LEMMA ScanKept ==
  ASSUME NEW q \in Process, Scan(q), UNCHANGED <<docs, late>>, rows \subseteq rows',
         resume'[q] = resume[q], at'[q] = at[q], buffer'[q] = buffer[q],
         cursor'[q] = cursor[q], opened'[q] = opened[q]
  PROVE  Scan(q)'
<1>1. Rest(q)' = Rest(q)
  BY DEF Rest
<1>2. Reached(resume[q])'
  BY DEF Scan, Reached
<1> QED BY <1>1, <1>2 DEF Scan

-----------------------------------------------------------------------------
LEMMA StartKeeps ==
  ASSUME TruncateAlone, ResumeInvariant, NEW p \in Process, NEW m \in Modes, Start(p, m)
  PROVE  ResumeInvariant'
<1> USE DEF ResumeInvariant
<1>1. TypeOK'
  BY StartType
<1>2. \A q \in Process : q # p => pc'[q] = pc[q] /\ mode'[q] = mode[q]
  BY DEF Start, TypeOK
<1>3. pc'[p] = "opening" /\ mode'[p] = m /\ pc[p] = "idle"
  BY DEF Start, TypeOK, Running
<1>4. CASE m = "truncate"
  <2>1. \A q \in Process : q # p => pc'[q] = "idle"
    BY <1>2, <1>4 DEF Start, Apart, TruncateAlone, Running
  <2>2. cp'.text = None
    BY <1>4 DEF Start
  <2>3. Reached(cp.text)' /\ NothingBehind'
    BY <2>2, FromTheStart DEF Reached, NothingBehind
  <2>4. \A q \in Process : pc'[q] # "scanning"
    BY <2>1, <1>3
  <2>5. \A q \in Process : at'[q] = None /\ buffer'[q] = {} /\ cursor'[q] = "open"
    <3> TAKE q \in Process
    <3>1. pc[q] # "scanning"
      BY <1>2, <1>3, <2>1
    <3> QED BY <3>1 DEF Start
  <2> QED BY <1>1, <1>3, <2>1, <2>3, <2>4, <2>5 DEF Running
<1>5. CASE m # "truncate"
  <2>1. UNCHANGED <<docs, rows, cp, late, resume, at, buffer, cursor, opened>>
    BY <1>5 DEF Start
  <2>2. Reached(cp.text)' /\ NothingBehind'
    BY <2>1 DEF Reached, NothingBehind
  <2>3. ASSUME NEW q \in Process, pc'[q] = "scanning" PROVE Scan(q)'
    <3>1. pc[q] = "scanning"
      BY <1>2, <1>3, <2>3
    <3>2. Scan(q)
      BY <3>1
    <3> QED BY <2>1, <3>2, ScanKept
  <2>4. ASSUME NEW q \in Process, pc'[q] # "scanning"
        PROVE  (at[q] = None /\ buffer[q] = {} /\ cursor[q] = "open")'
    <3>1. pc[q] # "scanning"
      BY <1>2, <1>3, <2>4
    <3> QED BY <2>1, <3>1
  <2>5. ASSUME NEW q \in Process, NEW r \in Process, q # r, Running(q)', Running(r)'
        PROVE  mode'[q] \in Beside
    <3>1. CASE q = p
      BY <1>2, <1>3, <2>5, <3>1 DEF Start, Apart, Running
    <3>2. CASE r = p
      BY <1>2, <1>3, <2>5, <3>2 DEF Start, Apart, Running
    <3>3. CASE q # p /\ r # p
      BY <1>2, <2>5, <3>3 DEF Running
    <3> QED BY <3>1, <3>2, <3>3
  <2> QED BY <1>1, <2>2, <2>3, <2>4, <2>5
<1> QED BY <1>4, <1>5

LEMMA OpenKeeps ==
  ASSUME OneType, ResumeInvariant, NEW p \in Process, Open(p)
  PROVE  ResumeInvariant'
<1> USE DEF ResumeInvariant
<1>1. TypeOK'
  BY MigrateType DEF Migrate
<1>2. \A q \in Process : q # p => pc'[q] = pc[q] /\ resume'[q] = resume[q] /\ opened'[q] = opened[q]
  BY DEF Open, TypeOK
<1>3. pc[p] = "opening" /\ pc'[p] = "scanning" /\ resume'[p] = cp.text /\ opened'[p] = docs
  BY DEF Open, TypeOK
<1>4. UNCHANGED <<docs, rows, cp, late, mode, at, buffer, cursor>>
  BY DEF Open, history
<1>5. Reached(cp.text)' /\ NothingBehind'
  BY <1>4 DEF Reached, NothingBehind
<1>6. ASSUME NEW q \in Process, pc'[q] = "scanning" PROVE Scan(q)'
  <2>1. CASE q = p
    <3>1. at[p] = None /\ buffer[p] = {} /\ cursor[p] = "open"
      BY <1>3
    <3>2. \A i \in docs \ late : i \in rows \/ i \in Rest(p)'
      BY <1>3, <1>4, <3>1 DEF NothingBehind, Rest, Selected
    <3> QED BY <1>3, <1>4, <1>5, <2>1, <3>1, <3>2 DEF Scan
  <2>2. CASE q # p
    <3>1. Scan(q)
      BY <1>2, <1>6, <2>2
    <3> QED BY <1>2, <1>4, <2>2, <3>1, ScanKept
  <2> QED BY <2>1, <2>2
<1>7. ASSUME NEW q \in Process, pc'[q] # "scanning"
      PROVE  (at[q] = None /\ buffer[q] = {} /\ cursor[q] = "open")'
  BY <1>2, <1>3, <1>4, <1>7
<1>8. \A q \in Process : Running(q)' <=> Running(q)
  BY <1>2, <1>3 DEF Running
<1> QED BY <1>1, <1>4, <1>5, <1>6, <1>7, <1>8

LEMMA ReceiveKeeps ==
  ASSUME OneType, ResumeInvariant, NEW p \in Process, Receive(p)
  PROVE  ResumeInvariant'
<1> USE DEF ResumeInvariant
<1>1. UNCHANGED <<docs, rows, cp, late, mode, pc, resume, opened>>
  BY DEF Receive, history
<1>2. Rest(p) \subseteq Ids
  BY DEF Rest, TypeOK
<1>3. TypeOK'
  BY ReceiveType
<1>4. \A q \in Process : q # p => at'[q] = at[q] /\ buffer'[q] = buffer[q] /\ cursor'[q] = cursor[q]
  BY DEF Receive, TypeOK
<1>5. pc[p] = "scanning" /\ Scan(p)
  BY DEF Receive
<1>6. Reached(cp.text)' /\ NothingBehind'
  BY <1>1 DEF Reached, NothingBehind
<1>7. Scan(p)'
  <2>1. CASE Rest(p) = {} /\ cursor' = [cursor EXCEPT ![p] = "ended"] /\ UNCHANGED <<buffer, at>>
    <3>1. Rest(p)' = {}
      BY <1>1, <2>1 DEF Rest, Selected, Before, Bracket
    <3> QED BY <1>1, <1>5, <2>1, <3>1 DEF Scan, Reached
  <2>2. ASSUME NEW last \in Rest(p),
               buffer' = [buffer EXCEPT ![p] = @ \cup UpTo(Rest(p), last)],
               at' = [at EXCEPT ![p] = last],
               \/ UNCHANGED cursor
               \/ UpTo(Rest(p), last) = Rest(p) /\ cursor' = [cursor EXCEPT ![p] = "ended"]
        PROVE  Scan(p)'
    <3>1. buffer'[p] = buffer[p] \cup UpTo(Rest(p), last) /\ at'[p] = last
      BY <2>2 DEF TypeOK
    <3>2. last \in Ids /\ last # None
      BY <1>2, ConstantsAssumption DEF ConstantsAssumption
    <3>3. Rest(p)' = {i \in docs : Selected(i, resume[p]) /\ Before(last, i)}
      BY <1>1, <3>1, <3>2 DEF Rest, Selected, Before, Bracket
    <3>4. \A i \in Rest(p) : i \in UpTo(Rest(p), last) \/ i \in Rest(p)'
      BY <3>3 DEF UpTo, Rest
    <3>5. Rest(p)' \subseteq Rest(p)
      <4> SUFFICES ASSUME NEW i \in Rest(p)', at[p] # None PROVE Before(at[p], i)
        BY <3>3 DEF Rest
      <4>1. Before(last, i) /\ i \in Ids
        BY <3>3 DEF TypeOK
      <4>2. Before(at[p], last) /\ at[p] \in Ids
        BY DEF Rest, TypeOK
      <4> QED BY <4>1, <4>2, <3>2, OneOrder
    <3>6. \A i \in buffer'[p] : ~Before(last, i)
      <4> SUFFICES ASSUME NEW i \in buffer[p] PROVE ~Before(last, i)
        BY <3>1 DEF UpTo
      <4>1. at[p] # None /\ at[p] \in Ids /\ ~Before(at[p], i) /\ i \in Ids
        BY <1>5 DEF Scan, TypeOK
      <4>2. Before(at[p], last)
        BY <4>1 DEF Rest
      <4> QED BY <4>1, <4>2, <3>2, OneOrder
    <3>7. cursor'[p] = "ended" => opened[p] \cap Rest(p)' = {}
      <4>1. CASE cursor'[p] = cursor[p]
        BY <1>5, <3>5, <4>1 DEF Scan
      <4>2. CASE UpTo(Rest(p), last) = Rest(p)
        BY <3>3, <3>5, <4>2 DEF UpTo
      <4> QED BY <2>2, <4>1, <4>2
    <3>8. UpTo(Rest(p), last) \subseteq docs
      BY DEF UpTo, Rest
    <3>9. \A i \in docs \ late : i \in rows \/ i \in buffer'[p] \/ i \in Rest(p)'
      BY <1>5, <3>1, <3>4 DEF Scan
    <3>10. \A i \in buffer'[p] : at'[p] # None /\ ~Before(at'[p], i)
      BY <3>1, <3>2, <3>6
    <3>11. buffer'[p] \subseteq docs /\ opened[p] \subseteq docs /\ Reached(resume[p])
      BY <1>5, <3>1, <3>8 DEF Scan
    <3> QED BY <1>1, <3>7, <3>9, <3>10, <3>11 DEF Scan, Reached
  <2> QED BY <2>1, <2>2 DEF Receive
<1>8. ASSUME NEW q \in Process, q # p, pc'[q] = "scanning" PROVE Scan(q)'
  BY <1>1, <1>4, <1>8, ScanKept
<1>9. \A q \in Process : Running(q)' <=> Running(q)
  BY <1>1 DEF Running
<1>10. \A q \in Process : pc'[q] # "scanning" => at'[q] = None /\ buffer'[q] = {} /\ cursor'[q] = "open"
  BY <1>1, <1>4, <1>5
<1> QED BY <1>1, <1>3, <1>6, <1>7, <1>8, <1>9, <1>10

LEMMA CommitKeeps ==
  ASSUME OneType, ResumeInvariant, NEW p \in Process, CommitBatch(p)
  PROVE  ResumeInvariant'
<1> USE DEF ResumeInvariant
<1>1. PICK last \in buffer[p] :
        /\ NextBatch(p, last)
        /\ rows' = rows \cup UpTo(buffer[p], last)
        /\ buffer' = [buffer EXCEPT ![p] = @ \ UpTo(@, last)]
        /\ cp' = [cp EXCEPT !.text = last.text]
        /\ UNCHANGED <<docs, pc, mode, resume, at, cursor, opened, history>>
  BY DEF CommitBatch
<1>2. UNCHANGED <<docs, late, crossed>>
  BY <1>1 DEF history
<1>3. pc[p] = "scanning" /\ Scan(p) /\ buffer[p] \subseteq Ids /\ last \in Ids
  BY <1>1 DEF NextBatch, TypeOK
<1>4. UpTo(buffer[p], last) \subseteq buffer[p] /\ last \in UpTo(buffer[p], last)
  BY <1>3, OneOrder DEF UpTo
<1>5. cp'.text = last.text /\ last.text \in Text
  BY <1>1, <1>3, OneOrder DEF TypeOK, Text
<1>6. buffer'[p] = buffer[p] \ UpTo(buffer[p], last)
  BY <1>1 DEF TypeOK
<1>7. TypeOK'
  BY CommitType
<1>8. Reached(cp.text)'
  BY <1>1, <1>4, <1>5 DEF Reached
<1>9. NothingBehind'
  <2> SUFFICES ASSUME NEW i \in docs \ late, i \notin rows' PROVE Selected(i, last.text)
    BY <1>2, <1>5 DEF NothingBehind
  <2>1. i \in Ids /\ i \notin UpTo(buffer[p], last) /\ i \notin rows
    BY <1>1 DEF TypeOK
  <2>2. CASE i \in buffer[p]
    BY <1>3, <2>1, <2>2, OneOrder DEF UpTo
  <2>3. CASE i \in Rest(p)
    <3>1. at[p] # None /\ at[p] \in Ids /\ Before(at[p], i) /\ ~Before(at[p], last)
      BY <1>3, <2>3 DEF Scan, Rest, TypeOK
    <3> QED BY <1>3, <2>1, <3>1, OneOrder
  <2> QED BY <1>3, <2>1, <2>2, <2>3 DEF Scan
<1>10. Scan(p)'
  <2>1. Rest(p)' = Rest(p)
    BY <1>1 DEF Rest
  <2>2. \A i \in docs \ late : i \in rows' \/ i \in buffer'[p] \/ i \in Rest(p)
    BY <1>1, <1>3, <1>6 DEF Scan
  <2>3. Reached(resume[p])'
    BY <1>1, <1>3 DEF Scan, Reached
  <2>4. /\ buffer'[p] \subseteq docs /\ opened[p] \subseteq docs
        /\ \A i \in buffer'[p] : at[p] # None /\ ~Before(at[p], i)
    BY <1>3, <1>6 DEF Scan
  <2> QED BY <1>1, <1>2, <1>3, <2>1, <2>2, <2>3, <2>4 DEF Scan
<1>11. ASSUME NEW q \in Process, q # p, pc'[q] = "scanning" PROVE Scan(q)'
  <2>1. buffer'[q] = buffer[q] /\ Scan(q)
    BY <1>1, <1>11 DEF TypeOK
  <2> QED BY <1>1, <1>2, <2>1, ScanKept
<1>12. \A q \in Process : pc'[q] # "scanning" => at'[q] = None /\ buffer'[q] = {} /\ cursor'[q] = "open"
  BY <1>1, <1>3 DEF TypeOK
<1>13. \A q \in Process : Running(q)' <=> Running(q)
  BY <1>1 DEF Running
<1> QED BY <1>1, <1>7, <1>8, <1>9, <1>10, <1>11, <1>12, <1>13

(* A process that ends leaves the rest as it is.                           *)
LEMMA EndsKeeps ==
  ASSUME ResumeInvariant, NEW p \in Process, Ends(p), UNCHANGED <<docs, rows, history>>,
         cp'.text = cp.text, cp' \in [text : Text \cup {None}, done : BOOLEAN]
  PROVE  ResumeInvariant'
<1> USE DEF ResumeInvariant
<1>1. TypeOK'
  BY EndsType
<1>2. \A q \in Process : q # p =>
        /\ pc'[q] = pc[q] /\ mode'[q] = mode[q] /\ resume'[q] = resume[q] /\ at'[q] = at[q]
        /\ buffer'[q] = buffer[q] /\ cursor'[q] = cursor[q] /\ opened'[q] = opened[q]
  BY DEF Ends, TypeOK
<1>3. pc'[p] = "idle" /\ at'[p] = None /\ buffer'[p] = {} /\ cursor'[p] = "open"
  BY DEF Ends, TypeOK
<1>4. Reached(cp.text)' /\ NothingBehind'
  BY DEF Reached, NothingBehind, history
<1>5. ASSUME NEW q \in Process, pc'[q] = "scanning" PROVE Scan(q)'
  <2>1. q # p
    BY <1>3, <1>5
  <2>2. Scan(q)
    BY <1>2, <1>5, <2>1
  <2> QED BY <1>2, <2>1, <2>2, ScanKept DEF history
<1>6. \A q \in Process : pc'[q] # "scanning" => at'[q] = None /\ buffer'[q] = {} /\ cursor'[q] = "open"
  BY <1>2, <1>3
<1>7. \A q \in Process : Running(q)' => Running(q) /\ mode'[q] = mode[q]
  BY <1>2, <1>3 DEF Running
<1> QED BY <1>1, <1>4, <1>5, <1>6, <1>7

LEMMA InsertKeeps ==
  ASSUME OneType, ResumeInvariant, NEW i \in Ids, InsertDoc(i)
  PROVE  ResumeInvariant'
<1> USE DEF ResumeInvariant
<1>1. UNCHANGED <<rows, cp, pc, mode, resume, at, buffer, cursor, opened, crossed>>
  BY DEF InsertDoc, process
<1>2. docs' = docs \cup {i} /\ late \subseteq late' /\ (i \in late' \/ ~Passed(i)) /\ i \notin docs
  BY DEF InsertDoc
<1>3. TypeOK'
  BY StepType DEF Next
<1>4. Reached(cp.text)'
  BY <1>1 DEF Reached
<1>5. NothingBehind'
  <2>1. i \in late' \/ Selected(i, cp.text)
    BY <1>2, NotLateIsAhead
  <2> QED BY <1>1, <1>2, <2>1 DEF NothingBehind
<1>6. ASSUME NEW q \in Process, pc'[q] = "scanning" PROVE Scan(q)'
  <2>1. Scan(q)
    BY <1>1, <1>6
  <2>2. Rest(q) \subseteq Rest(q)' /\ Rest(q)' \subseteq Rest(q) \cup {i}
    BY <1>1, <1>2 DEF Rest
  <2>3. i \in late' \/ i \in Rest(q)'
    <3> SUFFICES ASSUME ~Passed(i) PROVE i \in Rest(q)'
      BY <1>2
    <3>1. Selected(i, resume[q])
      BY <2>1, NotLateIsAhead DEF Scan
    <3>2. at[q] # None => Before(at[q], i)
      BY DEF Passed
    <3> QED BY <1>1, <1>2, <3>1, <3>2 DEF Rest
  <2>4. \A j \in docs' \ late' : j \in rows \/ j \in buffer[q] \/ j \in Rest(q)'
    BY <1>2, <2>1, <2>2, <2>3 DEF Scan
  <2>5. cursor[q] = "ended" => opened[q] \cap Rest(q)' = {}
    BY <1>2, <2>1, <2>2 DEF Scan
  <2>6. Reached(resume[q])'
    BY <1>1, <2>1 DEF Scan, Reached
  <2> QED BY <1>1, <1>2, <2>1, <2>4, <2>5, <2>6 DEF Scan
<1>7. \A q \in Process : Running(q)' <=> Running(q)
  BY <1>1 DEF Running
<1> QED BY <1>1, <1>3, <1>4, <1>5, <1>6, <1>7

LEMMA InvariantInit == Init => ResumeInvariant
<1> SUFFICES ASSUME Init PROVE ResumeInvariant
  OBVIOUS
<1>1. TypeOK
  BY InitType
<1>2. Reached(cp.text) /\ NothingBehind
  BY FromTheStart DEF Init, Reached, NothingBehind
<1> QED BY <1>1, <1>2 DEF Init, ResumeInvariant, Running

LEMMA StepKeeps ==
  ASSUME OneType, TruncateAlone, ResumeInvariant, [Next]_vars
  PROVE  ResumeInvariant'
<1>1. ASSUME NEW p \in Process, Migrate(p) PROVE ResumeInvariant'
  BY <1>1, StartKeeps, OpenKeeps, ReceiveKeeps, CommitKeeps, EndingActions, EndsKeeps DEF Migrate, ResumeInvariant
<1>2. ASSUME NEW i \in Ids, InsertDoc(i) PROVE ResumeInvariant'
  BY <1>2, InsertKeeps
<1>3. CASE UNCHANGED vars
  <2>1. UNCHANGED <<docs, rows, cp, pc, mode, resume, at, buffer, cursor, opened, late, crossed>>
    BY <1>3 DEF vars, process, history
  <2>2. TypeOK' /\ Reached(cp.text)' /\ NothingBehind'
    BY <2>1 DEF ResumeInvariant, TypeOK, Reached, NothingBehind
  <2>3. \A q \in Process : pc'[q] = "scanning" => Scan(q)'
    BY <2>1, ScanKept DEF ResumeInvariant
  <2> QED BY <2>1, <2>2, <2>3 DEF ResumeInvariant, Running
<1> QED BY <1>1, <1>2, <1>3 DEF Next

(* No row is ahead of the checkpoint, by text.                             *)
LEMMA AheadByText ==
  ASSUME OneType, TypeOK, Reached(cp.text)
  PROVE  /\ \A i \in Ids : cp.text # None /\ ~Selected(i, cp.text) <=>
                           cp.text # None /\ ~(cp.text < i.text)
         /\ \A i \in Ids : Selected(i, cp.text) /\ cp.text # None => cp.text < i.text
         /\ \A i \in Ids : i.text \in Nat
         /\ cp.text # None => cp.text \in Nat
<1>1. CASE cp.text = None
  BY <1>1, OneOrder
<1>2. CASE \E j \in rows : j.text = cp.text
  <2>1. PICK j \in Ids : j.text = cp.text
    BY <1>2 DEF TypeOK
  <2> QED BY <2>1, OneOrder
<1> QED BY <1>1, <1>2 DEF Reached

LEMMA StartKeepsAhead ==
  ASSUME TruncateAlone, ResumeInvariant, AheadInvariant,
         NEW p \in Process, NEW m \in Modes, Start(p, m)
  PROVE  AheadInvariant'
<1>1. \A q \in Process : q # p => pc'[q] = pc[q] /\ mode'[q] = mode[q]
  BY DEF Start, TypeOK, ResumeInvariant
<1>2. pc'[p] = "opening" /\ mode'[p] = m /\ pc[p] = "idle"
  BY DEF Start, TypeOK, Running, ResumeInvariant
<1>3. CASE m = "truncate"
  <2>1. \A q \in Process : q # p => pc'[q] = "idle"
    BY <1>1, <1>3 DEF Start, Apart, TruncateAlone, Running
  <2>2. rows' = {}
    BY <1>3 DEF Start
  <2>3. \A q \in Process : q # p => ~Running(q)'
    BY <2>1 DEF Running
  <2>4. \A q \in Process : pc'[q] # "scanning"
    BY <1>2, <2>1
  <2> QED BY <2>2, <2>3, <2>4 DEF AheadInvariant, NothingAhead
<1>4. CASE m # "truncate"
  <2>1. UNCHANGED <<docs, rows, cp, late, resume, at, buffer>>
    BY <1>4 DEF Start
  <2>2. ~crossed' => ~crossed /\ \A q \in Process : q # p /\ Running(q) => m # "upsert" /\ mode[q] # "upsert"
    BY <1>4, Zenon DEF Start
  <2>3. \A q \in Process : q # p => (Running(q)' <=> Running(q))
    BY <1>1 DEF Running
  <2>4. NothingAhead'
    BY <2>1, <2>2 DEF AheadInvariant, NothingAhead
  <2>5. ASSUME ~crossed', NEW q \in Process, NEW r \in Process, q # r, Running(q)', Running(r)'
        PROVE  mode'[q] # "upsert"
    <3>1. CASE q = p
      BY <1>2, <2>2, <2>3, <2>5, <3>1
    <3>2. CASE r = p
      BY <1>1, <2>2, <2>3, <2>5, <3>2
    <3>3. CASE q # p /\ r # p
      BY <1>1, <2>2, <2>3, <2>5, <3>3 DEF AheadInvariant
    <3> QED BY <3>1, <3>2, <3>3
  <2>6. ASSUME late' = {}, ~crossed', NEW q \in Process, pc'[q] = "scanning", mode'[q] = "upsert"
        PROVE  ReadsOn(q)'
    <3>1. q # p /\ pc[q] = "scanning" /\ mode[q] = "upsert"
      BY <1>1, <1>2, <2>6
    <3>2. ReadsOn(q)
      BY <2>1, <2>2, <2>6, <3>1 DEF AheadInvariant
    <3> QED BY <2>1, <3>2 DEF ReadsOn, Rest
  <2> QED BY <2>4, <2>5, <2>6 DEF AheadInvariant
<1> QED BY <1>3, <1>4

(* A step that loads nothing, and lets no process hold or expect more.     *)
LEMMA QuietKeepsAhead ==
  ASSUME AheadInvariant, UNCHANGED <<rows, history>>, cp'.text = cp.text,
         \A q \in Process : Running(q)' => Running(q) /\ mode'[q] = mode[q],
         \A q \in Process : pc'[q] = "scanning" /\ pc[q] = "scanning" =>
           buffer'[q] \cup Rest(q)' \subseteq buffer[q] \cup Rest(q),
         \A q \in Process : pc'[q] = "scanning" /\ pc[q] # "scanning" => ReadsOn(q)'
  PROVE  AheadInvariant'
<1>1. UNCHANGED late /\ (crossed' <=> crossed)
  BY DEF history
<1>2. NothingAhead'
  BY <1>1 DEF AheadInvariant, NothingAhead
<1>3. ~crossed' => \A q, r \in Process : q # r /\ Running(q)' /\ Running(r)' => mode'[q] # "upsert"
  BY <1>1 DEF AheadInvariant
<1>4. ASSUME late' = {}, ~crossed', NEW q \in Process, pc'[q] = "scanning", mode'[q] = "upsert"
      PROVE  ReadsOn(q)'
  <2>1. CASE pc[q] = "scanning"
    <3>1. mode[q] = "upsert"
      BY <1>4 DEF Running
    <3>2. ReadsOn(q)
      BY <1>1, <1>4, <2>1, <3>1 DEF AheadInvariant
    <3> QED BY <1>4, <2>1, <3>2 DEF ReadsOn
  <2> QED BY <1>4, <2>1
<1> QED BY <1>2, <1>3, <1>4 DEF AheadInvariant

LEMMA CommitKeepsAhead ==
  ASSUME OneType, ResumeInvariant, AheadInvariant, NEW p \in Process, CommitBatch(p)
  PROVE  AheadInvariant'
<1>1. PICK last \in buffer[p] :
        /\ NextBatch(p, last) /\ ~Collides(p, last)
        /\ rows' = rows \cup UpTo(buffer[p], last)
        /\ buffer' = [buffer EXCEPT ![p] = @ \ UpTo(@, last)]
        /\ cp' = [cp EXCEPT !.text = last.text]
        /\ UNCHANGED <<docs, pc, mode, resume, at, cursor, opened, history>>
  BY DEF CommitBatch
<1>2. UNCHANGED late /\ (crossed' <=> crossed)
  BY <1>1 DEF history
<1>3. pc[p] = "scanning" /\ Scan(p) /\ buffer[p] \subseteq Ids /\ last \in Ids /\ rows \subseteq Ids
  BY <1>1 DEF NextBatch, ResumeInvariant, TypeOK
<1>4. /\ cp'.text = last.text /\ last.text # None
      /\ \A q \in Process : q # p => buffer'[q] = buffer[q]
      /\ buffer'[p] = buffer[p] \ UpTo(buffer[p], last)
  BY <1>1, <1>3, ConstantsAssumption DEF ConstantsAssumption, ResumeInvariant, TypeOK
<1>5. \A q \in Process : (Running(q)' <=> Running(q)) /\ Rest(q)' = Rest(q)
  BY <1>1 DEF Running, Rest
<1>6. ~crossed' => \A q, r \in Process : q # r /\ Running(q)' /\ Running(r)' => mode'[q] # "upsert"
  BY <1>1, <1>2, <1>5 DEF AheadInvariant
<1>7. SUFFICES ASSUME late = {}, ~crossed
               PROVE  /\ \A i \in rows' : ~Selected(i, last.text)
                      /\ \A q \in Process : pc[q] = "scanning" /\ mode[q] = "upsert" => ReadsOn(q)'
  BY <1>1, <1>2, <1>4, <1>6 DEF AheadInvariant, NothingAhead
<1>8. Selected(last, cp.text)
  <2>1. CASE mode[p] = "upsert"
    BY <1>3, <1>7, <2>1 DEF AheadInvariant, ReadsOn
  <2>2. CASE mode[p] # "upsert"
    <3>1. last \in UpTo(buffer[p], last)
      BY <1>3, OneOrder DEF UpTo
    <3>2. last \notin rows
      BY <1>1, <2>2, <3>1 DEF Collides
    <3>3. last \in docs \ late
      BY <1>3, <1>7 DEF Scan
    <3> QED BY <3>2, <3>3 DEF ResumeInvariant, NothingBehind
  <2> QED BY <2>1, <2>2
<1>9. \A i \in rows' : ~Selected(i, last.text)
  <2>1. ASSUME NEW i \in rows PROVE ~Selected(i, last.text)
    <3>1. i \in Ids /\ cp.text # None /\ ~Selected(i, cp.text)
      BY <1>3, <1>7, <2>1 DEF AheadInvariant, NothingAhead
    <3>2. cp.text \in Nat /\ ~(cp.text < i.text) /\ cp.text < last.text /\ i.text \in Nat /\ last.text \in Nat
      BY <1>3, <1>8, <3>1, AheadByText DEF ResumeInvariant
    <3> QED BY <1>3, <3>1, <3>2, OneOrder
  <2>2. ASSUME NEW i \in UpTo(buffer[p], last) PROVE ~Selected(i, last.text)
    BY <1>3, <2>2, OneOrder DEF UpTo
  <2> QED BY <1>1, <2>1, <2>2
<1>10. ASSUME NEW q \in Process, pc[q] = "scanning", mode[q] = "upsert" PROVE ReadsOn(q)'
  <2>1. q = p
    BY <1>3, <1>7, <1>10 DEF AheadInvariant, Running
  <2>2. ASSUME NEW i \in buffer'[p] PROVE Selected(i, last.text)
    BY <1>3, <1>4, <2>2, OneOrder DEF UpTo
  <2>3. ASSUME NEW i \in Rest(p) PROVE Selected(i, last.text)
    <3>1. i \in Ids /\ at[p] \in Ids /\ Before(at[p], i) /\ ~Before(at[p], last)
      BY <1>3, <2>3 DEF Scan, Rest, ResumeInvariant, TypeOK
    <3> QED BY <1>3, <3>1, OneOrder
  <2> QED BY <1>4, <1>5, <2>1, <2>2, <2>3 DEF ReadsOn
<1> QED BY <1>9, <1>10

LEMMA InsertKeepsAhead ==
  ASSUME OneType, ResumeInvariant, AheadInvariant, NEW i \in Ids, InsertDoc(i)
  PROVE  AheadInvariant'
<1>1. UNCHANGED <<rows, cp, pc, mode, resume, at, buffer>> /\ (crossed' <=> crossed)
  BY DEF InsertDoc, process
<1>2. docs' = docs \cup {i} /\ (late' = {} => late = {} /\ ~Passed(i))
  BY DEF InsertDoc
<1>3. NothingAhead'
  BY <1>1, <1>2 DEF AheadInvariant, NothingAhead
<1>4. \A q \in Process : Running(q)' <=> Running(q)
  BY <1>1 DEF Running
<1>5. ASSUME late' = {}, ~crossed', NEW q \in Process, pc'[q] = "scanning", mode'[q] = "upsert"
      PROVE  ReadsOn(q)'
  <2>1. ReadsOn(q)
    BY <1>1, <1>2, <1>5 DEF AheadInvariant
  <2>2. Selected(i, cp.text)
    BY <1>2, <1>5, NotLateIsAhead DEF ResumeInvariant
  <2>3. Rest(q)' \subseteq Rest(q) \cup {i}
    BY <1>1, <1>2 DEF Rest
  <2> QED BY <1>1, <2>1, <2>2, <2>3 DEF ReadsOn
<1> QED BY <1>1, <1>3, <1>4, <1>5 DEF AheadInvariant

LEMMA StepKeepsAhead ==
  ASSUME OneType, TruncateAlone, ResumeInvariant, AheadInvariant, [Next]_vars
  PROVE  AheadInvariant'
<1>1. ASSUME NEW p \in Process, Migrate(p) PROVE AheadInvariant'
  <2>1. ASSUME Open(p) PROVE AheadInvariant'
    <3>1. UNCHANGED <<docs, rows, cp, mode, at, buffer, history>>
      BY <2>1 DEF Open
    <3>2. /\ pc[p] = "opening" /\ pc'[p] = "scanning" /\ resume'[p] = cp.text
          /\ \A q \in Process : q # p => pc'[q] = pc[q] /\ resume'[q] = resume[q]
      BY <2>1 DEF Open, ResumeInvariant, TypeOK
    <3>3. at[p] = None /\ buffer[p] = {}
      BY <3>2 DEF ResumeInvariant
    <3>4. ReadsOn(p)'
      BY <3>1, <3>2, <3>3 DEF ReadsOn, Rest
    <3>5. \A q \in Process : q # p => Rest(q)' = Rest(q)
      BY <3>1, <3>2 DEF Rest
    <3>6. \A q \in Process : Running(q)' => Running(q)
      BY <3>2 DEF Running
    <3>7. \A q \in Process : pc'[q] = "scanning" /\ pc[q] = "scanning" =>
            buffer'[q] \cup Rest(q)' \subseteq buffer[q] \cup Rest(q)
      BY <3>1, <3>2, <3>5
    <3>8. \A q \in Process : pc'[q] = "scanning" /\ pc[q] # "scanning" => ReadsOn(q)'
      BY <3>2, <3>4
    <3> QED BY <3>1, <3>6, <3>7, <3>8, QuietKeepsAhead
  <2>2. ASSUME Receive(p) PROVE AheadInvariant'
    <3>1. UNCHANGED <<docs, rows, cp, pc, mode, resume, history>>
      BY <2>2 DEF Receive
    <3>2. \A q \in Process : q # p => buffer'[q] = buffer[q] /\ at'[q] = at[q]
      BY <2>2 DEF Receive, ResumeInvariant, TypeOK
    <3>3. buffer'[p] \cup Rest(p)' \subseteq buffer[p] \cup Rest(p)
      <4>1. CASE UNCHANGED <<buffer, at>>
        BY <3>1, <4>1 DEF Rest
      <4>2. ASSUME NEW last \in Rest(p),
                   buffer' = [buffer EXCEPT ![p] = @ \cup UpTo(Rest(p), last)],
                   at' = [at EXCEPT ![p] = last]
            PROVE  buffer'[p] \cup Rest(p)' \subseteq buffer[p] \cup Rest(p)
        <5>1. buffer'[p] = buffer[p] \cup UpTo(Rest(p), last) /\ at'[p] = last /\ last \in Ids /\ last # None
          BY <4>2, ConstantsAssumption DEF ConstantsAssumption, ResumeInvariant, TypeOK, Rest
        <5>2. ASSUME NEW i \in Rest(p)' PROVE i \in Rest(p)
          <6>1. i \in docs /\ Selected(i, resume[p]) /\ Before(last, i) /\ i \in Ids
            BY <3>1, <5>1, <5>2 DEF Rest, ResumeInvariant, TypeOK
          <6>2. at[p] # None => Before(at[p], last) /\ at[p] \in Ids
            BY <4>2 DEF Rest, ResumeInvariant, TypeOK
          <6>3. at[p] # None => Before(at[p], i)
            BY <5>1, <6>1, <6>2, OneOrder
          <6> QED BY <6>1, <6>3 DEF Rest
        <5> QED BY <5>1, <5>2 DEF UpTo
      <4> QED BY <2>2, <4>1, <4>2 DEF Receive
    <3>4. \A q \in Process : q # p => Rest(q)' = Rest(q)
      BY <3>1, <3>2 DEF Rest
    <3>5. \A q \in Process : Running(q)' => Running(q)
      BY <3>1 DEF Running
    <3>6. \A q \in Process : buffer'[q] \cup Rest(q)' \subseteq buffer[q] \cup Rest(q)
      BY <3>2, <3>3, <3>4
    <3> QED BY <3>1, <3>5, <3>6, QuietKeepsAhead
  <2>3. ASSUME BatchCollides(p) \/ CursorDead(p) \/ MarkDone(p) \/ Kill(p)
        PROVE  AheadInvariant'
    <3>1. Ends(p) /\ UNCHANGED <<docs, rows, history>> /\ cp'.text = cp.text
      BY <2>3, EndingActions DEF ResumeInvariant
    <3>2. /\ pc'[p] = "idle"
          /\ \A q \in Process : q # p =>
               /\ pc'[q] = pc[q] /\ mode'[q] = mode[q] /\ resume'[q] = resume[q]
               /\ at'[q] = at[q] /\ buffer'[q] = buffer[q]
      BY <3>1 DEF Ends, ResumeInvariant, TypeOK
    <3>3. \A q \in Process : q # p => Rest(q)' = Rest(q)
      BY <3>1, <3>2 DEF Rest
    <3>4. \A q \in Process : Running(q)' => Running(q) /\ mode'[q] = mode[q]
      BY <3>2 DEF Running
    <3>5. \A q \in Process : pc'[q] = "scanning" =>
            pc[q] = "scanning" /\ buffer'[q] \cup Rest(q)' \subseteq buffer[q] \cup Rest(q)
      BY <3>2, <3>3
    <3> QED BY <3>1, <3>4, <3>5, QuietKeepsAhead
  <2> QED BY <1>1, <2>1, <2>2, <2>3, StartKeepsAhead, CommitKeepsAhead DEF Migrate
<1>2. ASSUME NEW i \in Ids, InsertDoc(i) PROVE AheadInvariant'
  BY <1>2, InsertKeepsAhead
<1>3. CASE UNCHANGED vars
  <2>1. UNCHANGED <<docs, rows, cp, pc, mode, resume, at, buffer, late>> /\ (crossed' <=> crossed)
    BY <1>3 DEF vars, process, history
  <2>2. \A q \in Process : Rest(q)' = Rest(q) /\ (Running(q)' <=> Running(q))
    BY <2>1 DEF Rest, Running
  <2> QED BY <2>1, <2>2 DEF AheadInvariant, NothingAhead, ReadsOn
<1> QED BY <1>1, <1>2, <1>3 DEF Next

LEMMA InvariantHolds ==
  ASSUME OneType, TruncateAlone
  PROVE  Spec => []ResumeInvariant
<1>1. ResumeInvariant /\ [Next]_vars => ResumeInvariant'
  BY StepKeeps
<1> QED BY <1>1, InvariantInit, PTL DEF Spec

LEMMA AheadInit == Init => AheadInvariant
BY DEF Init, AheadInvariant, NothingAhead, Running

(* No append run meets a row of an earlier one, unless a document came in  *)
(* behind those that were read or an upsert run was beside another.        *)
THEOREM NoneLoadedAgain ==
  ASSUME OneType, TruncateAlone
  PROVE  Spec => []NothingAhead
<1>1. ResumeInvariant /\ AheadInvariant /\ [Next]_vars => AheadInvariant'
  BY StepKeepsAhead
<1>2. AheadInvariant => NothingAhead
  BY DEF AheadInvariant
<1> QED BY <1>1, <1>2, AheadInit, InvariantHolds, PTL DEF Spec

(* Whatever processes run side by side, are killed or collide, a resume    *)
(* skips no document, but one inserted behind a document that was read.    *)
THEOREM NoneLeftBehind ==
  ASSUME OneType, TruncateAlone
  PROVE  Spec => []NothingBehind
<1>1. ResumeInvariant => NothingBehind
  BY DEF ResumeInvariant
<1> QED BY <1>1, InvariantHolds, PTL

(* A process that marks the entity done leaves no document to others.      *)
THEOREM DoneMeansLoaded ==
  ASSUME OneType, TruncateAlone
  PROVE  Spec => DoneIsComplete
<1>1. ASSUME ResumeInvariant, NEW p \in Process, MarkDone(p)
      PROVE  opened[p] \ late \subseteq rows
  <2>1. Scan(p) /\ cursor[p] = "ended" /\ buffer[p] = {}
    BY <1>1 DEF MarkDone, ResumeInvariant
  <2> QED BY <2>1 DEF Scan
<1>2. ResumeInvariant /\ [Next]_vars =>
        [\A p \in Process : MarkDone(p) => opened[p] \ late \subseteq rows]_vars
  BY <1>1
<1> QED BY <1>2, InvariantHolds, PTL DEF Spec, DoneIsComplete

-----------------------------------------------------------------------------
(* mongopg-fanin: each command leaves one document for a group, or breaks  *)
(* off.                                                                    *)
LEMMA PicksOnce ==
  ASSUME NEW W \in SUBSET raw, Picks(W), ShapeInv
  PROVE  W \subseteq Ids /\ Apiece(W)
BY DEF Picks, ShapeInv, Apiece

LEMMA MergedApiece ==
  ASSUME ShapeInv, NEW W, Apiece(W), \A i \in W : ~Replaces(i)
  PROVE  Apiece(docs \cup W)
BY DEF ShapeInv, Apiece, Replaces

LEMMA ReshapeShapes ==
  ASSUME ShapeInv, NEW W \in SUBSET raw, Reshape(W)
  PROVE  ShapeInv'
<1>1. W \subseteq Ids /\ Apiece(W)
  BY PicksOnce DEF Reshape
<1>2. CASE ReshapeOut(W)
  <2>1. /\ docs' = W /\ wanted' = GroupsOf(W) /\ whole' = TRUE /\ rebuilds = FALSE
        /\ UNCHANGED <<raw, todo, rebuilds>> /\ todo = {}
    BY <1>2 DEF ReshapeOut, Become, ShapeInv
  <2>2. docs' \cup todo' = W
    BY <2>1
  <2> QED BY <1>1, <2>1, <2>2 DEF ShapeInv, Apiece, GroupsOf
<1>3. CASE ReshapeMerge(W)
  <2>1. UNCHANGED <<raw, todo, rebuilds>> /\ rebuilds = FALSE /\ todo = {}
    BY <1>3 DEF ReshapeMerge, ShapeInv
  <2>2. CASE \A i \in W : ~Replaces(i)
    <3>1. docs' = docs \cup W /\ wanted' = GroupsOf(W) /\ whole' = TRUE
      BY <1>3, <2>2 DEF ReshapeMerge, Become
    <3>2. Apiece(docs \cup W)
      BY <1>1, <2>2, MergedApiece
    <3>3. docs' \cup todo' = docs \cup W
      BY <2>1, <3>1
    <3>4. GroupsOf(W) \subseteq GroupsOf(docs \cup W)
      BY DEF GroupsOf
    <3>5. Apiece(docs' \cup todo') /\ wanted' \subseteq GroupsOf(docs' \cup todo')
      BY <3>1, <3>2, <3>3, <3>4
    <3> QED BY <1>1, <2>1, <3>1, <3>5 DEF ShapeInv, Apiece, GroupsOf
  <2>3. CASE \E i \in W : Replaces(i)
    <3>1. PICK some \in SUBSET {i \in W : ~Replaces(i)} : docs' = docs \cup some
      BY <1>3, <2>3 DEF ReshapeMerge, Become
    <3>2. UNCHANGED <<wanted, whole>>
      BY <1>3, <2>3 DEF ReshapeMerge
    <3>3. Apiece(some) /\ some \subseteq Ids /\ \A i \in some : ~Replaces(i)
      BY <1>1 DEF Apiece
    <3>4. Apiece(docs \cup some)
      BY <3>3, MergedApiece
    <3>5. docs' \cup todo' = docs \cup some
      BY <2>1, <3>1
    <3>6. whole => wanted \subseteq GroupsOf(docs \cup some)
      BY <2>1 DEF ShapeInv, GroupsOf
    <3> QED BY <2>1, <3>1, <3>2, <3>3, <3>4, <3>5, <3>6 DEF ShapeInv, Apiece, GroupsOf
  <2> QED BY <2>2, <2>3
<1>4. CASE RebuildDrop(W)
  <2>1. /\ docs' = {} /\ todo' = W /\ rebuilds' = TRUE
        /\ wanted' = GroupsOf(W) /\ whole' = FALSE /\ raw' = raw
    BY <1>4 DEF RebuildDrop, Become
  <2>2. docs' \cup todo' = W
    BY <2>1
  <2> QED BY <1>1, <2>1, <2>2 DEF ShapeInv, Apiece, GroupsOf
<1> QED BY <1>2, <1>3, <1>4 DEF Reshape

LEMMA StepShapes ==
  ASSUME ShapeInv, [FanInNext]_<<vars, fvars>>
  PROVE  ShapeInv'
<1>1. ASSUME NEW i \in Ids, AddRaw(i) PROVE ShapeInv'
  <2>1. raw' = raw \cup {i} /\ UNCHANGED <<docs, todo, rebuilds, wanted, whole>>
    BY <1>1 DEF AddRaw, vars
  <2> QED BY <2>1 DEF ShapeInv, Apiece, GroupsOf
<1>2. CASE RebuildInsert
  <2>1. PICK b \in SUBSET todo : docs' = docs \cup b /\ todo' = todo \ b
    BY <1>2 DEF RebuildInsert, Become
  <2>2. docs' \cup todo' = docs \cup todo
    BY <2>1
  <2>3. UNCHANGED <<raw, rebuilds, wanted, whole>> /\ rebuilds
    BY <1>2 DEF RebuildInsert
  <2> QED BY <2>1, <2>2, <2>3 DEF ShapeInv, Apiece, GroupsOf
<1>3. CASE RebuildEnd
  <2>1. UNCHANGED <<docs, raw, todo, wanted>> /\ rebuilds /\ todo = {} /\ rebuilds' = FALSE /\ whole' = TRUE
    BY <1>3 DEF RebuildEnd, vars
  <2> QED BY <2>1 DEF ShapeInv, Apiece, GroupsOf
<1>4. CASE RebuildKilled
  <2>1. UNCHANGED <<docs, raw, wanted, whole>> /\ rebuilds /\ rebuilds' = FALSE /\ todo' = {}
    BY <1>4 DEF RebuildKilled, vars
  <2> QED BY <2>1 DEF ShapeInv, Apiece, GroupsOf
<1>5. ASSUME UNCHANGED <<docs, fvars>> PROVE ShapeInv'
  BY <1>5 DEF fvars, ShapeInv, Apiece, GroupsOf
<1>6. ASSUME NEW p \in Process, Migrate(p) PROVE docs' = docs
  BY <1>6 DEF Migrate, Start, Open, Receive, CommitBatch, BatchCollides, CursorDead, MarkDone, Kill
<1>7. UNCHANGED <<vars, fvars>> => UNCHANGED <<docs, fvars>>
  BY DEF vars
<1> QED BY <1>1, <1>2, <1>3, <1>4, <1>5, <1>6, <1>7, ReshapeShapes DEF FanInNext

(* How a command of fan-in looks to a migrate process: documents come and  *)
(* the cursor stays, or whatever comes and goes an open cursor is closed.  *)
Disturbs ==
  /\ UNCHANGED <<rows, cp, pc, mode, resume, at, buffer, opened, crossed>>
  /\ docs' \subseteq Ids /\ late' \subseteq Ids
  /\ \/ docs \subseteq docs' /\ UNCHANGED cursor
     \/ CloseCursors

LEMMA BecomeLate ==
  ASSUME TypeOK, NEW S \in SUBSET Ids, Become(S)
  PROVE  docs' = S /\ docs' \subseteq Ids /\ late' \subseteq Ids
BY DEF Become, TypeOK

LEMMA FanInDisturbs ==
  ASSUME TypeOK, ShapeInv, FanInNext,
         ~\E p \in Process : Migrate(p) /\ {q \in Process \ {p} : Running(q)} = {}
  PROVE  Disturbs
<1> USE DEF Disturbs
<1>1. ASSUME UNCHANGED vars PROVE Disturbs
  BY <1>1 DEF vars, process, history, TypeOK
<1>2. ASSUME NEW W \in SUBSET raw, Reshape(W) PROVE Disturbs
  <2>1. W \subseteq Ids /\ docs \subseteq Ids
    BY DEF ShapeInv
  <2>2. Untouched
    BY <1>2 DEF Reshape, ReshapeOut, ReshapeMerge, RebuildDrop
  <2>3. CASE ReshapeOut(W)
    BY <2>1, <2>2, <2>3, BecomeLate DEF ReshapeOut, Untouched
  <2>4. CASE ReshapeMerge(W)
    <3>1. PICK S \in SUBSET W : Become(docs \cup S)
      BY <2>4 DEF ReshapeMerge
    <3>2. docs \cup S \in SUBSET Ids
      BY <2>1
    <3> QED BY <2>2, <2>4, <3>1, <3>2, BecomeLate DEF ReshapeMerge, Untouched
  <2>5. CASE RebuildDrop(W)
    BY <2>2, <2>5, BecomeLate DEF RebuildDrop, Untouched
  <2> QED BY <1>2, <2>3, <2>4, <2>5 DEF Reshape
<1>3. CASE RebuildInsert
  <2>1. PICK b \in SUBSET todo : Become(docs \cup b)
    BY <1>3 DEF RebuildInsert
  <2>2. docs \cup b \in SUBSET Ids
    BY DEF ShapeInv
  <2> QED BY <1>3, <2>1, <2>2, BecomeLate DEF RebuildInsert, Untouched
<1> QED BY <1>1, <1>2, <1>3 DEF FanInNext, AddRaw, RebuildEnd, RebuildKilled

LEMMA DisturbedAlone ==
  ASSUME TypeOK, AloneInv, Disturbs
  PROVE  TypeOK' /\ AloneInv'
<1>1. \A q \in Process : cursor'[q] = cursor[q] \/ (pc[q] = "scanning" /\ cursor'[q] = "dead")
  BY DEF Disturbs, CloseCursors
<1>2. cursor' \in [Process -> {"open", "ended", "dead"}]
  BY <1>1 DEF Disturbs, CloseCursors, TypeOK
<1>3. TypeOK'
  BY <1>2 DEF Disturbs, TypeOK
<1>4. ASSUME NEW p \in Process, mode'[p] = "truncate" PROVE Fresh(p)'
  <2>1. Fresh(p)
    BY <1>4 DEF AloneInv, Disturbs
  <2>2. ASSUME cursor'[p] = "open", pc[p] = "scanning" PROVE docs \subseteq docs' /\ cursor[p] = "open"
    BY <1>1, <2>2 DEF Disturbs, CloseCursors
  <2>3. docs \subseteq docs' => Rest(p) \subseteq Rest(p)'
    BY DEF Disturbs, Rest
  <2>4. cursor'[p] = "ended" => cursor[p] = "ended"
    BY <1>1
  <2> QED BY <2>1, <2>2, <2>3, <2>4 DEF Disturbs, Fresh, Apiece
<1> QED BY <1>1, <1>3, <1>4 DEF AloneInv, Disturbs, Running

-----------------------------------------------------------------------------
(* migrate over the derived collection, one process at a time.             *)
LEMMA MigrateAlone ==
  ASSUME TypeOK, ShapeInv, AloneInv, NEW p \in Process,
         {q \in Process \ {p} : Running(q)} = {}, Migrate(p)
  PROVE  AloneInv'
<1>1. \A q \in Process : q # p => pc[q] = "idle"
  BY DEF Running
<1>2. ASSUME \A q \in Process : q # p => pc'[q] = pc[q] /\ mode'[q] = mode[q] /\ at'[q] = at[q]
                                         /\ buffer'[q] = buffer[q] /\ cursor'[q] = cursor[q],
             pc'[p] # "scanning" => at'[p] = None /\ buffer'[p] = {} /\ cursor'[p] = "open",
             mode'[p] = "truncate" => Fresh(p)'
      PROVE  AloneInv'
  <2>1. \A q \in Process : q # p => ~Running(q)' /\ Fresh(q)'
    BY <1>1, <1>2 DEF Running, Fresh
  <2>2. \A q \in Process : q # p => at'[q] = None /\ buffer'[q] = {} /\ cursor'[q] = "open"
    BY <1>1, <1>2 DEF AloneInv
  <2> QED BY <1>2, <2>1, <2>2 DEF AloneInv
<1>3. ASSUME NEW m \in Modes, Start(p, m) PROVE AloneInv'
  <2>1. /\ pc[p] = "idle" /\ pc'[p] = "opening" /\ mode'[p] = m
        /\ \A q \in Process : q # p => pc'[q] = pc[q] /\ mode'[q] = mode[q]
        /\ UNCHANGED <<at, buffer, cursor>>
    BY <1>3 DEF Start, TypeOK, Running
  <2>2. m = "truncate" => rows' = {} /\ cp'.text = None
    BY <1>3 DEF Start
  <2>3. at'[p] = None /\ buffer'[p] = {} /\ cursor'[p] = "open"
    BY <2>1 DEF AloneInv
  <2> QED BY <1>2, <2>1, <2>2, <2>3 DEF Fresh
<1>4. CASE Open(p)
  <2>1. /\ pc[p] = "opening" /\ pc'[p] = "scanning" /\ resume'[p] = cp.text /\ opened'[p] = docs
        /\ \A q \in Process : q # p => pc'[q] = pc[q]
        /\ UNCHANGED <<docs, rows, mode, at, buffer, cursor>>
    BY <1>4 DEF Open, TypeOK
  <2>2. at[p] = None /\ buffer[p] = {} /\ cursor[p] = "open"
    BY <2>1 DEF AloneInv
  <2>3. ASSUME mode[p] = "truncate" PROVE Fresh(p)'
    <3>1. rows = {} /\ cp.text = None
      BY <2>1, <2>3 DEF AloneInv, Fresh
    <3>2. Rest(p)' = docs
      BY <2>1, <2>2, <3>1, FromTheStart DEF Rest
    <3> QED BY <2>1, <2>2, <3>1, <3>2 DEF Fresh, Apiece
  <2> QED BY <1>2, <2>1, <2>3
<1>5. CASE Receive(p)
  <2>1. /\ pc[p] = "scanning" /\ cursor[p] = "open"
        /\ UNCHANGED <<docs, rows, pc, mode, resume, opened>>
        /\ \A q \in Process : q # p => at'[q] = at[q] /\ buffer'[q] = buffer[q] /\ cursor'[q] = cursor[q]
    BY <1>5 DEF Receive, TypeOK
  <2>2. ASSUME mode[p] = "truncate" PROVE Fresh(p)'
    <3>1. /\ resume[p] = None /\ rows \cup buffer[p] \subseteq docs
          /\ opened[p] \subseteq rows \cup buffer[p] \cup Rest(p)
      BY <2>1, <2>2 DEF AloneInv, Fresh
    <3>2. CASE Rest(p) = {} /\ cursor' = [cursor EXCEPT ![p] = "ended"] /\ UNCHANGED <<buffer, at>>
      <4>1. cursor'[p] = "ended"
        BY <3>2 DEF TypeOK
      <4>2. Apiece(rows \cup buffer[p])
        BY <2>1, <2>2 DEF AloneInv, Fresh
      <4> QED BY <2>1, <3>1, <3>2, <4>1, <4>2 DEF Fresh, Apiece
    <3>3. ASSUME NEW last \in Rest(p),
                 buffer' = [buffer EXCEPT ![p] = @ \cup UpTo(Rest(p), last)],
                 at' = [at EXCEPT ![p] = last],
                 \/ UNCHANGED cursor
                 \/ UpTo(Rest(p), last) = Rest(p) /\ cursor' = [cursor EXCEPT ![p] = "ended"]
          PROVE  Fresh(p)'
      <4>1. buffer'[p] = buffer[p] \cup UpTo(Rest(p), last) /\ at'[p] = last
        BY <3>3 DEF TypeOK
      <4>2. last # None
        BY ConstantsAssumption DEF ConstantsAssumption, Rest, TypeOK
      <4>3. Rest(p)' = {i \in docs : Selected(i, resume[p]) /\ Before(last, i)}
        BY <2>1, <4>1, <4>2 DEF Rest, Selected, Before, Bracket
      <4>4. rows \cup buffer'[p] \subseteq docs
        BY <3>1, <4>1 DEF UpTo, Rest
      <4>5. Apiece(rows \cup buffer'[p])
        BY <4>4 DEF ShapeInv, Apiece
      <4>6. opened[p] \subseteq rows \cup buffer'[p] \cup Rest(p)'
        BY <3>1, <4>1, <4>3 DEF UpTo, Rest
      <4>7. cursor'[p] = "ended" => opened[p] \subseteq rows \cup buffer'[p]
        <5>1. CASE UNCHANGED cursor
          BY <2>1, <5>1
        <5>2. CASE UpTo(Rest(p), last) = Rest(p)
          BY <3>1, <4>1, <5>2
        <5> QED BY <3>3, <5>1, <5>2
      <4> QED BY <2>1, <3>1, <4>4, <4>5, <4>6, <4>7 DEF Fresh, Apiece
    <3> QED BY <1>5, <3>2, <3>3 DEF Receive
  <2> QED BY <1>2, <2>1, <2>2
<1>6. CASE CommitBatch(p)
  <2>1. PICK last \in buffer[p] :
          /\ NextBatch(p, last)
          /\ rows' = rows \cup UpTo(buffer[p], last)
          /\ buffer' = [buffer EXCEPT ![p] = @ \ UpTo(@, last)]
          /\ UNCHANGED <<docs, pc, mode, resume, at, cursor, opened>>
    BY <1>6 DEF CommitBatch
  <2>2. buffer'[p] = buffer[p] \ UpTo(buffer[p], last) /\ \A q \in Process : q # p => buffer'[q] = buffer[q]
    BY <2>1 DEF TypeOK
  <2>3. UpTo(buffer[p], last) \subseteq buffer[p] /\ pc[p] = "scanning"
    BY <2>1 DEF UpTo, NextBatch
  <2>4. rows' \cup buffer'[p] = rows \cup buffer[p]
    BY <2>1, <2>2, <2>3
  <2>5. Rest(p)' = Rest(p)
    BY <2>1 DEF Rest
  <2>6. ASSUME mode[p] = "truncate" PROVE Fresh(p)'
    <3>1. Fresh(p)
      BY <2>6 DEF AloneInv
    <3>2. Apiece(rows \cup buffer[p])' = Apiece(rows \cup buffer[p])
      BY <2>4 DEF Apiece
    <3> QED BY <2>1, <2>3, <2>4, <2>5, <3>1, <3>2 DEF Fresh
  <2> QED BY <1>2, <2>1, <2>2, <2>3, <2>6
<1>7. CASE BatchCollides(p) \/ CursorDead(p) \/ MarkDone(p) \/ Kill(p)
  <2>1. Ends(p)
    BY <1>7, EndingActions
  <2>2. /\ pc'[p] = "idle" /\ mode'[p] = "append" /\ at'[p] = None
        /\ buffer'[p] = {} /\ cursor'[p] = "open"
        /\ \A q \in Process : q # p =>
             /\ pc'[q] = pc[q] /\ mode'[q] = mode[q] /\ at'[q] = at[q]
             /\ buffer'[q] = buffer[q] /\ cursor'[q] = cursor[q]
    BY <2>1 DEF Ends, TypeOK
  <2> QED BY <1>2, <2>2
<1> QED BY <1>3, <1>4, <1>5, <1>6, <1>7 DEF Migrate

LEMMA FanInStep ==
  ASSUME FanInInvariant, [FanInNext]_<<vars, fvars>>
  PROVE  FanInInvariant'
<1> USE DEF FanInInvariant
<1>1. ShapeInv'
  BY StepShapes
<1>2. ASSUME NEW p \in Process, Migrate(p), {q \in Process \ {p} : Running(q)} = {}
      PROVE  TypeOK' /\ AloneInv'
  BY <1>2, MigrateType, MigrateAlone
<1>3. CASE UNCHANGED <<vars, fvars>>
  <2>1. Disturbs
    BY <1>3 DEF vars, process, history, TypeOK, Disturbs
  <2> QED BY <1>1, <2>1, DisturbedAlone
<1>4. CASE FanInNext /\ ~\E p \in Process : Migrate(p) /\ {q \in Process \ {p} : Running(q)} = {}
  <2>1. Disturbs
    BY <1>4, FanInDisturbs
  <2> QED BY <1>1, <2>1, DisturbedAlone
<1> QED BY <1>1, <1>2, <1>3, <1>4

LEMMA FanInInitial == ASSUME Init, docs = {}, FanInInit PROVE FanInInvariant
<1>1. TypeOK
  BY InitType
<1>2. ShapeInv
  BY DEF FanInInit, ShapeInv, Apiece
<1>3. AloneInv
  BY DEF Init, AloneInv, Running
<1> QED BY <1>1, <1>2, <1>3 DEF FanInInvariant

LEMMA FanInInvariantHolds == FanInSpec => []FanInInvariant
BY FanInInitial, FanInStep, PTL DEF FanInSpec

(* A group that S knows and in which no two of S are is that of one of S.  *)
LEMMA ExactlyOne ==
  ASSUME NEW S, Apiece(S), NEW g \in GroupsOf(S)
  PROVE  Cardinality({i \in S : Group[i] = g}) = 1
<1>1. PICK i \in S : Group[i] = g
  BY DEF GroupsOf
<1>2. {j \in S : Group[j] = g} = {i}
  BY <1>1 DEF Apiece
<1> QED BY <1>2, FS_Singleton

(* Whatever reshapes go through, break off or are killed, and migrates     *)
(* beside them: after one that went through, each group it found has one   *)
(* document.                                                               *)
THEOREM GroupsHaveOneDocument == FanInSpec => []OnePerGroup
<1>1. ASSUME FanInInvariant PROVE OnePerGroup
  <2> SUFFICES ASSUME whole, NEW g \in wanted PROVE Cardinality({i \in docs : Group[i] = g}) = 1
    BY DEF OnePerGroup
  <2>1. ~rebuilds /\ todo = {}
    BY <1>1 DEF FanInInvariant, ShapeInv
  <2>2. docs \cup todo = docs
    BY <2>1
  <2>3. Apiece(docs) /\ g \in GroupsOf(docs)
    BY <1>1, <2>2 DEF FanInInvariant, ShapeInv
  <2> QED BY <2>3, ExactlyOne
<1> QED BY <1>1, FanInInvariantHolds, PTL

(* A truncating run that ends well over a collection that no reshape       *)
(* touched since it opened its cursor gives each group one row.            *)
THEOREM GroupsGetOneRow == FanInSpec => OneRowPerGroup
<1>1. ASSUME FanInInvariant, NEW p \in Process, MarkDone(p), mode[p] = "truncate",
             whole, opened[p] = docs, NEW g \in wanted
      PROVE  Cardinality({i \in rows : Group[i] = g}) = 1
  <2>1. pc[p] = "scanning" /\ cursor[p] = "ended" /\ buffer[p] = {}
    BY <1>1 DEF MarkDone
  <2>2. Apiece(rows \cup buffer[p]) /\ docs \subseteq rows \cup buffer[p]
    BY <1>1, <2>1 DEF FanInInvariant, AloneInv, Fresh
  <2>3. rows \cup buffer[p] = rows
    BY <2>1
  <2>4. todo = {} /\ docs \cup todo = docs
    BY <1>1 DEF FanInInvariant, ShapeInv
  <2>5. g \in GroupsOf(docs)
    BY <1>1, <2>4 DEF FanInInvariant, ShapeInv
  <2>6. g \in GroupsOf(rows)
    BY <2>2, <2>3, <2>5 DEF GroupsOf
  <2> QED BY <2>2, <2>3, <2>6, ExactlyOne
<1>2. FanInInvariant /\ [FanInNext]_<<vars, fvars>> =>
        [\A p \in Process :
           (MarkDone(p) /\ mode[p] = "truncate" /\ whole /\ opened[p] = docs) =>
             \A g \in wanted : Cardinality({i \in rows : Group[i] = g}) = 1]_<<vars, fvars>>
  BY <1>1
<1> QED BY <1>2, FanInInvariantHolds, PTL DEF FanInSpec, OneRowPerGroup
=============================================================================
