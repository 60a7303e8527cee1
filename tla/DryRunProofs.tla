----------------------------- MODULE DryRunProofs -----------------------------
(***************************************************************************)
(* Whatever the mapping, the target schema and the data: Layer B leaves    *)
(* the real tables and id_map alone, and cleans up after itself.           *)
(*                                                                         *)
(* The loader finds every mapped table in the clone, because it starts     *)
(* only once all of them are cloned and itself creates and drops none.     *)
(*                                                                         *)
(* And it foretells what migrate will do: a load is a function of the      *)
(* id_map that it finds, and the clone's answers what the real one does.   *)
(***************************************************************************)
EXTENDS DryRun, TLAPS

Forecasts == [verdict : {"none", "clean", "error"}, ns : Namespace]
Command == [number : Number, last : Nat, next : Nat \ {0}, ns : Namespace, foretold : Forecasts]

InLoad == {"open", "truncate", "batch"}
Rehearsing == {"ids", "seed"} \cup InLoad

Disposable ==
  /\ run \in Command /\ namespace \in Namespace /\ forecast \in Forecasts
  /\ tables = [s \in DOMAIN tables |-> tables[s]]
  /\ 0 \in DOMAIN tables /\ DOMAIN tables \subseteq Number
  /\ tables[0] = [t \in Table |-> tables[0][t]]
  /\ keys = [s \in Number |-> keys[s]]
  /\ ids = [s \in Number |-> ids[s]]
  /\ pc # "idle" /\ run.number = 0 => pc \in InLoad
  /\ pc # "idle" /\ pc # "create" /\ pc # "drop_ids" => run.number \in DOMAIN tables
  /\ run.number # 0 /\ pc \in Rehearsing => Mapped \subseteq DOMAIN tables[run.number]
  /\ pc = "drop_ids" => run.number \notin DOMAIN tables
  /\ \A n \in Number \ {0} : n \in DOMAIN tables \/ ids[n] # Absent =>
       n \in lost \/ (n = run.number /\ pc # "idle")

(* What a dry run leaves as it is.                                         *)
Real == <<tables[0], keys[0], ids[0]>>

Untouched == run.number # 0 /\ pc # "idle" => UNCHANGED Real

LEMMA ZeroIsNumber == 0 \in Number
BY DryRunAssumption DEF DryRunAssumption, Number

(* In a rehearsal no mapped table is found in the target schema.           *)
LEMMA FoundInClone ==
  ASSUME Disposable, run.number # 0, pc \in Rehearsing, NEW t \in Mapped
  PROVE  Home(t) = run.number
BY DEF Disposable, Home

LEMMA Written ==
  ASSUME NEW e \in Entity, NEW j \in 1 .. Len(Writes[e])
  PROVE  Writes[e][j] \in Mapped
<1>1. Writes[e] \in Seq(Table)
  BY DryRunAssumption DEF DryRunAssumption
<1>2. j \in DOMAIN Writes[e]
  BY <1>1
<1> QED BY <1>2 DEF Mapped, TablesOf

-----------------------------------------------------------------------------
(* The loader changes rows, and only those of the schema that it works in. *)
RowsOnly ==
  /\ tables' = [s \in DOMAIN tables |-> tables'[s]]
  /\ DOMAIN tables'[run.number] = DOMAIN tables[run.number]
  /\ tables'[0] = [t \in Table |-> tables'[0][t]]
  /\ run.number # 0 => tables'[0] = tables[0]

LEMMA TruncateRowsOnly ==
  ASSUME Disposable, TruncateTables
  PROVE  RowsOnly
<1> DEFINE Kept(s) == [t \in DOMAIN tables[s] |-> IF <<s, t>> \in Emptied THEN {} ELSE tables[s][t]]
<1>1. tables' = [s \in DOMAIN tables |-> Kept(s)]
  BY DEF TruncateTables
<1>2. /\ tables[0] = [t \in Table |-> tables[0][t]] /\ run.number \in DOMAIN tables
      /\ pc \in Rehearsing /\ 0 \in DOMAIN tables
  BY DEF Disposable, Command, TruncateTables, Rehearsing, InLoad
<1>3. \A s \in DOMAIN tables : DOMAIN Kept(s) = DOMAIN tables[s]
  OBVIOUS
<1>4. Kept(0) = [t \in Table |-> Kept(0)[t]]
  BY <1>2
<1>5. run.number # 0 => Kept(0) = tables[0]
  <2> SUFFICES ASSUME run.number # 0
               PROVE  Kept(0) = tables[0]
    OBVIOUS
  <2>1. \A t \in Table : <<0, t>> \notin Emptied
    BY <1>2, FoundInClone DEF Emptied
  <2>2. Kept(0) = [t \in Table |-> tables[0][t]]
    BY <1>2, <2>1
  <2> QED BY <1>2, <2>2
<1> HIDE DEF Kept
<1> QED BY <1>1, <1>2, <1>3, <1>4, <1>5, ZeroIsNumber DEF RowsOnly

LEMMA LoadRowsOnly ==
  ASSUME Disposable, LoadEntity
  PROVE  RowsOnly
<1> DEFINE e == Order[run.next]
           Grown(s) ==
             [t \in DOMAIN tables[s] |->
                IF Home(t) = s /\ \E j \in 1 .. Len(Writes[e]) : Writes[e][j] = t
                THEN tables[s][t] \cup RowsOf(e, t) ELSE tables[s][t]]
<1>1. tables' = [s \in DOMAIN tables |-> Grown(s)]
  BY DEF LoadEntity, After
<1>2. /\ tables[0] = [t \in Table |-> tables[0][t]] /\ run.number \in DOMAIN tables
      /\ pc \in Rehearsing /\ 0 \in DOMAIN tables
  BY DEF Disposable, Command, LoadEntity, Loading, Rehearsing, InLoad
<1>3. \A s \in DOMAIN tables : DOMAIN Grown(s) = DOMAIN tables[s]
  OBVIOUS
<1>4. Grown(0) = [t \in Table |-> Grown(0)[t]]
  BY <1>2
<1>5. run.number # 0 => Grown(0) = tables[0]
  <2> SUFFICES ASSUME run.number # 0
               PROVE  Grown(0) = tables[0]
    OBVIOUS
  <2>1. e \in Entity
    <3>1. run.next \in 1 .. Len(Order) /\ Order \in Seq(Entity)
      BY DryRunAssumption DEF DryRunAssumption, Disposable, Command, LoadEntity, Loading
    <3> QED BY <3>1
  <2>2. \A j \in 1 .. Len(Writes[e]) : Home(Writes[e][j]) # 0
    BY <1>2, <2>1, Written, FoundInClone
  <2>3. Grown(0) = [t \in Table |-> tables[0][t]]
    BY <1>2, <2>2
  <2> QED BY <1>2, <2>3
<1> HIDE DEF Grown
<1> QED BY <1>1, <1>2, <1>3, <1>4, <1>5, ZeroIsNumber DEF RowsOnly

LEMMA LoaderPreserves ==
  ASSUME Disposable,
         OpenLoad \/ TruncateTables \/ LoadEntity \/ LoadRefused \/ EndLoad \/ LoadBreaks
  PROVE  Disposable' /\ Untouched
<1>1. CASE OpenLoad
  BY <1>1, ZeroIsNumber DEF OpenLoad, Disposable, Untouched, Real, Command, Rehearsing, InLoad, given
<1>2. CASE TruncateTables
  BY <1>2, TruncateRowsOnly, ZeroIsNumber
     DEF TruncateTables, RowsOnly, Disposable, Untouched, Real, Command, Rehearsing, InLoad, given
<1>3. CASE LoadEntity
  <2>1. /\ run.number \in Number /\ ids = [s \in Number |-> ids[s]]
        /\ ids' = [ids EXCEPT ![run.number] = Put(@, source[Order[run.next]])]
    BY <1>3 DEF LoadEntity, Disposable, Command
  <2> QED BY <1>3, <2>1, LoadRowsOnly, ZeroIsNumber
          DEF LoadEntity, Loading, RowsOnly, Disposable, Untouched, Real, Command, Rehearsing, InLoad, given
<1>4. CASE LoadRefused \/ EndLoad \/ LoadBreaks
  <2>1. /\ UNCHANGED <<given, tables, keys, ids, run, lost>>
        /\ pc \in Rehearsing
        /\ \/ run.number = 0 /\ pc' = "idle" /\ UNCHANGED forecast
           \/ /\ run.number # 0 /\ pc' = "drop"
              /\ \E v \in {"none", "clean", "error"} : forecast' = Foretold(v)
    BY <1>4 DEF LoadRefused, EndLoad, LoadBreaks, LeaveLoad, Loading, Rehearsing, InLoad
  <2> QED BY <2>1 DEF Disposable, Untouched, Real, Command, Forecasts, Foretold, Rehearsing, InLoad, given
<1> QED BY <1>1, <1>2, <1>3, <1>4

-----------------------------------------------------------------------------
LEMMA CloningPreserves ==
  ASSUME Disposable,
         CreateSchema \/ CloneTable \/ AddForeignKeys \/ CloneFails \/ EnsureIds \/ SeedIds
  PROVE  Disposable' /\ Untouched
<1>1. CASE CreateSchema
  BY <1>1, ZeroIsNumber DEF CreateSchema, Disposable, Untouched, Real, Command, Rehearsing, InLoad, given
<1>2. CASE CloneTable
  BY <1>2, ZeroIsNumber DEF CloneTable, Disposable, Untouched, Real, Command, Rehearsing, InLoad, given
<1>3. CASE AddForeignKeys
  BY <1>3, ZeroIsNumber DEF AddForeignKeys, Cloned, Disposable, Untouched, Real, Command, Rehearsing,
                            InLoad, given
<1>4. CASE CloneFails
  BY <1>4 DEF CloneFails, Disposable, Untouched, Real, Command, Rehearsing, InLoad, given
<1>5. CASE EnsureIds
  BY <1>5, ZeroIsNumber DEF EnsureIds, Disposable, Untouched, Real, Command, Rehearsing, InLoad, given
<1>6. CASE SeedIds
  BY <1>6, ZeroIsNumber DEF SeedIds, Disposable, Untouched, Real, Command, Rehearsing, InLoad, given
<1> QED BY <1>1, <1>2, <1>3, <1>4, <1>5, <1>6

LEMMA DroppingPreserves ==
  ASSUME Disposable, DropClone \/ DropIds \/ DropFails \/ Kill
  PROVE  Disposable' /\ Untouched
<1>1. CASE DropClone
  BY <1>1, ZeroIsNumber DEF DropClone, Disposable, Untouched, Real, Command, Rehearsing, InLoad, given
<1>2. CASE DropIds
  BY <1>2, ZeroIsNumber DEF DropIds, Disposable, Untouched, Real, Command, Rehearsing, InLoad, given
<1>3. CASE DropFails
  BY <1>3 DEF DropFails, Disposable, Untouched, Real, Command, Rehearsing, InLoad, given
<1>4. CASE Kill
  BY <1>4, DryRunAssumption
     DEF DryRunAssumption, Kill, Disposable, Untouched, Real, Command, Forecasts, Unknown, Rehearsing,
         InLoad, given
<1> QED BY <1>1, <1>2, <1>3, <1>4

LEMMA StartPreserves ==
  ASSUME Disposable, StartMigrate \/ \E realistic \in BOOLEAN : StartDryRun(realistic)
  PROVE  Disposable' /\ Untouched
<1>1. Unknown \in Forecasts
  BY DryRunAssumption DEF DryRunAssumption, Unknown, Forecasts
<1>2. run \in Command /\ pc = "idle" /\ UNCHANGED <<given, tables, keys, ids, lost>> /\ forecast' = Unknown
  BY DEF Disposable, StartMigrate, StartDryRun
<1>3. run' \in Command /\ pc' # "idle" /\ pc' # "drop_ids" /\ (run'.number = 0 => pc' \in InLoad)
      /\ (pc' = "create" \/ run'.number = 0)
      /\ (run'.number # 0 => pc' \notin Rehearsing)
  <2>1. CASE StartMigrate
    <3>1. /\ run' = [run EXCEPT !.number = 0, !.next = 1, !.ns = namespace, !.foretold = forecast]
          /\ pc' = "open" /\ namespace \in Namespace /\ forecast \in Forecasts
      BY <2>1 DEF StartMigrate, Disposable
    <3>2. run' = [number |-> 0, last |-> run.last, next |-> 1, ns |-> namespace, foretold |-> forecast]
      BY <1>2, <3>1 DEF Command
    <3>3. run.last \in Nat
      BY <1>2 DEF Command
    <3>4. run' \in Command /\ run'.number = 0
      BY <3>1, <3>2, <3>3, ZeroIsNumber DEF Command
    <3> QED BY <3>1, <3>4 DEF InLoad
  <2>2. ASSUME NEW realistic \in BOOLEAN, StartDryRun(realistic)
        PROVE  run' \in Command /\ pc' = "create" /\ run'.number # 0
    BY <1>1, <1>2, <2>2, DryRunAssumption
       DEF DryRunAssumption, StartDryRun, Disposable, Command, Number
  <2> QED BY <2>1, <2>2 DEF InLoad, Rehearsing
<1> QED BY <1>1, <1>2, <1>3 DEF Disposable, Untouched, given

LEMMA DisposableInit == Init => Disposable
<1> SUFFICES ASSUME Init PROVE Disposable
  OBVIOUS
<1>1. Unknown \in Forecasts
  BY DryRunAssumption DEF DryRunAssumption, Unknown, Forecasts
<1>2. run \in Command
  BY <1>1, ZeroIsNumber DEF Init, Command
<1>3. /\ tables = [s \in DOMAIN tables |-> tables[s]] /\ DOMAIN tables = {0}
      /\ tables[0] = [t \in Table |-> tables[0][t]]
  BY DEF Init
<1>4. keys = [s \in Number |-> keys[s]] /\ ids = [s \in Number |-> ids[s]]
  BY DEF Init
<1>5. \A n \in Number \ {0} : ids[n] = Absent
  BY DEF Init
<1> QED BY <1>1, <1>2, <1>3, <1>4, <1>5, ZeroIsNumber DEF Init, Disposable

LEMMA StepPreserves ==
  ASSUME Disposable, [Next]_dvars
  PROVE  Disposable' /\ (Next => Untouched)
<1>1. CASE Next
  BY <1>1, LoaderPreserves, CloningPreserves, DroppingPreserves, StartPreserves DEF Next
<1>2. CASE UNCHANGED dvars
  BY <1>2 DEF dvars, given, Disposable, Untouched, Real
<1> QED BY <1>1, <1>2

LEMMA DisposableHolds == Spec => []Disposable
BY DisposableInit, StepPreserves, PTL DEF Spec

(* The rehearsal never writes to the real tables, their keys, or id_map.   *)
THEOREM DryRunWritesNothingReal == Spec => RealUntouched
<1>1. Disposable /\ [Next]_dvars =>
        [run.number # 0 /\ pc # "idle" => UNCHANGED <<tables[0], keys[0], ids[0]>>]_dvars
  BY StepPreserves DEF Untouched, Real
<1> QED BY <1>1, DisposableHolds, PTL DEF Spec, RealUntouched

(* Disposable schemas are left only by runs that could not drop them.      *)
THEOREM DryRunCleansUp == Spec => []NothingLeft
<1>1. Disposable => NothingLeft
  BY DEF Disposable, NothingLeft
<1> QED BY <1>1, DisposableHolds, PTL

-----------------------------------------------------------------------------
(* A load as a function of the id_map that it finds: what a rehearsal and  *)
(* the load that it rehearses have in common.                              *)

(* id_map after the first k entities.                                      *)
Made(m, ns, k) ==
  [d \in Doc |-> IF \E j \in 1 .. k : d \in source[Order[j]] THEN <<d, ns>> ELSE m[d]]

MadeValue(m, ns, d, c) ==
  IF c.value = "own" THEN <<d, ns>>
  ELSE IF refers[d] = None THEN None
  ELSE IF c.value = "lookup" THEN m[refers[d]]
  ELSE <<refers[d], ns>>

MadeRows(m, ns, e, t) ==
  {[doc |-> d, key |-> <<d, ns>>, refs |-> [c \in ColumnsOf(t) |-> MadeValue(m, ns, d, c)]] :
     d \in source[e]}

(* What table t holds after the first k entities and i COPYs of the next.  *)
Stored(m, ns, k, i, t) ==
  (UNION {MadeRows(Made(m, ns, j - 1), ns, Order[j], t) :
            j \in {x \in 1 .. k : t \in TablesOf(Order[x])}})
  \cup (IF \E j \in 1 .. i : Writes[Order[k + 1]][j] = t
        THEN MadeRows(Made(m, ns, k), ns, Order[k + 1], t) ELSE {})

StoredBreaks(m, ns, k, i, c) ==
  \E row \in Stored(m, ns, k, i, c.table) :
    row.refs[c] # None /\ \A x \in Stored(m, ns, k, i, c.to) : x.key # row.refs[c]

(* The batch of entity k + 1 fails in a clone.                             *)
Refuses(m, ns, k) ==
  LET e == Order[k + 1] IN
  \/ \E t \in TablesOf(e), d \in source[e] : \E c \in ColumnsOf(t) :
       c.value = "lookup" /\ refers[d] # None /\ Made(m, ns, k)[refers[d]] = None
  \/ \E i \in DOMAIN Writes[e] : \E x \in ClonedKeys :
       x.column.table = Writes[e][i] /\ ~x.deferred /\ StoredBreaks(m, ns, k, i, x.column)
  \/ \E t \in TablesOf(e) : \E x \in ClonedKeys :
       x.column.table = t /\ x.deferred /\ StoredBreaks(m, ns, k, Len(Writes[e]), x.column)

Passes(m, ns) == \A k \in 0 .. Len(Order) - 1 : ~Refuses(m, ns, k)

(* What was said is what a load does that finds id_map as found.           *)
Foretells(said, found) ==
  \E m \in Ids, ns \in Namespace :
    /\ m = found /\ ns = said.ns
    /\ said.verdict = "clean" => Passes(m, ns)
    /\ said.verdict = "error" => ~Passes(m, ns)

(* The running load has done k entities as a load does that finds m.       *)
Replays(m, ns, k) ==
  /\ ids[run.number] = Made(m, ns, k)
  /\ \A t \in Mapped : tables[run.number][t] = Stored(m, ns, k, 0, t)
  /\ \A j \in 0 .. k - 1 : ~Refuses(m, ns, j)

RealKeys ==
  {[column |-> c, deferred |-> c.check = "deferred"] : c \in {x \in columns : x.check # "none"}}

(* The real id_map, as a load that starts now finds it.                    *)
Known == IF ids[0] = Absent THEN NoIds ELSE ids[0]

Given ==
  /\ columns \in Targets
  /\ <<source, refers>> \in Sources
  /\ keys[0] = RealKeys
  /\ \A s \in Number : ids[s] \in Ids \cup {Absent}
  /\ \A s \in DOMAIN tables : tables[s] = [t \in DOMAIN tables[s] |-> tables[s][t]]

(* A rehearsal does, in its clone, what a load would do now.               *)
RehearsalInv ==
  run.number # 0 =>
    /\ run.foretold.verdict = "none"
    /\ pc = "clone" => /\ DOMAIN tables[run.number] \subseteq Mapped
                       /\ \A t \in DOMAIN tables[run.number] : tables[run.number][t] = {}
    /\ pc \in Rehearsing =>
         DOMAIN tables[run.number] = Mapped /\ keys[run.number] = ClonedKeys
    /\ pc \in Rehearsing \ {"batch"} =>
         run.next = 1 /\ \A t \in Mapped : tables[run.number][t] = {}
    /\ pc = "create" \/ pc = "clone" => run.next = 1
    /\ pc = "seed" => ids[run.number] = NoIds
    /\ pc \in {"open", "truncate"} => ids[run.number] = Known
    /\ pc = "batch" =>
         \E m \in Ids, ns \in Namespace, k \in Nat :
           m = Known /\ ns = run.ns /\ k = run.next - 1 /\ Replays(m, ns, k)

(* A load does what was foretold of the id_map that it found.              *)
RealInv ==
  run.number = 0 /\ pc # "idle" =>
    /\ run.ns = namespace /\ outcome = "none"
    /\ pc \in {"open", "truncate"} => run.next = 1 /\ Foretells(run.foretold, Known)
    /\ pc = "truncate" => ids[0] # Absent
    /\ pc = "batch" =>
         \E m \in Ids, ns \in Namespace, k \in Nat :
           ns = run.ns /\ k = run.next - 1 /\ Replays(m, ns, k) /\ Foretells(run.foretold, m)

ForecastInv ==
  /\ forecast.verdict # "none" => run.number # 0
  /\ Foretells(forecast, Known)

ForetellInvariant ==
  /\ Disposable /\ Given
  /\ RehearsalInv /\ RealInv /\ ForecastInv
  /\ PassedIsLoadable /\ NoFalseAlarm

(* They depend on the inputs only.                                         *)
LEMMA GivenKept ==
  ASSUME UNCHANGED given, NEW m, NEW ns
  PROVE  /\ \A k : (Refuses(m, ns, k)' <=> Refuses(m, ns, k)) /\ Made(m, ns, k)' = Made(m, ns, k)
         /\ \A k, i, t : Stored(m, ns, k, i, t)' = Stored(m, ns, k, i, t)
         /\ Passes(m, ns)' <=> Passes(m, ns)
         /\ RealKeys' = RealKeys /\ ClonedKeys' = ClonedKeys
<1>1. UNCHANGED <<columns, source, refers>>
  BY DEF given
<1>2. \A t : ColumnsOf(t)' = ColumnsOf(t)
  BY <1>1 DEF ColumnsOf
<1>3. RealKeys' = RealKeys /\ ClonedKeys' = ClonedKeys
  BY <1>1 DEF RealKeys, ClonedKeys
<1>4. \A k : Made(m, ns, k)' = Made(m, ns, k)
  BY <1>1 DEF Made
<1>5. ASSUME NEW x, NEW e, NEW t PROVE MadeRows(x, ns, e, t)' = MadeRows(x, ns, e, t)
  <2>1. \A d, c : MadeValue(x, ns, d, c)' = MadeValue(x, ns, d, c)
    BY <1>1 DEF MadeValue
  <2> QED BY <1>1, <1>2, <2>1 DEF MadeRows
<1>6. ASSUME NEW k, NEW i, NEW t PROVE Stored(m, ns, k, i, t)' = Stored(m, ns, k, i, t)
  <2>1. ASSUME NEW j, NEW e PROVE MadeRows(Made(m, ns, j), ns, e, t)' = MadeRows(Made(m, ns, j), ns, e, t)
    <3>1. PICK x : x = Made(m, ns, j)
      OBVIOUS
    <3>2. x = Made(m, ns, j)'
      BY <1>4, <3>1
    <3>3. MadeRows(x, ns, e, t)' = MadeRows(x, ns, e, t)
      BY <1>5
    <3> QED BY <3>1, <3>2, <3>3 DEF MadeRows, MadeValue
  <2> QED BY <2>1 DEF Stored
<1>7. ASSUME NEW k PROVE Refuses(m, ns, k)' <=> Refuses(m, ns, k)
  <2>1. \A i, c : StoredBreaks(m, ns, k, i, c)' <=> StoredBreaks(m, ns, k, i, c)
    BY <1>6 DEF StoredBreaks
  <2> QED BY <1>1, <1>2, <1>3, <1>4, <2>1 DEF Refuses
<1> QED BY <1>3, <1>4, <1>6, <1>7 DEF Passes

LEMMA ForetellsKept ==
  ASSUME UNCHANGED given, NEW said, NEW found, Foretells(said, found)
  PROVE  Foretells(said, found)'
<1>1. \A m, ns : Passes(m, ns)' <=> Passes(m, ns)
  BY GivenKept
<1> QED BY <1>1 DEF Foretells

LEMMA InputTypes ==
  ASSUME Given
  PROVE  /\ columns \subseteq Column
         /\ source \in [Entity -> SUBSET Doc] /\ refers \in [Doc -> Doc \cup {None}]
BY DryRunAssumption DEF DryRunAssumption, Given

LEMMA OrderType ==
  ASSUME NEW i \in 1 .. Len(Order)
  PROVE  Order[i] \in Entity /\ i \in DOMAIN Order
BY DryRunAssumption DEF DryRunAssumption

LEMMA WritesType ==
  ASSUME NEW e \in Entity
  PROVE  /\ DOMAIN Writes[e] = 1 .. Len(Writes[e]) /\ Len(Writes[e]) \in Nat
         /\ \A t : t \in TablesOf(e) <=> \E j \in 1 .. Len(Writes[e]) : Writes[e][j] = t
         /\ TablesOf(e) \subseteq Mapped
<1>1. Writes[e] \in Seq(Table)
  BY DryRunAssumption DEF DryRunAssumption
<1>2. DOMAIN Writes[e] = 1 .. Len(Writes[e]) /\ Len(Writes[e]) \in Nat
  BY <1>1
<1> QED BY <1>2 DEF TablesOf, Mapped

LEMMA NoIdsType == NoIds \in Ids /\ NoIds # Absent
BY DryRunAssumption DEF DryRunAssumption, Ids, NoIds

LEMMA KnownType ==
  ASSUME Given
  PROVE  Known \in Ids /\ Known # Absent /\ ids[0] \in Ids \cup {Absent}
BY DryRunAssumption, NoIdsType, ZeroIsNumber DEF DryRunAssumption, Given, Known

LEMMA MadeTypes ==
  ASSUME NEW m \in Ids, NEW ns \in Namespace, NEW k \in Nat
  PROVE  Made(m, ns, k) \in Ids /\ Made(m, ns, 0) = m
BY DEF Made, Ids, Key

LEMMA MadeNext ==
  ASSUME NEW m \in Ids, NEW k \in Nat, NEW ns, ns = run.ns
  PROVE  Put(Made(m, ns, k), source[Order[k + 1]]) = Made(m, ns, k + 1)
<1>1. \A d \in Doc : (\E j \in 1 .. k + 1 : d \in source[Order[j]]) <=>
                     d \in source[Order[k + 1]] \/ \E j \in 1 .. k : d \in source[Order[j]]
  OBVIOUS
<1> QED BY <1>1 DEF Made, Put

LEMMA NothingStored ==
  ASSUME NEW m, NEW ns, NEW t
  PROVE  Stored(m, ns, 0, 0, t) = {}
BY DEF Stored

(* A table after i COPYs of a batch, from the table before it.             *)
LEMMA StoredParts ==
  ASSUME NEW m, NEW ns, NEW k \in Nat, NEW i \in Nat, NEW t
  PROVE  /\ Stored(m, ns, k, 0, t) \subseteq Stored(m, ns, k, i, t)
         /\ Stored(m, ns, k, i, t) =
              Stored(m, ns, k, 0, t) \cup
              (IF \E j \in 1 .. i : Writes[Order[k + 1]][j] = t
               THEN MadeRows(Made(m, ns, k), ns, Order[k + 1], t) ELSE {})
BY DEF Stored

LEMMA StoredNext ==
  ASSUME NEW m, NEW ns, NEW k \in Nat, k + 1 <= Len(Order), NEW t
  PROVE  Stored(m, ns, k, Len(Writes[Order[k + 1]]), t) = Stored(m, ns, k + 1, 0, t)
<1>1. k + 1 \in 1 .. Len(Order)
  BY DryRunAssumption DEF DryRunAssumption
<1>2. t \in TablesOf(Order[k + 1]) <=>
        \E j \in 1 .. Len(Writes[Order[k + 1]]) : Writes[Order[k + 1]][j] = t
  BY <1>1, OrderType, WritesType
<1> DEFINE Rows(j) == MadeRows(Made(m, ns, j - 1), ns, Order[j], t)
           Positions(n) == {x \in 1 .. n : t \in TablesOf(Order[x])}
<1>3. Stored(m, ns, k + 1, 0, t) = UNION {Rows(j) : j \in Positions(k + 1)}
  BY DEF Stored
<1>4. Stored(m, ns, k, Len(Writes[Order[k + 1]]), t) =
        (UNION {Rows(j) : j \in Positions(k)}) \cup
        (IF t \in TablesOf(Order[k + 1]) THEN Rows(k + 1) ELSE {})
  <2>1. Rows(k + 1) = MadeRows(Made(m, ns, k), ns, Order[k + 1], t)
    <3>1. k + 1 - 1 = k
      OBVIOUS
    <3> QED BY <3>1
  <2> HIDE DEF Rows
  <2>2. Stored(m, ns, k, Len(Writes[Order[k + 1]]), t) =
        (UNION {Rows(j) : j \in Positions(k)}) \cup
        (IF t \in TablesOf(Order[k + 1]) THEN MadeRows(Made(m, ns, k), ns, Order[k + 1], t) ELSE {})
    BY <1>2 DEF Stored, Rows
  <2> QED BY <2>1, <2>2
<1>5. Positions(k + 1) = Positions(k) \cup (IF t \in TablesOf(Order[k + 1]) THEN {k + 1} ELSE {})
  OBVIOUS
<1> HIDE DEF Rows, Positions
<1> QED BY <1>3, <1>4, <1>5

(* A key that no row has at the end of a batch, none has after a COPY.     *)
LEMMA BreaksEarly ==
  ASSUME NEW m, NEW ns, NEW k \in Nat, k + 1 <= Len(Order), NEW c,
         NEW i \in DOMAIN Writes[Order[k + 1]], Writes[Order[k + 1]][i] = c.table,
         StoredBreaks(m, ns, k, Len(Writes[Order[k + 1]]), c)
  PROVE  StoredBreaks(m, ns, k, i, c)
<1> DEFINE e == Order[k + 1]
           L == Len(Writes[e])
<1>1. k + 1 \in 1 .. Len(Order)
  BY DryRunAssumption DEF DryRunAssumption
<1>2. i \in 1 .. L /\ L \in Nat
  BY <1>1, OrderType, WritesType
<1>3. Stored(m, ns, k, L, c.table) = Stored(m, ns, k, i, c.table)
  BY <1>2 DEF Stored
<1>4. Stored(m, ns, k, i, c.to) \subseteq Stored(m, ns, k, L, c.to)
  BY <1>2 DEF Stored
<1> HIDE DEF L
<1> QED BY <1>3, <1>4 DEF StoredBreaks, L

-----------------------------------------------------------------------------
(* The batch that the loader is at, and the load that it replays.          *)
AtBatch(m, ns, k) ==
  /\ run.number \in DOMAIN tables
  /\ \A t \in Mapped : t \in DOMAIN tables[run.number] /\ Home(t) = run.number
  /\ ns = run.ns /\ k = run.next - 1 /\ Replays(m, ns, k)

LEMMA RowsAreMade ==
  ASSUME NEW m \in Ids, NEW ns \in Namespace, NEW k \in Nat, AtBatch(m, ns, k), NEW e, NEW t
  PROVE  RowsOf(e, t) = MadeRows(Made(m, ns, k), ns, e, t)
<1>1. \A d, c : ValueOf(d, c) = MadeValue(Made(m, ns, k), ns, d, c)
  BY DEF ValueOf, MadeValue, AtBatch, Replays
<1> QED BY <1>1 DEF RowsOf, MadeRows, AtBatch

LEMMA CopiesAreStored ==
  ASSUME NEW m \in Ids, NEW ns \in Namespace, NEW k \in Nat, AtBatch(m, ns, k),
         NEW i \in Nat, NEW t \in Mapped
  PROVE  After(Order[k + 1], i)[run.number][t] = Stored(m, ns, k, i, t)
<1> DEFINE e == Order[k + 1]
           Grown == IF \E j \in 1 .. i : Writes[e][j] = t
                    THEN tables[run.number][t] \cup RowsOf(e, t) ELSE tables[run.number][t]
<1>1. t \in DOMAIN tables[run.number] /\ Home(t) = run.number /\ run.number \in DOMAIN tables
  BY DEF AtBatch
<1>2. After(e, i)[run.number][t] = Grown
  BY <1>1 DEF After
<1>3. tables[run.number][t] = Stored(m, ns, k, 0, t)
  BY DEF AtBatch, Replays
<1>4. RowsOf(e, t) = MadeRows(Made(m, ns, k), ns, e, t)
  BY RowsAreMade
<1>5. Grown = Stored(m, ns, k, 0, t) \cup
              (IF \E j \in 1 .. i : Writes[e][j] = t THEN MadeRows(Made(m, ns, k), ns, e, t) ELSE {})
  BY <1>3, <1>4
<1> QED BY <1>2, <1>5, StoredParts

LEMMA BreaksAsStored ==
  ASSUME NEW m \in Ids, NEW ns \in Namespace, NEW k \in Nat, AtBatch(m, ns, k),
         NEW i \in Nat, NEW x, x.column.table \in Mapped, x.column.to \in Mapped
  PROVE  Breaks(After(Order[k + 1], i), run.number, x) <=> StoredBreaks(m, ns, k, i, x.column)
<1>1. After(Order[k + 1], i)[run.number][x.column.table] = Stored(m, ns, k, i, x.column.table)
  BY CopiesAreStored
<1>2. After(Order[k + 1], i)[run.number][x.column.to] = Stored(m, ns, k, i, x.column.to)
  BY CopiesAreStored
<1> QED BY <1>1, <1>2 DEF Breaks, StoredBreaks

(* The batch meets a lookup without an answer.                             *)
LEMMA LookupAsMade ==
  ASSUME NEW m \in Ids, NEW ns \in Namespace, NEW k \in Nat, AtBatch(m, ns, k), NEW d
  PROVE  ids[run.number][refers[d]] = None <=> Made(m, ns, k)[refers[d]] = None
BY DEF AtBatch, Replays

LEMMA ClonedKeyTypes ==
  ASSUME Given, NEW x \in ClonedKeys
  PROVE  /\ x.column \in columns /\ x.column.table \in Mapped /\ x.column.to \in Mapped
         /\ x.column.check \in {"immediate", "deferrable", "deferred"}
         /\ x.deferred <=> x.column.check # "immediate"
<1>1. PICK c \in columns : /\ c.check # "none" /\ c.table \in Cloned /\ c.to \in Cloned
                           /\ x = [column |-> c, deferred |-> c.check # "immediate"]
  BY DEF ClonedKeys
<1>2. c \in Column
  BY InputTypes
<1> QED BY <1>1, <1>2 DEF Cloned, Column

LEMMA RealKeyTypes ==
  ASSUME Given, NEW x \in RealKeys
  PROVE  /\ x.column \in columns /\ x.column.check \in {"immediate", "deferrable", "deferred"}
         /\ x.deferred <=> x.column.check = "deferred"
<1>1. PICK c \in columns : c.check # "none" /\ x = [column |-> c, deferred |-> c.check = "deferred"]
  BY DEF RealKeys
<1>2. c \in Column
  BY InputTypes
<1> QED BY <1>1, <1>2 DEF Column

(* In its clone a load is refused where the replay is.                     *)
LEMMA RefusedInClone ==
  ASSUME Given, NEW m \in Ids, NEW ns \in Namespace, NEW k \in Nat, AtBatch(m, ns, k),
         k + 1 <= Len(Order), keys[run.number] = ClonedKeys
  PROVE  BatchRefused(Order[k + 1]) <=> Refuses(m, ns, k)
<1> DEFINE e == Order[k + 1]
<1>1. e \in Entity
  <2>1. k + 1 \in 1 .. Len(Order)
    BY DryRunAssumption DEF DryRunAssumption
  <2> QED BY <2>1, OrderType
<1>2. \A i \in DOMAIN Writes[e] : i \in Nat /\ Writes[e][i] \in Mapped /\ Home(Writes[e][i]) = run.number
  BY <1>1, WritesType DEF AtBatch
<1>3. \A t \in TablesOf(e) : t \in Mapped /\ Home(t) = run.number
  BY <1>1, WritesType DEF AtBatch
<1>4. Len(Writes[e]) \in Nat
  BY <1>1, WritesType
<1>5. \A i \in Nat : \A x \in ClonedKeys :
        Breaks(After(e, i), run.number, x) <=> StoredBreaks(m, ns, k, i, x.column)
  BY ClonedKeyTypes, BreaksAsStored
<1>6. \A d : ids[run.number][refers[d]] = None <=> Made(m, ns, k)[refers[d]] = None
  BY LookupAsMade
<1> DEFINE Looks == \E t \in TablesOf(e), d \in source[e] : \E c \in ColumnsOf(t) :
                      c.value = "lookup" /\ refers[d] # None /\ Made(m, ns, k)[refers[d]] = None
           Early == \E i \in DOMAIN Writes[e] : \E x \in ClonedKeys :
                      x.column.table = Writes[e][i] /\ ~x.deferred /\ StoredBreaks(m, ns, k, i, x.column)
           Late == \E t \in TablesOf(e) : \E x \in ClonedKeys :
                     x.column.table = t /\ x.deferred /\ StoredBreaks(m, ns, k, Len(Writes[e]), x.column)
<1>7. Refuses(m, ns, k) <=> Looks \/ Early \/ Late
  BY DEF Refuses
<1>8. Looks <=> \E t \in TablesOf(e), d \in source[e] : \E c \in ColumnsOf(t) :
                  c.value = "lookup" /\ refers[d] # None /\ ids[run.number][refers[d]] = None
  BY <1>6
<1>9. Early <=> \E i \in DOMAIN Writes[e] : \E x \in keys[Home(Writes[e][i])] :
                  /\ x.column.table = Writes[e][i] /\ ~x.deferred
                  /\ Breaks(After(e, i), Home(Writes[e][i]), x)
  BY <1>2, <1>5
<1>10. Late <=> \E t \in TablesOf(e) : \E x \in keys[Home(t)] :
                  x.column.table = t /\ x.deferred /\ Breaks(After(e, Len(Writes[e])), Home(t), x)
  BY <1>3, <1>4, <1>5
<1> HIDE DEF Looks, Early, Late
<1> QED BY <1>7, <1>8, <1>9, <1>10 DEF BatchRefused

(* In the target it is refused wherever the replay is, and without keys    *)
(* that the clone lacks or defers, nowhere else.                           *)
LEMMA RefusedInTarget ==
  ASSUME Given, NEW m \in Ids, NEW ns \in Namespace, NEW k \in Nat, AtBatch(m, ns, k),
         k + 1 <= Len(Order), run.number = 0
  PROVE  /\ Refuses(m, ns, k) => BatchRefused(Order[k + 1])
         /\ BatchRefused(Order[k + 1]) /\ ~Crosses /\ ~ChecksEarly => Refuses(m, ns, k)
<1> DEFINE e == Order[k + 1]
           Looks == \E t \in TablesOf(e), d \in source[e] : \E c \in ColumnsOf(t) :
                      c.value = "lookup" /\ refers[d] # None /\ Made(m, ns, k)[refers[d]] = None
<1>1. e \in Entity /\ keys[0] = RealKeys
  <2>1. k + 1 \in 1 .. Len(Order)
    BY DryRunAssumption DEF DryRunAssumption
  <2> QED BY <2>1, OrderType DEF Given
<1>2. \A i \in DOMAIN Writes[e] : i \in Nat /\ Writes[e][i] \in Mapped /\ Home(Writes[e][i]) = 0
  BY <1>1, WritesType DEF AtBatch
<1>3. \A t \in TablesOf(e) : t \in Mapped /\ Home(t) = 0
  BY <1>1, WritesType DEF AtBatch
<1>4. Len(Writes[e]) \in Nat
  BY <1>1, WritesType
<1>5. \A i \in Nat : \A x : x.column.table \in Mapped /\ x.column.to \in Mapped =>
        (Breaks(After(e, i), 0, x) <=> StoredBreaks(m, ns, k, i, x.column))
  BY BreaksAsStored
<1>6. Looks <=> \E t \in TablesOf(e), d \in source[e] : \E c \in ColumnsOf(t) :
                  c.value = "lookup" /\ refers[d] # None /\ ids[run.number][refers[d]] = None
  BY LookupAsMade
<1>7. ASSUME NEW x \in ClonedKeys
      PROVE  \E y \in RealKeys : y.column = x.column /\ (y.deferred <=> x.column.check = "deferred")
  <2>1. x.column \in columns /\ x.column.check # "none"
    BY <1>7, ClonedKeyTypes
  <2>2. [column |-> x.column, deferred |-> x.column.check = "deferred"] \in RealKeys
    BY <2>1 DEF RealKeys
  <2> QED BY <2>2
<1>8. ASSUME Refuses(m, ns, k) PROVE BatchRefused(e)
  <2>1. CASE Looks
    BY <1>6, <2>1 DEF BatchRefused
  <2>2. ASSUME NEW i \in DOMAIN Writes[e], NEW x \in ClonedKeys,
               x.column.table = Writes[e][i], StoredBreaks(m, ns, k, i, x.column),
               x.column.check # "deferred"
        PROVE  BatchRefused(e)
    <3>1. PICK y \in RealKeys : y.column = x.column /\ ~y.deferred
      BY <1>7, <2>2
    <3>2. Breaks(After(e, i), 0, y)
      BY <1>2, <1>5, <2>2, <3>1, ClonedKeyTypes
    <3> QED BY <1>1, <1>2, <2>2, <3>1, <3>2 DEF BatchRefused
  <2>3. ASSUME NEW x \in ClonedKeys, x.column.table \in TablesOf(e),
               StoredBreaks(m, ns, k, Len(Writes[e]), x.column), x.column.check = "deferred"
        PROVE  BatchRefused(e)
    <3>1. PICK y \in RealKeys : y.column = x.column /\ y.deferred
      BY <1>7, <2>3
    <3>2. Breaks(After(e, Len(Writes[e])), 0, y)
      BY <1>4, <1>5, <2>3, <3>1, ClonedKeyTypes
    <3> QED BY <1>1, <1>3, <2>3, <3>1, <3>2 DEF BatchRefused
  <2>4. ASSUME NEW x \in ClonedKeys, x.column.table \in TablesOf(e), x.deferred,
               StoredBreaks(m, ns, k, Len(Writes[e]), x.column), x.column.check # "deferred"
        PROVE  BatchRefused(e)
    <3>1. PICK i \in DOMAIN Writes[e] : Writes[e][i] = x.column.table
      BY <1>1, <2>4, WritesType
    <3>2. StoredBreaks(m, ns, k, i, x.column)
      BY <2>4, <3>1, BreaksEarly
    <3> QED BY <2>2, <2>4, <3>1, <3>2
  <2>5. \A x \in ClonedKeys : ~x.deferred => x.column.check # "deferred"
    BY ClonedKeyTypes
  <2> QED BY <1>8, <2>1, <2>2, <2>3, <2>4, <2>5 DEF Refuses
<1>9. ASSUME BatchRefused(e), ~Crosses, ~ChecksEarly PROVE Refuses(m, ns, k)
  <2>1. ASSUME NEW y \in RealKeys, y.column.table \in Mapped
        PROVE  /\ y.column.to \in Mapped
               /\ \E x \in ClonedKeys : x.column = y.column /\ (x.deferred <=> y.deferred)
    <3>1. y.column \in columns /\ y.column.check \in {"immediate", "deferred"}
          /\ (y.deferred <=> y.column.check = "deferred")
      BY <1>9, <2>1, RealKeyTypes DEF ChecksEarly
    <3>2. y.column.to \in Mapped
      BY <1>1, <1>9, <2>1 DEF Crosses
    <3>3. [column |-> y.column, deferred |-> y.column.check # "immediate"] \in ClonedKeys
      BY <2>1, <3>1, <3>2 DEF ClonedKeys, Cloned
    <3> QED BY <3>1, <3>2, <3>3
  <2>2. ASSUME NEW i \in DOMAIN Writes[e], NEW y \in RealKeys, y.column.table = Writes[e][i],
               ~y.deferred, Breaks(After(e, i), 0, y)
        PROVE  Refuses(m, ns, k)
    <3>1. PICK x \in ClonedKeys : x.column = y.column /\ ~x.deferred
      BY <1>2, <2>1, <2>2
    <3>2. StoredBreaks(m, ns, k, i, x.column)
      BY <1>2, <1>5, <2>1, <2>2, <3>1
    <3> QED BY <2>2, <3>1, <3>2 DEF Refuses
  <2>3. ASSUME NEW y \in RealKeys, y.column.table \in TablesOf(e), y.deferred,
               Breaks(After(e, Len(Writes[e])), 0, y)
        PROVE  Refuses(m, ns, k)
    <3>1. PICK x \in ClonedKeys : x.column = y.column /\ x.deferred
      BY <1>3, <2>1, <2>3
    <3>2. StoredBreaks(m, ns, k, Len(Writes[e]), x.column)
      BY <1>3, <1>4, <1>5, <2>1, <2>3, <3>1
    <3> QED BY <2>3, <3>1, <3>2 DEF Refuses
  <2>4. Looks => Refuses(m, ns, k)
    BY DEF Refuses
  <2>5. \/ \E t \in TablesOf(e), d \in source[e] : \E c \in ColumnsOf(t) :
             c.value = "lookup" /\ refers[d] # None /\ ids[run.number][refers[d]] = None
        \/ \E i \in DOMAIN Writes[e] : \E y \in RealKeys :
             y.column.table = Writes[e][i] /\ ~y.deferred /\ Breaks(After(e, i), 0, y)
        \/ \E t \in TablesOf(e) : \E y \in RealKeys :
             y.column.table = t /\ y.deferred /\ Breaks(After(e, Len(Writes[e])), 0, y)
    BY <1>1, <1>2, <1>3, <1>9 DEF BatchRefused
  <2> HIDE DEF Looks
  <2> QED BY <1>6, <2>2, <2>3, <2>4, <2>5
<1> QED BY <1>8, <1>9

-----------------------------------------------------------------------------
LEMMA PassesKept ==
  ASSUME UNCHANGED given
  PROVE  \A m, ns : Passes(m, ns)' <=> Passes(m, ns)
BY GivenKept

LEMMA ForecastKept ==
  ASSUME UNCHANGED <<given, forecast>>, Known' = Known, Foretells(forecast, Known)
  PROVE  Foretells(forecast, Known)'
BY PassesKept DEF Foretells

LEMMA GivenStays ==
  ASSUME Given, UNCHANGED given, keys'[0] = keys[0],
         \A s \in Number : ids'[s] \in Ids \cup {Absent},
         \A s \in DOMAIN tables' : tables'[s] = [t \in DOMAIN tables'[s] |-> tables'[s][t]]
  PROVE  Given'
<1>1. RealKeys' = RealKeys
  BY GivenKept
<1> QED BY <1>1 DEF Given, given

LEMMA VerdictsKept ==
  ASSUME PassedIsLoadable, NoFalseAlarm, UNCHANGED given, keys'[0] = keys[0],
         \/ run'.foretold = run.foretold /\ outcome' = outcome
         \/ outcome' \notin {"failed", "loaded"}
  PROVE  PassedIsLoadable' /\ NoFalseAlarm'
<1>1. (Crosses' <=> Crosses) /\ (ChecksEarly' <=> ChecksEarly) /\ namespace' = namespace
  BY DEF Crosses, ChecksEarly, given
<1> QED BY <1>1 DEF PassedIsLoadable, NoFalseAlarm

LEMMA OpenForetells ==
  ASSUME ForetellInvariant, OpenLoad
  PROVE  ForetellInvariant'
<1> USE DEF ForetellInvariant
<1>1. Disposable' /\ run \in Command
  BY LoaderPreserves DEF Disposable
<1>2. /\ pc = "open" /\ pc' = "truncate" /\ UNCHANGED <<given, tables, keys, run, forecast, outcome>>
      /\ ids = [s \in Number |-> ids[s]] /\ run.number \in Number
      /\ ids' = [ids EXCEPT ![run.number] = IF @ = Absent THEN NoIds ELSE @]
  BY <1>1 DEF OpenLoad, Disposable, Command
<1>3. \A s \in Number : ids'[s] \in Ids \cup {Absent}
  BY <1>2, NoIdsType DEF Given
<1>4. run.number # 0 => ids[run.number] = Known /\ ids'[run.number] = Known /\ ids'[0] = ids[0]
  BY <1>2, KnownType, ZeroIsNumber DEF RehearsalInv, Rehearsing, InLoad
<1>5. run.number = 0 => ids'[0] = Known /\ ids'[0] # Absent
  BY <1>2, NoIdsType DEF Known
<1>6. Known' = Known
  BY <1>4, <1>5 DEF Known
<1>7. Given'
  BY <1>2, <1>3, GivenStays DEF Given
<1>8. RehearsalInv'
  <2>1. ClonedKeys' = ClonedKeys
    BY <1>2, GivenKept
  <2> QED BY <1>2, <1>4, <1>6, <2>1 DEF RehearsalInv, Rehearsing, InLoad
<1>9. RealInv'
  <2>1. ASSUME run.number = 0 PROVE Foretells(run.foretold, Known)'
    BY <1>2, <1>6, <2>1, PassesKept DEF RealInv, Foretells
  <2> QED BY <1>2, <1>5, <2>1 DEF RealInv, given
<1>10. ForecastInv'
  BY <1>2, <1>6, ForecastKept DEF ForecastInv
<1>11. PassedIsLoadable' /\ NoFalseAlarm'
  BY <1>2, VerdictsKept
<1> QED BY <1>1, <1>7, <1>8, <1>9, <1>10, <1>11

LEMMA TruncateForetells ==
  ASSUME ForetellInvariant, TruncateTables
  PROVE  ForetellInvariant'
<1> USE DEF ForetellInvariant
<1>1. Disposable' /\ run \in Command
  BY LoaderPreserves DEF Disposable
<1>2. /\ pc = "truncate" /\ pc' = "batch" /\ UNCHANGED <<given, keys, ids, run, forecast, outcome>>
      /\ run.number \in DOMAIN tables /\ run.next = 1
      /\ tables' = [s \in DOMAIN tables |-> [t \in DOMAIN tables[s] |->
                      IF <<s, t>> \in Emptied THEN {} ELSE tables[s][t]]]
  BY DEF TruncateTables, Disposable, RehearsalInv, RealInv, Rehearsing, InLoad
<1>3. Known' = Known /\ ids[run.number] = Known
  BY <1>2 DEF Known, RehearsalInv, RealInv
<1>4. Known \in Ids
  BY KnownType
<1>5. \A t \in Mapped : t \in DOMAIN tables[run.number] /\ <<run.number, t>> \in Emptied
  <2>1. \A t \in Mapped : t \in Table
    <3>1. \A e \in Entity : TablesOf(e) \subseteq Table
      BY DryRunAssumption DEF DryRunAssumption, TablesOf
    <3> QED BY <3>1 DEF Mapped
  <2>2. DOMAIN tables[0] = Table
    BY DEF Disposable
  <2> QED BY <1>2, <2>1, <2>2, FoundInClone DEF Disposable, Rehearsing, InLoad, Emptied, Home
<1>6. \A t \in Mapped : tables'[run.number][t] = {}
  BY <1>2, <1>5
<1>7. ASSUME NEW m \in Ids, NEW ns \in Namespace, m = Known, ns = run.ns
      PROVE  Replays(m, ns, 0)'
  <2>1. Made(m, ns, 0)' = m
    <3>1. Made(m, ns, 0) = m
      BY MadeTypes, 0 \in Nat
    <3>2. Made(m, ns, 0)' = Made(m, ns, 0)
      BY <1>2, GivenKept
    <3> QED BY <3>1, <3>2
  <2>2. \A t : Stored(m, ns, 0, 0, t)' = {}
    BY <1>2, NothingStored, GivenKept
  <2>3. 0 .. 0 - 1 = {}
    OBVIOUS
  <2>4. ids'[run'.number] = m /\ \A t \in Mapped : tables'[run'.number][t] = {}
    BY <1>2, <1>3, <1>6, <1>7
  <2> QED BY <2>1, <2>2, <2>3, <2>4 DEF Replays
<1>8. \A s \in Number : ids'[s] \in Ids \cup {Absent}
  BY <1>2 DEF Given
<1>9. DOMAIN tables'[run.number] = DOMAIN tables[run.number]
  BY <1>2
<1>10. \A s \in DOMAIN tables' : tables'[s] = [t \in DOMAIN tables'[s] |-> tables'[s][t]]
  BY <1>2
<1>11. Given'
  BY <1>2, <1>8, <1>10, GivenStays DEF Given
<1>12. run.ns \in Namespace /\ 0 = run.next - 1
  BY <1>1, <1>2 DEF Command
<1>13. RehearsalInv'
  <2>1. ClonedKeys' = ClonedKeys
    BY <1>2, GivenKept
  <2>2. ASSUME run.number # 0
        PROVE  \E m \in Ids, ns \in Namespace, k \in Nat :
                 m = Known' /\ ns = run.ns /\ k = run.next - 1 /\ Replays(m, ns, k)'
    BY <1>3, <1>4, <1>7, <1>12
  <2> QED BY <1>2, <1>9, <2>1, <2>2 DEF RehearsalInv, Rehearsing, InLoad
<1>14. RealInv'
  <2>1. ASSUME run.number = 0
        PROVE  \E m \in Ids, ns \in Namespace, k \in Nat :
                 ns = run.ns /\ k = run.next - 1 /\ Replays(m, ns, k)' /\ Foretells(run.foretold, m)'
    <3>1. PICK m \in Ids, ns \in Namespace :
            /\ m = Known /\ ns = run.foretold.ns
            /\ run.foretold.verdict = "clean" => Passes(m, ns)
            /\ run.foretold.verdict = "error" => ~Passes(m, ns)
      BY <1>2, <2>1 DEF RealInv, Foretells
    <3>2. Foretells(run.foretold, m)'
      BY <1>2, <3>1, PassesKept DEF Foretells
    <3> QED BY <1>3, <1>7, <1>12, <3>1, <3>2
  <2> QED BY <1>2, <2>1 DEF RealInv, given
<1>15. ForecastInv'
  BY <1>2, <1>3, ForecastKept DEF ForecastInv
<1>16. PassedIsLoadable' /\ NoFalseAlarm'
  BY <1>2, VerdictsKept
<1> QED BY <1>1, <1>11, <1>13, <1>14, <1>15, <1>16

LEMMA ReplayAt ==
  ASSUME ForetellInvariant, pc = "batch"
  PROVE  \E m \in Ids, ns \in Namespace, k \in Nat :
           /\ AtBatch(m, ns, k)
           /\ run.number # 0 => m = Known
           /\ run.number = 0 => Foretells(run.foretold, m)
<1>1. \A t \in Mapped : t \in Table
  <2>1. \A e \in Entity : TablesOf(e) \subseteq Table
    BY DryRunAssumption DEF DryRunAssumption, TablesOf
  <2> QED BY <2>1 DEF Mapped
<1>2. DOMAIN tables[0] = Table /\ run.number \in DOMAIN tables
  BY DEF ForetellInvariant, Disposable
<1>3. \A t \in Mapped : t \in DOMAIN tables[run.number] /\ Home(t) = run.number
  BY <1>1, <1>2 DEF ForetellInvariant, RehearsalInv, Rehearsing, InLoad, Home
<1> QED BY <1>2, <1>3 DEF ForetellInvariant, RehearsalInv, RealInv, Rehearsing, InLoad, AtBatch

(* Where the batch of entity k + 1 is loaded, the replay does not fail.    *)
LEMMA LoadReplays ==
  ASSUME ForetellInvariant, LoadEntity,
         NEW m \in Ids, NEW ns \in Namespace, NEW k \in Nat, AtBatch(m, ns, k)
  PROVE  Replays(m, ns, k + 1)'
<1> DEFINE e == Order[k + 1]
<1>1. /\ run \in Command /\ UNCHANGED <<given, keys>> /\ Given
      /\ pc = "batch" /\ run.next <= Len(Order) /\ run' = [run EXCEPT !.next = @ + 1]
      /\ ids' = [ids EXCEPT ![run.number] = Put(@, source[Order[run.next]])]
      /\ ids = [s \in Number |-> ids[s]]
      /\ ~BatchRefused(Order[run.next])
      /\ tables' = After(Order[run.next], Len(Writes[Order[run.next]]))
  BY DEF ForetellInvariant, Disposable, LoadEntity, Loading
<1>2. run.next = k + 1 /\ k + 1 <= Len(Order) /\ run'.number = run.number /\ run.number \in Number
  BY <1>1 DEF AtBatch, Command
<1>3. e \in Entity /\ Len(Writes[e]) \in Nat
  <2>1. k + 1 \in 1 .. Len(Order)
    BY <1>2, DryRunAssumption DEF DryRunAssumption
  <2> QED BY <2>1, OrderType, WritesType
<1>4. ids'[run.number] = Made(m, ns, k + 1)
  <2>1. ids'[run.number] = Put(ids[run.number], source[e])
    BY <1>1, <1>2
  <2> QED BY <2>1, MadeNext DEF AtBatch, Replays
<1>5. \A t \in Mapped : tables'[run.number][t] = Stored(m, ns, k + 1, 0, t)
  <2> TAKE t \in Mapped
  <2>1. tables'[run.number][t] = Stored(m, ns, k, Len(Writes[e]), t)
    BY <1>1, <1>2, <1>3, CopiesAreStored
  <2> QED BY <1>2, <2>1, StoredNext
<1>6. ~Refuses(m, ns, k)
  <2>1. CASE run.number = 0
    BY <1>1, <1>2, <2>1, RefusedInTarget
  <2>2. CASE run.number # 0
    <3>1. keys[run.number] = ClonedKeys
      BY <1>1, <2>2 DEF ForetellInvariant, RehearsalInv, Rehearsing, InLoad
    <3> QED BY <1>1, <1>2, <3>1, RefusedInClone
  <2> QED BY <2>1, <2>2
<1>7. \A j \in 0 .. (k + 1) - 1 : ~Refuses(m, ns, j)
  BY <1>6 DEF AtBatch, Replays
<1>8. Made(m, ns, k + 1)' = Made(m, ns, k + 1) /\ \A t : Stored(m, ns, k + 1, 0, t)' = Stored(m, ns, k + 1, 0, t)
  BY <1>1, GivenKept
<1>9. \A j : Refuses(m, ns, j)' <=> Refuses(m, ns, j)
  BY <1>1, GivenKept
<1> QED BY <1>2, <1>4, <1>5, <1>7, <1>8, <1>9 DEF Replays

LEMMA LoadForetells ==
  ASSUME ForetellInvariant, LoadEntity
  PROVE  ForetellInvariant'
<1>1. Disposable' /\ Untouched /\ run \in Command /\ Disposable
  BY LoaderPreserves DEF ForetellInvariant, Disposable
<1>2. /\ UNCHANGED <<given, keys, pc, forecast, outcome>> /\ pc = "batch"
      /\ run' = [run EXCEPT !.next = @ + 1] /\ Given
      /\ ids' = [ids EXCEPT ![run.number] = Put(@, source[Order[run.next]])]
      /\ ids = [s \in Number |-> ids[s]]
      /\ tables' = After(Order[run.next], Len(Writes[Order[run.next]]))
  BY DEF ForetellInvariant, Disposable, LoadEntity, Loading
<1>3. PICK m \in Ids, ns \in Namespace, k \in Nat :
        /\ AtBatch(m, ns, k)
        /\ run.number # 0 => m = Known
        /\ run.number = 0 => Foretells(run.foretold, m)
  BY <1>2, ReplayAt
<1>4. Replays(m, ns, k + 1)'
  BY <1>3, LoadReplays
<1>5. /\ run'.number = run.number /\ run'.ns = run.ns /\ run'.foretold = run.foretold
      /\ run.number \in Number /\ run'.next - 1 = k + 1 /\ ns = run.ns
  BY <1>1, <1>2, <1>3 DEF Command, AtBatch
<1>6. run.number # 0 => Known' = Known
  BY <1>1, <1>2 DEF Untouched, Real, Known
<1>7. Given'
  <2>1. Made(m, ns, k + 1) \in Ids
    BY MadeTypes
  <2>2. ids'[run.number] = Made(m, ns, k + 1)
    <3>1. Made(m, ns, k + 1)' = Made(m, ns, k + 1)
      BY <1>2, GivenKept
    <3> QED BY <1>4, <1>5, <3>1 DEF Replays
  <2>3. \A s \in Number : ids'[s] \in Ids \cup {Absent}
    BY <1>2, <2>1, <2>2 DEF Given
  <2>4. \A s \in DOMAIN tables' : tables'[s] = [t \in DOMAIN tables'[s] |-> tables'[s][t]]
    BY <1>2 DEF After
  <2> QED BY <1>2, <2>3, <2>4, GivenStays
<1>8. RehearsalInv'
  <2>1. ClonedKeys' = ClonedKeys
    BY <1>2, GivenKept
  <2>2. DOMAIN tables'[run.number] = DOMAIN tables[run.number]
    BY <1>2, <1>3 DEF After, AtBatch
  <2>3. ASSUME run.number # 0
        PROVE  \E x \in Ids, y \in Namespace, z \in Nat :
                 x = Known' /\ y = run'.ns /\ z = run'.next - 1 /\ Replays(x, y, z)'
    BY <1>3, <1>4, <1>5, <1>6, <2>3
  <2> QED BY <1>2, <1>5, <2>1, <2>2, <2>3 DEF ForetellInvariant, RehearsalInv, Rehearsing, InLoad
<1>9. RealInv'
  <2>1. ASSUME run.number = 0 PROVE Foretells(run.foretold, m)'
    BY <1>2, <1>3, <1>5, <2>1, PassesKept DEF Foretells
  <2>2. ASSUME run.number = 0
        PROVE  \E x \in Ids, y \in Namespace, z \in Nat :
                 y = run'.ns /\ z = run'.next - 1 /\ Replays(x, y, z)' /\ Foretells(run.foretold, x)'
    BY <1>4, <1>5, <2>1, <2>2
  <2> QED BY <1>2, <1>5, <2>2 DEF ForetellInvariant, RealInv, given
<1>10. ForecastInv'
  <2>1. CASE run.number # 0
    BY <1>2, <1>5, <1>6, <2>1, ForecastKept DEF ForetellInvariant, ForecastInv
  <2>2. CASE run.number = 0
    <3>1. forecast.verdict = "none" /\ forecast.ns \in Namespace
      BY <1>1, <2>2 DEF ForetellInvariant, ForecastInv, Disposable, Forecasts
    <3>2. Known' \in Ids
      <4>1. ids'[0] \in Ids
        <5>1. Made(m, ns, k + 1)' = Made(m, ns, k + 1)
          BY <1>2, GivenKept
        <5> QED BY <1>4, <1>5, <2>2, <5>1, MadeTypes DEF Replays
      <4> QED BY <4>1, NoIdsType DEF Known
    <3> QED BY <1>2, <3>1, <3>2 DEF ForecastInv, Foretells
  <2> QED BY <2>1, <2>2
<1>11. PassedIsLoadable' /\ NoFalseAlarm'
  BY <1>2, <1>5, VerdictsKept DEF ForetellInvariant
<1> QED BY <1>1, <1>7, <1>8, <1>9, <1>10, <1>11 DEF ForetellInvariant

-----------------------------------------------------------------------------
(* In a clone TRUNCATE is not refused: all its keys are among its tables.  *)
LEMMA CloneTruncates ==
  ASSUME ForetellInvariant, run.number # 0, pc = "truncate"
  PROVE  ~TruncateRefused
<1>1. keys[run.number] = ClonedKeys /\ Given /\ Disposable
  BY DEF ForetellInvariant, RehearsalInv, Rehearsing, InLoad
<1>2. \A t \in Mapped : Home(t) = run.number
  BY <1>1, FoundInClone DEF Rehearsing, InLoad
<1>3. \A s, t : <<s, t>> \in Emptied <=> s = run.number /\ t \in Mapped
  BY <1>2 DEF Emptied
<1>4. \A x \in ClonedKeys : x.column.table \in Mapped
  BY <1>1, ClonedKeyTypes
<1>5. ASSUME NEW s \in Number, NEW x \in keys[s], <<s, x.column.to>> \in Emptied
      PROVE  <<s, x.column.table>> \in Emptied
  <2>1. s = run.number
    BY <1>3, <1>5
  <2>2. x.column.table \in Mapped
    BY <1>1, <1>4, <2>1
  <2> QED BY <1>3, <2>1, <2>2
<1> QED BY <1>5 DEF TruncateRefused

(* In the target only a key from a table that is not mapped refuses it.    *)
LEMMA TargetTruncates ==
  ASSUME ForetellInvariant, run.number = 0, pc = "truncate", TruncateRefused
  PROVE  Crosses
<1>1. \A s, t : <<s, t>> \in Emptied <=> s = 0 /\ t \in Mapped
  BY DEF Emptied, Home
<1> QED BY <1>1 DEF TruncateRefused, Crosses

(* What the rehearsal says when the loader is left, a replay bears out.    *)
LEMMA LeavingForetells ==
  ASSUME ForetellInvariant, LoadRefused \/ EndLoad \/ LoadBreaks
  PROVE  ForetellInvariant'
<1>1. Disposable' /\ Untouched /\ run \in Command /\ Disposable /\ Given
  BY LoaderPreserves DEF ForetellInvariant, Disposable
<1>2. /\ UNCHANGED <<given, tables, keys, ids, run>> /\ pc \in Rehearsing
      /\ pc' = IF run.number = 0 THEN "idle" ELSE "drop"
  BY DEF LoadRefused, EndLoad, LoadBreaks, LeaveLoad, Loading, Rehearsing, InLoad
<1>3. Known' = Known /\ Known \in Ids
  BY <1>1, <1>2, KnownType DEF Known
<1>4. Given'
  BY <1>1, <1>2, GivenStays DEF Given
<1>5. RehearsalInv' /\ RealInv'
  BY <1>2 DEF ForetellInvariant, RehearsalInv, RealInv, Rehearsing, InLoad
<1>6. CASE run.number # 0
  <2>1. outcome' = outcome /\ run.ns \in Namespace
    BY <1>1, <1>6 DEF LoadRefused, EndLoad, LoadBreaks, LeaveLoad, Command
  <2>2. ASSUME LoadBreaks PROVE ForecastInv'
    <3>1. forecast' = Foretold("none")
      BY <1>6, <2>2 DEF LoadBreaks, LeaveLoad
    <3> QED BY <1>3, <1>6, <1>2, <2>1, <3>1 DEF ForecastInv, Foretells, Foretold
  <2>3. ASSUME pc = "batch"
        PROVE  \E m \in Ids, ns \in Namespace, k \in Nat : AtBatch(m, ns, k) /\ m = Known
    BY <1>6, <2>3, ReplayAt
  <2>4. ASSUME EndLoad PROVE ForecastInv'
    <3>1. forecast' = Foretold("clean") /\ pc = "batch" /\ run.next > Len(Order)
      BY <1>6, <2>4 DEF EndLoad, LeaveLoad
    <3>2. PICK m \in Ids, ns \in Namespace, k \in Nat : AtBatch(m, ns, k) /\ m = Known
      BY <2>3, <3>1
    <3>3. k >= Len(Order) /\ Len(Order) \in Nat
      BY <1>1, <3>1, <3>2, DryRunAssumption DEF DryRunAssumption, AtBatch, Command
    <3>4. Passes(m, ns)
      BY <3>2, <3>3 DEF Passes, AtBatch, Replays
    <3>5. Passes(m, ns)' /\ ns = run.ns
      BY <1>2, <3>2, <3>4, PassesKept DEF AtBatch
    <3> QED BY <1>2, <1>3, <1>6, <2>1, <3>1, <3>2, <3>5 DEF ForecastInv, Foretells, Foretold
  <2>5. ASSUME LoadRefused PROVE ForecastInv'
    <3>1. forecast' = Foretold("error") /\ pc = "batch" /\ run.next <= Len(Order)
          /\ BatchRefused(Order[run.next])
      BY <1>6, <2>5, CloneTruncates DEF LoadRefused, LeaveLoad, Loading
    <3>2. PICK m \in Ids, ns \in Namespace, k \in Nat : AtBatch(m, ns, k) /\ m = Known
      BY <2>3, <3>1
    <3>3. run.next = k + 1 /\ k + 1 <= Len(Order) /\ Len(Order) \in Nat
      BY <1>1, <3>1, <3>2, DryRunAssumption DEF DryRunAssumption, AtBatch, Command
    <3>4. keys[run.number] = ClonedKeys
      BY <1>6, <3>1 DEF ForetellInvariant, RehearsalInv, Rehearsing, InLoad
    <3>5. Refuses(m, ns, k)
      BY <1>1, <3>1, <3>2, <3>3, <3>4, RefusedInClone
    <3>6. ~Passes(m, ns)
      BY <3>3, <3>5 DEF Passes
    <3>7. ~Passes(m, ns)' /\ ns = run.ns
      BY <1>2, <3>2, <3>6, PassesKept DEF AtBatch
    <3> QED BY <1>2, <1>3, <1>6, <2>1, <3>1, <3>2, <3>7 DEF ForecastInv, Foretells, Foretold
  <2>6. ForecastInv'
    BY <2>2, <2>4, <2>5
  <2>7. PassedIsLoadable' /\ NoFalseAlarm'
    BY <1>2, <2>1, VerdictsKept DEF ForetellInvariant
  <2> QED BY <1>1, <1>4, <1>5, <2>6, <2>7 DEF ForetellInvariant
<1>7. CASE run.number = 0
  <2>1. forecast' = forecast /\ run.ns = namespace /\ pc \in InLoad
    BY <1>1, <1>2, <1>7 DEF LoadRefused, EndLoad, LoadBreaks, LeaveLoad, ForetellInvariant, RealInv,
                            Disposable, Rehearsing, InLoad
  <2>2. ForecastInv'
    BY <1>2, <1>3, <2>1, ForecastKept DEF ForetellInvariant, ForecastInv
  <2>3. (Crosses' <=> Crosses) /\ (ChecksEarly' <=> ChecksEarly) /\ namespace' = namespace
    BY <1>2 DEF Crosses, ChecksEarly, given
  <2>4. CASE LoadBreaks
    <3>1. outcome' = "broken"
      BY <1>7, <2>4 DEF LoadBreaks, LeaveLoad
    <3> QED BY <1>1, <1>2, <1>4, <1>5, <2>2, <3>1, VerdictsKept DEF ForetellInvariant
  <2>5. ASSUME pc = "batch"
        PROVE  \E m \in Ids, ns \in Namespace, k \in Nat :
                 /\ AtBatch(m, ns, k) /\ k = run.next - 1 /\ ns = run.ns
                 /\ run.foretold.ns = namespace /\ run.foretold.verdict = "clean" => Passes(m, ns)
                 /\ run.foretold.ns = namespace /\ run.foretold.verdict = "error" => ~Passes(m, ns)
    <3>1. PICK m \in Ids, ns \in Namespace, k \in Nat : AtBatch(m, ns, k) /\ Foretells(run.foretold, m)
      BY <1>7, <2>5, ReplayAt
    <3>2. ns = run.ns /\ k = run.next - 1
      BY <3>1 DEF AtBatch
    <3>3. /\ run.foretold.ns = ns /\ run.foretold.verdict = "clean" => Passes(m, ns)
          /\ run.foretold.ns = ns /\ run.foretold.verdict = "error" => ~Passes(m, ns)
      BY <3>1 DEF Foretells
    <3> QED BY <2>1, <3>1, <3>2, <3>3
  <2>6. CASE EndLoad
    <3>1. outcome' = "loaded" /\ pc = "batch" /\ run.next > Len(Order)
      BY <1>7, <2>6 DEF EndLoad, LeaveLoad
    <3>2. PICK m \in Ids, ns \in Namespace, k \in Nat :
            /\ AtBatch(m, ns, k) /\ k = run.next - 1 /\ ns = run.ns
            /\ run.foretold.ns = namespace /\ run.foretold.verdict = "error" => ~Passes(m, ns)
      BY <2>5, <3>1
    <3>3. k >= Len(Order) /\ Len(Order) \in Nat
      BY <1>1, <3>1, <3>2, DryRunAssumption DEF DryRunAssumption, Command
    <3>4. Passes(m, ns)
      BY <3>2, <3>3 DEF Passes, AtBatch, Replays
    <3>5. PassedIsLoadable' /\ NoFalseAlarm'
      BY <1>2, <2>3, <3>1, <3>2, <3>4 DEF PassedIsLoadable, NoFalseAlarm
    <3> QED BY <1>1, <1>4, <1>5, <2>2, <3>5 DEF ForetellInvariant
  <2>7. CASE LoadRefused
    <3>1. outcome' = "failed"
      BY <1>7, <2>7 DEF LoadRefused, LeaveLoad
    <3>2. NoFalseAlarm'
      BY <3>1 DEF NoFalseAlarm
    <3>3. CASE pc = "truncate" /\ TruncateRefused
      <4>1. Crosses
        BY <1>7, <3>3, TargetTruncates
      <4> QED BY <1>1, <1>4, <1>5, <2>2, <2>3, <3>2, <4>1 DEF PassedIsLoadable, ForetellInvariant
    <3>4. CASE Loading /\ BatchRefused(Order[run.next])
      <4>1. PICK m \in Ids, ns \in Namespace, k \in Nat :
              /\ AtBatch(m, ns, k) /\ k = run.next - 1 /\ ns = run.ns
              /\ run.foretold.ns = namespace /\ run.foretold.verdict = "clean" => Passes(m, ns)
        BY <2>5, <3>4 DEF Loading
      <4>2. run.next = k + 1 /\ k + 1 <= Len(Order) /\ Len(Order) \in Nat
        BY <1>1, <3>4, <4>1, DryRunAssumption DEF DryRunAssumption, Loading, Command
      <4>3. ~Crosses /\ ~ChecksEarly => Refuses(m, ns, k)
        BY <1>1, <1>7, <3>4, <4>1, <4>2, RefusedInTarget
      <4>4. ~Crosses /\ ~ChecksEarly => ~Passes(m, ns)
        BY <4>2, <4>3 DEF Passes
      <4>5. PassedIsLoadable'
        BY <1>2, <2>3, <4>1, <4>4 DEF PassedIsLoadable
      <4> QED BY <1>1, <1>4, <1>5, <2>2, <3>2, <4>5 DEF ForetellInvariant
    <3> QED BY <2>7, <3>3, <3>4 DEF LoadRefused
  <2> QED BY <2>4, <2>6, <2>7
<1> QED BY <1>6, <1>7

-----------------------------------------------------------------------------
(* Around the loader nothing is decided.                                   *)
LEMMA CloningForetells ==
  ASSUME ForetellInvariant,
         CreateSchema \/ CloneTable \/ AddForeignKeys \/ CloneFails \/ EnsureIds \/ SeedIds
  PROVE  ForetellInvariant'
<1>1. Disposable' /\ Untouched /\ run \in Command /\ Disposable /\ Given
  BY CloningPreserves DEF ForetellInvariant, Disposable
<1>2. /\ UNCHANGED <<given, run, forecast>> /\ pc \in {"create", "clone", "ids", "seed"}
      /\ run.number # 0 /\ run.number \in Number
  BY <1>1 DEF CreateSchema, CloneTable, AddForeignKeys, CloneFails, EnsureIds, SeedIds, Disposable,
              InLoad, Command
<1>3. keys'[0] = keys[0] /\ ids'[0] = ids[0] /\ Known' = Known
  BY <1>1, <1>2 DEF Untouched, Real, Known
<1>4. \A s \in Number : ids'[s] \in Ids \cup {Absent}
  <2>1. Seeded = ids[0] /\ ids[0] \in Ids \cup {Absent} /\ ids = [s \in Number |-> ids[s]]
    BY <1>1, KnownType DEF Seeded, Disposable
  <2> QED BY <1>1, <1>2, <2>1, NoIdsType
          DEF Given, CreateSchema, CloneTable, AddForeignKeys, CloneFails, EnsureIds, SeedIds
<1>5. \A s \in DOMAIN tables' : tables'[s] = [t \in DOMAIN tables'[s] |-> tables'[s][t]]
  <2>1. CASE CreateSchema
    BY <1>1, <2>1 DEF CreateSchema, Given
  <2>2. CASE CloneTable
    <3>1. PICK t \in Cloned :
            tables' = [tables EXCEPT ![run.number] = [x \in DOMAIN tables[run.number] \cup {t} |-> {}]]
      BY <2>2 DEF CloneTable
    <3>2. \A s \in DOMAIN tables : tables'[s] =
            IF s = run.number THEN [x \in DOMAIN tables[run.number] \cup {t} |-> {}] ELSE tables[s]
      BY <3>1
    <3> QED BY <1>1, <3>1, <3>2 DEF Given
  <2>3. CASE UNCHANGED tables
    BY <1>1, <2>3 DEF Given
  <2> QED BY <2>1, <2>2, <2>3 DEF AddForeignKeys, CloneFails, EnsureIds, SeedIds
<1>6. Given'
  BY <1>1, <1>2, <1>3, <1>4, <1>5, GivenStays
<1>7. RealInv'
  BY <1>2 DEF RealInv
<1>8. ForecastInv'
  BY <1>2, <1>3, ForecastKept DEF ForetellInvariant, ForecastInv
<1>9. PassedIsLoadable' /\ NoFalseAlarm'
  <2>1. outcome' = outcome \/ outcome' \notin {"failed", "loaded"}
    BY DEF CreateSchema, CloneTable, AddForeignKeys, CloneFails, EnsureIds, SeedIds
  <2> QED BY <1>2, <1>3, <2>1, VerdictsKept DEF ForetellInvariant
<1>10. RehearsalInv'
  <2>1. /\ run.foretold.verdict = "none" /\ run.next = 1 /\ ClonedKeys' = ClonedKeys
    BY <1>2, GivenKept DEF ForetellInvariant, RehearsalInv, Rehearsing
  <2>2. CASE CreateSchema
    <3>1. pc' = "clone" /\ tables'[run.number] = [t \in {} |-> {}]
      BY <2>2 DEF CreateSchema
    <3> QED BY <1>2, <2>1, <3>1 DEF RehearsalInv, Rehearsing, InLoad
  <2>3. CASE CloneTable
    <3>1. PICK t \in Cloned :
            tables' = [tables EXCEPT ![run.number] = [x \in DOMAIN tables[run.number] \cup {t} |-> {}]]
      BY <2>3 DEF CloneTable
    <3>2. pc = "clone" /\ pc' = "clone" /\ run.number \in DOMAIN tables
      BY <1>1, <2>3 DEF CloneTable, Disposable
    <3>3. tables'[run.number] = [x \in DOMAIN tables[run.number] \cup {t} |-> {}]
      BY <3>1, <3>2
    <3>4. DOMAIN tables[run.number] \subseteq Mapped
      BY <1>2, <3>2 DEF ForetellInvariant, RehearsalInv
    <3> QED BY <1>2, <2>1, <3>1, <3>2, <3>3, <3>4 DEF RehearsalInv, Rehearsing, InLoad, Cloned
  <2>4. CASE AddForeignKeys
    <3>1. /\ pc = "clone" /\ pc' = "ids" /\ UNCHANGED tables /\ Mapped \subseteq DOMAIN tables[run.number]
          /\ keys'[run.number] = ClonedKeys
      BY <1>1, <1>2, <2>4 DEF AddForeignKeys, Cloned, Disposable
    <3>2. DOMAIN tables[run.number] = Mapped /\ \A t \in Mapped : tables[run.number][t] = {}
      BY <1>2, <3>1 DEF ForetellInvariant, RehearsalInv
    <3> QED BY <1>2, <2>1, <3>1, <3>2 DEF RehearsalInv, Rehearsing, InLoad
  <2>5. CASE CloneFails
    BY <1>2, <2>1, <2>5 DEF CloneFails, RehearsalInv, Rehearsing, InLoad
  <2>6. CASE EnsureIds \/ SeedIds
    <3>1. /\ UNCHANGED <<tables, keys>> /\ pc \in {"ids", "seed"} /\ pc' \in {"seed", "open"}
          /\ ids = [s \in Number |-> ids[s]]
      BY <1>1, <2>6 DEF EnsureIds, SeedIds, Disposable
    <3>2. /\ DOMAIN tables[run.number] = Mapped /\ keys[run.number] = ClonedKeys
          /\ \A t \in Mapped : tables[run.number][t] = {}
      BY <1>2, <3>1 DEF ForetellInvariant, RehearsalInv, Rehearsing
    <3>3. pc' = "seed" => ids'[run.number] = NoIds
      BY <1>2, <2>6, <3>1 DEF EnsureIds, SeedIds
    <3>4. pc' = "open" => ids'[run.number] = Known
      BY <1>2, <2>6, <3>1 DEF EnsureIds, SeedIds, Known, Seeded, ForetellInvariant, RehearsalInv
    <3> QED BY <1>2, <1>3, <2>1, <3>1, <3>2, <3>3, <3>4 DEF RehearsalInv, Rehearsing, InLoad
  <2> QED BY <2>2, <2>3, <2>4, <2>5, <2>6
<1> QED BY <1>1, <1>6, <1>7, <1>8, <1>9, <1>10 DEF ForetellInvariant

LEMMA DroppingForetells ==
  ASSUME ForetellInvariant, DropClone \/ DropIds \/ DropFails \/ Kill
  PROVE  ForetellInvariant'
<1>1. Disposable' /\ Untouched /\ run \in Command /\ Disposable /\ Given
  BY DroppingPreserves DEF ForetellInvariant, Disposable
<1>2. UNCHANGED <<given, run>> /\ run.number \in Number /\ pc' \in {"drop_ids", "idle"}
  BY <1>1 DEF DropClone, DropIds, DropFails, Kill, Command
<1>3. keys'[0] = keys[0] /\ ids'[0] = ids[0]
  <2>1. CASE Kill
    BY <2>1 DEF Kill
  <2>2. CASE DropClone \/ DropIds \/ DropFails
    <3>1. run.number # 0 /\ pc # "idle"
      BY <1>1, <2>2 DEF DropClone, DropIds, DropFails, Disposable, InLoad
    <3> QED BY <1>1, <3>1 DEF Untouched, Real
  <2> QED BY <2>1, <2>2
<1>4. Known' = Known /\ Known \in Ids
  BY <1>1, <1>3, KnownType DEF Known
<1>5. \A s \in Number : ids'[s] \in Ids \cup {Absent}
  BY <1>1, <1>2 DEF Given, Disposable, DropClone, DropIds, DropFails, Kill
<1>6. \A s \in DOMAIN tables' : tables'[s] = [t \in DOMAIN tables'[s] |-> tables'[s][t]]
  BY <1>1 DEF Given, DropClone, DropIds, DropFails, Kill
<1>7. Given'
  BY <1>1, <1>2, <1>3, <1>5, <1>6, GivenStays
<1>8. RehearsalInv' /\ RealInv'
  <2>1. RehearsalInv'
    BY <1>2 DEF ForetellInvariant, RehearsalInv, Rehearsing, InLoad
  <2>2. run.number = 0 => pc' = "idle"
    BY <1>1 DEF DropClone, DropIds, DropFails, Kill, Disposable, InLoad
  <2> QED BY <1>2, <2>1, <2>2 DEF RealInv
<1>9. ForecastInv'
  <2>1. CASE UNCHANGED forecast
    BY <1>2, <1>4, <2>1, ForecastKept DEF ForetellInvariant, ForecastInv
  <2>2. CASE forecast' = Unknown
    BY <1>2, <1>4, <2>2, DryRunAssumption DEF DryRunAssumption, ForecastInv, Foretells, Unknown
  <2> QED BY <2>1, <2>2 DEF DropClone, DropIds, DropFails, Kill
<1>10. PassedIsLoadable' /\ NoFalseAlarm'
  <2>1. outcome' = outcome \/ outcome' \notin {"failed", "loaded"}
    BY DEF DropClone, DropIds, DropFails, Kill
  <2> QED BY <1>2, <1>3, <2>1, VerdictsKept DEF ForetellInvariant
<1> QED BY <1>1, <1>7, <1>8, <1>9, <1>10 DEF ForetellInvariant

LEMMA StartForetells ==
  ASSUME ForetellInvariant, StartMigrate \/ \E realistic \in BOOLEAN : StartDryRun(realistic)
  PROVE  ForetellInvariant'
<1>1. Disposable' /\ run \in Command /\ Disposable /\ Given
  BY StartPreserves DEF ForetellInvariant, Disposable
<1>2. UNCHANGED <<given, tables, keys, ids>> /\ forecast' = Unknown /\ outcome' = "none"
  BY DEF StartMigrate, StartDryRun
<1>3. Known' = Known /\ Known \in Ids
  BY <1>1, <1>2, KnownType DEF Known
<1>4. Given'
  BY <1>1, <1>2, GivenStays DEF Given
<1>5. ForecastInv'
  BY <1>2, <1>3, DryRunAssumption DEF DryRunAssumption, ForecastInv, Foretells, Unknown
<1>6. PassedIsLoadable' /\ NoFalseAlarm'
  BY <1>2, VerdictsKept DEF ForetellInvariant
<1>7. CASE StartMigrate
  <2>1. /\ run' = [run EXCEPT !.number = 0, !.next = 1, !.ns = namespace, !.foretold = forecast]
        /\ pc' = "open"
    BY <1>7 DEF StartMigrate
  <2>2. run'.number = 0 /\ run'.next = 1 /\ run'.ns = namespace /\ run'.foretold = forecast
    BY <1>1, <2>1 DEF Command
  <2>3. Foretells(run.foretold, Known)'
    BY <1>2, <1>3, <2>2, PassesKept DEF ForetellInvariant, ForecastInv, Foretells
  <2>4. RehearsalInv' /\ RealInv'
    BY <1>2, <2>1, <2>2, <2>3 DEF RehearsalInv, RealInv, given
  <2> QED BY <1>1, <1>4, <1>5, <1>6, <2>4 DEF ForetellInvariant
<1>8. ASSUME NEW realistic \in BOOLEAN, StartDryRun(realistic)
      PROVE  ForetellInvariant'
  <2>1. pc' = "create" /\ run'.next = 1 /\ run'.foretold = Unknown /\ run'.number # 0
    BY <1>1, <1>8 DEF StartDryRun, Command, Number
  <2>2. RehearsalInv' /\ RealInv'
    BY <2>1 DEF RehearsalInv, RealInv, Rehearsing, InLoad, Unknown
  <2> QED BY <1>1, <1>4, <1>5, <1>6, <2>2 DEF ForetellInvariant
<1> QED BY <1>7, <1>8

LEMMA StepForetells ==
  ASSUME ForetellInvariant, [Next]_dvars
  PROVE  ForetellInvariant'
<1>1. CASE UNCHANGED dvars
  <2>1. UNCHANGED <<given, tables, keys, ids, run, pc, forecast, outcome, lost>>
    BY <1>1 DEF dvars
  <2>2. Disposable' /\ Given /\ Known' = Known
    BY <1>1, StepPreserves DEF ForetellInvariant, dvars, Known
  <2>3. Given'
    BY <2>1, <2>2, GivenStays DEF Given
  <2>4. /\ ClonedKeys' = ClonedKeys
        /\ \A m, ns : Passes(m, ns)' <=> Passes(m, ns)
        /\ \A m, ns, k : /\ (Refuses(m, ns, k)' <=> Refuses(m, ns, k))
                         /\ Made(m, ns, k)' = Made(m, ns, k)
                         /\ \A t : Stored(m, ns, k, 0, t)' = Stored(m, ns, k, 0, t)
    BY <2>1, GivenKept
  <2>5. \A m, ns, k : Replays(m, ns, k)' <=> Replays(m, ns, k)
    BY <2>1, <2>4 DEF Replays
  <2>6. RehearsalInv'
    BY <2>1, <2>2, <2>4, <2>5 DEF ForetellInvariant, RehearsalInv
  <2>7. RealInv'
    BY <2>1, <2>2, <2>4, <2>5 DEF ForetellInvariant, RealInv, Foretells, given
  <2>8. ForecastInv'
    BY <2>1, <2>2, ForecastKept DEF ForetellInvariant, ForecastInv
  <2>9. PassedIsLoadable' /\ NoFalseAlarm'
    BY <2>1, VerdictsKept DEF ForetellInvariant
  <2> QED BY <2>2, <2>3, <2>6, <2>7, <2>8, <2>9 DEF ForetellInvariant
<1>2. CASE Next
  BY <1>2, OpenForetells, TruncateForetells, LoadForetells, LeavingForetells, CloningForetells,
     DroppingForetells, StartForetells DEF Next
<1> QED BY <1>1, <1>2

LEMMA ForetellInit == Init => ForetellInvariant
<1> SUFFICES ASSUME Init PROVE ForetellInvariant
  OBVIOUS
<1>1. Disposable
  BY DisposableInit
<1>2. Given
  <2>1. PICK x \in Sources : source = x[1] /\ refers = x[2]
    BY DEF Init
  <2>2. <<source, refers>> \in Sources
    <3>1. x \in [Entity -> SUBSET Doc] \X [Doc -> Doc \cup {None}]
      BY DryRunAssumption DEF DryRunAssumption
    <3>2. x = <<x[1], x[2]>>
      BY <3>1
    <3> QED BY <2>1, <3>2
  <2>3. \A s \in Number : ids[s] \in Ids \cup {Absent}
    BY DryRunAssumption DEF DryRunAssumption, Init
  <2>4. keys[0] = RealKeys
    BY ZeroIsNumber DEF Init, RealKeys
  <2> QED BY <2>2, <2>3, <2>4 DEF Init, Given
<1>3. RehearsalInv /\ RealInv /\ PassedIsLoadable /\ NoFalseAlarm
  BY DEF Init, RehearsalInv, RealInv, PassedIsLoadable, NoFalseAlarm
<1>4. ForecastInv
  BY <1>2, KnownType, DryRunAssumption DEF DryRunAssumption, Init, ForecastInv, Foretells, Unknown
<1> QED BY <1>1, <1>2, <1>3, <1>4 DEF ForetellInvariant

LEMMA ForetellHolds == Spec => []ForetellInvariant
BY ForetellInit, StepForetells, PTL DEF Spec

(* What a rehearsal passes, the migrate that follows can load: but for     *)
(* keys into or out of the mapped tables, keys that the clone checks       *)
(* later, and another uuid namespace, it is refused nothing.               *)
THEOREM RehearsalIsSufficient == Spec => []PassedIsLoadable
<1>1. ForetellInvariant => PassedIsLoadable
  BY DEF ForetellInvariant
<1> QED BY <1>1, ForetellHolds, PTL

(* What a rehearsal refuses, the migrate that follows cannot load.         *)
THEOREM RehearsalIsNecessary == Spec => []NoFalseAlarm
<1>1. ForetellInvariant => NoFalseAlarm
  BY DEF ForetellInvariant
<1> QED BY <1>1, ForetellHolds, PTL

-----------------------------------------------------------------------------
(* Whichever row a reference has, it keeps or loses with its own row.      *)

OwnRow(row) ==
  \A c \in DOMAIN row.refs :
    (c.value = "lookup" /\ row.refs[c] # None /\ \E e \in Entity : refers[row.doc] \in source[e])
      => row.refs[c] = <<refers[row.doc], row.key[2]>>

LEMMA OwnRowKept ==
  ASSUME UNCHANGED given, NEW row, OwnRow(row)
  PROVE  OwnRow(row)'
<1>1. UNCHANGED <<source, refers>>
  BY DEF given
<1> QED BY <1>1 DEF OwnRow

(* A batch refers to rows of earlier batches by the keys that id_map got   *)
(* in their commits.                                                       *)
LEMMA BatchRefersToOwn ==
  ASSUME ForetellInvariant, LoadEntity, NEW t \in TablesOf(Order[run.next]),
         NEW row \in RowsOf(Order[run.next], t)
  PROVE  OwnRow(row)
<1> DEFINE i == run.next
           e == Order[i]
<1>1. /\ run \in Command /\ Given /\ pc = "batch" /\ i \in 1 .. Len(Order)
      /\ run.number = 0 => pc # "idle"
  BY DEF ForetellInvariant, Disposable, Command, LoadEntity, Loading
<1>2. e \in Entity /\ i \in DOMAIN Order
  BY <1>1, OrderType
<1>3. PICK d \in source[e] :
        row = [doc |-> d, key |-> <<d, run.ns>>, refs |-> [c \in ColumnsOf(t) |-> ValueOf(d, c)]]
  BY DEF RowsOf
<1>4. PICK m \in Ids : ids[run.number] = Made(m, run.ns, i - 1)
  BY <1>1 DEF ForetellInvariant, RehearsalInv, RealInv, Replays
<1>5. columns \in Targets /\ <<source, refers>> \in Sources
  BY <1>1 DEF Given
<1> SUFFICES ASSUME NEW c \in ColumnsOf(t), c.value = "lookup", ValueOf(d, c) # None,
                    NEW f \in Entity, refers[d] \in source[f]
             PROVE  ValueOf(d, c) = <<refers[d], run.ns>>
  BY <1>3 DEF OwnRow
<1>6. refers[d] # None /\ ValueOf(d, c) = ids[run.number][refers[d]]
  BY DEF ValueOf
<1>7. PICK j \in DOMAIN Order : Order[j] = f
  BY ParentsFirst DEF ParentsFirst
<1>8. j < i
  <2>1. c \in columns /\ c.table = t
    BY DEF ColumnsOf
  <2> QED BY <1>2, <1>5, <1>7, <2>1, ParentsFirst DEF ParentsFirst
<1>9. j \in 1 .. i - 1
  <2>1. DOMAIN Order = 1 .. Len(Order) /\ Len(Order) \in Nat
    BY DryRunAssumption DEF DryRunAssumption
  <2> QED BY <1>1, <1>7, <1>8, <2>1
<1>10. refers[d] \in Doc
  <2>1. source \in [Entity -> SUBSET Doc]
    BY <1>1, InputTypes
  <2> QED BY <2>1
<1>11. Made(m, run.ns, i - 1)[refers[d]] = <<refers[d], run.ns>>
  BY <1>7, <1>9, <1>10 DEF Made
<1> QED BY <1>4, <1>6, <1>11

LEMMA OwnRowsKept ==
  ASSUME ForetellInvariant, OwnRowsReferred, [Next]_dvars
  PROVE  OwnRowsReferred'
<1>1. Disposable /\ run \in Command
  BY DEF ForetellInvariant, Disposable
<1>2. UNCHANGED given
  BY DEF dvars, Next, OpenLoad, TruncateTables, LoadEntity, LoadRefused, EndLoad, LoadBreaks,
         CreateSchema, CloneTable, AddForeignKeys, CloneFails, EnsureIds, SeedIds, DropClone, DropIds,
         DropFails, StartDryRun, StartMigrate, Kill
<1>3. \A s \in DOMAIN tables : \A t \in DOMAIN tables[s] : \A row \in tables[s][t] : OwnRow(row)
  BY DEF OwnRowsReferred, OwnRow
<1> SUFFICES ASSUME NEW s \in DOMAIN tables', NEW t \in DOMAIN tables'[s], NEW row \in tables'[s][t]
             PROVE  OwnRow(row)'
  BY DEF OwnRowsReferred, OwnRow
<1>4. ASSUME s \in DOMAIN tables, t \in DOMAIN tables[s], row \in tables[s][t]
      PROVE  OwnRow(row)'
  BY <1>2, <1>3, <1>4, OwnRowKept
<1>5. CASE UNCHANGED tables
  BY <1>4, <1>5
<1>6. CASE TruncateTables
  <2>1. /\ s \in DOMAIN tables
        /\ tables'[s] = [x \in DOMAIN tables[s] |-> IF <<s, x>> \in Emptied THEN {} ELSE tables[s][x]]
    BY <1>6 DEF TruncateTables
  <2> QED BY <1>4, <2>1
<1>7. CASE LoadEntity
  <2> DEFINE e == Order[run.next]
  <2>1. /\ s \in DOMAIN tables
        /\ tables'[s] = [x \in DOMAIN tables[s] |->
             IF Home(x) = s /\ \E j \in 1 .. Len(Writes[e]) : Writes[e][j] = x
             THEN tables[s][x] \cup RowsOf(e, x) ELSE tables[s][x]]
    BY <1>7 DEF LoadEntity, After
  <2>2. e \in Entity
    BY <1>1, <1>7, OrderType DEF LoadEntity, Loading, Command
  <2>3. row \in tables[s][t] \/ (t \in TablesOf(e) /\ row \in RowsOf(e, t))
    BY <2>1, <2>2, WritesType
  <2> QED BY <1>2, <1>4, <1>7, <2>1, <2>3, BatchRefersToOwn, OwnRowKept
<1>8. CASE CreateSchema
  <2>1. tables'[s] = IF s = run.number THEN [x \in {} |-> {}] ELSE tables[s]
    BY <1>8 DEF CreateSchema
  <2>2. s \in DOMAIN tables \/ s = run.number
    BY <1>8 DEF CreateSchema
  <2> QED BY <1>4, <2>1, <2>2
<1>9. CASE CloneTable
  <2>1. PICK u \in Cloned \ DOMAIN tables[run.number] :
          tables' = [tables EXCEPT ![run.number] = [x \in DOMAIN tables[run.number] \cup {u} |-> {}]]
    BY <1>9 DEF CloneTable
  <2>2. s \in DOMAIN tables /\ (s # run.number => tables'[s] = tables[s])
    BY <2>1
  <2>3. s = run.number => tables'[s][t] = {}
    BY <2>1
  <2> QED BY <1>4, <2>2, <2>3
<1>10. CASE DropClone
  BY <1>4, <1>10 DEF DropClone
<1> QED BY <1>5, <1>6, <1>7, <1>8, <1>9, <1>10
        DEF dvars, Next, OpenLoad, LoadRefused, EndLoad, LoadBreaks, AddForeignKeys, CloneFails,
            EnsureIds, SeedIds, DropIds, DropFails, StartDryRun, StartMigrate, Kill

(* Whatever id_map was seeded with or had from before, a row that a load   *)
(* writes refers to the rows that the same load made.                      *)
THEOREM OwnRowsAreReferred == Spec => []OwnRowsReferred
<1>1. Init => OwnRowsReferred
  BY DEF Init, OwnRowsReferred
<1>2. ForetellInvariant /\ OwnRowsReferred /\ [Next]_dvars => OwnRowsReferred'
  BY OwnRowsKept
<1> QED BY <1>1, <1>2, ForetellHolds, PTL DEF Spec
=============================================================================
