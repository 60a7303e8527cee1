---------------------------- MODULE VerdictsProofs ----------------------------
(***************************************************************************)
(* For every mapping, collection and batch size: a dry run that finished   *)
(* has foreseen what `migrate' fails on and announced what it leaves out,  *)
(* and a sample diff without a mismatch saw only rows that are up to date. *)
(*                                                                         *)
(* The argument is one about a single row.  The loader takes its decision  *)
(* with id_map, the dry run with the source collection; unless a reference *)
(* dangles in the one and not in the other, whatever stops the loader at a *)
(* field is reported of that field.                                        *)
(*                                                                         *)
(* The count diff compares numbers.  Where its arithmetic is exact the     *)
(* places that it subtracts are, one for one, those that the loader drops, *)
(* so that equal numbers are numbers of the same rows.                     *)
(***************************************************************************)
EXTENDS Verdicts, SampleDiff, TLAPS, FiniteSetTheorems

Agreement ==
  /\ mapping \in Mappings /\ docs \in Datasets
  /\ examined \in 0 .. Len(docs) /\ taken \in 0 .. Len(docs)
  /\ \A d \in 1 .. examined : DocViolations(d) \subseteq violations
  /\ fast = "done" => examined = Len(docs)
  /\ load = "failed" => \E d \in NextBatch(taken) : DocFails(d)
  /\ \A d \in 1 .. taken : Written(d) \subseteq rows

-----------------------------------------------------------------------------
(* What the predictions are read off.                                      *)

LEMMA DocsAreSequence ==
  ASSUME docs \in Datasets
  PROVE  docs \in Seq(Document) /\ DOMAIN docs = 1 .. Len(docs) /\ Len(docs) \in Nat
<1>1. docs \in Seq(Document)
  BY DocumentsAssumption DEF DocumentsAssumption
<1> HIDE DEF Document
<1> QED BY <1>1

(* A batch is the interval of documents after those already processed.     *)
LEMMA BatchIsInterval ==
  ASSUME docs \in Datasets, NEW n \in 0 .. Len(docs)
  PROVE  LET m == n + Cardinality(NextBatch(n)) IN
         /\ m \in n .. Len(docs)
         /\ NextBatch(n) = (n + 1) .. m
         /\ n < Len(docs) => NextBatch(n) # {}
<1> DEFINE size == Len(docs)
           m == IF n + BatchSize <= size THEN n + BatchSize ELSE size
<1>1. size \in Nat /\ BatchSize \in Nat \ {0} /\ n \in 0 .. size
  BY DocsAreSequence, FastPassAssumption DEF FastPassAssumption
<1>2. NextBatch(n) = {d \in 1 .. size : n < d /\ d <= n + BatchSize}
  BY DocsAreSequence DEF NextBatch
<1> HIDE DEF size
<1>3. m \in n .. size /\ n + 1 \in Int
  BY <1>1
<1>4. NextBatch(n) = (n + 1) .. m
  BY <1>1, <1>2
<1>5. n < size => n + 1 \in NextBatch(n)
  BY <1>1, <1>2
<1> HIDE DEF m
<1>6. Cardinality((n + 1) .. m) = m - n
  <2>1. m \in Int /\ n \in Int
    BY <1>1, <1>3
  <2>2. Cardinality((n + 1) .. m) = IF n + 1 > m THEN 0 ELSE m - (n + 1) + 1
    BY FS_Interval, <1>3, <2>1
  <2> QED BY <1>1, <1>3, <2>1, <2>2
<1>7. n + Cardinality(NextBatch(n)) = m
  BY <1>1, <1>3, <1>4, <1>6
<1> QED BY <1>3, <1>4, <1>5, <1>7 DEF size

LEMMA OwnPlaces ==
  ASSUME NEW d, NEW p \in PlacesOf(d)
  PROVE  \/ p = <<"main", d, 0, 0>>
         \/ \E i \in DOMAIN docs[d].items.at :
              \/ p = <<"items", d, i, 0>>
              \/ \E j \in DOMAIN docs[d].items.at[i].parts.at : p = <<"parts", d, i, j>>
         \/ \E i \in DOMAIN docs[d].tags.at : p = <<"tags", d, i, 0>>
         \/ \E i \in DOMAIN docs[d].codes : p = <<"codes", d, i, 0>>
BY Zenon DEF PlacesOf

(* Every field of every row has one of the three policies.                 *)
LEMMA PolicyOfField ==
  ASSUME mapping \in Mappings, docs \in Datasets,
         NEW d \in DOMAIN docs, NEW p \in PlacesOf(d), NEW k \in DOMAIN Fields(p)
  PROVE  Fields(p)[k].onMissing \in Policies
<1>1. /\ mapping.main \in Seq(Field) /\ mapping.items \in Seq(Field)
      /\ mapping.parts \in Seq(Field) /\ mapping.codes \in Seq(Field)
      /\ mapping.tags \in Field
  BY DocumentsAssumption DEF DocumentsAssumption, Mapping
<1>2. Len(docs[d].codes) = Len(mapping.codes) /\ docs[d] \in Document
  BY DocumentsAssumption, DocsAreSequence DEF DocumentsAssumption
<1>3. docs[d].codes \in Seq(Value)
  BY <1>2 DEF Document
<1>4. DOMAIN docs[d].codes = DOMAIN mapping.codes
  BY <1>1, <1>2, <1>3
<1>5. CASE p[1] = "main" \/ p[1] = "items" \/ p[1] = "parts"
  <2>1. Fields(p) \in Seq(Field)
    BY <1>1, <1>5 DEF Fields
  <2>2. Fields(p)[k] \in Field
    BY <2>1
  <2> QED BY <2>2 DEF Field
<1>6. CASE p[1] = "tags"
  <2>1. Fields(p) = <<mapping.tags>>
    BY <1>6 DEF Fields
  <2>2. k = 1
    BY <2>1
  <2> QED BY <1>1, <2>1, <2>2 DEF Field
<1>7. CASE p[1] = "codes"
  <2>1. Fields(p) = <<mapping.codes[p[3]]>> /\ p[3] \in DOMAIN docs[d].codes
    BY <1>7, OwnPlaces DEF Fields
  <2>2. k = 1 /\ mapping.codes[p[3]] \in Field
    BY <1>1, <1>4, <2>1
  <2> QED BY <2>1, <2>2 DEF Field
<1>8. p[1] \in {"main", "items", "parts", "tags", "codes"}
  BY OwnPlaces
<1> QED BY <1>5, <1>6, <1>7, <1>8

(* What is reported of a field is reported of its document.                *)
LEMMA FieldReported ==
  ASSUME NEW d, NEW p \in PlacesOf(d), NEW k \in DOMAIN Fields(p),
         NEW v \in FieldViolations(p, k)
  PROVE  v \in DocViolations(d)
BY DEF DocViolations, Examined

LEMMA ErrorReported ==
  ASSUME NEW d, NEW p \in PlacesOf(d), NEW k \in DOMAIN Fields(p), Refused(p, k)
  PROVE  Report(p, k, "error") \in DocViolations(d)
<1>1. Report(p, k, "error") \in FieldViolations(p, k)
  BY DEF FieldViolations
<1> QED BY <1>1, FieldReported

-----------------------------------------------------------------------------
(* One row and one document.                                               *)

(* A field that stops the loader is one the dry run reports as an error.   *)
LEMMA FailingFieldReported ==
  ASSUME mapping \in Mappings, docs \in Datasets, known # {},
         NEW d \in DOMAIN docs, ~Unloaded(d),
         NEW p \in PlacesOf(d), NEW k \in DOMAIN Fields(p), FieldFails(p, k)
  PROVE  Refused(p, k)
<1>1. Dangles(p, k, known) => Dangles(p, k, Found)
  BY DEF Unloaded
<1>2. Fields(p)[k].onMissing \in {"error", "null", "skip_row"}
  BY PolicyOfField DEF Policies
<1>3. CASE Dangles(p, k, known) /\ Fields(p)[k].onMissing = "error"
  BY <1>1, <1>3 DEF Refused
<1>4. CASE Unconvertible(p, k)
  BY <1>4 DEF Refused
<1>5. CASE ~FieldSkips(p, k) /\ NullRefused(p, k, known)
  <2>1. CASE Values(p)[k] = None
    BY <1>5, <2>1 DEF Refused, NullRefused, Dangles
  <2>2. CASE Dangles(p, k, known)
    <3>1. Fields(p)[k].onMissing = "error" \/ Fields(p)[k].onMissing = "null"
      BY <1>2, <1>5, <2>2 DEF FieldSkips
    <3>2. NullRefused(p, k, Found) /\ Dangles(p, k, Found)
      BY <1>1, <1>5, <2>2 DEF NullRefused
    <3> QED BY <3>1, <3>2 DEF Refused
  <2> QED BY <1>5, <2>1, <2>2 DEF NullRefused
<1> QED BY <1>3, <1>4, <1>5 DEF FieldFails

(* A document that the loader fails on has an error in the report.         *)
LEMMA FailureReported ==
  ASSUME mapping \in Mappings, docs \in Datasets, known # {},
         NEW d \in DOMAIN docs, ~Unloaded(d), DocFails(d)
  PROVE  \E v \in DocViolations(d) : v.severity = "error"
<1>1. ASSUME NEW p, NEW k PROVE Report(p, k, "error").severity = "error"
  BY DEF Report
<1>2. CASE ~Identified(d)
  <2>1. Report(Main(d), 0, "error") \in DocViolations(d)
    BY <1>2 DEF DocViolations, IdViolations
  <2> QED BY <1>1, <2>1
<1>3. ASSUME NEW p \in Scalars(d)
      PROVE  \E v \in DocViolations(d) : v.severity = "error"
  <2>1. Report(p, 0, "error") \in DocViolations(d)
    BY DEF DocViolations
  <2> QED BY <1>1, <2>1
<1>4. ASSUME NEW p \in PlacesOf(d), Fails(p)
      PROVE  \E v \in DocViolations(d) : v.severity = "error"
  <2>1. PICK k \in DOMAIN Fields(p) : FieldFails(p, k)
    BY <1>4 DEF Fails
  <2>2. Report(p, k, "error") \in DocViolations(d)
    BY <2>1, FailingFieldReported, ErrorReported
  <2> QED BY <1>1, <2>2
<1> QED BY <1>2, <1>3, <1>4 DEF DocFails

(* A row that the loader drops is named in the report.                     *)
LEMMA SkipReported ==
  ASSUME NEW d, ~Unloaded(d), NEW p \in PlacesOf(d), Skips(p)
  PROVE  \E v \in DocViolations(d) : v.at = p
<1>1. PICK k \in DOMAIN Fields(p) : FieldSkips(p, k)
  BY DEF Skips
<1>2. Dangles(p, k, Found) /\ Fields(p)[k].onMissing = "skip_row"
  BY <1>1 DEF FieldSkips, Unloaded
<1>3. Report(p, k, "info") \in FieldViolations(p, k)
  BY <1>2 DEF FieldViolations, Announced
<1>4. Report(p, k, "info").at = p
  BY DEF Report
<1> QED BY <1>3, <1>4, FieldReported

(* So is each row that a document leaves unwritten, or what it hangs from. *)
LEMMA DropReported ==
  ASSUME NEW d, ~Unloaded(d), NEW p \in Dropped(d)
  PROVE  \E v \in DocViolations(d) :
           \/ v.at = p
           \/ v.at = Main(d)
           \/ p[1] = "parts" /\ v.at = <<"items", d, p[3], 0>>
<1>1. CASE DocSkips(d) /\ Identified(d)
  <2>1. Main(d) \in PlacesOf(d) /\ Skips(Main(d))
    BY <1>1 DEF DocSkips, PlacesOf, Main
  <2> QED BY <2>1, SkipReported
<1>2. CASE ~Identified(d)
  <2>1. Report(Main(d), 0, "error") \in DocViolations(d)
    BY <1>2 DEF DocViolations, IdViolations
  <2> QED BY <2>1 DEF Report
<1>3. CASE ~DocSkips(d) /\ Skips(p)
  <2>1. p \in PlacesOf(d)
    BY <1>3 DEF Dropped
  <2> QED BY <1>3, <2>1, SkipReported
<1>4. CASE ~DocSkips(d) /\ ~Reached(p)
  <2>1. p \in PlacesOf(d)
    BY <1>4 DEF Dropped
  <2>2. p[1] = "parts" /\ p[2] = d /\ Skips(<<"items", d, p[3], 0>>)
    BY <1>4, <2>1, OwnPlaces DEF Reached
  <2>3. p[3] \in DOMAIN docs[d].items.at
    BY <2>1, <2>2, OwnPlaces
  <2>4. <<"items", d, p[3], 0>> \in PlacesOf(d)
    BY <2>3 DEF PlacesOf
  <2> QED BY <2>2, <2>4, SkipReported
<1> QED BY <1>1, <1>2, <1>3, <1>4 DEF Dropped

(* The invariant says all that is needed of the state.                     *)
LEMMA AgreementForesees == Agreement => FailuresForeseen
<1> SUFFICES ASSUME Agreement, fast = "done", Clean, load = "failed"
             PROVE  \E d \in NextBatch(taken) : DocFails(d) /\ (Unloaded(d) \/ known = {})
  BY DEF FailuresForeseen
<1>1. PICK d \in NextBatch(taken) : DocFails(d)
  BY DEF Agreement
<1>2. d \in DOMAIN docs /\ d \in 1 .. examined
  BY <1>1, DocsAreSequence DEF Agreement, NextBatch
<1>3. DocViolations(d) \subseteq violations
  BY <1>2 DEF Agreement
<1>4. Unloaded(d) \/ known = {}
  BY <1>1, <1>2, <1>3, FailureReported DEF Agreement, Clean
<1> QED BY <1>1, <1>4

LEMMA AgreementAnnounces == Agreement => DropsAnnounced
<1> SUFFICES ASSUME Agreement, fast = "done", NEW d \in 1 .. taken, ~Unloaded(d),
                    NEW p \in PlacesOf(d) \ rows
             PROVE  \E v \in violations :
                      \/ v.at = p
                      \/ v.at = Main(d)
                      \/ p[1] = "parts" /\ v.at = <<"items", d, p[3], 0>>
  BY DEF DropsAnnounced
<1>1. p \in Dropped(d)
  BY DEF Agreement, Written
<1>2. d \in 1 .. examined
  BY DocsAreSequence DEF Agreement
<1>3. DocViolations(d) \subseteq violations
  BY <1>2 DEF Agreement
<1> QED BY <1>1, <1>3, DropReported

-----------------------------------------------------------------------------
(* The steps.  The data is fixed, and what is read off it with it.         *)

LEMMA DataFixed ==
  ASSUME UNCHANGED <<inputs, external>>
  PROVE  /\ \A d : DocViolations(d)' = DocViolations(d)
         /\ \A d : DocFails(d)' = DocFails(d)
         /\ \A d : Written(d)' = Written(d)
         /\ \A n : NextBatch(n)' = NextBatch(n)
<1>1. UNCHANGED <<mapping, docs, parents, known, external>>
  BY DEF inputs
<1>2. ASSUME NEW p, NEW k
      PROVE  /\ FieldSkips(p, k)' = FieldSkips(p, k)
             /\ FieldFails(p, k)' = FieldFails(p, k)
             /\ FieldViolations(p, k)' = FieldViolations(p, k)
             /\ Fields(p)' = Fields(p)
  BY <1>1 DEF FieldSkips, FieldFails, FieldViolations, Report, Announced, Refused, Found,
              Dangles, NullRefused, Unconvertible, Fields, Values
<1>3. ASSUME NEW d
      PROVE  /\ PlacesOf(d)' = PlacesOf(d)
             /\ Scalars(d)' = Scalars(d)
             /\ IdViolations(d)' = IdViolations(d)
             /\ Identified(d)' = Identified(d)
  BY <1>1 DEF PlacesOf, Scalars, IdViolations, Identified, Report, Main
<1>4. ASSUME NEW p
      PROVE  Skips(p)' = Skips(p) /\ Fails(p)' = Fails(p)
  BY <1>2 DEF Skips, Fails, First, Stops
<1>5. ASSUME NEW p
      PROVE  Reached(p)' = Reached(p)
  BY <1>4 DEF Reached
<1>6. ASSUME NEW d
      PROVE  DocSkips(d)' = DocSkips(d)
  BY <1>1, <1>3, <1>4 DEF DocSkips, Main
<1>7. \A d : DocViolations(d)' = DocViolations(d)
  BY <1>2, <1>3 DEF DocViolations, Examined
<1>8. ASSUME NEW d
      PROVE  DocFails(d)' = DocFails(d)
  BY <1>3, <1>4, <1>5, <1>6 DEF DocFails
<1>9. \A d : Written(d)' = Written(d)
  BY <1>3, <1>4, <1>5, <1>6 DEF Written, Dropped
<1>10. \A n : NextBatch(n)' = NextBatch(n)
  BY <1>1 DEF NextBatch
<1> QED BY <1>7, <1>8, <1>9, <1>10

LEMMA PositionsTyped ==
  ASSUME Agreement
  PROVE  /\ docs \in Datasets /\ Len(docs) \in Nat
         /\ examined \in 0 .. Len(docs) /\ taken \in 0 .. Len(docs)
BY DocsAreSequence DEF Agreement

LEMMA ExaminePreserves ==
  ASSUME Agreement, ExamineBatch, UNCHANGED <<cdvars, taken, load>>
  PROVE  Agreement'
<1>1. UNCHANGED <<inputs, external, fast, cdvars, taken, load>> /\ fast = "running"
  BY DEF ExamineBatch
<1>2. /\ examined' \in examined .. Len(docs)
      /\ \A d \in 1 .. examined' : d \in 1 .. examined \/ d \in NextBatch(examined)
  <2>1. examined' = examined + Cardinality(NextBatch(examined))
    BY DEF ExamineBatch
  <2>2. /\ examined' \in examined .. Len(docs)
        /\ NextBatch(examined) = (examined + 1) .. examined'
    BY <2>1, BatchIsInterval, PositionsTyped
  <2> QED BY <2>2, PositionsTyped
<1>3. violations' = violations \cup UNION {DocViolations(d) : d \in NextBatch(examined)}
  BY DEF ExamineBatch
<1>4. \A d \in 1 .. examined' : DocViolations(d) \subseteq violations'
  BY <1>2, <1>3 DEF Agreement
<1>5. examined' \in 0 .. Len(docs)
  BY <1>2, PositionsTyped
<1> QED BY <1>1, <1>4, <1>5, DataFixed DEF Agreement, inputs, cdvars

LEMMA EndFastPassPreserves ==
  ASSUME Agreement, EndFastPass, UNCHANGED <<cdvars, taken, load>>
  PROVE  Agreement'
<1>1. UNCHANGED <<inputs, external, examined, violations, cdvars, taken, load>>
  BY DEF EndFastPass
<1>2. fast' = "done" => examined = Len(docs)
  <2>1. fast' = "done" => NextBatch(examined) = {} \/ fast = "done"
    BY DEF EndFastPass
  <2>2. NextBatch(examined) = {} => ~(examined < Len(docs))
    BY BatchIsInterval, PositionsTyped
  <2> QED BY <2>1, <2>2, PositionsTyped DEF Agreement
<1> QED BY <1>1, <1>2, DataFixed DEF Agreement, inputs, cdvars

LEMMA LoadBatchPreserves ==
  ASSUME Agreement, LoadBatch
  PROVE  Agreement'
<1>1. UNCHANGED <<inputs, external, examined, violations, fast, load>> /\ load = "waiting"
  BY DEF LoadBatch, fpvars
<1>2. /\ taken' \in taken .. Len(docs)
      /\ \A d \in 1 .. taken' : d \in 1 .. taken \/ d \in NextBatch(taken)
  <2>1. taken' = taken + Cardinality(NextBatch(taken))
    BY DEF LoadBatch
  <2>2. /\ taken' \in taken .. Len(docs)
        /\ NextBatch(taken) = (taken + 1) .. taken'
    BY <2>1, BatchIsInterval, PositionsTyped
  <2> QED BY <2>2, PositionsTyped
<1>3. rows' = rows \cup UNION {Written(d) : d \in NextBatch(taken)}
  BY DEF LoadBatch
<1>4. \A d \in 1 .. taken' : Written(d) \subseteq rows'
  BY <1>2, <1>3 DEF Agreement
<1>5. taken' \in 0 .. Len(docs)
  BY <1>2, PositionsTyped
<1> QED BY <1>1, <1>4, <1>5, DataFixed DEF Agreement, inputs

LEMMA OthersPreserve ==
  ASSUME Agreement, BatchFails \/ EndLoad \/ Kill \/ Audit \/ UNCHANGED vvars
  PROVE  Agreement'
<1>1. UNCHANGED <<inputs, external, examined, violations, fast, rows, taken>>
  BY DEF BatchFails, EndLoad, Kill, Audit, Validate, vvars, fpvars, cdvars
<1>2. load' = "failed" => \E d \in NextBatch(taken) : DocFails(d)
  BY DEF BatchFails, EndLoad, Kill, Audit, vvars, Agreement
<1> QED BY <1>1, <1>2, DataFixed DEF Agreement, inputs

LEMMA AgreementHolds == Spec => []Agreement
<1>1. Init => Agreement
  BY DocsAreSequence DEF Init, FastPassInit, Agreement
<1>2. Agreement /\ [Next]_vvars => Agreement'
  BY ExaminePreserves, EndFastPassPreserves, LoadBatchPreserves, OthersPreserve
     DEF Next, FastPassNext
<1> QED BY <1>1, <1>2, PTL DEF Spec

(* `migrate' fails on no document of a clean dry run that finished, unless *)
(* what it refers to was found in the source but never loaded.             *)
THEOREM DryRunForeseesFailures == Spec => []FailuresForeseen
BY AgreementHolds, AgreementForesees, PTL

(* No row is left out of Postgres that a finished dry run did not name.    *)
THEOREM DryRunAnnouncesDrops == Spec => []DropsAnnounced
BY AgreementHolds, AgreementAnnounces, PTL

-----------------------------------------------------------------------------
(* The sample diff.  Rows are as the load, or an application, left them;   *)
(* a report says what the rows it was made of were like.                   *)
Columns == DOMAIN mapping.main

Audited ==
  /\ mapping \in Mappings
  /\ DOMAIN image \subseteq DOMAIN docs
  /\ \A d \in DOMAIN image :
       /\ DOMAIN image[d] = Columns
       /\ image[d] = [k \in Columns |-> image[d][k]]
       /\ \A k \in Columns : /\ image[d][k] = None => mapping.main[k].nullable
                             /\ ~Retyped(k, image[d][k])

Unchanged ==
  (drifts = 0 /\ report # "none") =>
    \A d \in DOMAIN image : image[d] = Row(d) /\ Stops(Main(d)) = {} /\ d \notin deleted \cup gone

SampleInvariant ==
  /\ drifts \in Nat
  /\ report = "none" => docs \in Datasets /\ deleted = {} /\ gone = {}
  /\ report \in {"none", "loaded"} => mismatches = {}
  /\ Audited /\ Unchanged
  /\ SampleClean /\ SampleFinds /\ NoSilentNull

(* A set of naturals has a least element: of the intervals that end in it, *)
(* one contains no other.                                                  *)
LEMMA Least ==
  ASSUME NEW S, S \subseteq Nat, S # {}
  PROVE  \E k \in S : \A j \in S : k <= j
<1> DEFINE T == {0 .. k : k \in S}
           R == StrictSubsetOrdering(Nat)
<1>1. IsWellFoundedOn(R, FiniteSubsetsOf(Nat))
  BY FS_StrictSubsetOrderingWellFounded
<1>2. T \subseteq FiniteSubsetsOf(Nat) /\ T # {}
  <2>1. ASSUME NEW k \in S PROVE 0 .. k \in FiniteSubsetsOf(Nat)
    <3>1. k \in Int /\ 0 \in Int
      OBVIOUS
    <3>2. IsFiniteSet(0 .. k)
      BY <3>1, FS_Interval
    <3>3. 0 .. k \in SUBSET Nat
      OBVIOUS
    <3> QED BY <3>2, <3>3 DEF FiniteSubsetsOf
  <2> QED BY <2>1
<1>3. PICK I \in T : \A J \in T : ~ (<<J, I>> \in R)
  <2> HIDE DEF R, T
  <2> QED BY <1>1, <1>2, WFMin
<1>4. PICK k \in S : I = 0 .. k
  OBVIOUS
<1>5. ASSUME NEW j \in S PROVE k <= j
  <2>1. ~ (<<0 .. j, I>> \in R)
    BY <1>3
  <2>2. 0 .. j \in SUBSET Nat /\ I \in SUBSET Nat /\ j \in Nat /\ k \in Nat
    BY <1>4
  <2>3. ~ (0 .. j \subseteq I /\ 0 .. j # I)
    BY <2>1, <2>2 DEF StrictSubsetOrdering
  <2>4. SUFFICES ASSUME j < k PROVE FALSE
    BY <2>2
  <2>5. 0 .. j \subseteq I /\ k \in I /\ k \notin 0 .. j
    BY <1>4, <2>2, <2>4
  <2> QED BY <2>3, <2>5
<1> QED BY <1>5

LEMMA FieldsOfMain ==
  ASSUME NEW d
  PROVE  /\ Fields(Main(d)) = mapping.main
         /\ Values(Main(d)) = docs[d].values
         /\ Main(d) \in PlacesOf(d) /\ Main(d)[1] = "main" /\ Main(d)[2] = d
BY DEF Fields, Values, Main, PlacesOf

(* The first field that stops a row decides what becomes of it.            *)
LEMMA WrittenWhole ==
  ASSUME mapping \in Mappings, NEW d, ~DocFails(d), ~DocSkips(d)
  PROVE  Stops(Main(d)) = {}
<1>1. Identified(d)
  BY DEF DocFails
<1>2. ~Fails(Main(d)) /\ ~Skips(Main(d))
  BY <1>1, FieldsOfMain DEF DocFails, DocSkips, Reached
<1>3. SUFFICES ASSUME Stops(Main(d)) # {} PROVE FALSE
  OBVIOUS
<1>4. mapping.main \in Seq(Field)
  BY DocumentsAssumption DEF DocumentsAssumption, Mapping
<1>5. Stops(Main(d)) \subseteq Columns /\ Columns \subseteq Nat
  BY <1>4, FieldsOfMain DEF Stops, Columns
<1>6. PICK k \in Stops(Main(d)) : \A j \in Stops(Main(d)) : k <= j
  BY <1>3, <1>5, Least
<1>7. k \in DOMAIN Fields(Main(d)) /\ First(Main(d), k)
  BY <1>6 DEF First, Stops
<1>8. FieldSkips(Main(d), k) \/ FieldFails(Main(d), k)
  BY <1>6 DEF Stops
<1> QED BY <1>2, <1>7, <1>8 DEF Fails, Skips

(* Rows are made from the mapping file, the collection and id_map.         *)
LEMMA RowFixed ==
  ASSUME UNCHANGED <<mapping, docs, known>>, NEW d
  PROVE  /\ Row(d)' = Row(d) /\ Stops(Main(d))' = Stops(Main(d))
         /\ \A k : /\ Resolved(Main(d), k)' = Resolved(Main(d), k)
                  /\ \A v : Retyped(k, v)' = Retyped(k, v)
<1>1. \A k : Resolved(Main(d), k)' = Resolved(Main(d), k)
  BY DEF Resolved, Values, Dangles, Fields, OrDefault, Main
<1>2. \A k : /\ FieldSkips(Main(d), k)' <=> FieldSkips(Main(d), k)
             /\ FieldFails(Main(d), k)' <=> FieldFails(Main(d), k)
  BY DEF FieldSkips, FieldFails, Unconvertible, NullRefused, Values, Dangles, Fields, Main
<1>3. Fields(Main(d))' = Fields(Main(d))
  BY DEF Fields, Main
<1>4. \A k, v : Retyped(k, v)' = Retyped(k, v)
  BY DEF Retyped
<1>5. \A k : Stored(k, Resolved(Main(d), k))' = Stored(k, Resolved(Main(d), k))
  BY <1>1, <1>4 DEF Stored, InColumn
<1> QED BY <1>1, <1>2, <1>3, <1>4, <1>5 DEF Row, Stops

(* What a column gave back once, it gives back again; and a null as null.  *)
LEMMA StoredOnce ==
  ASSUME NEW k, NEW v
  PROVE  ~Retyped(k, Stored(k, v)) /\ (Stored(k, v) = None => v = None)
<1>1. CASE ~Retyped(k, v)
  BY <1>1 DEF Stored
<1>2. CASE Retyped(k, v)
  <2>1. Stored(k, v) = InColumn(v) /\ v \in {Default, Raw}
    BY <1>2 DEF Stored, Retyped
  <2>2. InColumn(v) \notin Value \cup {Default}
    BY <2>1, SampleDiffAssumption DEF SampleDiffAssumption
  <2> QED BY <2>1, <2>2 DEF Retyped, Value
<1> QED BY <1>1, <1>2

(* An application writes references and null.                              *)
LEMMA WrittenIsKept ==
  ASSUME NEW k, NEW v \in Ref \cup {None}
  PROVE  ~Retyped(k, v)
BY DocumentsAssumption, SampleDiffAssumption
   DEF Retyped, DocumentsAssumption, SampleDiffAssumption, Value

LEMMA LoadAudited ==
  ASSUME SampleInvariant, NEW n \in 0 .. Len(docs), DOMAIN docs = 1 .. Len(docs), Len(docs) \in Nat,
         LoadUpTo(n)
  PROVE  Audited' /\ Unchanged'
<1>1. /\ mapping \in Mappings /\ report = "none"
      /\ UNCHANGED <<mapping, docs, parents, known, deleted, gone>>
      /\ image' = [d \in {x \in 1 .. n : ~DocSkips(x)} |-> Row(d)]
      /\ \A d \in 1 .. n : ~DocFails(d)
  BY DEF LoadUpTo, inputs, SampleInvariant, Audited
<1>2. ASSUME NEW d \in DOMAIN image'
      PROVE  image'[d] = Row(d) /\ Stops(Main(d)) = {} /\ d \in DOMAIN docs
  BY <1>1, <1>2, WrittenWhole
<1>3. ASSUME NEW d \in DOMAIN image', NEW k \in Columns, Row(d)[k] = None
      PROVE  mapping.main[k].nullable
  <2>1. ~NullRefused(Main(d), k, known)
    <3>1. k \notin Stops(Main(d)) /\ k \in DOMAIN Fields(Main(d))
      BY <1>2, FieldsOfMain DEF Columns
    <3> QED BY <3>1 DEF Stops, FieldFails
  <2>2. Resolved(Main(d), k) = None
    BY <1>3, StoredOnce DEF Row, Columns
  <2>3. Values(Main(d))[k] = None \/ Dangles(Main(d), k, known)
    BY <2>2 DEF Resolved
  <2>4. ~mapping.main[k].default
    BY <2>2, <2>3, FieldsOfMain, SampleDiffAssumption DEF Resolved, OrDefault, SampleDiffAssumption, Value
  <2> QED BY <2>1, <2>3, <2>4, FieldsOfMain DEF NullRefused
<1>4. /\ \A d : Row(d)' = Row(d) /\ Stops(Main(d))' = Stops(Main(d))
      /\ \A k, v : Retyped(k, v)' = Retyped(k, v)
  BY <1>1, RowFixed
<1>5. ASSUME NEW d \in DOMAIN image'
      PROVE  /\ DOMAIN image'[d] = Columns /\ image'[d] = [k \in Columns |-> image'[d][k]]
             /\ \A k \in Columns : ~Retyped(k, image'[d][k])
  <2>1. Row(d) = [k \in Columns |-> Stored(k, Resolved(Main(d), k))]
    BY DEF Row, Columns
  <2> QED BY <1>2, <2>1, StoredOnce
<1>6. Audited'
  BY <1>1, <1>2, <1>3, <1>4, <1>5 DEF Audited, Columns
<1>7. Unchanged'
  BY <1>1, <1>2, <1>4 DEF Unchanged, SampleInvariant
<1> QED BY <1>6, <1>7

(* The load is the only one to write rows while nothing changed.           *)
LEMMA LoadKeeps ==
  ASSUME SampleInvariant, NEW n \in 0 .. Len(docs), LoadUpTo(n)
  PROVE  SampleInvariant'
<1>1. report = "none" /\ report' = "loaded" /\ UNCHANGED <<drifts, sampled, mismatches, listed, numbers>>
  BY DEF LoadUpTo, audit
<1>2. DOMAIN docs = 1 .. Len(docs) /\ Len(docs) \in Nat
  BY <1>1, DocsAreSequence DEF SampleInvariant
<1>3. Audited' /\ Unchanged'
  BY <1>2, LoadAudited
<1> QED BY <1>1, <1>3 DEF SampleInvariant, SampleClean, SampleFinds, NoSilentNull

(* What changes later, changes before the report.                          *)
LEMMA DriftKeeps ==
  ASSUME SampleInvariant, Drift, UNCHANGED mapping,
         DOMAIN docs' = DOMAIN docs, DOMAIN image' = DOMAIN image,
         \A d \in DOMAIN image : \/ image'[d] = image[d]
                                 \/ \E k \in Columns, v \in Ref \cup {None} :
                                      /\ image'[d] = [image[d] EXCEPT ![k] = v]
                                      /\ v = None => mapping.main[k].nullable
  PROVE  SampleInvariant'
<1>1. /\ report = "loaded" /\ report' = "loaded" /\ drifts' = drifts + 1
      /\ UNCHANGED <<sampled, mismatches, listed, numbers>>
  BY DEF Drift, audit
<1>2. drifts' # 0 /\ drifts' \in Nat
  BY <1>1 DEF SampleInvariant
<1>3. Audited'
  <2>1. Columns' = Columns
    BY DEF Columns
  <2>2. ASSUME NEW d \in DOMAIN image'
        PROVE  /\ DOMAIN image'[d] = Columns
               /\ image'[d] = [k \in Columns |-> image'[d][k]]
               /\ \A k \in Columns : /\ image'[d][k] = None => mapping.main[k].nullable
                                     /\ ~Retyped(k, image'[d][k])
    <3>1. CASE image'[d] = image[d]
      BY <2>2, <3>1 DEF SampleInvariant, Audited
    <3>2. ASSUME NEW k \in Columns, NEW v \in Ref \cup {None},
                 image'[d] = [image[d] EXCEPT ![k] = v], v = None => mapping.main[k].nullable
          PROVE  /\ DOMAIN image'[d] = Columns
                 /\ image'[d] = [c \in Columns |-> image'[d][c]]
                 /\ \A c \in Columns : /\ image'[d][c] = None => mapping.main[c].nullable
                                       /\ ~Retyped(c, image'[d][c])
      <4>1. /\ DOMAIN image[d] = Columns
            /\ \A c \in Columns : /\ image[d][c] = None => mapping.main[c].nullable
                                  /\ ~Retyped(c, image[d][c])
        BY <2>2 DEF SampleInvariant, Audited
      <4>2. ~Retyped(k, v)
        BY WrittenIsKept
      <4>3. /\ DOMAIN image'[d] = Columns
            /\ image'[d] = [c \in Columns |-> image'[d][c]]
            /\ \A c \in Columns : image'[d][c] = IF c = k THEN v ELSE image[d][c]
        BY <3>2, <4>1
      <4> QED BY <3>2, <4>1, <4>2, <4>3
    <3> QED BY <3>1, <3>2
  <2>3. \A k, v : Retyped(k, v)' = Retyped(k, v)
    BY DEF Retyped
  <2> QED BY <2>1, <2>2, <2>3 DEF SampleInvariant, Audited
<1> QED BY <1>1, <1>2, <1>3 DEF SampleInvariant, Unchanged, SampleClean, SampleFinds, NoSilentNull

-----------------------------------------------------------------------------
(* A row in which nothing differs is the one migrate would write.          *)
LEMMA Alike ==
  ASSUME Audited, NEW d \in DOMAIN image, \A k \in Columns : ~Differs(d, k)
  PROVE  image[d] = Row(d)
<1>1. ASSUME NEW k \in Columns PROVE image[d][k] = Resolved(Main(d), k)
  BY <1>1, FieldsOfMain DEF Differs, LookupMissing, Recomputed, Resolved, Dangles, Columns
<1>2. \A k \in Columns : Stored(k, image[d][k]) = image[d][k]
  BY DEF Audited, Stored
<1> QED BY <1>1, <1>2 DEF Audited, Row, Columns

LEMMA AlikeIsWritten ==
  ASSUME Audited, known # {}, NEW d \in DOMAIN image, \A k \in Columns : ~Differs(d, k),
         \A k \in Columns : ~Unconvertible(Main(d), k)
  PROVE  Stops(Main(d)) = {}
<1> SUFFICES ASSUME NEW k \in Columns PROVE ~FieldSkips(Main(d), k) /\ ~FieldFails(Main(d), k)
  BY FieldsOfMain DEF Stops, Columns
<1>1. ~LookupMissing(d, k) /\ ~Unconvertible(Main(d), k)
  BY DEF Differs
<1>2. Dangles(Main(d), k, known) => mapping.main[k].onMissing = "null"
  BY <1>1 DEF LookupMissing
<1>3. ~NullRefused(Main(d), k, known)
  <2> SUFFICES ASSUME NullRefused(Main(d), k, known) PROVE FALSE
    OBVIOUS
  <2>1. Resolved(Main(d), k) = None
    BY DEF NullRefused, Resolved, OrDefault
  <2>2. image[d][k] = None
    <3>1. image[d][k] = Stored(k, None)
      BY <2>1, Alike DEF Row, Columns
    <3> QED BY <3>1, WrittenIsKept DEF Stored
  <2> QED BY <2>2, FieldsOfMain DEF NullRefused, Audited
<1> QED BY <1>1, <1>2, <1>3, FieldsOfMain DEF FieldSkips, FieldFails

LEMMA NoneDiffers ==
  ASSUME mapping \in Mappings, Unchanged, drifts = 0, report # "none",
         NEW d \in DOMAIN image, NEW k \in Columns
  PROVE  /\ ~Retyped(k, Resolved(Main(d), k)) => ~Differs(d, k)
         /\ ~Unconvertible(Main(d), k)
<1>1. image[d][k] = Stored(k, Resolved(Main(d), k)) /\ k \notin Stops(Main(d)) /\ k \in DOMAIN Fields(Main(d))
  BY FieldsOfMain DEF Unchanged, Row, Columns
<1>2. ~FieldSkips(Main(d), k) /\ ~FieldFails(Main(d), k)
  BY <1>1 DEF Stops
<1>3. mapping.main[k].onMissing \in Policies
  <2>1. mapping.main \in Seq(Field)
    BY DocumentsAssumption DEF DocumentsAssumption, Mapping
  <2>2. mapping.main[k] \in Field
    BY <2>1 DEF Columns
  <2> QED BY <2>2 DEF Field
<1>4. ~LookupMissing(d, k)
  BY <1>2, <1>3, FieldsOfMain DEF FieldSkips, FieldFails, LookupMissing, Policies
<1>5. ~Unconvertible(Main(d), k)
  BY <1>2 DEF FieldFails
<1>6. Recomputed(d, k) = Resolved(Main(d), k)
  BY FieldsOfMain DEF Recomputed, Resolved, Dangles
<1> QED BY <1>1, <1>4, <1>5, <1>6 DEF Differs, Stored

LEMMA SampleKeeps ==
  ASSUME SampleInvariant, NEW S \in SUBSET DOMAIN image, Sample(S)
  PROVE  SampleInvariant'
<1> DEFINE Breaks == \E d \in S : Refetched(d) /\ \E k \in Columns : Unconvertible(Main(d), k)
<1>1. /\ report = "loaded" /\ sampled' = S /\ mismatches = {}
      /\ UNCHANGED <<mapping, docs, parents, known, image, numbers, deleted, gone, drifts>>
  BY DEF Sample, inputs, SampleInvariant
<1>2. \/ Breaks /\ report' = "crashed" /\ mismatches' = {}
      \/ ~Breaks /\ report' = "done" /\ mismatches' = UNION {Compared(d) : d \in S} /\ listed' = OnMissing
  BY <1>1 DEF Sample, Columns
<1>3. /\ \A d : Row(d)' = Row(d) /\ Stops(Main(d))' = Stops(Main(d))
      /\ \A k, v : Retyped(k, v)' = Retyped(k, v)
      /\ KnownAlarms' = KnownAlarms
  <2>1. \A d : \A k : Resolved(Main(d), k)' = Resolved(Main(d), k)
    BY <1>1, RowFixed
  <2>2. \A k, v : Retyped(k, v)' = Retyped(k, v)
    BY <1>1, RowFixed
  <2>3. KnownAlarms' = KnownAlarms
    BY <1>1, <2>1, <2>2 DEF KnownAlarms
  <2> QED BY <1>1, <2>2, <2>3, RowFixed
<1>4. Audited' /\ Unchanged'
  BY <1>1, <1>2, <1>3 DEF SampleInvariant, Audited, Unchanged, Columns
<1>5. SampleClean'
  <2>1. SUFFICES ASSUME drifts = 0
                 PROVE  report' # "crashed" /\ mismatches' \subseteq KnownAlarms
    BY <1>1, <1>3 DEF SampleClean
  <2>2. ~Breaks
    BY <1>1, <2>1, NoneDiffers DEF SampleInvariant, Audited
  <2>3. ASSUME NEW d \in S PROVE Compared(d) \subseteq KnownAlarms
    <3>1. d \notin deleted \cup gone /\ d \in DOMAIN docs
      BY <1>1, <2>1 DEF SampleInvariant, Unchanged, Audited
    <3>2. \A k \in Columns : Differs(d, k) => Retyped(k, Resolved(Main(d), k))
      BY <1>1, <2>1, NoneDiffers DEF SampleInvariant, Audited
    <3>3. CASE Refetched(d)
      BY <3>1, <3>2, <3>3 DEF Compared, Columns, KnownAlarms
    <3>4. CASE ~Refetched(d)
      BY <3>1, <3>4 DEF Compared, Refetched, KnownAlarms
    <3> QED BY <3>3, <3>4
  <2> QED BY <1>2, <2>2, <2>3
<1>6. SampleFinds'
  <2>1. SUFFICES ASSUME report' = "done", mismatches' = {}, NEW d \in S
                 PROVE  /\ d \notin deleted /\ d \notin gone
                        /\ image[d] = Row(d)
                        /\ known # {} => Stops(Main(d)) = {}
    BY <1>1, <1>3 DEF SampleFinds
  <2>2. Compared(d) = {} /\ ~Breaks
    BY <1>2, <2>1
  <2>3. Refetched(d) /\ d \notin gone
    BY <2>2 DEF Compared
  <2>4. \A k \in Columns : ~Differs(d, k) /\ ~Unconvertible(Main(d), k)
    BY <2>2, <2>3 DEF Compared, Columns
  <2> QED BY <2>3, <2>4, Alike, AlikeIsWritten DEF SampleInvariant, Refetched
<1>7. NoSilentNull'
  <2>1. SUFFICES ASSUME report' = "done", NEW d \in S, NEW k \in Columns,
                        mapping.main[k].lookup, docs[d].values[k] # None,
                        image[d][k] # docs[d].values[k]
                 PROVE  {<<d, 0>>, <<d, k>>} \cap mismatches' # {} \/ <<"main", k>> \in listed'
    BY <1>1 DEF NoSilentNull, Columns
  <2>2. Compared(d) \subseteq mismatches' /\ listed' = OnMissing
    BY <1>2, <2>1
  <2>3. CASE ~Refetched(d) \/ d \in gone
    BY <2>2, <2>3 DEF Compared
  <2>4. CASE Refetched(d) /\ d \notin gone /\ Differs(d, k)
    BY <2>2, <2>4 DEF Compared, Columns
  <2>5. CASE Refetched(d) /\ d \notin gone /\ ~Differs(d, k)
    <3>1. Dangles(Main(d), k, known) /\ mapping.main[k].onMissing = "null"
      BY <2>1, <2>5, FieldsOfMain DEF Differs, LookupMissing, Recomputed, Dangles
    <3>2. Main(d) \in {q \in Places : q[2] \notin deleted}
      BY <1>1, <2>5, FieldsOfMain DEF Places, Refetched, SampleInvariant, Audited
    <3>3. <<Main(d)[1], k>> \in OnMissing
      BY <3>1, <3>2, FieldsOfMain DEF OnMissing, Columns
    <3> QED BY <2>2, <3>3, FieldsOfMain
  <2> QED BY <2>3, <2>4, <2>5
<1>8. /\ report' = "none" => docs' \in Datasets /\ deleted' = {} /\ gone' = {}
      /\ report' \in {"none", "loaded"} => mismatches' = {}
  BY <1>2
<1> QED BY <1>1, <1>4, <1>5, <1>6, <1>7, <1>8 DEF SampleInvariant

LEMMA SampleInvariantHolds == SampleSpec => []SampleInvariant
<1>1. SampleInit => SampleInvariant
  <2> SUFFICES ASSUME SampleInit PROVE SampleInvariant
    OBVIOUS
  <2>1. DOMAIN image = {}
    BY DEF SampleInit
  <2> QED BY <2>1 DEF SampleInit, SampleInvariant, Audited, Unchanged, SampleClean, SampleFinds, NoSilentNull
<1>2. ASSUME SampleInvariant, SampleNext PROVE SampleInvariant'
  <2>1. ASSUME NEW d \in DOMAIN docs, NEW c \in Changes, ChangeDocument(d, c) PROVE SampleInvariant'
    BY <1>2, <2>1, DriftKeeps DEF ChangeDocument
  <2>2. ASSUME NEW d \in DOMAIN docs, DeleteDocument(d) PROVE SampleInvariant'
    BY <1>2, <2>2, DriftKeeps DEF DeleteDocument, inputs
  <2>3. ASSUME NEW ids \in SUBSET Ref, Reload(ids) PROVE SampleInvariant'
    BY <1>2, <2>3, DriftKeeps DEF Reload
  <2>4. ASSUME NEW d \in DOMAIN image, NEW k \in DOMAIN mapping.main, NEW v \in Ref \cup {None},
               WriteColumn(d, k, v)
        PROVE  SampleInvariant'
    <3>1. image' = [image EXCEPT ![d][k] = v] /\ (v = None => mapping.main[k].nullable)
      BY <2>4 DEF WriteColumn
    <3>2. /\ DOMAIN image' = DOMAIN image
          /\ image'[d] = [image[d] EXCEPT ![k] = v]
          /\ \A c \in DOMAIN image : c # d => image'[c] = image[c]
      BY <2>4, <3>1
    <3> QED BY <1>2, <2>4, <3>1, <3>2, DriftKeeps DEF WriteColumn, inputs, Columns
  <2>5. ASSUME NEW d \in DOMAIN image, DeleteRow(d) PROVE SampleInvariant'
    BY <1>2, <2>5, DriftKeeps DEF DeleteRow, inputs
  <2> QED BY <1>2, <2>1, <2>2, <2>3, <2>4, <2>5, LoadKeeps, SampleKeeps DEF SampleNext
<1>3. ASSUME SampleInvariant, UNCHANGED sdvars PROVE SampleInvariant'
  <2>1. UNCHANGED <<mapping, docs, parents, known, image, numbers, deleted, gone, drifts,
                    sampled, mismatches, listed, report>>
    BY <1>3 DEF sdvars, inputs, audit
  <2>2. \A d : Row(d)' = Row(d) /\ Stops(Main(d))' = Stops(Main(d))
    BY <2>1, RowFixed
  <2>3. \A d : \A k : Resolved(Main(d), k)' = Resolved(Main(d), k)
    BY <2>1, RowFixed
  <2>4. \A k, v : Retyped(k, v)' = Retyped(k, v)
    BY <2>1, RowFixed
  <2>5. KnownAlarms' = KnownAlarms
    BY <2>1, <2>3, <2>4 DEF KnownAlarms
  <2> QED BY <1>3, <2>1, <2>2, <2>4, <2>5
          DEF SampleInvariant, Audited, Unchanged, SampleClean, SampleFinds, NoSilentNull, Columns
<1> QED BY <1>1, <1>2, <1>3, PTL DEF SampleSpec

(* Of a load that nothing changed since, validate reports no value but one *)
(* that its column gives back in another form, as the literal of a default *)
(* in a column of numbers.                                                 *)
THEOREM SampleRaisesNoFalseAlarm == SampleSpec => []SampleClean
<1>1. SampleInvariant => SampleClean
  BY DEF SampleInvariant
<1> QED BY <1>1, SampleInvariantHolds, PTL

(* Rows that validate passes are those that migrate would write now.       *)
THEOREM SamplePassesOnlyCurrentRows == SampleSpec => []SampleFinds
<1>1. SampleInvariant => SampleFinds
  BY DEF SampleInvariant
<1> QED BY <1>1, SampleInvariantHolds, PTL

(* A reference that its column does not hold shows in the report.          *)
THEOREM LostReferenceShows == SampleSpec => []NoSilentNull
<1>1. SampleInvariant => NoSilentNull
  BY DEF SampleInvariant
<1> QED BY <1>1, SampleInvariantHolds, PTL
-----------------------------------------------------------------------------
(* The count diff.  Where its arithmetic is exact, it subtracts from the   *)
(* places that it counts as many as the loader drops.                      *)

LEMMA FiniteImage ==
  ASSUME NEW S, IsFiniteSet(S), NEW f, f = [x \in S |-> f[x]]
  PROVE  IsFiniteSet({f[x] : x \in S})
<1>1. f \in Surjection(S, {f[x] : x \in S})
  BY DEF Surjection
<1> QED BY <1>1, FS_Surjection

LEMMA SameSize ==
  ASSUME NEW S, NEW T, IsFiniteSet(T), NEW f, f = [x \in S |-> f[x]],
         \A x \in S : f[x] \in T,
         \A x, y \in S : f[x] = f[y] => x = y,
         \A z \in T : \E x \in S : z = f[x]
  PROVE  IsFiniteSet(S) /\ Cardinality(S) = Cardinality(T)
<1>1. f \in [S -> T]
  OBVIOUS
<1>2. f \in Injection(S, T)
  BY <1>1 DEF Injection, IsInjective
<1>3. f \in Surjection(S, T)
  BY <1>1 DEF Surjection
<1> QED BY <1>2, <1>3, FS_Injection

LEMMA DisjointUnion ==
  ASSUME NEW S, NEW T, IsFiniteSet(S), IsFiniteSet(T), S \cap T = {}
  PROVE  Cardinality(S \cup T) = Cardinality(S) + Cardinality(T)
<1>1. Cardinality(S \cup T) = Cardinality(S) + Cardinality(T) - Cardinality(S \cap T)
  BY FS_Union
<1>2. Cardinality(S \cap T) = 0
  BY FS_EmptySet
<1>3. Cardinality(S) \in Nat /\ Cardinality(T) \in Nat
  BY FS_CardinalityType
<1> QED BY <1>1, <1>2, <1>3

LEMMA FiniteIndices ==
  ASSUME NEW S, NEW s \in Seq(S)
  PROVE  IsFiniteSet(DOMAIN s)
<1>1. DOMAIN s = 1 .. Len(s) /\ 1 \in Int /\ Len(s) \in Int
  OBVIOUS
<1> QED BY <1>1, FS_Interval

LEMMA DocumentParts ==
  ASSUME docs \in Datasets, NEW d \in DOMAIN docs
  PROVE  /\ docs[d].items.at \in Seq(Item)
         /\ \A i \in DOMAIN docs[d].items.at : docs[d].items.at[i].parts.at \in Seq(Part)
         /\ docs[d].tags.at \in Seq(Value) /\ docs[d].codes \in Seq(Value)
<1>1. docs[d] \in Document
  BY DocsAreSequence
<1>2. docs[d].items.at \in Seq(Item) /\ docs[d].tags.at \in Seq(Value) /\ docs[d].codes \in Seq(Value)
  BY <1>1 DEF Document, ArrayOf
<1>3. \A i \in DOMAIN docs[d].items.at : docs[d].items.at[i] \in Item
  BY <1>2
<1>4. \A i \in DOMAIN docs[d].items.at : docs[d].items.at[i].parts.at \in Seq(Part)
  BY <1>3 DEF Item, ArrayOf
<1> QED BY <1>2, <1>4

LEMMA PlaceShape ==
  ASSUME NEW d, NEW p \in PlacesOf(d)
  PROVE  /\ p = <<p[1], d, p[3], p[4]>> /\ p[1] \in Tables
         /\ p[1] = "main" => p = Main(d)
         /\ p[1] = "items" => p = <<"items", d, p[3], 0>> /\ p[3] \in DOMAIN docs[d].items.at
         /\ p[1] = "parts" => p[3] \in DOMAIN docs[d].items.at
                              /\ p[4] \in DOMAIN docs[d].items.at[p[3]].parts.at
         /\ p[1] = "codes" => p[3] \in DOMAIN docs[d].codes
BY OwnPlaces DEF Main, Tables

LEMMA ScalarShape ==
  ASSUME NEW d, NEW p \in Scalars(d)
  PROVE  /\ p[2] = d /\ p[1] \in {"items", "tags", "parts"}
         /\ p[1] = "tags" => ~docs[d].tags.list
         /\ p[1] = "parts" => p[3] \in DOMAIN docs[d].items.at /\ ~docs[d].items.at[p[3]].parts.list
BY DEF Scalars

LEMMA FinitePlaces ==
  ASSUME docs \in Datasets
  PROVE  IsFiniteSet(Places) /\ IsFiniteSet(UNION {Scalars(d) : d \in DOMAIN docs})
<1>1. IsFiniteSet(DOMAIN docs)
  BY DocsAreSequence, FiniteIndices
<1>2. ASSUME NEW d \in DOMAIN docs PROVE IsFiniteSet(PlacesOf(d)) /\ IsFiniteSet(Scalars(d))
  <2> DEFINE items == docs[d].items.at
             ofItems == [i \in DOMAIN items |-> <<"items", d, i, 0>>]
             ofTags == [i \in DOMAIN docs[d].tags.at |-> <<"tags", d, i, 0>>]
             coded == {c \in DOMAIN docs[d].codes : ~mapping.skipNull \/ docs[d].codes[c] # None}
             ofCodes == [i \in coded |-> <<"codes", d, i, 0>>]
             partsOf == [i \in DOMAIN items |-> {<<"parts", d, i, j>> : j \in DOMAIN items[i].parts.at}]
             scalar == {x \in DOMAIN items : ~items[x].parts.list}
             ofScalar == [i \in scalar |-> <<"parts", d, i, 0>>]
  <2>1. /\ IsFiniteSet(DOMAIN items) /\ IsFiniteSet(DOMAIN docs[d].tags.at)
        /\ IsFiniteSet(DOMAIN docs[d].codes)
    BY DocumentParts, FiniteIndices
  <2>2. IsFiniteSet(coded) /\ IsFiniteSet(scalar)
    BY <2>1, FS_Subset
  <2>3. IsFiniteSet({ofItems[i] : i \in DOMAIN items})
    BY <2>1, FiniteImage
  <2>4. IsFiniteSet({ofTags[i] : i \in DOMAIN docs[d].tags.at})
    BY <2>1, FiniteImage
  <2>5. IsFiniteSet({ofCodes[i] : i \in coded})
    <3> HIDE DEF coded
    <3> QED BY <2>2, FiniteImage
  <2>6. IsFiniteSet({ofScalar[i] : i \in scalar})
    <3> HIDE DEF scalar
    <3> QED BY <2>2, FiniteImage
  <2>7. IsFiniteSet(UNION {partsOf[i] : i \in DOMAIN items})
    <3>1. ASSUME NEW i \in DOMAIN items PROVE IsFiniteSet(partsOf[i])
      <4> DEFINE g == [j \in DOMAIN items[i].parts.at |-> <<"parts", d, i, j>>]
      <4>1. IsFiniteSet(DOMAIN items[i].parts.at)
        BY DocumentParts, FiniteIndices
      <4>2. IsFiniteSet({g[j] : j \in DOMAIN items[i].parts.at})
        BY <4>1, FiniteImage
      <4>3. partsOf[i] = {g[j] : j \in DOMAIN items[i].parts.at}
        OBVIOUS
      <4> QED BY <4>2, <4>3
    <3>2. IsFiniteSet({partsOf[i] : i \in DOMAIN items})
      BY <2>1, FiniteImage
    <3> HIDE DEF partsOf
    <3> QED BY <3>1, <3>2, FS_UNION
  <2>8. PlacesOf(d) = {Main(d)} \cup {ofItems[i] : i \in DOMAIN items}
                      \cup (UNION {partsOf[i] : i \in DOMAIN items})
                      \cup {ofTags[i] : i \in DOMAIN docs[d].tags.at}
                      \cup {ofCodes[i] : i \in coded}
    <3>1. {ofItems[i] : i \in DOMAIN items} = {<<"items", d, i, 0>> : i \in DOMAIN items}
      OBVIOUS
    <3>2. /\ {ofTags[i] : i \in DOMAIN docs[d].tags.at} = {<<"tags", d, i, 0>> : i \in DOMAIN docs[d].tags.at}
          /\ {ofCodes[i] : i \in coded} = {<<"codes", d, i, 0>> : i \in coded}
      OBVIOUS
    <3>3. {partsOf[i] : i \in DOMAIN items} =
            {{<<"parts", d, i, j>> : j \in DOMAIN items[i].parts.at} : i \in DOMAIN items}
      OBVIOUS
    <3> HIDE DEF ofItems, ofTags, ofCodes, partsOf
    <3> QED BY <3>1, <3>2, <3>3, Zenon DEF PlacesOf, Main
  <2>9. Scalars(d) \subseteq {<<"items", d, 0, 0>>, <<"tags", d, 0, 0>>} \cup {ofScalar[i] : i \in scalar}
    BY DEF Scalars
  <2>10. IsFiniteSet({Main(d)}) /\ IsFiniteSet({<<"items", d, 0, 0>>, <<"tags", d, 0, 0>>})
    <3>1. ASSUME NEW x, NEW y PROVE IsFiniteSet({x}) /\ IsFiniteSet({x, y})
      <4>1. {x, y} = {x} \cup {y} /\ IsFiniteSet({x})
        BY FS_Singleton
      <4>2. IsFiniteSet({x} \cup {y})
        BY <4>1, FS_AddElement
      <4> QED BY <4>1, <4>2
    <3> QED BY <3>1
  <2> HIDE DEF ofItems, ofTags, ofCodes, partsOf, ofScalar, coded, scalar, items
  <2>11. IsFiniteSet(PlacesOf(d))
    <3> DEFINE A == {ofItems[i] : i \in DOMAIN items}
               B == UNION {partsOf[i] : i \in DOMAIN items}
               C == {ofTags[i] : i \in DOMAIN docs[d].tags.at}
               D == {ofCodes[i] : i \in coded}
    <3>1. IsFiniteSet(A) /\ IsFiniteSet(B) /\ IsFiniteSet(C) /\ IsFiniteSet(D)
      BY <2>3, <2>4, <2>5, <2>7
    <3>2. PlacesOf(d) = {Main(d)} \cup A \cup B \cup C \cup D
      BY <2>8
    <3> HIDE DEF A, B, C, D
    <3>3. IsFiniteSet({Main(d)} \cup A)
      BY <2>10, <3>1, FS_Union
    <3>4. IsFiniteSet({Main(d)} \cup A \cup B)
      BY <3>1, <3>3, FS_Union
    <3>5. IsFiniteSet({Main(d)} \cup A \cup B \cup C)
      BY <3>1, <3>4, FS_Union
    <3>6. IsFiniteSet({Main(d)} \cup A \cup B \cup C \cup D)
      BY <3>1, <3>5, FS_Union
    <3> QED BY <3>2, <3>6
  <2>12. IsFiniteSet(Scalars(d))
    <3>1. IsFiniteSet({<<"items", d, 0, 0>>, <<"tags", d, 0, 0>>} \cup {ofScalar[i] : i \in scalar})
      BY <2>6, <2>10, FS_Union
    <3> QED BY <2>9, <3>1, FS_Subset
  <2> QED BY <2>11, <2>12
<1> DEFINE places == [d \in DOMAIN docs |-> PlacesOf(d)]
           scalars == [d \in DOMAIN docs |-> Scalars(d)]
<1>3. IsFiniteSet({places[d] : d \in DOMAIN docs}) /\ IsFiniteSet({scalars[d] : d \in DOMAIN docs})
  BY <1>1, FiniteImage
<1>4. /\ {places[d] : d \in DOMAIN docs} = {PlacesOf(d) : d \in DOMAIN docs}
      /\ {scalars[d] : d \in DOMAIN docs} = {Scalars(d) : d \in DOMAIN docs}
  OBVIOUS
<1> HIDE DEF places, scalars
<1> QED BY <1>2, <1>3, <1>4, FS_UNION DEF Places

LEMMA FieldsOfPlace ==
  ASSUME mapping \in Mappings, docs \in Datasets, NEW d \in DOMAIN docs, NEW p \in PlacesOf(d)
  PROVE  Fields(p) \in Seq(Field)
<1>1. /\ mapping.main \in Seq(Field) /\ mapping.items \in Seq(Field)
      /\ mapping.parts \in Seq(Field) /\ mapping.codes \in Seq(Field)
      /\ mapping.tags \in Field
  BY DocumentsAssumption DEF DocumentsAssumption, Mapping
<1>2. p[1] = "codes" => mapping.codes[p[3]] \in Field
  <2>1. Len(docs[d].codes) = Len(mapping.codes) /\ docs[d].codes \in Seq(Value)
    BY DocumentsAssumption, DocumentParts DEF DocumentsAssumption
  <2>2. DOMAIN docs[d].codes = DOMAIN mapping.codes
    BY <1>1, <2>1
  <2> QED BY <1>1, <2>2, PlaceShape
<1>3. CASE p[1] = "main" \/ p[1] = "items" \/ p[1] = "parts"
  BY <1>1, <1>3 DEF Fields
<1>4. CASE p[1] = "tags"
  <2>1. Fields(p) = <<mapping.tags>>
    BY <1>4 DEF Fields
  <2> QED BY <1>1, <2>1
<1>5. CASE p[1] = "codes"
  <2>1. Fields(p) = <<mapping.codes[p[3]]>>
    BY <1>5 DEF Fields
  <2> QED BY <1>2, <1>5, <2>1
<1> QED BY <1>3, <1>4, <1>5, PlaceShape DEF Tables

(* A row is counted as dropped where it holds a dangling reference.        *)
LEMMA DanglingShape ==
  ASSUME NEW t, NEW x \in Dangling(t)
  PROVE  x = <<x[1], x[2]>> /\ x[1] \in In(Places, t) /\ x[2] \in Reasons(x[1])
BY DEF Dangling

LEMMA DanglingPlaces ==
  ASSUME NEW t, NEW p
  PROVE  p \in {x[1] : x \in Dangling(t)} <=> p \in In(Places, t) /\ Reasons(p) # {}
<1>1. ASSUME p \in {x[1] : x \in Dangling(t)} PROVE p \in In(Places, t) /\ Reasons(p) # {}
  BY <1>1, DanglingShape
<1>2. ASSUME p \in In(Places, t), Reasons(p) # {} PROVE p \in {x[1] : x \in Dangling(t)}
  <2>1. PICK k : k \in Reasons(p)
    BY <1>2
  <2>2. <<p, k>> \in Dangling(t)
    BY <1>2, <2>1 DEF Dangling
  <2>3. <<p, k>>[1] = p
    OBVIOUS
  <2> QED BY <2>2, <2>3
<1> QED BY <1>1, <1>2

(* A document is dropped for its own row, or for want of an identity.      *)
LEMMA SkippedForRow ==
  ASSUME NEW d \in DOMAIN docs, Reasons(Main(d)) # {}
  PROVE  d \in SkippedDocs
<1>1. Main(d) \in In(Places, "main")
  BY FieldsOfMain DEF In, Places
<1>2. Main(d) \in {x[1] : x \in Dangling("main")}
  BY <1>1, DanglingPlaces
<1>3. Main(d)[2] = d
  BY DEF Main
<1> QED BY <1>2, <1>3 DEF SkippedDocs

LEMMA PlacesOfDocs ==
  ASSUME NEW p \in Places
  PROVE  p[2] \in DOMAIN docs /\ p \in PlacesOf(p[2])
<1>1. PICK d \in DOMAIN docs : p \in PlacesOf(d)
  BY DEF Places
<1>2. p[2] = d
  BY <1>1, PlaceShape
<1> QED BY <1>1, <1>2

LEMMA ReasonIsUnique ==
  ASSUME mapping \in Mappings, docs \in Datasets, Countable,
         NEW p \in Places, NEW k \in Reasons(p), NEW l \in Reasons(p)
  PROVE  k = l
<1>1. First(p, k) /\ First(p, l)
  BY DEF Countable
<1>2. Fields(p) \in Seq(Field)
  BY PlacesOfDocs, FieldsOfPlace
<1>3. k \in DOMAIN Fields(p) /\ l \in DOMAIN Fields(p)
  BY DEF Reasons, SkipFields
<1>4. k \in Nat /\ l \in Nat
  BY <1>2, <1>3
<1>5. k <= l /\ l <= k
  BY <1>1 DEF First
<1> QED BY <1>4, <1>5

LEMMA DanglingOnce ==
  ASSUME mapping \in Mappings, docs \in Datasets, Countable, NEW t
  PROVE  /\ IsFiniteSet({x[1] : x \in Dangling(t)})
         /\ Cardinality(Dangling(t)) = Cardinality({x[1] : x \in Dangling(t)})
<1> DEFINE T == {x[1] : x \in Dangling(t)}
           f == [x \in Dangling(t) |-> x[1]]
<1>1. IsFiniteSet(T)
  <2>1. T \subseteq Places
    BY DanglingShape DEF In
  <2> QED BY <2>1, FinitePlaces, FS_Subset
<1>2. \A x, y \in Dangling(t) : f[x] = f[y] => x = y
  <2> SUFFICES ASSUME NEW x \in Dangling(t), NEW y \in Dangling(t), x[1] = y[1] PROVE x = y
    OBVIOUS
  <2>1. x[1] \in Places /\ x[2] \in Reasons(x[1]) /\ y[2] \in Reasons(x[1])
    BY DanglingShape DEF In
  <2>2. x[2] = y[2]
    BY <2>1, ReasonIsUnique
  <2> QED BY <2>2, DanglingShape
<1>3. \A x \in Dangling(t) : f[x] \in T
  OBVIOUS
<1>4. \A z \in T : \E x \in Dangling(t) : z = f[x]
  OBVIOUS
<1>5. f = [x \in Dangling(t) |-> f[x]]
  OBVIOUS
<1> HIDE DEF T, f
<1>6. Cardinality(Dangling(t)) = Cardinality(T)
  BY <1>1, <1>2, <1>3, <1>4, <1>5, SameSize
<1> QED BY <1>1, <1>6 DEF T

(* Of a junction, distinct values stand for the rows that have them.       *)
LEMMA MissingTagsOnce ==
  ASSUME mapping \in Mappings, docs \in Datasets, Countable
  PROVE  Cardinality(MissingTags) = Cardinality({x[1] : x \in Dangling("tags")})
<1> DEFINE T == {x[1] : x \in Dangling("tags")}
           f == [p \in T |-> Values(p)[1]]
<1>1. IsFiniteSet(T)
  BY DanglingOnce
<1>2. ASSUME NEW p \in In(Places, "tags")
      PROVE  Fields(p) = <<mapping.tags>> /\ Values(p) = <<Values(p)[1]>>
  BY DEF In, Fields, Values
<1>3. ASSUME NEW p \in T
      PROVE  p \in In(Places, "tags") /\ Reasons(p) # {} /\ 1 \in SkipFields(p) /\ Values(p)[1] \notin known
  <2>1. p \in In(Places, "tags") /\ Reasons(p) # {}
    BY DanglingPlaces
  <2>2. PICK k \in SkipFields(p) : Dangles(p, k, known)
    BY <2>1 DEF Reasons
  <2>3. k = 1
    BY <1>2, <2>1 DEF SkipFields
  <2> QED BY <2>1, <2>2, <2>3 DEF Dangles
<1>4. \A p \in T : f[p] \in MissingTags
  BY <1>3 DEF MissingTags
<1>5. \A p, q \in T : f[p] = f[q] => p = q
  <2> SUFFICES ASSUME NEW p \in T, NEW q \in T, Values(p)[1] = Values(q)[1] PROVE p = q
    OBVIOUS
  <2>1. Values(p) = Values(q)
    BY <1>2, <1>3
  <2> QED BY <1>3, <2>1 DEF Countable
<1>6. \A v \in MissingTags : \E p \in T : v = f[p]
  <2> SUFFICES ASSUME NEW q \in In(Places, "tags"), SkipFields(q) # {}, Values(q)[1] \notin known
               PROVE  q \in T
    BY DEF MissingTags
  <2>1. 1 \in SkipFields(q)
    BY <1>2 DEF SkipFields
  <2>2. Dangles(q, 1, known)
    BY <2>1 DEF Dangles, Countable, SkipFields
  <2>3. Reasons(q) # {}
    BY <2>1, <2>2 DEF Reasons
  <2> QED BY <2>3, DanglingPlaces
<1>7. f = [p \in T |-> f[p]]
  OBVIOUS
<1> HIDE DEF f
<1>8. \E g : /\ g = [p \in T |-> g[p]]
             /\ \A p \in T : g[p] \in MissingTags
             /\ \A p, q \in T : g[p] = g[q] => p = q
             /\ \A v \in MissingTags : \E p \in T : v = g[p]
  BY <1>4, <1>5, <1>6, <1>7
<1>9. IsFiniteSet(MissingTags)
  <2>1. MissingTags = {f[p] : p \in T}
    BY <1>4, <1>6
  <2> QED BY <1>1, <1>7, <2>1, FiniteImage
<1>10. Cardinality(T) = Cardinality(MissingTags)
  <2> HIDE DEF T
  <2> QED BY <1>4, <1>5, <1>6, <1>7, <1>9, SameSize
<1> QED BY <1>10

(* What the count diff takes to be dropped.                                *)
Lost(t) ==
  {x[1] : x \in Dangling(t)}
  \cup (IF t = "main" THEN {Main(d) : d \in Unidentified} ELSE OfSkipped(t))

LEMMA FiniteCounted ==
  ASSUME docs \in Datasets, NEW t
  PROVE  IsFiniteSet(Counted(t)) /\ Lost(t) \subseteq Counted(t)
<1>1. IsFiniteSet(Places \cup UNION {Scalars(d) : d \in DOMAIN docs})
  BY FinitePlaces, FS_Union
<1>2. IsFiniteSet(Counted(t))
  BY <1>1, FS_Subset DEF Counted, In
<1>3. Lost(t) \subseteq Counted(t)
  <2>1. {x[1] : x \in Dangling(t)} \subseteq Counted(t)
    BY DanglingPlaces DEF Counted, In
  <2>2. t = "main" => {Main(d) : d \in Unidentified} \subseteq Counted(t)
    BY FieldsOfMain DEF Counted, In, Places, Unidentified
  <2>3. OfSkipped(t) \subseteq Counted(t)
    BY DEF OfSkipped
  <2> QED BY <2>1, <2>2, <2>3 DEF Lost
<1> QED BY <1>2, <1>3

LEMMA LostIsExpected ==
  ASSUME mapping \in Mappings, docs \in Datasets, Countable, NEW t \in Tables
  PROVE  Cardinality(Lost(t)) = ExpectedSkip(t)
<1> DEFINE T == {x[1] : x \in Dangling(t)}
<1>1. IsFiniteSet(T) /\ Cardinality(Dangling(t)) = Cardinality(T)
  BY DanglingOnce
<1>2. CASE t = "main"
  <2> DEFINE U == {Main(d) : d \in Unidentified}
             f == [d \in Unidentified |-> Main(d)]
  <2>1. IsFiniteSet(U)
    <3>1. U \subseteq Places
      BY FieldsOfMain DEF Places, Unidentified
    <3> QED BY <3>1, FinitePlaces, FS_Subset
  <2>2. Cardinality(Unidentified) = Cardinality(U)
    <3>1. /\ \A d \in Unidentified : f[d] \in U
          /\ \A d, c \in Unidentified : f[d] = f[c] => d = c
          /\ \A z \in U : \E d \in Unidentified : z = f[d]
          /\ f = [d \in Unidentified |-> f[d]]
      BY DEF Main
    <3> HIDE DEF U, f
    <3> QED BY <2>1, <3>1, SameSize
  <2>3. T \cap U = {}
    <3> SUFFICES ASSUME NEW d \in Unidentified, Reasons(Main(d)) # {} PROVE FALSE
      BY DanglingPlaces
    <3>1. d \in DOMAIN docs /\ ~Identified(d)
      BY DEF Unidentified, Countable
    <3>2. d \in SkippedDocs
      BY <3>1, SkippedForRow
    <3> QED BY <3>1, <3>2 DEF Countable
  <2>4. Cardinality(T \cup U) = Cardinality(T) + Cardinality(U)
    <3> HIDE DEF T, U
    <3> QED BY <1>1, <2>1, <2>3, DisjointUnion
  <2> QED BY <1>1, <1>2, <2>2, <2>4 DEF Lost, ExpectedSkip
<1>3. CASE t # "main"
  <2> DEFINE U == OfSkipped(t)
  <2>1. IsFiniteSet(U)
    <3>1. U \subseteq Counted(t)
      BY DEF OfSkipped
    <3> HIDE DEF U
    <3> QED BY <3>1, FiniteCounted, FS_Subset
  <2>2. T \cap U = {}
    <3> SUFFICES ASSUME NEW p \in In(Places, t), Reasons(p) # {}, p[2] \in SkippedDocs PROVE FALSE
      BY DanglingPlaces DEF OfSkipped
    <3>1. p \in PlacesOf(p[2]) /\ p[2] \in DOMAIN docs /\ p[1] = t
      BY PlacesOfDocs DEF In
    <3>2. p = Main(p[2])
      BY <3>1 DEF Countable
    <3> QED BY <1>3, <3>1, <3>2, FieldsOfMain
  <2>3. Cardinality(T \cup U) = Cardinality(T) + Cardinality(U)
    <3> HIDE DEF T, U
    <3> QED BY <1>1, <2>1, <2>2, DisjointUnion
  <2>4. Lost(t) = T \cup U
    BY <1>3 DEF Lost
  <2>5. CASE t = "items" \/ t = "parts"
    BY <1>1, <2>3, <2>4, <2>5 DEF ExpectedSkip
  <2>6. CASE t = "tags"
    <3>1. Cardinality(T) = Cardinality(MissingTags)
      BY <2>6, MissingTagsOnce
    <3> HIDE DEF T
    <3> QED BY <2>3, <2>4, <2>6, <3>1 DEF ExpectedSkip
  <2>7. CASE t = "codes"
    <3>1. T = {}
      <4> SUFFICES ASSUME NEW p \in In(Places, t), NEW k \in SkipFields(p) PROVE FALSE
        BY DanglingPlaces DEF Reasons
      <4>1. p[1] = "codes" /\ p \in PlacesOf(p[2]) /\ p[2] \in DOMAIN docs
        BY <2>7, PlacesOfDocs DEF In
      <4>2. Fields(p) = <<mapping.codes[p[3]]>> /\ k = 1
        BY <4>1 DEF Fields, SkipFields
      <4>3. p[3] \in DOMAIN docs[p[2]].codes
        BY <4>1, PlaceShape
      <4>4. DOMAIN docs[p[2]].codes = DOMAIN mapping.codes
        <5>1. Len(docs[p[2]].codes) = Len(mapping.codes) /\ mapping.codes \in Seq(Field)
          BY <4>1, DocumentsAssumption DEF DocumentsAssumption, Mapping
        <5>2. docs[p[2]].codes \in Seq(Value)
          BY <4>1, DocumentParts
        <5> QED BY <5>1, <5>2
      <4>5. ~mapping.codes[p[3]].lookup
        BY <4>3, <4>4, DocumentsAssumption DEF DocumentsAssumption
      <4> QED BY <4>2, <4>5 DEF SkipFields
    <3>2. Lost(t) = U
      BY <2>4, <3>1
    <3> QED BY <2>7, <3>2 DEF ExpectedSkip
  <2> QED BY <1>3, <2>5, <2>6, <2>7 DEF Tables
<1> QED BY <1>2, <1>3

-----------------------------------------------------------------------------
(* What the count diff takes to be dropped is what the loader drops.       *)

LEMMA SkipHasReason ==
  ASSUME NEW p, Skips(p)
  PROVE  known # {} /\ Reasons(p) # {}
<1>1. PICK k \in DOMAIN Fields(p) : FieldSkips(p, k)
  BY DEF Skips
<1>2. Dangles(p, k, known) /\ k \in SkipFields(p) /\ known # {}
  BY <1>1 DEF FieldSkips, SkipFields, Dangles
<1> QED BY <1>2 DEF Reasons

LEMMA ReasonDrops ==
  ASSUME Countable, known # {}, NEW p \in Places, Reasons(p) # {}
  PROVE  Skips(p)
<1>1. PICK k : k \in Reasons(p)
  OBVIOUS
<1>2. First(p, k)
  BY <1>1 DEF Countable
<1>3. k \in DOMAIN Fields(p) /\ FieldSkips(p, k)
  BY <1>1 DEF Reasons, SkipFields, FieldSkips
<1> QED BY <1>2, <1>3 DEF Skips

LEMMA SkippedHasReason ==
  ASSUME NEW d \in SkippedDocs
  PROVE  d \in DOMAIN docs /\ Reasons(Main(d)) # {}
<1>1. PICK x \in Dangling("main") : d = x[1][2]
  BY DEF SkippedDocs
<1>2. x[1] \in In(Places, "main") /\ Reasons(x[1]) # {}
  BY DanglingShape
<1>3. x[1] \in PlacesOf(d) /\ d \in DOMAIN docs /\ x[1][1] = "main"
  BY <1>1, <1>2, PlacesOfDocs DEF In
<1>4. x[1] = Main(d)
  BY <1>3, PlaceShape
<1> QED BY <1>2, <1>3, <1>4

LEMMA DroppedWithoutIdentity ==
  ASSUME mapping \in Mappings, NEW d \in DOMAIN docs, DocSkips(d), ~Identified(d)
  PROVE  d \in Unidentified
<1>1. mapping.main \in Seq(Field) /\ mapping.identity \in Nat
  BY DocumentsAssumption DEF DocumentsAssumption, Mapping
<1>2. mapping.identity # 0 /\ mapping.identity \in 0 .. Len(mapping.main)
  BY DocumentsAssumption DEF DocumentsAssumption, Identified
<1>3. mapping.identity \in DOMAIN mapping.main
  BY <1>1, <1>2
<1>4. mapping.main[mapping.identity].onMissing = "skip_row"
  BY DEF DocSkips
<1>5. mapping.main[mapping.identity].lookup
  BY <1>3, <1>4, DocumentsAssumption DEF DocumentsAssumption
<1> QED BY <1>3, <1>4, <1>5, FieldsOfMain DEF Unidentified, SkipFields, Identified

(* With nothing to look up in, the loader fails on what dangles.           *)
LEMMA NothingDangles ==
  ASSUME mapping \in Mappings, Countable, known = {},
         NEW d \in DOMAIN docs, ~DocFails(d), NEW p \in PlacesOf(d)
  PROVE  Reasons(p) = {}
<1>1. CASE ~Identified(d)
  <2>1. d \in Unidentified
    BY <1>1, DroppedWithoutIdentity DEF DocFails
  <2>2. p = Main(d)
    BY <2>1 DEF Countable
  <2>3. Reasons(p) # {} => d \in SkippedDocs
    BY <2>2, SkippedForRow
  <2> QED BY <1>1, <2>3 DEF Countable
<1>2. CASE Identified(d)
  <2>1. Reached(p) /\ ~DocSkips(d)
    BY <1>2, SkipHasReason DEF Reached, DocSkips
  <2>2. ~Fails(p)
    BY <1>2, <2>1 DEF DocFails
  <2>3. SUFFICES ASSUME NEW k \in Reasons(p) PROVE FALSE
    OBVIOUS
  <2>4. First(p, k)
    BY DEF Countable, Places
  <2>5. k \in DOMAIN Fields(p) /\ FieldFails(p, k)
    BY DEF Reasons, SkipFields, FieldFails
  <2> QED BY <2>2, <2>4, <2>5 DEF Fails
<1> QED BY <1>1, <1>2

LEMMA LostIsDropped ==
  ASSUME mapping \in Mappings, docs \in Datasets, Countable, NEW d \in DOMAIN docs,
         known # {} \/ ~DocFails(d), NEW t, NEW p \in PlacesOf(d), p \in Lost(t)
  PROVE  p \in Dropped(d)
<1>1. p \in Places /\ p[2] = d
  BY PlaceShape DEF Places
<1>2. CASE Reasons(p) # {}
  <2>1. Skips(p)
    BY <1>1, <1>2, ReasonDrops, NothingDangles
  <2> QED BY <2>1 DEF Dropped
<1>3. CASE d \in Unidentified
  <2>1. DocSkips(d)
    BY <1>3, FieldsOfMain DEF Unidentified, SkipFields, DocSkips, Countable
  <2> QED BY <2>1 DEF Dropped
<1>4. CASE d \in SkippedDocs
  <2>1. Main(d) \in PlacesOf(d) /\ Main(d) \in Places /\ Reasons(Main(d)) # {}
    BY <1>4, SkippedHasReason, FieldsOfMain DEF Places
  <2>2. Skips(Main(d))
    BY <2>1, ReasonDrops, NothingDangles
  <2>3. Identified(d)
    BY <1>4 DEF Countable
  <2>4. DocSkips(d)
    BY <2>2, <2>3 DEF DocSkips
  <2> QED BY <2>4 DEF Dropped
<1>5. \/ p \in {x[1] : x \in Dangling(t)}
      \/ \E c \in Unidentified : p = Main(c)
      \/ p \in OfSkipped(t)
  BY DEF Lost
<1>6. ASSUME NEW c \in Unidentified, p = Main(c) PROVE d \in Unidentified
  BY <1>1, <1>6, FieldsOfMain
<1> QED BY <1>1, <1>2, <1>3, <1>4, <1>5, <1>6, DanglingPlaces DEF OfSkipped

(* Every other place has its row.                                          *)
LEMMA OthersAreWritten ==
  ASSUME mapping \in Mappings, docs \in Datasets, Countable,
         NEW d \in DOMAIN docs, ~DocFails(d),
         NEW t \in Tables, NEW p \in Counted(t), p[2] = d, p \notin Lost(t)
  PROVE  p \in Written(d)
<1>1. p[1] = t /\ (p \in Places \/ \E c \in DOMAIN docs : p \in Scalars(c))
  BY DEF Counted, In
<1>2. Reasons(p) = {} \/ p \notin Places
  BY <1>1, DanglingPlaces DEF Lost, In
<1>3. d \in SkippedDocs => p = Main(d) /\ t = "main" /\ p \in Places
  <2> SUFFICES ASSUME d \in SkippedDocs PROVE p = Main(d) /\ t = "main" /\ p \in Places
    OBVIOUS
  <2>1. t = "main"
    BY DEF Lost, OfSkipped
  <2>2. p \in Places
    BY <1>1, <2>1, ScalarShape
  <2> QED BY <1>1, <2>1, <2>2, PlacesOfDocs, PlaceShape
<1>4. ~DocSkips(d)
  <2>1. SUFFICES ASSUME DocSkips(d) PROVE FALSE
    OBVIOUS
  <2>2. CASE Identified(d)
    <3>1. Reasons(Main(d)) # {}
      BY <2>1, <2>2, SkipHasReason DEF DocSkips
    <3>2. d \in SkippedDocs
      BY <3>1, SkippedForRow
    <3> QED BY <1>2, <1>3, <3>1, <3>2
  <2>3. CASE ~Identified(d)
    <3>1. d \in Unidentified
      BY <2>1, <2>3, DroppedWithoutIdentity
    <3>2. PlacesOf(d) = {Main(d)} /\ Scalars(d) = {}
      BY <3>1 DEF Countable
    <3>3. p \in Places
      BY <1>1, <3>2, ScalarShape
    <3>4. p = Main(d)
      BY <3>2, <3>3, PlacesOfDocs
    <3>5. t = "main"
      BY <1>1, <3>4, FieldsOfMain
    <3> QED BY <3>1, <3>4, <3>5 DEF Lost
  <2> QED BY <2>2, <2>3
<1>5. Identified(d) /\ \A q \in Scalars(d) : ~Reached(q)
  BY <1>4 DEF DocFails
<1>6. ASSUME p[1] = "parts", ~Reached(p)
      PROVE  Reasons(<<"items", d, p[3], 0>>) # {}
  BY <1>6, SkipHasReason DEF Reached
<1>7. p \in Places
  <2>1. SUFFICES ASSUME NEW c \in DOMAIN docs, p \in Scalars(c) PROVE FALSE
    BY <1>1
  <2>2. p \in Scalars(d)
    BY <2>1, ScalarShape
  <2>3. p[1] = "parts" /\ ~Reached(p)
    BY <1>5, <2>2 DEF Reached
  <2>4. p[3] \in DOMAIN docs[d].items.at /\ ~docs[d].items.at[p[3]].parts.list
    BY <2>2, <2>3, ScalarShape
  <2> QED BY <1>6, <2>3, <2>4 DEF Countable
<1>8. p \in PlacesOf(d) /\ ~Skips(p)
  BY <1>2, <1>7, PlacesOfDocs, SkipHasReason
<1>9. Reached(p)
  <2>1. SUFFICES ASSUME ~Reached(p) PROVE FALSE
    OBVIOUS
  <2>2. p[1] = "parts"
    BY <2>1 DEF Reached
  <2>3. p[3] \in DOMAIN docs[d].items.at /\ p[4] \in DOMAIN docs[d].items.at[p[3]].parts.at
    BY <1>8, <2>2, PlaceShape
  <2>4. DOMAIN docs[d].items.at[p[3]].parts.at = {}
    BY <1>6, <2>1, <2>2, <2>3 DEF Countable
  <2> QED BY <2>3, <2>4
<1> QED BY <1>4, <1>8, <1>9 DEF Written, Dropped

-----------------------------------------------------------------------------
(* The verdict.  Between the load and the report nothing changes, so the   *)
(* report is about the rows of the documents that were taken.              *)

Judged ==
  IF \E d \in DOMAIN docs : ~docs[d].tags.list THEN "error"
  ELSE IF \A t \in Tables : Matches(t) THEN "ok" ELSE "mismatch"

Tally ==
  /\ rows = UNION {Written(d) : d \in 1 .. taken}
  /\ \A d \in 1 .. taken : ~DocFails(d)
  /\ load = "loaded" => taken = Len(docs)
  /\ verdict # "none" => load # "waiting" /\ verdict = Judged

(* No row of a document that was taken counts as dropped.                  *)
LEMMA RowsAmongKept ==
  ASSUME Agreement, Tally, Countable, known # {} \/ load = "loaded", NEW t
  PROVE  In(rows, t) \subseteq Counted(t) \ Lost(t)
<1> SUFFICES ASSUME NEW p \in In(rows, t) PROVE p \in Counted(t) /\ p \notin Lost(t)
  OBVIOUS
<1>1. mapping \in Mappings /\ docs \in Datasets /\ 1 .. taken \subseteq DOMAIN docs
  <2>1. mapping \in Mappings /\ docs \in Datasets /\ DOMAIN docs = 1 .. Len(docs)
    BY DocsAreSequence DEF Agreement
  <2> QED BY <2>1, PositionsTyped
<1>2. PICK d \in 1 .. taken : p \in Written(d)
  BY DEF Tally, In
<1>3. d \in DOMAIN docs /\ ~DocFails(d)
  BY <1>1 DEF Tally
<1>4. p \in PlacesOf(d) /\ p \notin Dropped(d) /\ p[1] = t
  BY <1>2 DEF Written, In
<1>5. p \in Counted(t)
  BY <1>3, <1>4 DEF Counted, Places, In
<1> QED BY <1>1, <1>3, <1>4, <1>5, LostIsDropped

LEMMA WholeLoadWritesKept ==
  ASSUME Agreement, Tally, Countable, load = "loaded", NEW t \in Tables
  PROVE  In(rows, t) = Counted(t) \ Lost(t)
<1>1. mapping \in Mappings /\ docs \in Datasets /\ 1 .. taken = DOMAIN docs
  BY DocsAreSequence DEF Agreement, Tally
<1>2. ASSUME NEW p \in Counted(t), p \notin Lost(t) PROVE p \in In(rows, t)
  <2>1. p[1] = t /\ p[2] \in DOMAIN docs
    BY PlacesOfDocs, ScalarShape DEF Counted, In
  <2>2. ~DocFails(p[2])
    BY <1>1, <2>1 DEF Tally
  <2>3. p \in Written(p[2])
    BY <1>1, <1>2, <2>1, <2>2, OthersAreWritten
  <2> QED BY <1>1, <2>1, <2>3 DEF Tally, In
<1> QED BY <1>2, RowsAmongKept

(* The counts agree where the rows are those that are not expected lost.   *)
LEMMA KeptAreCounted ==
  ASSUME mapping \in Mappings, docs \in Datasets, Countable, NEW t \in Tables
  PROVE  /\ IsFiniteSet(Counted(t) \ Lost(t))
         /\ Cardinality(Counted(t) \ Lost(t)) = Cardinality(Counted(t)) - ExpectedSkip(t)
<1> DEFINE kept == Counted(t) \ Lost(t)
<1>1. IsFiniteSet(Counted(t)) /\ Lost(t) \subseteq Counted(t)
  BY FiniteCounted
<1>2. IsFiniteSet(kept) /\ IsFiniteSet(Lost(t))
  BY <1>1, FS_Subset
<1>3. kept \cap Lost(t) = {} /\ kept \cup Lost(t) = Counted(t)
  BY <1>1
<1> HIDE DEF kept
<1>4. Cardinality(kept \cup Lost(t)) = Cardinality(kept) + Cardinality(Lost(t))
  BY <1>2, <1>3, DisjointUnion
<1>5. Cardinality(kept) \in Nat /\ Cardinality(Lost(t)) \in Nat
  BY <1>2, FS_CardinalityType
<1>6. Cardinality(Lost(t)) = ExpectedSkip(t)
  BY LostIsExpected
<1>7. Cardinality(kept) = Cardinality(Counted(t)) - ExpectedSkip(t)
  <2>1. Cardinality(Counted(t)) = Cardinality(kept) + Cardinality(Lost(t))
    BY <1>3, <1>4
  <2> QED BY <1>5, <1>6, <2>1
<1> QED BY <1>2, <1>7 DEF kept

(* A load went through only if each junction field is an array.            *)
LEMMA LoadedIsCountable ==
  ASSUME Agreement, Tally, Countable, load = "loaded", NEW d \in DOMAIN docs
  PROVE  docs[d].tags.list
<1>1. mapping \in Mappings /\ d \in 1 .. taken
  BY DocsAreSequence DEF Agreement, Tally
<1>2. SUFFICES ASSUME ~docs[d].tags.list PROVE FALSE
  OBVIOUS
<1>3. <<"tags", d, 0, 0>> \in Scalars(d) /\ Reached(<<"tags", d, 0, 0>>)
  BY <1>2 DEF Scalars, Reached
<1>4. DocSkips(d)
  BY <1>1, <1>3 DEF Tally, DocFails
<1>5. Identified(d)
  BY <1>1, <1>3, <1>4, DroppedWithoutIdentity DEF Countable
<1>6. d \in SkippedDocs
  BY <1>4, <1>5, SkipHasReason, SkippedForRow DEF DocSkips
<1> QED BY <1>2, <1>6 DEF Countable

LEMMA TallyMatches ==
  ASSUME Agreement, Tally
  PROVE  CountsMatch
<1> SUFFICES ASSUME load = "loaded", verdict # "none", Countable PROVE verdict = "ok"
  BY DEF CountsMatch
<1>1. \A d \in DOMAIN docs : docs[d].tags.list
  BY LoadedIsCountable
<1>2. \A t \in Tables : Matches(t)
  BY WholeLoadWritesKept, KeptAreCounted DEF Matches, Agreement
<1> QED BY <1>1, <1>2 DEF Tally, Judged

LEMMA TallyAccepts ==
  ASSUME Agreement, Tally
  PROVE  AcceptedIsComplete
<1> SUFFICES ASSUME verdict = "ok", known # {}, Countable,
                    NEW d \in DOMAIN docs, NEW p \in PlacesOf(d), p \notin rows
             PROVE  p \in Dropped(d)
  BY DEF AcceptedIsComplete
<1>1. mapping \in Mappings /\ docs \in Datasets
  BY DEF Agreement
<1>2. PICK t \in Tables : p[1] = t
  BY PlaceShape
<1>3. Matches(t)
  BY DEF Tally, Judged
<1>4. In(rows, t) = Counted(t) \ Lost(t)
  <2> DEFINE kept == Counted(t) \ Lost(t)
  <2>1. In(rows, t) \subseteq kept
    BY RowsAmongKept
  <2>2. IsFiniteSet(kept) /\ Cardinality(In(rows, t)) = Cardinality(kept)
    BY <1>1, <1>3, KeptAreCounted DEF Matches
  <2> HIDE DEF kept
  <2>3. In(rows, t) = kept
    BY <2>1, <2>2, FS_Subset
  <2> QED BY <2>3 DEF kept
<1>5. p \in Counted(t) /\ p \notin In(rows, t)
  BY <1>2 DEF Counted, Places, In
<1> QED BY <1>1, <1>4, <1>5, LostIsDropped

-----------------------------------------------------------------------------
LEMMA CountsFixed ==
  ASSUME UNCHANGED <<inputs, rows>>
  PROVE  \A t : Matches(t)' = Matches(t)
<1>1. UNCHANGED <<mapping, docs, known, rows>>
  BY DEF inputs
<1>2. ASSUME NEW p
      PROVE  /\ Fields(p)' = Fields(p) /\ Values(p)' = Values(p)
             /\ \A k : Dangles(p, k, known)' = Dangles(p, k, known)
  BY <1>1 DEF Fields, Values, Dangles
<1>3. ASSUME NEW d
      PROVE  /\ PlacesOf(d)' = PlacesOf(d) /\ Scalars(d)' = Scalars(d)
             /\ Identified(d)' = Identified(d) /\ Main(d)' = Main(d)
  BY <1>1 DEF PlacesOf, Scalars, Identified, Main
<1>4. \A t : Counted(t)' = Counted(t)
  BY <1>1, <1>3 DEF Counted, Places, In
<1>5. \A p : SkipFields(p)' = SkipFields(p)
  BY <1>2 DEF SkipFields
<1>6. \A p : Reasons(p)' = Reasons(p)
  BY <1>2, <1>5 DEF Reasons
<1>7. \A t : Dangling(t)' = Dangling(t)
  BY <1>1, <1>3, <1>6 DEF Dangling, Places, In
<1>8. SkippedDocs' = SkippedDocs
  BY <1>7 DEF SkippedDocs
<1>9. \A t : OfSkipped(t)' = OfSkipped(t)
  BY <1>4, <1>8 DEF OfSkipped
<1>10. Unidentified' = Unidentified
  BY <1>1, <1>3, <1>5 DEF Unidentified
<1>11. MissingTags' = MissingTags
  BY <1>1, <1>2, <1>3, <1>5 DEF MissingTags, Places, In
<1>12. \A t : ExpectedSkip(t)' = ExpectedSkip(t)
  BY <1>7, <1>9, <1>10, <1>11 DEF ExpectedSkip
<1> QED BY <1>1, <1>4, <1>12 DEF Matches, In

(* The report is made after the load, of rows that stay as they are.       *)
LEMMA TallyKept ==
  ASSUME Tally, UNCHANGED <<inputs, external, cdvars, taken>>,
         load' = "loaded" => taken = Len(docs),
         load # "waiting" => load' # "waiting"
  PROVE  Tally'
<1>1. UNCHANGED <<mapping, docs, rows, verdict, taken>>
  BY DEF inputs, cdvars
<1>2. Judged' = Judged
  BY <1>1, CountsFixed DEF Judged, Tables, cdvars
<1> QED BY <1>1, <1>2, DataFixed DEF Tally

LEMMA TallyOfBatch ==
  ASSUME Agreement, Tally, LoadBatch
  PROVE  Tally'
<1>1. UNCHANGED <<inputs, external, verdict, load>> /\ load = "waiting" /\ verdict = "none"
  BY DEF LoadBatch, fpvars, Tally
<1>2. /\ \A d \in NextBatch(taken) : ~DocFails(d)
      /\ rows' = rows \cup UNION {Written(d) : d \in NextBatch(taken)}
      /\ taken' = taken + Cardinality(NextBatch(taken))
  BY DEF LoadBatch
<1>3. 1 .. taken' = (1 .. taken) \cup NextBatch(taken)
  <2>1. /\ taken' \in taken .. Len(docs)
        /\ NextBatch(taken) = (taken + 1) .. taken'
    BY <1>2, BatchIsInterval, PositionsTyped
  <2> QED BY <2>1, PositionsTyped
<1>4. rows' = UNION {Written(d) : d \in 1 .. taken'}
  BY <1>2, <1>3 DEF Tally
<1>5. \A d \in 1 .. taken' : ~DocFails(d)
  BY <1>2, <1>3 DEF Tally
<1> QED BY <1>1, <1>4, <1>5, DataFixed DEF Tally

LEMMA TallyOfAudit ==
  ASSUME Agreement, Tally, Audit
  PROVE  Tally'
<1>1. UNCHANGED <<inputs, external, rows, taken, load>> /\ load # "waiting"
  BY DEF Audit, Validate, fpvars
<1>2. verdict' = Judged
  BY DEF Audit, Validate, Judged
<1>3. Judged' = Judged
  BY <1>1, CountsFixed DEF Judged, Tables, inputs
<1> QED BY <1>1, <1>2, <1>3, DataFixed DEF Tally, inputs

LEMMA TallyHolds == Spec => []Tally
<1>1. Init => Tally
  BY DEF Init, Tally
<1>2. Agreement /\ Tally /\ [Next]_vvars => Tally'
  <2> SUFFICES ASSUME Agreement, Tally, [Next]_vvars PROVE Tally'
    OBVIOUS
  <2>1. CASE FastPassNext /\ UNCHANGED <<cdvars, taken, load>>
    BY <2>1, TallyKept DEF FastPassNext, ExamineBatch, EndFastPass, Tally
  <2>2. CASE EndLoad
    <3>1. taken = Len(docs)
      <4>1. NextBatch(taken) = {}
        BY <2>2 DEF EndLoad
      <4>2. ~(taken < Len(docs))
        BY <4>1, BatchIsInterval, PositionsTyped
      <4> QED BY <4>2, PositionsTyped
    <3> QED BY <2>2, <3>1, TallyKept DEF EndLoad, fpvars
  <2>3. CASE BatchFails \/ Kill
    BY <2>3, TallyKept DEF BatchFails, Kill, fpvars
  <2>4. CASE UNCHANGED vvars
    BY <2>4, TallyKept DEF vvars, fpvars, Tally
  <2> QED BY <2>1, <2>2, <2>3, <2>4, TallyOfBatch, TallyOfAudit DEF Next
<1> QED BY <1>1, <1>2, AgreementHolds, PTL DEF Spec

(* `validate' finds no table wrong after a load that went through, where   *)
(* its arithmetic is exact: what it subtracts are the rows not written.    *)
THEOREM CompleteLoadIsAccepted == Spec => []CountsMatch
BY AgreementHolds, TallyHolds, TallyMatches, PTL

(* What `validate' accepts lacks no row but those that migrate would drop, *)
(* though it compares numbers and not rows: none can make up for another.  *)
THEOREM AcceptedLoadIsComplete == Spec => []AcceptedIsComplete
BY AgreementHolds, TallyHolds, TallyAccepts, PTL
=============================================================================
