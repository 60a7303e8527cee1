------------------------------ MODULE MCVerdicts ------------------------------
(***************************************************************************)
(* Small collections of bookings that refer to hospitals r1 and r2.        *)
(***************************************************************************)
EXTENDS Verdicts, SampleDiff

CONSTANTS r1, r2

VARIABLE origin  \* which of the two machines runs

MCRef == {r1, r2}

(* A lookup under policy p, a lookup that must resolve, a plain column.    *)
LookupField(p, nullable) ==
  [lookup |-> TRUE, onMissing |-> p, nullable |-> nullable, default |-> FALSE,
   typed |-> FALSE]
PlainField(nullable, default) ==
  [lookup |-> FALSE, onMissing |-> "error", nullable |-> nullable, default |-> default,
   typed |-> FALSE]

MappingWith(p, nullable, identity, default) ==
  [main     |-> <<LookupField(p, nullable), LookupField("skip_row", TRUE), PlainField(FALSE, default)>>,
   items    |-> <<LookupField(p, nullable), PlainField(TRUE, FALSE)>>,
   parts    |-> <<LookupField(p, nullable)>>,
   tags     |-> LookupField(IF p = "null" THEN "error" ELSE p, TRUE),
   codes    |-> <<PlainField(nullable, default)>>,
   skipNull |-> ~nullable \/ identity # 0,
   identity |-> identity,
   derived  |-> default]

MCMappings ==
  {MappingWith(p, nullable, IF default THEN 1 ELSE 0, default) :
     p \in Policies, nullable \in BOOLEAN, default \in BOOLEAN}

(* r1 resolves unless nothing does.  A dangling r2 is in its collection    *)
(* still, or no longer; it may have gone after it was loaded.              *)
MCLookups ==
  {<<{r1}, {r1}>>, <<MCRef, {r1}>>, <<MCRef, MCRef>>, <<{r1}, MCRef>>, <<MCRef, {}>>}

Array(s) == [list |-> TRUE, at |-> s]
NoArray  == [list |-> FALSE, at |-> <<>>]

ItemOf(v, w, parts) == [values |-> <<v, w>>, parts |-> parts]
PartOf(v) == [values |-> <<v>>]

(* A booking in which everything resolves if r1 is loaded.                 *)
Plain == [values |-> <<r1, r1, r1>>,
          items |-> Array(<<ItemOf(r1, None, Array(<<PartOf(r1)>>))>>),
          tags |-> Array(<<r1>>), codes |-> <<r1>>, objectId |-> TRUE]

Bare == [Plain EXCEPT !.items = Array(<<>>), !.tags = Array(<<>>), !.codes = <<None>>]

SomeItems ==
  {Array(<<ItemOf(v, w, Array(<<>>))>>) : v \in {r1, r2, None}, w \in {None, Bad}} \cup
  {Array(<<ItemOf(r1, None, Array(<<PartOf(v)>>))>>) : v \in {r1, r2, None}} \cup
  {Array(<<ItemOf(r1, None, NoArray), ItemOf(r2, None, Array(<<>>))>>), NoArray}

(* Bookings with at most one value that may dangle or be absent, so that   *)
(* no row has two reasons to be dropped, and one without its identity has  *)
(* no rows but its own.                                                    *)
OneReason ==
  {[Plain EXCEPT !.values = v] : v \in {<<r2, r1, r1>>, <<r1, r2, r1>>}} \cup
  {[Bare EXCEPT !.values = v] :
     v \in {<<v1, r1, v3>> : v1 \in {r1, r2, Bad}, v3 \in {r1, None, Bad}} \cup
          {<<None, None, v3>> : v3 \in {r1, None, Bad}}} \cup
  {[Bare EXCEPT !.items = i] : i \in SomeItems} \cup
  {[Bare EXCEPT !.tags = t] : t \in {Array(<<r2>>), Array(<<r1, r2>>), NoArray}} \cup
  {[Bare EXCEPT !.codes = <<c>>] : c \in {r1, Bad}} \cup
  {[Bare EXCEPT !.objectId = FALSE]}

(* Rows with two reasons to be dropped, or dropped with others: a document *)
(* and its item, an item and its part, a document without its identity and *)
(* its item, a tag that comes twice, and one that is null; scalars in what *)
(* is dropped; and an identity that is the empty text.                     *)
Entangled ==
  {[Plain EXCEPT !.values = v] : v \in {<<r2, r2, r1>>, <<None, None, r1>>, <<None, r2, r1>>}} \cup
  {[Bare EXCEPT !.values = <<Empty, r1, r1>>]} \cup
  {[Bare EXCEPT !.items = Array(<<ItemOf(r2, None, parts)>>)] :
     parts \in {Array(<<PartOf(r1)>>), Array(<<PartOf(r2)>>), NoArray}} \cup
  {[Bare EXCEPT !.values = <<r1, r2, r1>>, !.items = Array(<<ItemOf(r2, None, Array(<<>>))>>)],
   [Bare EXCEPT !.values = <<r1, r2, r1>>, !.tags = NoArray],
   [Bare EXCEPT !.values = <<None, None, r1>>, !.items = NoArray]} \cup
  {[Bare EXCEPT !.tags = Array(t)] : t \in {<<r2, r2>>, <<None>>}}

Bookings == (OneReason \X OneReason) \cup (Entangled \X {Plain, Bare}) \cup ({Plain, Bare} \X Entangled)

(* For the sample diff: a reference under each policy, with and without a  *)
(* default, a second one that must resolve, and a plain column; with       *)
(* columns of texts, or of numbers, which change the literal of a default. *)
SampleMappings ==
  {[MappingWith(p, nullable, 0, TRUE) EXCEPT
      !.main[1].default = default, !.main[2].onMissing = "error",
      !.main[1].typed = typed, !.main[3].typed = typed] :
     p \in Policies, nullable \in BOOLEAN, default \in BOOLEAN, typed \in BOOLEAN}

SampleDocs ==
  {[Bare EXCEPT !.values = v] :
     v \in {<<r1, r1, r1>>, <<r2, r1, r1>>, <<None, r1, None>>, <<None, r1, r1>>, <<r1, r2, r1>>,
            <<r1, r1, Raw>>, <<r1, r1, Bad>>}}

SampleDatasets == {<<a, b>> : a, b \in SampleDocs} \cup {<<Plain>>}

AllMappings == MCMappings \cup SampleMappings

MCDatasets == Bookings \cup SampleDatasets

ChainInit ==
  /\ mapping \in MCMappings /\ docs \in Bookings
  /\ Init
  /\ image = <<>> /\ numbers = {} /\ deleted = {} /\ gone = {} /\ drifts = 0
  /\ sampled = {} /\ mismatches = {} /\ listed = {} /\ report = "none"

AuditInit ==
  /\ mapping \in SampleMappings /\ docs \in SampleDatasets
  /\ SampleInit
  /\ external = FALSE /\ examined = 0 /\ violations = {} /\ fast = "running"
  /\ rows = {} /\ verdict = "none" /\ taken = 0 /\ load = "waiting"

MCInit == \/ origin = "chain" /\ ChainInit
          \/ origin = "audit" /\ AuditInit

MCNext ==
  /\ \/ /\ origin = "chain" /\ Next
        /\ UNCHANGED <<image, numbers, deleted, gone, drifts, audit, report>>
     \/ /\ origin = "audit" /\ SampleNext
        /\ UNCHANGED <<fpvars, cdvars, taken, load>>
  /\ UNCHANGED origin

MCSpec == MCInit /\ [][MCNext]_<<origin, vvars, sdvars>>
=============================================================================
