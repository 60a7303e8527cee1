------------------------------- MODULE MCLoad -------------------------------
(***************************************************************************)
(* Small instances of Load: `hospitals`, and `bookings` that look a        *)
(* hospital up.                                                            *)
(***************************************************************************)
EXTENDS LoadInv

CONSTANTS hospitals, bookings

MCEntity == {hospitals, bookings}

MCRank == [e \in MCEntity |-> IF e = hospitals THEN 1 ELSE 2]

(* One lookup field in bookings, under each on_missing policy.             *)
LookupsWith(policy) ==
  [e \in MCEntity |->
     IF e = bookings THEN <<[to |-> hospitals, onMissing |-> policy]>> ELSE <<>>]

LookupsSkip  == LookupsWith("skip_row")

(* A second one, which only the second booking has and must resolve.       *)
LookupsMixed == [e \in MCEntity |->
  IF e = bookings THEN <<[to |-> hospitals, onMissing |-> "null"],
                         [to |-> hospitals, onMissing |-> "error"]>>
  ELSE <<>>]

NoSkip   == [e \in MCEntity |-> FALSE]
UuidBoth == [e \in MCEntity |-> "objectid_to_uuid"]
IntBoth  == [e \in MCEntity |-> "int_sequence"]

(* Hospitals are numbered, bookings keep their ids.                        *)
NumberAndKeep == [e \in MCEntity |->
  IF e = hospitals THEN "int_sequence" ELSE "passthrough"]

(* id_strategy.source_field is _id.                                        *)
IdentityId == [e \in MCEntity |-> [d \in 1 .. MaxDoc |-> d]]

(* The first booking lacks the field, and its policy is skip_row.          *)
IdentityMissing == [e \in MCEntity |-> [d \in 1 .. MaxDoc |->
  IF e = bookings /\ d = 1 THEN 0 ELSE d]]
SkipBookings == [e \in MCEntity |-> e = bookings]

(* The third hospital lacks it, and no policy says what then.              *)
IdentityFatal == [e \in MCEntity |-> [d \in 1 .. MaxDoc |->
  IF e = hospitals /\ d = 3 THEN 0 ELSE d]]

(* source_field is another field, which two documents never share.         *)
IdentityOther == [e \in MCEntity |-> [d \in 1 .. MaxDoc |-> d + MaxDoc]]

(* Booking d refers to hospital d, which may not exist yet, or no longer.  *)
Referring == [e \in MCEntity |-> [d \in 1 .. MaxDoc |->
  IF e = bookings THEN <<d>> ELSE <<>>]]

OwnTables == [e \in MCEntity |-> e]
OneTable  == [e \in MCEntity |-> "records"]

(* The second lookup field of booking 2 names hospital 1.                  *)
ReferringTwice == [e \in MCEntity |-> [d \in 1 .. MaxDoc |->
  IF e = bookings THEN <<d, IF d = 2 THEN 1 ELSE 0>> ELSE <<>>]]

BookingsHaveForeignKey == {<<bookings, hospitals>>}
NoForeignKeys == {}

Only(mode, selections) == {[mode |-> mode, only |-> s] : s \in selections}

(* Command lines: whole runs, or runs that select entities.                *)
Appends         == Only("append", {{}})
AppendsAndSubsets == Only("append", {{}, {hospitals}, {bookings}})
WholeRuns       == UNION {Only(m, {{}}) : m \in {"append", "upsert", "truncate"}}
WholeOrRefused  == WholeRuns \cup Only("truncate", {{hospitals}})
TruncateOnly    == Appends \cup Only("truncate", {{hospitals}, {bookings}})
=============================================================================
