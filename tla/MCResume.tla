------------------------------ MODULE MCResume ------------------------------
(***************************************************************************)
(* A collection that applications insert into, and one that reshape makes. *)
(***************************************************************************)
EXTENDS FanIn, TLC

VARIABLE origin

Id(kind, text) == [kind |-> kind, text |-> text]

(* _ids of one type, and of three.                                         *)
ObjectIds == {Id("objectId", t) : t \in 1 .. 4}
MixedIds  == {Id("number", 1), Id("number", 2), Id("string", 3), Id("objectId", 4)}
AllHex    == {1, 2, 3, 4}
SomeHex   == {4}

MCGroup == [i \in ObjectIds |-> IF i.text \in {1, 3} THEN "g1" ELSE "g2"]
MCStamp == [i \in ObjectIds |-> IF i.text = 4 THEN 2 ELSE 1]
NoGroup == [i \in MixedIds |-> i.text]

Symmetry == Permutations(Process)

(* Three of the four are enough for the live collection.                   *)
LiveIds == {i \in Ids : i.text <= 3}

mcvars == <<origin, vars, fvars>>

MCInit ==
  /\ origin \in {"live", "derived"}
  /\ Init /\ FanInInit
  /\ docs \subseteq (IF origin = "live" THEN LiveIds ELSE {})

MCNext ==
  /\ \/ origin = "live" /\ Next /\ docs' \subseteq LiveIds /\ UNCHANGED fvars
     \/ origin = "derived" /\ FanInNext
  /\ UNCHANGED origin

MCSpec == MCInit /\ [][MCNext]_mcvars
=============================================================================
