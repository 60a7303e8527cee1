----------------------------- MODULE Migration ------------------------------
(***************************************************************************)
(* What a migration promises, whoever is killed and however often it is    *)
(* re-run: every entity has a frontier in its source collection; behind it *)
(* each document is settled exactly once, loaded or deliberately dropped,  *)
(* in one indivisible step per batch; beyond it nothing is.  Only a        *)
(* truncating run starts over.                                             *)
(***************************************************************************)
EXTENDS Naturals

CONSTANTS
  Entity,   \* the entities of the mapping file
  MaxDoc    \* bound: documents ever created in one collection

Doc == 1 .. MaxDoc

VARIABLES
  source,   \* source[e]: documents now in the collection
  clock,    \* clock[e]: newest document created there
  loaded,   \* loaded[e]: documents whose row and children are in the target
  dropped,  \* dropped[e]: documents an on_missing policy dropped
  frontier  \* frontier[e]: where the next batch begins

target == <<loaded, dropped, frontier>>
mvars  == <<source, clock, loaded, dropped, frontier>>

Init ==
  /\ source = [e \in Entity |-> {}]
  /\ clock = [e \in Entity |-> 0]
  /\ loaded = [e \in Entity |-> {}]
  /\ dropped = [e \in Entity |-> {}]
  /\ frontier = [e \in Entity |-> 0]

(* The batch that ends with document last: all documents of the source up  *)
(* to it, and those deleted since it was read.                             *)
Settle(e, last, kept, lost) ==
  /\ frontier[e] < last
  /\ last <= clock[e]
  /\ last \in kept \cup lost
  /\ kept \cap lost = {}
  /\ kept \cup lost \subseteq {d \in Doc : frontier[e] < d /\ d <= last}
  /\ {d \in source[e] : frontier[e] < d /\ d <= last} \subseteq kept \cup lost
  /\ loaded' = [loaded EXCEPT ![e] = @ \cup kept]
  /\ dropped' = [dropped EXCEPT ![e] = @ \cup lost]
  /\ frontier' = [frontier EXCEPT ![e] = last]
  /\ UNCHANGED <<source, clock>>

StartOver ==
  /\ loaded' = [e \in Entity |-> {}]
  /\ dropped' = [e \in Entity |-> {}]
  /\ frontier' = [e \in Entity |-> 0]
  /\ UNCHANGED <<source, clock>>

Create(e) ==
  /\ clock[e] < MaxDoc
  /\ clock' = [clock EXCEPT ![e] = @ + 1]
  /\ source' = [source EXCEPT ![e] = @ \cup {clock[e] + 1}]
  /\ UNCHANGED target

Delete(e, d) ==
  /\ source' = [source EXCEPT ![e] = @ \ {d}]
  /\ UNCHANGED <<clock, target>>

Next ==
  \/ \E e \in Entity, last \in Doc, kept, lost \in SUBSET Doc : Settle(e, last, kept, lost)
  \/ StartOver
  \/ \E e \in Entity : Create(e)
  \/ \E e \in Entity, d \in Doc : Delete(e, d)

Spec == Init /\ [][Next]_mvars
=============================================================================
