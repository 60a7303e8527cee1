------------------------------ MODULE MCMapping ------------------------------
(***************************************************************************)
(* What a mapping file goes through: it is drafted and completed, ordered  *)
(* beside the target's tables, and loaded through the id_map.  The four    *)
(* machines share no state, so each runs from all its initial states       *)
(* beside one initial state of the others:                                 *)
(*                                                                         *)
(*   - all mapping files of three entities, all schemas of three tables;   *)
(*   - hospitals and bookings that look them up, in a map that fits in     *)
(*     memory or outgrows it;                                              *)
(*   - collections of one field of any shape, alone or beside a scalar     *)
(*     (MCProposal).                                                       *)
(***************************************************************************)
EXTENDS LoadOrder, TableOrder, IdMap, MCProposal

CONSTANTS a, b, c,            \* entities, and tables
          outside, typo,      \* an external entity and an undeclared name
          hospitals, bookings

VARIABLE running  \* the machine that runs

MCEntity  == {hospitals, bookings}
MCRank    == [e \in MCEntity |-> IF e = hospitals THEN 1 ELSE 2]
MCParents == [e \in MCEntity |-> IF e = hospitals THEN {} ELSE {hospitals}]

MCDeclared == {a, b, c}
MCExternal == {outside}
MCName     == MCDeclared \cup {outside, typo}
MCPlace    == [e \in MCDeclared |-> IF e = a THEN 1 ELSE IF e = b THEN 2 ELSE 3]
NamePlace  == [n \in MCName |-> IF n \in MCDeclared THEN MCPlace[n]
                                ELSE IF n = outside THEN 4 ELSE 5]

(* A mapping with the references G, each at the place r assigns to it.     *)
PlaceOf(e, n, r) == (MCPlace[e] + 2 * NamePlace[n] + r) % 5

At(G, r, e, place) == {n \in MCName : <<e, n>> \in G /\ PlaceOf(e, n, r) = place}

MappingOf(G, r) == [e \in MCDeclared |->
  [fields     |-> At(G, r, e, 0),
   explode    |-> <<At(G, r, e, 1), At(G, r, e, 2)>>,
   junction   |-> At(G, r, e, 3),
   depends_on |-> At(G, r, e, 4)]]

Outward == {{}} \cup {{<<e, n>>} : e \in MCDeclared, n \in {outside, typo}}

MCMappings ==
  {MappingOf(G \cup out, r) :
     G \in SUBSET (MCDeclared \X MCDeclared), out \in Outward, r \in 0 .. 4}

(* Between two tables no foreign key, a deferrable or another one.         *)
KeyOf(t, u, deferrable) == [table |-> t, references |-> u, deferrable |-> deferrable]

MCSchemas ==
  {{KeyOf(p[1], p[2], TRUE) : p \in {q \in DOMAIN f : f[q] = "deferrable"}} \cup
   {KeyOf(p[1], p[2], FALSE) : p \in {q \in DOMAIN f : f[q] = "immediate"}} \cup out :
     f \in [MCDeclared \X MCDeclared -> {"none", "deferrable", "immediate"}],
     out \in {{}, {KeyOf(a, Elsewhere, FALSE)}}}

OneMapping == mapping = MappingOf({}, 0) /\ OrderInit
OneSchema == keys = {} /\ TableInit
OneDraft ==
  /\ sample = [x \in {f1} |-> ShapeOf("scalar", NoMatch, "none", <<>>)]
  /\ jsonFallback = Nothing
  /\ ProposalInit

MCInit ==
  \/ running = "order" /\ OneSchema /\ Init /\ OneDraft /\ OrderInit
  \/ running = "tables" /\ OneMapping /\ Init /\ OneDraft /\ TableInit
  \/ running = "ids" /\ OneMapping /\ OneSchema /\ OneDraft /\ Init
  \/ running = "draft" /\ OneMapping /\ OneSchema /\ Init /\ ProposalInit

MCNext ==
  /\ UNCHANGED running
  /\ \/ running = "order" /\ OrderNext /\ UNCHANGED <<tvars, ivars, pvars>>
     \/ running = "tables" /\ TableNext /\ UNCHANGED <<ovars, ivars, pvars>>
     \/ running = "ids" /\ Next /\ UNCHANGED <<ovars, tvars, pvars>>
     \/ running = "draft" /\ ProposalNext /\ UNCHANGED <<ovars, tvars, ivars>>

MCSpec == MCInit /\ [][MCNext]_<<running, ovars, tvars, ivars, pvars>>
=============================================================================
