------------------------------ MODULE LoadOrder ------------------------------
(***************************************************************************)
(* The order in which `migrate' loads the entities of a mapping file       *)
(* (mapping/schema.py): the structural check of the names an entity may    *)
(* refer to, then a layered topological sort of the entities by their      *)
(* lookups, at any depth, and by the edges depends_on declares.  Load      *)
(* takes the result as its constant Rank.                                  *)
(***************************************************************************)
EXTENDS Integers, Sequences, FiniteSets

CONSTANTS
  Declared,   \* the entities the mapping file declares
  External,   \* its external_entities
  Name,       \* every name the file may use, typos included
  Place,      \* Place[e]: place of e in the alphabet
  Mappings    \* the mapping files: [Declared -> Mapping]

(* What an entity's mapping says of other entities: the lookup targets of  *)
(* its fields, of its explode levels by depth, of its junctions, and       *)
(* depends_on.                                                             *)
Mapping == [fields : SUBSET Name, explode : Seq(SUBSET Name),
            junction : SUBSET Name, depends_on : SUBSET Name]

ASSUME OrderAssumption ==
  /\ IsFiniteSet(Declared)
  /\ Declared \cup External \subseteq Name
  /\ Place \in [Declared -> Nat]
  /\ \A e, f \in Declared : Place[e] = Place[f] => e = f
  /\ Mappings \subseteq [Declared -> Mapping]

VARIABLES
  mapping,    \* the mapping file
  remaining,  \* entities not placed yet
  order,      \* entities placed, in loading order
  status      \* how far the command has come

ovars == <<mapping, remaining, order, status>>

-----------------------------------------------------------------------------
(* Mutant: the lookups of the first explode level only.                    *)
TopExplodeLookups(explode) == IF explode = <<>> THEN {} ELSE explode[1]

ExplodeLookups(explode) == UNION {explode[i] : i \in DOMAIN explode}

LookupEntities(e) ==
  mapping[e].fields \cup ExplodeLookups(mapping[e].explode) \cup mapping[e].junction

(* Mutant: only lookups order entities.                                    *)
LookupDependencies(e) == LookupEntities(e)

Dependencies(e) == LookupEntities(e) \cup mapping[e].depends_on

(* validate_structure: a lookup names an entity or an external one, and    *)
(* depends_on another entity of the file.                                  *)
Valid(e) ==
  /\ LookupEntities(e) \subseteq Declared \cup External
  /\ mapping[e].depends_on \subseteq Declared \ {e}

ValidateStructure ==
  /\ status = "loaded"
  /\ status' = IF \A e \in Declared : Valid(e) THEN "ordering" ELSE "invalid"
  /\ UNCHANGED <<mapping, remaining, order>>

Ready == {e \in remaining : Dependencies(e) \cap remaining = {}}

Alphabetical(s, S) ==
  /\ \A i, j \in DOMAIN s : i < j => Place[s[i]] < Place[s[j]]
  /\ \A e \in S : \E i \in DOMAIN s : s[i] = e

(* Mutant: a placed entity is considered again.                            *)
PlaceReadyAgain ==
  /\ status = "ordering"
  /\ Ready # {}
  /\ \E s \in [1 .. Cardinality(Ready) -> Ready] :
       Alphabetical(s, Ready) /\ order' = order \o s
  /\ UNCHANGED <<mapping, remaining, status>>

PlaceReady ==
  /\ status = "ordering"
  /\ Ready # {}
  /\ \E s \in [1 .. Cardinality(Ready) -> Ready] :
       Alphabetical(s, Ready) /\ order' = order \o s
  /\ remaining' = remaining \ Ready
  /\ UNCHANGED <<mapping, status>>

RefuseCycle ==
  /\ status = "ordering"
  /\ remaining # {}
  /\ Ready = {}
  /\ status' = "circular"
  /\ UNCHANGED <<mapping, remaining, order>>

ReturnOrder ==
  /\ status = "ordering"
  /\ remaining = {}
  /\ status' = "ordered"
  /\ UNCHANGED <<mapping, remaining, order>>

OrderInit ==
  /\ mapping \in Mappings
  /\ remaining = Declared
  /\ order = <<>>
  /\ status = "loaded"

OrderNext == ValidateStructure \/ PlaceReady \/ RefuseCycle \/ ReturnOrder

OrderSpec == OrderInit /\ [][OrderNext]_ovars

-----------------------------------------------------------------------------
(* What the order must be, from the mapping file alone.                    *)
OrderOK ==
  /\ mapping \in [Declared -> Mapping]
  /\ remaining \subseteq Declared
  /\ order \in Seq(Declared)
  /\ status \in {"loaded", "ordering", "invalid", "circular", "ordered"}

(* e looks p up somewhere, at whatever depth.                              *)
LooksUp(e, p) ==
  \/ p \in mapping[e].fields
  \/ \E i \in DOMAIN mapping[e].explode : p \in mapping[e].explode[i]
  \/ p \in mapping[e].junction

Before(i) == {order[j] : j \in 1 .. i - 1}

(* When an order is returned, every entity has before it all entities it   *)
(* looks up or declares to depend on, unless a lookup is external: load()  *)
(* finds the id_map of a parent complete when it begins a child.           *)
ParentsFirst ==
  status = "ordered" =>
    \A i \in DOMAIN order : \A p \in Name :
      /\ LooksUp(order[i], p) => p \in Before(i) \cup (External \ Declared)
      /\ p \in mapping[order[i]].depends_on => p \in Before(i)

(* Every entity is loaded, and none twice.                                 *)
EachOnce ==
  /\ \A i, j \in DOMAIN order : order[i] = order[j] => i = j
  /\ {order[i] : i \in DOMAIN order} = Declared \ remaining
  /\ status = "ordered" => remaining = {}

(* A set of entities each of which needs another of the set, or itself.    *)
Needs(e, p) == LooksUp(e, p) \/ p \in mapping[e].depends_on

Entangled(S) == \A e \in S : \E p \in S : Needs(e, p)

(* A mapping file is refused as circular exactly if its entities cannot be *)
(* ordered: not for a lookup of an entity outside the file, and always for *)
(* one of the entity itself.                                               *)
RefusedIffCyclic ==
  /\ status = "circular" => \E S \in SUBSET Declared : S # {} /\ Entangled(S)
  /\ status = "ordered" => \A S \in SUBSET Declared : S # {} => ~Entangled(S)
=============================================================================
