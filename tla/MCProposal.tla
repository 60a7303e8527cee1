------------------------------ MODULE MCProposal ------------------------------
(***************************************************************************)
(* Collections of one field of any shape, alone or beside a scalar.        *)
(***************************************************************************)
EXTENDS Proposal

CONSTANTS f1, f2, sub,   \* fields, and a field one level below
          id, name       \* columns; name may be the json column

MCField  == {f1, f2, sub}
MCColumn == {id, name}

NoMatch == [column |-> Nothing, high |-> FALSE]
Medium  == [column |-> name, high |-> FALSE]
High    == [column |-> name, high |-> TRUE]

ShapeOf(kind, guess, table, subs) ==
  [kind |-> kind, guess |-> guess, table |-> table, subs |-> subs]

Below == {<<>>, [x \in {sub} |-> NoMatch], [x \in {sub} |-> High]}

MCShapes ==
  {ShapeOf("scalar", guess, "none", <<>>) : guess \in {NoMatch, Medium, High}} \cup
  {ShapeOf("mixed", High, "none", <<>>)} \cup
  {ShapeOf("object", NoMatch, "none", subs) : subs \in Below} \cup
  {ShapeOf("objects", NoMatch, table, subs) : table \in {"none", "no key", "found"}, subs \in Below} \cup
  {ShapeOf("values", NoMatch, table, <<>>) : table \in {"none", "found", "no entity"}}

MCCollections ==
  {[x \in {f1} |-> shape] : shape \in MCShapes} \cup
  {[x \in {f1, f2} |-> IF x = f1 THEN shape ELSE ShapeOf("scalar", guess, "none", <<>>)] :
     shape \in MCShapes, guess \in {NoMatch, High}}
=============================================================================
