------------------------------- MODULE MCDryRun -------------------------------
(***************************************************************************)
(* Bookings, with items, of hospitals; staff is a table of no entity, and  *)
(* one hospital may have its id_map row from elsewhere.                    *)
(***************************************************************************)
EXTENDS DryRun

CONSTANTS h1, h2, b1, n1, n2

MCTable  == {"hospitals", "bookings", "items", "staff"}
MCEntity == {"hospital", "booking"}
MCOrder  == <<"hospital", "booking">>
MCWrites == [hospital |-> <<"hospitals">>, booking |-> <<"bookings", "items">>]
MCDoc    == {h1, h2, b1}
MCFiled  == [d \in MCDoc |-> IF d = b1 THEN "booking" ELSE "hospital"]
MCNamespace == {n1, n2}

Col(t, u, v, c) == [table |-> t, to |-> u, value |-> v, check |-> c]

(* A booking's hospital, an item's booking, a booking's first item, and    *)
(* perhaps a key into or out of the mapped tables.                         *)
Usual(v, c1, c2) ==
  {Col("bookings", "hospitals", v, c1), Col("items", "bookings", "own", "immediate"),
   Col("bookings", "items", "own", c2)}

MCTargets ==
  {Usual(x[1], x[2], c2) :
     x \in {<<"lookup", "none">>, <<"lookup", "immediate">>, <<"copied", "immediate">>},
     c2 \in {"none", "deferrable", "deferred"}} \cup
  {Usual("lookup", "deferred", "none") \cup {x} :
     x \in {Col("staff", "hospitals", "own", "immediate"), Col("items", "staff", "copied", "deferred")}}

MCSources ==
  {<<[hospital |-> x[1], booking |-> {b1}], [d \in MCDoc |-> IF d = b1 THEN x[2] ELSE None]>> :
     x \in {<<{h1}, h1>>, <<{h1}, h2>>, <<{h1, h2}, h2>>, <<{h1, h2}, None>>}}

(* h1 may be known from an earlier load, and h2 be filed for a row of h1.  *)
MCSeeds ==
  {Absent} \cup
  {[d \in MCDoc |-> CASE d = h1 -> x[1] [] d = h2 -> x[2] [] OTHER -> None] :
     x \in {<<None, None>>, <<None, <<h1, n1>>>>, <<<<h1, n2>>, <<h1, n2>>>>,
            <<<<h1, n2>>, <<h2, n2>>>>}}
=============================================================================
