---------------------------- MODULE ProposalProofs ----------------------------
(***************************************************************************)
(* No field is lost in silence between propose and an accepted mapping     *)
(* file, whatever the collection shows, the model suggests, and the        *)
(* operator edits, however often.                                          *)
(*                                                                         *)
(* The invariant says of every list that gives a field away why it may:    *)
(* what is under `drop' was told, edited, or an object that was empty; and *)
(* what is dropped inside an exploded array was edited.                    *)
(***************************************************************************)
EXTENDS Proposal, TLAPS

Dropped == \A f \in drop : Mentioned(f) \/ f \in quiet

Disposed ==
  /\ sample \in Collections
  /\ fields \subseteq Path \X Column
  /\ Dropped
  /\ itemDrop \subseteq edited
  /\ stage = "accepted" => Missing(sample) = {}

(* A field that is left to no table was named by an issue, or was an       *)
(* object of which the sample showed nothing.                              *)
LEMMA UnhandledIsTold ==
  ASSUME sample \in Collections, ProposalAssumption,
         NEW f \in Top \ Handled
  PROVE  (\E q \in Issues : q[1] = f) \/ f \in Empty
<1>1. /\ sample[f].kind \in {"scalar", "mixed", "object", "objects", "values"}
      /\ sample[f].guess.high => sample[f].guess.column # Nothing
      /\ \A s \in Subs(f) : sample[f].subs[s].high => sample[f].subs[s].column # Nothing
  BY DEF ProposalAssumption, Shape, Top, Subs
<1>2. CASE <<f, Nothing>> \in Issues
  BY <1>2
<1>3. CASE f \in Of("object") /\ Subs(f) # {}
  <2>1. \A s \in Subs(f) : s \notin Matched(f)
    BY <1>3 DEF Handled, Nested
  <2>2. PICK s \in Subs(f) : TRUE
    BY <1>3
  <2>3. ~sample[f].subs[s].high
    BY <1>1, <2>1, <2>2 DEF Matched
  <2>4. <<f, s>> \in Issues
    BY <1>3, <2>2, <2>3 DEF Issues
  <2> QED BY <2>4
<1>4. CASE f \in Of("object") /\ Subs(f) = {}
  BY <1>4 DEF Empty
<1>5. CASE f \notin Of("object")
  <2>1. f \in Of("scalar") => <<f, Nothing>> \in Issues
    BY <1>1 DEF Handled, Plain, Issues
  <2>2. f \in Of("mixed") \cup Of("objects") \cup Of("values") => f \in ByHand
    BY DEF Handled, ByHand, Junctions, Of
  <2>3. f \in ByHand => <<f, Nothing>> \in Issues
    BY DEF Issues
  <2>4. f \in Of("scalar") \/ f \in Of("mixed") \cup Of("objects") \cup Of("values")
    BY <1>1, <1>5 DEF Of
  <2> QED BY <1>2, <2>1, <2>2, <2>3, <2>4
<1> QED BY <1>2, <1>3, <1>4, <1>5

(* What propose writes under `fields:' is a path and a column.             *)
LEMMA ProposedFields ==
  ASSUME sample \in Collections, ProposalAssumption, Propose
  PROVE  fields' \subseteq Path \X Column
<1>1. /\ Top \subseteq Field
      /\ \A f \in Top : sample[f].guess.column \in Column \cup {Nothing}
      /\ \A f \in Top : /\ Subs(f) \subseteq Field
                        /\ \A s \in Subs(f) : sample[f].subs[s].column \in Column \cup {Nothing}
  <2>1. Top \subseteq Field /\ \A f \in Top : sample[f] \in Shape
    BY DEF ProposalAssumption, Top
  <2>2. ASSUME NEW f \in Top
        PROVE  /\ sample[f].guess \in Guess
               /\ Subs(f) \subseteq Field
               /\ \A s \in Subs(f) : sample[f].subs[s] \in Guess
    <3>1. sample[f].guess \in Guess /\ sample[f].subs \in (UNION {[F -> Guess] : F \in SUBSET Field})
      BY <2>1 DEF Shape
    <3>2. PICK F \in SUBSET Field : sample[f].subs \in [F -> Guess]
      BY <3>1
    <3> QED BY <3>1, <3>2 DEF Subs
  <2> QED BY <2>1, <2>2 DEF Guess
<1>2. {<<<<f, Nothing>>, sample[f].guess.column>> : f \in Plain} \subseteq Path \X Column
  BY <1>1 DEF Plain, Of, Path
<1>3. (UNION {{<<<<f, s>>, sample[f].subs[s].column>> : s \in Matched(f)} : f \in Nested})
        \subseteq Path \X Column
  <2>1. ASSUME NEW f \in Nested, NEW s \in Matched(f)
        PROVE  <<<<f, s>>, sample[f].subs[s].column>> \in Path \X Column
    BY <1>1 DEF Nested, Of, Matched, Path
  <2> QED BY <2>1
<1> QED BY <1>2, <1>3 DEF Propose

LEMMA DisposedByPropose ==
  ASSUME Disposed, ProposalAssumption, Propose
  PROVE  Disposed'
<1>1. \A f \in drop' : (\E q \in Issues : q[1] = f) \/ f \in Empty
  BY UnhandledIsTold DEF Propose, Disposed
<1>2. Dropped'
  BY <1>1 DEF Propose, Dropped, Mentioned
<1> QED BY <1>2, ProposedFields DEF Propose, Disposed

(* What was told or edited stays so.                                       *)
LEMMA StillDropped ==
  ASSUME Dropped, drop' \subseteq drop, told \subseteq told', edited \subseteq edited',
         quiet' = quiet
  PROVE  Dropped'
BY DEF Dropped, Mentioned

LEMMA DisposedBySuggestion ==
  ASSUME Disposed, ProposalAssumption, NEW f \in Field,
         SuggestNothing(f) \/ \E c \in Column : Suggest(f, c)
  PROVE  Disposed'
<1>1. /\ sample' = sample /\ itemDrop' = itemDrop /\ edited' = edited
      /\ stage' = "proposed" /\ quiet' = quiet
      /\ drop' \subseteq drop /\ told \subseteq told'
  BY DEF SuggestNothing, Suggest, unmapped
<1>2. fields' \subseteq Path \X Column
  <2>1. CASE SuggestNothing(f)
    BY <2>1 DEF SuggestNothing, Disposed
  <2>2. ASSUME NEW c \in Column, Suggest(f, c) PROVE fields' \subseteq Path \X Column
    BY <2>2 DEF Suggest, Disposed, Path
  <2> QED BY <2>1, <2>2
<1>3. Dropped'
  BY <1>1, StillDropped DEF Disposed
<1> QED BY <1>1, <1>2, <1>3 DEF Disposed

LEMMA DisposedByOperator ==
  ASSUME Disposed, ProposalAssumption, NEW f \in Field,
         Redispose(f) \/ \E s \in Field : EditItem(f, s)
  PROVE  Disposed'
<1>1. CASE Redispose(f)
  <2>1. /\ sample' = sample /\ told' = told /\ quiet' = quiet
        /\ edited' = edited \cup {<<f, Nothing>>} /\ stage' = "written"
        /\ itemDrop' \subseteq itemDrop /\ drop' \subseteq drop \cup {f}
        /\ fields' \subseteq fields \cup {<<<<f, Nothing>>, c>> : c \in Column}
    BY <1>1 DEF Redispose, Edit
  <2>2. fields' \subseteq Path \X Column
    BY <2>1 DEF Disposed, Path
  <2>3. Dropped'
    <3>1. Mentioned(f)'
      <4>1. <<f, Nothing>> \in edited' /\ <<f, Nothing>>[1] = f
        BY <2>1
      <4> QED BY <4>1 DEF Mentioned
    <3>2. \A g \in drop : Mentioned(g) => Mentioned(g)'
      BY <2>1 DEF Mentioned
    <3> QED BY <2>1, <3>1, <3>2 DEF Disposed, Dropped
  <2> QED BY <2>1, <2>2, <2>3 DEF Disposed
<1>2. ASSUME NEW s \in Field, EditItem(f, s)
      PROVE  Disposed'
  <2>1. /\ sample' = sample /\ told' = told /\ quiet' = quiet /\ drop' = drop
        /\ fields' = fields /\ edited' = edited \cup {<<f, s>>} /\ stage' = "written"
        /\ itemDrop' \subseteq itemDrop \cup {<<f, s>>}
    BY <1>2 DEF EditItem, Edit, unmapped
  <2>2. Dropped'
    BY <2>1, StillDropped DEF Disposed
  <2> QED BY <2>1, <2>2 DEF Disposed
<1> QED BY <1>1, <1>2

(* A sample is accepted only if nothing in it is missing.                  *)
LEMMA DisposedByCommands ==
  ASSUME Disposed, ProposalAssumption,
         DumpMapping \/ (\E seen \in Collections : ValidateMapping(seen)) \/ UNCHANGED pvars
  PROVE  Disposed'
<1>1. /\ fields' = fields /\ drop' = drop /\ itemDrop' = itemDrop /\ told' = told
      /\ quiet' = quiet /\ edited' = edited /\ items' = items /\ exploded' = exploded
      /\ junction' = junction /\ jsonb' = jsonb /\ sample' \in Collections
  BY DEF DumpMapping, ValidateMapping, pvars, unmapped, Disposed
<1>2. ASSUME NEW seen \in Collections, sample' = seen, Missing(seen) = {}
      PROVE  Missing(sample)' = {}
  <2>1. Accounted' = Accounted
    BY <1>1 DEF Accounted
  <2>2. \A f \in DOMAIN seen : f \in Accounted
    <3>1. \A f \in DOMAIN seen \ Accounted : <<f, Nothing>> \in Missing(seen)
      BY DEF Missing
    <3> QED BY <1>2, <3>1
  <2>3. \A f \in exploded : \A s \in ItemFields(seen, f) : <<f, s>> \in items \cup itemDrop
    <3>1. \A f \in exploded : \A s \in ItemFields(seen, f) :
            <<f, s>> \notin items \cup itemDrop => <<f, s>> \in Missing(seen)
      BY DEF Missing
    <3> QED BY <1>2, <3>1
  <2>4. \A f : ItemFields(sample, f)' = ItemFields(seen, f)
    BY <1>2 DEF ItemFields
  <2>5. {<<f, Nothing>> : f \in DOMAIN sample \ Accounted}' = {}
    BY <1>2, <2>1, <2>2
  <2>6. \A f \in exploded :
          {<<f, s>> : s \in {x \in ItemFields(sample, f) : <<f, x>> \notin items \cup itemDrop}}' = {}
    BY <1>1, <2>3, <2>4
  <2> QED BY <1>1, <2>5, <2>6 DEF Missing
<1>3. Dropped'
  BY <1>1 DEF Dropped, Mentioned, Disposed
<1>4. ASSUME stage' = "accepted" PROVE Missing(sample)' = {}
  <2>1. CASE DumpMapping
    BY <2>1, <1>4 DEF DumpMapping
  <2>2. ASSUME NEW seen \in Collections, ValidateMapping(seen) PROVE Missing(sample)' = {}
    BY <1>2, <1>4, <2>2 DEF ValidateMapping
  <2>3. CASE UNCHANGED pvars
    BY <1>2, <1>4, <2>3 DEF pvars, Disposed
  <2> QED BY <2>1, <2>2, <2>3
<1> QED BY <1>1, <1>3, <1>4 DEF Disposed

LEMMA DisposedHolds == ProposalSpec => []Disposed
<1>1. ProposalInit => Disposed
  BY DEF ProposalInit, Disposed, Dropped
<1>2. Disposed /\ [ProposalNext]_pvars => Disposed'
  BY ProposalAssumption, DisposedByPropose, DisposedBySuggestion, DisposedByOperator,
     DisposedByCommands DEF ProposalNext
<1> QED BY <1>1, <1>2, PTL DEF ProposalSpec

(* A mapping file that validate-mapping accepts loses no field in silence: *)
(* whatever the shapes of the two samples and whatever was suggested and   *)
(* edited, what does not go to Postgres was told, edited, or empty.        *)
THEOREM AcceptedLosesNothing == ProposalSpec => []NothingLost
<1>1. Disposed => NothingLost
  <2> SUFFICES ASSUME Disposed, stage = "accepted", NEW f \in Top
               PROVE  IF f \in exploded
                      THEN \A s \in ItemFields(sample, f) : <<f, s>> \in items \cup edited
                      ELSE f \in Whole \/ Mentioned(f) \/ f \in quiet
    BY DEF NothingLost
  <2>1. Missing(sample) = {} /\ f \in Field
    BY ProposalAssumption DEF Disposed, Top
  <2>2. CASE f \in exploded
    BY <2>1, <2>2 DEF Missing, Disposed
  <2>3. CASE f \notin exploded
    <3>1. f \in Accounted
      <4>1. f \in DOMAIN sample \ Accounted => <<f, Nothing>> \in Missing(sample)
        BY DEF Missing
      <4> QED BY <2>1, <4>1 DEF Top
    <3>2. ASSUME NEW x \in fields, x[1][2] = Nothing, x[1][1] = f
          PROVE  f \in Whole
      <4>1. x[1] = <<f, Nothing>>
        BY <3>2 DEF Disposed, Path
      <4> QED BY <2>1, <4>1 DEF Whole
    <3>3. f \in junction \cup jsonb => f \in Whole
      BY DEF Whole
    <3>4. f \in drop => Mentioned(f) \/ f \in quiet
      BY DEF Disposed, Dropped
    <3> QED BY <2>3, <3>1, <3>2, <3>3, <3>4 DEF Accounted
  <2> QED BY <2>2, <2>3
<1> QED BY <1>1, DisposedHolds, PTL
=============================================================================
