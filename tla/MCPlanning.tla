------------------------------ MODULE MCPlanning ------------------------------
(***************************************************************************)
(* Instances of Planning: what the user permits and what the model answers *)
(* in a few small sets. Tokens are numbers.                                *)
(***************************************************************************)
EXTENDS Planning

Price == <<"price", "LE">>
NoFields == [f \in {} |-> 0]

MCSlots == {Price}
MCConstraints == {[value |-> <<"number", 3>>, locked |-> TRUE],
                  [value |-> <<"number", 1>>, locked |-> FALSE]}
MCGrants == {[calls |-> TRUE, negotiate |-> FALSE, max |-> 1],
             [calls |-> TRUE, negotiate |-> TRUE, max |-> 2]}

Constrained(n, locked) == [s \in MCSlots |-> [value |-> <<"number", n>>, locked |-> locked]]

AskTwo == [constraints |-> NoFields, critical |-> {"where", "when"}, minor |-> {},
           policy |-> NoFields]
LockPrice == [constraints |-> Constrained(3, TRUE), critical |-> {}, minor |-> {"style"},
              policy |-> [calls |-> TRUE, max |-> 2, negotiate |-> FALSE]]
Lower == [constraints |-> Constrained(1, FALSE), critical |-> {"when"}, minor |-> {"where"},
          policy |-> [calls |-> TRUE, max |-> 3]]
MCDrafts == {AskTwo, LockPrice, Lower}

Strategy(axis, words) == [axis |-> axis, words |-> words]
Fast == Strategy("time", {1, 2})
Cheap == Strategy("cost", {3, 4})
Safe == Strategy("risk", {5, 6})
Quick == Strategy("speed", {1, 2, 7})
Sooner == Strategy("time", {8})
Near == Strategy("place", {9})
Calm == Strategy("noise", {10})
Small == Strategy("size", {11})
MCStrategyAnswers ==
  {<<Fast, Cheap, Quick, Safe>>, <<Fast, Sooner, Cheap>>,
   <<Safe, Cheap, Near, Calm, Small, Fast>>}

Specialist(name, owns, needs) ==
  [name |-> name, owns |-> owns, needs |-> needs, mentions |-> {}, acceptable |-> TRUE]
Scout == Specialist("scout", {1, 2}, {})
Buyer == Specialist("buyer", {3, 4}, {"scout"})
Double == Specialist("double", {1, 2, 5}, {"clerk"})
Clerk == Specialist("clerk", {6}, {"double"})
Lone == Specialist("lone", {7}, {})
Boss == Specialist("orchestrator", {8}, {})
MCSwarmAnswers ==
  {<<Scout, Buyer, Lone>>,                  \* runs
   <<Scout, Double, Clerk, Buyer, Lone>>,   \* scout takes double, and waits for clerk
   <<Boss, Clerk, [Double EXCEPT !.needs = {}], Buyer, Scout, [Lone EXCEPT !.needs = {"nobody"}]>>}

Entity(source, name, phone, site, attributes) ==
  [source |-> source, name |-> name, phone |-> phone, site |-> site,
   attributes |-> attributes, stated |-> NoFields]
At(n) == [k \in {"price"} |-> <<"number", n>>]
MCFinds ==
  {<<Entity("r1", "Ace", "+1", Nothing, At(2)), Entity("r2", "Bee", "555", "ace", NoFields),
     Entity("r3", "Ace Ltd", "+1", "ace", At(1))>>,
   <<Entity("r1", "Bee", "+2", Nothing, At(4)), Entity("r1", "Cee", "3", Nothing, At(2)),
     [Entity("r3", "Dee", "+4", Nothing, [k \in {"price"} |-> <<"text", "low">>]) EXCEPT
        !.stated = At(2)], Entity("r9", "Eff", "+5", Nothing, NoFields)>>}
Call(pattern, impact, redundancy, prohibited) ==
  [pattern |-> pattern, prohibited |-> prohibited,
   factors |-> [mission_impact |-> impact, value |-> impact, redundancy |-> redundancy,
                call_cost |-> 1]]
MCCallAnswers ==
  {Call("NEGOTIATION_ROUND", 6, 2, FALSE), Call("ONE_SHOT", 9, 9, FALSE),
   Call("CASCADE", 9, 0, TRUE)}

MCBands == <<[upper |-> 4, cap |-> 2], [upper |-> 9, cap |-> 3]>>
==============================================================================
