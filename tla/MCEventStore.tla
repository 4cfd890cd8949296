---------------------------- MODULE MCEventStore ----------------------------
(* Values of the constants of EventStore for TLC, shared by its runs. *)
EXTENDS EventStoreRefinement, TLC

CONSTANTS p1, p2, p3, free, orphan

MCType == {"Opened", "Closed"}

MCTag == {"course:1", "course:2"}

MCIndexFile == {"opened", "closed", "course_1", "course_2"}

MCTypeFile == ("Opened" :> "opened") @@ ("Closed" :> "closed")

MCTagFile == ("course:1" :> "course_1") @@ ("course:2" :> "course_2")

\* sanitize_name turns ':' into '_' and lowers the case: two tags, one file.
CollidingTagFile == ("course:1" :> "course_1") @@ ("course:2" :> "course_1")

Opened == WithTags(NewEvent("Opened"), <<"course:1">>)
Closed == WithTags(NewEvent("Closed"), <<"course:1">>)
Other == WithTags(NewEvent("Opened"), <<"course:2">>)
Shared == WithTags(Opened, <<"course:2">>)

Item(types, tags) == [types |-> types, tags |-> tags]

ByType == <<Item(<<"Opened">>, << >>)>>
ByBoth == <<Item(<<"Opened">>, <<"course:1">>)>>
ByTags == <<Item(<< >>, <<"course:1", "course:2">>)>>
ByTypes == <<Item(<<"Opened", "Closed">>, << >>)>>
ByItems == <<Item(<<"Closed">>, << >>), Item(<< >>, <<"course:2">>)>>

\* Appends with and without a condition, also on the whole log; reads that take
\* every path.
SafetyCalls ==
  {AppendCall(<<Closed, Shared>>),
   AppendIfCall(<<Opened>>, ByBoth, None),
   AppendIfCall(<<Other, Closed>>, ByItems, 0),
   AppendIfCall(<<Closed>>, All, 1),
   ReadAll(ByTypes),
   ReadAll(ByTags),
   ReadAll(ByBoth),
   ReadLast(ByType),
   ReadCall(ByTypes, 0, 2, TRUE),
   ReadLast(All),
   ReadCall(All, 0, None, FALSE)}

\* Few calls, for the runs in which storage fails.
FaultCalls ==
  {AppendCall(<<Closed, Shared>>),
   AppendIfCall(<<Opened>>, ByBoth, None),
   ReadAll(All)}

\* An append and a condition on the same events.
ConditionCalls == {AppendIfCall(<<Opened>>, ByBoth, None)}

MCSymmetry == Permutations(Proc)
=============================================================================
