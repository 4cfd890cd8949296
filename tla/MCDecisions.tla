----------------------------- MODULE MCDecisions -----------------------------
(* Values of the constants of Decisions for TLC. *)
EXTENDS TestHarness, TLC

CONSTANTS p1, p2, p3, free, orphan

MCType == {"Opened", "Closed"}
MCTag == {"course:1"}
MCIndexFile == {"opened", "closed", "course_1"}
MCTypeFile == ("Opened" :> "opened") @@ ("Closed" :> "closed")
MCTagFile == "course:1" :> "course_1"

Opened == WithTags(NewEvent("Opened"), <<"course:1">>)
Closed == WithTags(NewEvent("Closed"), <<"course:1">>)

ByBoth == <<[types |-> <<"Opened">>, tags |-> <<"course:1">>]>>
ByTag == <<[types |-> << >>, tags |-> <<"course:1">>]>>
ByTypes == <<[types |-> <<"Opened", "Closed">>, tags |-> << >>]>>

\* Decisions on the events of the course, on its openings and its events, and
\* on the whole log.  The events of ByTag include those of ByBoth, which are
\* read before: read in the other order they may have a hole, as ByTypes has.
RacingQueriesOf == (p1 :> <<ByTag>>) @@ (p2 :> <<ByBoth, ByTag>>) @@ (p3 :> <<All>>)
RacingBatchOf == (p1 :> <<Closed>>) @@ (p2 :> <<Closed, Opened>>) @@ (p3 :> <<Opened>>)

\* All decide on the events of two types.
TypesQueriesOf == [p \in Proc |-> <<ByTypes>>]
TypesBatchOf == (p1 :> <<Opened>>) @@ (p2 :> <<Closed>>) @@ (p3 :> <<Opened>>)

\* The theorems about decisions assume it of all events.
ASSUME UnionsOfEventsAreRight == UnionsAreRight({Opened, Closed})
=============================================================================
