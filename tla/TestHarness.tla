----------------------------- MODULE TestHarness -----------------------------
(***************************************************************************)
(* TestHarness::given(history).when(decision) (src/src/testing.rs), which   *)
(* unit tests of decisions use: no store, no conflict, no retry.  It is     *)
(* held against execute_async of the same decision, racing with others.     *)
(***************************************************************************)
EXTENDS Decisions

\* to_event_records: the events of a history at the positions from 1 on.
ToEventRecords(history) == [n \in 1 .. Len(history) |-> history[n]]

\* `given`: the events the test hands over, here those of p's query that the log has
\* up to position `last`, in their order.
Given(p, last) ==
  LET past == {n \in Matching(events, QueriesOf[p][1], None) : n <= last} IN
  [i \in 1 .. Cardinality(past) |->
     events[CHOOSE n \in past : Cardinality({m \in past : m <= n}) = i]]

\* Mutant of When: `process` is called with the initial state.
WhenUnfolded(p, history) == IF Accepts(p, <<{}>>) THEN "ok" ELSE "rejected"

\* `when`: the decision's only projection folds all of the history, also events its
\* query would not select, and `process` decides.
When(p, history) == IF Accepts(p, <<DOMAIN ToEventRecords(history)>>) THEN "ok" ELSE "rejected"

\* `then` or `then_err` holds of what an execution did: it went on to append p's events,
\* even if it lost against others in the end, or returned the decision's error.
Then(p, expected) == (expected = "rejected") <=> (outcome[p] = "rejected")

-----------------------------------------------------------------------------
(* Properties *)

\* A test of a decision with one projection without a clock tells what an execution decides: given the
\* events up to the last one an execution folded, without a hole, the harness accepts
\* iff that execution did, whatever was appended while it read.
HarnessAgrees ==
  \A p \in Proc :
    p \notin Timed /\ Len(QueriesOf[p]) = 1 /\ outcome[p] \in {"ok", "rejected", "condition_failed"} =>
      Then(p, When(p, Given(p, LastPosition(view[p][1]))))
=============================================================================
