------------------------------ MODULE Decisions ------------------------------
(***************************************************************************)
(* execute_async (src/src/decision_model/execute.rs) over EventStore: read *)
(* the events of the decision's query, fold them, decide, append under the *)
(* condition that nothing was added behind the fold, retry when refused;   *)
(* and execute_decision_async around an operation that does the same for   *)
(* several projections with build_decision_model_nary_async.               *)
(*                                                                         *)
(* Every process executes one decision.  Its projections count the events  *)
(* they are given and `process` accepts while each count is below          *)
(* Capacity, as the enrolment commands of                                  *)
(* tests/concurrency_integration_tests.rs do.  Some decisions have         *)
(* projections that look at a clock while they fold, and are refused once  *)
(* they fold an event after a deadline.                                    *)
(***************************************************************************)
EXTENDS EventStore, SequencesExt

CONSTANTS
  QueriesOf,     \* Proc -> the queries of its projections
  BatchOf,       \* Proc -> the events it emits when it accepts
  Capacity,      \* `process` refuses from this many events on
  Timed,         \* processes whose projections are TimeAwareDecisionProjections
  Bound,         \* processes that execute through executeDecision of the JavaScript bindings
  MaxRetries,    \* the argument max_retries
  UsizeModulus   \* bound: `max_retries - 1` wraps at this number, 2^64 in a release build

ASSUME DecisionsAssumption ==
  /\ QueriesOf \in [Proc -> Seq(Query) \ {<< >>}]
  /\ BatchOf \in [Proc -> Seq(Event)]
  /\ Capacity \in Nat
  /\ Timed \subseteq Proc /\ Bound \subseteq Proc
  /\ UsizeModulus \in Nat /\ MaxRetries \in 0 .. UsizeModulus - 1

VARIABLES
  phase,    \* where execute_async is
  attempt,  \* the retry counter
  view,     \* for each projection, the positions of the events folded last
  outcome,  \* what execute_async returned
  deadline, \* length of the log when the deadline passed, None before
  beaten    \* history: for each refusal, the events that its condition forbade then

decisionVars == <<phase, attempt, view, outcome, deadline>>
allVars == <<vars, decisionVars, beaten>>

DecisionsInit ==
  /\ Init
  /\ phase = [p \in Proc |-> "ready"]
  /\ attempt = [p \in Proc |-> 0]
  /\ view = [p \in Proc |-> [i \in DOMAIN QueriesOf[p] |-> {}]]
  /\ outcome = [p \in Proc |-> "none"]
  /\ deadline = None
  /\ beaten = [p \in Proc |-> << >>]

\* Mutant of LastPosition: the end of the log instead of the last event folded.
LastPositionOfLog(positions) == IF events = << >> THEN None ELSE Max(DOMAIN events)

\* `sorted_events.last().map(|e| e.position)`
LastPosition(positions) == IF positions = {} THEN None ELSE Max(positions)

\* The query that is read: the items of all projections, one after another.
ReadQuery(p) == FlattenSeq(QueriesOf[p])

\* The items of all projections without repetition, or everything if one of
\* them selects everything.
UnionQuery(queries) ==
  IF All \in Range(queries) THEN All
  ELSE FoldLeft(LAMBDA items, it : IF Contains(items, it) THEN items ELSE Append(items, it),
                << >>, FlattenSeq(queries))

\* Mutant of ConditionQuery: the items of the first projection only.
ConditionQueryFirst(p) == QueriesOf[p][1]

\* The query of the append condition.
ConditionQuery(p) == UnionQuery(QueriesOf[p])

\* What is folded: a single projection is given all that was read, each of
\* several projections what its query matches.
Folded(p, positions) ==
  IF Len(QueriesOf[p]) = 1 THEN <<positions>>
  ELSE [i \in DOMAIN QueriesOf[p] |->
          {n \in positions : Matches(QueriesOf[p][i], events[n])}]

\* `apply` of a TimeAwareDecisionProjection reads the clock at the fold of each event:
\* a state made of no event does not know the time.
SeesDeadline(p, states) ==
  p \in Timed /\ deadline # None /\ \E i \in DOMAIN states : states[i] # {}

\* The `process` of p's decision: the events it emits, or an error if a state it is
\* given has reached the capacity or says that it is too late.
Accepts(p, states) ==
  /\ \A i \in DOMAIN QueriesOf[p] : Cardinality(states[i]) < Capacity
  /\ ~SeesDeadline(p, states)

Enter(p, ph) == phase' = [phase EXCEPT ![p] = ph]

Return(p, what) ==
  /\ outcome' = [outcome EXCEPT ![p] = what]
  /\ Enter(p, "done")

\* build_decision_model_async, or its nary form: the read of the whole query.
BuildModel(p) ==
  /\ phase[p] = "ready"
  /\ Invoke(p, ReadAll(ReadQuery(p)))
  /\ Enter(p, "reading")
  /\ UNCHANGED <<attempt, view, outcome, deadline, beaten>>

\* The read returned: an error is passed on; otherwise fold and call `process`,
\* whose error ends the execution and whose events are appended under the
\* condition of build_decision_model_from_events or its nary form.
ReadFailed(p) ==
  /\ phase[p] = "reading" /\ pc[p] = "idle" /\ result[p].status # "ok"
  /\ Return(p, result[p].status)
  /\ UNCHANGED <<vars, attempt, view, deadline, beaten>>

Decide(p) ==
  /\ phase[p] = "reading" /\ pc[p] = "idle" /\ result[p].status = "ok"
  /\ view' = [view EXCEPT ![p] = Folded(p, result[p].positions)]
  /\ IF Accepts(p, view'[p])
     THEN /\ Invoke(p, AppendIfCall(BatchOf[p], ConditionQuery(p),
                                    LastPosition(result[p].positions)))
          /\ Enter(p, "appending")
          /\ UNCHANGED outcome
     ELSE /\ Return(p, "rejected")
          /\ UNCHANGED vars
  /\ UNCHANGED <<attempt, deadline, beaten>>

\* executeDecision looks for AppendConditionFailed in the `message` of what its operation
\* was rejected with, but `append` rejects with a string, which has none.
SeesRefusal(p) == p \notin Bound

\* `attempt < max_retries - 1` in unsigned arithmetic.
MayRetry(p) == SeesRefusal(p) /\ attempt[p] < (MaxRetries - 1) % UsizeModulus

\* Mutants of Retry: the refused append is repeated without a new read; the
\* result is tested again without a new attempt.
RetryWithoutReading(p) ==
  /\ phase[p] = "appending" /\ pc[p] = "idle"
  /\ result[p].status = "condition_failed" /\ MayRetry(p)
  /\ attempt' = [attempt EXCEPT ![p] = @ + 1]
  /\ Invoke(p, call[p])
  /\ UNCHANGED <<phase, view, outcome, deadline, beaten>>

RetrySpins(p) ==
  /\ phase[p] = "appending" /\ pc[p] = "idle"
  /\ result[p].status = "condition_failed" /\ MayRetry(p)
  /\ UNCHANGED allVars

\* The append returned.
Retry(p) ==
  /\ phase[p] = "appending" /\ pc[p] = "idle"
  /\ result[p].status = "condition_failed" /\ MayRetry(p)
  /\ attempt' = [attempt EXCEPT ![p] = @ + 1]
  /\ Enter(p, "ready")
  /\ UNCHANGED <<vars, view, outcome, deadline, beaten>>

Conclude(p) ==
  /\ phase[p] = "appending" /\ pc[p] = "idle"
  /\ ~(result[p].status = "condition_failed" /\ MayRetry(p))
  /\ Return(p, result[p].status)
  /\ UNCHANGED <<vars, attempt, view, deadline, beaten>>

\* The condition of p's append has just failed.
RefusedNow(p) ==
  result[p].status # "condition_failed" /\ result'[p].status = "condition_failed"

\* A step of the store for p; what it is refused for is noted.
StoreStep(p) ==
  /\ Step(p)
  /\ beaten' = [beaten EXCEPT ![p] =
                  IF RefusedNow(p)
                  THEN Append(@, Matching(events, call[p].query, call[p].after)) ELSE @]
  /\ UNCHANGED decisionVars

DecisionStep(p) ==
  BuildModel(p) \/ ReadFailed(p) \/ Decide(p) \/ Retry(p) \/ Conclude(p) \/ StoreStep(p)

\* The clock passes the deadline; once no timed decision is under way nobody looks.
PassDeadline ==
  /\ deadline = None /\ \E p \in Timed : phase[p] # "done"
  /\ deadline' = Cardinality(DOMAIN events)
  /\ UNCHANGED <<vars, phase, attempt, view, outcome, beaten>>

\* All executions have returned.
Decided == (\A p \in Proc : phase[p] = "done") /\ UNCHANGED allVars

DecisionsNext == (\E p \in Proc : DecisionStep(p)) \/ PassDeadline \/ Decided

DecisionsSpec == DecisionsInit /\ [][DecisionsNext]_allVars

\* As long as an execution can go on, some execution is polled: that is enough, as no
\* execution goes on for ever.
DecisionsFairSpec == DecisionsSpec /\ WF_allVars(\E p \in Proc : DecisionStep(p))

-----------------------------------------------------------------------------
(* Properties *)

\* Of the events E the items of all projections together select those that one of the
\* projections does.  Query::all() has no item: if one of several projections wants
\* everything that is true of the condition, and false of what is read.
UnionsAreRight(E) ==
  \A p \in Proc : \A e \in E :
    LET selected == \E i \in DOMAIN QueriesOf[p] : Matches(QueriesOf[p][i], e) IN
      /\ Matches(ReadQuery(p), e) <=> selected
      /\ Matches(UnionQuery(QueriesOf[p]), e) <=> selected

\* p's batch is being written or has been written.
Committing(p) ==
  \/ phase[p] = "appending" /\ pc[p] \in {"write", "index"}
  \/ outcome[p] = "ok"

\* The events of p's i-th query that precede its batch.
Preceding(p, i) == {n \in Matching(events, QueriesOf[p][i], None) : n < Base(p)}

\* A decision that is written was taken on exactly the events that match its
\* queries and precede it: no event it should have seen was skipped, neither by
\* the read that took no lock nor by the condition that was checked later, and
\* each of several projections got its own events.
NoStaleDecision ==
  \A p \in Proc :
    Committing(p) => \A i \in DOMAIN QueriesOf[p] : view[p][i] = Preceding(p, i)

\* The limit the decisions enforce holds of the log whatever they race for.
CapacityRespected ==
  \A p \in Proc :
    Committing(p) => \A i \in DOMAIN QueriesOf[p] : Cardinality(Preceding(p, i)) < Capacity

\* A timed decision is never written behind an event of its queries that came after the
\* deadline: the clock is not part of the append condition, but such an event is refused
\* by it or is folded, after the deadline.
DeadlineKept ==
  deadline # None =>
    \A p \in Timed : Committing(p) =>
      \A i \in DOMAIN QueriesOf[p] : \A n \in Preceding(p, i) : n < deadline

\* An execution is never refused twice for the same event, although it reads without the
\* lock each time: what refuses an attempt has been read and folded by the next.  So one
\* that gives up lost every attempt it was granted to others that wrote meanwhile, and it
\* was granted all of them unless it executes through the bindings, which never retry.
FailureMeansContention ==
  \A p \in Proc :
    /\ \A i \in DOMAIN beaten[p] : beaten[p][i] # {}
    /\ \A i, j \in DOMAIN beaten[p] : i # j => beaten[p][i] \cap beaten[p][j] = {}
    /\ outcome[p] = "condition_failed" /\ SeesRefusal(p) => Len(beaten[p]) >= MaxRetries

\* Every execution returns.
EveryDecisionEnds == \A p \in Proc : <>(phase[p] = "done")
=============================================================================
