---------------------------- MODULE DecisionProofs ----------------------------
(***************************************************************************)
(* Decisions over the event store: proofs that a decision is written only  *)
(* on the events it was taken on, that it keeps its limit and its deadline, *)
(* that one that gives up was refused for another event each time, and     *)
(* that the test harness agrees, for any racing executions.                *)
(*                                                                         *)
(* An execution is a caller of the event store, so that what is proved of  *)
(* reads and appends holds of it.  Three facts about a read make a view    *)
(* that can be decided on: it matches, it has no hole, and it misses none  *)
(* of the events that refused the attempt before.  The condition of the    *)
(* append then carries the view to the place where the batch is written.   *)
(***************************************************************************)
EXTENDS TestHarness, ReadProofs

\* What executions call.  Calls occurs in Spec, and not in DecisionsSpec.
ExecutionsAreCalls ==
  \A p \in Proc :
    /\ ReadAll(ReadQuery(p)) \in Calls
    /\ \A after \in Nat \cup {None} :
         AppendIfCall(BatchOf[p], ConditionQuery(p), after) \in Calls

ReadsAreNested == \A p \in Proc : Nested(ReadQuery(p))

-----------------------------------------------------------------------------
(* The invariant *)

\* What is known of the store.
StoreFacts ==
  Inv3 /\ \A p \in Proc : ReadSound(p) /\ ReadClosed(p) /\ ReadFresh(p)

DecisionTypes ==
  /\ phase \in [Proc -> {"ready", "reading", "appending", "done"}]
  /\ attempt \in [Proc -> Nat]
  /\ DOMAIN view = Proc /\ DOMAIN outcome = Proc
  /\ deadline \in Nat \cup {None}
  /\ beaten \in [Proc -> Seq(SUBSET Nat)]

\* p's batch is on its way into the log, or has been written.
Writes(p) == phase[p] = "appending" \/ outcome[p] = "ok"

HasDecided(p) == phase[p] = "appending" \/ outcome[p] \in {"ok", "condition_failed", "rejected"}

\* The calls p makes in its phases.
PhaseOf(p) ==
  /\ phase[p] \in {"ready", "done"} => pc[p] = "idle"
  /\ phase[p] = "reading" => call[p] = ReadAll(ReadQuery(p)) /\ result[p].status # "condition_failed"
  /\ Writes(p) => \E after \in Nat \cup {None} :
                    call[p] = AppendIfCall(BatchOf[p], ConditionQuery(p), after)
  /\ phase[p] # "done" => outcome[p] = "none"
  /\ outcome[p] = "ok" => result[p].status = "ok"

\* p's projections were given what their queries match up to `last`.
Viewed(p, last) ==
  \A i \in DOMAIN QueriesOf[p] :
    view[p][i] = {n \in Matching(events, QueriesOf[p][i], None) : n <= last}

ViewOf(p) ==
  /\ HasDecided(p) => \E last \in DOMAIN events \cup {None} : Viewed(p, last)
  /\ Writes(p) => call[p].after \in DOMAIN events \cup {None} /\ Viewed(p, call[p].after)

BelowCapacity(p) == \A i \in DOMAIN QueriesOf[p] : Cardinality(view[p][i]) < Capacity

VerdictOf(p) ==
  /\ Writes(p) \/ outcome[p] = "condition_failed" => BelowCapacity(p)
  /\ outcome[p] = "rejected" /\ p \notin Timed => ~BelowCapacity(p)
  /\ Writes(p) /\ p \in Timed /\ deadline # None =>
       \A i \in DOMAIN QueriesOf[p] : \A n \in view[p][i] : n < deadline

\* The batch goes behind the view.
BehindView(p) == Writes(p) /\ pc[p] \notin {"acquire", "unlink", "scan"} => call[p].after < Base(p)

Refused(p) == phase[p] = "appending" /\ result[p].status = "condition_failed"

\* All events that p was refused for.
Lost(p) == UNION {beaten[p][i] : i \in DOMAIN beaten[p]}

\* What p was refused for is settled and seen by its next read, so the next condition
\* begins behind it.
LostTo(p) ==
  phase[p] # "done" =>
    /\ Len(beaten[p]) = attempt[p] + (IF Refused(p) THEN 1 ELSE 0)
    /\ Lost(p) \subseteq Matching(events, ConditionQuery(p), None)
    /\ phase[p] = "ready" \/ Refused(p) => Lost(p) \subseteq Settled
    /\ phase[p] = "reading" => \A n \in Lost(p) : n < floor[p]
    /\ phase[p] = "appending" /\ ~Refused(p) => \A n \in Lost(p) : n <= call[p].after

\* Each refusal of p has events of its own.
Parted(refusals) ==
  /\ \A i \in DOMAIN refusals : refusals[i] # {}
  /\ \A i, j \in DOMAIN refusals : i # j => refusals[i] \cap refusals[j] = {}

GivesUp(p) ==
  /\ Parted(beaten[p])
  /\ outcome[p] = "condition_failed" /\ SeesRefusal(p) => Len(beaten[p]) >= MaxRetries

DecisionInv(p) ==
  PhaseOf(p) /\ ViewOf(p) /\ VerdictOf(p) /\ BehindView(p) /\ LostTo(p) /\ GivesUp(p)

Inv5 == DecisionTypes /\ \A p \in Proc : DecisionInv(p)

-----------------------------------------------------------------------------
(* The event store, as an execution sees it *)

\* The fold ends at an event of the view, or there is none.
LEMMA LastPositionIsLast ==
  ASSUME Inv2, NEW S \in SUBSET DOMAIN events
  PROVE  /\ LastPosition(S) \in DOMAIN events \cup {None}
         /\ \A n \in S : n <= LastPosition(S)
         /\ S # {} => LastPosition(S) \in S
         /\ S = {} => LastPosition(S) = None
<1>1. DOMAIN events = 0 .. End - 1 /\ End \in Nat
  BY LogFacts DEF Inv2
<1>2. CASE S = {}
  BY <1>2 DEF LastPosition
<1>3. CASE S # {}
  <2>1. \E x \in S : \A y \in S : y <= x
    BY <1>1, <1>3, GreatestBelow
  <2>2. \E x \in S : \A y \in S : x >= y
    BY <1>1, <2>1
  <2>3. Max(S) \in S /\ \A y \in S : Max(S) >= y
    BY <2>2 DEF Max
  <2> QED
    BY <1>1, <1>3, <2>3 DEF LastPosition
<1> QED
  BY <1>2, <1>3

\* Up to a position that is taken the events that match stay the same; others are added.
LEMMA MatchingStays ==
  ASSUME Inv2, [Next]_vars, NEW q, NEW after
  PROVE  /\ Matching(events, q, after) \subseteq Matching(events', q, after)
         /\ \A last \in DOMAIN events \cup {None} :
              {n \in Matching(events', q, after) : n <= last}
                = {n \in Matching(events, q, after) : n <= last}
         /\ DOMAIN events \subseteq DOMAIN events'
<1>1. DOMAIN events = 0 .. End - 1 /\ End \in Nat
  BY LogFacts DEF Inv2
<1>2. \A last \in DOMAIN events \cup {None} : ~(End <= last)
  BY <1>1 DEF None
<1>3. \A n \in DOMAIN events : n \in DOMAIN events' /\ events'[n] = events[n]
  BY StepKeepsEvents DEF Inv2
<1>4. \A n \in DOMAIN events' : n \in DOMAIN events \/ n = End
  BY LogGrowsAtItsEnd DEF Inv2
<1> QED
  BY <1>2, <1>3, <1>4 DEF Matching

\* A call begins with a `floor` above whatever was settled.
LEMMA FloorAboveSettled ==
  ASSUME Inv3
  PROVE  \A n \in Settled : n < Cardinality(Settled)
<1>1. DOMAIN events = 0 .. End - 1 /\ End \in Nat
  BY LogFacts DEF Inv3, Inv2
<1>2. \A p \in Proc : pc[p] \in {"write", "index"} => lock = p /\ Base(p) \in Int
  <2> TAKE p \in Proc
  <2>1. rest[p] \in Seq(Event) /\ call[p].batch \in Seq(Event) /\ seq[p] \in Nat
    BY DEF Inv3, Inv2, Inv1, TypeOK, Call
  <2>2. Len(rest[p]) \in Nat /\ Len(call[p].batch) \in Nat
    BY <2>1, LenProperties
  <2>3. Base(p) \in Int
    <3>1. \A s, b, r \in Nat : s - (b - r) \in Int
      OBVIOUS
    <3> QED
      BY <2>1, <2>2, <3>1 DEF Base
  <2> QED
    BY <2>3 DEF Inv3, Inv2, SequenceReserved, LockHeld, Appending
<1>3. CASE \A p \in Proc : pc[p] \notin {"write", "index"}
  <2>1. Settled = 0 .. End - 1
    BY <1>1, <1>3 DEF Settled
  <2>2. Cardinality(Settled) = End
    BY <1>1, <2>1, FS_Interval
  <2> QED
    BY <1>1, <2>1, <2>2
<1>4. ASSUME NEW p \in Proc, pc[p] \in {"write", "index"}
      PROVE  \A n \in Settled : n < Cardinality(Settled)
  <2>1. \A q \in Proc : pc[q] \in {"write", "index"} => q = p
    BY <1>2, <1>4
  <2>2. Settled = {n \in 0 .. End - 1 : n < Base(p)}
    BY <1>1, <1>4, <2>1 DEF Settled
  <2>3. \E m \in Nat : Settled = 0 .. m - 1
    <3>1. Base(p) \in Int
      BY <1>2, <1>4
    <3>2. CASE Base(p) <= 0
      <4>1. Settled = 0 .. 0 - 1
        BY <2>2, <3>1, <3>2
      <4> QED
        BY <4>1
    <3>3. CASE Base(p) > 0 /\ Base(p) <= End
      <4>1. Settled = 0 .. Base(p) - 1
        BY <1>1, <2>2, <3>1, <3>3
      <4> QED
        BY <3>1, <3>3, <4>1
    <3>4. CASE Base(p) > End
      <4>1. Settled = 0 .. End - 1
        BY <1>1, <2>2, <3>1, <3>4
      <4> QED
        BY <1>1, <4>1
    <3> QED
      BY <1>1, <3>1, <3>2, <3>3, <3>4
  <2>4. PICK m \in Nat : Settled = 0 .. m - 1
    BY <2>3
  <2>5. Cardinality(Settled) = m
    BY <2>4, FS_Interval
  <2> QED
    BY <2>4, <2>5
<1> QED
  BY <1>3, <1>4

\* What a step of the code does to what an execution knows of its call.
LEMMA StoreStepOf ==
  ASSUME IndexStorageReliable, Inv3, NEW p \in Proc, Step(p)
  PROVE  /\ UNCHANGED <<call, floor>>
         /\ pc[p] # "idle"
         /\ pc'[p] \in {"acquire", "unlink", "scan"} <=> pc[p] \in {"acquire", "unlink"}
         /\ pc[p] = "scan" => events' = events /\ rest' = rest /\ seq'[p] = End
         /\ pc[p] # "scan" => Base(p)' = Base(p)
         /\ pc'[p] \in {"write", "index"} =>
              \/ pc[p] \in {"scan", "write", "index"}
              \/ pc[p] = "load" /\ call[p].op # "read"
         /\ \/ result'[p] = result[p]
            \/ result'[p].status = "ok" /\ (pc[p] = "write" \/ call[p].op = "read")
            \/ result'[p].status = "io_error" /\ pc[p] \in {"load", "write"}
            \/ /\ result'[p].status = "condition_failed" /\ pc[p] = "load"
               /\ call[p].op # "read" /\ events' = events /\ pc'[p] = "release"
<1>1. TypeOK /\ SeqInRange
  BY DEF Inv3, Inv2, Inv1
<1>2. UNCHANGED <<call, seq, rest>> => Base(p)' = Base(p)
  BY DEF Base
<1> USE DEF TypeOK, Go, Finish
<1>3. CASE AcquireLock(p) \/ JudgeLock(p) \/ BreakLock(p) \/ ReleaseLock(p)
  BY <1>1, <1>2, <1>3 DEF AcquireLock, JudgeLock, BreakLock, ReleaseLock
<1>4. CASE ScanEvents(p, FALSE)
  BY <1>1, <1>4 DEF ScanEvents, store, End
<1>5. CASE ListEvents(p, FALSE) \/ ReadIndex(p, FALSE) \/ ResolveItem(p)
  BY <1>1, <1>2, <1>5 DEF ListEvents, ReadIndex, ResolveItem
<1>6. ASSUME NEW failed \in BOOLEAN, LoadEvents(p, failed)
      PROVE  /\ UNCHANGED <<call, floor, seq, rest, events>>
             /\ pc[p] = "load" /\ pc'[p] \in {"idle", "release", "write"}
             /\ pc'[p] = "write" => call[p].op # "read"
             /\ \/ result'[p] = result[p]
                \/ result'[p].status = "ok" /\ call[p].op = "read"
                \/ result'[p].status = "io_error"
                \/ /\ result'[p].status = "condition_failed"
                   /\ call[p].op # "read" /\ pc'[p] = "release"
  BY <1>1, <1>6 DEF LoadEvents, store
<1>7. CASE WriteEvent(p) \/ UpdateIndex(p, FALSE)
  BY <1>1, <1>2, <1>7 DEF WriteEvent, UpdateIndex
<1>11. CASE FinishBatch(p)
  BY <1>1, <1>2, <1>11 DEF FinishBatch
<1>12. CASE EventWriteFails(p)
  BY <1>1, <1>2, <1>12 DEF EventWriteFails
<1>8. CASE NextEvent(p)
  <2>1. /\ UNCHANGED <<call, floor, result>> /\ pc[p] = "index" /\ pc'[p] = "write"
        /\ seq'[p] = seq[p] + 1 /\ rest'[p] = Tail(rest[p])
    BY <1>1, <1>8 DEF NextEvent
  <2>2. rest[p] \in Seq(Event) /\ rest[p] # << >> /\ seq[p] \in Nat /\ call[p].batch \in Seq(Event)
    BY <1>1, <2>1 DEF SeqInRange, Call
  <2>3. Len(rest'[p]) = Len(rest[p]) - 1 /\ Len(rest[p]) \in Nat /\ Len(call[p].batch) \in Nat
    BY <2>1, <2>2, HeadTailProperties, LenProperties
  <2>4. \A s, b, r \in Nat : (s + 1) - (b - (r - 1)) = s - (b - r)
    OBVIOUS
  <2>5. Base(p)' = Base(p)
    <3>1. Base(p)' = (seq[p] + 1) - (Len(call[p].batch) - (Len(rest[p]) - 1))
      BY <2>1, <2>3 DEF Base
    <3> QED
      BY <2>2, <2>3, <2>4, <3>1 DEF Base
  <2> QED
    BY <2>1, <2>5
<1> HIDE DEF TypeOK, Go, Finish
<1>9. CASE \E failed \in BOOLEAN : LoadEvents(p, failed)
  BY <1>2, <1>6, <1>9
<1>10. \A failed \in BOOLEAN : failed = TRUE \/ failed = FALSE
  OBVIOUS
<1> QED
  BY <1>3, <1>4, <1>5, <1>7, <1>8, <1>9, <1>10, <1>11, <1>12, NoIndexFaults DEF Step

\* What was settled stays settled: a batch begins at the end of the log.
LEMMA SettledStays ==
  ASSUME IndexStorageReliable, Inv3, [Next]_vars,
         \A p \in Proc : pc[p] \in {"resolve", "load"} => call[p].op # "append"
  PROVE  Settled \subseteq Settled'
<1>1. TypeOK /\ DOMAIN events = 0 .. End - 1 /\ End \in Nat
  BY LogFacts DEF Inv3, Inv2, Inv1
<1>2. DOMAIN events \subseteq DOMAIN events'
  BY MatchingStays DEF Inv3
<1>3. ASSUME NEW n \in Settled, NEW p \in Proc, pc'[p] \in {"write", "index"}
      PROVE  n < Base(p)'
  <2>1. n \in DOMAIN events /\ (pc[p] \in {"write", "index"} => n < Base(p))
    BY <1>3 DEF Settled
  <2>2. CASE UNCHANGED Locals(p)
    BY <1>3, <2>1, <2>2 DEF Locals, Base
  <2>3. ASSUME NEW c \in Calls, Invoke(p, c)
        PROVE  FALSE
    BY <1>1, <1>3, <2>3 DEF Invoke, Go, TypeOK
  <2>4. CASE Step(p)
    <3>1. ASSUME Len(rest[p]) = Len(call[p].batch), seq[p] = End
          PROVE  Base(p) = End
      <4>1. rest[p] \in Seq(Event)
        BY <1>1 DEF TypeOK
      <4>2. Len(rest[p]) \in Nat
        BY <4>1, LenProperties
      <4>3. \A e, l \in Nat : e - (l - l) = e
        OBVIOUS
      <4> QED
        BY <1>1, <3>1, <4>2, <4>3 DEF Base
    <3>2. CASE pc[p] = "scan"
      <4>1. rest' = rest /\ seq'[p] = End /\ call' = call /\ rest[p] = call[p].batch
        BY <2>4, <3>2, StoreStepOf DEF Inv3, Progress
      <4>2. rest[p] \in Seq(Event)
        BY <1>1 DEF TypeOK
      <4>3. Len(rest[p]) \in Nat
        BY <4>2, LenProperties
      <4>4. \A e, l \in Nat : e - (l - l) = e
        OBVIOUS
      <4>5. Base(p)' = End - (Len(rest[p]) - Len(rest[p]))
        BY <4>1 DEF Base
      <4> QED
        BY <1>1, <2>1, <4>3, <4>4, <4>5
    <3>3. CASE pc[p] = "load" /\ call[p].op # "read"
      <4>1. call[p].op = "append_if"
        BY <1>1, <3>3 DEF TypeOK, Call
      <4>2. rest[p] = call[p].batch /\ seq[p] = End
        BY <3>3, <4>1 DEF Inv3, Inv2, Progress, Checking, SequenceReserved, SequenceFresh, Appending, End
      <4>3. Base(p) = End /\ Base(p)' = Base(p)
        BY <2>4, <3>1, <3>3, <4>2, StoreStepOf
      <4> QED
        BY <1>1, <2>1, <4>3
    <3>4. CASE pc[p] \in {"write", "index"}
      BY <2>1, <2>4, <3>4, StoreStepOf
    <3> QED
      BY <1>3, <2>4, <3>2, <3>3, <3>4, StoreStepOf
  <2> QED
    BY <1>1, <2>2, <2>3, <2>4, OwnOrOther, NoIndexFaults DEF Acts
<1> QED
  BY <1>2, <1>3 DEF Settled

-----------------------------------------------------------------------------
(* Steps that leave an execution alone *)

\* The events that match are finitely many, and none disappears.
LEMMA MatchingIsFinite ==
  ASSUME Inv3, [Next]_vars, NEW q, NEW after
  PROVE  /\ IsFiniteSet(Matching(events, q, after)) /\ IsFiniteSet(Matching(events', q, after))
         /\ Cardinality(Matching(events, q, after)) \in Nat
         /\ Cardinality(Matching(events', q, after)) \in Nat
         /\ Cardinality(Matching(events, q, after)) <= Cardinality(Matching(events', q, after))
<1>1. IsFiniteSet(DOMAIN events)
  BY DEF Inv3, Inv2, Inv1, TypeOK
<1>2. IsFiniteSet(DOMAIN events')
  <2>1. IsFiniteSet(DOMAIN events \cup {End})
    BY <1>1, FS_AddElement
  <2> QED
    BY <1>1, <2>1, LogGrowsAtItsEnd DEF Inv3, Inv2
<1>3. /\ Matching(events, q, after) \in SUBSET DOMAIN events
      /\ Matching(events', q, after) \in SUBSET DOMAIN events'
  BY DEF Matching
<1>4. IsFiniteSet(Matching(events, q, after)) /\ IsFiniteSet(Matching(events', q, after))
  BY <1>1, <1>2, <1>3, FS_Subset
<1>5. Matching(events, q, after) \in SUBSET Matching(events', q, after)
  BY MatchingStays DEF Inv3
<1> QED
  BY <1>4, <1>5, FS_Subset, FS_CardinalityType

SameDecision(p) == UNCHANGED <<phase[p], attempt[p], view[p], outcome[p], beaten[p]>>

LEMMA DecisionStays ==
  ASSUME Inv3, [Next]_vars, Settled \subseteq Settled', NEW p \in Proc, DecisionInv(p),
         UNCHANGED Locals(p), floor'[p] = floor[p], SameDecision(p), deadline' = deadline
  PROVE  DecisionInv(p)'
<1>1. /\ pc'[p] = pc[p] /\ call'[p] = call[p] /\ result'[p] = result[p] /\ Base(p)' = Base(p)
      /\ phase'[p] = phase[p] /\ attempt'[p] = attempt[p] /\ view'[p] = view[p]
      /\ outcome'[p] = outcome[p] /\ beaten'[p] = beaten[p] /\ Lost(p)' = Lost(p)
  BY DEF Locals, Base, SameDecision, Lost
<1>2. PhaseOf(p)'
  BY <1>1 DEF DecisionInv, PhaseOf, Writes
<1>3. \A last \in DOMAIN events \cup {None} : Viewed(p, last) => Viewed(p, last)'
  BY <1>1, MatchingStays DEF Viewed, Inv3
<1>4. ViewOf(p)'
  <2>1. DOMAIN events \subseteq DOMAIN events'
    BY MatchingStays DEF Inv3
  <2> QED
    BY <1>1, <1>3, <2>1 DEF DecisionInv, ViewOf, Writes, HasDecided
<1>5. VerdictOf(p)'
  BY <1>1 DEF DecisionInv, VerdictOf, Writes, BelowCapacity
<1>6. BehindView(p)'
  BY <1>1 DEF DecisionInv, BehindView, Writes
<1>7. LostTo(p)'
  <2>1. Matching(events, ConditionQuery(p), None) \subseteq Matching(events', ConditionQuery(p), None)
    BY MatchingStays DEF Inv3
  <2>2. Refused(p)' <=> Refused(p)
    BY <1>1 DEF Refused
  <2> QED
    BY <1>1, <2>1, <2>2 DEF DecisionInv, LostTo
<1>8. GivesUp(p)'
  BY <1>1 DEF DecisionInv, GivesUp
<1> QED
  BY <1>2, <1>4, <1>5, <1>6, <1>7, <1>8 DEF DecisionInv

-----------------------------------------------------------------------------
(* Steps of an execution itself *)

\* One more refusal, for events that refused nothing before.
LEMMA OneMoreRefusal ==
  ASSUME NEW refusals \in Seq(SUBSET Nat), NEW S \in SUBSET Nat
  PROVE  /\ Append(refusals, S) \in Seq(SUBSET Nat)
         /\ Len(Append(refusals, S)) = Len(refusals) + 1
         /\ UNION {Append(refusals, S)[i] : i \in DOMAIN Append(refusals, S)}
              = S \cup UNION {refusals[i] : i \in DOMAIN refusals}
         /\ /\ Parted(refusals) /\ S # {}
            /\ S \cap UNION {refusals[i] : i \in DOMAIN refusals} = {}
            => Parted(Append(refusals, S))
<1> DEFINE more == Append(refusals, S)
           last == Len(refusals) + 1
<1>1. more \in Seq(SUBSET Nat) /\ Len(more) = last
  BY AppendProperties
<1>2. DOMAIN more = DOMAIN refusals \cup {last}
  BY <1>1, LenProperties
<1>3. last \notin DOMAIN refusals /\ more[last] = S /\ \A i \in DOMAIN refusals : more[i] = refusals[i]
  BY AppendProperties, LenProperties
<1> HIDE DEF more, last
<1>4. UNION {more[i] : i \in DOMAIN more} = S \cup UNION {refusals[i] : i \in DOMAIN refusals}
  BY <1>2, <1>3
<1>5. ASSUME Parted(refusals), S # {},
             S \cap UNION {refusals[i] : i \in DOMAIN refusals} = {}
      PROVE  Parted(more)
  BY <1>2, <1>3, <1>5 DEF Parted
<1> QED
  BY <1>1, <1>4, <1>5 DEF more, last

\* Reading and appending: a view is not changed by what is added behind it, and an append
\* that is refused was refused for an event behind all those that refused it before.
LEMMA CallKeepsDecision ==
  ASSUME IndexStorageReliable, Inv3, Inv3', Settled \subseteq Settled', DecisionTypes,
         NEW p \in Proc, StoreStep(p), ReadSound(p)', DecisionInv(p)
  PROVE  DecisionInv(p)'
<1>1. /\ call' = call /\ floor' = floor /\ UNCHANGED <<phase, attempt, view, outcome, deadline>>
      /\ [Next]_vars /\ Inv2 /\ TypeOK /\ Progress(p) /\ Step(p)
  BY StoreStepOf DEF StoreStep, decisionVars, Next, Inv3, Inv2, Inv1
<1>10. /\ beaten[p] \in Seq(SUBSET Nat)
       /\ RefusedNow(p) =>
            beaten'[p] = Append(beaten[p], Matching(events, call[p].query, call[p].after))
       /\ ~RefusedNow(p) => beaten'[p] = beaten[p] /\ Lost(p)' = Lost(p)
  BY DEF StoreStep, DecisionTypes, Lost
<1>2. phase[p] \in {"reading", "appending"} /\ outcome[p] = "none"
  BY <1>1, StoreStepOf DEF DecisionInv, PhaseOf, DecisionTypes
<1>9. Writes(p) => /\ call[p].op = "append_if" /\ call[p].query = ConditionQuery(p)
                   /\ call[p].after \in DOMAIN events \cup {None}
  <2>1. \A after : /\ AppendIfCall(BatchOf[p], ConditionQuery(p), after).op = "append_if"
                  /\ AppendIfCall(BatchOf[p], ConditionQuery(p), after).query = ConditionQuery(p)
    BY DEF AppendIfCall
  <2> QED
    BY <2>1, Zenon DEF DecisionInv, PhaseOf, ViewOf
<1>3. PhaseOf(p)'
  <2>1. phase[p] = "reading" => result'[p].status # "condition_failed"
    BY <1>1, StoreStepOf DEF DecisionInv, PhaseOf, ReadAll, ReadCall
  <2> QED
    BY <1>1, <1>2, <2>1 DEF DecisionInv, PhaseOf, Writes
<1>4. ViewOf(p)'
  <2>1. /\ DOMAIN events \subseteq DOMAIN events'
        /\ \A last \in DOMAIN events \cup {None} : Viewed(p, last) => Viewed(p, last)'
    BY <1>1, MatchingStays DEF Viewed
  <2> QED
    BY <1>1, <2>1 DEF DecisionInv, ViewOf, Writes, HasDecided
<1>5. VerdictOf(p)'
  BY <1>1 DEF DecisionInv, VerdictOf, Writes, BelowCapacity
<1>6. BehindView(p)'
  <2> SUFFICES ASSUME phase[p] = "appending", pc'[p] \notin {"acquire", "unlink", "scan"}
               PROVE  call[p].after < Base(p)'
    BY <1>1, <1>2 DEF BehindView, Writes
  <2>1. CASE pc[p] \notin {"acquire", "unlink", "scan"}
    BY <1>1, <2>1, StoreStepOf DEF DecisionInv, BehindView, Writes
  <2>2. CASE pc[p] = "scan"
    <3>1. rest'[p] = call[p].batch /\ seq'[p] = End
      BY <1>1, <2>2, StoreStepOf DEF Inv3, Progress
    <3>2. DOMAIN events = 0 .. End - 1 /\ End \in Nat
      BY <1>1, LogFacts DEF Inv2
    <3>3. call[p].batch \in Seq(Event)
      BY <1>1 DEF TypeOK, Call
    <3>4. Len(call[p].batch) \in Nat
      BY <3>3, LenProperties
    <3>5. \A e, l \in Nat : e - (l - l) = e
      OBVIOUS
    <3>6. Base(p)' = End - (Len(call[p].batch) - Len(call[p].batch))
      BY <1>1, <3>1 DEF Base
    <3>7. call[p].after \in DOMAIN events \cup {None}
      BY DEF DecisionInv, ViewOf, Writes
    <3> QED
      BY <3>2, <3>4, <3>5, <3>6, <3>7 DEF None
  <2>3. CASE pc[p] \in {"acquire", "unlink"}
    BY <1>1, <2>3, StoreStepOf
  <2> QED
    BY <2>1, <2>2, <2>3
<1>7. LostTo(p)' /\ Parted(beaten[p])'
  <2>1. /\ Len(beaten[p]) = attempt[p] + (IF Refused(p) THEN 1 ELSE 0)
        /\ Lost(p) \subseteq Matching(events, ConditionQuery(p), None)
        /\ phase[p] = "ready" \/ Refused(p) => Lost(p) \subseteq Settled
        /\ phase[p] = "reading" => \A n \in Lost(p) : n < floor[p]
        /\ phase[p] = "appending" /\ ~Refused(p) => \A n \in Lost(p) : n <= call[p].after
        /\ Parted(beaten[p])
    BY <1>2 DEF DecisionInv, LostTo, GivesUp
  <2>2. Lost(p) \subseteq Matching(events', ConditionQuery(p), None)
    BY <1>1, <2>1, MatchingStays
  <2>3. CASE phase[p] = "reading"
    <3>1. ~RefusedNow(p)
      BY <1>1, <1>3, <2>3 DEF PhaseOf, RefusedNow
    <3> QED
      BY <1>1, <1>10, <2>1, <2>2, <2>3, <3>1 DEF LostTo, Refused
  <2>4. CASE phase[p] = "appending" /\ Refused(p)
    <3>1. pc[p] = "release"
      BY <1>1, <2>4, StoreStepOf DEF Refused, Progress
    <3>2. result'[p] = result[p]
      BY <1>1, <1>9, <2>4, <3>1, StoreStepOf DEF Writes
    <3>3. Refused(p)' /\ ~RefusedNow(p)
      BY <1>1, <2>4, <3>2 DEF Refused, RefusedNow
    <3> QED
      BY <1>1, <1>10, <2>1, <2>2, <2>4, <3>3 DEF LostTo
  <2>5. CASE phase[p] = "appending" /\ ~Refused(p) /\ ~Refused(p)'
    <3>1. ~RefusedNow(p)
      BY <1>1, <2>5 DEF Refused, RefusedNow
    <3> QED
      BY <1>1, <1>10, <2>1, <2>2, <2>5, <3>1 DEF LostTo
  <2>6. CASE phase[p] = "appending" /\ ~Refused(p) /\ Refused(p)'
    <3>1. /\ result'[p].status = "condition_failed" /\ pc[p] = "load" /\ call[p].op # "read"
          /\ events' = events /\ pc'[p] = "release" /\ RefusedNow(p)
      BY <1>1, <2>6, StoreStepOf DEF Refused, RefusedNow
    <3>2. /\ call[p].query = ConditionQuery(p)
          /\ call[p].after \in DOMAIN events \cup {None}
      BY <1>9, <2>6 DEF Writes
    <3> DEFINE S == Matching(events, ConditionQuery(p), call[p].after)
    <3>3. S # {}
      BY <1>1, <3>1, <3>2 DEF ReadSound, ResultSound
    <3>4. DOMAIN events = 0 .. End - 1 /\ End \in Nat
      BY <1>1, LogFacts DEF Inv2
    <3>5. S \in SUBSET Nat /\ S \subseteq Matching(events, ConditionQuery(p), None)
      BY <3>2, <3>4 DEF Matching, None
    <3>6. S \cap Lost(p) = {}
      BY <2>1, <2>6, <3>2, <3>4 DEF Matching, None
    <3>7. /\ Len(beaten'[p]) = Len(beaten[p]) + 1 /\ Lost(p)' = S \cup Lost(p)
          /\ Parted(beaten'[p])
      <4>1. beaten'[p] = Append(beaten[p], S)
        BY <1>10, <3>1, <3>2
      <4>2. Lost(p)' = UNION {beaten'[p][i] : i \in DOMAIN beaten'[p]}
        BY DEF Lost
      <4> HIDE DEF S
      <4>3. S \cap UNION {beaten[p][i] : i \in DOMAIN beaten[p]} = {}
        BY <3>6 DEF Lost
      <4>4. /\ Len(Append(beaten[p], S)) = Len(beaten[p]) + 1
            /\ UNION {Append(beaten[p], S)[i] : i \in DOMAIN Append(beaten[p], S)}
                 = S \cup UNION {beaten[p][i] : i \in DOMAIN beaten[p]}
            /\ Parted(Append(beaten[p], S))
        BY <1>10, <2>1, <3>3, <3>5, <4>3, OneMoreRefusal
      <4>5. Lost(p)' = S \cup Lost(p)
        BY <4>1, <4>2, <4>4 DEF Lost
      <4> QED
        BY <4>1, <4>4, <4>5
    <3> HIDE DEF S
    <3>8. Settled' = DOMAIN events
      <4>1. \A q \in Proc : pc'[q] \notin {"write", "index"}
        BY <3>1, Zenon DEF Inv3, Inv2, SequenceReserved, LockHeld, Appending
      <4> QED
        BY <3>1, <4>1 DEF Settled
    <3>9. Lost(p)' \subseteq Matching(events, ConditionQuery(p), None) /\ Lost(p)' \subseteq DOMAIN events
      BY <2>1, <3>5, <3>7 DEF Matching
    <3>10. Len(beaten'[p]) = attempt[p] + 1
      BY <2>1, <2>6, <3>7 DEF DecisionTypes
    <3> QED
      BY <1>1, <2>6, <3>1, <3>7, <3>8, <3>9, <3>10 DEF LostTo
  <2> QED
    BY <1>2, <2>3, <2>4, <2>5, <2>6
<1>8. GivesUp(p)'
  BY <1>1, <1>2, <1>7 DEF GivesUp
<1> QED
  BY <1>3, <1>4, <1>5, <1>6, <1>7, <1>8 DEF DecisionInv

\* The read that begins an attempt finds every event that was settled.
LEMMA BuildModelKeeps ==
  ASSUME Inv3, DecisionTypes, NEW p \in Proc, BuildModel(p), DecisionInv(p)
  PROVE  DecisionInv(p)'
<1>1. /\ phase[p] = "ready" /\ phase'[p] = "reading" /\ UNCHANGED <<events, attempt, outcome, beaten>>
      /\ call'[p] = ReadAll(ReadQuery(p)) /\ result'[p].status = "none"
      /\ floor'[p] = Cardinality(Settled)
  BY DEF BuildModel, Invoke, Finish, Enter, Inv3, Inv2, Inv1, TypeOK, DecisionTypes, store
<1>2. outcome[p] = "none"
  BY <1>1 DEF DecisionInv, PhaseOf
<1>3. PhaseOf(p)' /\ ViewOf(p)' /\ VerdictOf(p)' /\ BehindView(p)' /\ GivesUp(p)'
  BY <1>1, <1>2 DEF DecisionInv, PhaseOf, ViewOf, VerdictOf, BehindView, GivesUp, Writes, HasDecided
<1>4. LostTo(p)'
  <2>1. /\ Len(beaten[p]) = attempt[p] + 0 /\ Lost(p) \subseteq Settled
        /\ Lost(p) \subseteq Matching(events, ConditionQuery(p), None)
    BY <1>1 DEF DecisionInv, LostTo, Refused
  <2>2. \A n \in Lost(p) : n < floor'[p]
    BY <1>1, <2>1, FloorAboveSettled
  <2>3. ~Refused(p)' /\ Lost(p)' = Lost(p)
    BY <1>1 DEF Refused, Lost
  <2> QED
    BY <1>1, <2>1, <2>2, <2>3 DEF LostTo
<1> QED
  BY <1>3, <1>4 DEF DecisionInv

\* A read that failed ends the execution, a refused append another attempt or the last.
LEMMA EndsKeep ==
  ASSUME Inv3, DecisionTypes, NEW p \in Proc, ReadFailed(p) \/ Retry(p) \/ Conclude(p),
         DecisionInv(p)
  PROVE  DecisionInv(p)'
<1>1. /\ UNCHANGED <<events, pc, call, seq, rest, result, floor, view, deadline, beaten>>
      /\ Base(p)' = Base(p) /\ Settled' = Settled /\ Lost(p)' = Lost(p) /\ pc[p] = "idle"
  BY DEF ReadFailed, Retry, Conclude, vars, store, Base, Settled, Lost
<1>2. result[p].status \in Statuses
  BY DEF Inv3, Inv2, Inv1, TypeOK
<1>3. CASE ReadFailed(p)
  <2>1. /\ phase[p] = "reading" /\ phase'[p] = "done"
        /\ outcome'[p] \notin {"ok", "condition_failed", "rejected"}
    <3>1. phase[p] = "reading" /\ result[p].status # "ok" /\ outcome'[p] = result[p].status
          /\ phase'[p] = "done"
      BY <1>3 DEF ReadFailed, Return, Enter, DecisionTypes
    <3>2. result[p].status # "condition_failed"
      BY <3>1 DEF DecisionInv, PhaseOf
    <3> QED
      BY <1>2, <3>1, <3>2 DEF Statuses
  <2> QED
    BY <1>1, <2>1 DEF DecisionInv, PhaseOf, ViewOf, VerdictOf, BehindView, LostTo, GivesUp,
                      Writes, HasDecided
<1>4. CASE Retry(p)
  <2>1. /\ phase[p] = "appending" /\ phase'[p] = "ready" /\ outcome' = outcome
        /\ result[p].status = "condition_failed" /\ attempt'[p] = attempt[p] + 1
    BY <1>4 DEF Retry, Enter, DecisionTypes
  <2>2. outcome[p] = "none" /\ Refused(p) /\ ~Refused(p)'
    BY <2>1 DEF DecisionInv, PhaseOf, Refused
  <2>3. PhaseOf(p)' /\ ViewOf(p)' /\ VerdictOf(p)' /\ BehindView(p)' /\ GivesUp(p)'
    BY <1>1, <2>1, <2>2 DEF DecisionInv, PhaseOf, ViewOf, VerdictOf, BehindView, GivesUp, Writes,
                            HasDecided
  <2>4. /\ Len(beaten[p]) = attempt[p] + 1 /\ Lost(p) \subseteq Settled
        /\ Lost(p) \subseteq Matching(events, ConditionQuery(p), None)
    BY <2>1, <2>2 DEF DecisionInv, LostTo
  <2>5. (attempt[p] + 1) + 0 = attempt[p] + 1
    BY DEF DecisionTypes
  <2>6. LostTo(p)'
    BY <1>1, <2>1, <2>2, <2>4, <2>5 DEF LostTo
  <2> QED
    BY <2>3, <2>6 DEF DecisionInv
<1>5. CASE Conclude(p)
  <2>1. /\ phase[p] = "appending" /\ phase'[p] = "done" /\ outcome'[p] = result[p].status
        /\ ~(result[p].status = "condition_failed" /\ MayRetry(p))
    BY <1>5 DEF Conclude, Return, Enter, DecisionTypes
  <2>2. outcome'[p] # "rejected"
    BY <1>2, <2>1 DEF Statuses
  <2>3. PhaseOf(p)' /\ ViewOf(p)' /\ VerdictOf(p)' /\ BehindView(p)' /\ LostTo(p)'
    <3>1. PhaseOf(p)' /\ LostTo(p)'
      BY <1>1, <2>1 DEF DecisionInv, PhaseOf, LostTo, Writes
    <3>2. ViewOf(p)'
      BY <1>1, <2>1 DEF DecisionInv, ViewOf, Viewed, Writes, HasDecided
    <3>3. VerdictOf(p)' /\ BehindView(p)'
      BY <1>1, <2>1, <2>2 DEF DecisionInv, VerdictOf, BehindView, BelowCapacity, Writes
    <3> QED
      BY <3>1, <3>2, <3>3
  <2>4. GivesUp(p)'
    <3> SUFFICES ASSUME outcome'[p] = "condition_failed", SeesRefusal(p)
                 PROVE  Len(beaten[p]) >= MaxRetries
      BY <1>1 DEF DecisionInv, GivesUp
    <3>1. Refused(p) /\ attempt[p] \in Nat /\ ~(attempt[p] < (MaxRetries - 1) % UsizeModulus)
      BY <2>1 DEF Refused, MayRetry, DecisionTypes
    <3>2. Len(beaten[p]) = attempt[p] + 1
      BY <2>1, <3>1 DEF DecisionInv, LostTo
    <3>4. MaxRetries \in Nat /\ UsizeModulus \in Nat /\ MaxRetries <= UsizeModulus - 1
      BY DecisionsAssumption
    <3>5. CASE MaxRetries = 0
      BY <3>1, <3>2, <3>5
    <3>6. CASE MaxRetries # 0
      <4>1. \A m, u \in Nat : m # 0 /\ m <= u - 1 => (m - 1) % u = m - 1
        OBVIOUS
      <4>2. ~(attempt[p] < MaxRetries - 1)
        BY <3>1, <3>4, <3>6, <4>1
      <4> QED
        BY <3>1, <3>2, <3>4, <4>2
    <3> QED
      BY <3>5, <3>6
  <2> QED
    BY <2>3, <2>4 DEF DecisionInv
<1> QED
  BY <1>3, <1>4, <1>5

\* A read that returned gives all that its query matches up to the last event it returned,
\* and each projection what its own query matches up to there.
LEMMA WholeViews ==
  ASSUME UnionsAreRight(Event), ReadsAreNested, Inv3, NEW p \in Proc, ReadSound(p), ReadClosed(p),
         call[p] = ReadAll(ReadQuery(p)), result[p].status = "ok"
  PROVE  LET last == LastPosition(result[p].positions) IN
           /\ last \in DOMAIN events \cup {None}
           /\ \A i \in DOMAIN QueriesOf[p] : Folded(p, result[p].positions)[i]
                = {n \in Matching(events, QueriesOf[p][i], None) : n <= last}
           /\ \A n \in result[p].positions : n <= last
<1> DEFINE R == result[p].positions
           last == LastPosition(R)
<1>1. Inv2 /\ DOMAIN events = 0 .. End - 1 /\ End \in Nat
  BY LogFacts DEF Inv3, Inv2
<1>2. /\ call[p].op = "read" /\ call[p].query = ReadQuery(p)
      /\ call[p].after = None /\ call[p].max = None
  BY DEF ReadAll, ReadCall
<1>3. R \subseteq Matching(events, ReadQuery(p), None)
  BY <1>2 DEF ReadSound, ResultSound, IsOkRead
<1>4. \A n \in Matching(events, ReadQuery(p), None) : \A m \in R : n < m => n \in R
  BY <1>2 DEF ReadClosed, ResultClosed, NoHole, IsOkRead, ReadsAreNested
<1>5. R \in SUBSET DOMAIN events
  BY <1>3 DEF Matching
<1> HIDE DEF R
<1>6. /\ last \in DOMAIN events \cup {None} /\ \A n \in R : n <= last
      /\ R # {} => last \in R
      /\ R = {} => last = None
  BY <1>1, <1>5, LastPositionIsLast
<1> HIDE DEF last
<1>7. R = {n \in Matching(events, ReadQuery(p), None) : n <= last}
  <2>1. ASSUME NEW n \in Matching(events, ReadQuery(p), None), n <= last
        PROVE  n \in R
    <3>1. n \in DOMAIN events
      BY DEF Matching
    <3>2. R # {} /\ last \in R
      BY <1>1, <1>6, <2>1, <3>1 DEF None
    <3>3. n = last \/ n < last
      BY <1>1, <1>5, <2>1, <3>1, <3>2
    <3> QED
      BY <1>4, <2>1, <3>2, <3>3
  <2> QED
    BY <1>3, <1>6, <2>1
<1>8. \A n \in DOMAIN events : events[n] \in Event
  BY DEF Inv3, Inv2, Inv1, TypeOK
<1>9. ASSUME NEW i \in DOMAIN QueriesOf[p]
      PROVE  Folded(p, R)[i] = {n \in Matching(events, QueriesOf[p][i], None) : n <= last}
  <2>1. QueriesOf[p] \in Seq(Query)
    BY DecisionsAssumption
  <2>2. DOMAIN QueriesOf[p] = 1 .. Len(QueriesOf[p])
    BY <2>1, LenProperties
  <2>3. CASE Len(QueriesOf[p]) = 1
    <3>1. i = 1 /\ \A j \in DOMAIN QueriesOf[p] : j = i
      BY <2>2, <2>3
    <3>2. \A n \in DOMAIN events :
            Matches(ReadQuery(p), events[n]) <=> Matches(QueriesOf[p][i], events[n])
      BY <1>8, <1>9, <3>1 DEF UnionsAreRight, ConditionQuery
    <3>3. Matching(events, ReadQuery(p), None) = Matching(events, QueriesOf[p][i], None)
      BY <3>2 DEF Matching
    <3>4. Folded(p, R)[i] = R
      BY <2>3, <3>1 DEF Folded
    <3> QED
      BY <1>7, <3>3, <3>4
  <2>4. CASE Len(QueriesOf[p]) # 1
    <3>1. Folded(p, R)[i] = {n \in R : Matches(QueriesOf[p][i], events[n])}
      BY <1>9, <2>4 DEF Folded
    <3>2. \A n \in DOMAIN events :
            Matches(QueriesOf[p][i], events[n]) => Matches(ReadQuery(p), events[n])
      BY <1>8, <1>9 DEF UnionsAreRight, ConditionQuery
    <3> QED
      BY <1>7, <3>1, <3>2 DEF Matching
  <2> QED
    BY <2>3, <2>4
<1> QED
  BY <1>6, <1>9 DEF R, last

\* Nothing stands between what an execution has decided on and its batch but what the
\* condition of the append will find.
LEMMA DecideKeeps ==
  ASSUME UnionsAreRight(Event), ReadsAreNested, Inv3, DecisionTypes, NEW p \in Proc, Decide(p),
         ReadSound(p), ReadClosed(p), ReadFresh(p), DecisionInv(p)
  PROVE  DecisionInv(p)'
<1> DEFINE R == result[p].positions
<1>1. /\ phase[p] = "reading" /\ result[p].status = "ok"
      /\ view'[p] = Folded(p, R) /\ UNCHANGED <<events, attempt, deadline, beaten>>
      /\ outcome[p] = "none" /\ pc[p] = "idle" /\ call[p] = ReadAll(ReadQuery(p))
  BY DEF Decide, DecisionTypes, DecisionInv, PhaseOf, Invoke, vars, store
<1>2. PICK last :
      /\ last = LastPosition(R) /\ last \in DOMAIN events \cup {None}
      /\ \A i \in DOMAIN QueriesOf[p] : Folded(p, R)[i]
           = {n \in Matching(events, QueriesOf[p][i], None) : n <= last}
      /\ \A n \in R : n <= last
  BY <1>1, WholeViews
<1>3. Viewed(p, last)'
  BY <1>1, <1>2 DEF Viewed
<1> HIDE DEF R
<1>4. CASE Accepts(p, view'[p])
  <2>1. /\ call'[p] = AppendIfCall(BatchOf[p], ConditionQuery(p), last)
        /\ pc'[p] = "acquire" /\ result'[p].status = "none"
        /\ phase'[p] = "appending" /\ outcome' = outcome
    <3>1. /\ Invoke(p, AppendIfCall(BatchOf[p], ConditionQuery(p), last))
          /\ Enter(p, "appending") /\ outcome' = outcome
      BY <1>2, <1>4 DEF Decide, R
    <3>2. AppendIfCall(BatchOf[p], ConditionQuery(p), last).op = "append_if"
      BY DEF AppendIfCall
    <3> QED
      BY <3>1, <3>2 DEF Invoke, Go, Finish, Enter, Inv3, Inv2, Inv1, TypeOK, DecisionTypes
  <2>2. last \in Nat \cup {None} /\ call'[p].after = last
    BY <1>2, <2>1 DEF AppendIfCall, Inv3, Inv2, Inv1, TypeOK
  <2>3. PhaseOf(p)'
    BY <1>1, <2>1, <2>2 DEF PhaseOf, Writes
  <2>4. ViewOf(p)'
    BY <1>1, <1>2, <1>3, <2>2 DEF ViewOf, Writes, HasDecided
  <2>5. VerdictOf(p)'
    <3>1. BelowCapacity(p)'
      BY <1>4 DEF Accepts, BelowCapacity
    <3>2. p \in Timed /\ deadline # None =>
            \A i \in DOMAIN QueriesOf[p] : view'[p][i] = {}
      <4>1. \A i \in DOMAIN QueriesOf[p] : i \in DOMAIN view'[p]
        <5>1. QueriesOf[p] \in Seq(Query)
          BY DecisionsAssumption
        <5>2. DOMAIN QueriesOf[p] = 1 .. Len(QueriesOf[p])
          BY <5>1, LenProperties
        <5>3. CASE Len(QueriesOf[p]) = 1
          <6>1. view'[p] = <<R>> /\ DOMAIN <<R>> = {1} /\ DOMAIN QueriesOf[p] = {1}
            BY <1>1, <5>2, <5>3 DEF Folded
          <6> QED
            BY <6>1
        <5>4. CASE Len(QueriesOf[p]) # 1
          BY <1>1, <5>4 DEF Folded
        <5> QED
          BY <5>3, <5>4
      <4> QED
        BY <1>4, <4>1 DEF Accepts, SeesDeadline
    <3> QED
      BY <1>1, <2>1, <3>1, <3>2 DEF VerdictOf
  <2>6. BehindView(p)' /\ GivesUp(p)'
    BY <1>1, <2>1 DEF DecisionInv, BehindView, GivesUp
  <2>7. LostTo(p)'
    <3>1. /\ Len(beaten[p]) = attempt[p] + 0 /\ \A n \in Lost(p) : n < floor[p]
          /\ Lost(p) \subseteq Matching(events, ConditionQuery(p), None)
      BY <1>1 DEF DecisionInv, LostTo, Refused
    <3>2. \A n \in DOMAIN events : events[n] \in Event
      BY DEF Inv3, Inv2, Inv1, TypeOK
    <3>3. Lost(p) \subseteq Matching(events, ReadQuery(p), None)
      BY <3>1, <3>2 DEF Matching, UnionsAreRight, ConditionQuery
    <3>4. NoneMissing(p, R) /\ call[p].query = ReadQuery(p) /\ call[p].after = None
      BY <1>1 DEF ReadFresh, ResultFresh, IsOkRead, ReadAll, ReadCall, R
    <3>5. \A n \in Lost(p) : n <= last
      BY <1>2, <3>1, <3>3, <3>4 DEF NoneMissing
    <3>6. ~Refused(p)' /\ Lost(p)' = Lost(p)
      BY <1>1, <2>1 DEF Refused, Lost
    <3> QED
      BY <1>1, <2>1, <2>2, <3>1, <3>5, <3>6 DEF LostTo
  <2> QED
    BY <2>3, <2>4, <2>5, <2>6, <2>7 DEF DecisionInv
<1>5. CASE ~Accepts(p, view'[p])
  <2>1. phase'[p] = "done" /\ outcome'[p] = "rejected" /\ pc'[p] = "idle" /\ UNCHANGED vars
    BY <1>1, <1>5 DEF Decide, Return, Enter, DecisionTypes, vars
  <2>2. PhaseOf(p)' /\ BehindView(p)' /\ LostTo(p)' /\ GivesUp(p)'
    BY <1>1, <2>1 DEF DecisionInv, PhaseOf, Writes, BehindView, LostTo, GivesUp
  <2>3. ViewOf(p)'
    BY <1>1, <1>2, <1>3, <2>1 DEF ViewOf, Writes, HasDecided
  <2>4. p \notin Timed => ~BelowCapacity(p)'
    BY <1>5 DEF Accepts, SeesDeadline, BelowCapacity
  <2>5. VerdictOf(p)'
    BY <2>1, <2>4 DEF VerdictOf, Writes
  <2> QED
    BY <2>2, <2>3, <2>5 DEF DecisionInv
<1> QED
  BY <1>4, <1>5

\* All that has been seen when the deadline passes lies before it.
LEMMA PassDeadlineKeeps ==
  ASSUME Inv3, PassDeadline, NEW p \in Proc, DecisionInv(p)
  PROVE  DecisionInv(p)'
<1>1. /\ UNCHANGED <<events, pc, call, seq, rest, result, floor, phase, attempt, view, outcome,
                   beaten>>
      /\ Base(p)' = Base(p) /\ Settled' = Settled /\ Lost(p)' = Lost(p) /\ deadline' = Cardinality(DOMAIN events)
  BY DEF PassDeadline, vars, store, Base, Settled, Lost
<1>2. PhaseOf(p)' /\ ViewOf(p)' /\ BehindView(p)' /\ LostTo(p)' /\ GivesUp(p)'
  <2>1. PhaseOf(p)' /\ BehindView(p)' /\ GivesUp(p)'
    BY <1>1 DEF DecisionInv, PhaseOf, BehindView, GivesUp, Writes
  <2>2. ViewOf(p)'
    BY <1>1 DEF DecisionInv, ViewOf, Viewed, Writes, HasDecided
  <2>3. Refused(p)' <=> Refused(p)
    BY <1>1 DEF Refused
  <2>4. LostTo(p)'
    BY <1>1, <2>3 DEF DecisionInv, LostTo
  <2> QED
    BY <2>1, <2>2, <2>4
<1>3. Writes(p) => \A i \in DOMAIN QueriesOf[p] : \A n \in view[p][i] : n < Cardinality(DOMAIN events)
  <2>1. DOMAIN events = 0 .. End - 1 /\ End \in Nat
    BY LogFacts DEF Inv3, Inv2
  <2>2. Cardinality(DOMAIN events) = End
    BY <2>1, FS_Interval
  <2>3. Writes(p) => \A i \in DOMAIN QueriesOf[p] : view[p][i] \subseteq DOMAIN events
    BY DEF DecisionInv, ViewOf, Viewed, Matching
  <2> QED
    BY <2>1, <2>2, <2>3
<1>4. VerdictOf(p)'
  BY <1>1, <1>3 DEF DecisionInv, VerdictOf, BelowCapacity, Writes
<1> QED
  BY <1>2, <1>4 DEF DecisionInv

-----------------------------------------------------------------------------
(* All steps *)

\* An execution is a caller of the store: its steps are steps of the store or none.
LEMMA StepsAreCalls ==
  ASSUME ExecutionsAreCalls, UnionsAreRight(Event), ReadsAreNested, StoreFacts, Inv5,
         [DecisionsNext]_allVars
  PROVE  [Next]_vars
<1>1. ASSUME NEW p \in Proc, DecisionStep(p)
      PROVE  [Next]_vars
  <2>1. CASE BuildModel(p)
    BY <2>1 DEF BuildModel, ExecutionsAreCalls, Next
  <2>2. CASE ReadFailed(p) \/ Retry(p) \/ Conclude(p)
    BY <2>2 DEF ReadFailed, Retry, Conclude
  <2>3. CASE Decide(p)
    <3>1. phase[p] = "reading" /\ result[p].status = "ok"
      BY <2>3 DEF Decide
    <3>2. call[p] = ReadAll(ReadQuery(p)) /\ ReadSound(p) /\ ReadClosed(p) /\ Inv3
      BY <3>1 DEF Inv5, DecisionInv, PhaseOf, StoreFacts
    <3>3. LastPosition(result[p].positions) \in DOMAIN events \cup {None}
      BY <3>1, <3>2, WholeViews
    <3>4. DOMAIN events \subseteq Nat
      BY <3>2 DEF Inv3, Inv2, Inv1, TypeOK
    <3>5. AppendIfCall(BatchOf[p], ConditionQuery(p), LastPosition(result[p].positions)) \in Calls
      BY <3>3, <3>4 DEF ExecutionsAreCalls
    <3> QED
      BY <2>3, <3>5 DEF Decide, Next
  <2>4. CASE StoreStep(p)
    BY <2>4 DEF StoreStep, Next
  <2> QED
    BY <1>1, <2>1, <2>2, <2>3, <2>4 DEF DecisionStep
<1>2. CASE PassDeadline \/ Decided \/ UNCHANGED allVars
  BY <1>2 DEF PassDeadline, Decided, allVars
<1> QED
  BY <1>1, <1>2 DEF DecisionsNext

\* Executions leave each other alone but through the store.
LEMMA OthersKeepDecisions ==
  ASSUME IndexStorageReliable, ExecutionsAreCalls, UnionsAreRight(Event), ReadsAreNested, StoreFacts,
         Inv5, NEW p \in Proc, DecisionStep(p), NEW q \in Proc, q # p
  PROVE  /\ UNCHANGED Locals(q) /\ floor'[q] = floor[q]
         /\ SameDecision(q) /\ deadline' = deadline
<1>1. TypeOK /\ Inv3 /\ DecisionTypes
  BY DEF StoreFacts, Inv5, Inv3, Inv2, Inv1
<1>2. ASSUME NEW c, Invoke(p, c)
      PROVE  UNCHANGED Locals(q) /\ floor'[q] = floor[q]
  BY <1>1, <1>2 DEF Invoke, Locals, Go, Finish, TypeOK
<1>3. UNCHANGED vars => UNCHANGED Locals(q) /\ floor'[q] = floor[q]
  BY DEF vars, resolving, Locals
<1>4. CASE BuildModel(p)
  BY <1>1, <1>2, <1>4 DEF BuildModel, SameDecision, Enter, DecisionTypes
<1>5. CASE ReadFailed(p) \/ Retry(p) \/ Conclude(p)
  <2>1. UNCHANGED vars
    BY <1>5 DEF ReadFailed, Retry, Conclude
  <2>2. SameDecision(q) /\ deadline' = deadline
    BY <1>1, <1>5 DEF ReadFailed, Retry, Conclude, Return, Enter, SameDecision, DecisionTypes
  <2> QED
    BY <1>3, <2>1, <2>2
<1>6. CASE Decide(p)
  <2>1. SameDecision(q) /\ deadline' = deadline
    BY <1>1, <1>6 DEF Decide, Return, Enter, SameDecision, DecisionTypes
  <2> QED
    BY <1>2, <1>3, <1>6, <2>1 DEF Decide
<1>7. CASE StoreStep(p)
  <2>1. Step(p) /\ UNCHANGED decisionVars /\ beaten'[q] = beaten[q]
    BY <1>1, <1>7 DEF StoreStep, DecisionTypes
  <2>2. UNCHANGED Locals(q)
    BY <1>1, <2>1, OthersKeepLocals DEF Acts
  <2>3. floor' = floor
    BY <1>1, <2>1, StoreStepOf
  <2> QED
    BY <2>1, <2>2, <2>3 DEF decisionVars, SameDecision
<1> QED
  BY <1>4, <1>5, <1>6, <1>7 DEF DecisionStep

LEMMA DecisionTypesStep ==
  ASSUME Inv3, DecisionTypes, [DecisionsNext]_allVars
  PROVE  DecisionTypes'
<1> USE DEF DecisionTypes, Enter, Return
<1>1. ASSUME NEW p \in Proc, DecisionStep(p)
      PROVE  DecisionTypes'
  <2>1. CASE BuildModel(p)
    BY <2>1 DEF BuildModel
  <2>2. CASE ReadFailed(p)
    BY <2>2 DEF ReadFailed
  <2>3. CASE Decide(p)
    BY <2>3 DEF Decide
  <2>4. CASE Retry(p)
    BY <2>4 DEF Retry
  <2>5. CASE Conclude(p)
    BY <2>5 DEF Conclude
  <2>6. CASE StoreStep(p)
    <3>1. Matching(events, call[p].query, call[p].after) \in SUBSET Nat
      BY DEF Matching, Inv3, Inv2, Inv1, TypeOK
    <3> QED
      BY <2>6, <3>1, AppendProperties DEF StoreStep, decisionVars
  <2> QED
    BY <1>1, <2>1, <2>2, <2>3, <2>4, <2>5, <2>6 DEF DecisionStep
<1>2. CASE PassDeadline
  <2>1. Cardinality(DOMAIN events) \in Nat
    BY FS_CardinalityType DEF Inv3, Inv2, Inv1, TypeOK
  <2> QED
    BY <1>2, <2>1 DEF PassDeadline
<1>3. CASE Decided \/ UNCHANGED allVars
  BY <1>3 DEF Decided, allVars, decisionVars
<1> QED
  BY <1>1, <1>2, <1>3 DEF DecisionsNext

LEMMA Inv5Step ==
  ASSUME IndexStorageReliable, ExecutionsAreCalls, UnionsAreRight(Event), ReadsAreNested,
         StoreFacts, StoreFacts', Inv5, [DecisionsNext]_allVars
  PROVE  Inv5'
<1>1. Inv3 /\ Inv3' /\ DecisionTypes /\ DecisionTypes' /\ [Next]_vars
  BY StepsAreCalls, DecisionTypesStep DEF StoreFacts, Inv5
<1>2. Settled \subseteq Settled'
  <2>1. ASSUME NEW p \in Proc, pc[p] \in {"resolve", "load"}
        PROVE  call[p].op # "append"
    <3>1. phase[p] \in {"reading", "appending"}
      BY <2>1 DEF Inv5, DecisionInv, PhaseOf, DecisionTypes
    <3>2. /\ ReadAll(ReadQuery(p)).op = "read"
          /\ \A after : AppendIfCall(BatchOf[p], ConditionQuery(p), after).op = "append_if"
      BY DEF ReadAll, ReadCall, AppendIfCall
    <3> QED
      BY <3>1, <3>2 DEF Inv5, DecisionInv, PhaseOf, Writes
  <2> QED
    BY <1>1, <2>1, SettledStays
<1>3. ASSUME NEW p \in Proc
      PROVE  DecisionInv(p)'
  <2>1. DecisionInv(p) /\ ReadSound(p) /\ ReadClosed(p) /\ ReadFresh(p) /\ ReadSound(p)'
    BY DEF Inv5, StoreFacts
  <2>2. CASE DecisionStep(p)
    <3>1. CASE BuildModel(p)
      BY <1>1, <2>1, <3>1, BuildModelKeeps
    <3>2. CASE ReadFailed(p) \/ Retry(p) \/ Conclude(p)
      BY <1>1, <2>1, <3>2, EndsKeep
    <3>3. CASE Decide(p)
      BY <1>1, <2>1, <3>3, DecideKeeps
    <3>4. CASE StoreStep(p)
      BY <1>1, <1>2, <2>1, <3>4, CallKeepsDecision DEF StoreStep
    <3> QED
      BY <2>2, <3>1, <3>2, <3>3, <3>4 DEF DecisionStep
  <2>3. ASSUME NEW q \in Proc, DecisionStep(q), q # p
        PROVE  DecisionInv(p)'
    <3>1. /\ UNCHANGED Locals(p) /\ floor'[p] = floor[p]
          /\ SameDecision(p) /\ deadline' = deadline
      BY <2>3, OthersKeepDecisions
    <3> QED
      BY <1>1, <1>2, <2>1, <3>1, DecisionStays
  <2>4. CASE PassDeadline
    BY <1>1, <2>1, <2>4, PassDeadlineKeeps
  <2>5. CASE Decided \/ UNCHANGED allVars
    <3>1. UNCHANGED <<vars, decisionVars, beaten>>
      BY <2>5 DEF Decided, allVars
    <3>2. /\ UNCHANGED Locals(p) /\ floor'[p] = floor[p]
          /\ SameDecision(p) /\ deadline' = deadline
      BY <3>1 DEF vars, resolving, decisionVars, Locals, SameDecision
    <3> QED
      BY <1>1, <1>2, <2>1, <3>2, DecisionStays
  <2> QED
    BY <2>2, <2>3, <2>4, <2>5 DEF DecisionsNext
<1> QED
  BY <1>1, <1>3 DEF Inv5

LEMMA StoreFactsStep ==
  ASSUME IndexStorageReliable, QueriesNameTypesOrTags, Exact, StoreFacts, [Next]_vars
  PROVE  StoreFacts'
<1>1. Inv3 /\ Inv2 /\ IndexComplete
  BY DEF StoreFacts, Inv3
<1>2. Inv3'
  <2>1. ConditionsNameTypesOrTags
    BY DEF QueriesNameTypesOrTags, ConditionsNameTypesOrTags
  <2> QED
    BY <1>1, <2>1, Inv3Step
<1>3. ASSUME NEW p \in Proc
      PROVE  (ReadSound(p) /\ ReadClosed(p) /\ ReadFresh(p))'
  <2>1. ReadSound(p) /\ ReadClosed(p) /\ ReadFresh(p)
    BY DEF StoreFacts
  <2>2. ReadSound(p)'
    BY <1>1, <2>1, ReadSoundStep
  <2>3. ReadClosed(p)'
    BY <1>1, <2>1, ReadClosedStep
  <2>4. ReadFresh(p)'
    BY <1>1, <2>1, ReadFreshStep
  <2> QED
    BY <2>2, <2>3, <2>4
<1> QED
  BY <1>2, <1>3 DEF StoreFacts

LEMMA DecisionsInitially == DecisionsInit => StoreFacts /\ Inv5
<1> SUFFICES ASSUME DecisionsInit PROVE StoreFacts /\ Inv5
  OBVIOUS
<1>1. Init /\ Inv3
  BY Inv3Init DEF DecisionsInit
<1>2. ASSUME NEW p \in Proc
      PROVE  ReadSound(p) /\ ReadClosed(p) /\ ReadFresh(p)
  <2>1. /\ pc[p] = "idle" /\ result[p].status = "none" /\ floor[p] = 0
        /\ call[p].query = << >> /\ DOMAIN events = {}
    BY <1>1 DEF Init, ReadCall, All
  <2>2. ReadClosed(p)
    BY <2>1 DEF ReadClosed, WritesAppend, Before, ResultClosed, IsOkRead
  <2>3. End = 0
    BY <2>1 DEF End, NextPosition
  <2>4. ReadFresh(p)
    BY <2>1, <2>3 DEF ReadFresh, Before, ResultFresh, IsOkRead, NoWildcards, FloorIndexed, Lists
  <2> QED
    BY <1>1, <2>2, <2>4, ReadSoundInit
<1>3. DecisionTypes
  BY DEF DecisionsInit, DecisionTypes, None
<1>4. ASSUME NEW p \in Proc
      PROVE  DecisionInv(p)
  <2>1. phase[p] = "ready" /\ outcome[p] = "none" /\ attempt[p] = 0 /\ pc[p] = "idle"
        /\ beaten[p] = << >>
    BY <1>1 DEF DecisionsInit, Init
  <2>2. PhaseOf(p) /\ ViewOf(p) /\ VerdictOf(p) /\ BehindView(p) /\ GivesUp(p)
    BY <2>1 DEF PhaseOf, ViewOf, VerdictOf, BehindView, GivesUp, Parted, Writes, HasDecided
  <2>3. LostTo(p)
    <3>1. ~Refused(p) /\ Lost(p) = {} /\ Len(beaten[p]) = 0 + 0
      BY <2>1 DEF Refused, Lost
    <3> QED
      BY <2>1, <3>1 DEF LostTo
  <2> QED
    BY <2>2, <2>3 DEF DecisionInv
<1> QED
  BY <1>1, <1>2, <1>3, <1>4 DEF StoreFacts, Inv5

LEMMA DecisionsAlways ==
  ASSUME IndexStorageReliable, QueriesNameTypesOrTags, ExecutionsAreCalls, UnionsAreRight(Event),
         ReadsAreNested
  PROVE  DecisionsSpec /\ []Exact => [](StoreFacts /\ Inv5)
<1>1. StoreFacts /\ Inv5 /\ Exact /\ [DecisionsNext]_allVars => (StoreFacts /\ Inv5)'
  <2> SUFFICES ASSUME StoreFacts, Inv5, Exact, [DecisionsNext]_allVars
               PROVE  (StoreFacts /\ Inv5)'
    OBVIOUS
  <2>1. StoreFacts'
    BY StepsAreCalls, StoreFactsStep
  <2> QED
    BY <2>1, Inv5Step
<1> QED
  BY <1>1, DecisionsInitially, PTL DEF DecisionsSpec

-----------------------------------------------------------------------------
(* The theorems *)

\* Executions are callers of the event store like any other: what Spec promises they get.
THEOREM ExecutionsUseTheStore ==
  ASSUME IndexStorageReliable, QueriesNameTypesOrTags, ExecutionsAreCalls, UnionsAreRight(Event),
         ReadsAreNested
  PROVE  DecisionsSpec /\ []Exact => Spec
<1>1. StoreFacts /\ Inv5 /\ [DecisionsNext]_allVars => [Next]_vars
  BY StepsAreCalls
<1>2. DecisionsInit => Init
  BY DEF DecisionsInit
<1> QED
  BY <1>1, <1>2, DecisionsAlways, PTL DEF DecisionsSpec, Spec

\* What is written was decided on the events before it.
LEMMA ViewPrecedesBatch ==
  ASSUME UnionsAreRight(Event), StoreFacts, Inv5, NEW p \in Proc, Committing(p)
  PROVE  Writes(p) /\ \A i \in DOMAIN QueriesOf[p] : view[p][i] = Preceding(p, i)
<1>1. DecisionInv(p) /\ Inv3 /\ DecisionTypes /\ TypeOK
  BY DEF Inv5, StoreFacts, Inv3, Inv2, Inv1
<1>2. Writes(p)
  BY DEF Committing, Writes
<1>3. pc[p] \notin {"acquire", "unlink", "scan"} /\ (pc[p] \in {"write", "index"} \/ result[p].status = "ok")
  BY <1>1 DEF Committing, DecisionInv, PhaseOf, DecisionTypes
<1>4. /\ call[p].op = "append_if" /\ call[p].query = ConditionQuery(p)
      /\ call[p].after \in DOMAIN events \cup {None} /\ Viewed(p, call[p].after)
  <2>1. \A after : /\ AppendIfCall(BatchOf[p], ConditionQuery(p), after).op = "append_if"
                  /\ AppendIfCall(BatchOf[p], ConditionQuery(p), after).query = ConditionQuery(p)
    BY DEF AppendIfCall
  <2> QED
    BY <1>1, <1>2, <2>1, Zenon DEF DecisionInv, PhaseOf, ViewOf
<1>5. call[p].after < Base(p)
  BY <1>1, <1>2, <1>3 DEF DecisionInv, BehindView
<1>6. \A n \in Matching(events, ConditionQuery(p), call[p].after) : n >= Base(p)
  BY <1>1, <1>3, <1>4 DEF Inv3, Honoured
<1>7. Base(p) \in Int
  <2>1. rest[p] \in Seq(Event) /\ call[p].batch \in Seq(Event) /\ seq[p] \in Nat
    BY <1>1 DEF TypeOK, Call
  <2>2. Len(rest[p]) \in Nat /\ Len(call[p].batch) \in Nat
    BY <2>1, LenProperties
  <2>3. \A s, b, r \in Nat : s - (b - r) \in Int
    OBVIOUS
  <2> QED
    BY <2>1, <2>2, <2>3 DEF Base
<1>8. DOMAIN events \subseteq Nat /\ \A n \in DOMAIN events : events[n] \in Event
  BY <1>1 DEF TypeOK
<1>9. ASSUME NEW i \in DOMAIN QueriesOf[p]
      PROVE  view[p][i] = Preceding(p, i)
  <2>1. view[p][i] = {n \in Matching(events, QueriesOf[p][i], None) : n <= call[p].after}
    BY <1>4 DEF Viewed
  <2>2. ASSUME NEW n \in Matching(events, QueriesOf[p][i], None)
        PROVE  n <= call[p].after <=> n < Base(p)
    <3>1. n \in DOMAIN events /\ Matches(QueriesOf[p][i], events[n])
      BY <2>2 DEF Matching
    <3>2. Matches(ConditionQuery(p), events[n])
      BY <1>8, <1>9, <3>1 DEF UnionsAreRight, ConditionQuery
    <3>3. n > call[p].after => n >= Base(p)
      BY <1>6, <3>1, <3>2 DEF Matching
    <3> QED
      BY <1>4, <1>5, <1>7, <1>8, <3>1, <3>3 DEF None
  <2> QED
    BY <2>1, <2>2 DEF Preceding
<1> QED
  BY <1>2, <1>9

\* A decision that is written was taken on exactly the events that match its queries and
\* precede it, however many executions race and whatever they were refused for before.
THEOREM DecisionsAreNotStale ==
  ASSUME IndexStorageReliable, QueriesNameTypesOrTags, ExecutionsAreCalls, UnionsAreRight(Event),
         ReadsAreNested
  PROVE  DecisionsSpec /\ []Exact => []NoStaleDecision
<1>1. StoreFacts /\ Inv5 => NoStaleDecision
  BY ViewPrecedesBatch DEF NoStaleDecision
<1> QED
  BY <1>1, DecisionsAlways, PTL

\* So the limit that each decision enforces on its view holds of the log.
THEOREM CapacityIsRespected ==
  ASSUME IndexStorageReliable, QueriesNameTypesOrTags, ExecutionsAreCalls, UnionsAreRight(Event),
         ReadsAreNested
  PROVE  DecisionsSpec /\ []Exact => []CapacityRespected
<1>1. StoreFacts /\ Inv5 => CapacityRespected
  <2> SUFFICES ASSUME StoreFacts, Inv5, NEW p \in Proc, Committing(p),
                      NEW i \in DOMAIN QueriesOf[p]
               PROVE  Cardinality(Preceding(p, i)) < Capacity
    BY DEF CapacityRespected
  <2>1. BelowCapacity(p)
    BY ViewPrecedesBatch DEF Inv5, DecisionInv, VerdictOf
  <2> QED
    BY <2>1, ViewPrecedesBatch DEF BelowCapacity
<1> QED
  BY <1>1, DecisionsAlways, PTL

\* No timed decision is written behind an event of its queries that came after the
\* deadline, although the clock is not part of the append condition.
THEOREM DeadlineIsKept ==
  ASSUME IndexStorageReliable, QueriesNameTypesOrTags, ExecutionsAreCalls, UnionsAreRight(Event),
         ReadsAreNested
  PROVE  DecisionsSpec /\ []Exact => []DeadlineKept
<1>1. StoreFacts /\ Inv5 => DeadlineKept
  <2> SUFFICES ASSUME StoreFacts, Inv5, deadline # None, NEW p \in Timed, Committing(p),
                      NEW i \in DOMAIN QueriesOf[p], NEW n \in Preceding(p, i)
               PROVE  n < deadline
    BY DEF DeadlineKept
  <2>1. p \in Proc
    BY DecisionsAssumption
  <2> QED
    BY <2>1, ViewPrecedesBatch DEF Inv5, DecisionInv, VerdictOf
<1> QED
  BY <1>1, DecisionsAlways, PTL

\* No two refusals of one execution have an event in common, and an execution that gives
\* up was refused as often as it may try, unless it executes through the bindings: no
\* attempt is wasted on a stale view.
THEOREM GivingUpMeansContention ==
  ASSUME IndexStorageReliable, QueriesNameTypesOrTags, ExecutionsAreCalls, UnionsAreRight(Event),
         ReadsAreNested
  PROVE  DecisionsSpec /\ []Exact => []FailureMeansContention
<1>1. StoreFacts /\ Inv5 => FailureMeansContention
  BY DEF Inv5, DecisionInv, GivesUp, Parted, FailureMeansContention
<1> QED
  BY <1>1, DecisionsAlways, PTL

\* The harness, given the events before the last one an execution folded, tells what that
\* execution decided, for a decision of one projection without a clock.
THEOREM HarnessIsRight ==
  ASSUME IndexStorageReliable, QueriesNameTypesOrTags, ExecutionsAreCalls, UnionsAreRight(Event),
         ReadsAreNested
  PROVE  DecisionsSpec /\ []Exact => []HarnessAgrees
<1>1. StoreFacts /\ Inv5 => HarnessAgrees
  <2> SUFFICES ASSUME StoreFacts, Inv5, NEW p \in Proc, p \notin Timed, Len(QueriesOf[p]) = 1,
                      outcome[p] \in {"ok", "rejected", "condition_failed"}
               PROVE  Then(p, When(p, Given(p, LastPosition(view[p][1]))))
    BY DEF HarnessAgrees
  <2> DEFINE last == LastPosition(view[p][1])
             past == {n \in Matching(events, QueriesOf[p][1], None) : n <= last}
             history == Given(p, last)
  <2>1. Inv2 /\ DecisionInv(p) /\ DOMAIN events = 0 .. End - 1 /\ End \in Nat
    BY LogFacts DEF StoreFacts, Inv5, Inv3, Inv2
  <2>2. DOMAIN QueriesOf[p] = {1}
    <3>1. QueriesOf[p] \in Seq(Query)
      BY DecisionsAssumption
    <3> QED
      BY <3>1, LenProperties
  <2>3. PICK upto \in DOMAIN events \cup {None} :
          view[p][1] = {n \in Matching(events, QueriesOf[p][1], None) : n <= upto}
    BY <2>1, <2>2 DEF DecisionInv, ViewOf, HasDecided, Viewed
  <2>4. view[p][1] \in SUBSET DOMAIN events
    BY <2>3 DEF Matching
  <2>5. /\ last \in DOMAIN events \cup {None} /\ \A n \in view[p][1] : n <= last
        /\ view[p][1] # {} => last \in view[p][1]
        /\ view[p][1] = {} => last = None
    BY <2>1, <2>4, LastPositionIsLast
  <2>6. past = view[p][1]
    <3>1. \A n \in Matching(events, QueriesOf[p][1], None) : n \in Nat
      BY <2>1 DEF Matching
    <3> HIDE DEF last
    <3> QED
      BY <2>1, <2>3, <2>4, <2>5, <3>1 DEF None
  <2>7. IsFiniteSet(past) /\ Cardinality(past) \in Nat
    <3>1. IsFiniteSet(DOMAIN events)
      BY DEF StoreFacts, Inv3, Inv2, Inv1, TypeOK
    <3> QED
      BY <2>4, <2>6, <3>1, FS_Subset, FS_CardinalityType
  <2>8. DOMAIN history = 1 .. Cardinality(past)
    BY DEF Given
  <2>9. Len(history) = Cardinality(past)
    BY <2>7 DEF Given
  <2>10. DOMAIN ToEventRecords(history) = 1 .. Cardinality(past)
    BY <2>9 DEF ToEventRecords
  <2>11. Cardinality(1 .. Cardinality(past)) = Cardinality(past)
    BY <2>7, FS_Interval
  <2>12. Accepts(p, <<DOMAIN ToEventRecords(history)>>) <=> BelowCapacity(p)
    <3>1. ASSUME NEW states, states[1] = 1 .. Cardinality(past)
          PROVE  Accepts(p, states) <=> BelowCapacity(p)
      BY <2>2, <2>6, <2>11, <3>1 DEF Accepts, SeesDeadline, BelowCapacity
    <3>2. <<DOMAIN ToEventRecords(history)>>[1] = 1 .. Cardinality(past)
      BY <2>10
    <3> QED
      BY <3>1, <3>2
  <2>13. outcome[p] = "rejected" <=> ~BelowCapacity(p)
    BY <2>1 DEF DecisionInv, VerdictOf, Writes
  <2> QED
    BY <2>12, <2>13 DEF Then, When
<1> QED
  BY <1>1, DecisionsAlways, PTL
=============================================================================
