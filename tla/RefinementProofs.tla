---------------------------- MODULE RefinementProofs ----------------------------
(***************************************************************************)
(* MarmosaStore implements DcbLog, for any callers, calls, index files and *)
(* bounds, while the storage does not fail.                                *)
(*                                                                         *)
(* The abstract log ends where the batch being written begins.  It grows   *)
(* in one step, FinishBatch, by the whole batch: Written says that what    *)
(* lies behind it by then is that batch, ConditionsAreHonoured that        *)
(* nothing before it violates the condition.  A refusal is due because     *)
(* what an append read while it held the lock matches its condition.       *)
(***************************************************************************)
EXTENDS ReadProofs, EventStoreRefinement

\* No storage operation fails, no process dies and none loses its lock.
NoFaults == FaultKinds = {} /\ NestedLockNames /\ SafeLock

\* The number of events of its batch that p is done with.
Done(p) == Len(call[p].batch) - Len(rest[p])

\* Of its batch p has written what it is done with, and its rest is what is left.
Written(p) ==
  pc[p] \in {"write", "index"} =>
    /\ Done(p) \in Nat /\ Base(p) \in Nat
    /\ \A i \in DOMAIN call[p].batch :
         /\ i <= Done(p) =>
              Base(p) + i - 1 \in DOMAIN events /\ events[Base(p) + i - 1] = call[p].batch[i]
         /\ i > Done(p) => rest[p][i - Done(p)] = call[p].batch[i]
    /\ pc[p] = "index" => seq[p] \in DOMAIN events /\ events[seq[p]] = Head(rest[p])

\* An append has its answer once it is about to return, and only an append with
\* a condition reads.
Answered(p) ==
  call[p].op # "read" =>
    /\ pc[p] \in {"idle", "release"} => result[p].status \in {"ok", "condition_failed"}
    /\ pc[p] \in {"resolve", "load"} => call[p].op = "append_if"

Inv4 == Inv3 /\ \A p \in Proc : ReadSound(p) /\ Written(p) /\ Answered(p)

LEMMA StepsWithoutFaults ==
  ASSUME NoFaults, TypeOK, [Next]_vars, NEW p \in Proc
  PROVE  \/ UNCHANGED Locals(p)
         \/ \E c \in Calls : Invoke(p, c)
         \/ AcquireLock(p) \/ ScanEvents(p, FALSE) \/ ListEvents(p, FALSE) \/ ReadIndex(p, FALSE)
         \/ ResolveItem(p) \/ LoadEvents(p, FALSE) \/ WriteEvent(p) \/ UpdateIndex(p, FALSE)
         \/ NextEvent(p) \/ FinishBatch(p) \/ ReleaseLock(p) \/ JudgeLock(p) \/ BreakLock(p)
<1>1. IndexStorageReliable /\ ~LoadEvents(p, TRUE) /\ ~EventWriteFails(p)
  BY DEF NoFaults, IndexStorageReliable, LoadEvents, EventWriteFails, Storage
<1>2. Acts(p) \/ UNCHANGED Locals(p)
  BY OwnOrOther
<1> QED
  BY <1>1, <1>2, OwnSteps

LEMMA WrittenStep ==
  ASSUME NoFaults, Inv3, [Next]_vars, NEW p \in Proc, Written(p), Answered(p)
  PROVE  Written(p)'
<1>1. TypeOK /\ Inv2 /\ Progress(p) /\ End \in Nat
  BY LogFacts DEF Inv3, Inv2, Inv1
<1>2. \A n \in DOMAIN events : n \in DOMAIN events' /\ events'[n] = events[n]
  BY <1>1, StepKeepsEvents DEF Inv2
<1>3. /\ call[p].batch \in Seq(Event) /\ rest[p] \in Seq(Event) /\ seq[p] \in Nat
      /\ Len(call[p].batch) \in Nat /\ DOMAIN call[p].batch = 1 .. Len(call[p].batch)
      /\ Len(rest[p]) \in Nat
  <2>1. call[p].batch \in Seq(Event) /\ rest[p] \in Seq(Event) /\ seq[p] \in Nat
    BY <1>1 DEF TypeOK, Call
  <2> QED
    BY <2>1, LenProperties
<1>4. Base(p) = seq[p] - Done(p) /\ Base(p)' = seq'[p] - Done(p)'
  BY DEF Base, Done
<1>5. CASE UNCHANGED Locals(p)
  <2>1. Done(p)' = Done(p) /\ Base(p)' = Base(p)
    BY <1>5 DEF Locals, Done, Base
  <2> QED
    BY <1>2, <1>5, <2>1 DEF Locals, Written
\* A batch that is about to be written begins at the end of the log.
<1>6. ASSUME pc'[p] = "write", UNCHANGED <<events, call, rest>>,
             rest[p] = call[p].batch, seq'[p] \in Nat
      PROVE  Written(p)'
  <2>1. Done(p)' = 0
    BY <1>3, <1>6 DEF Done
  <2>2. Base(p)' = seq'[p]
    BY <1>4, <1>6, <2>1
  <2>3. \A i \in DOMAIN call[p].batch : ~(i <= 0) /\ i - 0 = i
    BY <1>3
  <2> QED
    BY <1>6, <2>1, <2>2, <2>3 DEF Written
<1>7. CASE ScanEvents(p, FALSE)
  <2>1. /\ UNCHANGED <<events, call, rest>> /\ seq'[p] = End /\ pc'[p] \in {"resolve", "write"}
        /\ pc[p] = "scan"
    BY <1>1, <1>7 DEF ScanEvents, Go, TypeOK, store, End
  <2>2. rest[p] = call[p].batch
    BY <1>1, <2>1 DEF Progress
  <2>3. CASE pc'[p] = "write"
    BY <1>1, <1>6, <2>1, <2>2, <2>3
  <2> QED
    BY <2>1, <2>3 DEF Written
<1>8. CASE LoadEvents(p, FALSE)
  <2>1. /\ UNCHANGED <<events, call, rest, seq>> /\ pc[p] = "load"
        /\ \/ pc'[p] \in {"idle", "release"}
           \/ pc'[p] = "write" /\ call[p].op # "read"
    BY <1>1, <1>8 DEF LoadEvents, Go, TypeOK, store
  <2>2. CASE pc'[p] = "write" /\ call[p].op # "read"
    <3>1. Checking(p)
      BY <2>1, <2>2 DEF Checking, Answered
    <3>2. rest[p] = call[p].batch
      BY <1>1, <3>1 DEF Progress
    <3> QED
      BY <1>3, <1>6, <2>1, <2>2, <3>2
  <2> QED
    BY <2>1, <2>2 DEF Written
<1>9. CASE WriteEvent(p)
  <2>1. /\ UNCHANGED <<call, rest, seq>> /\ pc[p] = "write" /\ pc'[p] = "index"
    BY <1>1, <1>9 DEF WriteEvent, Go, TypeOK
  <2>2. seq[p] \in DOMAIN events' /\ events'[seq[p]] = Head(rest[p])
    BY <1>1, <1>9, WriteKeepsEvents DEF Inv2
  <2>3. Done(p)' = Done(p) /\ Base(p)' = Base(p)
    BY <2>1 DEF Done, Base
  <2> QED
    BY <1>2, <2>1, <2>2, <2>3 DEF Written
<1>10. CASE UpdateIndex(p, FALSE)
  <2>1. UNCHANGED <<events, call, rest, seq>> /\ pc' = pc
    BY <1>1, <1>10 DEF UpdateIndex
  <2>2. Done(p)' = Done(p) /\ Base(p)' = Base(p)
    BY <2>1 DEF Done, Base
  <2> QED
    BY <2>1, <2>2 DEF Written
<1>11. CASE NextEvent(p)
  <2>1. /\ UNCHANGED <<events, call>> /\ pc[p] = "index" /\ pc'[p] = "write"
        /\ seq'[p] = seq[p] + 1 /\ rest'[p] = Tail(rest[p])
    BY <1>1, <1>11 DEF NextEvent, Go, TypeOK, store
  <2>2. rest[p] # << >>
    BY <2>1 DEF Inv3, Inv2, Inv1, SeqInRange
  <2>3. /\ Len(rest[p]) > 0 /\ Len(Tail(rest[p])) = Len(rest[p]) - 1 /\ Head(rest[p]) = rest[p][1]
        /\ \A j \in 1 .. Len(rest[p]) - 1 : Tail(rest[p])[j] = rest[p][j + 1]
    BY <1>3, <2>2, EmptySeq, HeadTailProperties
  <2>4. Done(p) \in Nat /\ Done(p)' = Done(p) + 1 /\ Base(p)' = Base(p) /\ Base(p) \in Nat
    <3>1. Done(p) \in Nat /\ Base(p) \in Nat
      BY <2>1 DEF Written
    <3>2. Done(p)' = Len(call[p].batch) - (Len(rest[p]) - 1)
      BY <2>1, <2>3 DEF Done
    <3>3. Done(p)' = Done(p) + 1
      <4>1. \A l, m \in Nat : l - (m - 1) = (l - m) + 1
        OBVIOUS
      <4>2. Done(p)' = (Len(call[p].batch) - Len(rest[p])) + 1
        BY <1>3, <3>2, <4>1
      <4> QED
        BY <4>2 DEF Done
    <3> QED
      BY <1>3, <1>4, <2>1, <3>1, <3>3
  <2>5. Done(p) = Len(call[p].batch) - Len(rest[p])
    BY DEF Done
  <2> DEFINE d == Done(p)
             b == Base(p)
  <2>6. b = seq[p] - d /\ d \in Nat /\ b \in Nat
    BY <1>4, <2>4
  <2>7. /\ \A i \in DOMAIN call[p].batch :
             /\ i <= d => b + i - 1 \in DOMAIN events /\ events[b + i - 1] = call[p].batch[i]
             /\ i > d => rest[p][i - d] = call[p].batch[i]
        /\ seq[p] \in DOMAIN events /\ events[seq[p]] = rest[p][1]
    BY <2>1, <2>3 DEF Written
  <2> HIDE DEF d, b
  <2>8. ASSUME NEW i \in DOMAIN call[p].batch, i <= d + 1
        PROVE  b + i - 1 \in DOMAIN events /\ events[b + i - 1] = call[p].batch[i]
    <3>1. i \in Nat
      BY <1>3
    <3>2. CASE i <= d
      BY <2>7, <3>2
    <3>3. CASE i = d + 1
      <4>1. \A s, x \in Nat : (s - x) + (x + 1) - 1 = s /\ x + 1 > x /\ (x + 1) - x = 1
        OBVIOUS
      <4>2. b + i - 1 = seq[p] /\ i > d /\ i - d = 1
        BY <1>3, <2>6, <3>3, <4>1
      <4> QED
        BY <2>7, <4>2
    <3> QED
      BY <2>6, <2>8, <3>1, <3>2, <3>3
  <2>9. ASSUME NEW i \in DOMAIN call[p].batch, i > d + 1
        PROVE  Tail(rest[p])[i - (d + 1)] = call[p].batch[i]
    <3>1. i > d /\ i - (d + 1) \in 1 .. Len(rest[p]) - 1 /\ (i - (d + 1)) + 1 = i - d
      <4>1. d = Len(call[p].batch) - Len(rest[p])
        BY <2>5 DEF d
      <4>2. \A l, m, j, x \in Nat : x + m = l /\ j <= l /\ j > x + 1 =>
              j > x /\ j - (x + 1) \in 1 .. m - 1 /\ (j - (x + 1)) + 1 = j - x
        OBVIOUS
      <4>3. /\ i \in Nat /\ i <= Len(call[p].batch) /\ d + Len(rest[p]) = Len(call[p].batch)
            /\ Len(call[p].batch) \in Nat /\ Len(rest[p]) \in Nat
        BY <1>3, <2>6, <4>1
      <4>4. i > d + 1 /\ d \in Nat
        BY <2>6, <2>9
      <4> QED
        BY <4>2, <4>3, <4>4
    <3> QED
      BY <2>3, <2>7, <3>1
  <2>10. \A i \in DOMAIN call[p].batch :
           /\ i <= d + 1 => b + i - 1 \in DOMAIN events /\ events[b + i - 1] = call[p].batch[i]
           /\ i > d + 1 => Tail(rest[p])[i - (d + 1)] = call[p].batch[i]
    BY <2>8, <2>9
  <2>11. Done(p)' = d + 1 /\ Base(p)' = b /\ d + 1 \in Nat /\ b \in Nat
    BY <2>4 DEF d, b
  <2> QED
    BY <2>1, <2>10, <2>11 DEF Written
<1>12. CASE \/ \E c \in Calls : Invoke(p, c)
            \/ AcquireLock(p) \/ ListEvents(p, FALSE) \/ ReadIndex(p, FALSE) \/ ResolveItem(p)
            \/ FinishBatch(p) \/ ReleaseLock(p) \/ JudgeLock(p) \/ BreakLock(p)
  <2>1. pc'[p] \notin {"write", "index"}
    BY <1>1, <1>12 DEF Invoke, AcquireLock, ListEvents, ReadIndex, ResolveItem, FinishBatch,
         ReleaseLock, JudgeLock, BreakLock, Go, TypeOK
  <2> QED
    BY <2>1 DEF Written
<1> QED
  BY <1>1, <1>5, <1>7, <1>8, <1>9, <1>10, <1>11, <1>12, StepsWithoutFaults

LEMMA AnsweredStep ==
  ASSUME NoFaults, Inv3, [Next]_vars, NEW p \in Proc, ReadSound(p), Answered(p)
  PROVE  Answered(p)'
<1>1. TypeOK /\ Inv2
  BY DEF Inv3, Inv2, Inv1
<1>2. CASE UNCHANGED Locals(p)
  BY <1>2 DEF Locals, Answered
<1>3. ASSUME NEW c \in Calls, Invoke(p, c)
      PROVE  Answered(p)'
  <2>1. call'[p] = c /\ pc'[p] = IF c.op = "read" THEN "resolve" ELSE "acquire"
    BY <1>1, <1>3 DEF Invoke, Go, TypeOK
  <2> QED
    BY <2>1 DEF Answered
<1>4. CASE AcquireLock(p) \/ ScanEvents(p, FALSE) \/ WriteEvent(p) \/ UpdateIndex(p, FALSE)
           \/ NextEvent(p)
  <2>1. /\ call'[p] = call[p] /\ pc'[p] \in {"scan", "resolve", "write", "index"}
        /\ pc'[p] = "resolve" => call[p].op = "append_if"
    BY <1>1, <1>4 DEF AcquireLock, ScanEvents, WriteEvent, UpdateIndex, NextEvent, Go, TypeOK
  <2> QED
    BY <2>1 DEF Answered
<1>5. CASE ListEvents(p, FALSE) \/ ReadIndex(p, FALSE) \/ ResolveItem(p)
  <2>1. call'[p] = call[p] /\ pc'[p] \in {"resolve", "load"} /\ pc[p] = "resolve"
    BY <1>1, <1>5 DEF ListEvents, ReadIndex, ResolveItem, Go, TypeOK
  <2> QED
    BY <2>1 DEF Answered
<1>6. CASE LoadEvents(p, FALSE)
  <2>1. pc[p] = "load" /\ call' = call
    BY <1>6 DEF LoadEvents
  <2>2. found[p] \subseteq DOMAIN events
    BY <2>1 DEF ReadSound, FoundSound
  <2>3. Truncated(call[p].query, found[p], call[p].max, call[p].desc) \subseteq found[p]
    BY DEF Truncated, FirstOf
  <2>4. \/ call[p].op = "read"
        \/ pc'[p] = "release" /\ result'[p].status = "condition_failed"
        \/ pc'[p] = "write"
    BY <1>1, <1>6, <2>2, <2>3 DEF LoadEvents, Finish, Go, TypeOK
  <2> QED
    BY <2>1, <2>4 DEF Answered
<1>7. CASE FinishBatch(p)
  <2>1. call' = call /\ pc'[p] = "release" /\ result'[p].status = "ok"
    BY <1>1, <1>7 DEF FinishBatch, Finish, Go, TypeOK
  <2> QED
    BY <2>1 DEF Answered
<1>8. CASE ReleaseLock(p) \/ JudgeLock(p) \/ BreakLock(p)
  <2>1. /\ call' = call /\ result' = result
        /\ \/ pc[p] = "release" /\ pc'[p] = "idle"
           \/ pc'[p] \in {"acquire", "unlink"}
    BY <1>1, <1>8 DEF ReleaseLock, JudgeLock, BreakLock, Go, TypeOK
  <2> QED
    BY <2>1 DEF Answered
<1> QED
  BY <1>1, <1>2, <1>3, <1>4, <1>5, <1>6, <1>7, <1>8, StepsWithoutFaults

LEMMA Inv4Init == Init => Inv4
<1> SUFFICES ASSUME Init PROVE Inv4
  OBVIOUS
<1>1. \A p \in Proc : pc[p] = "idle" /\ call[p].op = "read"
  BY DEF Init, ReadCall
<1> QED
  BY <1>1, Inv3Init, ReadSoundInit DEF Inv4, Written, Answered

LEMMA Inv4Step ==
  ASSUME NoFaults, ConditionsNameTypesOrTags
  PROVE  Inv4 /\ Exact /\ [Next]_vars => Inv4'
<1> SUFFICES ASSUME Inv4, Exact, [Next]_vars PROVE Inv4'
  OBVIOUS
<1>1. IndexStorageReliable /\ Inv3 /\ Inv2
  BY DEF NoFaults, IndexStorageReliable, Inv4, Inv3
<1>2. Inv3'
  BY <1>1, Inv3Step
<1>3. ASSUME NEW p \in Proc
      PROVE  ReadSound(p)' /\ Written(p)' /\ Answered(p)'
  <2>1. ReadSound(p) /\ Written(p) /\ Answered(p)
    BY DEF Inv4
  <2> QED
    BY <1>1, <2>1, ReadSoundStep, WrittenStep, AnsweredStep
<1> QED
  BY <1>2, <1>3 DEF Inv4

-----------------------------------------------------------------------------
(* The abstract log *)

\* p writes a batch that is not in the abstract log yet.
Writing(p) == pc[p] \in {"write", "index"}

\* The settled events are the log up to a writer's batch, of which there is at most one.
LEMMA SettledIsPrefix ==
  ASSUME Inv4
  PROVE  /\ \A p, q \in Proc : Writing(p) /\ Writing(q) => p = q
         /\ \A p \in Proc : Writing(p) => Base(p) \in Nat /\ Base(p) <= End /\ Settled = 0 .. Base(p) - 1
         /\ (\A p \in Proc : ~Writing(p)) => Settled = DOMAIN events
         /\ \E b \in Nat : b <= End /\ Settled = 0 .. b - 1 /\ Cardinality(Settled) = b
<1>1. DOMAIN events = 0 .. End - 1 /\ End \in Nat
  BY LogFacts DEF Inv4, Inv3, Inv2
<1>2. \A p, q \in Proc : Writing(p) /\ Writing(q) => p = q
  BY DEF Inv4, Inv3, Inv2, SequenceReserved, LockHeld, Appending, Writing
<1>3. ASSUME NEW p \in Proc, Writing(p)
      PROVE  Base(p) \in Nat /\ Base(p) <= End /\ Settled = 0 .. Base(p) - 1
  <2>1. Base(p) \in Nat /\ Done(p) \in Nat
    BY <1>3 DEF Inv4, Written, Writing
  <2>2. Base(p) = seq[p] - Done(p) /\ seq[p] \in Nat /\ seq[p] <= End
    BY DEF Base, Done, Inv4, Inv3, Inv2, Inv1, TypeOK, SeqBehind
  <2>3. Base(p) <= End
    BY <1>1, <2>1, <2>2
  <2>4. Settled = {n \in DOMAIN events : n < Base(p)}
    BY <1>2, <1>3 DEF Settled, Writing
  <2> QED
    BY <1>1, <2>1, <2>3, <2>4
<1>4. (\A p \in Proc : ~Writing(p)) => Settled = DOMAIN events
  BY DEF Settled, Writing
<1>5. \E b \in Nat : b <= End /\ Settled = 0 .. b - 1
  BY <1>1, <1>3, <1>4
<1>6. \A b \in Nat : Cardinality(0 .. b - 1) = b
  <2> TAKE b \in Nat
  <2>1. 0 \in Int /\ b - 1 \in Int /\ (b - 1) - 0 + 1 = b
    OBVIOUS
  <2> QED
    BY <2>1, FS_Interval
<1> QED
  BY <1>2, <1>3, <1>4, <1>5, <1>6

\* The abstract log is a sequence of events, in the order of their positions.
LEMMA SettledLogType ==
  ASSUME Inv4
  PROVE  /\ SettledLog \in Seq(Event) /\ Len(SettledLog) = Cardinality(Settled)
         /\ \A n \in Settled : n \in 0 .. Len(SettledLog) - 1 /\ SettledLog[n + 1] = events[n]
         /\ 0 .. Len(SettledLog) - 1 = Settled
<1>1. PICK b \in Nat : b <= End /\ Settled = 0 .. b - 1 /\ Cardinality(Settled) = b
  BY SettledIsPrefix
<1>2. DOMAIN events = 0 .. End - 1 /\ End \in Nat /\ events \in [DOMAIN events -> Event]
  BY LogFacts DEF Inv4, Inv3, Inv2, Inv1, TypeOK
<1>3. \A i \in 1 .. b : i - 1 \in DOMAIN events
  BY <1>1, <1>2
<1>4. SettledLog = [i \in 1 .. b |-> events[i - 1]]
  BY <1>1 DEF SettledLog
<1>5. SettledLog \in [1 .. b -> Event]
  BY <1>2, <1>3, <1>4
<1>6. SettledLog \in Seq(Event) /\ Len(SettledLog) = b
  BY <1>5, SeqDef, LenProperties
<1>7. \A n \in 0 .. b - 1 : n + 1 \in 1 .. b /\ (n + 1) - 1 = n
  OBVIOUS
<1>8. \A n \in 0 .. b - 1 : SettledLog[n + 1] = events[n]
  BY <1>4, <1>7
<1> QED
  BY <1>1, <1>6, <1>8

\* What the log as a function of the positions selects.
LEMMA PositionsOfLog ==
  ASSUME Inv4, NEW q, NEW after
  PROVE  Matching(Dcb!Positions(SettledLog), q, after)
           = {n \in Matching(events, q, after) : n \in Settled}
<1> DEFINE l == Dcb!Positions(SettledLog)
<1>1. DOMAIN l = Settled
  BY SettledLogType DEF Dcb!Positions
<1>2. \A n \in Settled : l[n] = events[n]
  BY SettledLogType DEF Dcb!Positions
<1>3. Settled \subseteq DOMAIN events
  BY DEF Settled
<1> HIDE DEF l
<1>4. Matching(l, q, after) = {n \in Matching(events, q, after) : n \in Settled}
  BY <1>1, <1>2, <1>3 DEF Matching
<1> QED
  BY <1>4 DEF l

\* The abstract log stays as it is while the same events are settled.
LEMMA LogStays ==
  ASSUME Inv4, [Next]_vars, Settled' = Settled
  PROVE  SettledLog' = SettledLog
<1>1. PICK b \in Nat : b <= End /\ Settled = 0 .. b - 1 /\ Cardinality(Settled) = b
  BY SettledIsPrefix
<1>2. \A n \in DOMAIN events : events'[n] = events[n]
  BY StepKeepsEvents DEF Inv4, Inv3, Inv2
<1>3. Settled \subseteq DOMAIN events
  BY DEF Settled
<1>4. \A i \in 1 .. b : events'[i - 1] = events[i - 1]
  <2> TAKE i \in 1 .. b
  <2>1. i - 1 \in 0 .. b - 1
    OBVIOUS
  <2> QED
    BY <1>1, <1>2, <1>3, <2>1
<1>5. SettledLog = [i \in 1 .. b |-> events[i - 1]]
  BY <1>1 DEF SettledLog
<1>6. SettledLog' = [i \in 1 .. b |-> events'[i - 1]]
  BY <1>1 DEF SettledLog
<1> QED
  BY <1>4, <1>5, <1>6

\* Nothing settles while no event is added and nobody starts or stops writing.
LEMMA SameWriters ==
  ASSUME UNCHANGED events,
         \A q \in Proc : (Writing(q)' <=> Writing(q)) /\ (Writing(q) => Base(q)' = Base(q))
  PROVE  Settled' = Settled
BY DEF Settled, Writing

\* The process that acts is the only one whose writing may change.
LEMMA OthersWrite ==
  ASSUME TypeOK, NEW p \in Proc, Acts(p)
  PROVE  \A q \in Proc : q # p =>
           /\ (Writing(q)' <=> Writing(q)) /\ Base(q)' = Base(q)
           /\ call'[q] = call[q] /\ AppendStatus(q)' = AppendStatus(q)
<1> TAKE q \in Proc
<1> HAVE q # p
<1>1. UNCHANGED Locals(q)
  BY OthersKeepLocals
<1> QED
  BY <1>1 DEF Locals, Writing, Base, AppendStatus

\* A write into the batch that is not in the abstract log settles nothing.
LEMMA WriteSettlesNothing ==
  ASSUME Inv4, NEW p \in Proc, WriteEvent(p)
  PROVE  Settled' = Settled
<1>1. TypeOK /\ Inv2
  BY DEF Inv4, Inv3, Inv2, Inv1
<1>2. Acts(p)
  BY DEF Acts, Step
<1>3. /\ Writing(p) /\ Writing(p)' /\ Base(p)' = Base(p)
      /\ DOMAIN events' = DOMAIN events \cup {seq[p]}
  <2>1. pc[p] = "write" /\ pc'[p] = "index" /\ UNCHANGED <<seq, call, rest>>
    BY <1>1 DEF WriteEvent, Go, TypeOK
  <2> QED
    BY <1>1, <2>1, WriteKeepsEvents DEF Inv2, Writing, Base
<1>4. \A q \in Proc : (Writing(q)' <=> Writing(q)) /\ Base(q)' = Base(q)
  BY <1>1, <1>2, <1>3, OthersWrite
<1>5. ~(seq[p] < Base(p))
  <2>1. Base(p) = seq[p] - Done(p) /\ seq[p] \in Nat /\ Done(p) \in Nat
    BY <1>1, <1>3 DEF Base, Done, TypeOK, Inv4, Written, Writing
  <2> QED
    BY <2>1
<1>6. Settled' = {n \in DOMAIN events' : \A q \in Proc : Writing(q) => n < Base(q)}
  BY <1>4 DEF Settled, Writing
<1>7. Settled = {n \in DOMAIN events : \A q \in Proc : Writing(q) => n < Base(q)}
  BY DEF Settled, Writing
<1> QED
  BY <1>3, <1>5, <1>6, <1>7

\* Nor does the step with which an append begins to write, at the end of the log.
LEMMA FirstWriteSettlesNothing ==
  ASSUME Inv4, Inv4', NEW p \in Proc, Acts(p), UNCHANGED events,
         \A q \in Proc : ~Writing(q), pc'[p] = "write", rest'[p] = call'[p].batch
  PROVE  Settled' = Settled
<1>1. TypeOK /\ TypeOK'
  BY DEF Inv4, Inv3, Inv2, Inv1
<1>2. DOMAIN events = 0 .. End - 1 /\ End \in Nat
  BY LogFacts DEF Inv4, Inv3, Inv2
<1>3. seq'[p] = End
  <2>1. Appending(p)'
    BY DEF Appending
  <2> QED
    BY <2>1 DEF Inv4, Inv3, Inv2, SequenceReserved, SequenceFresh, End
<1>4. Base(p)' = End
  <2>1. Len(call'[p].batch) \in Nat
    <3>1. call'[p].batch \in Seq(Event)
      BY <1>1 DEF TypeOK, Call
    <3> QED
      BY <3>1, LenProperties
  <2>2. \A x, l \in Nat : x - (l - l) = x
    OBVIOUS
  <2> QED
    BY <1>2, <1>3, <2>1, <2>2 DEF Base
<1>5. \A q \in Proc : Writing(q)' => q = p
  BY <1>1, OthersWrite
<1>6. Settled' = {n \in DOMAIN events : n < End}
  <2>1. Writing(p)'
    BY DEF Writing
  <2>2. Settled' = {n \in DOMAIN events : \A q \in Proc : Writing(q)' => n < Base(q)'}
    BY DEF Settled, Writing
  <2> QED
    BY <1>4, <1>5, <2>1, <2>2
<1>7. \A n \in DOMAIN events : n < End
  BY <1>2
<1>8. Settled = DOMAIN events
  BY SettledIsPrefix
<1> QED
  BY <1>6, <1>7, <1>8

-----------------------------------------------------------------------------
(* The steps of the abstract specification *)

\* DcbLog's queries are those of the code.
LEMMA SameMatching ==
  \A s, q, after : Dcb!Matching(s, q, after) = Matching(s, q, after)
<1>1. \A it, e : Dcb!ItemMatches(it, e) <=> ItemMatches(it, e)
  BY DEF Dcb!ItemMatches, ItemMatches, Dcb!Range, Range
<1>2. \A q, e : Dcb!Matches(q, e) <=> Matches(q, e)
  BY <1>1 DEF Dcb!Matches, Matches, Dcb!All, All
<1> QED
  BY <1>2 DEF Dcb!Matching, Matching

LEMMA InitRefines == Init => Dcb!DcbInit
<1> SUFFICES ASSUME Init PROVE Dcb!DcbInit
  OBVIOUS
<1>1. DOMAIN events = {}
  BY DEF Init
<1>2. Cardinality(Settled) = 0
  <2>1. Settled = {}
    BY <1>1 DEF Settled
  <2> QED
    BY <2>1, FS_EmptySet
<1>3. SettledLog = << >>
  <2>1. Inv4
    BY Inv4Init
  <2>2. SettledLog \in Seq(Event) /\ Len(SettledLog) = 0
    BY <1>2, <2>1, SettledLogType
  <2> QED
    BY <2>2, EmptySeq
<1>4. \A p \in Proc : call[p].op = "read"
  BY DEF Init, ReadCall
<1>5. [p \in Proc |-> AppendStatus(p)] = [p \in Proc |-> "none"]
  BY <1>4 DEF AppendStatus
<1> QED
  BY <1>3, <1>4, <1>5 DEF Dcb!DcbInit

\* A call is the submission of its request.
LEMMA InvokeRefines ==
  ASSUME Inv4, [Next]_vars, NEW p \in Proc, NEW c \in Calls, Invoke(p, c)
  PROVE  Dcb!Submit(p, c)
<1>1. TypeOK
  BY DEF Inv4, Inv3, Inv2, Inv1
<1>2. Acts(p)
  BY DEF Acts
<1>3. /\ pc[p] = "idle" /\ pc'[p] \in {"resolve", "acquire"} /\ call' = [call EXCEPT ![p] = c]
      /\ call'[p] = c /\ result'[p].status = "none" /\ UNCHANGED events
  BY <1>1 DEF Invoke, Go, Finish, TypeOK, store
<1>4. AppendStatus(p) # "pending"
  BY <1>3 DEF AppendStatus, Inv4, Answered
<1>5. AppendStatus(p)' = IF c.op = "read" THEN "none" ELSE "pending"
  BY <1>3 DEF AppendStatus
<1>6. [q \in Proc |-> AppendStatus(q)]'
        = [[q \in Proc |-> AppendStatus(q)] EXCEPT ![p] = IF c.op = "read" THEN "none" ELSE "pending"]
  BY <1>1, <1>2, <1>5, OthersWrite
<1>7. SettledLog' = SettledLog
  <2>1. ~Writing(p) /\ ~Writing(p)'
    BY <1>3 DEF Writing
  <2>2. Settled' = Settled
    BY <1>1, <1>2, <1>3, <2>1, OthersWrite, SameWriters
  <2> QED
    BY <2>2, LogStays
<1> QED
  BY <1>3, <1>4, <1>6, <1>7 DEF Dcb!Submit

\* The last step of a batch commits it.
LEMMA FinishBatchRefines ==
  ASSUME Inv4, Inv4', NEW p \in Proc, FinishBatch(p)
  PROVE  Dcb!Commit(p)
<1>1. TypeOK /\ DOMAIN events = 0 .. End - 1 /\ End \in Nat
  BY LogFacts DEF Inv4, Inv3, Inv2, Inv1
<1>2. Acts(p)
  BY DEF Acts, Step
<1>3. /\ pc[p] = "write" /\ rest[p] = << >> /\ pc'[p] = "release"
      /\ UNCHANGED <<events, call>> /\ result'[p].status = "ok"
  BY <1>1 DEF FinishBatch, Go, Finish, TypeOK, store
<1>4. /\ Writing(p) /\ Appending(p) /\ result[p].status = "none"
      /\ call[p].batch \in Seq(Event) /\ call[p].op # "read"
  BY <1>1, <1>3 DEF Writing, Appending, Inv4, Inv3, Progress, TypeOK, Call, ReadSound, WritesAppend
<1> DEFINE b == Base(p)
           batch == call[p].batch
<1>5. b \in Nat /\ b + Len(batch) = End /\ Done(p) = Len(batch) /\ Len(batch) \in Nat
  <2>1. seq[p] = End
    BY <1>3, <1>4 DEF Inv4, Inv3, Inv2, SequenceReserved, SequenceFresh, End
  <2>2. Len(batch) \in Nat
    BY <1>4, LenProperties
  <2>3. Done(p) = Len(batch)
    BY <1>3, <2>2 DEF Done
  <2>4. b \in Nat
    BY <1>3 DEF Inv4, Written
  <2>5. b = End - Len(batch)
    BY <2>1, <2>3 DEF Base, Done
  <2> QED
    BY <1>1, <2>2, <2>3, <2>4, <2>5
<1>6. Settled = 0 .. b - 1
  BY <1>4, SettledIsPrefix
<1>7. Settled' = DOMAIN events
  <2>1. \A q \in Proc : ~Writing(q)'
    <3>1. \A q \in Proc : Writing(q) => q = p
      BY <1>4, SettledIsPrefix
    <3> QED
      BY <1>1, <1>2, <1>3, <3>1, OthersWrite DEF Writing
  <2> QED
    BY <1>3, <2>1 DEF Settled, Writing
<1>8. \A i \in DOMAIN batch : events[b + i - 1] = batch[i]
  <2>1. \A i \in DOMAIN batch : i <= Done(p)
    BY <1>4, <1>5, LenProperties
  <2> QED
    BY <1>3, <2>1 DEF Inv4, Written
<1> HIDE DEF b, batch
<1>9. SettledLog' = SettledLog \o batch
  <2>1. Cardinality(0 .. b - 1) = b /\ Cardinality(0 .. End - 1) = End
    <3>1. \A k \in Nat : Cardinality(0 .. k - 1) = k
      <4> TAKE k \in Nat
      <4>1. 0 \in Int /\ k - 1 \in Int /\ (k - 1) - 0 + 1 = k
        OBVIOUS
      <4> QED
        BY <4>1, FS_Interval
    <3> QED
      BY <1>1, <1>5, <3>1
  <2>2. SettledLog \in Seq(Event) /\ Len(SettledLog) = b
    BY <1>6, <2>1, SettledLogType
  <2>4. /\ SettledLog = [i \in 1 .. b |-> events[i - 1]]
        /\ SettledLog' = [i \in 1 .. End |-> events[i - 1]]
    BY <1>1, <1>3, <1>6, <1>7, <2>1 DEF SettledLog
  <2>3. SettledLog' \in Seq(Event) /\ Len(SettledLog') = End
    <3>1. events \in [0 .. End - 1 -> Event]
      BY <1>1 DEF TypeOK
    <3>2. \A i \in 1 .. End : i - 1 \in 0 .. End - 1
      BY <1>1
    <3>3. SettledLog' \in [1 .. End -> Event]
      BY <2>4, <3>1, <3>2
    <3> QED
      BY <1>1, <3>3, SeqDef, LenProperties
  <2>5. batch \in Seq(Event) /\ DOMAIN batch = 1 .. Len(batch)
    BY <1>4, LenProperties DEF batch
  <2>6. /\ SettledLog \o batch \in Seq(Event) /\ Len(SettledLog \o batch) = End
        /\ \A i \in 1 .. End : (SettledLog \o batch)[i] =
             IF i <= b THEN SettledLog[i] ELSE batch[i - b]
    BY <1>5, <2>2, <2>5, ConcatProperties
  <2>7. ASSUME NEW i \in 1 .. End
        PROVE  SettledLog'[i] = (SettledLog \o batch)[i]
    <3>1. SettledLog'[i] = events[i - 1]
      BY <2>4
    <3>2. CASE i <= b
      BY <1>5, <2>4, <2>6, <3>1, <3>2
    <3>3. CASE ~(i <= b)
      <4>1. i - b \in 1 .. Len(batch) /\ b + (i - b) - 1 = i - 1
        BY <1>1, <1>5, <3>3
      <4> QED
        BY <1>8, <2>5, <2>6, <3>1, <3>3, <4>1
    <3> QED
      BY <3>2, <3>3
  <2> QED
    BY <2>3, <2>6, <2>7, SeqEqual
<1>10. Dcb!Allowed(call[p])
  <2>1. ASSUME call[p].op = "append_if"
        PROVE  Matching(Dcb!Positions(SettledLog), call[p].query, call[p].after) = {}
    <3>1. \A n \in Matching(events, call[p].query, call[p].after) : n >= b
      BY <1>3, <2>1 DEF Inv4, Inv3, Honoured, b
    <3>2. \A n \in Settled : n \in Nat /\ n < b
      BY <1>5, <1>6
    <3>3. \A n \in Settled : ~(n >= b)
      BY <1>5, <3>2
    <3> QED
      BY <3>1, <3>3, PositionsOfLog
  <2> QED
    BY <2>1, SameMatching DEF Dcb!Allowed
<1>11. [q \in Proc |-> AppendStatus(q)]' = [[q \in Proc |-> AppendStatus(q)] EXCEPT ![p] = "ok"]
  <2>1. AppendStatus(p)' = "ok"
    BY <1>3, <1>4 DEF AppendStatus
  <2> QED
    BY <1>1, <1>2, <2>1, OthersWrite
<1>12. AppendStatus(p) = "pending"
  BY <1>4 DEF AppendStatus
<1> QED
  BY <1>3, <1>9, <1>10, <1>11, <1>12 DEF Dcb!Commit, batch

\* A step that leaves calls, statuses and settled events alone is none of DcbLog.
LEMMA Unseen ==
  ASSUME Inv4, [Next]_vars, NEW p \in Proc, Acts(p), UNCHANGED call,
         AppendStatus(p)' = AppendStatus(p), Settled' = Settled
  PROVE  UNCHANGED Dcb!dcbVars
<1>1. TypeOK
  BY DEF Inv4, Inv3, Inv2, Inv1
<1>2. \A q \in Proc : AppendStatus(q)' = AppendStatus(q)
  BY <1>1, OthersWrite
<1>3. [q \in Proc |-> AppendStatus(q)]' = [q \in Proc |-> AppendStatus(q)]
  BY <1>2
<1> QED
  BY <1>3, LogStays DEF Dcb!dcbVars

\* Loading the events of a condition refuses the append, or lets it begin to write;
\* loading those of a read is not seen.
LEMMA LoadEventsRefines ==
  ASSUME Inv4, Inv4', [Next]_vars, NEW p \in Proc, LoadEvents(p, FALSE)
  PROVE  Dcb!Refuse(p) \/ UNCHANGED Dcb!dcbVars
<1>1. TypeOK
  BY DEF Inv4, Inv3, Inv2, Inv1
<1>2. Acts(p)
  BY DEF Acts, Step
<1>3. pc[p] = "load" /\ UNCHANGED <<events, call, rest>> /\ ~Writing(p)
  BY DEF LoadEvents, store, Writing
<1>4. ~(~(Truncated(call[p].query, found[p], call[p].max, call[p].desc) \subseteq DOMAIN events))
  <2>1. found[p] \subseteq DOMAIN events
    BY <1>3 DEF Inv4, ReadSound, FoundSound
  <2>2. Truncated(call[p].query, found[p], call[p].max, call[p].desc) \subseteq found[p]
    BY DEF Truncated, FirstOf
  <2> QED
    BY <2>1, <2>2
<1>5. \/ call[p].op = "read" /\ pc'[p] = "idle"
      \/ /\ call[p].op # "read" /\ pc'[p] = "release"
         /\ result'[p].status = "condition_failed"
      \/ call[p].op # "read" /\ pc'[p] = "write" /\ result' = result
  BY <1>1, <1>4 DEF LoadEvents, Finish, Go, TypeOK
<1>6. ASSUME ~Writing(p)' PROVE Settled' = Settled
  BY <1>1, <1>2, <1>3, <1>6, OthersWrite, SameWriters
<1>7. CASE call[p].op = "read" /\ pc'[p] = "idle"
  <2>1. ~Writing(p)' /\ AppendStatus(p)' = AppendStatus(p)
    BY <1>3, <1>7 DEF Writing, AppendStatus
  <2> QED
    BY <1>2, <1>3, <1>6, <2>1, Unseen
<1>8. ASSUME call[p].op # "read"
      PROVE  (\A q \in Proc : ~Writing(q)) /\ call[p].op = "append_if" /\ AppendStatus(p) = "pending"
  <2>1. Appending(p) /\ call[p].op = "append_if" /\ result[p].status = "none"
    BY <1>3, <1>8 DEF Appending, Inv4, Answered, Inv3, Progress
  <2>2. \A q \in Proc : ~Writing(q)
    BY <1>3, <2>1 DEF Inv4, Inv3, Inv2, SequenceReserved, LockHeld, Appending, Writing
  <2> QED
    BY <1>8, <2>1, <2>2 DEF AppendStatus
<1>9. CASE /\ call[p].op # "read" /\ pc'[p] = "release"
           /\ result'[p].status = "condition_failed"
  <2>1. ~Writing(p)' /\ AppendStatus(p)' = "condition_failed"
    BY <1>3, <1>9 DEF Writing, AppendStatus
  <2>2. SettledLog' = SettledLog
    BY <1>6, <2>1, LogStays
  <2>3. [q \in Proc |-> AppendStatus(q)]'
          = [[q \in Proc |-> AppendStatus(q)] EXCEPT ![p] = "condition_failed"]
    BY <1>1, <1>2, <2>1, OthersWrite
  <2>4. Matching(events, call[p].query, call[p].after) # {}
    BY <1>3, <1>9 DEF Inv4, ReadSound, ResultSound
  <2>5. Settled = DOMAIN events
    BY <1>8, <1>9, SettledIsPrefix
  <2>6. ~Dcb!Allowed(call[p])
    <3>1. Matching(Dcb!Positions(SettledLog), call[p].query, call[p].after) # {}
      BY <2>4, <2>5, PositionsOfLog DEF Matching
    <3> QED
      BY <1>8, <1>9, <3>1, SameMatching DEF Dcb!Allowed
  <2> QED
    BY <1>3, <1>8, <1>9, <2>2, <2>3, <2>6 DEF Dcb!Refuse
<1>10. CASE call[p].op # "read" /\ pc'[p] = "write" /\ result' = result
  <2>1. AppendStatus(p)' = AppendStatus(p)
    BY <1>3, <1>10 DEF AppendStatus
  <2>2. rest'[p] = call'[p].batch
    <3>1. Checking(p)
      BY <1>3, <1>8, <1>10 DEF Checking
    <3> QED
      BY <1>3, <3>1 DEF Inv4, Inv3, Progress
  <2>3. Settled' = Settled
    BY <1>2, <1>3, <1>8, <1>10, <2>2, FirstWriteSettlesNothing
  <2> QED
    BY <1>2, <1>3, <2>1, <2>3, Unseen
<1> QED
  BY <1>5, <1>7, <1>9, <1>10

LEMMA StepRefines ==
  ASSUME NoFaults, Inv4, Inv4', [Next]_vars
  PROVE  [Dcb!DcbNext]_Dcb!dcbVars
<1>1. TypeOK /\ \A p \in Proc : Progress(p)
  BY DEF Inv4, Inv3, Inv2, Inv1
<1>2. CASE UNCHANGED vars
  <2>1. UNCHANGED <<events, pc, call, seq, rest, result>>
    BY <1>2 DEF vars, store
  <2>2. Settled' = Settled
    BY <2>1 DEF Settled, Base
  <2>3. SettledLog' = SettledLog
    BY <2>2, LogStays
  <2>4. [q \in Proc |-> AppendStatus(q)]' = [q \in Proc |-> AppendStatus(q)]
    BY <2>1 DEF AppendStatus
  <2> QED
    BY <2>1, <2>3, <2>4 DEF Dcb!dcbVars
<1>3. ASSUME NEW p \in Proc, Acts(p)
      PROVE  [Dcb!DcbNext]_Dcb!dcbVars
  <2>1. ASSUME NEW c \in Calls, Invoke(p, c)
        PROVE  Dcb!DcbNext
    BY <2>1, InvokeRefines DEF Dcb!DcbNext
  <2>2. CASE FinishBatch(p)
    BY <2>2, FinishBatchRefines DEF Dcb!DcbNext
  <2>3. CASE LoadEvents(p, FALSE)
    BY <2>3, LoadEventsRefines DEF Dcb!DcbNext
  <2>4. ASSUME UNCHANGED <<events, call, result>>, Writing(p)' <=> Writing(p),
               Writing(p) => Base(p)' = Base(p)
        PROVE  UNCHANGED Dcb!dcbVars
    <3>1. Settled' = Settled
      BY <1>1, <1>3, <2>4, OthersWrite, SameWriters
    <3>2. AppendStatus(p)' = AppendStatus(p)
      BY <2>4 DEF AppendStatus
    <3> QED
      BY <1>3, <2>4, <3>1, <3>2, Unseen
  <2>5. CASE AcquireLock(p) \/ ListEvents(p, FALSE) \/ ReadIndex(p, FALSE) \/ ResolveItem(p)
             \/ ReleaseLock(p) \/ JudgeLock(p) \/ BreakLock(p)
    <3>1. UNCHANGED <<events, call, result>> /\ ~Writing(p) /\ ~Writing(p)'
      BY <1>1, <2>5 DEF AcquireLock, ListEvents, ReadIndex, ResolveItem, ReleaseLock,
           JudgeLock, BreakLock, Go, TypeOK, store, Writing
    <3> QED
      BY <2>4, <3>1
  <2>6. CASE UpdateIndex(p, FALSE)
    <3>1. UNCHANGED <<events, call, result, pc, seq, rest>>
      BY <2>6 DEF UpdateIndex
    <3> QED
      BY <2>4, <3>1 DEF Writing, Base
  <2>7. CASE NextEvent(p)
    <3>1. /\ UNCHANGED <<events, call, result>> /\ pc[p] = "index" /\ pc'[p] = "write"
          /\ seq'[p] = seq[p] + 1 /\ rest'[p] = Tail(rest[p])
      BY <1>1, <2>7 DEF NextEvent, Go, TypeOK, store
    <3>2. /\ Len(Tail(rest[p])) = Len(rest[p]) - 1 /\ Len(rest[p]) \in Nat
          /\ Len(call[p].batch) \in Nat /\ seq[p] \in Nat
      <4>1. rest[p] # << >>
        BY <3>1 DEF Inv4, Inv3, Inv2, Inv1, SeqInRange
      <4>2. rest[p] \in Seq(Event) /\ call[p].batch \in Seq(Event) /\ seq[p] \in Nat
        BY <1>1 DEF TypeOK, Call
      <4> QED
        BY <4>1, <4>2, HeadTailProperties, LenProperties
    <3>3. \A x, l, m \in Nat : (x + 1) - (l - (m - 1)) = x - (l - m)
      OBVIOUS
    <3>4. Base(p)' = Base(p)
      <4>1. Base(p)' = (seq[p] + 1) - (Len(call[p].batch) - (Len(rest[p]) - 1))
        BY <3>1, <3>2 DEF Base
      <4>2. Base(p)' = seq[p] - (Len(call[p].batch) - Len(rest[p]))
        BY <3>2, <3>3, <4>1
      <4> QED
        BY <4>2 DEF Base
    <3>5. Writing(p) /\ Writing(p)'
      BY <3>1 DEF Writing
    <3> QED
      BY <2>4, <3>1, <3>4, <3>5
  <2>8. CASE WriteEvent(p)
    <3>1. UNCHANGED <<call, result>>
      BY <2>8 DEF WriteEvent
    <3>2. AppendStatus(p)' = AppendStatus(p)
      BY <3>1 DEF AppendStatus
    <3> QED
      BY <1>3, <2>8, <3>1, <3>2, WriteSettlesNothing, Unseen
  <2>9. CASE ScanEvents(p, FALSE)
    <3>1. /\ UNCHANGED <<events, call, result, rest>> /\ pc[p] = "scan"
          /\ pc'[p] \in {"resolve", "write"}
      BY <1>1, <2>9 DEF ScanEvents, Go, TypeOK, store
    <3>2. CASE pc'[p] = "resolve"
      <4>1. ~Writing(p) /\ ~Writing(p)'
        BY <3>1, <3>2 DEF Writing
      <4> QED
        BY <2>4, <3>1, <4>1
    <3>3. CASE pc'[p] = "write"
      <4>1. rest'[p] = call'[p].batch
        BY <1>1, <3>1 DEF Progress
      <4>2. \A q \in Proc : ~Writing(q)
        BY <3>1 DEF Inv4, Inv3, Inv2, SequenceReserved, LockHeld, Appending, Writing
      <4>3. Settled' = Settled
        BY <1>3, <3>1, <3>3, <4>1, <4>2, FirstWriteSettlesNothing
      <4>4. AppendStatus(p)' = AppendStatus(p)
        BY <3>1 DEF AppendStatus
      <4> QED
        BY <1>3, <3>1, <4>3, <4>4, Unseen
    <3> QED
      BY <3>1, <3>2, <3>3
  <2> QED
    <3>1. IndexStorageReliable /\ ~LoadEvents(p, TRUE) /\ ~EventWriteFails(p)
      BY DEF NoFaults, IndexStorageReliable, LoadEvents, EventWriteFails, Storage
    <3> QED
      BY <1>3, <2>1, <2>2, <2>3, <2>5, <2>6, <2>7, <2>8, <2>9, <3>1, OwnSteps
<1> QED
  BY <1>2, <1>3 DEF Next, Acts, Quiet

\* Concurrent appends are serialisable while the storage does not fail: append_async
\* appends the whole batch in one step between its call and its return, on the condition
\* as it is in that step, or refuses because the log violates the condition.  Exact is
\* needed for the refusals only: a colliding index file could name an event that does not
\* match.
THEOREM AppendsAreSerialisable ==
  ASSUME NoFaults, ConditionsNameTypesOrTags
  PROVE  Spec /\ []Exact => ImplementsDcbLog
<1>1. Inv4 /\ Exact /\ [Next]_vars => Inv4'
  BY Inv4Step
<1>2. Inv4 /\ Inv4' /\ [Next]_vars => [Dcb!DcbNext]_Dcb!dcbVars
  BY StepRefines
<1> QED
  BY <1>1, <1>2, Inv4Init, InitRefines, PTL DEF Spec, ImplementsDcbLog, Dcb!DcbSpec
=============================================================================
