--------------------------- MODULE MaintenanceProofs ---------------------------
(***************************************************************************)
(* Proofs about Maintenance for any callers, calls, factories and look-ups.*)
(*                                                                         *)
(* add_tags works from records it has in memory and takes no lock, so what *)
(* holds of it rests on who else does what meanwhile.  Appends add events  *)
(* at the end of the log and touch no other: the first two layers of       *)
(* EventStoreProofs hold here too.  Another add_tags may rewrite an event  *)
(* at any time; `stale` says of which records that is true, and all the    *)
(* others are the events as they are, but for the tags added so far to the *)
(* record in hand (Reads).  A stale record that is written back makes its  *)
(* event torn, and no event but a torn one ever loses a tag                *)
(* (EventsOnlyGrow).                                                       *)
(*                                                                         *)
(* The theorems are about callers that delete a store only while nobody    *)
(* uses it (DeletesAlone); TLC checks the same properties without that.    *)
(***************************************************************************)
EXTENDS Maintenance, ReadProofs

\* The factory makes tags.
FactoryMakesTags == \A p \in Proc : \A e \in Event : Factory(p, e) \in Seq(Tag)

-----------------------------------------------------------------------------
(* The invariant *)

Jobs == {"none", "read", "next", "tags", "lookup", "delete"}

TheRead == ReadAll(<<[types |-> <<TaggedType>>, tags |-> << >>]>>)

\* Types of the variables of add_tags and of get_positions_by_tags_async.
MaintenanceTypes ==
  /\ job \in [Proc -> Jobs]
  /\ records = [p \in Proc |-> records[p]]
  /\ \A p \in Proc : DOMAIN records[p] \subseteq Nat /\ records[p] \in [DOMAIN records[p] -> Event]
  /\ todo \in [Proc -> Seq(Tag)]
  /\ changed \in [Proc -> Nat]
  /\ tally \in [Proc -> [tags : Nat, events : Nat]]
  /\ had = [p \in Proc |-> had[p]]
  /\ \A p \in Proc : had[p] \in [DOMAIN had[p] -> Nat]
  /\ hits \in [Proc -> SUBSET Nat] /\ due \in [Proc -> SUBSET Nat]
  /\ torn \subseteq Nat /\ stale \in [Proc -> SUBSET Nat] /\ spoiled \in BOOLEAN

\* What a process does besides; a store that is deleted is so alone.
Duties ==
  /\ \A p \in Proc : job[p] = "read" => pc[p] \in {"resolve", "load"} /\ call[p] = TheRead
  /\ \A p \in Proc : job[p] \in {"next", "tags", "lookup"} => pc[p] = "idle"
  /\ \A p \in Proc : job[p] = "delete" => Alone(p) /\ (~spoiled => DOMAIN events = {})

\* `long` is `short` and k more tags.
Extends(long, short, k) ==
  Len(long) = Len(short) + k /\ \A i \in DOMAIN short : long[i] = short[i]

\* The event e is what old was and more.
Grown(e, old) == e.type = old.type /\ \E k \in Nat : Extends(e.tags, old.tags, k)

\* The events a maintainer has read are in the log, and those it has not done yet are as
\* it read them, unless another one rewrote them since; so is the record in hand, but for
\* the tags added so far.
Reads(p) ==
  /\ job[p] \in {"next", "tags"} =>
       /\ DOMAIN records[p] \subseteq DOMAIN had[p] /\ DOMAIN had[p] \subseteq DOMAIN events
       /\ \A n \in DOMAIN records[p] \ stale[p] :
            (job[p] = "tags" => n # Current(p)) => records[p][n] = events[n]
  /\ job[p] = "tags" =>
       /\ DOMAIN records[p] # {}
       /\ Current(p) \notin stale[p] =>
            /\ records[p][Current(p)].type = events[Current(p)].type
            /\ Extends(records[p][Current(p)].tags, events[Current(p)].tags, changed[p])

LogLayer == Inv1 /\ SequenceReserved
MInv1 == LogLayer /\ MaintenanceTypes /\ Duties /\ (\A p \in Proc : Reads(p))

-----------------------------------------------------------------------------

\* The events p is done with.
DoneBy(p) == DOMAIN had[p] \ DOMAIN records[p]

\* What the events of S have gained since they had h tags.
Gain(h, log, S) == UNION {{n} \X (h[n] + 1 .. Len(log[n].tags)) : n \in S}

\* The tally counts the events that were begun and, unless one of them was torn or has
\* gone stale, the tags that the events that are done gained.
CountsRight(p) ==
  /\ job[p] = "read" => tally[p] = Tally(0, 0)
  /\ job[p] \in {"next", "tags"} =>
       /\ \A n \in DOMAIN records[p] \ stale[p] : had[p][n] = Len(events[n].tags)
       /\ IsFiniteSet(DOMAIN had[p])
       /\ tally[p].events = Cardinality(DoneBy(p)) + (IF job[p] = "tags" THEN 1 ELSE 0)
       /\ DOMAIN had[p] \cap (torn \cup stale[p]) = {} =>
            /\ IsFiniteSet(Gain(had[p], events, DoneBy(p)))
            /\ tally[p].tags = Cardinality(Gain(had[p], events, DoneBy(p)))

Counted == \A p \in Proc : CountsRight(p)

-----------------------------------------------------------------------------

\* Unless a deletion left something behind the index files name events only.
IndexNames == NobodyDeletes /\ ~spoiled => \A f \in IndexFile : index[f] \subseteq DOMAIN events

\* The event n belongs in the index file f, or will when a record in hand is written.
Belongs(n, f) ==
  \/ f \in Range(FilesOf(events[n]))
  \/ \E p \in Proc : /\ job[p] = "tags" /\ n = Current(p) /\ changed[p] > 0
                     /\ f \in Range(FilesOf(records[p][n]))

IndexMatches ==
  NobodyDeletes /\ ~spoiled /\ (\A p \in Proc : pc[p] # "crashed") =>
    \A f \in IndexFile : \A n \in index[f] \ torn : Belongs(n, f)

IndexKnown == IndexNames /\ IndexMatches /\ PendSoundBut(torn)

-----------------------------------------------------------------------------

\* What p has read is in its index files with the tags it got, or about to be put there by
\* its writer.
RecordsIndexed(p) ==
  job[p] \in {"next", "tags"} =>
    \A n \in DOMAIN records[p] : \A f \in Range(FilesOf(records[p][n])) : Covered(n, f)

\* A store that is being deleted has no events left.
Emptied == \A p \in Proc : job[p] = "delete" => DOMAIN events = {}

\* What a look-up is to find it has found, or will in an index file it has yet to read.
LookUpKnows(p) ==
  IF job[p] = "lookup"
  THEN /\ NobodyDeletes /\ ~spoiled => hits[p] \subseteq DOMAIN events
       /\ \A n \in due[p] : n \in hits[p] \/ \E g \in Range(todo[p]) : n \in index[TagFile[g]]
  ELSE hits[p] = {}

LookUpsKnow == \A p \in Proc : LookUpKnows(p)

Indexed == RestFits /\ IndexComplete /\ Emptied /\ \A p \in Proc : RecordsIndexed(p)

-----------------------------------------------------------------------------

HasKey(tags, g) == \E i \in DOMAIN tags : KeyOf[tags[i]] = KeyOf[g]

KeysOnceIn(tags) == \A i, j \in DOMAIN tags : KeyOf[tags[i]] = KeyOf[tags[j]] => i = j

\* Nobody appends an event that has a key twice.
KeysDiffer == \A c \in Calls : \A i \in DOMAIN c.batch : KeysOnceIn(c.batch[i].tags)

\* With more tags an event gets no other keys from the factory.
FactoryStable ==
  \A p \in Proc : \A e, old \in Event :
    Grown(e, old) =>
      \A g \in Range(Factory(p, e)) : \E h \in Range(Factory(p, old)) : KeyOf[h] = KeyOf[g]

\* The batches, the events and the records in memory have a key once.
KeysOnce ==
  /\ \A n \in DOMAIN events : KeysOnceIn(events[n].tags)
  /\ \A p \in Proc : \A i \in DOMAIN rest[p] : KeysOnceIn(rest[p][i].tags)
  /\ \A p \in Proc : job[p] \in {"next", "tags"} =>
       \A n \in DOMAIN records[p] : KeysOnceIn(records[p][n].tags)

\* The events a maintainer must read: those of its type that were settled when it was called.
Wanted(p) == {n \in DOMAIN events \ torn : n < floor[p] /\ events[n].type = TaggedType}

\* They are in the index file of the type, then among what was read of it, then among the records.
WantedFound(p) ==
  /\ Maintains(p) => floor[p] <= End /\ Wanted(p) \subseteq index[TypeFile[TaggedType]]
  /\ job[p] = "read" /\ pc[p] = "resolve" =>
       item[p] = 1 /\ Len(seen[p]) <= 1 /\ (Len(seen[p]) = 1 => Wanted(p) \subseteq seen[p][1])
  /\ job[p] = "read" /\ pc[p] = "load" => Wanted(p) \subseteq found[p]
  /\ job[p] \in {"next", "tags"} => Wanted(p) \subseteq DOMAIN had[p]

MaintenanceRead == \A p \in Proc : WantedFound(p)

\* The records are what their events were, but for the tags the one in hand got.
OldRecords(p) ==
  job[p] \in {"next", "tags"} =>
    \A n \in DOMAIN records[p] \ torn :
      (job[p] = "tags" /\ n = Current(p) => changed[p] = 0) => Grown(events[n], records[p][n])

HasAllKeys(p, e) == \A g \in Range(Factory(p, e)) : HasKey(e.tags, g)

\* Done events have every key of the factory, the record in hand has those of the tags merged.
HasItsKeys(p) ==
  job[p] \in {"next", "tags"} =>
    /\ \A n \in DoneBy(p) \ torn : HasAllKeys(p, events[n])
    /\ job[p] = "tags" =>
         \A g \in Range(Factory(p, records[p][Current(p)])) :
           \/ HasKey(records[p][Current(p)].tags, g)
           \/ \E h \in Range(todo[p]) : KeyOf[h] = KeyOf[g]

FactoryDone == \A p \in Proc : OldRecords(p) /\ HasItsKeys(p)

-----------------------------------------------------------------------------
(* Steps *)

\* What p does in EventStore that is not the end of a maintainer's read.
StoreActs(p) == StoreStep(p) \/ \E c \in Calls : StoreCall(p, c)

LEMMA MaintenanceCases ==
  ASSUME [MaintenanceNext]_maintenanceVars
  PROVE  \/ UNCHANGED <<vars, maintaining>>
         \/ \E p \in Proc :
              \/ StoreActs(p)
              \/ AddTags(p) \/ ReadRecords(p) \/ NextRecord(p) \/ EndAddTags(p)
              \/ \E failed \in BOOLEAN :
                   \/ MergeTag(p, failed) \/ RewriteEvent(p, failed)
                   \/ DeleteEvents(p, failed) \/ DeleteIndices(p, failed)
              \/ MaintainerDies(p)
              \/ \E tags \in LookUps : LookUpTags(p, tags)
              \/ ReadTagIndex(p) \/ EndLookUp(p)
<1>1. UNCHANGED maintenanceVars => UNCHANGED <<vars, maintaining>>
  BY DEF maintenanceVars
<1>2. MaintenanceQuiet => UNCHANGED <<vars, maintaining>>
  BY DEF MaintenanceQuiet, Quiet
<1> QED
  BY <1>1, <1>2 DEF MaintenanceNext, MaintenanceStep, StoreActs

\* A process that is idle or dead takes no step of a call.
LEMMA StepsOfCalls ==
  ASSUME NEW p \in Proc, Step(p)
  PROVE  pc[p] \notin {"idle", "crashed"} /\ floor' = floor
<1>1. AcquireLock(p) \/ WriteEvent(p) \/ NextEvent(p) \/ FinishBatch(p) \/ ReleaseLock(p)
      => pc[p] \notin {"idle", "crashed"} /\ floor' = floor
  BY DEF AcquireLock, WriteEvent, NextEvent, FinishBatch, ReleaseLock
<1>2. ResolveItem(p) \/ IndexLockFails(p) \/ EventWriteFails(p) \/ IndexWriteFails(p) \/ JudgeLock(p) \/ BreakLock(p)
      => pc[p] \notin {"idle", "crashed"} /\ floor' = floor
  BY DEF ResolveItem, IndexLockFails, EventWriteFails, IndexWriteFails, JudgeLock, BreakLock
<1>3. \A failed \in BOOLEAN :
        ScanEvents(p, failed) \/ ListEvents(p, failed) \/ ReadIndex(p, failed)
          \/ LoadEvents(p, failed) \/ UpdateIndex(p, failed)
        => pc[p] \notin {"idle", "crashed"} /\ floor' = floor
  BY DEF ScanEvents, ListEvents, ReadIndex, LoadEvents, UpdateIndex
<1> QED
  BY <1>1, <1>2, <1>3 DEF Step

\* What a step of EventStore is here.
LEMMA StoreActsFacts ==
  ASSUME DeletesAlone, NEW p \in Proc, StoreActs(p)
  PROVE  /\ Lives(p) /\ Acts(p) /\ Next
         /\ UNCHANGED <<job, records, todo, changed, tally, had, hits, due, torn, stale, spoiled>>
         /\ pc[p] # "crashed" /\ (job[p] = "read" => pc[p] # "load")
         /\ \/ Step(p) /\ pc[p] # "idle"
            \/ pc[p] = "idle" /\ job[p] = "none" /\ (\A q \in Proc : job[q] # "delete")
<1> USE DEF maintaining, counting, looking
<1>1. CASE StoreStep(p)
  <2>1. Step(p)
    BY <1>1 DEF StoreStep
  <2>2. pc[p] \notin {"idle", "crashed"}
    BY <2>1, StepsOfCalls
  <2> QED
    BY <1>1, <2>1, <2>2 DEF StoreStep, Lives, Acts, Next
<1>2. ASSUME NEW c \in Calls, StoreCall(p, c)
      PROVE  /\ Lives(p) /\ Acts(p) /\ Next
             /\ UNCHANGED <<job, records, todo, changed, tally, had, hits, due, torn, stale, spoiled>>
             /\ pc[p] = "idle" /\ job[p] = "none" /\ \A q \in Proc : job[q] # "delete"
  <2>1. Invoke(p, c)
    BY <1>2 DEF StoreCall
  <2>2. Lives(p) /\ Acts(p) /\ Next
    BY <2>1 DEF Lives, Acts, Next
  <2> QED
    BY <1>2, <2>1, <2>2 DEF StoreCall, Invoke, NobodyDeletes
<1> QED
  BY <1>1, <1>2 DEF StoreActs

\* The first record is one of them.
LEMMA CurrentIsARecord ==
  ASSUME MaintenanceTypes, NEW p \in Proc, DOMAIN records[p] # {}
  PROVE  Current(p) \in DOMAIN records[p]
<1>1. DOMAIN records[p] \in SUBSET Nat
  BY DEF MaintenanceTypes
<1>2. \E x \in DOMAIN records[p] : \A y \in DOMAIN records[p] : x <= y
  BY <1>1, LeastNat
<1> QED
  BY <1>2 DEF Current, Min

-----------------------------------------------------------------------------
(* The layers of EventStoreProofs *)

\* A call, whatever it is, does nothing to the store.
LEMMA InvokeKeepsLog ==
  ASSUME LogLayer, NEW p \in Proc, NEW c \in Call, Invoke(p, c)
  PROVE  LogLayer'
<1>1. /\ TypeOK /\ GapFree /\ SeqInRange /\ LockHeld /\ SequenceFresh /\ End \in Nat
      /\ Cardinality(Settled) \in Nat
  BY LogFacts DEF LogLayer, Inv1, SequenceReserved
<1>2. /\ UNCHANGED <<events, index, lock, seq, pend, faults>> /\ calls' = calls + 1
      /\ call' = [call EXCEPT ![p] = c] /\ rest' = [rest EXCEPT ![p] = c.batch]
      /\ pc' = [pc EXCEPT ![p] = IF c.op = "read" THEN "resolve" ELSE "acquire"]
      /\ result' = [result EXCEPT ![p] = [status |-> "none", positions |-> {}]]
      /\ floor' = [floor EXCEPT ![p] = Cardinality(Settled)]
      /\ item' = [item EXCEPT ![p] = 1] /\ seen' = [seen EXCEPT ![p] = << >>]
      /\ found' = [found EXCEPT ![p] = {}]
  BY DEF Invoke, store, Go, Finish
<1>3. c.batch \in Seq(Event) /\ << >> \in Seq(SUBSET Nat)
  BY EmptySeq DEF Call
<1>4. TypeOK'
  <2>1. StoreTypes' /\ WriterTypes' /\ ReaderTypes'
    BY <1>1, <1>2, <1>3 DEF TypeOK, StoreTypes, WriterTypes, ReaderTypes
  <2>2. CallTypes'
    <3>1. pc' \in [Proc -> Labels] /\ call' \in [Proc -> Call]
      BY <1>1, <1>2 DEF TypeOK, Labels
    <3>2. result' \in [Proc -> [status : Statuses, positions : SUBSET Nat]]
      BY <1>1, <1>2 DEF TypeOK, Statuses
    <3>3. floor' \in [Proc -> Nat]
      BY <1>1, <1>2 DEF TypeOK
    <3>4. calls' \in Nat /\ faults' \in Nat
      <4>1. calls \in Nat /\ faults \in Nat
        BY <1>1 DEF TypeOK
      <4> QED
        BY <1>2, <4>1
    <3> QED
      BY <3>1, <3>2, <3>3, <3>4 DEF CallTypes
  <2> QED
    BY <2>1, <2>2 DEF TypeOK, StoreTypes, WriterTypes, ReaderTypes, CallTypes
<1>5. End' = End /\ GapFree'
  BY <1>1, <1>2 DEF End, GapFree
<1>6. /\ pc \in [Proc -> Labels] /\ call \in [Proc -> Call] /\ seq \in [Proc -> Nat]
      /\ rest \in [Proc -> Seq(Event)]
  BY <1>1 DEF TypeOK
<1>7. \A q \in Proc :
        /\ Appending(q)' => pc'[q] = "acquire" \/ Appending(q)
        /\ q # p => pc'[q] = pc[q] /\ rest'[q] = rest[q]
        /\ pc'[p] \in {"resolve", "acquire"} /\ ~Appending(p)'
  BY <1>2, <1>6 DEF Appending
<1>8. SeqInRange'
  BY <1>1, <1>2, <1>5, <1>6, <1>7 DEF SeqInRange, Appending
<1>9. LockHeld' /\ SequenceFresh'
  BY <1>1, <1>2, <1>6, <1>7 DEF LockHeld, SequenceFresh, Appending
<1>10. UnlinkAlone'
  <2>1. UnlinkAlone /\ pc[p] = "idle"
    BY DEF LogLayer, Inv1, Invoke
  <2> QED
    BY <1>2, <1>6, <2>1 DEF UnlinkAlone
<1> QED
  BY <1>1, <1>4, <1>5, <1>8, <1>9, <1>10 DEF LogLayer, Inv1, SequenceReserved

\* Neither does a step that only touches what is in the files, or only a process outside append_async dies.
LEMMA OthersKeepLog ==
  ASSUME LogLayer,
         UNCHANGED <<lock, call, seq, rest, pend, item, seen, found, result, floor>>,
         DOMAIN events' = DOMAIN events, events' \in [DOMAIN events -> Event],
         index' \in [IndexFile -> SUBSET Nat], calls' \in Nat, faults' \in Nat,
         UNCHANGED pc \/ ("crash" \in FaultKinds /\ \E p \in Proc : Go(p, "crashed") /\ ~Appending(p))
  PROVE  LogLayer' /\ End' = End
<1>1. /\ TypeOK /\ GapFree /\ SeqInRange /\ LockHeld /\ SequenceFresh /\ End \in Nat /\ UnlinkAlone
  BY DEF LogLayer, Inv1, SequenceReserved
<1>2. pc \in [Proc -> Labels]
  BY <1>1 DEF TypeOK
<1>3. \A q \in Proc : pc'[q] = pc[q] \/ pc'[q] = "crashed"
  BY <1>2 DEF Go
<1>4. pc' \in [Proc -> Labels]
  BY <1>2 DEF Go, Labels
<1>5. TypeOK'
  BY <1>1, <1>4 DEF TypeOK
<1>6. End' = End /\ GapFree' /\ NextPosition(DOMAIN events') = NextPosition(DOMAIN events)
  BY <1>1 DEF End, GapFree
<1>7. \A q \in Proc : Appending(q)' => Appending(q) /\ pc'[q] = pc[q]
  BY <1>3 DEF Appending
<1>8. SeqInRange'
  BY <1>1, <1>3, <1>6, <1>7 DEF SeqInRange
<1>9. LockHeld' /\ SequenceFresh'
  BY <1>1, <1>3, <1>6, <1>7 DEF LockHeld, SequenceFresh
<1>10. UnlinkAlone'
  <2>1. \A q \in Proc : pc'[q] = "crashed" => pc[q] = "crashed" \/ "crash" \in FaultKinds
    BY <1>3
  <2>2. \A q \in Proc : (pc'[q] = "unlink" => pc[q] = "unlink") /\ (pc[q] = "crashed" => pc'[q] = "crashed")
    BY <1>3
  <2> QED
    BY <1>1, <2>1, <2>2 DEF UnlinkAlone
<1> QED
  BY <1>1, <1>5, <1>6, <1>8, <1>9, <1>10 DEF LogLayer, Inv1, SequenceReserved

\* Nor does deleting the log while nobody appends.
LEMMA DeletionKeepsLog ==
  ASSUME LogLayer, DeletesAlone, NEW p \in Proc, NEW failed \in BOOLEAN, DeleteEvents(p, failed)
  PROVE  LogLayer'
<1>1. TypeOK /\ UnlinkAlone
  BY DEF LogLayer, Inv1
<1>2. /\ \A q \in Proc : pc[q] \in {"idle", "crashed"}
      /\ calls' = calls + 1 /\ calls \in Nat
      /\ UNCHANGED <<index, lock, pc, call, seq, rest, pend, item, seen, found, result, floor>>
  BY <1>1 DEF DeleteEvents, Alone, resolving, TypeOK
<1>f. faults' \in Nat
  <2>1. faults \in Nat /\ (faults' = faults \/ faults' = faults + 1)
    BY <1>1 DEF DeleteEvents, Storage, TypeOK
  <2> QED
    BY <2>1
<1>7. CASE failed
  <2>0. events' = events
    BY <1>7 DEF DeleteEvents
  <2>1. /\ DOMAIN events' = DOMAIN events /\ events' \in [DOMAIN events -> Event]
        /\ index' \in [IndexFile -> SUBSET Nat]
    BY <1>1, <1>2, <2>0 DEF TypeOK
  <2>2. calls' \in Nat
    BY <1>2
  <2> QED
    BY <1>2, <1>f, <2>1, <2>2, OthersKeepLog
<1>8. CASE ~failed
  <2>1. events' = << >>
    BY <1>8 DEF DeleteEvents
  <2>2. DOMAIN events' = {} /\ IsFiniteSet(DOMAIN events') /\ events' \in [DOMAIN events' -> Event]
    BY <2>1, FS_EmptySet
  <2>3. TypeOK'
    <3>1. StoreTypes'
      BY <1>1, <1>2, <2>2 DEF TypeOK, StoreTypes
    <3>2. CallTypes'
      <4>1. calls' \in Nat
        BY <1>2
      <4> QED
        BY <1>1, <1>2, <1>f, <4>1 DEF TypeOK, CallTypes
    <3>3. WriterTypes' /\ ReaderTypes'
      BY <1>1, <1>2 DEF TypeOK, WriterTypes, ReaderTypes
    <3> QED
      BY <3>1, <3>2, <3>3 DEF TypeOK, StoreTypes, WriterTypes, ReaderTypes, CallTypes
  <2>4. End' = 0 /\ GapFree'
    BY <2>2 DEF End, GapFree, NextPosition
  <2>5. \A q \in Proc : ~Appending(q)' /\ pc'[q] \in {"idle", "crashed"}
    BY <1>2 DEF Appending
  <2>6. UnlinkAlone'
    BY <1>1, <1>2 DEF UnlinkAlone
  <2> QED
    BY <2>3, <2>4, <2>5, <2>6 DEF LogLayer, Inv1, SequenceReserved, SeqInRange, LockHeld, SequenceFresh
<1> QED
  BY <1>7, <1>8

-----------------------------------------------------------------------------
(* What the steps of a maintainer do *)

\* The call of add_tags is one that anybody may make.
LEMMA TheReadIsACall == TheRead \in Call /\ TheRead.op = "read"
<1>1. TaggedType \in Type
  BY MaintenanceAssumption
<1>2. [types |-> <<TaggedType>>, tags |-> << >>] \in QueryItem
  BY <1>1 DEF QueryItem
<1> QED
  BY <1>2 DEF TheRead, ReadAll, ReadCall, Call, Query

\* The end of the read: the records are events of the log that the read resolved, all
\* of those that have the type.
LEMMA ReadRecordsStep ==
  ASSUME TypeOK, NEW p \in Proc, call[p] = TheRead, ReadRecords(p)
  PROVE  /\ Lives(p) /\ job[p] = "read" /\ pc[p] = "load"
         /\ UNCHANGED <<events, index, lock, call, seq, rest, pend, item, seen, found, floor>>
         /\ UNCHANGED <<todo, changed, tally, torn, stale, spoiled, hits, due>>
         /\ pc' = [pc EXCEPT ![p] = "idle"]
         /\ \/ job' = [job EXCEPT ![p] = "none"] /\ UNCHANGED <<records, had>>
            \/ LET S == result'[p].positions IN
                 /\ S \subseteq DOMAIN events
                 /\ \A n \in found[p] : n \in DOMAIN events /\ events[n].type = TaggedType => n \in S
                 /\ records' = [records EXCEPT ![p] = [n \in S |-> events[n]]]
                 /\ had' = [had EXCEPT ![p] = [n \in S |-> Len(events[n].tags)]]
                 /\ job' = [job EXCEPT ![p] = "next"]
<1>1. PICK failed \in BOOLEAN : LoadEvents(p, failed)
  BY DEF ReadRecords
<1>2. Lives(p)
  BY <1>1 DEF Lives, Step
<1>3. /\ job[p] = "read" /\ pc[p] = "load"
      /\ UNCHANGED <<events, index, lock, call, seq, rest, pend, item, seen, found, floor>>
      /\ UNCHANGED <<todo, changed, tally, torn, stale, spoiled, hits, due>>
  BY <1>1 DEF ReadRecords, LoadEvents, store, resolving, looking
<1> DEFINE q == TheRead.query
           kept == Truncated(q, found[p], None, FALSE)
           got == Returned(events, q, found[p], None, FALSE)
<1>4. TheRead.op = "read" /\ TheRead.max = None /\ TheRead.desc = FALSE
  BY DEF TheRead, ReadAll, ReadCall
<1>5. /\ pc' = [pc EXCEPT ![p] = "idle"]
      /\ \/ result'[p].status = "io_error"
         \/ /\ IF failed THEN kept = {} ELSE kept \subseteq DOMAIN events
            /\ result'[p].status = "ok" /\ result'[p].positions = got
  <2>1. pc' = [pc EXCEPT ![p] = "idle"]
    BY <1>1, <1>4 DEF LoadEvents, Go
  <2>2. result \in [Proc -> [status : Statuses, positions : SUBSET Nat]]
    BY DEF TypeOK
  <2> DEFINE bad == IF failed THEN kept # {} ELSE ~(kept \subseteq DOMAIN events)
  <2>3. \/ bad /\ Finish(p, "io_error", {})
        \/ ~bad /\ Finish(p, "ok", got)
    BY <1>1, <1>4 DEF LoadEvents
  <2> HIDE DEF got, kept
  <2> QED
    BY <2>1, <2>2, <2>3 DEF Finish
<1>6. kept = found[p]
  BY DEF Truncated
<1>7. got \subseteq found[p]
  BY ReturnedSubset
<1>8. /\ q # All /\ DOMAIN q = {1} /\ q[1].types = <<TaggedType>> /\ q[1].tags = << >>
  BY DEF TheRead, ReadAll, ReadCall, All
<1>9. \A n \in found[p] : n \in DOMAIN events /\ events[n].type = TaggedType => n \in got
  <2>1. \A n : events[n].type = TaggedType => Matches(q, events[n])
    <3>1. Range(<<TaggedType>>) = {TaggedType} /\ Range(<< >>) = {}
      BY DEF Range
    <3> QED
      BY <1>8, <3>1 DEF Matches, ItemMatches
  <2>2. got = found[p] \/ got = {n \in found[p] : Matches(q, events[n])}
    BY <1>6, <1>8 DEF Returned
  <2> HIDE DEF got, q
  <2> QED
    BY <2>1, <2>2
<1> HIDE DEF got, kept, q
<1>10. CASE result'[p].status = "io_error"
  <2>1. job' = [job EXCEPT ![p] = "none"] /\ UNCHANGED <<records, had>>
    BY <1>10 DEF ReadRecords
  <2> QED
    BY <1>2, <1>3, <1>5, <2>1
<1>11. CASE result'[p].status = "ok" /\ result'[p].positions = got /\ found[p] \subseteq DOMAIN events
  <2>1. /\ records' = [records EXCEPT ![p] = [n \in got |-> events[n]]]
        /\ had' = [had EXCEPT ![p] = [n \in got |-> Len(events[n].tags)]]
        /\ job' = [job EXCEPT ![p] = "next"]
    BY <1>11 DEF ReadRecords, Restrict
  <2> QED
    BY <1>2, <1>3, <1>5, <1>7, <1>9, <1>11, <2>1
<1> QED
  BY <1>5, <1>6, <1>10, <1>11

\* An event with one more tag.
Tagged(e, g) == [type |-> e.type, tags |-> Append(e.tags, g)]

\* One tag: the record in hand has its key, or gets it.
LEMMA MergeTagStep ==
  ASSUME MaintenanceTypes, NEW p \in Proc, DOMAIN records[p] # {}, NEW failed \in BOOLEAN, MergeTag(p, failed)
  PROVE  LET c == Current(p)
             e == records[p][c]
             g == Head(todo[p])
         IN  /\ job[p] = "tags" /\ todo[p] # << >>
             /\ UNCHANGED <<events, lock, pc, call, seq, rest, pend, item, seen, found, result, floor>>
             /\ UNCHANGED <<calls, job, tally, had, hits, due, stale, spoiled>>
             /\ todo' = [todo EXCEPT ![p] = Tail(todo[p])]
             /\ c \in DOMAIN records[p] /\ e \in Event /\ g \in Tag
             /\ \/ KeyOf[g] \in Keys(e) /\ UNCHANGED <<index, records, changed, faults, torn>>
                \/ /\ KeyOf[g] \notin Keys(e) /\ Tagged(e, g) \in Event
                   /\ records' = [records EXCEPT ![p] = [records[p] EXCEPT ![c] = Tagged(e, g)]]
                   /\ UpdateTagIndex(TagFile[g], c, failed)
                   /\ changed' = [changed EXCEPT ![p] = changed[p] + 1]
<1> DEFINE c == Current(p)
           e == records[p][c]
           g == Head(todo[p])
<1>1. /\ job[p] = "tags" /\ todo[p] # << >>
      /\ UNCHANGED <<events, lock, pc, call, seq, rest, pend, item, seen, found, result, floor>>
      /\ UNCHANGED <<calls, job, tally, had, hits, due, stale, spoiled>>
      /\ todo' = [todo EXCEPT ![p] = Tail(todo[p])]
  BY DEF MergeTag, resolving, looking
<1>2. c \in DOMAIN records[p]
  BY CurrentIsARecord
<1>3. e \in Event
  BY <1>2 DEF MaintenanceTypes
<1>4. todo[p] \in Seq(Tag)
  BY DEF MaintenanceTypes
<1>5. g \in Tag
  BY <1>1, <1>4, HeadTailProperties
<1>6. CASE KeyOf[g] \in Keys(e)
  BY <1>1, <1>2, <1>3, <1>5, <1>6 DEF MergeTag
<1>7. CASE KeyOf[g] \notin Keys(e)
  <2>1. /\ records' = [records EXCEPT ![p][c].tags = Append(@, g)]
        /\ UpdateTagIndex(TagFile[g], c, failed)
        /\ changed' = [changed EXCEPT ![p] = changed[p] + 1]
    BY <1>7 DEF MergeTag
  <2>2. e = [type |-> e.type, tags |-> e.tags] /\ e.type \in Type /\ e.tags \in Seq(Tag)
    BY <1>3 DEF Event
  <2>3. [e EXCEPT !.tags = Append(e.tags, g)] = Tagged(e, g)
    <3>1. \A x \in Event : \A s : [x EXCEPT !.tags = s] = [type |-> x.type, tags |-> s]
      BY DEF Event
    <3> QED
      BY <1>3, <3>1, Zenon DEF Tagged
  <2>4. records' = [records EXCEPT ![p] = [records[p] EXCEPT ![c] = [e EXCEPT !.tags = Append(e.tags, g)]]]
    BY <2>1, Zenon
  <2>5. Tagged(e, g) \in Event
    <3>1. Append(e.tags, g) \in Seq(Tag)
      BY <1>5, <2>2, AppendProperties
    <3> QED
      BY <2>2, <3>1 DEF Tagged, Event
  <2> QED
    BY <1>1, <1>2, <1>3, <1>5, <1>7, <2>1, <2>3, <2>4, <2>5
<1> QED
  BY <1>6, <1>7

\* The index of the tag: other positions go with a file that is started afresh only.
LEMMA TagIndexStep ==
  ASSUME TypeOK, NEW f \in IndexFile, NEW n \in Nat, NEW failed \in BOOLEAN, UpdateTagIndex(f, n, failed)
  PROVE  /\ index' \in [IndexFile -> SUBSET Nat]
         /\ faults' \in Nat
         /\ torn \subseteq torn' /\ (torn \subseteq Nat => torn' \subseteq Nat)
         /\ \A g \in IndexFile : g # f => index'[g] = index[g]
         /\ index'[f] \subseteq index[f] \cup {n}
         /\ NestedLockNames /\ "tag_index" \notin FaultKinds =>
              index' = [index EXCEPT ![f] = index[f] \cup {n}] /\ UNCHANGED torn
<1>1. index \in [IndexFile -> SUBSET Nat] /\ faults \in Nat
  BY DEF TypeOK
<1>2. CASE failed
  <2>1. /\ index' = index \/ index' = [index EXCEPT ![f] = {n}]
        /\ torn' = torn \cup ((index[f] \cup {n}) \ index'[f])
        /\ faults' = faults \/ faults' = faults + 1
        /\ ~NestedLockNames \/ "tag_index" \in FaultKinds
    BY <1>2 DEF UpdateTagIndex, Storage
  <2>2. faults' \in Nat
    BY <1>1, <2>1
  <2> QED
    BY <1>1, <2>1, <2>2
<1>3. CASE ~failed
  <2>1. /\ index' = [index EXCEPT ![f] = index[f] \cup {n}] /\ UNCHANGED <<faults, torn>>
    BY <1>3 DEF UpdateTagIndex
  <2> QED
    BY <1>1, <2>1
<1> QED
  BY <1>2, <1>3

LEMMA TallyWith ==
  ASSUME NEW x \in [tags : Nat, events : Nat], NEW k
  PROVE  [x EXCEPT !.tags = k] = Tally(k, x.events) /\ [x EXCEPT !.events = k] = Tally(x.tags, k)
BY DEF Tally

\* The end of a record: the event is the record, or stays.
LEMMA RewriteEventStep ==
  ASSUME MaintenanceTypes, NEW p \in Proc, DOMAIN records[p] # {},
         NEW failed \in BOOLEAN, RewriteEvent(p, failed)
  PROVE  LET c == Current(p) IN
           /\ job[p] = "tags" /\ todo[p] = << >> /\ c \in DOMAIN records[p]
           /\ UNCHANGED <<index, lock, pc, call, seq, rest, pend, item, seen, found, result, floor>>
           /\ UNCHANGED <<calls, todo, changed, had, hits, due, spoiled>>
           /\ records' = [records EXCEPT ![p] = [n \in DOMAIN records[p] \ {c} |-> records[p][n]]]
           /\ tally' = [tally EXCEPT ![p] = Tally(tally[p].tags + changed[p], tally[p].events)]
           /\ job' = [job EXCEPT ![p] = "next"]
           /\ \/ failed /\ UNCHANGED <<events, stale>> /\ torn' = torn \cup {c}
              \/ ~failed /\ UNCHANGED torn /\ changed[p] <= 0 /\ UNCHANGED <<events, stale>>
              \/ /\ ~failed /\ changed[p] > 0
                 /\ torn' = IF c \in stale[p] THEN torn \cup {c} ELSE torn
                 /\ WriteRecord(p, records[p][c]) /\ stale' = Overwritten(p)
           /\ faults' = faults \/ faults' = faults + 1
<1> DEFINE c == Current(p)
<1>1. c \in DOMAIN records[p]
  BY CurrentIsARecord
<1>2. changed[p] \in Nat
  BY DEF MaintenanceTypes
<1>3. /\ job[p] = "tags" /\ todo[p] = << >>
      /\ UNCHANGED <<index, lock, pc, call, seq, rest, pend, item, seen, found, result, floor>>
      /\ UNCHANGED <<calls, todo, changed, had, hits, due, spoiled>>
      /\ job' = [job EXCEPT ![p] = "next"]
  BY DEF RewriteEvent, NextAfterRewrite, resolving, looking
<1>4. records' = [records EXCEPT ![p] = [n \in DOMAIN records[p] \ {c} |-> records[p][n]]]
  BY DEF RewriteEvent, NextAfterRewrite, Restrict
<1>5. tally' = [tally EXCEPT ![p] = Tally(tally[p].tags + changed[p], tally[p].events)]
  <2>1. tally' = [tally EXCEPT ![p] = [tally[p] EXCEPT !.tags = @ + changed[p]]]
    BY Zenon DEF RewriteEvent, NextAfterRewrite
  <2>2. tally[p] \in [tags : Nat, events : Nat]
    BY DEF MaintenanceTypes
  <2> QED
    BY <2>1, <2>2, TallyWith, Zenon
<1>6. faults' = faults \/ faults' = faults + 1
  BY DEF RewriteEvent, Storage
<1>7. CASE failed
  <2>1. UNCHANGED <<events, stale>> /\ torn' = torn \cup {c}
    BY <1>7 DEF RewriteEvent
  <2> QED
    BY <1>1, <1>3, <1>4, <1>5, <1>6, <1>7, <2>1
<1>8. CASE ~failed /\ changed[p] > 0
  <2>1. /\ torn' = IF c \in stale[p] THEN torn \cup {c} ELSE torn
        /\ WriteRecord(p, records[p][c]) /\ stale' = Overwritten(p)
    BY <1>8 DEF RewriteEvent
  <2> QED
    BY <1>1, <1>3, <1>4, <1>5, <1>6, <1>8, <2>1
<1>9. CASE ~failed /\ ~(changed[p] > 0)
  <2>1. UNCHANGED torn /\ UNCHANGED <<events, stale>>
    BY <1>9 DEF RewriteEvent
  <2>2. changed[p] <= 0
    BY <1>2, <1>9
  <2> QED
    BY <1>1, <1>3, <1>4, <1>5, <1>6, <1>9, <2>1, <2>2
<1> QED
  BY <1>7, <1>8, <1>9

\* A record that is written over its event.
LEMMA Written ==
  ASSUME TypeOK, NEW p \in Proc, NEW e, Current(p) \in DOMAIN events, WriteRecord(p, e)
  PROVE  events' = [events EXCEPT ![Current(p)] = e]
<1>1. events = [n \in DOMAIN events |-> events[n]]
  BY DEF TypeOK
<1> QED
  BY <1>1 DEF WriteRecord

-----------------------------------------------------------------------------
(* The first layer is inductive *)

\* Both layers of EventStoreProofs hold next to maintenance.
LEMMA LogLayerStep ==
  ASSUME ListingsSucceed, SafeLock, DeletesAlone, MInv1, [MaintenanceNext]_maintenanceVars
  PROVE  LogLayer'
<1>1. /\ LogLayer /\ MaintenanceTypes /\ Duties /\ TypeOK /\ \A p \in Proc : Reads(p)
  BY DEF MInv1, LogLayer, Inv1
<1>0. MaintenanceTypes
  BY <1>1
<1>2. /\ events \in [DOMAIN events -> Event] /\ index \in [IndexFile -> SUBSET Nat]
      /\ calls \in Nat /\ faults \in Nat
  BY <1>1 DEF TypeOK
<1>3. ASSUME [Next]_vars
      PROVE  LogLayer'
  <2>1. Inv1 /\ SequenceReserved
    BY <1>1 DEF LogLayer
  <2>2. Inv1'
    BY <1>3, <2>1, Inv1Step
  <2>3. LockHeld' /\ SequenceFresh'
    BY <1>3, <2>1, LockHeldStep, SequenceFreshStep
  <2> QED
    BY <2>2, <2>3 DEF LogLayer, SequenceReserved
<1>4. CASE UNCHANGED vars
  BY <1>3, <1>4
<1>5. ASSUME NEW p \in Proc, StoreActs(p)
      PROVE  LogLayer'
  BY <1>3, <1>5, StoreActsFacts
<1>6. ASSUME NEW p \in Proc, AddTags(p)
      PROVE  LogLayer'
  BY <1>1, <1>6, TheReadIsACall, InvokeKeepsLog DEF AddTags, TheRead
<1>7. ASSUME NEW p \in Proc, ReadRecords(p)
      PROVE  LogLayer'
  <2>1. call[p] = TheRead
    BY <1>1, <1>7 DEF ReadRecords, Duties
  <2>2. Lives(p)
    BY <1>1, <1>7, <2>1, ReadRecordsStep
  <2>3. Next
    BY <2>2 DEF Lives, Next
  <2> QED
    BY <1>3, <2>3
<1>8. ASSUME NEW p \in Proc, NextRecord(p) \/ EndAddTags(p) \/ ReadTagIndex(p) \/ EndLookUp(p)
      PROVE  LogLayer'
  BY <1>4, <1>8 DEF NextRecord, EndAddTags, ReadTagIndex, EndLookUp
<1>9. ASSUME NEW p \in Proc, NEW failed \in BOOLEAN, MergeTag(p, failed)
      PROVE  LogLayer'
  <2>1. job[p] = "tags"
    BY <1>9 DEF MergeTag
  <2>2. DOMAIN records[p] # {}
    BY <1>1, <2>1 DEF Reads
  <2> DEFINE c == Current(p)
             f == TagFile[Head(todo[p])]
  <2>3. c \in Nat /\ Head(todo[p]) \in Tag
    <3>1. c \in DOMAIN records[p] /\ Head(todo[p]) \in Tag
      BY <1>1, <1>9, <2>2, MergeTagStep
    <3>2. DOMAIN records[p] \subseteq Nat
      BY <1>1 DEF MaintenanceTypes
    <3> QED
      BY <3>1, <3>2
  <2>4. f \in IndexFile
    BY <2>3, FilesAssumption
  <2>5. /\ UNCHANGED <<events, lock, pc, call, seq, rest, pend, item, seen, found, result, floor, calls>>
        /\ UNCHANGED <<index, faults>> \/ UpdateTagIndex(f, c, failed)
    BY <1>1, <1>9, <2>2, MergeTagStep
  <2> HIDE DEF c, f
  <2>6. index' \in [IndexFile -> SUBSET Nat] /\ faults' \in Nat
    BY <1>1, <1>2, <2>3, <2>4, <2>5, TagIndexStep
  <2>7. calls' \in Nat /\ events' \in [DOMAIN events -> Event] /\ DOMAIN events' = DOMAIN events
    BY <1>2, <2>5
  <2> QED
    BY <1>1, <2>5, <2>6, <2>7, OthersKeepLog
<1>10. ASSUME NEW p \in Proc, NEW failed \in BOOLEAN, RewriteEvent(p, failed)
       PROVE  LogLayer'
  <2>1. job[p] = "tags"
    BY <1>10 DEF RewriteEvent
  <2>2. DOMAIN records[p] # {}
    BY <1>1, <2>1 DEF Reads
  <2> DEFINE c == Current(p)
  <2>3. c \in DOMAIN records[p]
    BY <1>1, <2>2, CurrentIsARecord
  <2>4. c \in DOMAIN events /\ records[p][c] \in Event
    BY <1>1, <2>1, <2>3 DEF Reads, MaintenanceTypes
  <2>5. /\ UNCHANGED <<index, lock, pc, call, seq, rest, pend, item, seen, found, result, floor, calls>>
        /\ UNCHANGED events \/ WriteRecord(p, records[p][c])
        /\ faults' = faults \/ faults' = faults + 1
    BY <1>0, <1>10, <2>2, RewriteEventStep
  <2>8. UNCHANGED events \/ events' = [events EXCEPT ![c] = records[p][c]]
    BY <1>1, <2>4, <2>5, Written
  <2> HIDE DEF c
  <2>6. DOMAIN events' = DOMAIN events /\ events' \in [DOMAIN events -> Event]
    BY <1>2, <2>4, <2>8
  <2>7. faults' \in Nat /\ calls' \in Nat /\ index' \in [IndexFile -> SUBSET Nat]
    BY <1>2, <2>5
  <2> QED
    BY <1>1, <2>5, <2>6, <2>7, OthersKeepLog
<1>11. ASSUME NEW p \in Proc, MaintainerDies(p)
       PROVE  LogLayer'
  <2>1. /\ UNCHANGED <<events, index, lock, call, seq, rest, pend, item, seen, found, result, floor, calls>>
        /\ Go(p, "crashed") /\ faults' = faults + 1 /\ "crash" \in FaultKinds
        /\ job[p] \in {"read", "next", "tags", "delete"}
    BY <1>11 DEF MaintainerDies, Maintains, Storage, store, resolving
  <2>2. ~Appending(p)
    <3>1. CASE job[p] = "read"
      BY <1>1, <3>1, TheReadIsACall DEF Duties, Appending
    <3>2. CASE job[p] # "read"
      BY <1>1, <2>1, <3>2 DEF Duties, Alone, Appending
    <3> QED
      BY <3>1, <3>2
  <2>3. faults' \in Nat /\ calls' \in Nat /\ events' \in [DOMAIN events -> Event]
        /\ DOMAIN events' = DOMAIN events /\ index' \in [IndexFile -> SUBSET Nat]
    BY <1>2, <2>1
  <2> QED
    BY <1>1, <2>1, <2>2, <2>3, OthersKeepLog
<1>12. ASSUME NEW p \in Proc, NEW tags \in LookUps, LookUpTags(p, tags)
       PROVE  LogLayer'
  <2>1. /\ UNCHANGED <<events, index, lock, pc, call, seq, rest, pend, item, seen, found, result, floor, faults>>
        /\ calls' = calls + 1
    BY <1>12 DEF LookUpTags, store, resolving
  <2>2. calls' \in Nat /\ faults' \in Nat /\ events' \in [DOMAIN events -> Event]
        /\ DOMAIN events' = DOMAIN events /\ index' \in [IndexFile -> SUBSET Nat]
    BY <1>2, <2>1
  <2> QED
    BY <1>1, <2>1, <2>2, OthersKeepLog
<1>13. ASSUME NEW p \in Proc, NEW failed \in BOOLEAN, DeleteEvents(p, failed)
       PROVE  LogLayer'
  BY <1>1, <1>13, DeletionKeepsLog
<1>14. ASSUME NEW p \in Proc, NEW failed \in BOOLEAN, DeleteIndices(p, failed)
       PROVE  LogLayer'
  <2>1. /\ UNCHANGED <<events, lock, pc, call, seq, rest, pend, item, seen, found, result, floor, calls>>
        /\ index' = index \/ index' = [f \in IndexFile |-> {}]
        /\ faults' = faults \/ faults' = faults + 1
    BY <1>14 DEF DeleteIndices, Storage, resolving
  <2>2. events' \in [DOMAIN events -> Event] /\ DOMAIN events' = DOMAIN events
        /\ index' \in [IndexFile -> SUBSET Nat] /\ calls' \in Nat /\ faults' \in Nat
    BY <1>2, <2>1
  <2> QED
    BY <1>1, <2>1, <2>2, OthersKeepLog
<1> QED
  BY <1>4, <1>5, <1>6, <1>7, <1>8, <1>9, <1>10, <1>11, <1>12, <1>13, <1>14, MaintenanceCases

\* The variables of maintenance keep their types.
LEMMA MaintenanceTypesStep ==
  ASSUME FactoryMakesTags, DeletesAlone, MInv1, [MaintenanceNext]_maintenanceVars
  PROVE  MaintenanceTypes'
<1>1. /\ MaintenanceTypes /\ Duties /\ (\A p \in Proc : Reads(p)) /\ TypeOK
      /\ index \in [IndexFile -> SUBSET Nat] /\ DOMAIN events \subseteq Nat
      /\ events \in [DOMAIN events -> Event]
  BY DEF MInv1, LogLayer, Inv1, TypeOK
<1>0. MaintenanceTypes
  BY <1>1
<1> USE DEF MaintenanceTypes
<1>2. ASSUME UNCHANGED <<records, todo, changed, tally, had, hits, due>>,
             job' \in [Proc -> Jobs], torn' \subseteq Nat, stale' \in [Proc -> SUBSET Nat], spoiled' \in BOOLEAN
      PROVE  MaintenanceTypes'
  BY <1>1, <1>2
<1>3. CASE UNCHANGED <<vars, maintaining>>
  BY <1>1, <1>2, <1>3 DEF maintaining, counting, looking
<1>4. ASSUME NEW p \in Proc, StoreActs(p)
      PROVE  MaintenanceTypes'
  BY <1>1, <1>2, <1>4, StoreActsFacts
<1>5. ASSUME NEW p \in Proc, AddTags(p)
      PROVE  MaintenanceTypes'
  <2>1. /\ job' = [job EXCEPT ![p] = "read"] /\ tally' = [tally EXCEPT ![p] = [tags |-> 0, events |-> 0]]
        /\ UNCHANGED <<records, todo, changed, had, hits, due, torn, spoiled>>
        /\ stale' = [stale EXCEPT ![p] = {}]
    BY <1>5 DEF AddTags, Tally, looking
  <2> QED
    BY <1>1, <2>1 DEF Jobs
<1>6. ASSUME NEW p \in Proc, ReadRecords(p)
      PROVE  MaintenanceTypes'
  <2>1. call[p] = TheRead
    BY <1>1, <1>6 DEF ReadRecords, Duties
  <2>2. UNCHANGED <<todo, changed, tally, torn, stale, spoiled, hits, due>>
    BY <1>1, <1>6, <2>1, ReadRecordsStep
  <2>3. CASE job' = [job EXCEPT ![p] = "none"] /\ UNCHANGED <<records, had>>
    BY <1>1, <2>2, <2>3 DEF Jobs
  <2>4. ASSUME NEW S \in SUBSET DOMAIN events,
               records' = [records EXCEPT ![p] = [n \in S |-> events[n]]],
               had' = [had EXCEPT ![p] = [n \in S |-> Len(events[n].tags)]],
               job' = [job EXCEPT ![p] = "next"]
        PROVE  MaintenanceTypes'
    <3>1. job' \in [Proc -> Jobs]
      BY <1>1, <2>4 DEF Jobs
    <3>2. \A n \in S : events[n] \in Event /\ n \in Nat
      BY <1>1
    <3>3. \A n \in S : Len(events[n].tags) \in Nat
      BY <3>2, LenProperties DEF Event
    <3>4. /\ [n \in S |-> events[n]] \in [S -> Event] /\ S \subseteq Nat
          /\ [n \in S |-> Len(events[n].tags)] \in [S -> Nat]
      BY <3>2, <3>3
    <3> DEFINE r == [n \in S |-> events[n]]
               h == [n \in S |-> Len(events[n].tags)]
    <3>5. DOMAIN r = S /\ DOMAIN h = S
      OBVIOUS
    <3> HIDE DEF r, h
    <3>6. /\ records' = [q \in Proc |-> records'[q]]
          /\ \A q \in Proc : DOMAIN records'[q] \subseteq Nat /\ records'[q] \in [DOMAIN records'[q] -> Event]
      BY <1>1, <2>4, <3>4, <3>5 DEF r
    <3>7. had' = [q \in Proc |-> had'[q]] /\ \A q \in Proc : had'[q] \in [DOMAIN had'[q] -> Nat]
      BY <1>1, <2>4, <3>4, <3>5 DEF h
    <3> QED
      BY <1>1, <2>2, <3>1, <3>6, <3>7
  <2> DEFINE R == result'[p].positions
  <2>5. \/ job' = [job EXCEPT ![p] = "none"] /\ UNCHANGED <<records, had>>
        \/ /\ R \in SUBSET DOMAIN events
           /\ records' = [records EXCEPT ![p] = [n \in R |-> events[n]]]
           /\ had' = [had EXCEPT ![p] = [n \in R |-> Len(events[n].tags)]]
           /\ job' = [job EXCEPT ![p] = "next"]
    BY <1>1, <1>6, <2>1, ReadRecordsStep
  <2> HIDE DEF R, MaintenanceTypes
  <2> QED
    BY <2>3, <2>4, <2>5, Zenon
<1>7. ASSUME NEW p \in Proc, NextRecord(p)
      PROVE  MaintenanceTypes'
  <2> DEFINE e == records[p][Current(p)]
  <2>1. /\ todo' = [todo EXCEPT ![p] = Factory(p, e)]
        /\ changed' = [changed EXCEPT ![p] = 0]
        /\ tally' = [tally EXCEPT ![p] = [tally[p] EXCEPT !.events = tally[p].events + 1]]
        /\ job' = [job EXCEPT ![p] = "tags"]
        /\ UNCHANGED <<records, had, torn, stale, spoiled, hits, due>>
        /\ DOMAIN records[p] # {}
    BY <1>7, Zenon DEF NextRecord, looking
  <2>2. e \in Event
    BY <1>1, <2>1, CurrentIsARecord
  <2>3. Factory(p, e) \in Seq(Tag)
    BY <2>2 DEF FactoryMakesTags
  <2> HIDE DEF e
  <2>4. tally' \in [Proc -> [tags : Nat, events : Nat]]
    <3>1. tally[p] \in [tags : Nat, events : Nat]
      BY <1>1
    <3>2. [tally[p] EXCEPT !.events = tally[p].events + 1] \in [tags : Nat, events : Nat]
      BY <3>1
    <3> QED
      BY <1>1, <2>1, <3>2
  <2> QED
    BY <1>1, <2>1, <2>3, <2>4 DEF Jobs
<1>8. ASSUME NEW p \in Proc, NEW failed \in BOOLEAN, MergeTag(p, failed)
      PROVE  MaintenanceTypes'
  <2>1. DOMAIN records[p] # {}
    BY <1>1, <1>8 DEF Reads, MergeTag
  <2> DEFINE c == Current(p)
             e == records[p][c]
             g == Head(todo[p])
  <2>2. /\ todo[p] # << >> /\ UNCHANGED <<job, tally, had, hits, due, stale, spoiled>>
        /\ todo' = [todo EXCEPT ![p] = Tail(todo[p])] /\ c \in DOMAIN records[p]
        /\ \/ UNCHANGED <<records, changed, torn>>
           \/ /\ Tagged(e, g) \in Event /\ g \in Tag
              /\ UpdateTagIndex(TagFile[g], c, failed)
              /\ records' = [records EXCEPT ![p] = [records[p] EXCEPT ![c] = Tagged(e, g)]]
              /\ changed' = [changed EXCEPT ![p] = changed[p] + 1]
    <3> HIDE DEF MaintenanceTypes
    <3> QED
      BY <1>1, <1>8, <2>1, MergeTagStep
  <2> HIDE DEF c, e, g
  <2>6. torn' \subseteq Nat
    <3>1. c \in Nat
      BY <1>1, <2>2
    <3>2. ASSUME g \in Tag, UpdateTagIndex(TagFile[g], c, failed)
          PROVE  torn' \subseteq Nat
      <4>1. TagFile[g] \in IndexFile
        BY <3>2, FilesAssumption
      <4>2. torn \subseteq Nat
        BY <1>1
      <4> HIDE DEF MaintenanceTypes
      <4> QED
        BY <1>1, <3>1, <3>2, <4>1, <4>2, TagIndexStep
    <3> QED
      BY <1>1, <2>2, <3>2
  <2>3. todo' \in [Proc -> Seq(Tag)]
    <3>1. Tail(todo[p]) \in Seq(Tag)
      BY <1>1, <2>2, HeadTailProperties
    <3> QED
      BY <1>1, <2>2, <3>1
  <2>4. changed' \in [Proc -> Nat]
    <3>1. changed[p] + 1 \in Nat
      BY <1>1
    <3> QED
      BY <1>1, <2>2, <3>1
  <2>5. /\ records' = [q \in Proc |-> records'[q]]
        /\ \A q \in Proc : DOMAIN records'[q] \subseteq Nat /\ records'[q] \in [DOMAIN records'[q] -> Event]
    <3>1. CASE UNCHANGED records
      BY <1>1, <3>1
    <3>2. CASE /\ Tagged(e, g) \in Event
               /\ records' = [records EXCEPT ![p] = [records[p] EXCEPT ![c] = Tagged(e, g)]]
      <4> DEFINE r == [records[p] EXCEPT ![c] = Tagged(e, g)]
      <4>1. DOMAIN r = DOMAIN records[p] /\ r \in [DOMAIN records[p] -> Event]
        BY <1>1, <2>2, <3>2
      <4> HIDE DEF r
      <4> QED
        BY <1>1, <3>2, <4>1 DEF r
    <3> QED
      BY <2>2, <3>1, <3>2
  <2> QED
    BY <1>1, <2>2, <2>3, <2>4, <2>5, <2>6
<1>9. ASSUME NEW p \in Proc, NEW failed \in BOOLEAN, RewriteEvent(p, failed)
      PROVE  MaintenanceTypes'
  <2>1. DOMAIN records[p] # {}
    BY <1>1, <1>9 DEF Reads, RewriteEvent
  <2> DEFINE c == Current(p)
             r == [n \in DOMAIN records[p] \ {c} |-> records[p][n]]
  <2>2. /\ c \in DOMAIN records[p] /\ UNCHANGED <<todo, changed, had, hits, due, spoiled>>
        /\ records' = [records EXCEPT ![p] = r]
        /\ tally' = [tally EXCEPT ![p] = Tally(tally[p].tags + changed[p], tally[p].events)]
        /\ job' = [job EXCEPT ![p] = "next"]
        /\ UNCHANGED torn \/ torn' = torn \cup {c}
        /\ UNCHANGED stale \/ stale' = Overwritten(p)
    <3> HIDE DEF MaintenanceTypes
    <3> QED
      BY <1>0, <1>9, <2>1, RewriteEventStep
  <2>3. DOMAIN r = DOMAIN records[p] \ {c} /\ r \in [DOMAIN r -> Event]
    BY <1>1
  <2> HIDE DEF c, r
  <2>4. /\ records' = [q \in Proc |-> records'[q]]
        /\ \A q \in Proc : DOMAIN records'[q] \subseteq Nat /\ records'[q] \in [DOMAIN records'[q] -> Event]
    BY <1>1, <2>2, <2>3
  <2>5. tally' \in [Proc -> [tags : Nat, events : Nat]]
    <3>1. tally[p] \in [tags : Nat, events : Nat] /\ changed[p] \in Nat
      BY <1>1
    <3>2. Tally(tally[p].tags + changed[p], tally[p].events) \in [tags : Nat, events : Nat]
      BY <3>1 DEF Tally
    <3> QED
      BY <1>1, <2>2, <3>2
  <2>6. torn' \subseteq Nat
    BY <1>1, <2>2
  <2>7. stale' \in [Proc -> SUBSET Nat]
    <3>1. c \in Nat
      BY <1>1, <2>2
    <3>2. Overwritten(p) \in [Proc -> SUBSET Nat]
      <4>1. Current(p) \in Nat /\ stale \in [Proc -> SUBSET Nat]
        BY <1>1, <3>1 DEF c
      <4> HIDE DEF MaintenanceTypes
      <4> QED
        BY <4>1 DEF Overwritten
    <3> QED
      BY <1>1, <2>2, <3>2
  <2> QED
    BY <1>1, <2>2, <2>4, <2>5, <2>6, <2>7 DEF Jobs
<1>10. ASSUME NEW p \in Proc, EndAddTags(p)
       PROVE  MaintenanceTypes'
  <2>1. /\ job' = [job EXCEPT ![p] = "none"] /\ had' = [had EXCEPT ![p] = << >>]
        /\ UNCHANGED <<records, todo, changed, tally, torn, stale, spoiled, hits, due>>
    BY <1>10 DEF EndAddTags, looking
  <2>2. << >> \in [DOMAIN << >> -> Nat]
    OBVIOUS
  <2>3. had' = [q \in Proc |-> had'[q]] /\ \A q \in Proc : had'[q] \in [DOMAIN had'[q] -> Nat]
    BY <1>1, <2>1, <2>2
  <2> QED
    BY <1>1, <2>1, <2>3 DEF Jobs
<1>11. ASSUME NEW p \in Proc, NEW failed \in BOOLEAN,
              MaintainerDies(p) \/ DeleteEvents(p, failed) \/ DeleteIndices(p, failed)
       PROVE  MaintenanceTypes'
  <2>1. /\ UNCHANGED <<records, todo, changed, tally, had, hits, due, stale>>
        /\ \E j \in Jobs : job' = [job EXCEPT ![p] = j]
        /\ UNCHANGED torn \/ torn' = {}
    BY <1>11 DEF MaintainerDies, DeleteEvents, DeleteIndices, looking, Jobs
  <2>2. spoiled' \in BOOLEAN
    BY <1>1, <1>11 DEF MaintainerDies, DeleteEvents, DeleteIndices
  <2> QED
    BY <1>1, <1>2, <2>1, <2>2
<1>12. ASSUME NEW p \in Proc, NEW tags \in LookUps, LookUpTags(p, tags)
       PROVE  MaintenanceTypes'
  <2>1. tags \in Seq(Tag)
    BY MaintenanceAssumption
  <2>2. {n \in Settled : Range(tags) \cap Range(events[n].tags) # {}} \in SUBSET Nat
    BY <1>1 DEF Settled
  <2> QED
    BY <1>1, <1>12, <2>1, <2>2 DEF LookUpTags, counting, Jobs
<1>13. ASSUME NEW p \in Proc, ReadTagIndex(p)
       PROVE  MaintenanceTypes'
  <2>1. /\ UNCHANGED <<job, records, changed, tally, had, torn, stale, spoiled, due>>
        /\ todo[p] # << >> /\ todo' = [todo EXCEPT ![p] = Tail(todo[p])]
        /\ hits' = [hits EXCEPT ![p] = hits[p] \cup index[TagFile[Head(todo[p])]]]
    BY <1>13 DEF ReadTagIndex, counting
  <2>2. Head(todo[p]) \in Tag /\ Tail(todo[p]) \in Seq(Tag)
    BY <1>1, <2>1, HeadTailProperties
  <2>3. index[TagFile[Head(todo[p])]] \in SUBSET Nat
    BY <1>1, <2>2, FilesAssumption
  <2> QED
    BY <1>1, <2>1, <2>2, <2>3
<1>14. ASSUME NEW p \in Proc, EndLookUp(p)
       PROVE  MaintenanceTypes'
  BY <1>1, <1>14 DEF EndLookUp, counting, Jobs
<1> QED
  BY <1>3, <1>4, <1>5, <1>6, <1>7, <1>8, <1>9, <1>10, <1>11, <1>12, <1>13, <1>14, MaintenanceCases

\* A maintainer's read goes through one index file.
LEMMA TheReadSteps ==
  ASSUME TypeOK, NEW p \in Proc, Step(p), call[p] = TheRead, pc[p] = "resolve"
  PROVE  /\ ResolveItem(p) \/ \E failed \in BOOLEAN : ReadIndex(p, failed)
         /\ call'[p] = call[p] /\ pc'[p] \in {"resolve", "load"}
<1>1. call[p].query # All
  BY DEF TheRead, ReadAll, ReadCall, All
<1>2. \A failed \in BOOLEAN :
        /\ ~ScanEvents(p, failed) /\ ~ListEvents(p, failed) /\ ~LoadEvents(p, failed)
        /\ ~UpdateIndex(p, failed)
  BY <1>1 DEF ScanEvents, ListEvents, LoadEvents, UpdateIndex
<1>3. /\ ~AcquireLock(p) /\ ~WriteEvent(p) /\ ~IndexLockFails(p) /\ ~NextEvent(p) /\ ~FinishBatch(p)
      /\ ~ReleaseLock(p) /\ ~EventWriteFails(p) /\ ~IndexWriteFails(p) /\ ~JudgeLock(p) /\ ~BreakLock(p)
  BY DEF AcquireLock, WriteEvent, IndexLockFails, NextEvent, FinishBatch, ReleaseLock,
         EventWriteFails, IndexWriteFails, JudgeLock, BreakLock
<1>4. ResolveItem(p) \/ \E failed \in BOOLEAN : ReadIndex(p, failed)
  BY <1>2, <1>3 DEF Step
<1>5. CASE ResolveItem(p)
  BY <1>4, <1>5 DEF ResolveItem, TypeOK, Go
<1>6. ASSUME NEW failed \in BOOLEAN, ReadIndex(p, failed)
      PROVE  call'[p] = call[p] /\ pc'[p] \in {"resolve", "load"}
  BY <1>6 DEF ReadIndex
<1> QED
  BY <1>4, <1>5, <1>6

\* A maintainer makes no other call, nor does who deletes, who is alone.
LEMMA DutiesStep ==
  ASSUME DeletesAlone, MInv1, [MaintenanceNext]_maintenanceVars
  PROVE  Duties'
<1>1. /\ MaintenanceTypes /\ Duties /\ TypeOK
      /\ job \in [Proc -> Jobs] /\ pc \in [Proc -> Labels] /\ call \in [Proc -> Call]
  BY DEF MInv1, LogLayer, Inv1, TypeOK, MaintenanceTypes
<1> USE DEF Duties, Maintains, Alone
<1>2. CASE UNCHANGED <<vars, maintaining>>
  BY <1>1, <1>2 DEF vars, store, maintaining, counting
<1>3. ASSUME NEW p \in Proc, StoreActs(p)
      PROVE  Duties'
  <2>1. /\ Acts(p) /\ job' = job /\ pc[p] # "crashed" /\ (job[p] = "read" => pc[p] # "load")
        /\ \/ Step(p) /\ pc[p] # "idle"
           \/ pc[p] = "idle" /\ job[p] = "none" /\ (\A q \in Proc : job[q] # "delete")
    BY <1>3, StoreActsFacts
  <2>2. \A q \in Proc : q # p => pc'[q] = pc[q] /\ call'[q] = call[q]
    BY <1>1, <2>1, OthersKeepLocals DEF Locals
  <2>3. \A q \in Proc : job[q] # "delete"
    BY <1>1, <2>1
  <2>4. CASE job[p] = "read"
    <3>1. Step(p) /\ pc[p] = "resolve" /\ call[p] = TheRead
      BY <1>1, <2>1, <2>4
    <3>2. call'[p] = TheRead /\ pc'[p] \in {"resolve", "load"}
      BY <1>1, <3>1, TheReadSteps
    <3> QED
      BY <1>1, <2>1, <2>2, <2>3, <2>4, <3>2
  <2>5. CASE job[p] # "read"
    <3>1. job[p] \notin {"next", "tags", "lookup"}
      BY <1>1, <2>1
    <3> QED
      BY <1>1, <2>1, <2>2, <2>3, <2>5, <3>1
  <2> QED
    BY <2>4, <2>5
<1>4. ASSUME NEW p \in Proc, AddTags(p)
      PROVE  Duties'
  <2>1. /\ \A q \in Proc : job[q] # "delete"
        /\ job' = [job EXCEPT ![p] = "read"]
        /\ call' = [call EXCEPT ![p] = TheRead] /\ pc' = [pc EXCEPT ![p] = "resolve"]
    BY <1>4, TheReadIsACall DEF AddTags, Invoke, Go, TheRead, NobodyDeletes
  <2> QED
    BY <1>1, <2>1
<1>5. ASSUME UNCHANGED <<events, pc, call>>, NEW p \in Proc, pc[p] = "idle",
             Maintains(p), NEW j \in {"next", "tags", "none"}, job' = [job EXCEPT ![p] = j]
      PROVE  Duties'
  BY <1>1, <1>5
<1>6. ASSUME NEW p \in Proc, ReadRecords(p)
      PROVE  Duties'
  <2>1. call[p] = TheRead
    BY <1>1, <1>6 DEF ReadRecords
  <2>2. /\ job[p] = "read" /\ UNCHANGED <<events, call>> /\ pc' = [pc EXCEPT ![p] = "idle"]
        /\ job' = [job EXCEPT ![p] = "none"] \/ job' = [job EXCEPT ![p] = "next"]
    BY <1>1, <1>6, <2>1, ReadRecordsStep
  <2> QED
    BY <1>1, <2>2
<1>7. ASSUME NEW p \in Proc, NextRecord(p) \/ EndAddTags(p)
      PROVE  Duties'
  <2>1. /\ job[p] = "next" /\ UNCHANGED <<events, pc, call>>
        /\ job' = [job EXCEPT ![p] = "tags"] \/ job' = [job EXCEPT ![p] = "none"]
    BY <1>7 DEF NextRecord, EndAddTags, vars, store
  <2> QED
    BY <1>1, <2>1
<1>8. ASSUME NEW p \in Proc, NEW failed \in BOOLEAN, MergeTag(p, failed)
      PROVE  Duties'
  <2>1. job[p] = "tags" /\ UNCHANGED <<events, pc, call, job, spoiled>>
    BY <1>8 DEF MergeTag
  <2> QED
    BY <1>1, <2>1
<1>9. ASSUME NEW p \in Proc, NEW failed \in BOOLEAN, RewriteEvent(p, failed)
      PROVE  Duties'
  <2>1. /\ job[p] = "tags" /\ UNCHANGED <<pc, call>> /\ job' = [job EXCEPT ![p] = "next"]
    BY <1>9 DEF RewriteEvent, NextAfterRewrite
  <2>2. \A q \in Proc : job'[q] # "delete"
    BY <1>1, <2>1
  <2> QED
    BY <1>1, <2>1, <2>2
<1>10. ASSUME NEW p \in Proc, MaintainerDies(p)
       PROVE  Duties'
  <2>1. /\ job[p] \in {"read", "next", "tags", "delete"} /\ UNCHANGED <<events, call>>
        /\ pc' = [pc EXCEPT ![p] = "crashed"] /\ job' = [job EXCEPT ![p] = "none"]
    BY <1>10 DEF MaintainerDies, Go, store
  <2>2. \A q \in Proc : job'[q] # "delete"
    BY <1>1, <2>1
  <2> QED
    BY <1>1, <2>1, <2>2
<1>11. ASSUME NEW p \in Proc, NEW tags \in LookUps, LookUpTags(p, tags)
       PROVE  Duties'
  <2>1. /\ UNCHANGED <<events, pc, call>> /\ pc[p] = "idle" /\ \A q \in Proc : job[q] # "delete"
        /\ job' = [job EXCEPT ![p] = "lookup"]
    BY <1>11 DEF LookUpTags, store, NobodyDeletes
  <2> QED
    BY <1>1, <2>1
<1>12. ASSUME NEW p \in Proc, ReadTagIndex(p) \/ EndLookUp(p)
       PROVE  Duties'
  <2>1. /\ UNCHANGED <<events, pc, call>> /\ job[p] = "lookup"
        /\ UNCHANGED job \/ job' = [job EXCEPT ![p] = "none"]
    BY <1>12 DEF ReadTagIndex, EndLookUp, vars, store
  <2> QED
    BY <1>1, <2>1
<1>13. ASSUME NEW p \in Proc, NEW failed \in BOOLEAN, DeleteEvents(p, failed)
       PROVE  Duties'
  <2>1. /\ \A q \in Proc : pc[q] \in {"idle", "crashed"} /\ job[q] = "none"
        /\ events' = IF failed THEN events ELSE << >>
        /\ spoiled' = failed
        /\ job' = [job EXCEPT ![p] = "delete"] /\ UNCHANGED <<pc, call>>
    BY <1>13 DEF DeleteEvents
  <2>2. ~spoiled' => DOMAIN events' = {}
    BY <2>1
  <2> QED
    BY <1>1, <2>1, <2>2
<1>14. ASSUME NEW p \in Proc, NEW failed \in BOOLEAN, DeleteIndices(p, failed)
       PROVE  Duties'
  <2>1. job[p] = "delete" /\ job' = [job EXCEPT ![p] = "none"] /\ UNCHANGED <<events, pc, call>>
    BY <1>14 DEF DeleteIndices
  <2>2. \A q \in Proc : job'[q] # "delete"
    BY <1>1, <2>1
  <2> QED
    BY <1>1, <2>1, <2>2
<1> QED
  BY <1>2, <1>3, <1>4, <1>6, <1>7, <1>8, <1>9, <1>10, <1>11, <1>12, <1>13, <1>14, MaintenanceCases

\* What a process has read stays true of events that stay, but for those it calls stale.
LEMMA ReadsStay ==
  ASSUME MaintenanceTypes, NEW q \in Proc, Reads(q),
         job'[q] \in {"next", "tags"} =>
           /\ job'[q] = job[q] /\ records'[q] = records[q] /\ had'[q] = had[q] /\ changed'[q] = changed[q]
           /\ stale[q] \subseteq stale'[q]
           /\ \A n \in DOMAIN had[q] : n \in DOMAIN events' /\ (events'[n] = events[n] \/ n \in stale'[q])
  PROVE  Reads(q)'
<1>1. CASE job'[q] \notin {"next", "tags"}
  BY <1>1 DEF Reads
<1>2. CASE job'[q] \in {"next", "tags"}
  <2>1. /\ job'[q] = job[q] /\ records'[q] = records[q] /\ had'[q] = had[q] /\ changed'[q] = changed[q]
        /\ stale[q] \subseteq stale'[q]
        /\ \A n \in DOMAIN had[q] : n \in DOMAIN events' /\ (events'[n] = events[n] \/ n \in stale'[q])
    BY <1>2
  <2>2. Current(q)' = Current(q)
    BY <2>1 DEF Current
  <2>3. DOMAIN records[q] \subseteq DOMAIN had[q]
    BY <1>2, <2>1 DEF Reads
  <2>4. job[q] = "tags" => DOMAIN records[q] # {} /\ Current(q) \in DOMAIN had[q]
    BY <2>3, CurrentIsARecord DEF Reads
  <2> DEFINE c == Current(q)
  <2>5. /\ DOMAIN records'[q] \subseteq DOMAIN had'[q] /\ DOMAIN had'[q] \subseteq DOMAIN events'
        /\ \A n \in DOMAIN records'[q] \ stale'[q] :
             (job'[q] = "tags" => n # c) => records'[q][n] = events'[n]
    BY <1>2, <2>1, <2>3 DEF Reads
  <2>6. job'[q] = "tags" =>
          /\ DOMAIN records'[q] # {}
          /\ c \notin stale'[q] =>
               /\ records'[q][c].type = events'[c].type
               /\ Extends(records'[q][c].tags, events'[c].tags, changed'[q])
    BY <1>2, <2>1, <2>4 DEF Reads
  <2> HIDE DEF c
  <2> QED
    BY <2>2, <2>5, <2>6 DEF Reads, c
<1> QED
  BY <1>1, <1>2

\* One more tag.
LEMMA ExtendsOneMore ==
  ASSUME NEW e \in Event, NEW s \in Seq(Tag), NEW k \in Nat, NEW g \in Tag, Extends(e.tags, s, k)
  PROVE  Extends(Append(e.tags, g), s, k + 1)
<1>1. e.tags \in Seq(Tag)
  BY DEF Event
<1>2. Len(s) \in Nat /\ DOMAIN s = 1 .. Len(s) /\ Len(e.tags) \in Nat /\ DOMAIN e.tags = 1 .. Len(e.tags)
  BY <1>1, LenProperties
<1>3. Len(e.tags) = Len(s) + k /\ \A i \in DOMAIN s : e.tags[i] = s[i]
  BY DEF Extends
<1>4. /\ Len(Append(e.tags, g)) = Len(e.tags) + 1
      /\ \A i \in 1 .. Len(e.tags) : Append(e.tags, g)[i] = e.tags[i]
  BY <1>1, <1>2
<1>5. Len(Append(e.tags, g)) = Len(s) + (k + 1)
  BY <1>2, <1>3, <1>4
<1>6. \A i \in DOMAIN s : i \in 1 .. Len(e.tags)
  BY <1>2, <1>3
<1>7. \A i \in DOMAIN s : Append(e.tags, g)[i] = s[i]
  BY <1>3, <1>4, <1>6
<1> QED
  BY <1>5, <1>7 DEF Extends

\* A record is the event as it was read, the one in hand that and the tags added since.
LEMMA ReadsStep ==
  ASSUME DeletesAlone, MInv1, [MaintenanceNext]_maintenanceVars, NEW q \in Proc
  PROVE  Reads(q)'
<1>1. /\ MaintenanceTypes /\ Duties /\ TypeOK /\ \A p \in Proc : Reads(p)
      /\ job \in [Proc -> Jobs] /\ changed \in [Proc -> Nat] /\ todo \in [Proc -> Seq(Tag)]
      /\ stale \in [Proc -> SUBSET Nat] /\ events \in [DOMAIN events -> Event]
      /\ records = [p \in Proc |-> records[p]] /\ had = [p \in Proc |-> had[p]]
  BY DEF MInv1, LogLayer, Inv1, TypeOK, MaintenanceTypes
<1>0. MaintenanceTypes
  BY <1>1
<1>2. ASSUME /\ job'[q] \in {"next", "tags"} =>
                  /\ job'[q] = job[q] /\ records'[q] = records[q] /\ had'[q] = had[q]
                  /\ changed'[q] = changed[q] /\ stale[q] \subseteq stale'[q],
             \A n \in DOMAIN events : n \in DOMAIN events' /\ events'[n] = events[n]
      PROVE  Reads(q)'
  <2>1. job'[q] \in {"next", "tags"} => DOMAIN had[q] \subseteq DOMAIN events
    BY <1>1, <1>2 DEF Reads
  <2> QED
    BY <1>1, <1>2, <2>1, ReadsStay
<1>3. CASE UNCHANGED <<vars, maintaining>>
  BY <1>2, <1>3 DEF vars, store, maintaining, counting
<1>4. ASSUME NEW p \in Proc, StoreActs(p)
      PROVE  Reads(q)'
  <2>1. Next /\ UNCHANGED <<job, records, had, changed, stale>>
    BY <1>4, StoreActsFacts
  <2>2. \A n \in DOMAIN events : n \in DOMAIN events' /\ events'[n] = events[n]
    BY <2>1, StepKeepsEvents DEF MInv1, LogLayer
  <2> QED
    BY <1>2, <2>1, <2>2
<1>5. ASSUME NEW p \in Proc, NEW failed \in BOOLEAN,
             \/ AddTags(p) \/ EndAddTags(p) \/ MaintainerDies(p) \/ DeleteIndices(p, failed)
             \/ ReadTagIndex(p) \/ EndLookUp(p) \/ \E tags \in LookUps : LookUpTags(p, tags)
      PROVE  Reads(q)'
  <2>1. /\ UNCHANGED <<events, records, changed>>
        /\ UNCHANGED had \/ had' = [had EXCEPT ![p] = << >>]
        /\ UNCHANGED stale \/ stale' = [stale EXCEPT ![p] = {}]
    <3>1. AddTags(p) => UNCHANGED <<events, records, changed, had>> /\ stale' = [stale EXCEPT ![p] = {}]
      BY DEF AddTags, Invoke, store
    <3>2. EndAddTags(p) => UNCHANGED <<events, records, changed, stale>> /\ had' = [had EXCEPT ![p] = << >>]
      BY DEF EndAddTags, vars, store
    <3>3. MaintainerDies(p) \/ DeleteIndices(p, failed) => UNCHANGED <<events, records, changed, had, stale>>
      BY DEF MaintainerDies, DeleteIndices, store
    <3>4. ReadTagIndex(p) \/ EndLookUp(p) => UNCHANGED <<events, records, changed, had, stale>>
      BY DEF ReadTagIndex, EndLookUp, vars, store, counting
    <3>5. \A tags \in LookUps : LookUpTags(p, tags) => UNCHANGED <<events, records, changed, had, stale>>
      BY DEF LookUpTags, store, counting
    <3> QED
      BY <1>5, <3>1, <3>2, <3>3, <3>4, <3>5
  <2>2. \E j \in {"read", "none", "lookup"} : job' = [job EXCEPT ![p] = j] \/ (UNCHANGED job /\ job[p] = "lookup")
    BY <1>5 DEF AddTags, EndAddTags, MaintainerDies, DeleteIndices, ReadTagIndex, EndLookUp, LookUpTags
  <2>3. job'[p] \notin {"next", "tags"} /\ (q # p => job'[q] = job[q])
    BY <1>1, <2>2
  <2>4. q # p => had'[q] = had[q] /\ stale'[q] = stale[q]
    BY <1>1, <2>1
  <2> QED
    BY <1>2, <2>1, <2>3, <2>4
<1>6. ASSUME NEW p \in Proc, NEW failed \in BOOLEAN, DeleteEvents(p, failed)
      PROVE  Reads(q)'
  <2>1. job'[q] \notin {"next", "tags"}
    BY <1>1, <1>6 DEF DeleteEvents, Alone
  <2> QED
    BY <2>1 DEF Reads
<1>7. ASSUME NEW p \in Proc, ReadRecords(p)
      PROVE  Reads(q)'
  <2>1. call[p] = TheRead
    BY <1>1, <1>7 DEF ReadRecords, Duties
  <2> DEFINE R == result'[p].positions
  <2>2. /\ UNCHANGED <<events, changed, stale>>
        /\ \/ job' = [job EXCEPT ![p] = "none"] /\ UNCHANGED <<records, had>>
           \/ /\ R \subseteq DOMAIN events
              /\ records' = [records EXCEPT ![p] = [n \in R |-> events[n]]]
              /\ had' = [had EXCEPT ![p] = [n \in R |-> Len(events[n].tags)]]
              /\ job' = [job EXCEPT ![p] = "next"]
    BY <1>1, <1>7, <2>1, ReadRecordsStep
  <2> HIDE DEF R
  <2>3. CASE q # p \/ job' = [job EXCEPT ![p] = "none"]
    BY <1>1, <1>2, <2>2, <2>3
  <2>4. CASE /\ q = p /\ R \subseteq DOMAIN events
             /\ records' = [records EXCEPT ![p] = [n \in R |-> events[n]]]
             /\ had' = [had EXCEPT ![p] = [n \in R |-> Len(events[n].tags)]]
             /\ job' = [job EXCEPT ![p] = "next"]
    <3>1. job'[p] = "next" /\ records'[p] = [n \in R |-> events[n]] /\ DOMAIN had'[p] = R
      BY <1>1, <2>4
    <3> QED
      BY <2>2, <2>4, <3>1 DEF Reads
  <2> QED
    BY <2>2, <2>3, <2>4
<1>8. ASSUME NEW p \in Proc, NextRecord(p)
      PROVE  Reads(q)'
  <2>1. /\ job[p] = "next" /\ DOMAIN records[p] # {} /\ UNCHANGED <<events, records, had, stale>>
        /\ changed' = [changed EXCEPT ![p] = 0] /\ job' = [job EXCEPT ![p] = "tags"]
    BY <1>8 DEF NextRecord, vars, store
  <2> DEFINE c == Current(p)
  <2>2. CASE q # p
    BY <1>1, <1>2, <2>1, <2>2
  <2>3. CASE q = p
    <3>1. c \in DOMAIN records[p]
      BY <1>1, <2>1, CurrentIsARecord
    <3>2. c \in DOMAIN events /\ events[c] \in Event /\ (c \notin stale[p] => records[p][c] = events[c])
      BY <1>1, <2>1, <3>1 DEF Reads
    <3>3. Extends(events[c].tags, events[c].tags, 0)
      BY <3>2, LenProperties DEF Extends, Event
    <3>4. Current(p)' = c /\ changed'[p] = 0 /\ job'[p] = "tags"
      BY <1>1, <2>1 DEF Current
    <3> HIDE DEF c
    <3>5. /\ DOMAIN records[p] \subseteq DOMAIN had[p] /\ DOMAIN had[p] \subseteq DOMAIN events
          /\ \A n \in DOMAIN records[p] \ stale[p] : records[p][n] = events[n]
      BY <1>1, <2>1 DEF Reads
    <3> QED
      BY <2>1, <2>3, <3>2, <3>3, <3>4, <3>5 DEF Reads
  <2> QED
    BY <2>2, <2>3
<1>9. ASSUME NEW p \in Proc, NEW failed \in BOOLEAN, MergeTag(p, failed)
      PROVE  Reads(q)'
  <2>1. job[p] = "tags"
    BY <1>9 DEF MergeTag
  <2>2. DOMAIN records[p] # {}
    BY <1>1, <2>1 DEF Reads
  <2> DEFINE c == Current(p)
             e == records[p][c]
             g == Head(todo[p])
  <2>3. /\ UNCHANGED <<events, job, had, stale>> /\ c \in DOMAIN records[p] /\ e \in Event /\ g \in Tag
        /\ \/ UNCHANGED <<records, changed>>
           \/ /\ records' = [records EXCEPT ![p] = [records[p] EXCEPT ![c] = Tagged(e, g)]]
              /\ changed' = [changed EXCEPT ![p] = changed[p] + 1]
    BY <1>0, <1>9, <2>2, MergeTagStep
  <2>4. CASE UNCHANGED <<records, changed>>
    BY <1>2, <2>3, <2>4
  <2>5. CASE q # p /\ records'[q] = records[q] /\ changed'[q] = changed[q]
    BY <1>2, <2>3, <2>5
  <2>6. CASE /\ q = p
             /\ records' = [records EXCEPT ![p] = [records[p] EXCEPT ![c] = Tagged(e, g)]]
             /\ changed' = [changed EXCEPT ![p] = changed[p] + 1]
    <3>1. /\ DOMAIN records'[p] = DOMAIN records[p] /\ records'[p][c] = Tagged(e, g)
          /\ \A n \in DOMAIN records[p] : n # c => records'[p][n] = records[p][n]
          /\ changed'[p] = changed[p] + 1
      BY <1>1, <2>3, <2>6
    <3>2. Current(p)' = c
      BY <3>1 DEF Current
    <3>3. /\ DOMAIN records[p] \subseteq DOMAIN had[p] /\ DOMAIN had[p] \subseteq DOMAIN events
          /\ \A n \in DOMAIN records[p] \ stale[p] : n # c => records[p][n] = events[n]
          /\ c \notin stale[p] => e.type = events[c].type /\ Extends(e.tags, events[c].tags, changed[p])
      BY <1>1, <2>1 DEF Reads
    <3>4. c \in DOMAIN events /\ events[c].tags \in Seq(Tag) /\ changed[p] \in Nat
      BY <1>1, <2>3, <3>3 DEF Event
    <3>5. Tagged(e, g).type = e.type /\ Tagged(e, g).tags = Append(e.tags, g)
      BY DEF Tagged
    <3> HIDE DEF c, e, g
    <3>6. c \notin stale[p] => Extends(Append(e.tags, g), events[c].tags, changed[p] + 1)
      BY <2>3, <3>3, <3>4, ExtendsOneMore
    <3>7. c \notin stale'[p] =>
            /\ records'[p][c].type = events'[c].type
            /\ Extends(records'[p][c].tags, events'[c].tags, changed'[p])
      BY <2>3, <3>1, <3>3, <3>5, <3>6
    <3> QED
      BY <2>1, <2>2, <2>3, <2>6, <3>1, <3>2, <3>3, <3>7 DEF Reads
  <2> QED
    BY <1>1, <2>3, <2>4, <2>5, <2>6
<1>10. ASSUME NEW p \in Proc, NEW failed \in BOOLEAN, RewriteEvent(p, failed)
       PROVE  Reads(q)'
  <2>1. job[p] = "tags"
    BY <1>10 DEF RewriteEvent
  <2>2. DOMAIN records[p] # {}
    BY <1>1, <2>1 DEF Reads
  <2> DEFINE c == Current(p)
  <2>3. /\ c \in DOMAIN records[p] /\ UNCHANGED <<had, changed>>
        /\ records' = [records EXCEPT ![p] = [n \in DOMAIN records[p] \ {c} |-> records[p][n]]]
        /\ job' = [job EXCEPT ![p] = "next"]
        /\ \/ UNCHANGED <<events, stale>>
           \/ WriteRecord(p, records[p][c]) /\ stale' = Overwritten(p)
    BY <1>0, <1>10, <2>2, RewriteEventStep
  <2>4. DOMAIN records[p] \subseteq DOMAIN had[p] /\ DOMAIN had[p] \subseteq DOMAIN events
    BY <1>1, <2>1 DEF Reads
  <2>5. DOMAIN events' = DOMAIN events /\ \A n \in DOMAIN events : n # c => events'[n] = events[n]
    <3>1. UNCHANGED events \/ events' = [events EXCEPT ![c] = records[p][c]]
      BY <1>1, <2>3, <2>4, Written
    <3> QED
      BY <1>1, <3>1
  <2>6. CASE q # p
    <3>0. Overwritten(p)[q] = IF c \in DOMAIN had[q] THEN stale[q] \cup {c} ELSE stale[q]
      BY <2>6 DEF Overwritten
    <3>1. stale[q] \subseteq stale'[q]
      BY <2>3, <3>0
    <3>2. UNCHANGED events \/ (c \in DOMAIN had[q] => c \in stale'[q])
      BY <2>3, <3>0
    <3> HIDE DEF c
    <3>3. job'[q] = job[q] /\ records'[q] = records[q] /\ had'[q] = had[q] /\ changed'[q] = changed[q]
      BY <1>1, <2>3, <2>6
    <3>4. job[q] \in {"next", "tags"} => DOMAIN had[q] \subseteq DOMAIN events
      BY <1>1 DEF Reads
    <3>5. job[q] \in {"next", "tags"} =>
            \A n \in DOMAIN had[q] : n \in DOMAIN events' /\ (events'[n] = events[n] \/ n \in stale'[q])
      BY <2>5, <3>2, <3>4
    <3> QED
      BY <1>1, <3>1, <3>3, <3>5, ReadsStay
  <2>7. CASE q = p
    <3>1. stale'[p] = stale[p]
      BY <1>1, <2>3 DEF Overwritten
    <3>2. \A n \in DOMAIN records[p] \ stale[p] : n # c => records[p][n] = events[n]
      BY <1>1, <2>1 DEF Reads
    <3> HIDE DEF c
    <3>3. /\ DOMAIN records'[p] = DOMAIN records[p] \ {c} /\ job'[p] = "next"
          /\ \A n \in DOMAIN records'[p] : records'[p][n] = records[p][n]
      BY <1>1, <2>3
    <3> QED
      BY <2>3, <2>4, <2>5, <2>7, <3>1, <3>2, <3>3 DEF Reads
  <2> QED
    BY <2>6, <2>7
<1> QED
  BY <1>3, <1>4, <1>5, <1>6, <1>7, <1>8, <1>9, <1>10, MaintenanceCases

LEMMA MInv1Init == MaintenanceInit => MInv1
<1> SUFFICES ASSUME MaintenanceInit PROVE MInv1
  OBVIOUS
<1>1. Init
  BY DEF MaintenanceInit
<1>2. LogLayer
  BY <1>1, Inv1Init DEF Init, LogLayer, SequenceReserved, LockHeld, SequenceFresh, Appending
<1>3. /\ job = [p \in Proc |-> "none"] /\ records = [p \in Proc |-> << >>]
      /\ todo = [p \in Proc |-> << >>] /\ changed = [p \in Proc |-> 0]
      /\ tally = [p \in Proc |-> Tally(0, 0)] /\ had = [p \in Proc |-> << >>]
      /\ hits = [p \in Proc |-> {}] /\ due = [p \in Proc |-> {}]
      /\ torn = {} /\ stale = [p \in Proc |-> {}] /\ spoiled = FALSE
  BY DEF MaintenanceInit
<1>4. MaintenanceTypes
  <2>1. << >> \in Seq(Tag) /\ DOMAIN << >> = {} /\ \A S : << >> \in [{} -> S]
    BY EmptySeq
  <2>2. \A p \in Proc : records[p] = << >> /\ had[p] = << >>
    BY <1>3
  <2>3. Tally(0, 0) \in [tags : Nat, events : Nat]
    BY DEF Tally
  <2>4. tally \in [Proc -> [tags : Nat, events : Nat]]
    BY <1>3, <2>3
  <2>5. \A p \in Proc : DOMAIN records[p] \subseteq Nat /\ records[p] \in [DOMAIN records[p] -> Event]
    BY <2>1, <2>2
  <2>6. \A p \in Proc : had[p] \in [DOMAIN had[p] -> Nat]
    BY <2>1, <2>2
  <2>7. records = [p \in Proc |-> records[p]] /\ had = [p \in Proc |-> had[p]]
    BY <1>3
  <2> QED
    BY <1>3, <2>1, <2>4, <2>5, <2>6, <2>7 DEF MaintenanceTypes, Jobs
<1>5. \A p \in Proc : job[p] = "none"
  BY <1>3
<1> QED
  BY <1>2, <1>4, <1>5 DEF MInv1, Duties, Maintains, Reads

LEMMA MInv1Step ==
  ASSUME ListingsSucceed, SafeLock, DeletesAlone, FactoryMakesTags,
         MInv1, [MaintenanceNext]_maintenanceVars
  PROVE  MInv1'
BY LogLayerStep, MaintenanceTypesStep, DutiesStep, ReadsStep DEF MInv1

LEMMA MInv1Always ==
  ASSUME ListingsSucceed, SafeLock, DeletesAlone, FactoryMakesTags
  PROVE  MaintenanceSpec => []MInv1
<1>1. MInv1 /\ [MaintenanceNext]_maintenanceVars => MInv1'
  BY MInv1Step
<1> QED
  BY <1>1, MInv1Init, PTL DEF MaintenanceSpec

-----------------------------------------------------------------------------
(* Events keep what they have *)

LEMMA GrownItself ==
  ASSUME NEW e \in Event
  PROVE  Grown(e, e)
<1>1. e.tags \in Seq(Tag)
  BY DEF Event
<1>2. Len(e.tags) = Len(e.tags) + 0
  BY <1>1, LenProperties
<1>3. Extends(e.tags, e.tags, 0)
  BY <1>2 DEF Extends
<1> QED
  BY <1>3 DEF Grown

LEMMA GrownTwice ==
  ASSUME NEW e1 \in Event, NEW e2 \in Event, NEW e3 \in Event, Grown(e2, e1), Grown(e3, e2)
  PROVE  Grown(e3, e1)
<1>1. /\ Len(e1.tags) \in Nat /\ DOMAIN e1.tags = 1 .. Len(e1.tags)
      /\ Len(e2.tags) \in Nat /\ DOMAIN e2.tags = 1 .. Len(e2.tags)
      /\ Len(e3.tags) \in Nat
  BY LenProperties DEF Event
<1>2. PICK k \in Nat : Extends(e2.tags, e1.tags, k)
  BY DEF Grown
<1>3. PICK m \in Nat : Extends(e3.tags, e2.tags, m)
  BY DEF Grown
<1>4. Len(e3.tags) = Len(e1.tags) + (k + m) /\ k + m \in Nat
  <2> DEFINE l1 == Len(e1.tags)
             l2 == Len(e2.tags)
             l3 == Len(e3.tags)
  <2>1. l2 = l1 + k /\ l3 = l2 + m
    BY <1>2, <1>3 DEF Extends
  <2>2. l1 \in Nat /\ l2 \in Nat /\ l3 \in Nat
    BY <1>1
  <2> HIDE DEF l1, l2, l3
  <2>3. l3 = l1 + (k + m) /\ k + m \in Nat
    BY <2>1, <2>2
  <2> QED
    BY <2>3 DEF l1, l3
<1>5. \A i \in DOMAIN e1.tags : i \in DOMAIN e2.tags /\ e3.tags[i] = e1.tags[i]
  <2>1. DOMAIN e1.tags \subseteq DOMAIN e2.tags
    BY <1>1, <1>2 DEF Extends
  <2> QED
    BY <2>1, <1>2, <1>3 DEF Extends
<1>6. Extends(e3.tags, e1.tags, k + m)
  BY <1>4, <1>5 DEF Extends
<1> QED
  BY <1>4, <1>6 DEF Grown

\* An event that is rewritten is rewritten with itself and more tags, or torn.
LEMMA EventsOnlyGrow ==
  ASSUME DeletesAlone, MInv1, [MaintenanceNext]_maintenanceVars, NEW n \in DOMAIN events, n \in DOMAIN events'
  PROVE  \/ Grown(events'[n], events[n])
         \/ n \in torn' /\ \E p \in Proc : WritesBackOld(p, n)
<1>1. /\ MaintenanceTypes /\ TypeOK /\ (\A p \in Proc : Reads(p)) /\ events \in [DOMAIN events -> Event]
      /\ changed \in [Proc -> Nat]
  BY DEF MInv1, LogLayer, Inv1, TypeOK, MaintenanceTypes
<1>0. MaintenanceTypes
  BY <1>1
<1>2. ASSUME events'[n] = events[n]
      PROVE  Grown(events'[n], events[n])
  BY <1>1, <1>2, GrownItself
<1>3. ASSUME NEW p \in Proc, StoreActs(p)
      PROVE  events'[n] = events[n]
  BY <1>3, StoreActsFacts, StepKeepsEvents DEF MInv1, LogLayer
<1>4. ASSUME NEW p \in Proc, NEW failed \in BOOLEAN, DeleteEvents(p, failed)
      PROVE  events'[n] = events[n]
  <2>1. events' = events \/ DOMAIN events' = {}
    BY <1>4 DEF DeleteEvents
  <2> QED
    BY <2>1
<1>5. ASSUME NEW p \in Proc, NEW failed \in BOOLEAN, RewriteEvent(p, failed)
      PROVE  \/ Grown(events'[n], events[n])
             \/ n \in torn' /\ WritesBackOld(p, n)
  <2>1. job[p] = "tags"
    BY <1>5 DEF RewriteEvent
  <2>2. DOMAIN records[p] # {}
    BY <1>1, <2>1 DEF Reads
  <2> DEFINE c == Current(p)
  <2>3. c \in DOMAIN events
    BY <1>1, <2>1, <2>2, CurrentIsARecord DEF Reads
  <2>4. \/ UNCHANGED events
        \/ /\ WriteRecord(p, records[p][c])
           /\ torn' = IF c \in stale[p] THEN torn \cup {c} ELSE torn
    BY <1>0, <1>5, <2>2, RewriteEventStep
  <2>5. WriteRecord(p, records[p][c]) => events' = [events EXCEPT ![c] = records[p][c]]
    BY <1>1, <2>3, Written
  <2>6. c \notin stale[p] =>
          /\ records[p][c].type = events[c].type /\ changed[p] \in Nat
          /\ Extends(records[p][c].tags, events[c].tags, changed[p])
    BY <1>1, <2>1 DEF Reads
  <2>7. CASE n # c \/ UNCHANGED events
    <3> HIDE DEF c
    <3>1. events'[n] = events[n]
      BY <1>1, <2>4, <2>5, <2>7
    <3> QED
      BY <1>2, <3>1
  <2>8. CASE n = c /\ c \in stale[p] /\ torn' = torn \cup {c}
    BY <2>1, <2>8 DEF WritesBackOld
  <2>9. CASE n = c /\ c \notin stale[p] /\ WriteRecord(p, records[p][c])
    <3> HIDE DEF c
    <3>1. events'[n] = records[p][c]
      BY <1>1, <2>3, <2>5, <2>9
    <3> QED
      BY <2>6, <2>9, <3>1 DEF Grown
  <2> QED
    BY <2>4, <2>7, <2>8, <2>9
<1>6. ASSUME NEW p \in Proc, NEW failed \in BOOLEAN,
             \/ AddTags(p) \/ ReadRecords(p) \/ NextRecord(p) \/ MergeTag(p, failed) \/ EndAddTags(p)
             \/ MaintainerDies(p) \/ ReadTagIndex(p) \/ EndLookUp(p) \/ DeleteIndices(p, failed)
             \/ \E tags \in LookUps : LookUpTags(p, tags)
      PROVE  events'[n] = events[n]
  <2>1. AddTags(p) => UNCHANGED events
    BY DEF AddTags, Invoke, store
  <2>2. ReadRecords(p) => UNCHANGED events
    BY DEF ReadRecords, LoadEvents, store
  <2>3. \A tags \in LookUps : LookUpTags(p, tags) => UNCHANGED events
    BY DEF LookUpTags, store
  <2>4. NextRecord(p) \/ MergeTag(p, failed) \/ EndAddTags(p) \/ MaintainerDies(p) => UNCHANGED events
    BY DEF NextRecord, MergeTag, EndAddTags, MaintainerDies, vars, store
  <2>5. ReadTagIndex(p) \/ EndLookUp(p) \/ DeleteIndices(p, failed) => UNCHANGED events
    BY DEF ReadTagIndex, EndLookUp, DeleteIndices, vars, store
  <2> QED
    BY <1>6, <2>1, <2>2, <2>3, <2>4, <2>5
<1>7. CASE UNCHANGED <<vars, maintaining>>
  BY <1>2, <1>7 DEF vars, store
<1> QED
  BY <1>2, <1>3, <1>4, <1>5, <1>6, <1>7, MaintenanceCases

\* What a list of tags starts with.
LEMMA StartsWith ==
  ASSUME NEW short \in Seq(Tag), NEW long, NEW k, Extends(long, short, k)
  PROVE  SubSeq(long, 1, Len(short)) = short
<1>1. Len(short) \in Nat /\ DOMAIN short = 1 .. Len(short) /\ short = [i \in 1 .. Len(short) |-> short[i]]
  BY LenProperties, SeqDef
<1>2. SubSeq(long, 1, Len(short)) = [i \in 1 .. Len(short) |-> long[i]]
  BY <1>1
<1> QED
  BY <1>1, <1>2 DEF Extends

\* add_tags preserves what an event has: its type and its tags in their order, although
\* the event is written back from a record read long before, nothing is locked, and
\* others do the same.  Tags are lost only if the maintainer's record is older than what
\* another one has written.  The store is deleted only while nobody uses it.
THEOREM TagsAreOnlyAdded ==
  ASSUME ListingsSucceed, SafeLock, DeletesAlone, FactoryMakesTags
  PROVE  MaintenanceSpec => TagsOnlyGrow
<1> DEFINE Keeps ==
      \A n \in DOMAIN events \cap DOMAIN events' :
        spoiled \/ (\E p \in Proc : WritesBackOld(p, n))
        \/ /\ events'[n].type = events[n].type
           /\ SubSeq(events'[n].tags, 1, Len(events[n].tags)) = events[n].tags
<1>1. ASSUME MInv1, [MaintenanceNext]_maintenanceVars
      PROVE  Keeps
  <2>1. ASSUME NEW n \in DOMAIN events, n \in DOMAIN events', \A p \in Proc : ~WritesBackOld(p, n)
        PROVE  /\ events'[n].type = events[n].type
               /\ SubSeq(events'[n].tags, 1, Len(events[n].tags)) = events[n].tags
    <3>1. events[n].tags \in Seq(Tag)
      BY <1>1 DEF MInv1, LogLayer, Inv1, TypeOK, Event
    <3>2. Grown(events'[n], events[n])
      BY <1>1, <2>1, EventsOnlyGrow
    <3> QED
      BY <3>1, <3>2, StartsWith DEF Grown
  <2> QED
    BY <2>1
<1>2. MInv1 /\ [MaintenanceNext]_maintenanceVars => [Keeps]_events
  BY <1>1
<1>3. MaintenanceSpec => [][Keeps]_events
  BY <1>2, MInv1Always, PTL DEF MaintenanceSpec
<1> QED
  BY <1>3 DEF TagsOnlyGrow

-----------------------------------------------------------------------------
(* The tally *)

\* One more event, with k more tags than it had.
LEMMA GainOfOneMore ==
  ASSUME NEW h, NEW log, NEW S, IsFiniteSet(Gain(h, log, S)), NEW c, c \notin S,
         h[c] \in Nat, NEW k \in Nat, Len(log[c].tags) = h[c] + k
  PROVE  /\ IsFiniteSet(Gain(h, log, S \cup {c}))
         /\ Cardinality(Gain(h, log, S \cup {c})) = Cardinality(Gain(h, log, S)) + k
<1> DEFINE G == Gain(h, log, S)
           new == h[c] + 1 .. Len(log[c].tags)
           N == {c} \X new
<1>1. Gain(h, log, S \cup {c}) = G \cup N
  BY DEF Gain
<1>2. IsFiniteSet(new) /\ Cardinality(new) = k
  <2>1. h[c] + 1 \in Int /\ Len(log[c].tags) \in Int
    OBVIOUS
  <2>2. IsFiniteSet(new) /\ Cardinality(new) = IF h[c] + 1 > Len(log[c].tags) THEN 0 ELSE Len(log[c].tags) - (h[c] + 1) + 1
    BY <2>1, FS_Interval
  <2> QED
    BY <2>2
<1>3. IsFiniteSet({c}) /\ Cardinality({c}) = 1
  BY FS_Singleton
<1>4. IsFiniteSet(N) /\ Cardinality(N) = k
  <2> HIDE DEF new
  <2>1. IsFiniteSet({c} \X new) /\ Cardinality({c} \X new) = 1 * k
    BY <1>2, <1>3, FS_Product
  <2> QED
    BY <2>1
<1>5. G \cap N = {} /\ Cardinality({}) = 0
  BY FS_EmptySet DEF Gain
<1>6. IsFiniteSet(G) /\ Cardinality(G) \in Nat
  BY FS_CardinalityType
<1> HIDE DEF G, N, new
<1>7. IsFiniteSet(G \cup N) /\ Cardinality(G \cup N) = Cardinality(G) + Cardinality(N) - Cardinality(G \cap N)
  BY <1>4, <1>6, FS_Union
<1>8. Cardinality(G \cup N) = Cardinality(G) + k
  <2>1. Cardinality(G \cup N) = Cardinality(G) + k - 0
    BY <1>4, <1>5, <1>7, Zenon
  <2> QED
    BY <1>6, <2>1
<1> QED
  BY <1>1, <1>7, <1>8 DEF G

\* The gain is that of the events of S only.
LEMMA GainStays ==
  ASSUME NEW h, NEW log, NEW log2, NEW S, \A n \in S : log2[n] = log[n]
  PROVE  Gain(h, log2, S) = Gain(h, log, S)
BY DEF Gain

\* What a maintainer counts changes only with what it calls stale.
LEMMA CountsStay ==
  ASSUME NEW q \in Proc, Reads(q), CountsRight(q),
         job'[q] = job[q], records'[q] = records[q], had'[q] = had[q], tally'[q] = tally[q],
         torn \subseteq torn', stale[q] \subseteq stale'[q],
         job[q] \in {"next", "tags"} =>
           \A n \in DOMAIN had[q] : events'[n] = events[n] \/ n \in stale'[q]
  PROVE  CountsRight(q)'
<1>1. CASE job[q] \notin {"next", "tags"}
  BY <1>1 DEF CountsRight
<1>2. CASE job[q] \in {"next", "tags"}
  <2>1. DOMAIN records[q] \subseteq DOMAIN had[q]
    BY <1>2 DEF Reads
  <2>2. DoneBy(q)' = DoneBy(q) /\ DoneBy(q) \subseteq DOMAIN had[q]
    BY DEF DoneBy
  <2>3. \A n \in DOMAIN records[q] \ stale'[q] : had[q][n] = Len(events'[n].tags)
    BY <1>2, <2>1 DEF CountsRight
  <2>4. ASSUME DOMAIN had[q] \cap (torn' \cup stale'[q]) = {}
        PROVE  /\ IsFiniteSet(Gain(had[q], events', DoneBy(q)))
               /\ tally[q].tags = Cardinality(Gain(had[q], events', DoneBy(q)))
    <3>1. DOMAIN had[q] \cap (torn \cup stale[q]) = {} /\ \A n \in DoneBy(q) : events'[n] = events[n]
      BY <1>2, <2>2, <2>4
    <3>2. Gain(had[q], events', DoneBy(q)) = Gain(had[q], events, DoneBy(q))
      BY <3>1, GainStays
    <3> QED
      BY <1>2, <3>1, <3>2 DEF CountsRight
  <2> QED
    BY <1>2, <2>2, <2>3, <2>4 DEF CountsRight
<1> QED
  BY <1>1, <1>2

LEMMA CountedStep ==
  ASSUME DeletesAlone, MInv1, Counted, [MaintenanceNext]_maintenanceVars
  PROVE  Counted'
<1>0. MaintenanceTypes
  BY DEF MInv1
<1>1. /\ MaintenanceTypes /\ Duties /\ TypeOK /\ (\A q \in Proc : Reads(q)) /\ Counted
      /\ job \in [Proc -> Jobs] /\ changed \in [Proc -> Nat] /\ had = [p \in Proc |-> had[p]]
      /\ records = [p \in Proc |-> records[p]] /\ tally \in [Proc -> [tags : Nat, events : Nat]]
      /\ stale \in [Proc -> SUBSET Nat]
      /\ events \in [DOMAIN events -> Event] /\ IsFiniteSet(DOMAIN events)
  BY DEF MInv1, LogLayer, Inv1, TypeOK, MaintenanceTypes
<1>2. ASSUME NEW q \in Proc, job'[q] \notin {"read", "next", "tags"}
      PROVE  CountsRight(q)'
  BY <1>2 DEF CountsRight
<1>3. ASSUME NEW q \in Proc,
             job'[q] = job[q], records'[q] = records[q], had'[q] = had[q], tally'[q] = tally[q],
             torn \subseteq torn', stale[q] \subseteq stale'[q],
             \A n \in DOMAIN events : events'[n] = events[n] \/ (n \in DOMAIN had[q] => n \in stale'[q])
      PROVE  CountsRight(q)'
  <2>1. job[q] \in {"next", "tags"} => DOMAIN had[q] \subseteq DOMAIN events
    BY <1>1 DEF Reads
  <2> QED
    BY <1>1, <1>3, <2>1, CountsStay DEF Counted
<1>4. CASE UNCHANGED <<vars, maintaining>>
  <2>1. UNCHANGED <<job, records, had, tally, torn, stale, events>>
    BY <1>4 DEF vars, store, maintaining, counting
  <2> QED
    BY <1>3, <2>1 DEF Counted
<1>5. ASSUME NEW p \in Proc, StoreActs(p)
      PROVE  Counted'
  <2>1. Next /\ UNCHANGED <<job, records, had, tally, torn, stale>>
    BY <1>5, StoreActsFacts
  <2>2. \A n \in DOMAIN events : events'[n] = events[n]
    BY <2>1, StepKeepsEvents DEF MInv1, LogLayer
  <2> QED
    BY <1>3, <2>1, <2>2 DEF Counted
<1>6. ASSUME NEW p \in Proc, AddTags(p)
      PROVE  Counted'
  <2>1. /\ job' = [job EXCEPT ![p] = "read"] /\ tally' = [tally EXCEPT ![p] = Tally(0, 0)]
        /\ stale' = [stale EXCEPT ![p] = {}] /\ UNCHANGED <<events, records, had, torn>>
    BY <1>6 DEF AddTags, Invoke, store
  <2>2. CountsRight(p)'
    <3>1. job'[p] = "read" /\ tally'[p] = Tally(0, 0)
      BY <1>1, <2>1
    <3> QED
      BY <3>1 DEF CountsRight, Tally
  <2>3. ASSUME NEW q \in Proc, q # p
        PROVE  CountsRight(q)'
    BY <1>1, <1>3, <2>1, <2>3
  <2> QED
    BY <2>2, <2>3 DEF Counted
<1>7. ASSUME NEW p \in Proc, EndAddTags(p) \/ MaintainerDies(p)
      PROVE  Counted'
  <2>1. /\ job' = [job EXCEPT ![p] = "none"] /\ UNCHANGED <<events, records, tally, torn, stale>>
        /\ UNCHANGED had \/ had' = [had EXCEPT ![p] = << >>]
    BY <1>7 DEF EndAddTags, MaintainerDies, vars, store
  <2>2. ASSUME NEW q \in Proc, q # p
        PROVE  CountsRight(q)'
    BY <1>1, <1>3, <2>1, <2>2
  <2>3. job'[p] = "none"
    BY <1>1, <2>1
  <2> QED
    BY <1>2, <2>2, <2>3 DEF Counted
<1>8. ASSUME NEW p \in Proc, ReadTagIndex(p) \/ EndLookUp(p) \/ \E tags \in LookUps : LookUpTags(p, tags)
      PROVE  Counted'
  <2>1. /\ UNCHANGED <<events, records, had, tally, torn, stale>>
        /\ UNCHANGED job \/ \E j \in {"none", "lookup"} : job' = [job EXCEPT ![p] = j]
    BY <1>8 DEF ReadTagIndex, EndLookUp, LookUpTags, vars, store, counting
  <2>2. ASSUME NEW q \in Proc, job'[q] \in {"read", "next", "tags"}
        PROVE  CountsRight(q)'
    <3>1. job'[q] = job[q]
      BY <1>1, <2>1, <2>2
    <3> QED
      BY <1>3, <2>1, <3>1
  <2> QED
    BY <1>2, <2>2 DEF Counted
<1>9. ASSUME NEW p \in Proc, NEW failed \in BOOLEAN, DeleteEvents(p, failed) \/ DeleteIndices(p, failed)
      PROVE  Counted'
  <2>1. \A q \in Proc : job'[q] \notin {"read", "next", "tags"}
    <3>1. Alone(p) /\ \E j \in {"none", "delete"} : job' = [job EXCEPT ![p] = j]
      BY <1>1, <1>9 DEF DeleteEvents, DeleteIndices, Duties
    <3> QED
      BY <1>1, <3>1 DEF Alone
  <2> QED
    BY <1>2, <2>1 DEF Counted
<1>10. ASSUME NEW p \in Proc, ReadRecords(p)
       PROVE  Counted'
  <2>1. call[p] = TheRead /\ job[p] = "read"
    BY <1>1, <1>10 DEF ReadRecords, Duties
  <2> DEFINE R == result'[p].positions
  <2>2. /\ UNCHANGED <<events, tally, torn, stale>>
        /\ \/ job' = [job EXCEPT ![p] = "none"] /\ UNCHANGED <<records, had>>
           \/ /\ R \subseteq DOMAIN events
              /\ records' = [records EXCEPT ![p] = [n \in R |-> events[n]]]
              /\ had' = [had EXCEPT ![p] = [n \in R |-> Len(events[n].tags)]]
              /\ job' = [job EXCEPT ![p] = "next"]
    BY <1>0, <1>1, <1>10, <2>1, ReadRecordsStep
  <2> HIDE DEF R
  <2>3. ASSUME NEW q \in Proc, q # p
        PROVE  CountsRight(q)'
    BY <1>1, <1>3, <2>2, <2>3
  <2>4. CASE job' = [job EXCEPT ![p] = "none"]
    <3>1. job'[p] = "none"
      BY <1>1, <2>4
    <3> QED
      BY <1>2, <2>3, <3>1 DEF Counted
  <2>5. CASE /\ R \subseteq DOMAIN events
             /\ records' = [records EXCEPT ![p] = [n \in R |-> events[n]]]
             /\ had' = [had EXCEPT ![p] = [n \in R |-> Len(events[n].tags)]]
             /\ job' = [job EXCEPT ![p] = "next"]
    <3>1. /\ DOMAIN records'[p] = R /\ DOMAIN had'[p] = R /\ job'[p] = "next"
          /\ \A n \in R : had'[p][n] = Len(events[n].tags)
      BY <1>1, <2>5
    <3>2. DoneBy(p)' = {}
      BY <3>1 DEF DoneBy
    <3>3. IsFiniteSet(R)
      BY <1>1, <2>5, FS_Subset
    <3>4. Gain(had'[p], events', {}) = {} /\ IsFiniteSet({}) /\ Cardinality({}) = 0
      BY FS_EmptySet DEF Gain
    <3>5. tally'[p].tags = 0 /\ tally'[p].events = 0
      BY <1>1, <2>1, <2>2 DEF Counted, CountsRight, Tally
    <3>6. Gain(had[p], events, DoneBy(p))' = {}
      BY <3>2, <3>4
    <3>7. tally'[p].events = Cardinality(DoneBy(p)') + 0 /\ tally'[p].tags = Cardinality(Gain(had[p], events, DoneBy(p))')
      BY <3>2, <3>4, <3>5, <3>6
    <3>8. IsFiniteSet(DOMAIN had'[p]) /\ IsFiniteSet(Gain(had[p], events, DoneBy(p))')
      BY <3>1, <3>3, <3>4, <3>6
    <3>9. \A n \in DOMAIN records'[p] : had'[p][n] = Len(events'[n].tags)
      BY <2>2, <3>1
    <3>10. CountsRight(p)'
      BY <3>1, <3>7, <3>8, <3>9 DEF CountsRight
    <3> QED
      BY <2>3, <3>10 DEF Counted
  <2> QED
    BY <2>2, <2>4, <2>5
<1>11. ASSUME NEW p \in Proc, NextRecord(p)
       PROVE  Counted'
  <2>1. /\ job[p] = "next" /\ UNCHANGED <<events, records, had, torn, stale>>
        /\ job' = [job EXCEPT ![p] = "tags"]
        /\ tally' = [tally EXCEPT ![p] = Tally(tally[p].tags, tally[p].events + 1)]
    <3>1. tally' = [tally EXCEPT ![p] = [tally[p] EXCEPT !.events = tally[p].events + 1]]
      BY <1>11, Zenon DEF NextRecord
    <3>2. tally[p] \in [tags : Nat, events : Nat]
      BY <1>1
    <3>3. tally' = [tally EXCEPT ![p] = Tally(tally[p].tags, tally[p].events + 1)]
      BY <3>1, <3>2, TallyWith, Zenon
    <3> QED
      BY <1>11, <3>3 DEF NextRecord, vars, store
  <2>2. tally[p] \in [tags : Nat, events : Nat]
    BY <1>1
  <2>3. tally'[p].events = tally[p].events + 1 /\ tally'[p].tags = tally[p].tags
    BY <1>1, <2>1, <2>2 DEF Tally
  <2>4. DoneBy(p)' = DoneBy(p)
    BY <2>1 DEF DoneBy
  <2>5. job'[p] = "tags"
    BY <1>1, <2>1
  <2>6. tally[p].events = Cardinality(DoneBy(p)) + 0
    BY <1>1, <2>1 DEF Counted, CountsRight
  <2>7. tally[p].events = Cardinality(DoneBy(p))
    <3>1. IsFiniteSet(DoneBy(p))
      BY <1>1, <2>1, FS_Subset DEF Counted, CountsRight, DoneBy
    <3> QED
      BY <2>6, <3>1, FS_CardinalityType
  <2>8. CountsRight(p)'
    BY <1>1, <2>1, <2>3, <2>4, <2>5, <2>7 DEF Counted, CountsRight
  <2>9. ASSUME NEW q \in Proc, q # p
        PROVE  CountsRight(q)'
    BY <1>1, <1>3, <2>1, <2>9
  <2> QED
    BY <2>8, <2>9 DEF Counted
<1>12. ASSUME NEW p \in Proc, NEW failed \in BOOLEAN, MergeTag(p, failed)
       PROVE  Counted'
  <2>1. job[p] = "tags"
    BY <1>12 DEF MergeTag
  <2>2. DOMAIN records[p] # {}
    BY <1>1, <2>1 DEF Reads
  <2> DEFINE c == Current(p)
             e == records[p][c]
             g == Head(todo[p])
  <2>3. /\ UNCHANGED <<events, job, had, tally, stale>> /\ c \in DOMAIN records[p]
        /\ \/ UNCHANGED records
           \/ records' = [records EXCEPT ![p] = [records[p] EXCEPT ![c] = Tagged(e, g)]]
    BY <1>0, <1>12, <2>2, MergeTagStep
  <2>4. torn \subseteq torn'
    BY <1>12 DEF MergeTag, UpdateTagIndex
  <2> HIDE DEF c, e, g
  <2>5. DOMAIN records'[p] = DOMAIN records[p] /\ DoneBy(p)' = DoneBy(p)
    BY <1>1, <2>3 DEF DoneBy
  <2>6. CountsRight(p)'
    BY <1>1, <2>3, <2>4, <2>5 DEF Counted, CountsRight
  <2>7. ASSUME NEW q \in Proc, q # p
        PROVE  CountsRight(q)'
    BY <1>1, <1>3, <2>3, <2>4, <2>7
  <2> QED
    BY <2>6, <2>7 DEF Counted
<1>13. ASSUME NEW p \in Proc, NEW failed \in BOOLEAN, RewriteEvent(p, failed)
       PROVE  Counted'
  <2>1. job[p] = "tags"
    BY <1>13 DEF RewriteEvent
  <2>2. DOMAIN records[p] # {}
    BY <1>1, <2>1 DEF Reads
  <2> DEFINE c == Current(p)
  <2>3. /\ c \in DOMAIN records[p] /\ UNCHANGED had
        /\ records' = [records EXCEPT ![p] = [n \in DOMAIN records[p] \ {c} |-> records[p][n]]]
        /\ tally' = [tally EXCEPT ![p] = Tally(tally[p].tags + changed[p], tally[p].events)]
        /\ job' = [job EXCEPT ![p] = "next"]
        /\ \/ UNCHANGED <<events, stale>> /\ torn' = torn \cup {c}
           \/ UNCHANGED torn /\ changed[p] <= 0 /\ UNCHANGED <<events, stale>>
           \/ /\ torn' = IF c \in stale[p] THEN torn \cup {c} ELSE torn
              /\ WriteRecord(p, records[p][c]) /\ stale' = Overwritten(p)
    BY <1>0, <1>13, <2>2, RewriteEventStep
  <2>4. /\ DOMAIN records[p] \subseteq DOMAIN had[p] /\ DOMAIN had[p] \subseteq DOMAIN events
        /\ c \in DOMAIN had[p] /\ c \in DOMAIN events
    BY <1>1, <2>1, <2>3 DEF Reads
  <2>5. WriteRecord(p, records[p][c]) => events' = [events EXCEPT ![c] = records[p][c]]
    BY <1>1, <2>4, Written
  <2>6. c \notin stale[p] => Extends(records[p][c].tags, events[c].tags, changed[p])
    BY <1>1, <2>1 DEF Reads
  <2>7. stale'[p] = stale[p] /\ \A q \in Proc : q # p => stale'[q] = stale[q] \/ stale'[q] = Overwritten(p)[q]
    BY <1>1, <2>3 DEF Overwritten
  <2>8. \A q \in Proc : q # p => stale[q] \subseteq stale'[q] /\ (UNCHANGED events \/ (c \in DOMAIN had[q] => c \in stale'[q]))
    <3>1. \A q \in Proc : q # p => Overwritten(p)[q] = IF c \in DOMAIN had[q] THEN stale[q] \cup {c} ELSE stale[q]
      BY DEF Overwritten
    <3> QED
      BY <2>3, <3>1
  <2> HIDE DEF c
  <2>9. torn \subseteq torn' /\ \A n \in DOMAIN events : n # c => events'[n] = events[n]
    BY <1>1, <2>3, <2>5
  <2>10. ASSUME NEW q \in Proc, q # p
         PROVE  CountsRight(q)'
    <3>1. job'[q] = job[q] /\ records'[q] = records[q] /\ had'[q] = had[q] /\ tally'[q] = tally[q]
      BY <1>1, <2>3, <2>10
    <3>2. \A n \in DOMAIN events : events'[n] = events[n] \/ (n \in DOMAIN had[q] => n \in stale'[q])
      BY <2>8, <2>9, <2>10
    <3> QED
      BY <1>3, <2>8, <2>9, <2>10, <3>1, <3>2
  <2>11. had[p][c] \in Nat /\ (c \notin stale[p] => had[p][c] = Len(events[c].tags))
    <3>1. c \notin stale[p] => had[p][c] = Len(events[c].tags)
      BY <1>1, <2>1, <2>3 DEF Counted, CountsRight
    <3>2. had[p] \in [DOMAIN had[p] -> Nat]
      BY <1>0 DEF MaintenanceTypes
    <3> QED
      BY <2>4, <3>1, <3>2
  <2>12. DOMAIN records'[p] = DOMAIN records[p] \ {c} /\ job'[p] = "next" /\ had'[p] = had[p]
    BY <1>1, <2>3
  <2>13. DoneBy(p)' = DoneBy(p) \cup {c} /\ c \notin DoneBy(p)
    BY <2>3, <2>4, <2>12 DEF DoneBy
  <2>14. tally[p] \in [tags : Nat, events : Nat] /\ changed[p] \in Nat
    BY <1>1
  <2>15. tally'[p].events = tally[p].events /\ tally'[p].tags = tally[p].tags + changed[p]
    BY <1>1, <2>3, <2>14 DEF Tally
  <2>16. IsFiniteSet(DoneBy(p)) /\ IsFiniteSet(DOMAIN had[p])
    BY <1>1, <2>1, FS_Subset DEF Counted, CountsRight, DoneBy
  <2>17. tally'[p].events = Cardinality(DoneBy(p)') + 0
    <3>1. Cardinality(DoneBy(p) \cup {c}) = Cardinality(DoneBy(p)) + 1 /\ Cardinality(DoneBy(p)) \in Nat
      BY <2>13, <2>16, FS_AddElement, FS_CardinalityType
    <3>2. tally[p].events = Cardinality(DoneBy(p)) + 1
      BY <1>1, <2>1 DEF Counted, CountsRight
    <3> QED
      BY <2>13, <2>15, <3>1, <3>2
  <2>18. ASSUME DOMAIN had[p] \cap (torn' \cup stale'[p]) = {}
         PROVE  /\ IsFiniteSet(Gain(had[p], events', DoneBy(p) \cup {c}))
                /\ tally'[p].tags = Cardinality(Gain(had[p], events', DoneBy(p) \cup {c}))
    <3>1. DOMAIN had[p] \cap (torn \cup stale[p]) = {} /\ c \notin stale[p] /\ c \notin torn'
      BY <2>4, <2>7, <2>9, <2>18
    <3>2. /\ IsFiniteSet(Gain(had[p], events, DoneBy(p)))
          /\ tally[p].tags = Cardinality(Gain(had[p], events, DoneBy(p)))
      BY <1>1, <2>1, <3>1 DEF Counted, CountsRight
    <3>3. Len(events'[c].tags) = had[p][c] + changed[p]
      <4>1. CASE changed[p] <= 0 /\ UNCHANGED events
        <5>1. changed[p] = 0
          BY <2>14, <4>1
        <5> QED
          BY <2>11, <3>1, <4>1, <5>1
      <4>2. CASE WriteRecord(p, records[p][c])
        <5>1. events'[c] = records[p][c]
          BY <2>4, <2>5, <4>2
        <5> QED
          BY <2>6, <2>11, <3>1, <5>1 DEF Extends
      <4> QED
        BY <2>3, <3>1, <4>1, <4>2
    <3>4. Gain(had[p], events', DoneBy(p)) = Gain(had[p], events, DoneBy(p))
      <4>1. \A n \in DoneBy(p) : events'[n] = events[n]
        BY <2>4, <2>9, <2>13 DEF DoneBy
      <4> QED
        BY <4>1, GainStays
    <3> DEFINE log == events'
    <3> HIDE DEF log
    <3>5. IsFiniteSet(Gain(had[p], log, DoneBy(p))) /\ Len(log[c].tags) = had[p][c] + changed[p]
      BY <3>2, <3>3, <3>4 DEF log
    <3>6. IsFiniteSet(Gain(had[p], log, DoneBy(p) \cup {c}))
      BY <2>11, <2>13, <2>14, <3>5, GainOfOneMore
    <3>7. Cardinality(Gain(had[p], log, DoneBy(p) \cup {c})) = Cardinality(Gain(had[p], log, DoneBy(p))) + changed[p]
      BY <2>11, <2>13, <2>14, <3>5, GainOfOneMore
    <3> QED
      BY <2>15, <3>2, <3>4, <3>6, <3>7 DEF log
  <2>19. \A n \in DOMAIN records'[p] \ stale'[p] : had'[p][n] = Len(events'[n].tags)
    BY <1>1, <2>1, <2>4, <2>7, <2>9, <2>12 DEF Counted, CountsRight
  <2>20. CountsRight(p)'
    BY <2>12, <2>13, <2>16, <2>17, <2>18, <2>19 DEF CountsRight
  <2> QED
    BY <2>10, <2>20 DEF Counted
<1> QED
  BY <1>4, <1>5, <1>6, <1>7, <1>8, <1>9, <1>10, <1>11, <1>12, <1>13, MaintenanceCases

\* What add_tags reports is what the events it read have gained, however appends, look-ups,
\* other add_tags and dying maintainers come in between, unless the write of one of them
\* failed or another add_tags rewrote one.
THEOREM ReportIsRight ==
  ASSUME ListingsSucceed, SafeLock, DeletesAlone, FactoryMakesTags
  PROVE  MaintenanceSpec => []TallyIsRight
<1>1. MaintenanceInit => Counted
  BY DEF MaintenanceInit, Counted, CountsRight
<1>2. MInv1 /\ Counted /\ [MaintenanceNext]_maintenanceVars => Counted'
  BY CountedStep
<1>3. ASSUME MInv1, Counted PROVE TallyIsRight
  <2> SUFFICES ASSUME NEW p \in Proc, job[p] = "next", DOMAIN records[p] = {},
                      DOMAIN had[p] \cap (torn \cup stale[p]) = {}
               PROVE  tally[p] = Tally(Cardinality(Gain(had[p], events, DOMAIN had[p])),
                                       Cardinality(DOMAIN had[p]))
    BY DEF TallyIsRight, Gain
  <2>1. DoneBy(p) = DOMAIN had[p]
    BY DEF DoneBy
  <2>2. tally[p] \in [tags : Nat, events : Nat]
    BY <1>3 DEF MInv1, MaintenanceTypes
  <2>3. /\ tally[p].events = Cardinality(DOMAIN had[p]) + 0 /\ IsFiniteSet(DOMAIN had[p])
        /\ tally[p].tags = Cardinality(Gain(had[p], events, DOMAIN had[p]))
    BY <1>3, <2>1 DEF Counted, CountsRight
  <2>4. tally[p].events = Cardinality(DOMAIN had[p])
    BY <2>3, FS_CardinalityType
  <2>5. tally[p] = [tags |-> tally[p].tags, events |-> tally[p].events]
    BY <2>2
  <2> QED
    BY <2>3, <2>4, <2>5 DEF Tally
<1> QED
  BY <1>1, <1>2, <1>3, MInv1Always, PTL DEF MaintenanceSpec

-----------------------------------------------------------------------------
(* The index files next to maintenance *)

\* With more tags an event is in more index files.
LEMMA FilesOfMore ==
  ASSUME NEW e \in Event, NEW e2 \in Event, e2.type = e.type, NEW k \in Nat, Extends(e2.tags, e.tags, k)
  PROVE  Range(FilesOf(e)) \subseteq Range(FilesOf(e2))
<1>1. e.tags \in Seq(Tag) /\ e2.tags \in Seq(Tag)
  BY DEF Event
<1>2. /\ Len(e.tags) \in Nat /\ DOMAIN e.tags = 1 .. Len(e.tags)
      /\ Len(e2.tags) \in Nat /\ DOMAIN e2.tags = 1 .. Len(e2.tags)
  BY <1>1, LenProperties
<1>3. DOMAIN e.tags \subseteq DOMAIN e2.tags /\ \A i \in DOMAIN e.tags : e2.tags[i] = e.tags[i]
  BY <1>2 DEF Extends
<1>4. Range(e.tags) \subseteq Range(e2.tags)
  BY <1>3 DEF Range
<1> QED
  BY <1>4, FilesOfExactly, FilesOfEvent

\* The record in hand has types, and its position an event.
LEMMA TheRecordInHand ==
  ASSUME MInv1, NEW p \in Proc, job[p] = "tags"
  PROVE  /\ DOMAIN records[p] # {} /\ Current(p) \in DOMAIN records[p]
         /\ Current(p) \in DOMAIN had[p] /\ Current(p) \in DOMAIN events /\ Current(p) \in Nat
         /\ events[Current(p)] \in Event /\ records[p][Current(p)] \in Event
         /\ changed[p] \in Nat
         /\ Current(p) \notin stale[p] => Grown(records[p][Current(p)], events[Current(p)])
<1>1. MaintenanceTypes /\ Reads(p) /\ events \in [DOMAIN events -> Event]
  BY DEF MInv1, LogLayer, Inv1, TypeOK
<1>2. DOMAIN records[p] # {}
  BY <1>1 DEF Reads
<1>3. Current(p) \in DOMAIN records[p]
  BY <1>1, <1>2, CurrentIsARecord
<1>4. Current(p) \in DOMAIN events /\ Current(p) \in DOMAIN had[p]
  BY <1>1, <1>3 DEF Reads
<1>5. records[p][Current(p)] \in Event /\ changed[p] \in Nat /\ Current(p) \in Nat
  BY <1>1, <1>3 DEF MaintenanceTypes
<1>6. Current(p) \notin stale[p] => Grown(records[p][Current(p)], events[Current(p)])
  BY <1>1, <1>5 DEF Reads, Grown
<1> QED
  BY <1>1, <1>2, <1>3, <1>4, <1>5, <1>6

\* A maintainer keeps its records as they are until it does something to them.
LEMMA RecordsKept ==
  ASSUME DeletesAlone, MInv1, [MaintenanceNext]_maintenanceVars, NEW q \in Proc, job[q] \in {"next", "tags"}
  PROVE  \/ /\ job'[q] = job[q] /\ records'[q] = records[q] /\ changed'[q] = changed[q]
            /\ todo'[q] = todo[q] /\ had'[q] = had[q] /\ stale[q] \subseteq stale'[q]
            /\ pc'[q] = pc[q] /\ floor'[q] = floor[q]
         \/ NextRecord(q) \/ EndAddTags(q) \/ MaintainerDies(q)
         \/ \E failed \in BOOLEAN : MergeTag(q, failed) \/ RewriteEvent(q, failed)
<1> DEFINE Kept == /\ job'[q] = job[q] /\ records'[q] = records[q] /\ changed'[q] = changed[q]
                   /\ todo'[q] = todo[q] /\ had'[q] = had[q] /\ stale[q] \subseteq stale'[q]
                   /\ pc'[q] = pc[q] /\ floor'[q] = floor[q]
<1>1. /\ MaintenanceTypes /\ Duties /\ TypeOK /\ (\A p \in Proc : Reads(p))
      /\ job \in [Proc -> Jobs] /\ changed \in [Proc -> Nat] /\ todo \in [Proc -> Seq(Tag)]
      /\ stale \in [Proc -> SUBSET Nat] /\ pc \in [Proc -> Labels] /\ floor \in [Proc -> Nat]
      /\ records = [p \in Proc |-> records[p]] /\ had = [p \in Proc |-> had[p]]
  BY DEF MInv1, LogLayer, Inv1, TypeOK, MaintenanceTypes
<1>0. MaintenanceTypes
  BY <1>1
<1>2. ASSUME UNCHANGED <<vars, maintaining>>
      PROVE  Kept
  BY <1>2 DEF vars, store, maintaining, counting
<1>3. ASSUME NEW p \in Proc, StoreActs(p)
      PROVE  Kept
  <2>1. /\ UNCHANGED <<job, records, changed, todo, had, stale>> /\ Acts(p)
        /\ (Step(p) /\ pc[p] # "idle") \/ job[p] = "none"
        /\ (\E c \in Calls : Invoke(p, c)) \/ Step(p)
    BY <1>3, StoreActsFacts DEF Lives
  <2>2. pc[q] = "idle"
    BY <1>1 DEF Duties
  <2>3. q # p
    BY <2>1, <2>2
  <2>4. pc'[q] = pc[q]
    BY <1>1, <2>1, <2>3, OthersKeepLocals DEF Locals
  <2>5. floor'[q] = floor[q]
    <3>1. Step(p) => floor' = floor
      BY StepsOfCalls
    <3>2. \A c \in Calls : Invoke(p, c) => floor'[q] = floor[q]
      BY <1>1, <2>3 DEF Invoke
    <3> QED
      BY <2>1, <3>1, <3>2
  <2> QED
    BY <2>1, <2>4, <2>5
<1>4. ASSUME NEW p \in Proc, p # q, AddTags(p)
      PROVE  Kept
  BY <1>1, <1>4 DEF AddTags, Invoke, Go
<1>5. ASSUME NEW p \in Proc, p # q, ReadRecords(p)
      PROVE  Kept
  <2>1. call[p] = TheRead
    BY <1>1, <1>5 DEF ReadRecords, Duties
  <2>2. /\ UNCHANGED <<changed, todo, stale, floor>> /\ pc' = [pc EXCEPT ![p] = "idle"]
        /\ \/ job' = [job EXCEPT ![p] = "none"] /\ UNCHANGED <<records, had>>
           \/ /\ job' = [job EXCEPT ![p] = "next"]
              /\ \E r, h : records' = [records EXCEPT ![p] = r] /\ had' = [had EXCEPT ![p] = h]
    BY <1>1, <1>5, <2>1, ReadRecordsStep
  <2> QED
    BY <1>1, <1>5, <2>2
<1>6. ASSUME NEW p \in Proc, p # q, NextRecord(p) \/ EndAddTags(p) \/ MaintainerDies(p)
      PROVE  Kept
  <2>1. NextRecord(p) => Kept
    BY <1>1, <1>6 DEF NextRecord, vars
  <2>2. EndAddTags(p) => Kept
    BY <1>1, <1>6 DEF EndAddTags, vars
  <2>3. MaintainerDies(p) => Kept
    BY <1>1, <1>6 DEF MaintainerDies, Go
  <2> QED
    BY <1>6, <2>1, <2>2, <2>3
<1>7. ASSUME NEW p \in Proc, p # q, NEW failed \in BOOLEAN, MergeTag(p, failed)
      PROVE  Kept
  <2>1. job[p] = "tags" /\ DOMAIN records[p] # {}
    BY <1>1, <1>7 DEF MergeTag, Reads
  <2>2. /\ UNCHANGED <<job, had, stale, pc, floor>> /\ todo' = [todo EXCEPT ![p] = Tail(todo[p])]
        /\ \/ UNCHANGED <<records, changed>>
           \/ /\ records' = [records EXCEPT ![p] = [records[p] EXCEPT ![Current(p)] =
                                                     Tagged(records[p][Current(p)], Head(todo[p]))]]
              /\ changed' = [changed EXCEPT ![p] = changed[p] + 1]
    BY <1>0, <1>7, <2>1, MergeTagStep
  <2> QED
    BY <1>1, <1>7, <2>2
<1>8. ASSUME NEW p \in Proc, p # q, NEW failed \in BOOLEAN, RewriteEvent(p, failed)
      PROVE  Kept
  <2>1. job[p] = "tags" /\ DOMAIN records[p] # {}
    BY <1>1, <1>8 DEF RewriteEvent, Reads
  <2>2. /\ UNCHANGED <<changed, todo, had, pc, floor>> /\ job' = [job EXCEPT ![p] = "next"]
        /\ records' = [records EXCEPT ![p] = [n \in DOMAIN records[p] \ {Current(p)} |-> records[p][n]]]
        /\ stale' = stale \/ stale' = Overwritten(p)
    BY <1>0, <1>8, <2>1, RewriteEventStep
  <2>3. stale[q] \subseteq Overwritten(p)[q]
    BY DEF Overwritten
  <2> QED
    BY <1>1, <1>8, <2>2, <2>3
<1>9. ASSUME NEW p \in Proc, NEW failed \in BOOLEAN, DeleteEvents(p, failed)
      PROVE  FALSE
  <2>1. job[p] = "none" /\ Alone(p)
    BY <1>9 DEF DeleteEvents
  <2> QED
    BY <2>1 DEF Alone
<1>10. ASSUME NEW p \in Proc, NEW failed \in BOOLEAN, DeleteIndices(p, failed)
       PROVE  FALSE
  <2>1. job[p] = "delete" /\ Alone(p)
    BY <1>1, <1>10 DEF DeleteIndices, Duties
  <2> QED
    BY <2>1 DEF Alone
<1>11. ASSUME NEW p \in Proc, \E tags \in LookUps : LookUpTags(p, tags)
       PROVE  Kept
  BY <1>1, <1>11 DEF LookUpTags, counting
<1>12. ASSUME NEW p \in Proc, ReadTagIndex(p) \/ EndLookUp(p)
       PROVE  Kept
  <2>1. p # q
    BY <1>12 DEF ReadTagIndex, EndLookUp
  <2> QED
    BY <1>1, <1>12, <2>1 DEF ReadTagIndex, EndLookUp, vars, counting
<1>13. ~AddTags(q) /\ ~ReadRecords(q)
  BY DEF AddTags, ReadRecords
<1> HIDE DEF Kept
<1>14. \/ Kept \/ NextRecord(q) \/ EndAddTags(q) \/ MaintainerDies(q)
       \/ \E failed \in BOOLEAN : MergeTag(q, failed) \/ RewriteEvent(q, failed)
  BY <1>2, <1>3, <1>4, <1>5, <1>6, <1>7, <1>8, <1>9, <1>10, <1>11, <1>12, <1>13, MaintenanceCases
<1> QED
  BY <1>14 DEF Kept

\* Before the store was at work it was, unless it was deleted just now.
LEMMA WhileNobodyDeletes ==
  ASSUME DeletesAlone, MInv1, [MaintenanceNext]_maintenanceVars,
         \A p \in Proc : \A failed \in BOOLEAN : ~DeleteIndices(p, failed)
  PROVE  /\ torn \subseteq torn'
         /\ NobodyDeletes' /\ ~spoiled' =>
              /\ NobodyDeletes /\ ~spoiled
              /\ \A n \in DOMAIN events : n \in DOMAIN events'
         /\ \A p \in Proc : pc[p] = "crashed" => pc'[p] = "crashed"
<1>1. /\ MaintenanceTypes /\ Duties /\ TypeOK /\ (\A p \in Proc : Reads(p))
      /\ job \in [Proc -> Jobs] /\ pc \in [Proc -> Labels]
      /\ torn \subseteq Nat /\ events \in [DOMAIN events -> Event]
  BY DEF MInv1, LogLayer, Inv1, TypeOK, MaintenanceTypes
<1>0. MaintenanceTypes
  BY <1>1
<1> DEFINE Kept == /\ torn \subseteq torn'
                   /\ NobodyDeletes' /\ ~spoiled' =>
                        /\ NobodyDeletes /\ ~spoiled
                        /\ \A n \in DOMAIN events : n \in DOMAIN events'
                   /\ \A p \in Proc : pc[p] = "crashed" => pc'[p] = "crashed"
<1>2. ASSUME UNCHANGED <<vars, maintaining>>
      PROVE  Kept
  BY <1>2 DEF vars, store, maintaining, counting, NobodyDeletes
<1>3. ASSUME NEW p \in Proc, StoreActs(p)
      PROVE  Kept
  <2>1. UNCHANGED <<job, torn, spoiled>> /\ Next /\ Acts(p) /\ pc[p] # "crashed"
    BY <1>3, StoreActsFacts
  <2>2. \A n \in DOMAIN events : n \in DOMAIN events'
    BY <2>1, StepKeepsEvents DEF MInv1, LogLayer
  <2>3. \A q \in Proc : q # p => pc'[q] = pc[q]
    BY <1>1, <2>1, OthersKeepLocals DEF Locals
  <2> QED
    BY <2>1, <2>2, <2>3 DEF NobodyDeletes
<1>4. ASSUME NEW p \in Proc, AddTags(p) \/ \E tags \in LookUps : LookUpTags(p, tags)
      PROVE  Kept
  <2>1. /\ UNCHANGED <<torn, spoiled, events>> /\ NobodyDeletes
        /\ pc[p] = "idle" /\ \A q \in Proc : q # p => pc'[q] = pc[q]
    <3>1. AddTags(p) => Invoke(p, TheRead) /\ UNCHANGED <<torn, spoiled>> /\ NobodyDeletes
      BY DEF AddTags, TheRead
    <3>2. Invoke(p, TheRead) => pc[p] = "idle" /\ UNCHANGED events /\ \A q \in Proc : q # p => pc'[q] = pc[q]
      BY <1>1 DEF Invoke, Go, store
    <3>3. \A tags \in LookUps : LookUpTags(p, tags) =>
            UNCHANGED <<torn, spoiled, events, pc>> /\ NobodyDeletes /\ pc[p] = "idle"
      BY DEF LookUpTags, store, counting
    <3> QED
      BY <1>4, <3>1, <3>2, <3>3
  <2> QED
    BY <2>1
<1>5. ASSUME NEW p \in Proc, ReadRecords(p)
      PROVE  Kept
  <2>1. call[p] = TheRead
    BY <1>1, <1>5 DEF ReadRecords, Duties
  <2>2. /\ UNCHANGED <<torn, spoiled, events>> /\ pc' = [pc EXCEPT ![p] = "idle"] /\ pc[p] = "load"
        /\ job[p] = "read"
        /\ job' = [job EXCEPT ![p] = "none"] \/ job' = [job EXCEPT ![p] = "next"]
    BY <1>1, <1>5, <2>1, ReadRecordsStep
  <2> QED
    BY <1>1, <2>2 DEF NobodyDeletes
<1>6. ASSUME NEW p \in Proc, NextRecord(p) \/ EndAddTags(p) \/ ReadTagIndex(p) \/ EndLookUp(p)
      PROVE  Kept
  <2>1. /\ UNCHANGED <<torn, spoiled, events, pc>> /\ job[p] # "delete"
        /\ UNCHANGED job \/ \E j \in Jobs : job' = [job EXCEPT ![p] = j]
    BY <1>6 DEF NextRecord, EndAddTags, ReadTagIndex, EndLookUp, vars, store, counting, Jobs
  <2> QED
    BY <1>1, <2>1 DEF NobodyDeletes
<1>7. ASSUME NEW p \in Proc, NEW failed \in BOOLEAN, MergeTag(p, failed)
      PROVE  Kept
  <2>1. job[p] = "tags" /\ DOMAIN records[p] # {}
    BY <1>1, <1>7 DEF MergeTag, Reads
  <2>2. /\ UNCHANGED <<job, spoiled, events, pc>>
        /\ UNCHANGED torn \/ UpdateTagIndex(TagFile[Head(todo[p])], Current(p), failed)
    BY <1>1, <1>7, <2>1, MergeTagStep
  <2>3. torn \subseteq torn'
    BY <2>2 DEF UpdateTagIndex
  <2> QED
    BY <2>2, <2>3 DEF NobodyDeletes
<1>8. ASSUME NEW p \in Proc, NEW failed \in BOOLEAN, RewriteEvent(p, failed)
      PROVE  Kept
  <2>1. job[p] = "tags" /\ DOMAIN records[p] # {}
    BY <1>1, <1>8 DEF RewriteEvent, Reads
  <2>2. /\ UNCHANGED <<spoiled, pc>> /\ job' = [job EXCEPT ![p] = "next"] /\ torn \subseteq torn'
        /\ UNCHANGED events \/ WriteRecord(p, records[p][Current(p)])
    BY <1>0, <1>8, <2>1, RewriteEventStep
  <2>3. \A n \in DOMAIN events : n \in DOMAIN events'
    BY <2>2 DEF WriteRecord
  <2> QED
    BY <1>1, <2>1, <2>2, <2>3 DEF NobodyDeletes
<1>9. ASSUME NEW p \in Proc, NEW failed \in BOOLEAN, DeleteEvents(p, failed)
      PROVE  Kept
  <2>1. job'[p] = "delete" /\ UNCHANGED <<torn, pc>>
    BY <1>1, <1>9 DEF DeleteEvents
  <2> QED
    BY <2>1 DEF NobodyDeletes
<1>10. ASSUME NEW p \in Proc, MaintainerDies(p)
       PROVE  Kept
  <2>1. /\ UNCHANGED <<torn, events>> /\ job' = [job EXCEPT ![p] = "none"]
        /\ pc' = [pc EXCEPT ![p] = "crashed"]
        /\ spoiled' = (spoiled \/ job[p] = "delete")
    BY <1>10 DEF MaintainerDies, Go, store
  <2> QED
    BY <1>1, <2>1 DEF NobodyDeletes
<1> HIDE DEF Kept
<1>12. Kept
  BY <1>2, <1>3, <1>4, <1>5, <1>6, <1>7, <1>8, <1>9, <1>10, MaintenanceCases
<1> QED
  BY <1>12 DEF Kept

\* What belonged to an event belongs to it when it is rewritten.
LEMMA EventsStillFit ==
  ASSUME DeletesAlone, MInv1, MInv1', [MaintenanceNext]_maintenanceVars,
         NEW n \in DOMAIN events, n \in DOMAIN events', n \notin torn'
  PROVE  Range(FilesOf(events[n])) \subseteq Range(FilesOf(events'[n]))
<1>1. events[n] \in Event /\ events'[n] \in Event
  BY DEF MInv1, LogLayer, Inv1, TypeOK
<1>2. Grown(events'[n], events[n])
  BY EventsOnlyGrow
<1> QED
  BY <1>1, <1>2, FilesOfMore DEF Grown

\* The writers of appends know files of their events, also of rewritten ones.
LEMMA PendStaysSound ==
  ASSUME DeletesAlone, MInv1, MInv1', PendSoundBut(torn), [MaintenanceNext]_maintenanceVars
  PROVE  PendSoundBut(torn)'
<1>1. /\ MInv1 /\ Inv1 /\ SequenceReserved /\ TypeOK /\ SeqInRange /\ MaintenanceTypes /\ Duties
      /\ pc \in [Proc -> Labels]
  BY DEF MInv1, LogLayer, Inv1, TypeOK
<1>2. \A q \in Proc : pc[q] = "index" => seq[q] \in DOMAIN events
  <2>1. DOMAIN events = 0 .. End - 1 /\ seq \in [Proc -> Nat]
    BY <1>1, LogFacts DEF TypeOK
  <2> QED
    BY <1>1, <2>1, LogFacts DEF SeqInRange
<1>3. ASSUME NEW p \in Proc, StoreActs(p)
      PROVE  PendSoundBut(torn)'
  <2>1. Next /\ UNCHANGED torn
    BY <1>3, StoreActsFacts
  <2>2. PICK T : T = torn
    OBVIOUS
  <2>3. PendSoundBut(T)'
    BY <1>1, <2>1, <2>2, PendSoundButStep
  <2> QED
    BY <2>1, <2>2, <2>3
<1>4. ASSUME \A p \in Proc : ~StoreActs(p), \A p \in Proc, failed \in BOOLEAN : ~DeleteIndices(p, failed)
      PROVE  PendSoundBut(torn)'
  <2>1. ASSUME NEW q \in Proc, pc'[q] = "index"
        PROVE  /\ pc[q] = "index" /\ seq'[q] = seq[q] /\ pend'[q] = pend[q]
               /\ \A n \in DOMAIN events : n \in DOMAIN events'
    <3>1. CASE UNCHANGED <<vars, maintaining>>
      BY <2>1, <3>1 DEF vars, store
    <3>2. ASSUME NEW p \in Proc, AddTags(p)
          PROVE  pc[q] = "index" /\ UNCHANGED <<seq, pend, events>>
      <4>1. pc' = [pc EXCEPT ![p] = "resolve"] /\ UNCHANGED <<events, seq, pend>>
        BY <3>2, TheReadIsACall DEF AddTags, Invoke, Go, TheRead, store
      <4> QED
        BY <1>1, <2>1, <4>1
    <3>3. ASSUME NEW p \in Proc, ReadRecords(p)
          PROVE  pc[q] = "index" /\ UNCHANGED <<seq, pend, events>>
      <4>1. call[p] = TheRead
        BY <1>1, <3>3 DEF ReadRecords, Duties
      <4>2. pc' = [pc EXCEPT ![p] = "idle"] /\ UNCHANGED <<events, seq, pend>>
        BY <1>1, <3>3, <4>1, ReadRecordsStep
      <4> QED
        BY <1>1, <2>1, <4>2
    <3>4. ASSUME NEW p \in Proc, MaintainerDies(p)
          PROVE  pc[q] = "index" /\ UNCHANGED <<seq, pend, events>>
      <4>1. pc' = [pc EXCEPT ![p] = "crashed"] /\ UNCHANGED <<events, seq, pend>>
        BY <3>4 DEF MaintainerDies, Go, store
      <4> QED
        BY <1>1, <2>1, <4>1
    <3>5. ASSUME NEW p \in Proc, NEW failed \in BOOLEAN, DeleteEvents(p, failed)
          PROVE  FALSE
      <4>1. Alone(p) /\ UNCHANGED pc
        BY <3>5 DEF DeleteEvents
      <4> QED
        BY <2>1, <4>1 DEF Alone
    <3>6. ASSUME NEW p \in Proc, NEW failed \in BOOLEAN,
                 \/ NextRecord(p) \/ EndAddTags(p) \/ ReadTagIndex(p) \/ EndLookUp(p)
                 \/ MergeTag(p, failed) \/ \E tags \in LookUps : LookUpTags(p, tags)
          PROVE  UNCHANGED <<pc, seq, pend, events>>
      BY <3>6 DEF NextRecord, MergeTag, EndAddTags, ReadTagIndex, EndLookUp, LookUpTags, vars, store
    <3>7. ASSUME NEW p \in Proc, NEW failed \in BOOLEAN, RewriteEvent(p, failed)
          PROVE  UNCHANGED <<pc, seq, pend>> /\ \A n \in DOMAIN events : n \in DOMAIN events'
      BY <3>7 DEF RewriteEvent, NextAfterRewrite, WriteRecord
    <3> QED
      BY <1>4, <2>1, <3>1, <3>2, <3>3, <3>4, <3>5, <3>6, <3>7, MaintenanceCases
  <2>2. torn \subseteq torn'
    BY <1>4, WhileNobodyDeletes
  <2>3. ASSUME NEW q \in Proc, pc'[q] = "index", seq'[q] \notin torn'
        PROVE  Range(pend'[q]) \subseteq Range(FilesOf(events'[seq'[q]]))
    <3>1. pc[q] = "index" /\ seq'[q] = seq[q] /\ pend'[q] = pend[q]
      BY <2>1, <2>3
    <3>2. seq[q] \in DOMAIN events /\ seq[q] \in DOMAIN events'
      BY <1>2, <2>1, <2>3, <3>1
    <3>3. Range(FilesOf(events[seq[q]])) \subseteq Range(FilesOf(events'[seq[q]]))
      BY <2>3, <3>1, <3>2, EventsStillFit
    <3>4. Range(pend[q]) \subseteq Range(FilesOf(events[seq[q]]))
      BY <2>2, <2>3, <3>1 DEF PendSoundBut
    <3> QED
      BY <3>1, <3>3, <3>4
  <2> QED
    BY <2>3 DEF PendSoundBut
<1>5. ASSUME NEW p \in Proc, NEW failed \in BOOLEAN, DeleteIndices(p, failed)
      PROVE  PendSoundBut(torn)'
  <2>1. Alone(p) /\ UNCHANGED pc
    BY <1>1, <1>5 DEF DeleteIndices, Duties
  <2> QED
    BY <2>1 DEF Alone, PendSoundBut
<1> QED
  BY <1>3, <1>4, <1>5

\* What an index file lists it listed before, or it is an event of a writer of appends, or
\* the event of the record in hand of a maintainer that gets the tag.
LEMMA WhoListsAnEvent ==
  ASSUME MInv1, PendSoundBut(torn), DeletesAlone, [MaintenanceNext]_maintenanceVars,
         NEW f \in IndexFile, NEW n \in index'[f]
  PROVE  \/ n \in index[f]
         \/ n \in DOMAIN events /\ UNCHANGED events /\ (n \notin torn => f \in Range(FilesOf(events[n])))
         \/ \E p \in Proc :
              /\ job[p] = "tags" /\ job'[p] = "tags" /\ n = Current(p) /\ n = Current(p)'
              /\ changed'[p] > 0 /\ n \in DOMAIN events /\ UNCHANGED events
              /\ f \in Range(FilesOf(records'[p][n]))
<1>1. /\ MInv1 /\ Inv1 /\ TypeOK /\ MaintenanceTypes /\ Duties /\ (\A p \in Proc : Reads(p))
      /\ index \in [IndexFile -> SUBSET Nat] /\ records = [q \in Proc |-> records[q]]
      /\ changed \in [Proc -> Nat] /\ todo \in [Proc -> Seq(Tag)]
  BY DEF MInv1, LogLayer, Inv1, TypeOK, MaintenanceTypes
<1>0. MaintenanceTypes
  BY <1>1
<1>2. ASSUME index' = index \/ index'[f] = {}
      PROVE  n \in index[f]
  BY <1>2
<1>3. ASSUME NEW p \in Proc, StoreActs(p)
      PROVE  \/ n \in index[f]
             \/ n \in DOMAIN events /\ UNCHANGED events /\ (n \notin torn => f \in Range(FilesOf(events[n])))
  <2>1. Next
    BY <1>3, StoreActsFacts
  <2> QED
    BY <1>1, <2>1, IndexGrowsByEntries
<1>4. ASSUME NEW p \in Proc, NEW failed \in BOOLEAN, MergeTag(p, failed), n \notin index[f]
      PROVE  /\ job[p] = "tags" /\ job'[p] = "tags" /\ n = Current(p) /\ n = Current(p)'
             /\ changed'[p] > 0 /\ n \in DOMAIN events /\ UNCHANGED events
             /\ f \in Range(FilesOf(records'[p][n]))
  <2> DEFINE c == Current(p)
             e == records[p][c]
             g == Head(todo[p])
  <2>1. job[p] = "tags"
    BY <1>4 DEF MergeTag
  <2>2. /\ c \in DOMAIN records[p] /\ c \in DOMAIN events /\ c \in Nat /\ DOMAIN records[p] # {}
        /\ e \in Event
    BY <2>1, TheRecordInHand
  <2>3. /\ UNCHANGED <<events, job>> /\ g \in Tag
        /\ \/ UNCHANGED index
           \/ /\ Tagged(e, g) \in Event
              /\ records' = [records EXCEPT ![p] = [records[p] EXCEPT ![c] = Tagged(e, g)]]
              /\ UpdateTagIndex(TagFile[g], c, failed)
              /\ changed' = [changed EXCEPT ![p] = changed[p] + 1]
    BY <1>0, <1>4, <2>2, MergeTagStep
  <2>4. /\ Tagged(e, g) \in Event
        /\ records' = [records EXCEPT ![p] = [records[p] EXCEPT ![c] = Tagged(e, g)]]
        /\ UpdateTagIndex(TagFile[g], c, failed)
        /\ changed' = [changed EXCEPT ![p] = changed[p] + 1]
    BY <1>4, <2>3
  <2>5. TagFile[g] \in IndexFile
    BY <2>3, FilesAssumption
  <2>6. TagFile[g] \in Range(FilesOf(Tagged(e, g)))
    <3>1. e.tags \in Seq(Tag) /\ Tagged(e, g).tags = Append(e.tags, g)
      BY <2>2 DEF Event, Tagged
    <3>2. g \in Range(Append(e.tags, g))
      <4>1. Len(e.tags) + 1 \in DOMAIN Append(e.tags, g) /\ Append(e.tags, g)[Len(e.tags) + 1] = g
        BY SMTT(30), <2>3, <3>1, AppendProperties, LenProperties
      <4> QED
        BY <4>1 DEF Range
    <3> QED
      BY <2>4, <3>1, <3>2, FilesOfEvent
  <2>7. DOMAIN records'[p] = DOMAIN records[p] /\ records'[p][c] = Tagged(e, g)
    BY <1>1, <2>2, <2>4
  <2>8. Current(p)' = c
    BY <2>7 DEF Current
  <2>9. changed'[p] > 0
    BY <1>1, <2>4
  <2> HIDE DEF c, e, g
  <2>10. f = TagFile[g] /\ n = c
    BY <1>1, <1>4, <2>2, <2>4, <2>5, TagIndexStep
  <2> QED
    BY <2>1, <2>2, <2>3, <2>6, <2>7, <2>8, <2>9, <2>10 DEF c
<1>5. ASSUME NEW p \in Proc, NEW failed \in BOOLEAN,
             \/ RewriteEvent(p, failed) \/ DeleteEvents(p, failed)
             \/ NextRecord(p) \/ EndAddTags(p) \/ MaintainerDies(p) \/ ReadTagIndex(p) \/ EndLookUp(p)
             \/ \E tags \in LookUps : LookUpTags(p, tags)
      PROVE  index' = index
  BY <1>5 DEF RewriteEvent, NextAfterRewrite, NextRecord, EndAddTags, MaintainerDies, ReadTagIndex,
              EndLookUp, DeleteEvents, LookUpTags, vars, store
<1>6. ASSUME NEW p \in Proc, AddTags(p) \/ ReadRecords(p)
      PROVE  index' = index
  BY <1>6 DEF AddTags, Invoke, ReadRecords, LoadEvents, store
<1>7. ASSUME NEW p \in Proc, NEW failed \in BOOLEAN, DeleteIndices(p, failed)
      PROVE  index' = index \/ index'[f] = {}
  BY <1>7 DEF DeleteIndices
<1>8. UNCHANGED <<vars, maintaining>> => index' = index
  BY DEF vars, store
<1> QED
  BY <1>2, <1>3, <1>4, <1>5, <1>6, <1>7, <1>8, MaintenanceCases

\* What belongs to an event, or will when a record in hand is written, goes on doing so,
\* unless its maintainer dies or the event is torn.
LEMMA BelongsStays ==
  ASSUME DeletesAlone, MInv1, MInv1', [MaintenanceNext]_maintenanceVars, \A p \in Proc : pc'[p] # "crashed",
         NEW n \in DOMAIN events, n \in DOMAIN events', n \notin torn', NEW f \in IndexFile, Belongs(n, f)
  PROVE  Belongs(n, f)'
<1>1. /\ MaintenanceTypes /\ TypeOK /\ records = [q \in Proc |-> records[q]] /\ changed \in [Proc -> Nat]
      /\ events \in [DOMAIN events -> Event] /\ pc \in [Proc -> Labels]
  BY DEF MInv1, LogLayer, Inv1, TypeOK, MaintenanceTypes
<1>2. CASE f \in Range(FilesOf(events[n]))
  BY <1>2, EventsStillFit DEF Belongs
<1>3. ASSUME NEW q \in Proc, job[q] = "tags", n = Current(q), changed[q] > 0,
             f \in Range(FilesOf(records[q][n]))
      PROVE  Belongs(n, f)'
  <2>1. CASE job'[q] = job[q] /\ records'[q] = records[q] /\ changed'[q] = changed[q]
    <3>1. Current(q)' = n
      BY <1>3, <2>1 DEF Current
    <3> QED
      BY <1>3, <2>1, <3>1 DEF Belongs
  <2> DEFINE e == records[q][n]
             g == Head(todo[q])
  <2>2. n \in DOMAIN records[q] /\ DOMAIN records[q] # {} /\ e \in Event
    BY <1>3, TheRecordInHand
  <2>3. ASSUME NEW failed \in BOOLEAN, MergeTag(q, failed)
        PROVE  Belongs(n, f)'
    <3>1. /\ UNCHANGED <<events, job>> /\ g \in Tag
          /\ \/ UNCHANGED <<records, changed>>
             \/ /\ Tagged(e, g) \in Event
                /\ records' = [records EXCEPT ![q] = [records[q] EXCEPT ![n] = Tagged(e, g)]]
                /\ changed' = [changed EXCEPT ![q] = changed[q] + 1]
      BY <1>1, <1>3, <2>2, <2>3, MergeTagStep
    <3>2. CASE UNCHANGED <<records, changed>>
      BY <2>1, <3>1, <3>2
    <3>3. CASE /\ Tagged(e, g) \in Event
               /\ records' = [records EXCEPT ![q] = [records[q] EXCEPT ![n] = Tagged(e, g)]]
               /\ changed' = [changed EXCEPT ![q] = changed[q] + 1]
      <4>1. DOMAIN records'[q] = DOMAIN records[q] /\ records'[q][n] = Tagged(e, g) /\ changed'[q] > 0
        BY <1>1, <1>3, <2>2, <3>3
      <4>2. Current(q)' = n
        BY <1>3, <4>1 DEF Current
      <4>3. e.tags \in Seq(Tag)
        BY <2>2 DEF Event
      <4>4. Tagged(e, g).type = e.type /\ Extends(Tagged(e, g).tags, e.tags, 1)
        BY <3>1, <4>3, AppendProperties, LenProperties DEF Tagged, Extends
      <4>5. Range(FilesOf(e)) \subseteq Range(FilesOf(Tagged(e, g)))
        BY <2>2, <3>3, <4>4, FilesOfMore
      <4> QED
        BY <1>3, <3>1, <4>1, <4>2, <4>5 DEF Belongs
    <3> QED
      BY <3>1, <3>2, <3>3
  <2>4. ASSUME NEW failed \in BOOLEAN, RewriteEvent(q, failed)
        PROVE  Belongs(n, f)'
    <3>1. \/ torn' = torn \cup {n}
          \/ changed[q] <= 0
          \/ WriteRecord(q, e)
      BY <1>1, <1>3, <2>2, <2>4, RewriteEventStep
    <3>2. WriteRecord(q, e) => events'[n] = e
      BY <1>3 DEF WriteRecord
    <3>3. ~(changed[q] <= 0)
      BY <1>1, <1>3
    <3> QED
      BY <1>3, <3>1, <3>2, <3>3 DEF Belongs
  <2>5. ~NextRecord(q) /\ ~EndAddTags(q)
    BY <1>3 DEF NextRecord, EndAddTags
  <2>6. ~MaintainerDies(q)
    BY <1>1 DEF MaintainerDies, Go
  <2> QED
    BY <1>3, <2>1, <2>3, <2>4, <2>5, <2>6, RecordsKept
<1> QED
  BY <1>2, <1>3 DEF Belongs

\* The index files name events that belong in them, or will.
LEMMA IndexKnownStep ==
  ASSUME ListingsSucceed, SafeLock, DeletesAlone, FactoryMakesTags,
         MInv1, IndexKnown, [MaintenanceNext]_maintenanceVars
  PROVE  IndexKnown'
<1>1. MInv1' /\ IndexNames /\ IndexMatches /\ PendSoundBut(torn)
  BY MInv1Step DEF IndexKnown
<1>2. PendSoundBut(torn)'
  BY <1>1, PendStaysSound
<1>3. ASSUME NEW p \in Proc, NEW failed \in BOOLEAN, DeleteIndices(p, failed)
      PROVE  (IndexNames /\ IndexMatches)'
  <2>1. ~spoiled' => \A f \in IndexFile : index'[f] = {}
    BY <1>3 DEF DeleteIndices
  <2> QED
    BY <2>1 DEF IndexNames, IndexMatches
<1>4. ASSUME \A p \in Proc : \A failed \in BOOLEAN : ~DeleteIndices(p, failed)
      PROVE  (IndexNames /\ IndexMatches)'
  <2>1. ASSUME NobodyDeletes', ~spoiled', NEW f \in IndexFile, NEW n \in index'[f]
        PROVE  n \in DOMAIN events'
    <3>1. n \in DOMAIN events
      BY <1>1, <1>4, <2>1, WhileNobodyDeletes, WhoListsAnEvent DEF IndexNames
    <3> QED
      BY <1>4, <2>1, <3>1, WhileNobodyDeletes
  <2>2. ASSUME NobodyDeletes', ~spoiled', \A p \in Proc : pc'[p] # "crashed",
               NEW f \in IndexFile, NEW n \in index'[f] \ torn'
        PROVE  Belongs(n, f)'
    <3>1. /\ NobodyDeletes /\ ~spoiled /\ (\A p \in Proc : pc[p] # "crashed") /\ n \notin torn
          /\ \A m \in DOMAIN events : m \in DOMAIN events'
      BY <1>4, <2>2, WhileNobodyDeletes
    <3>2. CASE n \in index[f]
      <4>1. n \in DOMAIN events /\ Belongs(n, f)
        BY <1>1, <3>1, <3>2 DEF IndexNames, IndexMatches
      <4> QED
        BY <1>1, <2>2, <3>1, <4>1, BelongsStays
    <3>3. CASE n \in DOMAIN events /\ UNCHANGED events /\ (n \notin torn => f \in Range(FilesOf(events[n])))
      BY <3>1, <3>3 DEF Belongs
    <3>4. CASE \E p \in Proc :
                 /\ job[p] = "tags" /\ job'[p] = "tags" /\ n = Current(p) /\ n = Current(p)'
                 /\ changed'[p] > 0 /\ n \in DOMAIN events /\ UNCHANGED events
                 /\ f \in Range(FilesOf(records'[p][n]))
      BY <3>4 DEF Belongs
    <3> QED
      BY <1>1, <2>2, <3>2, <3>3, <3>4, WhoListsAnEvent
  <2> QED
    BY <2>1, <2>2 DEF IndexNames, IndexMatches
<1> QED
  BY <1>2, <1>3, <1>4 DEF IndexKnown

LEMMA IndexKnownAlways ==
  ASSUME ListingsSucceed, SafeLock, DeletesAlone, FactoryMakesTags
  PROVE  MaintenanceSpec => [](MInv1 /\ IndexKnown)
<1>1. MaintenanceInit => IndexKnown
  BY DEF MaintenanceInit, Init, IndexKnown, IndexNames, IndexMatches, PendSoundBut
<1>2. MInv1 /\ IndexKnown /\ [MaintenanceNext]_maintenanceVars => IndexKnown'
  BY IndexKnownStep
<1> QED
  BY <1>1, <1>2, MInv1Always, PTL DEF MaintenanceSpec

\* Once nobody maintains, has died maintaining, or deletes, the index files list only events
\* that exist and belong in them, also those of a store that was deleted and written anew,
\* and the tags that any number of add_tags put on events while others were appended; the
\* exceptions are events whose rewriting failed or undid another one, and a store whose
\* deletion did not go through.  The store is deleted only while nobody uses it.
THEOREM IndicesAreSoundAtRest ==
  ASSUME ListingsSucceed, SafeLock, DeletesAlone, FactoryMakesTags
  PROVE  MaintenanceSpec => []IndexSoundAtRest
<1>1. ASSUME MInv1, IndexKnown PROVE IndexSoundAtRest
  <2> SUFFICES ASSUME \A p \in Proc : job[p] \in {"none", "lookup"} /\ pc[p] # "crashed", ~spoiled,
                      NEW f \in IndexFile, NEW n \in index[f] \ torn
               PROVE  n \in DOMAIN events /\ f \in Range(FilesOf(events[n]))
    BY DEF IndexSoundAtRest
  <2>1. NobodyDeletes /\ \A p \in Proc : job[p] # "tags"
    BY DEF NobodyDeletes
  <2> QED
    BY <1>1, <2>1 DEF IndexKnown, IndexNames, IndexMatches, Belongs
<1> QED
  BY <1>1, IndexKnownAlways, PTL

-----------------------------------------------------------------------------
(* Look-ups by tags *)

\* The index files lose nothing but when a deleted store loses them all.
LEMMA IndicesGrow ==
  ASSUME IndexOperationsSucceed, DeletesAlone, MInv1, [MaintenanceNext]_maintenanceVars,
         \A p \in Proc : \A failed \in BOOLEAN : ~DeleteIndices(p, failed)
  PROVE  \A f \in IndexFile : index[f] \subseteq index'[f]
<1>1. /\ TypeOK /\ MaintenanceTypes /\ Duties /\ index \in [IndexFile -> SUBSET Nat]
  BY DEF MInv1, LogLayer, Inv1, TypeOK
<1>0. MaintenanceTypes
  BY <1>1
<1>2. ASSUME NEW p \in Proc, StoreActs(p)
      PROVE  \A f \in IndexFile : index[f] \subseteq index'[f]
  <2>1. Lives(p)
    BY <1>2, StoreActsFacts
  <2>2. CASE UpdateIndex(p, FALSE)
    BY <1>1, <2>2 DEF UpdateIndex
  <2>3. index' = index \/ UpdateIndex(p, FALSE)
    <3>1. \A c \in Calls : Invoke(p, c) => index' = index
      BY DEF Invoke, store
    <3> QED
      BY <2>1, <3>1, LivingSteps
         DEF store, AcquireLock, ScanEvents, ListEvents, ReadIndex, ResolveItem, LoadEvents, WriteEvent,
             NextEvent, FinishBatch, ReleaseLock, EventWriteFails, JudgeLock, BreakLock
  <2> QED
    BY <2>2, <2>3
<1>3. ASSUME NEW p \in Proc, NEW failed \in BOOLEAN, MergeTag(p, failed)
      PROVE  \A f \in IndexFile : index[f] \subseteq index'[f]
  <2>1. job[p] = "tags"
    BY <1>3 DEF MergeTag
  <2>2. DOMAIN records[p] # {} /\ Current(p) \in Nat
    BY <2>1, TheRecordInHand
  <2>3. /\ Head(todo[p]) \in Tag
        /\ UNCHANGED index \/ UpdateTagIndex(TagFile[Head(todo[p])], Current(p), failed)
    BY <1>0, <1>3, <2>2, MergeTagStep
  <2>4. TagFile[Head(todo[p])] \in IndexFile
    BY <2>3, FilesAssumption
  <2>5. \/ UNCHANGED index
        \/ index' = [index EXCEPT ![TagFile[Head(todo[p])]] = index[TagFile[Head(todo[p])]] \cup {Current(p)}]
    BY <1>1, <2>2, <2>3, <2>4, TagIndexStep DEF IndexOperationsSucceed
  <2> QED
    BY <1>1, <2>4, <2>5
<1>4. ASSUME NEW p \in Proc, NEW failed \in BOOLEAN, RewriteEvent(p, failed) \/ DeleteEvents(p, failed)
      PROVE  index' = index
  BY <1>4 DEF RewriteEvent, NextAfterRewrite, DeleteEvents
<1>5. ASSUME NEW p \in Proc,
             \/ AddTags(p) \/ NextRecord(p) \/ EndAddTags(p) \/ MaintainerDies(p)
             \/ ReadTagIndex(p) \/ EndLookUp(p) \/ \E tags \in LookUps : LookUpTags(p, tags)
      PROVE  index' = index
  BY <1>5 DEF AddTags, Invoke, NextRecord, EndAddTags, MaintainerDies, ReadTagIndex, EndLookUp,
              LookUpTags, vars, store
<1>6. ASSUME NEW p \in Proc, ReadRecords(p)
      PROVE  index' = index
  BY <1>6 DEF ReadRecords, LoadEvents, store
<1>7. UNCHANGED <<vars, maintaining>> => index' = index
  BY DEF vars, store
<1> QED
  BY <1>2, <1>3, <1>4, <1>5, <1>6, <1>7, MaintenanceCases

\* An index file that is to list an event comes to list it, whatever add_tags does.
LEMMA CoveredStaysHere ==
  ASSUME IndexOperationsSucceed, DeletesAlone, MInv1, Emptied, [MaintenanceNext]_maintenanceVars,
         NEW n \in DOMAIN events, NEW f \in IndexFile, Covered(n, f)
  PROVE  Covered(n, f)'
<1>1. TypeOK /\ Duties /\ pc \in [Proc -> Labels]
  BY DEF MInv1, LogLayer, Inv1, TypeOK
<1>2. \A p \in Proc : \A failed \in BOOLEAN : ~DeleteIndices(p, failed) /\ job[p] # "delete"
  BY DEF DeleteIndices, Emptied
<1>3. index[f] \subseteq index'[f]
  BY <1>2, IndicesGrow
<1>4. ASSUME UNCHANGED <<seq, pend>>, \A q \in Proc : pc[q] = "index" => pc'[q] = "index"
      PROVE  Covered(n, f)'
  BY <1>3, <1>4 DEF Covered
<1>5. ASSUME NEW p \in Proc, StoreActs(p)
      PROVE  Covered(n, f)'
  <2>1. Lives(p)
    BY <1>5, StoreActsFacts
  <2> QED
    BY <1>1, <2>1, CoveredStays
<1>6. ASSUME NEW p \in Proc, AddTags(p)
      PROVE  Covered(n, f)'
  <2>1. pc[p] = "idle" /\ pc' = [pc EXCEPT ![p] = "resolve"] /\ UNCHANGED <<seq, pend>>
    BY <1>6, TheReadIsACall DEF AddTags, Invoke, Go, TheRead
  <2> QED
    BY <1>1, <1>4, <2>1
<1>7. ASSUME NEW p \in Proc, ReadRecords(p)
      PROVE  Covered(n, f)'
  <2>1. call[p] = TheRead
    BY <1>1, <1>7 DEF ReadRecords, Duties
  <2>2. pc[p] = "load" /\ pc' = [pc EXCEPT ![p] = "idle"] /\ UNCHANGED <<seq, pend>>
    BY <1>1, <1>7, <2>1, ReadRecordsStep
  <2> QED
    BY <1>1, <1>4, <2>2
<1>8. ASSUME NEW p \in Proc, MaintainerDies(p)
      PROVE  Covered(n, f)'
  <2>1. pc' = [pc EXCEPT ![p] = "crashed"] /\ UNCHANGED <<seq, pend>> /\ job[p] \in {"read", "next", "tags"}
    BY <1>2, <1>8 DEF MaintainerDies, Maintains, Go
  <2>2. pc[p] # "index"
    BY <1>1, <2>1 DEF Duties
  <2> QED
    BY <1>1, <1>4, <2>1, <2>2
<1>9. ASSUME NEW p \in Proc, NEW failed \in BOOLEAN,
             \/ NextRecord(p) \/ MergeTag(p, failed) \/ EndAddTags(p) \/ ReadTagIndex(p) \/ EndLookUp(p)
             \/ DeleteEvents(p, failed) \/ \E tags \in LookUps : LookUpTags(p, tags)
      PROVE  Covered(n, f)'
  <2>1. UNCHANGED <<pc, seq, pend>>
    BY <1>9 DEF NextRecord, MergeTag, EndAddTags, ReadTagIndex, EndLookUp, DeleteEvents, LookUpTags, vars
  <2> QED
    BY <1>4, <2>1
<1>10. ASSUME NEW p \in Proc, NEW failed \in BOOLEAN, RewriteEvent(p, failed)
       PROVE  Covered(n, f)'
  <2>1. UNCHANGED <<pc, seq, pend>>
    BY <1>10 DEF RewriteEvent, NextAfterRewrite
  <2> QED
    BY <1>4, <2>1
<1>11. CASE UNCHANGED <<vars, maintaining>>
  BY <1>4, <1>11 DEF vars
<1> QED
  BY <1>2, <1>5, <1>6, <1>7, <1>8, <1>9, <1>10, <1>11, MaintenanceCases

\* What is left of a batch gets shorter, or a call begins with a batch of its own.
LEMMA WhoChangesABatch ==
  ASSUME DeletesAlone, MInv1, [MaintenanceNext]_maintenanceVars
  PROVE  \/ UNCHANGED <<rest, call>>
         \/ \E p \in Proc : /\ rest[p] # << >> /\ rest' = [rest EXCEPT ![p] = Tail(rest[p])]
                            /\ UNCHANGED call
         \/ \E p \in Proc : \E c \in Calls \cup {TheRead} :
              rest' = [rest EXCEPT ![p] = c.batch] /\ call' = [call EXCEPT ![p] = c]
<1> DEFINE Shortens(p) == /\ rest[p] # << >> /\ rest' = [rest EXCEPT ![p] = Tail(rest[p])]
                          /\ UNCHANGED call
           Begins(p, c) == rest' = [rest EXCEPT ![p] = c.batch] /\ call' = [call EXCEPT ![p] = c]
<1>1. ASSUME NEW p \in Proc, NEW c, Invoke(p, c)
      PROVE  Begins(p, c)
  BY <1>1 DEF Invoke
<1>2. ASSUME NEW p \in Proc, StoreActs(p)
      PROVE  UNCHANGED <<rest, call>> \/ Shortens(p) \/ \E c \in Calls : Begins(p, c)
  <2>1. Step(p) \/ \E c \in Calls : Invoke(p, c)
    BY <1>2, StoreActsFacts DEF Lives
  <2>2. CASE NextEvent(p)
    BY <2>2 DEF NextEvent, MInv1, LogLayer, Inv1, SeqInRange
  <2>3. Step(p) => UNCHANGED <<rest, call>> \/ NextEvent(p)
    <3>1. AcquireLock(p) \/ WriteEvent(p) \/ FinishBatch(p) \/ ReleaseLock(p) \/ ResolveItem(p)
            => UNCHANGED <<rest, call>>
      BY DEF AcquireLock, WriteEvent, FinishBatch, ReleaseLock, ResolveItem
    <3>2. IndexLockFails(p) \/ EventWriteFails(p) \/ IndexWriteFails(p) \/ JudgeLock(p) \/ BreakLock(p)
            => UNCHANGED <<rest, call>>
      BY DEF IndexLockFails, EventWriteFails, IndexWriteFails, JudgeLock, BreakLock
    <3>3. \A failed \in BOOLEAN :
            ScanEvents(p, failed) \/ ListEvents(p, failed) \/ ReadIndex(p, failed)
              \/ LoadEvents(p, failed) \/ UpdateIndex(p, failed)
            => UNCHANGED <<rest, call>>
      BY DEF ScanEvents, ListEvents, ReadIndex, LoadEvents, UpdateIndex
    <3> QED
      BY <3>1, <3>2, <3>3 DEF Step
  <2> QED
    BY <1>1, <2>1, <2>2, <2>3
<1>3. ASSUME NEW p \in Proc, AddTags(p)
      PROVE  Begins(p, TheRead)
  BY <1>1, <1>3 DEF AddTags, TheRead
<1>4. ASSUME NEW p \in Proc, ReadRecords(p)
      PROVE  UNCHANGED <<rest, call>>
  BY <1>4 DEF ReadRecords, LoadEvents
<1>5. ASSUME NEW p \in Proc, NEW failed \in BOOLEAN,
             \/ NextRecord(p) \/ MergeTag(p, failed) \/ EndAddTags(p) \/ MaintainerDies(p)
             \/ ReadTagIndex(p) \/ EndLookUp(p) \/ DeleteEvents(p, failed) \/ DeleteIndices(p, failed)
             \/ \E tags \in LookUps : LookUpTags(p, tags)
      PROVE  UNCHANGED <<rest, call>>
  BY <1>5 DEF NextRecord, MergeTag, EndAddTags, MaintainerDies, ReadTagIndex, EndLookUp, DeleteEvents,
              DeleteIndices, LookUpTags, vars
<1>6. ASSUME NEW p \in Proc, NEW failed \in BOOLEAN, RewriteEvent(p, failed)
      PROVE  UNCHANGED <<rest, call>>
  BY <1>6 DEF RewriteEvent, NextAfterRewrite
<1>7. UNCHANGED <<vars, maintaining>> => UNCHANGED <<rest, call>>
  BY DEF vars
<1> HIDE DEF Shortens, Begins
<1>8. \/ UNCHANGED <<rest, call>> \/ \E p \in Proc : Shortens(p)
      \/ \E p \in Proc : \E c \in Calls \cup {TheRead} : Begins(p, c)
  BY <1>2, <1>3, <1>4, <1>5, <1>6, <1>7, MaintenanceCases
<1> QED
  BY <1>8 DEF Shortens, Begins

LEMMA RestFitsStep ==
  ASSUME DeletesAlone, MInv1, RestFits, [MaintenanceNext]_maintenanceVars
  PROVE  RestFits'
<1>1. /\ rest \in [Proc -> Seq(Event)] /\ call \in [Proc -> Call]
      /\ \A c \in Calls \cup {TheRead} : Len(c.batch) \in Nat
      /\ \A p \in Proc : Len(call[p].batch) \in Nat
  <2>1. \A c \in Call : Len(c.batch) \in Nat
    BY LenProperties DEF Call
  <2>2. Calls \cup {TheRead} \subseteq Call
    BY ConstantsAssumption, TheReadIsACall
  <2> QED
    BY <2>1, <2>2 DEF MInv1, LogLayer, Inv1, TypeOK
<1>2. CASE UNCHANGED <<rest, call>>
  BY <1>2 DEF RestFits
<1>3. ASSUME NEW p \in Proc, rest[p] # << >>, rest' = [rest EXCEPT ![p] = Tail(rest[p])], UNCHANGED call
      PROVE  RestFits'
  <2>1. rest[p] \in Seq(Event)
    BY <1>1
  <2>2. Len(Tail(rest[p])) = Len(rest[p]) - 1 /\ Len(rest[p]) \in Nat
    BY <1>3, <2>1, HeadTailProperties, LenProperties
  <2>3. Len(Tail(rest[p])) <= Len(call[p].batch)
    BY <1>1, <2>2 DEF RestFits
  <2> QED
    BY <1>1, <1>3, <2>3 DEF RestFits
<1>4. ASSUME NEW p \in Proc, NEW c \in Calls \cup {TheRead},
             rest' = [rest EXCEPT ![p] = c.batch], call' = [call EXCEPT ![p] = c]
      PROVE  RestFits'
  BY <1>1, <1>4 DEF RestFits
<1> QED
  BY <1>2, <1>3, <1>4, WhoChangesABatch

\* A record with one more tag is in one more index file.
LEMMA FilesOfTagged ==
  ASSUME NEW e \in Event, NEW g \in Tag, Tagged(e, g) \in Event,
         NEW f \in Range(FilesOf(Tagged(e, g)))
  PROVE  f \in Range(FilesOf(e)) \/ f = TagFile[g]
<1>1. e.tags \in Seq(Tag) /\ Tagged(e, g).type = e.type /\ Tagged(e, g).tags = Append(e.tags, g)
  BY DEF Event, Tagged
<1>2. Range(Append(e.tags, g)) = Range(e.tags) \cup {g}
  <2>1. /\ Len(e.tags) \in Nat /\ DOMAIN e.tags = 1 .. Len(e.tags)
        /\ Len(Append(e.tags, g)) = Len(e.tags) + 1
        /\ DOMAIN Append(e.tags, g) = 1 .. Len(e.tags) + 1
        /\ \A i \in 1 .. Len(e.tags) : Append(e.tags, g)[i] = e.tags[i]
        /\ Append(e.tags, g)[Len(e.tags) + 1] = g
    BY <1>1, AppendProperties, LenProperties
  <2>2. \A i \in 1 .. Len(e.tags) + 1 : i \in 1 .. Len(e.tags) \/ i = Len(e.tags) + 1
    BY <2>1
  <2>3. Len(e.tags) + 1 \in 1 .. Len(e.tags) + 1 /\ \A i \in 1 .. Len(e.tags) : i \in 1 .. Len(e.tags) + 1
    BY <2>1
  <2> QED
    BY <2>1, <2>2, <2>3 DEF Range
<1>3. f = TypeFile[e.type] \/ \E x \in Range(e.tags) \cup {g} : f = TagFile[x]
  BY <1>1, <1>2, FilesOfExactly
<1>4. /\ TypeFile[e.type] \in Range(FilesOf(e))
      /\ \A x \in Range(e.tags) : TagFile[x] \in Range(FilesOf(e))
  BY FilesOfEvent
<1> QED
  BY <1>3, <1>4

\* The files of an event are index files.
LEMMA FilesAreIndexFiles ==
  ASSUME NEW e \in Event
  PROVE  Range(FilesOf(e)) \subseteq IndexFile
<1>1. FilesOf(e) \in Seq(IndexFile)
  BY FilesOfType
<1> QED
  BY <1>1 DEF Range

\* At the start nothing is on its way into the indices and nothing is missing from them.
LEMMA IndexedInit == MaintenanceInit => Indexed
<1> SUFFICES ASSUME MaintenanceInit PROVE Indexed
  OBVIOUS
<1>1. /\ call = [p \in Proc |-> ReadCall(All, None, None, FALSE)] /\ rest = [p \in Proc |-> << >>]
      /\ DOMAIN events = {} /\ job = [p \in Proc |-> "none"]
  BY DEF MaintenanceInit, Init
<1>2. \A q \in Proc : call[q].batch = << >> /\ rest[q] = << >>
  BY <1>1 DEF ReadCall
<1>3. RestFits
  <2>1. Len(<< >>) <= Len(<< >>)
    OBVIOUS
  <2> QED
    BY <1>2, <2>1, Zenon DEF RestFits
<1> QED
  BY <1>1, <1>3 DEF Indexed, IndexComplete, RecordsIndexed, Emptied

\* Only the end of a read gives a process records.
LEMMA WhoHasRecords ==
  ASSUME MInv1, [MaintenanceNext]_maintenanceVars, DeletesAlone, NEW q \in Proc, job'[q] \in {"next", "tags"}
  PROVE  job[q] \in {"next", "tags"} \/ ReadRecords(q)
<1>1. job \in [Proc -> Jobs] /\ MaintenanceTypes /\ Duties /\ TypeOK
  BY DEF MInv1, LogLayer, Inv1, MaintenanceTypes
<1>2. UNCHANGED <<vars, maintaining>> => job' = job
  BY DEF maintaining
<1>3. \A p \in Proc : StoreActs(p) => job' = job
  BY StoreActsFacts
<1>4. ASSUME NEW p \in Proc, ReadRecords(p), p # q
      PROVE  job'[q] = job[q]
  BY <1>1, <1>4 DEF ReadRecords
<1>5. ASSUME NEW p \in Proc, NEW failed \in BOOLEAN,
             AddTags(p) \/ EndAddTags(p) \/ MaintainerDies(p) \/ ReadTagIndex(p) \/ EndLookUp(p)
             \/ DeleteEvents(p, failed) \/ DeleteIndices(p, failed) \/ \E tags \in LookUps : LookUpTags(p, tags)
      PROVE  job[q] \in {"next", "tags"}
  BY <1>1, <1>5 DEF AddTags, EndAddTags, MaintainerDies, ReadTagIndex, EndLookUp, DeleteEvents, DeleteIndices,
                    LookUpTags
<1>6. ASSUME NEW p \in Proc, NEW failed \in BOOLEAN,
             NextRecord(p) \/ MergeTag(p, failed) \/ RewriteEvent(p, failed)
      PROVE  job[q] \in {"next", "tags"}
  BY <1>1, <1>6 DEF NextRecord, MergeTag, RewriteEvent, NextAfterRewrite
<1> QED
  BY <1>2, <1>3, <1>4, <1>5, <1>6, MaintenanceCases

\* While a store is deleted whose directories can be deleted, it is empty.
LEMMA EmptiedStep ==
  ASSUME IndexOperationsSucceed, DeletesAlone, MInv1, Emptied, [MaintenanceNext]_maintenanceVars
  PROVE  Emptied'
<1>1. job \in [Proc -> Jobs] /\ MaintenanceTypes /\ Duties /\ TypeOK
  BY DEF MInv1, LogLayer, Inv1, MaintenanceTypes
<1>2. ASSUME NEW q \in Proc, job'[q] = "delete"
      PROVE  DOMAIN events' = {}
  <2>1. UNCHANGED <<vars, maintaining>> => job' = job /\ events' = events
    BY DEF vars, store, maintaining
  <2>2. ASSUME NEW p \in Proc, StoreActs(p)
        PROVE  FALSE
    <3>1. job' = job
      BY <2>2, StoreActsFacts
    <3>2. job[q] = "delete" /\ Alone(q)
      BY <1>1, <1>2, <3>1 DEF Duties
    <3>3. pc[p] = "idle" => \A r \in Proc : job[r] # "delete"
      BY <2>2, StoreActsFacts
    <3>4. pc[p] # "crashed"
      BY <2>2, StoreActsFacts
    <3> QED
      BY <3>2, <3>3, <3>4 DEF Alone
  <2>3. ASSUME NEW p \in Proc, ReadRecords(p)
        PROVE  job[q] = "delete" /\ events' = events
    BY <1>1, <1>2, <2>3 DEF ReadRecords, LoadEvents, store
  <2>4. ASSUME NEW p \in Proc, NEW failed \in BOOLEAN,
               AddTags(p) \/ EndAddTags(p) \/ MaintainerDies(p) \/ ReadTagIndex(p) \/ EndLookUp(p)
               \/ DeleteIndices(p, failed) \/ \E tags \in LookUps : LookUpTags(p, tags)
        PROVE  job[q] = "delete" /\ events' = events
    <3>1. AddTags(p) => job[q] = "delete" /\ events' = events
      BY <1>1, <1>2 DEF AddTags, Invoke, store
    <3>2. EndAddTags(p) \/ MaintainerDies(p) => job[q] = "delete" /\ events' = events
      BY <1>1, <1>2 DEF EndAddTags, MaintainerDies, vars, store
    <3>3. ReadTagIndex(p) \/ EndLookUp(p) \/ DeleteIndices(p, failed) => job[q] = "delete" /\ events' = events
      BY <1>1, <1>2 DEF ReadTagIndex, EndLookUp, DeleteIndices, vars, store
    <3>4. \A tags \in LookUps : LookUpTags(p, tags) => job[q] = "delete" /\ events' = events
      BY <1>1, <1>2 DEF LookUpTags, store
    <3> QED
      BY <2>4, <3>1, <3>2, <3>3, <3>4
  <2>5. ASSUME NEW p \in Proc, NEW failed \in BOOLEAN, NextRecord(p) \/ MergeTag(p, failed) \/ RewriteEvent(p, failed)
        PROVE  FALSE
    <3>1. job[p] \in {"next", "tags"} /\ job[q] = "delete"
      BY <1>1, <1>2, <2>5 DEF NextRecord, MergeTag, RewriteEvent, NextAfterRewrite
    <3> QED
      BY <1>1, <3>1 DEF Duties, Alone
  <2>6. ASSUME NEW p \in Proc, NEW failed \in BOOLEAN, DeleteEvents(p, failed)
        PROVE  DOMAIN events' = {}
    <3>1. ~failed
      BY <2>6 DEF DeleteEvents, Storage, IndexOperationsSucceed
    <3> QED
      BY <2>6, <3>1 DEF DeleteEvents
  <2> QED
    BY <1>2, <2>1, <2>2, <2>3, <2>4, <2>5, <2>6, MaintenanceCases DEF Emptied
<1> QED
  BY <1>2 DEF Emptied

\* The records of a maintainer, with the tags they got, are in their index files or about to be.
LEMMA RecordsIndexedStep ==
  ASSUME IndexOperationsSucceed, DeletesAlone, MInv1, Indexed, [MaintenanceNext]_maintenanceVars,
         NEW q \in Proc
  PROVE  RecordsIndexed(q)'
<1>1. /\ TypeOK /\ MaintenanceTypes /\ Duties /\ Emptied /\ IndexComplete /\ (\A p \in Proc : RecordsIndexed(p))
      /\ (\A p \in Proc : Reads(p))
      /\ events \in [DOMAIN events -> Event] /\ index \in [IndexFile -> SUBSET Nat]
      /\ job \in [Proc -> Jobs] /\ records = [p \in Proc |-> records[p]]
  BY DEF MInv1, LogLayer, Inv1, TypeOK, MaintenanceTypes, Indexed
<1>0. MaintenanceTypes
  BY <1>1
<1>2. SUFFICES ASSUME job'[q] \in {"next", "tags"},
                      NEW n \in DOMAIN records'[q], NEW f \in Range(FilesOf(records'[q][n]))
               PROVE  Covered(n, f)'
  BY DEF RecordsIndexed
<1>3. ASSUME job[q] \in {"next", "tags"}, n \in DOMAIN records[q], f \in Range(FilesOf(records[q][n]))
      PROVE  Covered(n, f)'
  <2>1. n \in DOMAIN events /\ Covered(n, f)
    BY <1>1, <1>3 DEF RecordsIndexed, Reads
  <2>2. f \in IndexFile
    <3>1. records[q][n] \in Event
      BY <1>1, <1>3 DEF MaintenanceTypes
    <3> QED
      BY <1>3, <3>1, FilesAreIndexFiles
  <2> QED
    BY <1>1, <2>1, <2>2, CoveredStaysHere
<1>4. ASSUME ReadRecords(q)
      PROVE  Covered(n, f)'
  <2>1. call[q] = TheRead
    BY <1>1, <1>4 DEF ReadRecords, Duties
  <2> DEFINE S == result'[q].positions
  <2>2. /\ UNCHANGED events
        /\ \/ job' = [job EXCEPT ![q] = "none"]
           \/ S \subseteq DOMAIN events /\ records' = [records EXCEPT ![q] = [m \in S |-> events[m]]]
    BY <1>1, <1>4, <2>1, ReadRecordsStep
  <2> HIDE DEF S
  <2>3. n \in DOMAIN events /\ records'[q][n] = events[n]
    BY <1>1, <1>2, <2>2
  <2>4. events[n] \in Event
    BY <1>1, <2>3
  <2>5. f \in IndexFile /\ Covered(n, f)
    BY <1>1, <1>2, <2>3, <2>4, FilesAreIndexFiles DEF IndexComplete
  <2> QED
    BY <1>1, <2>3, <2>5, CoveredStaysHere
<1>5. ASSUME job[q] \in {"next", "tags"}, records'[q] = records[q]
      PROVE  Covered(n, f)'
  BY <1>2, <1>3, <1>5
<1>6. ASSUME NextRecord(q)
      PROVE  Covered(n, f)'
  BY <1>5, <1>6 DEF NextRecord
<1>7. ~EndAddTags(q) /\ ~MaintainerDies(q)
  BY <1>1, <1>2 DEF EndAddTags, MaintainerDies
<1>8. ASSUME NEW failed \in BOOLEAN, RewriteEvent(q, failed)
      PROVE  Covered(n, f)'
  <2>1. job[q] = "tags"
    BY <1>8 DEF RewriteEvent
  <2>2. DOMAIN records[q] # {}
    BY <2>1, TheRecordInHand
  <2>3. records' = [records EXCEPT ![q] = [m \in DOMAIN records[q] \ {Current(q)} |-> records[q][m]]]
    BY <1>1, <1>8, <2>2, RewriteEventStep
  <2>4. n \in DOMAIN records[q] /\ records'[q][n] = records[q][n]
    BY <1>1, <1>2, <2>3
  <2> QED
    BY <1>2, <1>3, <2>1, <2>4
<1>9. ASSUME NEW failed \in BOOLEAN, MergeTag(q, failed)
      PROVE  Covered(n, f)'
  <2> DEFINE c == Current(q)
             e == records[q][c]
             g == Head(todo[q])
  <2>1. job[q] = "tags"
    BY <1>9 DEF MergeTag
  <2>2. DOMAIN records[q] # {} /\ c \in DOMAIN records[q] /\ c \in Nat /\ e \in Event
    BY <2>1, TheRecordInHand
  <2>3. /\ g \in Tag
        /\ \/ UNCHANGED records
           \/ /\ Tagged(e, g) \in Event
              /\ records' = [records EXCEPT ![q] = [records[q] EXCEPT ![c] = Tagged(e, g)]]
              /\ UpdateTagIndex(TagFile[g], c, failed)
    BY <1>0, <1>9, <2>2, MergeTagStep
  <2>4. CASE UNCHANGED records
    BY <1>5, <2>1, <2>4
  <2>5. CASE /\ Tagged(e, g) \in Event
             /\ records' = [records EXCEPT ![q] = [records[q] EXCEPT ![c] = Tagged(e, g)]]
             /\ UpdateTagIndex(TagFile[g], c, failed)
    <3>1. TagFile[g] \in IndexFile
      BY <2>3, FilesAssumption
    <3> HIDE DEF c, e, g
    <3>2. c \in index'[TagFile[g]]
      BY <1>1, <2>2, <2>5, <3>1, TagIndexStep DEF IndexOperationsSucceed
    <3>3. n \in DOMAIN records[q] /\ records'[q][n] = IF n = c THEN Tagged(e, g) ELSE records[q][n]
      BY <1>1, <1>2, <2>2, <2>5
    <3>4. n = c => f \in Range(FilesOf(e)) \/ f = TagFile[g]
      BY <1>2, <2>2, <2>3, <2>5, <3>3, FilesOfTagged
    <3>5. CASE f \in Range(FilesOf(records[q][n]))
      BY <1>3, <2>1, <3>3, <3>5
    <3>6. CASE n = c /\ f = TagFile[g]
      BY <3>2, <3>6 DEF Covered
    <3> QED
      BY <1>2, <3>3, <3>4, <3>5, <3>6 DEF e
  <2> QED
    BY <2>3, <2>4, <2>5
<1>10. job[q] \in {"next", "tags"} \/ ReadRecords(q)
  BY <1>2, WhoHasRecords
<1> QED
  BY <1>4, <1>5, <1>6, <1>7, <1>8, <1>9, <1>10, RecordsKept

\* Every event, and what maintainers have of it in memory, is in its index files or about to be.
LEMMA IndexedStep ==
  ASSUME IndexOperationsSucceed, DeletesAlone, MInv1, Indexed, [MaintenanceNext]_maintenanceVars
  PROVE  Indexed'
<1>1. /\ TypeOK /\ Inv1 /\ SequenceReserved /\ MaintenanceTypes /\ Duties /\ Emptied
      /\ events \in [DOMAIN events -> Event] /\ index \in [IndexFile -> SUBSET Nat]
      /\ RestFits /\ IndexComplete /\ (\A p \in Proc : RecordsIndexed(p))
  BY DEF MInv1, LogLayer, Inv1, TypeOK, MaintenanceTypes, Indexed
<1>0. MaintenanceTypes
  BY <1>1
<1>2. RestFits' /\ Emptied' /\ \A q \in Proc : RecordsIndexed(q)'
  BY <1>1, RestFitsStep, EmptiedStep, RecordsIndexedStep
<1>3. ASSUME NEW n \in DOMAIN events, NEW f \in IndexFile, Covered(n, f)
      PROVE  Covered(n, f)'
  BY <1>1, <1>3, CoveredStaysHere
<1>4. ASSUME events' = events \/ DOMAIN events' = {}
      PROVE  IndexComplete'
  <2>1. ASSUME NEW n \in DOMAIN events, NEW f \in Range(FilesOf(events[n]))
        PROVE  Covered(n, f)'
    BY <1>1, <1>3, <2>1, FilesAreIndexFiles DEF IndexComplete
  <2> QED
    BY <1>4, <2>1 DEF IndexComplete
<1>5. ASSUME NEW p \in Proc, StoreActs(p)
      PROVE  IndexComplete'
  <2>1. Lives(p)
    BY <1>5, StoreActsFacts
  <2> QED
    BY <1>1, <2>1, IndexCompleteAct
<1>6. ASSUME NEW p \in Proc, NEW failed \in BOOLEAN,
             \/ NextRecord(p) \/ MergeTag(p, failed) \/ EndAddTags(p) \/ MaintainerDies(p)
             \/ ReadTagIndex(p) \/ EndLookUp(p) \/ DeleteEvents(p, failed) \/ DeleteIndices(p, failed)
      PROVE  events' = events \/ DOMAIN events' = {}
  <2>1. DeleteEvents(p, failed) => events' = events \/ events' = << >>
    BY DEF DeleteEvents
  <2>2. DOMAIN << >> = {}
    OBVIOUS
  <2>3. NextRecord(p) \/ MergeTag(p, failed) \/ EndAddTags(p) \/ MaintainerDies(p)
        \/ ReadTagIndex(p) \/ EndLookUp(p) \/ DeleteIndices(p, failed) => events' = events
    BY DEF NextRecord, MergeTag, EndAddTags, MaintainerDies, ReadTagIndex, EndLookUp, DeleteIndices, vars, store
  <2> QED
    BY <1>6, <2>1, <2>2, <2>3
<1>7. ASSUME NEW p \in Proc, AddTags(p) \/ ReadRecords(p) \/ \E tags \in LookUps : LookUpTags(p, tags)
      PROVE  events' = events
  BY <1>7 DEF AddTags, Invoke, ReadRecords, LoadEvents, LookUpTags, store
<1>8. ASSUME NEW p \in Proc, NEW failed \in BOOLEAN, RewriteEvent(p, failed)
      PROVE  IndexComplete'
  <2> DEFINE c == Current(p)
  <2>1. job[p] = "tags"
    BY <1>8 DEF RewriteEvent
  <2>2. /\ DOMAIN records[p] # {} /\ c \in DOMAIN records[p] /\ c \in DOMAIN events
        /\ records[p][c] \in Event
    BY <2>1, TheRecordInHand
  <2>3. UNCHANGED events \/ events' = [events EXCEPT ![c] = records[p][c]]
    <3>1. UNCHANGED events \/ WriteRecord(p, records[p][c])
      BY <1>0, <1>8, <2>2, RewriteEventStep
    <3> QED
      BY <1>1, <2>2, <3>1, Written
  <2>4. \A f \in Range(FilesOf(records[p][c])) : f \in IndexFile /\ Covered(c, f)
    BY <1>1, <2>1, <2>2, FilesAreIndexFiles DEF RecordsIndexed
  <2> HIDE DEF c
  <2>5. ASSUME events' = [events EXCEPT ![c] = records[p][c]],
               NEW n \in DOMAIN events', NEW f \in Range(FilesOf(events'[n]))
        PROVE  Covered(n, f)'
    <3>1. n \in DOMAIN events
      BY <1>1, <2>5
    <3>2. CASE n = c
      <4>1. f \in Range(FilesOf(records[p][c]))
        BY <1>1, <2>2, <2>5, <3>2
      <4> QED
        BY <1>3, <2>4, <3>1, <3>2, <4>1
    <3>3. CASE n # c
      <4>1. events'[n] = events[n] /\ events[n] \in Event
        BY <1>1, <2>2, <2>5, <3>1, <3>3
      <4>2. f \in IndexFile /\ Covered(n, f)
        BY <1>1, <2>5, <3>1, <4>1, FilesAreIndexFiles DEF IndexComplete
      <4> QED
        BY <1>3, <3>1, <4>2
    <3> QED
      BY <3>2, <3>3
  <2>6. CASE events' = [events EXCEPT ![c] = records[p][c]]
    BY <2>5, <2>6 DEF IndexComplete
  <2> QED
    BY <1>4, <2>3, <2>6
<1>9. UNCHANGED <<vars, maintaining>> => events' = events
  BY DEF vars, store
<1>10. IndexComplete'
  BY <1>4, <1>5, <1>6, <1>7, <1>8, <1>9, MaintenanceCases
<1> QED
  BY <1>2, <1>10 DEF Indexed

\* A look-up begins with the events that are settled, which the index files list, and goes from
\* file to file while these only grow.
LEMMA LookUpsKnowStep ==
  ASSUME IndexOperationsSucceed, DeletesAlone, MInv1, Indexed, IndexNames, LookUpsKnow,
         [MaintenanceNext]_maintenanceVars
  PROVE  LookUpsKnow'
<1>1. /\ TypeOK /\ Inv1 /\ SequenceReserved /\ MaintenanceTypes /\ Duties
      /\ events \in [DOMAIN events -> Event] /\ index \in [IndexFile -> SUBSET Nat]
      /\ job \in [Proc -> Jobs] /\ todo \in [Proc -> Seq(Tag)]
      /\ hits \in [Proc -> SUBSET Nat] /\ due \in [Proc -> SUBSET Nat]
      /\ RestFits /\ IndexComplete
  BY DEF MInv1, LogLayer, Inv1, TypeOK, MaintenanceTypes, Indexed
<1>2. \A q \in Proc : \A g \in Range(todo[q]) : g \in Tag /\ TagFile[g] \in IndexFile
  <2>1. \A q \in Proc : \A g \in Range(todo[q]) : g \in Tag
    BY <1>1 DEF Range
  <2> QED
    BY <2>1, FilesAssumption
<1>3. ASSUME NEW q \in Proc, job[q] = "lookup"
      PROVE  /\ NobodyDeletes /\ (\A p \in Proc : \A failed \in BOOLEAN : ~DeleteIndices(p, failed))
             /\ \A f \in IndexFile : index[f] \subseteq index'[f]
             /\ NobodyDeletes' /\ ~spoiled' => ~spoiled /\ \A n \in DOMAIN events : n \in DOMAIN events'
  <2>1. NobodyDeletes
    BY <1>1, <1>3 DEF Duties, Alone, NobodyDeletes
  <2>2. \A p \in Proc : \A failed \in BOOLEAN : ~DeleteIndices(p, failed)
    BY <2>1 DEF DeleteIndices, NobodyDeletes
  <2> QED
    BY <2>1, <2>2, IndicesGrow, WhileNobodyDeletes
<1>4. ASSUME NEW q \in Proc, hits'[q] = hits[q], job'[q] = "lookup" <=> job[q] = "lookup",
             job[q] = "lookup" => due'[q] = due[q] /\ todo'[q] = todo[q]
      PROVE  LookUpKnows(q)'
  <2>1. CASE job[q] = "lookup"
    <3>1. \A n \in due[q] : n \in hits[q] \/ \E g \in Range(todo[q]) : n \in index'[TagFile[g]]
      BY <1>2, <1>3, <2>1 DEF LookUpsKnow, LookUpKnows
    <3>2. NobodyDeletes' /\ ~spoiled' => hits[q] \subseteq DOMAIN events'
      BY <1>3, <2>1 DEF LookUpsKnow, LookUpKnows
    <3> QED
      BY <1>4, <2>1, <3>1, <3>2 DEF LookUpKnows
  <2>2. CASE job[q] # "lookup"
    BY <1>4, <2>2 DEF LookUpsKnow, LookUpKnows
  <2> QED
    BY <2>1, <2>2
<1>5. ASSUME NEW p \in Proc, StoreActs(p)
      PROVE  LookUpsKnow'
  <2>1. UNCHANGED <<job, todo, hits, due>>
    BY <1>5, StoreActsFacts
  <2> QED
    BY <1>4, <2>1 DEF LookUpsKnow
<1>6. ASSUME NEW p \in Proc, UNCHANGED <<hits, due>>,
             \A q \in Proc : q # p => job'[q] = job[q] /\ todo'[q] = todo[q],
             job[p] # "lookup", job'[p] # "lookup"
      PROVE  LookUpsKnow'
  BY <1>4, <1>6 DEF LookUpsKnow
<1>7. ASSUME NEW p \in Proc, NEW failed \in BOOLEAN,
             \/ AddTags(p) \/ NextRecord(p) \/ EndAddTags(p) \/ MaintainerDies(p)
             \/ DeleteEvents(p, failed) \/ DeleteIndices(p, failed)
      PROVE  LookUpsKnow'
  <2>1. CASE AddTags(p) \/ MaintainerDies(p)
    BY <1>1, <1>6, <2>1 DEF AddTags, MaintainerDies, Maintains, looking
  <2>2. CASE NextRecord(p) \/ EndAddTags(p)
    BY <1>1, <1>6, <2>2 DEF NextRecord, EndAddTags, looking
  <2>3. CASE DeleteEvents(p, failed) \/ DeleteIndices(p, failed)
    BY <1>1, <1>6, <2>3 DEF DeleteEvents, DeleteIndices, looking
  <2> QED
    BY <1>7, <2>1, <2>2, <2>3
<1>8. ASSUME NEW p \in Proc, ReadRecords(p)
      PROVE  LookUpsKnow'
  <2>1. call[p] = TheRead
    BY <1>1, <1>8 DEF ReadRecords, Duties
  <2>2. /\ job[p] = "read" /\ UNCHANGED <<todo, hits, due>>
        /\ job' = [job EXCEPT ![p] = "none"] \/ job' = [job EXCEPT ![p] = "next"]
    BY <1>1, <1>8, <2>1, ReadRecordsStep
  <2> QED
    BY <1>1, <1>6, <2>2
<1>9. ASSUME NEW p \in Proc, NEW failed \in BOOLEAN, MergeTag(p, failed)
      PROVE  LookUpsKnow'
  <2>1. /\ job[p] = "tags" /\ UNCHANGED <<job, hits, due>>
        /\ todo' = [todo EXCEPT ![p] = Tail(@)]
    BY <1>9 DEF MergeTag, looking
  <2> QED
    BY <1>1, <1>6, <2>1
<1>10. ASSUME NEW p \in Proc, NEW failed \in BOOLEAN, RewriteEvent(p, failed)
       PROVE  LookUpsKnow'
  <2>1. /\ job[p] = "tags" /\ job' = [job EXCEPT ![p] = "next"] /\ UNCHANGED <<todo, hits, due>>
    BY <1>10 DEF RewriteEvent, NextAfterRewrite, looking
  <2> QED
    BY <1>1, <1>6, <2>1
<1>12. ASSUME NEW p \in Proc, NEW tags \in LookUps, LookUpTags(p, tags)
       PROVE  LookUpsKnow'
  <2>1. /\ job[p] = "none" /\ job' = [job EXCEPT ![p] = "lookup"]
        /\ todo' = [todo EXCEPT ![p] = tags] /\ UNCHANGED <<events, index, hits>>
        /\ due' = [due EXCEPT ![p] = {n \in Settled : Range(tags) \cap Range(events[n].tags) # {}}]
    BY <1>12 DEF LookUpTags, store
  <2>2. \A q \in Proc : q # p => LookUpKnows(q)'
    BY <1>1, <1>4, <2>1
  <2>3. hits'[p] = {}
    BY <2>1 DEF LookUpsKnow, LookUpKnows
  <2>4. ASSUME NEW n \in Settled, NEW g \in Range(tags), g \in Range(events[n].tags)
        PROVE  n \in index[TagFile[g]]
    <3>1. n \in DOMAIN events /\ events[n] \in Event /\ n \in Nat
      BY <1>1, LogFacts DEF Settled
    <3>2. Covered(n, TagFile[g])
      BY <1>1, <2>4, <3>1, FilesOfEvent DEF IndexComplete
    <3>3. ASSUME NEW q \in Proc, pc[q] = "index"
          PROVE  seq[q] # n
      <4>1. n < Base(q)
        BY <2>4, <3>3 DEF Settled
      <4>2. seq[q] \in Nat /\ Base(q) \in Int /\ Base(q) <= seq[q]
        BY <1>1, BatchBegins
      <4> QED
        BY <3>1, <4>1, <4>2
    <3> QED
      BY <3>2, <3>3 DEF Covered
  <2>5. due'[p] = {n \in Settled : Range(tags) \cap Range(events[n].tags) # {}} /\ todo'[p] = tags
    BY <1>1, <2>1
  <2>6. \A n \in due'[p] : \E g \in Range(tags) : n \in index[TagFile[g]]
    BY <2>4, <2>5
  <2>7. LookUpKnows(p)'
    BY <1>1, <2>1, <2>3, <2>5, <2>6 DEF LookUpKnows
  <2> QED
    BY <2>2, <2>7 DEF LookUpsKnow
<1>13. ASSUME NEW p \in Proc, ReadTagIndex(p)
       PROVE  LookUpsKnow'
  <2> DEFINE g == Head(todo[p])
  <2>1. /\ job[p] = "lookup" /\ todo[p] # << >> /\ todo[p] \in Seq(Tag)
        /\ UNCHANGED <<events, index, job, due, spoiled>>
        /\ hits' = [hits EXCEPT ![p] = hits[p] \cup index[TagFile[g]]]
        /\ todo' = [todo EXCEPT ![p] = Tail(todo[p])]
    BY <1>1, <1>13 DEF ReadTagIndex, vars, store, counting
  <2>2. \A q \in Proc : q # p => LookUpKnows(q)'
    BY <1>1, <1>4, <2>1
  <2>3. g \in Tag /\ Range(todo[p]) = {g} \cup Range(Tail(todo[p]))
    BY <2>1, RangeOfHeadTail
  <2>4. NobodyDeletes /\ (~spoiled => index[TagFile[g]] \subseteq DOMAIN events)
    <3>1. NobodyDeletes
      BY <1>3, <2>1
    <3> QED
      BY <2>3, <3>1, FilesAssumption DEF IndexNames
  <2> HIDE DEF g
  <2>5. hits'[p] = hits[p] \cup index[TagFile[g]] /\ todo'[p] = Tail(todo[p])
    BY <1>1, <2>1
  <2>6. \A n \in due[p] : n \in hits[p] \/ \E h \in Range(todo[p]) : n \in index[TagFile[h]]
    BY <2>1 DEF LookUpsKnow, LookUpKnows
  <2>7. \A n \in due'[p] : n \in hits'[p] \/ \E h \in Range(todo'[p]) : n \in index'[TagFile[h]]
    BY <2>1, <2>3, <2>5, <2>6
  <2>8. ~spoiled => hits[p] \subseteq DOMAIN events
    BY <2>1, <2>4 DEF LookUpsKnow, LookUpKnows
  <2>9. LookUpKnows(p)'
    BY <2>1, <2>4, <2>5, <2>7, <2>8 DEF LookUpKnows
  <2> QED
    BY <2>2, <2>9 DEF LookUpsKnow
<1>14. ASSUME NEW p \in Proc, EndLookUp(p)
       PROVE  LookUpsKnow'
  <2>1. /\ UNCHANGED <<events, index, todo>> /\ job' = [job EXCEPT ![p] = "none"]
        /\ hits' = [hits EXCEPT ![p] = {}] /\ due' = [due EXCEPT ![p] = {}]
    BY <1>14 DEF EndLookUp, vars, store
  <2>2. \A q \in Proc : q # p => LookUpKnows(q)'
    BY <1>1, <1>4, <2>1
  <2>3. LookUpKnows(p)'
    BY <1>1, <2>1 DEF LookUpKnows
  <2> QED
    BY <2>2, <2>3 DEF LookUpsKnow
<1>15. ASSUME UNCHANGED <<vars, maintaining>>
       PROVE  LookUpsKnow'
  <2>1. UNCHANGED <<job, todo, hits, due>>
    BY <1>15 DEF maintaining, looking
  <2> QED
    BY <1>4, <2>1 DEF LookUpsKnow
<1> QED
  BY <1>5, <1>7, <1>8, <1>9, <1>10, <1>12, <1>13, <1>14, <1>15, MaintenanceCases

\* While the storage of the indices does not fail, a look-up by tags that reads one index file
\* after another under no lock finds every event that was settled with one of the tags when it
\* began, and only events, whatever is appended meanwhile and however many add_tags rewrite
\* each other's events.  The store is deleted only while nobody uses it.
THEOREM LookUpsByTagFindAll ==
  ASSUME IndexOperationsSucceed, DeletesAlone, FactoryMakesTags
  PROVE  MaintenanceSpec => []TagLookUpsComplete
<1>1. ListingsSucceed /\ SafeLock
  BY DEF IndexOperationsSucceed, ListingsSucceed
<1>2. ASSUME MaintenanceInit
      PROVE  Indexed /\ LookUpsKnow
  <2>1. job = [p \in Proc |-> "none"] /\ hits = [p \in Proc |-> {}]
    BY <1>2 DEF MaintenanceInit
  <2>2. LookUpsKnow
    BY <2>1 DEF LookUpsKnow, LookUpKnows
  <2> QED
    BY <1>2, <2>2, IndexedInit
<1>3. MInv1 /\ Indexed /\ [MaintenanceNext]_maintenanceVars => Indexed'
  BY IndexedStep
<1>4. MInv1 /\ Indexed /\ IndexKnown /\ LookUpsKnow /\ [MaintenanceNext]_maintenanceVars => LookUpsKnow'
  BY LookUpsKnowStep DEF IndexKnown
<1>5. ASSUME LookUpsKnow PROVE TagLookUpsComplete
  <2>1. Range(<< >>) = {}
    BY DEF Range
  <2> QED
    BY <1>5, <2>1 DEF LookUpsKnow, LookUpKnows, TagLookUpsComplete
<1>6. MaintenanceSpec => [](MInv1 /\ IndexKnown)
  BY <1>1, IndexKnownAlways
<1> QED
  BY <1>2, <1>3, <1>4, <1>5, <1>6, PTL DEF MaintenanceSpec

-----------------------------------------------------------------------------
(* add_tags reaches every event *)

\* A tag of another key leaves the keys of a record different.
LEMMA TaggedKeys ==
  ASSUME NEW e \in Event, NEW g \in Tag
  PROVE  /\ HasKey(Tagged(e, g).tags, g)
         /\ \A h : HasKey(e.tags, h) => HasKey(Tagged(e, g).tags, h)
         /\ KeyOf[g] \in Keys(e) => HasKey(e.tags, g)
         /\ KeyOf[g] \notin Keys(e) /\ KeysOnceIn(e.tags) => KeysOnceIn(Tagged(e, g).tags)
<1> DEFINE old == e.tags
           new == Append(e.tags, g)
           k == Len(e.tags)
<1>1. old \in Seq(Tag) /\ Tagged(e, g).tags = new
  BY DEF Event, Tagged
<1>2. /\ k \in Nat /\ DOMAIN old = 1 .. k /\ DOMAIN new = 1 .. k + 1 /\ new[k + 1] = g
      /\ \A i \in 1 .. k : new[i] = old[i]
  BY <1>1, AppendProperties, LenProperties
<1> HIDE DEF old, new, k
<1>3. k + 1 \in 1 .. k + 1 /\ \A i \in 1 .. k : i \in 1 .. k + 1
  BY <1>2
<1>4. \A i \in 1 .. k + 1 : i \in 1 .. k \/ i = k + 1
  BY <1>2
<1>5. HasKey(new, g)
  BY <1>2, <1>3 DEF HasKey
<1>6. \A h : HasKey(old, h) => HasKey(new, h)
  BY <1>2, <1>3 DEF HasKey
<1>7. Keys(e) = {KeyOf[old[i]] : i \in DOMAIN old}
  BY DEF Keys, Range, old
<1>8. KeyOf[g] \in Keys(e) => HasKey(old, g)
  BY <1>7 DEF HasKey
<1>9. ASSUME KeyOf[g] \notin Keys(e), KeysOnceIn(old)
      PROVE  KeysOnceIn(new)
  <2>1. \A i \in 1 .. k : KeyOf[new[i]] # KeyOf[new[k + 1]]
    BY <1>2, <1>7, <1>9
  <2>2. \A i, j \in 1 .. k : KeyOf[new[i]] = KeyOf[new[j]] => i = j
    BY <1>2, <1>9 DEF KeysOnceIn
  <2> QED
    BY <1>2, <1>4, <2>1, <2>2 DEF KeysOnceIn
<1> QED
  BY <1>1, <1>5, <1>6, <1>8, <1>9 DEF old

\* An append adds the first event of what is left of its batch, and changes none.
LEMMA EventsOfActs ==
  ASSUME DeletesAlone, MInv1, NEW p \in Proc, StoreActs(p)
  PROVE  \/ UNCHANGED events
         \/ \E q \in Proc :
              /\ rest[q] # << >> /\ DOMAIN events' = DOMAIN events \cup {seq[q]}
              /\ \A n \in DOMAIN events : events'[n] = events[n]
              /\ events'[seq[q]] = Head(rest[q])
<1>1. Next /\ Inv1 /\ SequenceReserved
  BY StoreActsFacts DEF MInv1, LogLayer
<1>2. ASSUME NEW q \in Proc, AcquireLock(q) \/ ReleaseLock(q) \/ BreakLock(q) \/ CrashUnstamped(q)
      PROVE  UNCHANGED events
  BY <1>2 DEF AcquireLock, ReleaseLock, BreakLock, CrashUnstamped
<1>3. ASSUME NEW q \in Proc, NEW failed \in BOOLEAN, UpdateIndex(q, failed)
      PROVE  UNCHANGED events
  BY <1>3 DEF UpdateIndex
<1>4. ASSUME NEW q \in Proc, WriteEvent(q)
      PROVE  /\ rest[q] # << >> /\ DOMAIN events' = DOMAIN events \cup {seq[q]}
             /\ \A n \in DOMAIN events : events'[n] = events[n]
             /\ events'[seq[q]] = Head(rest[q])
  BY <1>1, <1>4, WriteKeepsEvents DEF WriteEvent
<1> QED
  BY <1>1, <1>2, <1>3, <1>4, WhoChangesTheStore

LEMMA KeysOnceStep ==
  ASSUME DeletesAlone, KeysDiffer, MInv1, KeysOnce, [MaintenanceNext]_maintenanceVars
  PROVE  KeysOnce'
<1> DEFINE Logged == \A n \in DOMAIN events : KeysOnceIn(events[n].tags)
           Batched == \A p \in Proc : \A i \in DOMAIN rest[p] : KeysOnceIn(rest[p][i].tags)
           Recorded(q) == job[q] \in {"next", "tags"} =>
                            \A n \in DOMAIN records[q] : KeysOnceIn(records[q][n].tags)
<1>1. /\ TypeOK /\ MaintenanceTypes /\ Duties /\ (\A p \in Proc : Reads(p))
      /\ events \in [DOMAIN events -> Event] /\ rest \in [Proc -> Seq(Event)]
      /\ job \in [Proc -> Jobs] /\ records = [q \in Proc |-> records[q]]
      /\ Logged /\ Batched /\ (\A q \in Proc : Recorded(q))
  BY DEF MInv1, LogLayer, Inv1, TypeOK, MaintenanceTypes, KeysOnce
<1>0. MaintenanceTypes
  BY <1>1
<1>2. Batched'
  <2>1. CASE UNCHANGED rest
    BY <1>1, <2>1
  <2>2. ASSUME NEW p \in Proc, rest[p] # << >>, rest' = [rest EXCEPT ![p] = Tail(rest[p])]
        PROVE  Batched'
    <3>1. rest[p] \in Seq(Event)
      BY <1>1
    <3>2. \A i \in DOMAIN Tail(rest[p]) : i + 1 \in DOMAIN rest[p] /\ Tail(rest[p])[i] = rest[p][i + 1]
      BY <2>2, <3>1, HeadTailProperties, LenProperties
    <3>3. \A i \in DOMAIN Tail(rest[p]) : KeysOnceIn(Tail(rest[p])[i].tags)
      BY <1>1, <3>2
    <3> QED
      BY <1>1, <2>2, <3>3
  <2>3. ASSUME NEW p \in Proc, NEW c \in Calls \cup {TheRead}, rest' = [rest EXCEPT ![p] = c.batch]
        PROVE  Batched'
    <3>1. DOMAIN TheRead.batch = {}
      BY DEF TheRead, ReadAll, ReadCall
    <3>2. \A i \in DOMAIN c.batch : KeysOnceIn(c.batch[i].tags)
      BY <3>1 DEF KeysDiffer
    <3> QED
      BY <1>1, <2>3, <3>2
  <2> QED
    BY <2>1, <2>2, <2>3, WhoChangesABatch
<1>3. ASSUME UNCHANGED events \/ DOMAIN events' = {}
      PROVE  Logged'
  BY <1>1, <1>3
<1> HIDE DEF Logged, Batched
<1>4. ASSUME NEW p \in Proc, StoreActs(p)
      PROVE  Logged'
  <2>1. ASSUME NEW q \in Proc, rest[q] # << >>, DOMAIN events' = DOMAIN events \cup {seq[q]},
               \A n \in DOMAIN events : events'[n] = events[n], events'[seq[q]] = Head(rest[q])
        PROVE  Logged'
    <3>1. rest[q] \in Seq(Event)
      BY <1>1
    <3>2. 1 \in DOMAIN rest[q] /\ Head(rest[q]) = rest[q][1]
      BY <2>1, <3>1, HeadTailProperties, LenProperties
    <3> QED
      BY <1>1, <2>1, <3>2 DEF Logged, Batched
  <2> QED
    BY <1>3, <1>4, <2>1, EventsOfActs
<1>5. ASSUME NEW p \in Proc, NEW failed \in BOOLEAN, RewriteEvent(p, failed)
      PROVE  Logged'
  <2> DEFINE c == Current(p)
  <2>1. job[p] = "tags"
    BY <1>5 DEF RewriteEvent
  <2>2. DOMAIN records[p] # {} /\ c \in DOMAIN records[p] /\ c \in DOMAIN events
    BY <2>1, TheRecordInHand
  <2>3. UNCHANGED events \/ events' = [events EXCEPT ![c] = records[p][c]]
    <3>1. UNCHANGED events \/ WriteRecord(p, records[p][c])
      BY <1>0, <1>5, <2>2, RewriteEventStep
    <3> QED
      BY <1>1, <2>2, <3>1, Written
  <2>4. KeysOnceIn(records[p][c].tags)
    BY <1>1, <2>1, <2>2
  <2> HIDE DEF c
  <2> QED
    BY <1>1, <1>3, <2>2, <2>3, <2>4 DEF Logged
<1>6. ASSUME NEW p \in Proc, NEW failed \in BOOLEAN, DeleteEvents(p, failed)
      PROVE  Logged'
  <2>1. events' = events \/ events' = << >>
    BY <1>6 DEF DeleteEvents
  <2>2. DOMAIN << >> = {}
    OBVIOUS
  <2> QED
    BY <1>3, <2>1, <2>2
<1>7. Logged'
  <2>1. \A p \in Proc : NextRecord(p) \/ EndAddTags(p) \/ ReadTagIndex(p) \/ EndLookUp(p) => UNCHANGED events
    BY DEF NextRecord, EndAddTags, ReadTagIndex, EndLookUp, vars, store
  <2>4. \A p \in Proc : \A failed \in BOOLEAN :
          MergeTag(p, failed) \/ MaintainerDies(p) \/ DeleteIndices(p, failed) => UNCHANGED events
    BY DEF MergeTag, MaintainerDies, DeleteIndices, store
  <2>2. \A p \in Proc : AddTags(p) \/ ReadRecords(p) \/ (\E tags \in LookUps : LookUpTags(p, tags))
          => UNCHANGED events
    BY DEF AddTags, Invoke, ReadRecords, LoadEvents, LookUpTags, store
  <2>3. UNCHANGED <<vars, maintaining>> => UNCHANGED events
    BY DEF vars, store
  <2> QED
    BY <1>3, <1>4, <1>5, <1>6, <2>1, <2>2, <2>3, <2>4, MaintenanceCases
<1>8. ASSUME NEW q \in Proc
      PROVE  Recorded(q)'
  <2> SUFFICES ASSUME job'[q] \in {"next", "tags"}, NEW n \in DOMAIN records'[q]
               PROVE  KeysOnceIn(records'[q][n].tags)
    OBVIOUS
  <2>1. ASSUME ReadRecords(q)
        PROVE  KeysOnceIn(records'[q][n].tags)
    <3>1. call[q] = TheRead
      BY <1>1, <2>1 DEF ReadRecords, Duties
    <3> DEFINE S == result'[q].positions
    <3>2. \/ job' = [job EXCEPT ![q] = "none"]
          \/ S \subseteq DOMAIN events /\ records' = [records EXCEPT ![q] = [m \in S |-> events[m]]]
      BY <1>1, <2>1, <3>1, ReadRecordsStep
    <3> HIDE DEF S
    <3>3. n \in DOMAIN events /\ records'[q][n] = events[n]
      BY <1>1, <3>2
    <3> QED
      BY <1>1, <3>3 DEF Logged
  <2>2. ASSUME job[q] \in {"next", "tags"}, n \in DOMAIN records[q], records'[q][n] = records[q][n]
        PROVE  KeysOnceIn(records'[q][n].tags)
    BY <1>1, <2>2
  <2>3. ASSUME NextRecord(q)
        PROVE  KeysOnceIn(records'[q][n].tags)
    BY <2>2, <2>3 DEF NextRecord
  <2>4. ~EndAddTags(q) /\ ~MaintainerDies(q)
    BY <1>1 DEF EndAddTags, MaintainerDies
  <2>5. ASSUME NEW failed \in BOOLEAN, RewriteEvent(q, failed)
        PROVE  KeysOnceIn(records'[q][n].tags)
    <3>1. job[q] = "tags"
      BY <2>5 DEF RewriteEvent
    <3>2. DOMAIN records[q] # {}
      BY <3>1, TheRecordInHand
    <3>3. records' = [records EXCEPT ![q] = [m \in DOMAIN records[q] \ {Current(q)} |-> records[q][m]]]
      BY <1>0, <2>5, <3>2, RewriteEventStep
    <3>4. n \in DOMAIN records[q] /\ records'[q][n] = records[q][n]
      BY <1>1, <3>3
    <3> QED
      BY <2>2, <3>1, <3>4
  <2>6. ASSUME NEW failed \in BOOLEAN, MergeTag(q, failed)
        PROVE  KeysOnceIn(records'[q][n].tags)
    <3> DEFINE c == Current(q)
               e == records[q][c]
               g == Head(todo[q])
    <3>1. job[q] = "tags"
      BY <2>6 DEF MergeTag
    <3>2. DOMAIN records[q] # {} /\ c \in DOMAIN records[q] /\ e \in Event
      BY <3>1, TheRecordInHand
    <3>3. /\ g \in Tag
          /\ \/ UNCHANGED records
             \/ /\ KeyOf[g] \notin Keys(e)
                /\ records' = [records EXCEPT ![q] = [records[q] EXCEPT ![c] = Tagged(e, g)]]
      BY <1>0, <2>6, <3>2, MergeTagStep
    <3>4. CASE UNCHANGED records
      BY <2>2, <3>1, <3>4
    <3>5. CASE /\ KeyOf[g] \notin Keys(e)
               /\ records' = [records EXCEPT ![q] = [records[q] EXCEPT ![c] = Tagged(e, g)]]
      <4>1. KeysOnceIn(e.tags)
        BY <1>1, <3>1, <3>2
      <4>2. KeysOnceIn(Tagged(e, g).tags)
        BY <3>2, <3>3, <3>5, <4>1, TaggedKeys
      <4> HIDE DEF c, e, g
      <4>3. n \in DOMAIN records[q] /\ records'[q][n] = IF n = c THEN Tagged(e, g) ELSE records[q][n]
        BY <1>1, <3>2, <3>5
      <4> QED
        BY <2>2, <3>1, <4>2, <4>3
    <3> QED
      BY <3>3, <3>4, <3>5
  <2>7. job[q] \in {"next", "tags"} \/ ReadRecords(q)
    BY WhoHasRecords
  <2>8. CASE records'[q] = records[q] /\ job[q] \in {"next", "tags"}
    BY <2>2, <2>8
  <2> QED
    BY <2>1, <2>3, <2>4, <2>5, <2>6, <2>7, <2>8, RecordsKept
<1> QED
  BY <1>2, <1>7, <1>8 DEF KeysOnce, Logged, Batched

\* The query of add_tags reads one index file.
LEMMA OneFileOfType ==
  LET it == [types |-> <<TaggedType>>, tags |-> << >>]
  IN  Len(FilesRead(it)) = 1 /\ FilesRead(it)[1] = TypeFile[TaggedType]
<1> DEFINE a == [i \in DOMAIN <<TaggedType>> |-> TypeFile[<<TaggedType>>[i]]]
           b == [i \in DOMAIN << >> |-> TagFile[<< >>[i]]]
<1>1. TypeFile[TaggedType] \in IndexFile
  BY FilesAssumption, MaintenanceAssumption
<1>2. DOMAIN <<TaggedType>> = 1 .. 1 /\ DOMAIN << >> = 1 .. 0 /\ <<TaggedType>>[1] = TaggedType
  OBVIOUS
<1>3. a \in Seq(IndexFile) /\ Len(a) = 1 /\ a[1] = TypeFile[TaggedType]
  BY <1>1, <1>2
<1>4. b \in Seq(IndexFile) /\ Len(b) = 0
  BY <1>2
<1> HIDE DEF a, b
<1>5. b = << >>
  BY <1>4, EmptySeq
<1>6. a \o b = a
  BY <1>3, <1>5, ConcatEmptySeq
<1> QED
  BY <1>3, <1>6 DEF FilesRead, IndexFiles, TypeFiles, TagFiles, a, b

\* While somebody maintains the store nobody deletes it.
LEMMA NobodyDeletesNow ==
  ASSUME DeletesAlone, MInv1, NEW q \in Proc, Maintains(q), NEW p \in Proc, NEW failed \in BOOLEAN
  PROVE  ~DeleteEvents(p, failed) /\ ~DeleteIndices(p, failed)
<1>1. DeleteEvents(p, failed) => Alone(p) /\ job[p] = "none"
  BY DEF DeleteEvents
<1>2. DeleteIndices(p, failed) => Alone(p) /\ job[p] = "delete"
  BY DEF DeleteIndices, MInv1, Duties
<1> QED
  BY <1>1, <1>2 DEF Alone, Maintains

\* Then events stay, and what is torn stays torn.
LEMMA EventsStay ==
  ASSUME DeletesAlone, MInv1, [MaintenanceNext]_maintenanceVars, NEW q \in Proc, Maintains(q)
  PROVE  DOMAIN events \subseteq DOMAIN events' /\ torn \subseteq torn'
<1>1. events \in [DOMAIN events -> Event] /\ MaintenanceTypes
  BY DEF MInv1, LogLayer, Inv1, TypeOK
<1>2. torn \subseteq torn'
  BY NobodyDeletesNow, WhileNobodyDeletes
<1>3. ASSUME NEW p \in Proc, StoreActs(p)
      PROVE  DOMAIN events \subseteq DOMAIN events'
  BY <1>3, StoreActsFacts, StepKeepsEvents DEF MInv1, LogLayer
<1>4. ASSUME NEW p \in Proc, NEW failed \in BOOLEAN, RewriteEvent(p, failed)
      PROVE  DOMAIN events \subseteq DOMAIN events'
  BY <1>1, <1>4 DEF RewriteEvent, WriteRecord
<1>5. ASSUME NEW p \in Proc, NEW failed \in BOOLEAN, MergeTag(p, failed) \/ MaintainerDies(p)
      PROVE  events' = events
  BY <1>5 DEF MergeTag, MaintainerDies, store
<1>6. ASSUME NEW p \in Proc, NextRecord(p) \/ EndAddTags(p) \/ ReadTagIndex(p) \/ EndLookUp(p)
      PROVE  events' = events
  BY <1>6 DEF NextRecord, EndAddTags, ReadTagIndex, EndLookUp, vars, store
<1>7. ASSUME NEW p \in Proc, AddTags(p) \/ ReadRecords(p) \/ \E tags \in LookUps : LookUpTags(p, tags)
      PROVE  events' = events
  BY <1>7 DEF AddTags, Invoke, ReadRecords, LoadEvents, LookUpTags, store
<1>8. UNCHANGED <<vars, maintaining>> => events' = events
  BY DEF vars, store
<1> QED
  BY <1>2, <1>3, <1>4, <1>5, <1>6, <1>7, <1>8, NobodyDeletesNow, MaintenanceCases

\* Nothing joins what a maintainer must read.
LEMMA WantedStays ==
  ASSUME IndexOperationsSucceed, DeletesAlone, MInv1, MInv1', [MaintenanceNext]_maintenanceVars,
         NEW q \in Proc, Maintains(q), WantedFound(q), floor'[q] = floor[q]
  PROVE  /\ Wanted(q)' \subseteq Wanted(q) /\ floor'[q] <= End'
         /\ Wanted(q)' \subseteq index'[TypeFile[TaggedType]]
<1>1. /\ TypeOK /\ End \in Nat /\ DOMAIN events = 0 .. End - 1 /\ floor[q] \in Nat
      /\ floor[q] <= End /\ Wanted(q) \subseteq index[TypeFile[TaggedType]]
  BY LogFacts DEF MInv1, LogLayer, Inv1, TypeOK, WantedFound
<1>2. End' \in Nat /\ DOMAIN events' = 0 .. End' - 1
  BY DEF MInv1, LogLayer, Inv1, GapFree, End
<1>3. DOMAIN events \subseteq DOMAIN events' /\ torn \subseteq torn'
  BY EventsStay
<1>5. End <= End'
  <2> DEFINE a == End
             b == End'
  <2>1. a \in Nat /\ b \in Nat /\ 0 .. a - 1 \subseteq 0 .. b - 1
    BY <1>1, <1>2, <1>3
  <2> HIDE DEF a, b
  <2>2. a <= b
    BY <2>1
  <2> QED
    BY <2>2 DEF a, b
<1>6. Wanted(q)' \subseteq Wanted(q)
  <2>1. ASSUME NEW n \in DOMAIN events', n \notin torn', n < floor[q], events'[n].type = TaggedType
        PROVE  n \in Wanted(q)
    <3>1. n \in DOMAIN events
      BY <1>1, <1>2, <2>1
    <3>2. Grown(events'[n], events[n])
      BY <2>1, <3>1, EventsOnlyGrow
    <3> QED
      BY <1>3, <2>1, <3>1, <3>2 DEF Wanted, Grown
  <2> QED
    BY <2>1 DEF Wanted
<1>7. TypeFile[TaggedType] \in IndexFile
  BY FilesAssumption, MaintenanceAssumption
<1>8. index[TypeFile[TaggedType]] \subseteq index'[TypeFile[TaggedType]]
  BY <1>7, NobodyDeletesNow, IndicesGrow
<1>9. floor'[q] <= End'
  BY <1>1, <1>2, <1>5
<1> QED
  BY <1>1, <1>6, <1>8, <1>9

\* A read of add_tags begins, goes on, or waits while others work.
LEMMA WhoReads ==
  ASSUME DeletesAlone, MInv1, [MaintenanceNext]_maintenanceVars, NEW q \in Proc, job'[q] = "read"
  PROVE  \/ AddTags(q)
         \/ /\ job[q] = "read"
            /\ \/ ResolveItem(q) \/ \E failed \in BOOLEAN : ReadIndex(q, failed)
               \/ /\ floor'[q] = floor[q] /\ pc'[q] = pc[q] /\ item'[q] = item[q]
                  /\ seen'[q] = seen[q] /\ found'[q] = found[q]
<1> DEFINE Same == /\ floor'[q] = floor[q] /\ pc'[q] = pc[q] /\ item'[q] = item[q]
                   /\ seen'[q] = seen[q] /\ found'[q] = found[q]
           Reading == ResolveItem(q) \/ \E failed \in BOOLEAN : ReadIndex(q, failed)
<1>1. /\ TypeOK /\ MaintenanceTypes /\ Duties /\ (\A p \in Proc : Reads(p))
      /\ job \in [Proc -> Jobs] /\ pc \in [Proc -> Labels] /\ floor \in [Proc -> Nat]
      /\ item \in [Proc -> Nat] /\ seen \in [Proc -> Seq(SUBSET Nat)] /\ found \in [Proc -> SUBSET Nat]
  BY DEF MInv1, LogLayer, Inv1, TypeOK, MaintenanceTypes
<1>2. ASSUME UNCHANGED <<vars, maintaining>>
      PROVE  job[q] = "read" /\ Same
  BY <1>2 DEF vars, maintaining, resolving
<1>3. ASSUME NEW p \in Proc, StoreActs(p)
      PROVE  job[q] = "read" /\ (Reading \/ Same)
  <2>1. /\ UNCHANGED job /\ Acts(p) /\ Lives(p) /\ (job[p] = "read" => pc[p] # "load")
        /\ (Step(p) /\ pc[p] # "idle") \/ job[p] = "none"
    BY <1>3, StoreActsFacts
  <2>2. CASE p # q
    <3>1. UNCHANGED Locals(q)
      BY <1>1, <2>1, <2>2, OthersKeepLocals
    <3>2. floor'[q] = floor[q]
      <4>1. \A c \in Calls : Invoke(p, c) => floor'[q] = floor[q]
        BY <1>1, <2>2 DEF Invoke
      <4> QED
        BY <2>1, <4>1, StepsOfCalls DEF Lives
    <3> QED
      BY <2>1, <3>1, <3>2 DEF Locals
  <2>3. CASE p = q
    <3>1. Step(q) /\ call[q] = TheRead /\ pc[q] = "resolve"
      BY <1>1, <2>1, <2>3 DEF Duties
    <3> QED
      BY <1>1, <2>1, <3>1, TheReadSteps
  <2> QED
    BY <2>2, <2>3
<1>4. ASSUME NEW p \in Proc, p # q, AddTags(p)
      PROVE  job[q] = "read" /\ Same
  BY <1>1, <1>4 DEF AddTags, Invoke, Go
<1>5. ASSUME NEW p \in Proc, ReadRecords(p)
      PROVE  job[q] = "read" /\ Same
  <2>1. call[p] = TheRead
    BY <1>1, <1>5 DEF ReadRecords, Duties
  <2>2. /\ UNCHANGED <<item, seen, found, floor>> /\ pc' = [pc EXCEPT ![p] = "idle"]
        /\ job' = [job EXCEPT ![p] = "none"] \/ job' = [job EXCEPT ![p] = "next"]
    BY <1>1, <1>5, <2>1, ReadRecordsStep
  <2> QED
    BY <1>1, <2>2
<1>6. ASSUME NEW p \in Proc, NextRecord(p) \/ EndAddTags(p) \/ ReadTagIndex(p) \/ EndLookUp(p)
      PROVE  job[q] = "read" /\ Same
  <2>1. /\ UNCHANGED vars
        /\ UNCHANGED job \/ \E j \in {"none", "tags"} : job' = [job EXCEPT ![p] = j]
    BY <1>6 DEF NextRecord, EndAddTags, ReadTagIndex, EndLookUp
  <2> QED
    BY <1>1, <2>1 DEF vars, resolving
<1>7. ASSUME NEW p \in Proc, NEW failed \in BOOLEAN, MergeTag(p, failed)
      PROVE  job[q] = "read" /\ Same
  BY <1>7 DEF MergeTag, resolving
<1>8. ASSUME NEW p \in Proc, NEW failed \in BOOLEAN, RewriteEvent(p, failed)
      PROVE  job[q] = "read" /\ Same
  <2>1. /\ UNCHANGED <<pc, item, seen, found, floor>> /\ job' = [job EXCEPT ![p] = "next"]
    BY <1>8 DEF RewriteEvent, NextAfterRewrite, resolving
  <2> QED
    BY <1>1, <2>1
<1>9. ASSUME NEW p \in Proc, NEW failed \in BOOLEAN, DeleteEvents(p, failed) \/ DeleteIndices(p, failed)
      PROVE  job[q] = "read" /\ Same
  BY <1>1, <1>9 DEF DeleteEvents, DeleteIndices, resolving
<1>10. ASSUME NEW p \in Proc, MaintainerDies(p)
       PROVE  job[q] = "read" /\ Same
  <2>1. /\ UNCHANGED <<item, seen, found, floor>> /\ job' = [job EXCEPT ![p] = "none"]
        /\ pc' = [pc EXCEPT ![p] = "crashed"]
    BY <1>10 DEF MaintainerDies, Go, resolving
  <2> QED
    BY <1>1, <2>1
<1>11. ASSUME NEW p \in Proc, \E tags \in LookUps : LookUpTags(p, tags)
       PROVE  job[q] = "read" /\ Same
  BY <1>1, <1>11 DEF LookUpTags, resolving
<1> HIDE DEF Same, Reading
<1>12. AddTags(q) \/ (job[q] = "read" /\ (Reading \/ Same))
  BY <1>2, <1>3, <1>4, <1>5, <1>6, <1>7, <1>8, <1>9, <1>10, <1>11, MaintenanceCases
<1> QED
  BY <1>12 DEF Same, Reading

\* The read of add_tags: what was settled when it began is in the index file, so in what it read
\* of that, so among its records.
LEMMA WantedFoundStep ==
  ASSUME IndexOperationsSucceed, DeletesAlone, MInv1, MInv1', Indexed, MaintenanceRead,
         [MaintenanceNext]_maintenanceVars, NEW q \in Proc
  PROVE  WantedFound(q)'
<1>1. /\ TypeOK /\ Inv1 /\ Duties /\ WantedFound(q) /\ job \in [Proc -> Jobs] /\ pc \in [Proc -> Labels]
      /\ item \in [Proc -> Nat] /\ seen \in [Proc -> Seq(SUBSET Nat)] /\ found \in [Proc -> SUBSET Nat]
      /\ floor \in [Proc -> Nat] /\ had = [p \in Proc |-> had[p]] /\ index \in [IndexFile -> SUBSET Nat]
      /\ RestFits /\ IndexComplete /\ events \in [DOMAIN events -> Event] /\ MaintenanceTypes
  BY DEF MInv1, LogLayer, Inv1, TypeOK, MaintenanceTypes, MaintenanceRead, Indexed
<1>2. ASSUME ~Maintains(q)'
      PROVE  WantedFound(q)'
  BY <1>2 DEF WantedFound, Maintains
<1>4. ASSUME Maintains(q), floor'[q] = floor[q], had'[q] = had[q],
             job[q] # "read" /\ job'[q] # "read"
      PROVE  WantedFound(q)'
  <2>1. /\ Wanted(q)' \subseteq Wanted(q) /\ floor'[q] <= End'
        /\ Wanted(q)' \subseteq index'[TypeFile[TaggedType]]
    BY <1>1, <1>4, WantedStays
  <2>2. Wanted(q) \subseteq DOMAIN had[q]
    BY <1>1, <1>4 DEF WantedFound, Maintains
  <2> QED
    BY <1>4, <2>1, <2>2 DEF WantedFound
<1>5. ASSUME job[q] = "read", job'[q] = "read", floor'[q] = floor[q],
             pc'[q] = pc[q], item'[q] = item[q], seen'[q] = seen[q], found'[q] = found[q]
      PROVE  WantedFound(q)'
  <2>1. /\ Wanted(q)' \subseteq Wanted(q) /\ floor'[q] <= End'
        /\ Wanted(q)' \subseteq index'[TypeFile[TaggedType]]
    BY <1>1, <1>5, WantedStays DEF Maintains
  <2> QED
    BY <1>1, <1>5, <2>1 DEF WantedFound
<1>6. ASSUME ResolveItem(q), job[q] = "read", job'[q] = job[q]
      PROVE  WantedFound(q)'
  <2> DEFINE it == [types |-> <<TaggedType>>, tags |-> << >>]
  <2>1. call[q] = TheRead /\ pc[q] = "resolve"
    BY <1>1, <1>6 DEF Duties, ResolveItem
  <2>2. TheRead.query = <<it>> /\ TheRead.after = None
    BY DEF TheRead, ReadAll, ReadCall
  <2>3. item[q] = 1 /\ call[q].query[item[q]] = it /\ Len(call[q].query) = 1
    BY <1>1, <1>6, <2>1, <2>2 DEF WantedFound
  <2>4. Len(FilesRead(it)) = 1
    BY Zenon, OneFileOfType
  <2>5. /\ Len(seen[q]) = 1
        /\ found' = [found EXCEPT ![q] = FromStart(found[q] \cup ItemPositions(it, seen[q]), None)]
        /\ pc' = [pc EXCEPT ![q] = "load"] /\ floor' = floor
    BY <1>6, <2>1, <2>2, <2>3, <2>4 DEF ResolveItem, Go
  <2>6. Wanted(q) \subseteq seen[q][1] /\ seen[q] \in Seq(SUBSET Nat) /\ DOMAIN seen[q] = {1}
    BY <1>1, <1>6, <2>1, <2>5, LenProperties DEF WantedFound
  <2>7. Wanted(q) \subseteq ItemPositions(it, seen[q])
    <3>1. \A n \in Wanted(q) : n \in UNION Range(seen[q])
      BY <2>6 DEF Range
    <3> QED
      BY <2>6, <3>1 DEF ItemPositions
  <2>8. \A n \in Wanted(q) : n \in Nat /\ n >= None + 1
    BY <1>1, LogFacts DEF Wanted, None
  <2> HIDE DEF it
  <2>9. Wanted(q) \subseteq found'[q] /\ pc'[q] = "load"
    BY <1>1, <2>5, <2>7, <2>8 DEF FromStart
  <2>10. /\ Wanted(q)' \subseteq Wanted(q) /\ floor'[q] <= End'
         /\ Wanted(q)' \subseteq index'[TypeFile[TaggedType]]
    BY <1>1, <1>6, <2>5, WantedStays DEF Maintains
  <2> QED
    BY <1>6, <2>9, <2>10 DEF WantedFound
<1>7. ASSUME ReadIndex(q, FALSE), job[q] = "read", job'[q] = job[q]
      PROVE  WantedFound(q)'
  <2> DEFINE it == [types |-> <<TaggedType>>, tags |-> << >>]
             f  == TypeFile[TaggedType]
  <2>1. call[q] = TheRead /\ pc[q] = "resolve"
    BY <1>1, <1>7 DEF Duties, ReadIndex
  <2>2. TheRead.query = <<it>>
    BY DEF TheRead, ReadAll, ReadCall
  <2>3. item[q] = 1 /\ call[q].query[item[q]] = it
    BY <1>1, <1>7, <2>1, <2>2 DEF WantedFound
  <2>4. Len(FilesRead(it)) = 1 /\ FilesRead(it)[1] = f
    BY Zenon, OneFileOfType
  <2>5. /\ Len(seen[q]) < 1
        /\ seen' = [seen EXCEPT ![q] = Append(seen[q], index[FilesRead(it)[Len(seen[q]) + 1]])]
        /\ UNCHANGED <<pc, item, found, floor>>
    BY <1>7, <2>1, <2>3, <2>4 DEF ReadIndex
  <2> HIDE DEF it
  <2>6. seen[q] \in Seq(SUBSET Nat) /\ Len(seen[q]) = 0 /\ f \in IndexFile
    BY <1>1, <2>5, LenProperties, FilesAssumption, MaintenanceAssumption
  <2>7. seen'[q] = Append(seen[q], index[f])
    <3>1. Len(seen[q]) + 1 = 1
      BY <2>6
    <3> QED
      BY <1>1, <2>4, <2>5, <3>1
  <2>8. index[f] \in SUBSET Nat
    BY <1>1, <2>6
  <2>9. Len(seen'[q]) = 1 /\ seen'[q][1] = index[f]
    BY <2>6, <2>7, <2>8, AppendProperties
  <2>10. /\ Wanted(q)' \subseteq Wanted(q) /\ floor'[q] <= End'
         /\ Wanted(q)' \subseteq index'[f]
    BY <1>1, <1>7, <2>5, WantedStays DEF Maintains
  <2>11. Wanted(q) \subseteq index[f] /\ item[q] = 1
    BY <1>1, <1>7, <2>3 DEF WantedFound, Maintains
  <2> QED
    BY <1>7, <2>1, <2>5, <2>9, <2>10, <2>11 DEF WantedFound
<1>8. ASSUME AddTags(q)
      PROVE  WantedFound(q)'
  <2>1. job' = [job EXCEPT ![q] = "read"] /\ Invoke(q, TheRead) /\ UNCHANGED torn
    BY <1>8 DEF AddTags, TheRead
  <2>2. /\ UNCHANGED <<events, index>> /\ job'[q] = "read" /\ pc'[q] = "resolve"
        /\ item'[q] = 1 /\ seen'[q] = << >> /\ floor'[q] = Cardinality(Settled)
    BY <1>1, <2>1, TheReadIsACall DEF Invoke, Go, store
  <2>3. /\ Cardinality(Settled) <= End
        /\ \A n \in DOMAIN events : n < Cardinality(Settled) =>
             \A f \in Range(FilesOf(events[n])) : n \in index[f]
    BY <1>1, SettledIsIndexed
  <2>4. \A n \in DOMAIN events : TypeFile[events[n].type] \in Range(FilesOf(events[n]))
    BY <1>1, FilesOfEvent
  <2>5. floor'[q] <= End' /\ Wanted(q)' \subseteq index'[TypeFile[TaggedType]]
    BY <2>2, <2>3, <2>4 DEF Wanted, End
  <2>6. Len(seen'[q]) = 0
    BY <2>2
  <2> QED
    BY <2>2, <2>5, <2>6 DEF WantedFound
<1>9. ASSUME ReadRecords(q), job'[q] \in {"next", "tags"}
      PROVE  WantedFound(q)'
  <2>1. call[q] = TheRead
    BY <1>1, <1>9 DEF ReadRecords, Duties
  <2> DEFINE S == result'[q].positions
  <2>2. /\ job[q] = "read" /\ pc[q] = "load" /\ UNCHANGED <<events, index, floor>>
        /\ \/ job' = [job EXCEPT ![q] = "none"]
           \/ /\ \A n \in found[q] : n \in DOMAIN events /\ events[n].type = TaggedType => n \in S
              /\ had' = [had EXCEPT ![q] = [n \in S |-> Len(events[n].tags)]]
              /\ job' = [job EXCEPT ![q] = "next"]
    BY <1>1, <1>9, <2>1, ReadRecordsStep
  <2> HIDE DEF S
  <2>3. /\ job'[q] = "next" /\ DOMAIN had'[q] = S
        /\ \A n \in found[q] : n \in DOMAIN events /\ events[n].type = TaggedType => n \in S
    BY <1>1, <1>9, <2>2
  <2>4. Wanted(q) \subseteq found[q]
    BY <1>1, <2>2 DEF WantedFound
  <2>5. Wanted(q) \subseteq S
    BY <2>3, <2>4 DEF Wanted
  <2>6. floor'[q] <= End' /\ Wanted(q)' \subseteq index'[TypeFile[TaggedType]] /\ Wanted(q)' \subseteq Wanted(q)
    BY <1>1, <2>2, WantedStays DEF Maintains
  <2> QED
    BY <2>3, <2>5, <2>6 DEF WantedFound
<1>10. ASSUME job'[q] = "read"
       PROVE  WantedFound(q)'
  <2>1. \A failed \in BOOLEAN : ReadIndex(q, failed) => ReadIndex(q, FALSE)
    BY NoIndexErrors
  <2> QED
    BY <1>5, <1>6, <1>7, <1>8, <1>10, <2>1, WhoReads
<1>11. ASSUME job'[q] \in {"next", "tags"}, job[q] \in {"next", "tags"}
       PROVE  WantedFound(q)'
  <2>1. ~EndAddTags(q) /\ ~MaintainerDies(q)
    BY <1>1, <1>11 DEF EndAddTags, MaintainerDies
  <2>2. NextRecord(q) => floor'[q] = floor[q] /\ had'[q] = had[q]
    BY DEF NextRecord, vars
  <2>3. \A failed \in BOOLEAN : MergeTag(q, failed) => floor'[q] = floor[q] /\ had'[q] = had[q]
    BY DEF MergeTag
  <2>4. \A failed \in BOOLEAN : RewriteEvent(q, failed) => floor'[q] = floor[q] /\ had'[q] = had[q]
    BY DEF RewriteEvent, NextAfterRewrite
  <2>5. floor'[q] = floor[q] /\ had'[q] = had[q]
    BY <1>11, <2>1, <2>2, <2>3, <2>4, RecordsKept
  <2> QED
    BY <1>4, <1>11, <2>5 DEF Maintains
<1> QED
  BY <1>2, <1>9, <1>10, <1>11, WhoHasRecords DEF Maintains

\* What has grown has every key it had.
LEMMA GrownKeys ==
  ASSUME NEW e \in Event, NEW old \in Event, Grown(e, old), NEW g, HasKey(old.tags, g)
  PROVE  HasKey(e.tags, g)
<1>1. PICK k \in Nat : Extends(e.tags, old.tags, k)
  BY DEF Grown
<1>2. PICK i \in DOMAIN old.tags : KeyOf[old.tags[i]] = KeyOf[g]
  BY DEF HasKey
<1>3. /\ Len(e.tags) \in Nat /\ DOMAIN e.tags = 1 .. Len(e.tags)
      /\ Len(old.tags) \in Nat /\ DOMAIN old.tags = 1 .. Len(old.tags)
  BY LenProperties DEF Event
<1>4. i \in DOMAIN e.tags
  <2> DEFINE a == Len(e.tags)
             b == Len(old.tags)
  <2>1. a = b + k /\ a \in Nat /\ b \in Nat /\ i \in 1 .. b
    BY <1>1, <1>2, <1>3 DEF Extends
  <2> HIDE DEF a, b
  <2>2. i \in 1 .. a
    BY <2>1
  <2> QED
    BY <1>3, <2>2 DEF a
<1> QED
  BY <1>1, <1>2, <1>4 DEF HasKey, Extends

\* And it still has every key the factory has for it.
LEMMA AllKeysStay ==
  ASSUME FactoryStable, NEW p \in Proc, NEW e \in Event, NEW old \in Event, Grown(e, old), HasAllKeys(p, old)
  PROVE  HasAllKeys(p, e)
<1> SUFFICES ASSUME NEW g \in Range(Factory(p, e))
             PROVE  HasKey(e.tags, g)
  BY DEF HasAllKeys
<1>1. PICK h \in Range(Factory(p, old)) : KeyOf[h] = KeyOf[g]
  BY DEF FactoryStable
<1>2. HasKey(old.tags, g)
  BY <1>1 DEF HasAllKeys, HasKey
<1> QED
  BY <1>2, GrownKeys

LEMMA GrownTagged ==
  ASSUME NEW e \in Event, NEW g \in Tag
  PROVE  Grown(Tagged(e, g), e)
<1>1. e.tags \in Seq(Tag)
  BY DEF Event
<1>2. /\ Len(Append(e.tags, g)) = Len(e.tags) + 1
      /\ \A i \in DOMAIN e.tags : Append(e.tags, g)[i] = e.tags[i]
  BY <1>1, AppendProperties, LenProperties
<1> QED
  BY <1>2 DEF Grown, Tagged, Extends

\* The record of an event that nobody has torn is not ahead of it.
LEMMA OldRecordsStep ==
  ASSUME DeletesAlone, MInv1, MInv1', [MaintenanceNext]_maintenanceVars, NEW q \in Proc, OldRecords(q)
  PROVE  OldRecords(q)'
<1>1. /\ TypeOK /\ MaintenanceTypes /\ Duties /\ (\A p \in Proc : Reads(p))
      /\ events \in [DOMAIN events -> Event] /\ changed \in [Proc -> Nat]
      /\ job \in [Proc -> Jobs] /\ records = [p \in Proc |-> records[p]]
      /\ events' \in [DOMAIN events' -> Event] /\ Reads(q)' /\ MaintenanceTypes'
  BY DEF MInv1, LogLayer, Inv1, TypeOK, MaintenanceTypes
<1>0. MaintenanceTypes
  BY <1>1
<1> SUFFICES ASSUME job'[q] \in {"next", "tags"}, NEW n \in DOMAIN records'[q], n \notin torn',
                    job'[q] = "tags" /\ n = Current(q)' => changed'[q] = 0
             PROVE  Grown(events'[n], records'[q][n])
  BY DEF OldRecords
<1>2. n \in DOMAIN events' /\ events'[n] \in Event /\ records'[q][n] \in Event
  BY <1>1 DEF Reads, MaintenanceTypes
<1>3. ASSUME job[q] \in {"next", "tags"}, n \in DOMAIN records[q], records'[q][n] = records[q][n],
             job[q] = "tags" /\ n = Current(q) => changed[q] = 0
      PROVE  Grown(events'[n], records'[q][n])
  <2>1. n \in DOMAIN events /\ n \notin torn
    BY <1>1, <1>3, EventsStay DEF Reads, Maintains
  <2>2. Grown(events[n], records[q][n]) /\ events[n] \in Event
    BY <1>1, <1>3, <2>1 DEF OldRecords
  <2>3. Grown(events'[n], events[n])
    BY <1>2, <2>1, EventsOnlyGrow
  <2> QED
    BY <1>2, <1>3, <2>2, <2>3, GrownTwice
<1>4. ASSUME ReadRecords(q)
      PROVE  Grown(events'[n], records'[q][n])
  <2>1. call[q] = TheRead
    BY <1>1, <1>4 DEF ReadRecords, Duties
  <2> DEFINE S == result'[q].positions
  <2>2. /\ UNCHANGED events
        /\ \/ job' = [job EXCEPT ![q] = "none"]
           \/ S \subseteq DOMAIN events /\ records' = [records EXCEPT ![q] = [m \in S |-> events[m]]]
    BY <1>1, <1>4, <2>1, ReadRecordsStep
  <2> HIDE DEF S
  <2>3. records'[q][n] = events'[n]
    BY <1>1, <2>2
  <2> QED
    BY <1>2, <2>3, GrownItself
<1>5. ASSUME job[q] \in {"next", "tags"}, records'[q] = records[q], job'[q] = job[q], changed'[q] = changed[q]
      PROVE  Grown(events'[n], records'[q][n])
  <2>1. Current(q)' = Current(q)
    BY <1>5 DEF Current
  <2> QED
    BY <1>3, <1>5, <2>1
<1>6. ASSUME NextRecord(q)
      PROVE  Grown(events'[n], records'[q][n])
  BY <1>3, <1>6 DEF NextRecord
<1>7. ~EndAddTags(q) /\ ~MaintainerDies(q)
  BY <1>1 DEF EndAddTags, MaintainerDies
<1>8. ASSUME NEW failed \in BOOLEAN, RewriteEvent(q, failed)
      PROVE  Grown(events'[n], records'[q][n])
  <2>1. job[q] = "tags"
    BY <1>8 DEF RewriteEvent
  <2>2. DOMAIN records[q] # {}
    BY <2>1, TheRecordInHand
  <2>3. records' = [records EXCEPT ![q] = [m \in DOMAIN records[q] \ {Current(q)} |-> records[q][m]]]
    BY <1>0, <1>8, <2>2, RewriteEventStep
  <2>4. n \in DOMAIN records[q] /\ records'[q][n] = records[q][n] /\ n # Current(q)
    BY <1>1, <2>3
  <2> QED
    BY <1>3, <2>1, <2>4
<1>9. ASSUME NEW failed \in BOOLEAN, MergeTag(q, failed)
      PROVE  Grown(events'[n], records'[q][n])
  <2> DEFINE c == Current(q)
             e == records[q][c]
             g == Head(todo[q])
  <2>1. job[q] = "tags"
    BY <1>9 DEF MergeTag
  <2>2. DOMAIN records[q] # {} /\ c \in DOMAIN records[q]
    BY <2>1, TheRecordInHand
  <2>3. /\ UNCHANGED job
        /\ \/ UNCHANGED <<records, changed>>
           \/ /\ records' = [records EXCEPT ![q] = [records[q] EXCEPT ![c] = Tagged(e, g)]]
              /\ changed' = [changed EXCEPT ![q] = changed[q] + 1]
    BY <1>0, <1>9, <2>2, MergeTagStep
  <2>4. CASE UNCHANGED <<records, changed>>
    BY <1>5, <2>1, <2>3, <2>4
  <2>5. CASE /\ records' = [records EXCEPT ![q] = [records[q] EXCEPT ![c] = Tagged(e, g)]]
             /\ changed' = [changed EXCEPT ![q] = changed[q] + 1]
    <3> HIDE DEF c, e, g
    <3>1. /\ DOMAIN records'[q] = DOMAIN records[q] /\ changed'[q] # 0 /\ job'[q] = "tags"
          /\ n # c => records'[q][n] = records[q][n]
      BY <1>1, <2>1, <2>2, <2>3, <2>5
    <3>2. Current(q)' = c
      BY <3>1 DEF Current, c
    <3>3. n # c
      BY <3>1, <3>2
    <3> QED
      BY <1>3, <2>1, <3>1, <3>3 DEF c
  <2> QED
    BY <2>3, <2>4, <2>5
<1>10. job[q] \in {"next", "tags"} \/ ReadRecords(q)
  BY WhoHasRecords
<1> QED
  BY <1>4, <1>5, <1>6, <1>7, <1>8, <1>9, <1>10, RecordsKept

\* The tags of the factory are merged one after another, and written before the next record.
LEMMA HasItsKeysStep ==
  ASSUME FactoryMakesTags, FactoryStable, DeletesAlone, MInv1, MInv1', [MaintenanceNext]_maintenanceVars,
         NEW q \in Proc, OldRecords(q), HasItsKeys(q)
  PROVE  HasItsKeys(q)'
<1> DEFINE InHand(rec, todos) ==
             \A h \in Range(Factory(q, rec)) :
               HasKey(rec.tags, h) \/ \E x \in Range(todos) : KeyOf[x] = KeyOf[h]
           Done == \A n \in DoneBy(q) \ torn : HasAllKeys(q, events[n])
           Held == job[q] = "tags" => InHand(records[q][Current(q)], todo[q])
<1>1. /\ TypeOK /\ MaintenanceTypes /\ Duties /\ (\A p \in Proc : Reads(p))
      /\ events \in [DOMAIN events -> Event] /\ todo \in [Proc -> Seq(Tag)]
      /\ job \in [Proc -> Jobs] /\ records = [p \in Proc |-> records[p]] /\ had = [p \in Proc |-> had[p]]
      /\ events' \in [DOMAIN events' -> Event] /\ Reads(q)'
      /\ job[q] \in {"next", "tags"} => Done /\ Held
  BY DEF MInv1, LogLayer, Inv1, TypeOK, MaintenanceTypes, HasItsKeys
<1>0. MaintenanceTypes
  BY <1>1
<1>2. SUFFICES ASSUME job'[q] \in {"next", "tags"}
               PROVE  (Done /\ Held)'
  BY DEF HasItsKeys
<1>3. ASSUME job[q] \in {"next", "tags"}, NEW n \in DoneBy(q), n \notin torn'
      PROVE  HasAllKeys(q, events'[n])
  <2>1. n \in DOMAIN events /\ n \in DOMAIN events' /\ n \notin torn
    BY <1>1, <1>3, EventsStay DEF Reads, Maintains, DoneBy
  <2>2. Grown(events'[n], events[n]) /\ HasAllKeys(q, events[n])
    BY <1>1, <1>3, <2>1, EventsOnlyGrow
  <2>3. events'[n] \in Event /\ events[n] \in Event
    BY <1>1, <2>1
  <2> QED
    BY <2>2, <2>3, AllKeysStay
<1>4. ASSUME job[q] \in {"next", "tags"}, DOMAIN records'[q] = DOMAIN records[q], had'[q] = had[q]
      PROVE  Done'
  <2>1. DoneBy(q)' = DoneBy(q)
    BY <1>4 DEF DoneBy
  <2> QED
    BY <1>3, <1>4, <2>1
<1> HIDE DEF Done, Held, InHand
<1>5. ASSUME job[q] \in {"next", "tags"}, job'[q] = job[q], records'[q] = records[q], had'[q] = had[q],
             todo'[q] = todo[q]
      PROVE  (Done /\ Held)'
  <2>1. Current(q)' = Current(q)
    BY <1>5 DEF Current
  <2> QED
    BY <1>1, <1>4, <1>5, <2>1 DEF Held
<1>6. ASSUME ReadRecords(q)
      PROVE  (Done /\ Held)'
  <2>1. call[q] = TheRead
    BY <1>1, <1>6 DEF ReadRecords, Duties
  <2> DEFINE S == result'[q].positions
  <2>2. \/ job' = [job EXCEPT ![q] = "none"]
        \/ /\ records' = [records EXCEPT ![q] = [n \in S |-> events[n]]]
           /\ had' = [had EXCEPT ![q] = [n \in S |-> Len(events[n].tags)]]
           /\ job' = [job EXCEPT ![q] = "next"]
    BY <1>1, <1>6, <2>1, ReadRecordsStep
  <2> HIDE DEF S
  <2>3. job'[q] = "next" /\ DOMAIN had'[q] = S /\ DOMAIN records'[q] = S
    BY <1>1, <1>2, <2>2
  <2> QED
    BY <2>3 DEF Done, Held, DoneBy
<1>7. ASSUME NextRecord(q)
      PROVE  (Done /\ Held)'
  <2>1. /\ job[q] = "next" /\ UNCHANGED <<records, had>>
        /\ todo' = [todo EXCEPT ![q] = Factory(q, records[q][Current(q)])]
    BY <1>7 DEF NextRecord
  <2>2. Current(q)' = Current(q) /\ records'[q] = records[q] /\ todo'[q] = Factory(q, records[q][Current(q)])
    BY <1>1, <2>1 DEF Current
  <2>3. Held'
    BY <2>2 DEF Held, InHand
  <2> QED
    BY <1>4, <2>1, <2>3
<1>8. ~EndAddTags(q) /\ ~MaintainerDies(q)
  BY <1>1, <1>2 DEF EndAddTags, MaintainerDies
<1>9. ASSUME NEW failed \in BOOLEAN, RewriteEvent(q, failed)
      PROVE  (Done /\ Held)'
  <2> DEFINE c == Current(q)
  <2>1. job[q] = "tags"
    BY <1>9 DEF RewriteEvent
  <2>2. /\ DOMAIN records[q] # {} /\ c \in DOMAIN records[q] /\ c \in DOMAIN events
        /\ records[q][c] \in Event /\ events[c] \in Event /\ changed[q] \in Nat
    BY <2>1, TheRecordInHand
  <2>3. /\ todo[q] = << >> /\ UNCHANGED had
        /\ records' = [records EXCEPT ![q] = [n \in DOMAIN records[q] \ {c} |-> records[q][n]]]
        /\ job' = [job EXCEPT ![q] = "next"]
        /\ \/ c \in torn'
           \/ changed[q] <= 0 /\ UNCHANGED <<events, torn>>
           \/ WriteRecord(q, records[q][c])
    BY <1>0, <1>9, <2>2, RewriteEventStep
  <2>4. HasAllKeys(q, records[q][c])
    <3>1. Range(todo[q]) = {}
      BY <2>3 DEF Range
    <3> QED
      BY <1>1, <2>1, <3>1 DEF Held, InHand, HasAllKeys
  <2>5. c \notin torn' => HasAllKeys(q, events'[c])
    <3>1. CASE changed[q] <= 0 /\ UNCHANGED <<events, torn>>
      <4>1. changed[q] = 0
        BY <2>2, <3>1
      <4>2. c \notin torn => Grown(events[c], records[q][c])
        BY <2>1, <2>2, <4>1 DEF OldRecords
      <4> QED
        BY <2>2, <2>4, <3>1, <4>2, AllKeysStay
    <3>2. CASE WriteRecord(q, records[q][c])
      <4>1. events'[c] = records[q][c]
        BY <3>2 DEF WriteRecord
      <4> QED
        BY <2>4, <4>1
    <3> QED
      BY <2>3, <3>1, <3>2
  <2> HIDE DEF c
  <2>6. DOMAIN records'[q] = DOMAIN records[q] \ {c} /\ job'[q] = "next"
    BY <1>1, <2>3
  <2>7. DoneBy(q)' \subseteq DoneBy(q) \cup {c}
    BY <2>3, <2>6 DEF DoneBy
  <2> QED
    BY <1>3, <2>1, <2>5, <2>6, <2>7 DEF Done, Held
<1>10. ASSUME NEW failed \in BOOLEAN, MergeTag(q, failed)
       PROVE  (Done /\ Held)'
  <2> DEFINE c == Current(q)
             e == records[q][c]
             g == Head(todo[q])
  <2>1. job[q] = "tags"
    BY <1>10 DEF MergeTag
  <2>2. DOMAIN records[q] # {} /\ c \in DOMAIN records[q] /\ e \in Event
    BY <2>1, TheRecordInHand
  <2>3. /\ todo[q] # << >> /\ g \in Tag /\ UNCHANGED <<job, had>>
        /\ todo' = [todo EXCEPT ![q] = Tail(todo[q])]
        /\ \/ KeyOf[g] \in Keys(e) /\ UNCHANGED records
           \/ /\ Tagged(e, g) \in Event
              /\ records' = [records EXCEPT ![q] = [records[q] EXCEPT ![c] = Tagged(e, g)]]
    BY <1>0, <1>10, <2>2, MergeTagStep
  <2>4. Range(todo[q]) = {g} \cup Range(todo'[q])
    <3>1. todo[q] \in Seq(Tag) /\ todo'[q] = Tail(todo[q])
      BY <1>1, <2>3
    <3> QED
      BY <2>3, <3>1, RangeOfHeadTail
  <2>5. PICK rec \in Event : /\ Grown(rec, e) /\ HasKey(rec.tags, g)
                             /\ DOMAIN records'[q] = DOMAIN records[q] /\ records'[q][c] = rec
    <3>1. CASE KeyOf[g] \in Keys(e) /\ UNCHANGED records
      <4>1. HasKey(e.tags, g) /\ Grown(e, e)
        BY <2>2, <2>3, <3>1, TaggedKeys, GrownItself
      <4> QED
        BY <2>2, <3>1, <4>1
    <3>2. CASE /\ Tagged(e, g) \in Event
               /\ records' = [records EXCEPT ![q] = [records[q] EXCEPT ![c] = Tagged(e, g)]]
      <4>1. HasKey(Tagged(e, g).tags, g) /\ Grown(Tagged(e, g), e)
        BY <2>2, <2>3, TaggedKeys, GrownTagged
      <4>2. DOMAIN records'[q] = DOMAIN records[q] /\ records'[q][c] = Tagged(e, g)
        BY <1>1, <2>2, <3>2
      <4> QED
        BY <3>2, <4>1, <4>2
    <3> QED
      BY <2>3, <3>1, <3>2
  <2>6. Current(q)' = c
    BY <2>5 DEF Current
  <2>7. InHand(e, todo[q])
    BY <1>1, <2>1 DEF Held
  <2> HIDE DEF c, e, g
  <2>8. ASSUME NEW h \in Range(Factory(q, rec))
        PROVE  HasKey(rec.tags, h) \/ \E x \in Range(todo'[q]) : KeyOf[x] = KeyOf[h]
    <3>1. PICK h2 \in Range(Factory(q, e)) : KeyOf[h2] = KeyOf[h]
      BY <2>2, <2>5 DEF FactoryStable
    <3>2. CASE HasKey(e.tags, h2)
      <4>1. HasKey(rec.tags, h2)
        BY <2>2, <2>5, <3>2, GrownKeys
      <4> QED
        BY <3>1, <4>1 DEF HasKey
    <3>3. ASSUME NEW x \in Range(todo[q]), KeyOf[x] = KeyOf[h2]
          PROVE  HasKey(rec.tags, h) \/ \E y \in Range(todo'[q]) : KeyOf[y] = KeyOf[h]
      <4>1. CASE x = g
        BY <2>5, <3>1, <3>3, <4>1 DEF HasKey
      <4>2. CASE x \in Range(todo'[q])
        BY <3>1, <3>3, <4>2
      <4> QED
        BY <2>4, <3>3, <4>1, <4>2
    <3> QED
      BY <2>7, <3>2, <3>3 DEF InHand
  <2>9. Held'
    BY <2>5, <2>6, <2>8 DEF Held, InHand
  <2> QED
    BY <1>4, <2>1, <2>3, <2>5, <2>9
<1>11. job[q] \in {"next", "tags"} \/ ReadRecords(q)
  BY <1>2, WhoHasRecords
<1> QED
  BY <1>5, <1>6, <1>7, <1>8, <1>9, <1>10, <1>11, RecordsKept

\* A key that the tags of an event have, and have once, is the key of one tag.
LEMMA OneTagOfTheKey ==
  ASSUME NEW tags, NEW g, KeysOnceIn(tags), HasKey(tags, g)
  PROVE  Cardinality({i \in DOMAIN tags : KeyOf[tags[i]] = KeyOf[g]}) = 1
<1>1. PICK i \in DOMAIN tags : KeyOf[tags[i]] = KeyOf[g]
  BY DEF HasKey
<1>2. {j \in DOMAIN tags : KeyOf[tags[j]] = KeyOf[g]} = {i}
  BY <1>1 DEF KeysOnceIn
<1> QED
  BY <1>2, FS_Singleton

\* When add_tags returns, every event of the type that was settled when it was called
\* has each key of the factory's tags, and has it once, unless the write of it failed or
\* undid another add_tags: whatever other processes append meanwhile, however often
\* add_tags ran before, and however many of them run.
THEOREM EveryEventIsTagged ==
  ASSUME IndexOperationsSucceed, DeletesAlone, FactoryMakesTags, FactoryStable, KeysDiffer
  PROVE  MaintenanceSpec => []AddTagsComplete
<1>1. ListingsSucceed /\ SafeLock
  BY DEF IndexOperationsSucceed, ListingsSucceed
<1>2. MaintenanceSpec => []MInv1
  BY <1>1, MInv1Always
<1>3. ASSUME MaintenanceInit
      PROVE  Indexed /\ KeysOnce /\ MaintenanceRead /\ FactoryDone
  <2>1. /\ rest = [p \in Proc |-> << >>] /\ DOMAIN events = {} /\ job = [p \in Proc |-> "none"]
    BY <1>3 DEF MaintenanceInit, Init
  <2>2. KeysOnce
    BY <2>1 DEF KeysOnce
  <2>3. MaintenanceRead
    BY <2>1 DEF MaintenanceRead, WantedFound, Maintains
  <2>4. FactoryDone
    BY <2>1 DEF FactoryDone, HasItsKeys, OldRecords
  <2> QED
    BY <1>3, <2>2, <2>3, <2>4, IndexedInit
<1>4. MInv1 /\ Indexed /\ [MaintenanceNext]_maintenanceVars => Indexed'
  BY IndexedStep
<1>5. MInv1 /\ KeysOnce /\ [MaintenanceNext]_maintenanceVars => KeysOnce'
  BY KeysOnceStep
<1>6. MInv1 /\ MInv1' /\ Indexed /\ MaintenanceRead /\ [MaintenanceNext]_maintenanceVars => MaintenanceRead'
  BY WantedFoundStep DEF MaintenanceRead
<1>7. MInv1 /\ MInv1' /\ FactoryDone /\ [MaintenanceNext]_maintenanceVars => FactoryDone'
  BY OldRecordsStep, HasItsKeysStep DEF FactoryDone
<1>8. ASSUME KeysOnce, MaintenanceRead, FactoryDone
      PROVE  AddTagsComplete
  <2> SUFFICES ASSUME NEW p \in Proc, job[p] = "next", DOMAIN records[p] = {},
                      NEW n \in DOMAIN events \ torn, n < floor[p], events[n].type = TaggedType,
                      NEW g \in Range(Factory(p, events[n]))
               PROVE  Cardinality({i \in DOMAIN events[n].tags : KeyOf[events[n].tags[i]] = KeyOf[g]}) = 1
    BY DEF AddTagsComplete
  <2>1. n \in DoneBy(p)
    BY <1>8 DEF MaintenanceRead, WantedFound, Wanted, DoneBy
  <2>2. HasKey(events[n].tags, g)
    BY <1>8, <2>1 DEF FactoryDone, HasItsKeys, HasAllKeys
  <2>3. KeysOnceIn(events[n].tags)
    BY <1>8 DEF KeysOnce
  <2> QED
    BY <2>2, <2>3, OneTagOfTheKey
<1> QED
  BY <1>2, <1>3, <1>4, <1>5, <1>6, <1>7, <1>8, PTL DEF MaintenanceSpec
=============================================================================
