--------------------------- MODULE EventStoreProofs ---------------------------
(***************************************************************************)
(* Proofs about EventStore for any callers, calls, index files and bounds. *)
(*                                                                         *)
(* The argument has two layers.  Inv1 is lock-free: the event files are an *)
(* interval from 0 and nobody's `sequence` is beyond its end, whatever     *)
(* fails.  Inv2 adds what the lock is for: at most one process is between  *)
(* scan and release, and until it writes, its `sequence` is exactly the    *)
(* end of the interval.  Inv2 needs a directory listing that never fails.  *)
(* The second half is about the indices and the conditions of appends.     *)
(***************************************************************************)
EXTENDS EventStore, TLAPS, FiniteSetTheorems, SequenceTheorems

\* The end of the log: the position the next event should get.
End == NextPosition(DOMAIN events)

-----------------------------------------------------------------------------
(* Lemmas about the operators *)

\* The position computed from the names in a directory without a gap.
LEMMA NextPositionOfInterval ==
  ASSUME NEW k \in Nat
  PROVE  NextPosition(0 .. k - 1) = k
<1>1. CASE k = 0
  <2>1. 0 .. k - 1 = {}
    BY <1>1
  <2> QED
    BY <1>1, <2>1 DEF NextPosition
<1>2. CASE k # 0
  <2>1. k - 1 \in 0 .. k - 1 /\ \A y \in 0 .. k - 1 : k - 1 >= y
    BY <1>2
  <2>2. \A x \in 0 .. k - 1 : (\A y \in 0 .. k - 1 : x >= y) => x = k - 1
    BY <1>2
  <2>3. Max(0 .. k - 1) = k - 1
    BY <2>1, <2>2 DEF Max
  <2> QED
    BY <1>2, <2>1, <2>3 DEF NextPosition
<1> QED
  BY <1>1, <1>2

\* Mapping a sequence through a function gives a sequence of its values.
LEMMA MapSeq ==
  ASSUME NEW S, NEW T, NEW g \in [S -> T], NEW s \in Seq(S)
  PROVE  /\ [i \in DOMAIN s |-> g[s[i]]] \in Seq(T)
         /\ Len([i \in DOMAIN s |-> g[s[i]]]) = Len(s)
<1>1. Len(s) \in Nat /\ DOMAIN s = 1 .. Len(s) /\ \A i \in DOMAIN s : s[i] \in S
  BY LenProperties, ElementOfSeq
<1>2. [i \in DOMAIN s |-> g[s[i]]] \in [1 .. Len(s) -> T]
  BY <1>1
<1>3. [i \in DOMAIN s |-> g[s[i]]] \in Seq(T)
  BY <1>1, <1>2, SeqDef
<1> QED
  BY <1>1, <1>2, <1>3, LenProperties

\* The files of a list of types and tags are index files.
LEMMA IndexFilesType ==
  ASSUME NEW types \in Seq(Type), NEW tags \in Seq(Tag)
  PROVE  /\ IndexFiles(types, tags) \in Seq(IndexFile)
         /\ Len(IndexFiles(types, tags)) = Len(types) + Len(tags)
<1> DEFINE ofTypes == [i \in DOMAIN types |-> TypeFile[types[i]]]
           ofTags == [i \in DOMAIN tags |-> TagFile[tags[i]]]
<1>1. TypeFile \in [Type -> IndexFile] /\ TagFile \in [Tag -> IndexFile]
  BY FilesAssumption
<1>2. ofTypes \in Seq(IndexFile) /\ Len(ofTypes) = Len(types)
  BY SMTT(30), <1>1, MapSeq
<1>3. ofTags \in Seq(IndexFile) /\ Len(ofTags) = Len(tags)
  BY <1>1, MapSeq
<1>4. IndexFiles(types, tags) = ofTypes \o ofTags
  BY DEF IndexFiles, TypeFiles, TagFiles
<1> HIDE DEF ofTypes, ofTags
<1>5. ofTypes \o ofTags \in Seq(IndexFile) /\ Len(ofTypes \o ofTags) = Len(ofTypes) + Len(ofTags)
  BY <1>2, <1>3, ConcatProperties
<1> QED
  BY <1>2, <1>3, <1>4, <1>5

LEMMA FilesOfType ==
  ASSUME NEW e \in Event
  PROVE  FilesOf(e) \in Seq(IndexFile)
<1>1. <<e.type>> \in Seq(Type) /\ e.tags \in Seq(Tag)
  BY DEF Event
<1> QED
  BY <1>1, IndexFilesType DEF FilesOf

LEMMA FilesReadType ==
  ASSUME NEW it \in QueryItem
  PROVE  FilesRead(it) \in Seq(IndexFile)
<1>1. it.types \in Seq(Type) /\ it.tags \in Seq(Tag)
  BY DEF QueryItem
<1> QED
  BY <1>1, IndexFilesType DEF FilesRead

\* What an item selects was listed by some file.
LEMMA ItemPositionsType ==
  ASSUME NEW it, NEW s \in Seq(SUBSET Nat)
  PROVE  ItemPositions(it, s) \subseteq Nat
<1>1. \A i \in DOMAIN s : s[i] \subseteq Nat
  BY LenProperties, ElementOfSeq
<1> QED
  BY <1>1 DEF ItemPositions, Range

\* A read returns positions it has resolved, and none else.
LEMMA ReturnedSubset ==
  ASSUME NEW stored, NEW q, NEW positions, NEW max, NEW desc
  PROVE  Returned(stored, q, positions, max, desc) \subseteq positions
<1>1. \A S, k, d : FirstOf(S, k, d) \subseteq S
  BY DEF FirstOf
<1>2. Truncated(q, positions, max, desc) \subseteq positions
  BY <1>1 DEF Truncated
<1> QED
  BY <1>1, <1>2 DEF Returned

-----------------------------------------------------------------------------
(* First layer: types and gaps *)

\* Nobody is about to write beyond the end of the log, and an event whose
\* index files are being updated is in the log.
SeqInRange ==
  \A p \in Proc :
    /\ Appending(p) /\ pc[p] \notin {"scan", "release"} => seq[p] <= End
    /\ pc[p] = "index" => seq[p] < End /\ rest[p] # << >>

\* The lock excludes: it is never broken, or no holder takes long enough to lose it and,
\* if processes die, there are two of them at most.  With a third process the first of two
\* that wait can lose its new lock to the second, see NodeLock.
SafeLock ==
  \/ ~BreaksStaleLocks
  \/ /\ FastHolders
     /\ "crash" \notin FaultKinds \/ \A p, q, r \in Proc : p = q \/ q = r \/ p = r

\* Who removes the lock of a dead process is the only one left.
UnlinkAlone ==
  /\ \A p \in Proc : pc[p] = "crashed" => "crash" \in FaultKinds
  /\ SafeLock => \A p, q \in Proc : pc[p] = "unlink" /\ q # p => pc[q] = "crashed"

Inv1 == TypeOK /\ End \in Nat /\ GapFree /\ SeqInRange /\ UnlinkAlone

LEMMA Inv1Init == Init => Inv1
<1> SUFFICES ASSUME Init PROVE Inv1
  OBVIOUS
<1>1. DOMAIN events = {} /\ NextPosition(DOMAIN events) = 0 /\ IsFiniteSet(DOMAIN events)
  BY FS_EmptySet DEF Init, NextPosition
<1>2. ReadCall(All, None, None, FALSE) \in Call
  BY DEF ReadCall, Call, All, Query
<1>3. TypeOK
  <2>1. events \in [DOMAIN events -> Event]
    BY <1>1 DEF Init
  <2>2. \A S : << >> \in Seq(S)
    BY EmptySeq
  <2>3. /\ index \in [IndexFile -> SUBSET Nat]
        /\ lock \in Proc \cup {Free, Orphan}
        /\ pc \in [Proc -> Labels]
        /\ call \in [Proc -> Call]
        /\ seq \in [Proc -> Nat]
    BY <1>2 DEF Init, Labels
  <2>4. /\ rest \in [Proc -> Seq(Event)]
        /\ pend \in [Proc -> Seq(IndexFile)]
        /\ seen \in [Proc -> Seq(SUBSET Nat)]
    BY <2>2 DEF Init
  <2>5. /\ item \in [Proc -> Nat]
        /\ found \in [Proc -> SUBSET Nat]
        /\ result \in [Proc -> [status : Statuses, positions : SUBSET Nat]]
        /\ floor \in [Proc -> Nat]
        /\ calls \in Nat /\ faults \in Nat
    BY DEF Init, Statuses
  <2> QED
    BY <1>1, <2>1, <2>3, <2>4, <2>5 DEF TypeOK
<1>4. GapFree
  BY <1>1 DEF GapFree
<1>5. SeqInRange
  BY <1>1 DEF SeqInRange, End, Init
<1>6. UnlinkAlone
  BY DEF Init, UnlinkAlone
<1> QED
  BY <1>1, <1>3, <1>4, <1>5, <1>6 DEF Inv1, End

\* The end of the log is a position, and the settled events can be counted.
LEMMA LogFacts ==
  ASSUME Inv1
  PROVE  /\ End \in Nat
         /\ DOMAIN events = 0 .. End - 1
         /\ Cardinality(Settled) \in Nat
<1>1. End \in Nat
  BY DEF Inv1
<1>2. DOMAIN events = 0 .. End - 1
  BY DEF Inv1, GapFree, End
<1>3. Settled \in SUBSET DOMAIN events /\ IsFiniteSet(DOMAIN events)
  BY DEF Inv1, TypeOK, Settled
<1> QED
  BY <1>1, <1>2, <1>3, FS_Subset, FS_CardinalityType

\* The event files after a write at the end of the log or before it.
LEMMA WriteEventLog ==
  ASSUME Inv1, NEW p \in Proc, WriteEvent(p)
  PROVE  /\ End' \in Nat /\ End <= End' /\ seq[p] < End'
         /\ End' = IF seq[p] = End THEN End + 1 ELSE End
         /\ DOMAIN events' = 0 .. End' - 1
         /\ events' \in [DOMAIN events' -> Event]
         /\ IsFiniteSet(DOMAIN events')
<1> DEFINE k == IF seq[p] = End THEN End + 1 ELSE End
<1>1. End \in Nat /\ DOMAIN events = 0 .. End - 1
  BY LogFacts
<1>2. seq[p] \in Nat /\ seq[p] <= End
  BY DEF Inv1, TypeOK, SeqInRange, WriteEvent, Appending
<1>3. DOMAIN events' = DOMAIN events \cup {seq[p]}
  BY DEF WriteEvent
<1>4. k \in Nat /\ DOMAIN events' = 0 .. k - 1
  BY <1>1, <1>2, <1>3
<1>5. End' = k
  BY <1>4, NextPositionOfInterval DEF End
<1>6. rest[p] \in Seq(Event) /\ rest[p] # << >>
  BY DEF WriteEvent, Inv1, TypeOK
<1>7. Head(rest[p]) \in Event
  BY <1>6, HeadTailProperties
<1>8. events' \in [DOMAIN events' -> Event]
  BY <1>3, <1>7 DEF WriteEvent, Inv1, TypeOK
<1>9. IsFiniteSet(DOMAIN events')
  <2>1. IsFiniteSet(DOMAIN events)
    BY DEF Inv1, TypeOK
  <2>2. IsFiniteSet(DOMAIN events \cup {seq[p]})
    BY <2>1, FS_AddElement
  <2> QED
    BY <1>3, <2>2
<1> QED
  BY <1>1, <1>2, <1>4, <1>5, <1>8, <1>9

\* A read that has resolved its positions has resolved natural numbers.
LEMMA FromStartType ==
  ASSUME NEW S \in SUBSET Nat, NEW after
  PROVE  FromStart(S, after) \subseteq Nat
BY DEF FromStart


-----------------------------------------------------------------------------
(* Types, by groups of variables that the same actions change *)

StoreTypes ==
  /\ DOMAIN events \subseteq Nat /\ IsFiniteSet(DOMAIN events)
  /\ events \in [DOMAIN events -> Event]
  /\ index \in [IndexFile -> SUBSET Nat]
  /\ lock \in Proc \cup {Free, Orphan}

CallTypes ==
  /\ pc \in [Proc -> Labels]
  /\ call \in [Proc -> Call]
  /\ result \in [Proc -> [status : Statuses, positions : SUBSET Nat]]
  /\ floor \in [Proc -> Nat]
  /\ calls \in Nat /\ faults \in Nat

WriterTypes ==
  /\ seq \in [Proc -> Nat]
  /\ rest \in [Proc -> Seq(Event)]
  /\ pend \in [Proc -> Seq(IndexFile)]

ReaderTypes ==
  /\ item \in [Proc -> Nat]
  /\ seen \in [Proc -> Seq(SUBSET Nat)]
  /\ found \in [Proc -> SUBSET Nat]

\* What each step leaves alone.
LEMMA WhoChangesTheReader ==
  ASSUME [Next]_vars
  PROVE  \/ UNCHANGED <<item, seen, found>>
         \/ \E p \in Proc : \/ \E c \in Calls : Invoke(p, c)
                            \/ \E failed \in BOOLEAN : ListEvents(p, failed) \/ ReadIndex(p, failed)
                            \/ ResolveItem(p)
<1>1. \A p \in Proc : AcquireLock(p) => UNCHANGED <<item, seen, found>>
  BY DEF AcquireLock, resolving
<1>2. \A p \in Proc : WriteEvent(p) => UNCHANGED <<item, seen, found>>
  BY DEF WriteEvent, resolving
<1>3. \A p \in Proc : IndexLockFails(p) => UNCHANGED <<item, seen, found>>
  BY DEF IndexLockFails, resolving
<1>4. \A p \in Proc : NextEvent(p) => UNCHANGED <<item, seen, found>>
  BY DEF NextEvent, resolving
<1>5. \A p \in Proc : FinishBatch(p) => UNCHANGED <<item, seen, found>>
  BY DEF FinishBatch, resolving
<1>6. \A p \in Proc : ReleaseLock(p) => UNCHANGED <<item, seen, found>>
  BY DEF ReleaseLock, resolving
<1>7. \A p \in Proc : EventWriteFails(p) => UNCHANGED <<item, seen, found>>
  BY DEF EventWriteFails, resolving
<1>8. \A p \in Proc : IndexWriteFails(p) => UNCHANGED <<item, seen, found>>
  BY DEF IndexWriteFails, resolving
<1>9. \A p \in Proc : Crash(p) \/ CrashUnstamped(p) => UNCHANGED <<item, seen, found>>
  BY DEF Crash, CrashUnstamped, resolving
<1>10. \A p \in Proc : JudgeLock(p) \/ BreakLock(p) => UNCHANGED <<item, seen, found>>
  BY DEF JudgeLock, BreakLock, resolving
<1>11. \A p \in Proc, failed \in BOOLEAN : ScanEvents(p, failed) => UNCHANGED <<item, seen, found>>
  BY DEF ScanEvents, resolving
<1>12. \A p \in Proc, failed \in BOOLEAN : LoadEvents(p, failed) => UNCHANGED <<item, seen, found>>
  BY DEF LoadEvents, resolving
<1>13. \A p \in Proc, failed \in BOOLEAN : UpdateIndex(p, failed) => UNCHANGED <<item, seen, found>>
  BY DEF UpdateIndex, resolving
<1>14. UNCHANGED vars => UNCHANGED <<item, seen, found>>
  BY DEF vars, resolving
<1> QED
  BY <1>1, <1>2, <1>3, <1>4, <1>5, <1>6, <1>7, <1>8, <1>9, <1>10, <1>11, <1>12, <1>13, <1>14 DEF Next, Step, Quiet

LEMMA WhoChangesTheWriter ==
  ASSUME [Next]_vars
  PROVE  \/ UNCHANGED <<seq, rest, pend>>
         \/ \E p \in Proc : \/ \E c \in Calls : Invoke(p, c)
                            \/ \E failed \in BOOLEAN : ScanEvents(p, failed) \/ UpdateIndex(p, failed)
                            \/ WriteEvent(p) \/ NextEvent(p) \/ IndexWriteFails(p)
<1>1. \A p \in Proc : AcquireLock(p) => UNCHANGED <<seq, rest, pend>>
  BY DEF AcquireLock
<1>2. \A p \in Proc : ResolveItem(p) => UNCHANGED <<seq, rest, pend>>
  BY DEF ResolveItem
<1>3. \A p \in Proc : IndexLockFails(p) => UNCHANGED <<seq, rest, pend>>
  BY DEF IndexLockFails
<1>4. \A p \in Proc : FinishBatch(p) => UNCHANGED <<seq, rest, pend>>
  BY DEF FinishBatch
<1>5. \A p \in Proc : ReleaseLock(p) => UNCHANGED <<seq, rest, pend>>
  BY DEF ReleaseLock
<1>6. \A p \in Proc : EventWriteFails(p) => UNCHANGED <<seq, rest, pend>>
  BY DEF EventWriteFails
<1>7. \A p \in Proc : Crash(p) \/ CrashUnstamped(p) => UNCHANGED <<seq, rest, pend>>
  BY DEF Crash, CrashUnstamped
<1>8. \A p \in Proc : JudgeLock(p) \/ BreakLock(p) => UNCHANGED <<seq, rest, pend>>
  BY DEF JudgeLock, BreakLock
<1>9. \A p \in Proc, failed \in BOOLEAN : ListEvents(p, failed) => UNCHANGED <<seq, rest, pend>>
  BY DEF ListEvents
<1>10. \A p \in Proc, failed \in BOOLEAN : ReadIndex(p, failed) => UNCHANGED <<seq, rest, pend>>
  BY DEF ReadIndex
<1>11. \A p \in Proc, failed \in BOOLEAN : LoadEvents(p, failed) => UNCHANGED <<seq, rest, pend>>
  BY DEF LoadEvents
<1>12. UNCHANGED vars => UNCHANGED <<seq, rest, pend>>
  BY DEF vars
<1> QED
  BY <1>1, <1>2, <1>3, <1>4, <1>5, <1>6, <1>7, <1>8, <1>9, <1>10, <1>11, <1>12 DEF Next, Step, Quiet

LEMMA WhoChangesTheStore ==
  ASSUME [Next]_vars
  PROVE  \/ UNCHANGED <<events, index, lock>>
         \/ \E p \in Proc : \/ AcquireLock(p) \/ WriteEvent(p) \/ ReleaseLock(p) \/ BreakLock(p)
                            \/ CrashUnstamped(p)
                            \/ \E failed \in BOOLEAN : UpdateIndex(p, failed)
<1>1. \A p \in Proc : ResolveItem(p) => UNCHANGED <<events, index, lock>>
  BY DEF ResolveItem, store
<1>2. \A p \in Proc : IndexLockFails(p) => UNCHANGED <<events, index, lock>>
  BY DEF IndexLockFails, store
<1>3. \A p \in Proc : NextEvent(p) => UNCHANGED <<events, index, lock>>
  BY DEF NextEvent, store
<1>4. \A p \in Proc : FinishBatch(p) => UNCHANGED <<events, index, lock>>
  BY DEF FinishBatch, store
<1>5. \A p \in Proc : EventWriteFails(p) => UNCHANGED <<events, index, lock>>
  BY DEF EventWriteFails, store
<1>6. \A p \in Proc : IndexWriteFails(p) => UNCHANGED <<events, index, lock>>
  BY DEF IndexWriteFails, store
<1>7. \A p \in Proc : Crash(p) \/ JudgeLock(p) => UNCHANGED <<events, index, lock>>
  BY DEF Crash, JudgeLock, store
<1>8. \A p \in Proc, failed \in BOOLEAN : ScanEvents(p, failed) => UNCHANGED <<events, index, lock>>
  BY DEF ScanEvents, store
<1>9. \A p \in Proc, failed \in BOOLEAN : ListEvents(p, failed) => UNCHANGED <<events, index, lock>>
  BY DEF ListEvents, store
<1>10. \A p \in Proc, failed \in BOOLEAN : ReadIndex(p, failed) => UNCHANGED <<events, index, lock>>
  BY DEF ReadIndex, store
<1>11. \A p \in Proc, failed \in BOOLEAN : LoadEvents(p, failed) => UNCHANGED <<events, index, lock>>
  BY DEF LoadEvents, store
<1>12. \A p \in Proc, c \in Calls : Invoke(p, c) => UNCHANGED <<events, index, lock>>
  BY DEF Invoke, store
<1>13. UNCHANGED vars => UNCHANGED <<events, index, lock>>
  BY DEF vars, store
<1> QED
  BY <1>1, <1>2, <1>3, <1>4, <1>5, <1>6, <1>7, <1>8, <1>9, <1>10, <1>11, <1>12, <1>13 DEF Next, Step, Quiet

-----------------------------------------------------------------------------
(* The first layer is inductive *)

LEMMA StoreTypesStep ==
  ASSUME Inv1, [Next]_vars
  PROVE  StoreTypes'
<1> USE DEF Inv1, TypeOK, StoreTypes
<1>1. ASSUME UNCHANGED <<events, index, lock>>
      PROVE  StoreTypes'
  BY <1>1
<1>2. ASSUME NEW p \in Proc,
             AcquireLock(p) \/ ReleaseLock(p) \/ BreakLock(p) \/ CrashUnstamped(p)
      PROVE  StoreTypes'
  BY <1>2 DEF AcquireLock, ReleaseLock, BreakLock, CrashUnstamped
<1>3. ASSUME NEW p \in Proc, WriteEvent(p)
      PROVE  StoreTypes'
  <2>1. /\ DOMAIN events' \subseteq Nat /\ IsFiniteSet(DOMAIN events')
        /\ events' \in [DOMAIN events' -> Event]
    <3> HIDE DEF Inv1, TypeOK
    <3> QED
      BY <1>3, WriteEventLog
  <2> QED
    BY <1>3, <2>1 DEF WriteEvent
<1>4. ASSUME NEW p \in Proc, NEW failed \in BOOLEAN, UpdateIndex(p, failed)
      PROVE  StoreTypes'
  <2>1. events' = events /\ lock' = lock
    BY <1>4 DEF UpdateIndex
  <2>2. index' \in [IndexFile -> SUBSET Nat]
    BY SMTT(30), <1>4 DEF UpdateIndex
  <2> QED
    BY <2>1, <2>2
<1> QED
  BY <1>1, <1>2, <1>3, <1>4, WhoChangesTheStore

LEMMA CallTypesStep ==
  ASSUME Inv1, [Next]_vars
  PROVE  CallTypes'
<1> USE DEF CallTypes, Go, Finish, Labels, Statuses
<1> CallTypes
  BY DEF Inv1, TypeOK
<1>1. ASSUME NEW p \in Proc, NEW c \in Calls, Invoke(p, c)
      PROVE  CallTypes'
  <2>1. c \in Call
    BY ConstantsAssumption
  <2>2. Cardinality(Settled) \in Nat
    BY LogFacts
  <2> QED
    BY <1>1, <2>1, <2>2 DEF Invoke
<1>2. \A p \in Proc : AcquireLock(p) => CallTypes'
  BY DEF AcquireLock
<1>3. \A p \in Proc, failed \in BOOLEAN : ScanEvents(p, failed) => CallTypes'
  BY DEF ScanEvents, Storage
<1>4. \A p \in Proc, failed \in BOOLEAN : ListEvents(p, failed) => CallTypes'
  BY DEF ListEvents, Storage
<1>5. \A p \in Proc, failed \in BOOLEAN : ReadIndex(p, failed) => CallTypes'
  BY DEF ReadIndex, Storage
<1>6. \A p \in Proc : ResolveItem(p) => CallTypes'
  BY DEF ResolveItem
<1>7. ASSUME NEW p \in Proc, NEW failed \in BOOLEAN, LoadEvents(p, failed)
      PROVE  CallTypes'
  <2>1. Returned(events, call[p].query, found[p], call[p].max, call[p].desc) \in SUBSET Nat
    BY ReturnedSubset DEF Inv1, TypeOK
  <2> QED
    BY <1>7, <2>1 DEF LoadEvents, Storage
<1>8. \A p \in Proc : WriteEvent(p) => CallTypes'
  BY DEF WriteEvent
<1>9. \A p \in Proc, failed \in BOOLEAN : UpdateIndex(p, failed) => CallTypes'
  BY DEF UpdateIndex, Storage
<1>10. \A p \in Proc : IndexLockFails(p) => CallTypes'
  BY DEF IndexLockFails, Storage
<1>11. \A p \in Proc : NextEvent(p) => CallTypes'
  BY DEF NextEvent
<1>12. \A p \in Proc : FinishBatch(p) => CallTypes'
  BY DEF FinishBatch
<1>13. \A p \in Proc : ReleaseLock(p) => CallTypes'
  BY DEF ReleaseLock
<1>14. \A p \in Proc : EventWriteFails(p) => CallTypes'
  BY DEF EventWriteFails, Storage
<1>15. \A p \in Proc : IndexWriteFails(p) => CallTypes'
  BY DEF IndexWriteFails, Storage
<1>16. \A p \in Proc : Crash(p) \/ CrashUnstamped(p) => CallTypes'
  BY DEF Crash, CrashUnstamped, Storage
<1>17. \A p \in Proc : JudgeLock(p) \/ BreakLock(p) => CallTypes'
  BY DEF JudgeLock, BreakLock
<1>18. UNCHANGED vars => CallTypes'
  BY DEF vars
<1> QED
  BY <1>1, <1>2, <1>3, <1>4, <1>5, <1>6, <1>7, <1>8, <1>9, <1>10, <1>11, <1>12,
     <1>13, <1>14, <1>15, <1>16, <1>17, <1>18 DEF Next, Step, Quiet

LEMMA WriterTypesStep ==
  ASSUME Inv1, [Next]_vars
  PROVE  WriterTypes'
<1> USE DEF Inv1, TypeOK, WriterTypes
<1>1. ASSUME UNCHANGED <<seq, rest, pend>>
      PROVE  WriterTypes'
  BY <1>1
<1>2. ASSUME NEW p \in Proc, NEW c \in Calls, Invoke(p, c)
      PROVE  WriterTypes'
  <2>1. c.batch \in Seq(Event)
    BY ConstantsAssumption DEF Call
  <2> QED
    BY <1>2, <2>1 DEF Invoke
<1>3. ASSUME NEW p \in Proc, NEW failed \in BOOLEAN, ScanEvents(p, failed)
      PROVE  WriterTypes'
  <2>1. NextPosition(DOMAIN events) \in Nat
    BY DEF End
  <2> QED
    BY <1>3, <2>1 DEF ScanEvents
<1>4. ASSUME NEW p \in Proc, WriteEvent(p)
      PROVE  WriterTypes'
  <2>1. rest[p] \in Seq(Event) /\ rest[p] # << >>
    BY <1>4 DEF WriteEvent
  <2>2. FilesOf(Head(rest[p])) \in Seq(IndexFile)
    BY <2>1, HeadTailProperties, FilesOfType
  <2> QED
    BY <1>4, <2>2 DEF WriteEvent
<1>5. ASSUME NEW p \in Proc,
             IndexWriteFails(p) \/ \E failed \in BOOLEAN : UpdateIndex(p, failed)
      PROVE  WriterTypes'
  <2>1. pend[p] \in Seq(IndexFile) /\ pend[p] # << >>
    BY <1>5 DEF UpdateIndex, IndexWriteFails
  <2>2. Tail(pend[p]) \in Seq(IndexFile)
    BY <2>1, HeadTailProperties
  <2>3. pend' = [pend EXCEPT ![p] = Tail(pend[p])] /\ UNCHANGED <<seq, rest>>
    BY <1>5 DEF UpdateIndex, IndexWriteFails
  <2> QED
    BY <2>2, <2>3
<1>6. ASSUME NEW p \in Proc, NextEvent(p)
      PROVE  WriterTypes'
  <2>1. rest[p] \in Seq(Event) /\ rest[p] # << >>
    BY <1>6 DEF NextEvent, SeqInRange
  <2>2. Tail(rest[p]) \in Seq(Event)
    BY <2>1, HeadTailProperties
  <2> QED
    BY <1>6, <2>2 DEF NextEvent
<1> QED
  BY <1>1, <1>2, <1>3, <1>4, <1>5, <1>6, WhoChangesTheWriter

LEMMA ReaderTypesStep ==
  ASSUME Inv1, [Next]_vars
  PROVE  ReaderTypes'
<1> USE DEF Inv1, TypeOK, ReaderTypes
<1>1. ASSUME UNCHANGED <<item, seen, found>>
      PROVE  ReaderTypes'
  BY <1>1
<1>2. ASSUME NEW p \in Proc, NEW c \in Calls, Invoke(p, c)
      PROVE  ReaderTypes'
  <2>1. << >> \in Seq(SUBSET Nat)
    BY EmptySeq
  <2> QED
    BY <1>2, <2>1 DEF Invoke
<1>3. ASSUME NEW p \in Proc, NEW failed \in BOOLEAN, ListEvents(p, failed)
      PROVE  ReaderTypes'
  <2>1. FromStart(DOMAIN events, call[p].after) \in SUBSET Nat
    BY FromStartType
  <2> QED
    BY <1>3, <2>1 DEF ListEvents
<1>4. ASSUME NEW p \in Proc, NEW failed \in BOOLEAN, ReadIndex(p, failed)
      PROVE  ReaderTypes'
  <2> DEFINE files == FilesRead(call[p].query[item[p]])
             held == IF failed THEN {} ELSE index[files[Len(seen[p]) + 1]]
  <2>1. call[p].query \in Seq(QueryItem) /\ item[p] \in DOMAIN call[p].query
    BY <1>4 DEF ReadIndex, Call, Query
  <2>2. call[p].query[item[p]] \in QueryItem
    BY <2>1, LenProperties, ElementOfSeq
  <2>3. files \in Seq(IndexFile)
    BY <2>2, FilesReadType
  <2>4. Len(seen[p]) < Len(files) /\ Len(seen[p]) \in Nat /\ Len(files) \in Nat
    BY <1>4, <2>3, LenProperties DEF ReadIndex
  <2>5. files[Len(seen[p]) + 1] \in IndexFile
    BY <2>3, <2>4, ElementOfSeq
  <2>6. held \in SUBSET Nat
    BY <2>5
  <2>7. seen' = [seen EXCEPT ![p] = Append(seen[p], held)] /\ UNCHANGED <<item, found>>
    BY <1>4 DEF ReadIndex
  <2>8. seen[p] \in Seq(SUBSET Nat)
    OBVIOUS
  <2> HIDE DEF held
  <2>9. Append(seen[p], held) \in Seq(SUBSET Nat)
    BY <2>6, <2>8, AppendProperties
  <2> QED
    BY <2>7, <2>9
<1>5. ASSUME NEW p \in Proc, ResolveItem(p)
      PROVE  ReaderTypes'
  <2> DEFINE all == found[p] \cup ItemPositions(call[p].query[item[p]], seen[p])
  <2>1. all \in SUBSET Nat
    BY ItemPositionsType
  <2>2. FromStart(all, call[p].after) \in SUBSET Nat
    BY <2>1, FromStartType
  <2>3. found'[p] \in SUBSET Nat /\ found' \in [Proc -> SUBSET Nat]
    BY <1>5, <2>1, <2>2 DEF ResolveItem
  <2>4. << >> \in Seq(SUBSET Nat)
    BY EmptySeq
  <2>5. seen' \in [Proc -> Seq(SUBSET Nat)]
    BY <1>5, <2>4 DEF ResolveItem
  <2>6. item' \in [Proc -> Nat]
    BY <1>5 DEF ResolveItem
  <2> QED
    BY <2>3, <2>5, <2>6
<1> QED
  BY <1>1, <1>2, <1>3, <1>4, <1>5, WhoChangesTheReader

\* Positions stay below the end: only WriteEvent moves the end, by one, and
\* only NextEvent moves a `sequence` that is not just computed, past an event
\* that is there.
LEMMA RangeStep ==
  ASSUME Inv1, [Next]_vars
  PROVE  (End \in Nat /\ GapFree /\ SeqInRange)'
<1>1. /\ End \in Nat /\ DOMAIN events = 0 .. End - 1 /\ SeqInRange
      /\ seq \in [Proc -> Nat] /\ pc \in [Proc -> Labels] /\ rest \in [Proc -> Seq(Event)]
      /\ call \in [Proc -> Call]
  BY LogFacts DEF Inv1, TypeOK
<1> USE DEF SeqInRange, Appending, Go
<1>2. ASSUME NEW p \in Proc, WriteEvent(p)
      PROVE  (End \in Nat /\ GapFree /\ SeqInRange)'
  <2>1. /\ End' \in Nat /\ End <= End' /\ seq[p] < End' /\ DOMAIN events' = 0 .. End' - 1
    BY <1>2, WriteEventLog
  <2>2. pc' = [pc EXCEPT ![p] = "index"] /\ UNCHANGED <<seq, rest, call>> /\ rest[p] # << >>
    BY <1>2 DEF WriteEvent
  <2>3. SeqInRange'
    BY <1>1, <2>1, <2>2
  <2> QED
    BY <2>1, <2>3 DEF GapFree, End
<1>3. ASSUME events' = events, SeqInRange'
      PROVE  (End \in Nat /\ GapFree /\ SeqInRange)'
  BY <1>1, <1>3 DEF Inv1, GapFree, End
<1>4. ASSUME NEW p \in Proc, NEW c \in Calls, Invoke(p, c)
      PROVE  SeqInRange' /\ events' = events
  <2>1. /\ events' = events /\ seq' = seq /\ End' = End
        /\ call' = [call EXCEPT ![p] = c] /\ rest' = [rest EXCEPT ![p] = c.batch]
        /\ pc' = [pc EXCEPT ![p] = IF c.op = "read" THEN "resolve" ELSE "acquire"]
    BY <1>4 DEF Invoke, store, End
  <2> QED
    BY <1>1, <2>1
<1>5. ASSUME NEW p \in Proc, NEW failed \in BOOLEAN, ScanEvents(p, failed)
      PROVE  SeqInRange' /\ events' = events
  <2>1. /\ events' = events /\ End' = End /\ UNCHANGED <<call, rest>>
        /\ seq' = [seq EXCEPT ![p] = IF failed THEN 0 ELSE End]
        /\ pc' = [pc EXCEPT ![p] = IF call[p].op = "append_if" THEN "resolve" ELSE "write"]
    BY <1>5 DEF ScanEvents, store, End
  <2> QED
    BY <1>1, <2>1
<1>6. ASSUME NEW p \in Proc, NextEvent(p)
      PROVE  SeqInRange' /\ events' = events
  <2>1. /\ events' = events /\ End' = End /\ pc[p] = "index" /\ call' = call
        /\ seq' = [seq EXCEPT ![p] = seq[p] + 1] /\ rest' = [rest EXCEPT ![p] = Tail(rest[p])]
        /\ pc' = [pc EXCEPT ![p] = "write"]
    BY <1>6 DEF NextEvent, store, End
  <2>2. \A a, b \in Nat : a < b => a + 1 <= b
    OBVIOUS
  <2> QED
    BY <1>1, <2>1, <2>2
<1>7. ASSUME UNCHANGED <<events, call, seq, rest>>, NEW p \in Proc, NEW label, Go(p, label),
             \/ label \notin {"resolve", "load", "write", "index"}
             \/ label \in {"resolve", "load"} /\ pc[p] \in {"resolve", "load"}
      PROVE  SeqInRange' /\ events' = events
  <2>1. End' = End
    BY <1>7 DEF End
  <2> QED
    BY <1>1, <1>7, <2>1
<1>8. ASSUME UNCHANGED <<events, call, seq, rest, pc>>
      PROVE  SeqInRange' /\ events' = events
  <2>1. End' = End
    BY <1>8 DEF End
  <2> QED
    BY <1>1, <1>8, <2>1
<1> HIDE DEF SeqInRange, Appending
<1>9. ASSUME NEW p \in Proc, NEW failed \in BOOLEAN, LoadEvents(p, failed)
      PROVE  SeqInRange' /\ events' = events
  <2>1. UNCHANGED <<events, call, seq, rest>> /\ pc[p] = "load"
    BY <1>9 DEF LoadEvents, store
  <2>2. \/ Go(p, "idle") \/ Go(p, "release")
        \/ call[p].op # "read" /\ Go(p, "write")
    BY <1>9 DEF LoadEvents
  <2>3. End' = End
    BY <2>1 DEF End
  <2> QED
    BY <1>1, <2>1, <2>2, <2>3 DEF SeqInRange, Appending
<1> USE DEF store
<1>10. ASSUME NEW p \in Proc,
              \/ AcquireLock(p) \/ ReleaseLock(p) \/ JudgeLock(p) \/ BreakLock(p)
              \/ Crash(p) \/ CrashUnstamped(p)
       PROVE  SeqInRange' /\ events' = events
  BY <1>7, <1>10 DEF AcquireLock, ReleaseLock, JudgeLock, BreakLock, Crash, CrashUnstamped
<1>11. ASSUME NEW p \in Proc, NEW failed \in BOOLEAN, ListEvents(p, failed)
       PROVE  SeqInRange' /\ events' = events
  BY <1>7, <1>11 DEF ListEvents
<1>12. ASSUME NEW p \in Proc, NEW failed \in BOOLEAN, ReadIndex(p, failed)
       PROVE  SeqInRange' /\ events' = events
  BY <1>8, <1>12 DEF ReadIndex
<1>13. ASSUME NEW p \in Proc, ResolveItem(p)
       PROVE  SeqInRange' /\ events' = events
  BY <1>7, <1>13 DEF ResolveItem
<1>14. ASSUME NEW p \in Proc, NEW failed \in BOOLEAN, UpdateIndex(p, failed)
       PROVE  SeqInRange' /\ events' = events
  BY <1>8, <1>14 DEF UpdateIndex
<1>15. ASSUME NEW p \in Proc, IndexLockFails(p) \/ FinishBatch(p) \/ EventWriteFails(p)
       PROVE  SeqInRange' /\ events' = events
  BY <1>7, <1>15 DEF IndexLockFails, FinishBatch, EventWriteFails
<1>16. ASSUME NEW p \in Proc, IndexWriteFails(p)
       PROVE  SeqInRange' /\ events' = events
  BY <1>8, <1>16 DEF IndexWriteFails
<1>17. CASE UNCHANGED vars
  BY <1>3, <1>8, <1>17 DEF vars
<1> QED
  BY <1>2, <1>3, <1>4, <1>5, <1>6, <1>9, <1>10, <1>11, <1>12, <1>13, <1>14, <1>15, <1>16, <1>17
     DEF Next, Step, Quiet

\* Nobody steps who is dead; who goes to remove a lock, or dies, does so by this step.
LEMMA UnlinkAloneStep ==
  ASSUME Inv1, [Next]_vars
  PROVE  UnlinkAlone'
<1>1. pc \in [Proc -> Labels] /\ UnlinkAlone
  BY DEF Inv1, TypeOK
<1>2. ASSUME NEW p \in Proc, NEW label, Go(p, label), pc[p] # "crashed",
             label = "crashed" => "crash" \in FaultKinds,
             label = "unlink" => JudgeLock(p)
      PROVE  UnlinkAlone'
  <2>1. ASSUME label = "unlink", SafeLock, NEW q \in Proc, q # p
        PROVE  pc[q] = "crashed"
    <3>1. lock \in Proc /\ BreaksStaleLocks /\ (FastHolders => pc[lock] = "crashed")
      BY <1>2, <2>1 DEF JudgeLock
    <3>2. FastHolders /\ pc[lock] = "crashed" /\ "crash" \in FaultKinds /\ lock # p
      BY <1>1, <1>2, <2>1, <3>1 DEF SafeLock, UnlinkAlone
    <3>3. q = lock
      BY <2>1, <3>1, <3>2 DEF SafeLock
    <3> QED
      BY <3>2, <3>3
  <2> QED
    BY <1>1, <1>2, <2>1 DEF UnlinkAlone, Go
<1>3. ASSUME UNCHANGED pc
      PROVE  UnlinkAlone'
  BY <1>1, <1>3 DEF UnlinkAlone
<1>4. ASSUME NEW p \in Proc, NEW c \in Calls, Invoke(p, c)
      PROVE  UnlinkAlone'
  BY <1>2, <1>4 DEF Invoke
<1>5. ASSUME NEW p \in Proc, AcquireLock(p) \/ WriteEvent(p) \/ IndexLockFails(p) \/ NextEvent(p)
             \/ FinishBatch(p) \/ ReleaseLock(p) \/ EventWriteFails(p) \/ BreakLock(p)
      PROVE  UnlinkAlone'
  BY <1>2, <1>5 DEF AcquireLock, WriteEvent, IndexLockFails, NextEvent, FinishBatch, ReleaseLock,
                    EventWriteFails, BreakLock
<1>6. ASSUME NEW p \in Proc, JudgeLock(p)
      PROVE  UnlinkAlone'
  BY <1>2, <1>6 DEF JudgeLock
<1>7. ASSUME NEW p \in Proc, Crash(p) \/ CrashUnstamped(p)
      PROVE  UnlinkAlone'
  BY <1>2, <1>7 DEF Crash, CrashUnstamped, Storage
<1>8. ASSUME NEW p \in Proc, NEW failed \in BOOLEAN, ScanEvents(p, failed)
      PROVE  UnlinkAlone'
  BY <1>2, <1>8 DEF ScanEvents
<1>9. ASSUME NEW p \in Proc, NEW failed \in BOOLEAN, ListEvents(p, failed)
      PROVE  UnlinkAlone'
  BY <1>2, <1>9 DEF ListEvents
<1>10. ASSUME NEW p \in Proc, NEW failed \in BOOLEAN, LoadEvents(p, failed)
       PROVE  UnlinkAlone'
  <2>1. pc[p] = "load" /\ (Go(p, "idle") \/ Go(p, "release") \/ Go(p, "write"))
    BY <1>10 DEF LoadEvents
  <2> QED
    BY <1>2, <2>1
<1>11. ASSUME NEW p \in Proc, ResolveItem(p)
       PROVE  UnlinkAlone'
  <2>1. pc[p] = "resolve" /\ (Go(p, "load") \/ Go(p, "resolve"))
    BY <1>11 DEF ResolveItem
  <2> QED
    BY <1>2, <2>1
<1>12. ASSUME NEW p \in Proc, IndexWriteFails(p) \/ \E failed \in BOOLEAN :
                                ReadIndex(p, failed) \/ UpdateIndex(p, failed)
       PROVE  UnlinkAlone'
  BY <1>3, <1>12 DEF IndexWriteFails, ReadIndex, UpdateIndex
<1>13. CASE UNCHANGED vars
  BY <1>3, <1>13 DEF vars
<1> QED
  BY <1>4, <1>5, <1>6, <1>7, <1>8, <1>9, <1>10, <1>11, <1>12, <1>13 DEF Next, Step, Quiet

LEMMA Inv1Step == Inv1 /\ [Next]_vars => Inv1'
<1> SUFFICES ASSUME Inv1, [Next]_vars PROVE Inv1'
  OBVIOUS
<1>1. StoreTypes' /\ CallTypes' /\ WriterTypes' /\ ReaderTypes'
  BY StoreTypesStep, CallTypesStep, WriterTypesStep, ReaderTypesStep
<1>2. TypeOK'
  BY <1>1 DEF TypeOK, StoreTypes, CallTypes, WriterTypes, ReaderTypes
<1> QED
  BY <1>2, RangeStep, UnlinkAloneStep DEF Inv1

LEMMA Inv1Always == Spec => []Inv1
BY Inv1Init, Inv1Step, PTL DEF Spec

\* Every variable keeps its type, whatever calls are made and faults happen.
THEOREM TypeCorrect == Spec => []TypeOK
<1>1. Inv1 => TypeOK
  BY DEF Inv1
<1> QED
  BY <1>1, Inv1Always, PTL

\* The positions in the log are 0, 1, 2, ... without a gap, whatever calls
\* interleave and whatever storage operations fail: append_async computes its
\* `sequence` from what it finds and writes nowhere else.
THEOREM LogHasNoGap == Spec => []GapFree
<1>1. Inv1 => GapFree
  BY DEF Inv1
<1> QED
  BY <1>1, Inv1Always, PTL

-----------------------------------------------------------------------------
(* Second layer: what the lock protects *)

\* The index files still to be updated are files of the event just written; PendSoundBut
\* leaves out some positions.
PendSoundBut(T) ==
  \A p \in Proc :
    pc[p] = "index" /\ seq[p] \notin T => Range(pend[p]) \subseteq Range(FilesOf(events[seq[p]]))

PendSound == PendSoundBut({})

\* Nobody has, or had in its last call, a `sequence` beyond the end of the log.
SeqBehind == \A p \in Proc : seq[p] <= End

Inv2 == Inv1 /\ SequenceReserved /\ PendSound /\ IndexSound /\ SeqBehind

\* `read_dir(...).unwrap_or_default()` is the one place where a fault of the
\* storage makes append_async compute a wrong `sequence`.
ListingsSucceed == "dir_read" \notin FaultKinds

LEMMA Inv2Init == Init => Inv2
<1> SUFFICES ASSUME Init PROVE Inv2
  OBVIOUS
<1>1. End = 0
  BY DEF Init, End, NextPosition
<1>2. SeqBehind
  BY <1>1 DEF SeqBehind, Init
<1> QED
  BY <1>2, Inv1Init DEF Init, Inv2, SequenceReserved, LockHeld, SequenceFresh, Appending, PendSound, PendSoundBut, IndexSound

\* The first and the remaining index files of a sequence are files of it.
LEMMA RangeHeadTail ==
  ASSUME NEW S, NEW s \in Seq(S), s # << >>
  PROVE  Head(s) \in Range(s) /\ Range(Tail(s)) \subseteq Range(s)
<1>1. Len(s) \in Nat \ {0} /\ DOMAIN s = 1 .. Len(s)
  BY EmptySeq, LenProperties
<1>2. Head(s) = s[1]
  BY <1>1
<1>3. Tail(s) \in Seq(S) /\ Len(Tail(s)) = Len(s) - 1
      /\ \A i \in 1 .. Len(Tail(s)) : Tail(s)[i] = s[i + 1]
  BY HeadTailProperties
<1>4. DOMAIN Tail(s) = 1 .. Len(s) - 1
  BY <1>3, LenProperties
<1> QED
  BY <1>1, <1>2, <1>3, <1>4 DEF Range

\* The lock stays with the process inside append_async: a lock is given back
\* only by its holder, or removed by the only process that is left.
LEMMA LockHeldStep ==
  ASSUME SafeLock, Inv1, SequenceReserved, [Next]_vars
  PROVE  LockHeld'
<1> USE DEF LockHeld, Appending, Go
<1>1. /\ LockHeld /\ Free \notin Proc
      /\ pc \in [Proc -> Labels] /\ call \in [Proc -> Call] /\ lock \in Proc \cup {Free, Orphan}
  BY ConstantsAssumption DEF Inv1, TypeOK, SequenceReserved
<1>2. ASSUME NEW p \in Proc, NEW c \in Calls, Invoke(p, c)
      PROVE  LockHeld'
  <2>1. lock' = lock /\ call' = [call EXCEPT ![p] = c]
        /\ pc' = [pc EXCEPT ![p] = IF c.op = "read" THEN "resolve" ELSE "acquire"]
    BY <1>2 DEF Invoke, store
  <2> QED
    BY <1>1, <2>1
<1>3. ASSUME NEW p \in Proc, AcquireLock(p)
      PROVE  LockHeld'
  BY <1>1, <1>3 DEF AcquireLock
<1>4. ASSUME NEW p \in Proc, ReleaseLock(p)
      PROVE  LockHeld'
  BY <1>1, <1>4 DEF ReleaseLock
<1>5. ASSUME NEW p \in Proc, BreakLock(p)
      PROVE  LockHeld'
  <2>1. \A q \in Proc : q # p => pc[q] = "crashed"
    BY <1>5 DEF BreakLock, Inv1, UnlinkAlone
  <2> QED
    BY <1>1, <1>5, <2>1 DEF BreakLock
<1>6. ASSUME UNCHANGED <<lock, call>>,
             NEW p \in Proc, NEW label, Go(p, label), Appending(p) \/ ~Appending(p)'
      PROVE  LockHeld'
  BY <1>1, <1>6
<1>7. ASSUME UNCHANGED <<lock, call, pc>>
      PROVE  LockHeld'
  BY <1>1, <1>7
<1> USE DEF store
<1>8. ASSUME NEW p \in Proc, NEW failed \in BOOLEAN, ScanEvents(p, failed)
      PROVE  LockHeld'
  BY <1>6, <1>8 DEF ScanEvents
<1>9. ASSUME NEW p \in Proc, NEW failed \in BOOLEAN, ListEvents(p, failed)
      PROVE  LockHeld'
  BY <1>1, <1>9 DEF ListEvents
<1>10. ASSUME NEW p \in Proc, NEW failed \in BOOLEAN, ReadIndex(p, failed)
       PROVE  LockHeld'
  BY <1>7, <1>10 DEF ReadIndex
<1>11. ASSUME NEW p \in Proc, ResolveItem(p)
       PROVE  LockHeld'
  BY <1>1, <1>11 DEF ResolveItem
<1>12. ASSUME NEW p \in Proc, NEW failed \in BOOLEAN, LoadEvents(p, failed)
       PROVE  LockHeld'
  <2>1. UNCHANGED <<lock, call>> /\ pc[p] = "load"
    BY <1>12 DEF LoadEvents
  <2>2. \/ Go(p, "idle")
        \/ call[p].op # "read" /\ (Go(p, "release") \/ Go(p, "write"))
    BY <1>12 DEF LoadEvents
  <2> QED
    BY <1>1, <2>1, <2>2
<1>13. ASSUME NEW p \in Proc, WriteEvent(p)
       PROVE  LockHeld'
  BY <1>6, <1>13 DEF WriteEvent
<1>14. ASSUME NEW p \in Proc, NEW failed \in BOOLEAN, UpdateIndex(p, failed)
       PROVE  LockHeld'
  BY <1>7, <1>14 DEF UpdateIndex
<1>15. ASSUME NEW p \in Proc, IndexLockFails(p) \/ NextEvent(p) \/ FinishBatch(p) \/ EventWriteFails(p)
       PROVE  LockHeld'
  BY <1>6, <1>15 DEF IndexLockFails, NextEvent, FinishBatch, EventWriteFails
<1>16. ASSUME NEW p \in Proc, IndexWriteFails(p)
       PROVE  LockHeld'
  BY <1>7, <1>16 DEF IndexWriteFails
<1>17. ASSUME NEW p \in Proc, Crash(p) \/ CrashUnstamped(p) \/ JudgeLock(p)
       PROVE  LockHeld'
  BY <1>1, <1>17 DEF Crash, CrashUnstamped, JudgeLock
<1>18. CASE UNCHANGED vars
  BY <1>7, <1>18 DEF vars
<1> QED
  BY <1>2, <1>3, <1>4, <1>5, <1>8, <1>9, <1>10, <1>11, <1>12, <1>13, <1>14, <1>15,
     <1>16, <1>17, <1>18 DEF Next, Step, Quiet

\* A `sequence` computed from the end of the log is still the end of the log
\* when it is used: the only process that could write is the one that has it.
LEMMA SequenceFreshStep ==
  ASSUME ListingsSucceed, Inv1, SequenceReserved, [Next]_vars
  PROVE  SequenceFresh'
<1> USE DEF SequenceFresh, Appending, Go
<1>1. /\ LockHeld /\ SequenceFresh
      /\ pc \in [Proc -> Labels] /\ call \in [Proc -> Call] /\ seq \in [Proc -> Nat]
      /\ NextPosition(DOMAIN events) \in Nat
  BY DEF Inv1, TypeOK, SequenceReserved, End
<1>2. ASSUME NEW p \in Proc, NEW c \in Calls, Invoke(p, c)
      PROVE  SequenceFresh'
  <2>1. events' = events /\ seq' = seq /\ call' = [call EXCEPT ![p] = c]
        /\ pc' = [pc EXCEPT ![p] = IF c.op = "read" THEN "resolve" ELSE "acquire"]
    BY <1>2 DEF Invoke, store
  <2> QED
    BY <1>1, <2>1
<1>3. ASSUME NEW p \in Proc, NEW failed \in BOOLEAN, ScanEvents(p, failed)
      PROVE  SequenceFresh'
  <2>1. ~failed
    BY <1>3 DEF ScanEvents, Storage, ListingsSucceed
  <2>2. events' = events /\ call' = call
        /\ seq' = [seq EXCEPT ![p] = NextPosition(DOMAIN events)]
        /\ pc' = [pc EXCEPT ![p] = IF call[p].op = "append_if" THEN "resolve" ELSE "write"]
    BY <1>3, <2>1 DEF ScanEvents, store
  <2> QED
    BY <1>1, <2>2
<1>4. ASSUME NEW p \in Proc, WriteEvent(p)
      PROVE  SequenceFresh'
  <2>1. pc[p] = "write" /\ pc' = [pc EXCEPT ![p] = "index"] /\ UNCHANGED <<seq, call>>
    BY <1>4 DEF WriteEvent
  <2>2. \A q \in Proc : q # p => ~Appending(q)
    BY <1>1, <2>1 DEF LockHeld
  <2>3. seq[p] = NextPosition(DOMAIN events)
    BY <1>1, <2>1
  <2>4. NextPosition(DOMAIN events') = seq[p] + 1
    BY <1>4, <2>3, WriteEventLog DEF End
  <2> QED
    BY <1>1, <2>1, <2>2, <2>4
<1>5. ASSUME NEW p \in Proc, NextEvent(p)
      PROVE  SequenceFresh'
  <2>1. events' = events /\ call' = call /\ pc[p] = "index"
        /\ seq' = [seq EXCEPT ![p] = seq[p] + 1] /\ pc' = [pc EXCEPT ![p] = "write"]
    BY <1>5 DEF NextEvent, store
  <2> QED
    BY <1>1, <2>1
<1>6. ASSUME UNCHANGED <<events, call, seq>>, NEW p \in Proc, NEW label, Go(p, label),
             \/ label \notin {"resolve", "load", "write", "index"}
             \/ pc[p] \in {"resolve", "load"} /\ label \in {"resolve", "load"}
      PROVE  SequenceFresh'
  BY <1>1, <1>6
<1>7. ASSUME UNCHANGED <<events, call, seq, pc>>
      PROVE  SequenceFresh'
  BY <1>1, <1>7
<1> HIDE DEF SequenceFresh, Appending
<1> USE DEF store
<1>8. ASSUME NEW p \in Proc, AcquireLock(p)
      PROVE  SequenceFresh'
  BY <1>6, <1>8 DEF AcquireLock
<1>9. ASSUME NEW p \in Proc, NEW failed \in BOOLEAN, ListEvents(p, failed)
      PROVE  SequenceFresh'
  BY <1>6, <1>9 DEF ListEvents
<1>10. ASSUME NEW p \in Proc, NEW failed \in BOOLEAN, ReadIndex(p, failed)
       PROVE  SequenceFresh'
  BY <1>7, <1>10 DEF ReadIndex
<1>11. ASSUME NEW p \in Proc, ResolveItem(p)
       PROVE  SequenceFresh'
  BY <1>6, <1>11 DEF ResolveItem
<1>12. ASSUME NEW p \in Proc, NEW failed \in BOOLEAN, LoadEvents(p, failed)
       PROVE  SequenceFresh'
  <2>1. UNCHANGED <<events, call, seq>> /\ pc[p] = "load"
    BY <1>12 DEF LoadEvents
  <2>2. \/ Go(p, "idle") \/ Go(p, "release")
        \/ call[p].op # "read" /\ Go(p, "write")
    BY <1>12 DEF LoadEvents
  <2> QED
    BY <1>1, <2>1, <2>2 DEF SequenceFresh, Appending
<1>13. ASSUME NEW p \in Proc, NEW failed \in BOOLEAN, UpdateIndex(p, failed)
       PROVE  SequenceFresh'
  BY <1>7, <1>13 DEF UpdateIndex
<1>14. ASSUME NEW p \in Proc, IndexLockFails(p) \/ FinishBatch(p) \/ EventWriteFails(p)
       PROVE  SequenceFresh'
  BY <1>6, <1>14 DEF IndexLockFails, FinishBatch, EventWriteFails
<1>15. ASSUME NEW p \in Proc, ReleaseLock(p)
       PROVE  SequenceFresh'
  BY <1>6, <1>15 DEF ReleaseLock
<1>16. ASSUME NEW p \in Proc, IndexWriteFails(p)
       PROVE  SequenceFresh'
  BY <1>7, <1>16 DEF IndexWriteFails
<1>17. ASSUME NEW p \in Proc, Crash(p) \/ CrashUnstamped(p) \/ JudgeLock(p) \/ BreakLock(p)
       PROVE  SequenceFresh'
  BY <1>6, <1>17 DEF Crash, CrashUnstamped, JudgeLock, BreakLock
<1>18. CASE UNCHANGED vars
  BY <1>7, <1>18 DEF vars
<1> QED
  BY <1>2, <1>3, <1>4, <1>5, <1>8, <1>9, <1>10, <1>11, <1>12, <1>13, <1>14, <1>15,
     <1>16, <1>17, <1>18 DEF Next, Step, Quiet

\* A write at the end of the log changes no event that was there.
LEMMA WriteKeepsEvents ==
  ASSUME Inv1, SequenceReserved, NEW p \in Proc, WriteEvent(p)
  PROVE  /\ seq[p] \notin DOMAIN events
         /\ DOMAIN events' = DOMAIN events \cup {seq[p]}
         /\ \A n \in DOMAIN events : events'[n] = events[n]
         /\ events'[seq[p]] = Head(rest[p])
<1>1. seq[p] = End
  BY DEF WriteEvent, SequenceReserved, SequenceFresh, Appending, End
<1>2. End \in Nat /\ DOMAIN events = 0 .. End - 1
  BY LogFacts
<1>3. seq[p] \notin DOMAIN events
  BY <1>1, <1>2
<1> QED
  BY <1>3 DEF WriteEvent

\* Index files are updated for the event that was written last.
LEMMA PendSoundButStep ==
  ASSUME Inv1, SequenceReserved, NEW CONSTANT T, PendSoundBut(T), [Next]_vars
  PROVE  PendSoundBut(T)'
<1>1. /\ PendSoundBut(T) /\ SeqInRange
      /\ pc \in [Proc -> Labels] /\ seq \in [Proc -> Nat] /\ pend \in [Proc -> Seq(IndexFile)]
      /\ rest \in [Proc -> Seq(Event)]
  BY DEF Inv1, TypeOK
<1>2. \A p \in Proc : pc[p] = "index" => seq[p] \in DOMAIN events
  BY <1>1, LogFacts DEF SeqInRange
<1>3. ASSUME NEW p \in Proc, WriteEvent(p)
      PROVE  PendSoundBut(T)'
  <2>1. pc' = [pc EXCEPT ![p] = "index"] /\ seq' = seq
        /\ pend' = [pend EXCEPT ![p] = FilesOf(Head(rest[p]))]
    BY <1>3 DEF WriteEvent, Go
  <2>2. /\ DOMAIN events \subseteq DOMAIN events'
        /\ \A n \in DOMAIN events : events'[n] = events[n]
        /\ events'[seq[p]] = Head(rest[p])
    BY <1>3, WriteKeepsEvents
  <2> QED
    BY <1>1, <1>2, <2>1, <2>2 DEF PendSoundBut
<1>4. ASSUME NEW p \in Proc, IndexWriteFails(p) \/ \E failed \in BOOLEAN : UpdateIndex(p, failed)
      PROVE  PendSoundBut(T)'
  <2>1. UNCHANGED <<events, pc, seq>> /\ pend[p] # << >>
        /\ pend' = [pend EXCEPT ![p] = Tail(pend[p])]
    BY <1>4 DEF IndexWriteFails, UpdateIndex, store
  <2>2. Range(Tail(pend[p])) \subseteq Range(pend[p])
    BY <1>1, <2>1, RangeHeadTail
  <2> QED
    BY <1>1, <2>1, <2>2 DEF PendSoundBut
<1>5. ASSUME UNCHANGED events,
             \A q \in Proc : pc'[q] = "index" =>
                               pc[q] = "index" /\ seq'[q] = seq[q] /\ pend'[q] = pend[q]
      PROVE  PendSoundBut(T)'
  BY <1>1, <1>5 DEF PendSoundBut
<1> USE DEF store, Go
<1>6. ASSUME NEW p \in Proc, NEW c \in Calls, Invoke(p, c)
      PROVE  PendSoundBut(T)'
  BY <1>1, <1>5, <1>6 DEF Invoke
<1>7. ASSUME NEW p \in Proc, NEW failed \in BOOLEAN, ScanEvents(p, failed)
      PROVE  PendSoundBut(T)'
  BY <1>1, <1>5, <1>7 DEF ScanEvents
<1>8. ASSUME NEW p \in Proc, NextEvent(p)
      PROVE  PendSoundBut(T)'
  BY <1>1, <1>5, <1>8 DEF NextEvent
<1>9. ASSUME UNCHANGED <<events, seq, pend>>, NEW p \in Proc,
             UNCHANGED pc \/ \E label \in Labels \ {"index"} : Go(p, label)
      PROVE  PendSoundBut(T)'
  BY <1>1, <1>5, <1>9
<1>10. ASSUME NEW p \in Proc,
              \/ AcquireLock(p) \/ ResolveItem(p) \/ ReleaseLock(p) \/ JudgeLock(p) \/ BreakLock(p)
              \/ Crash(p) \/ CrashUnstamped(p)
       PROVE  PendSoundBut(T)'
  BY <1>9, <1>10 DEF AcquireLock, ResolveItem, ReleaseLock, JudgeLock, BreakLock, Crash, CrashUnstamped, Labels
<1>11. ASSUME NEW p \in Proc, NEW failed \in BOOLEAN,
              ListEvents(p, failed) \/ ReadIndex(p, failed) \/ LoadEvents(p, failed)
       PROVE  PendSoundBut(T)'
  <2>1. UNCHANGED <<events, seq, pend>>
    BY <1>11 DEF ListEvents, ReadIndex, LoadEvents
  <2>2. UNCHANGED pc \/ Go(p, "load") \/ Go(p, "idle") \/ Go(p, "release") \/ Go(p, "write")
    BY <1>11 DEF ListEvents, ReadIndex, LoadEvents
  <2> QED
    BY <1>9, <2>1, <2>2 DEF Labels
<1>12. ASSUME NEW p \in Proc, IndexLockFails(p) \/ FinishBatch(p) \/ EventWriteFails(p)
       PROVE  PendSoundBut(T)'
  BY <1>9, <1>12 DEF IndexLockFails, FinishBatch, EventWriteFails, Labels
<1>13. CASE UNCHANGED vars
  BY <1>1, <1>13 DEF vars, PendSoundBut
<1> QED
  BY <1>3, <1>4, <1>6, <1>7, <1>8, <1>10, <1>11, <1>12, <1>13 DEF Next, Step, Quiet

LEMMA PendSoundStep ==
  ASSUME Inv1, SequenceReserved, PendSound, [Next]_vars
  PROVE  PendSound'
BY PendSoundButStep DEF PendSound

\* An index file gets a position of the log that belongs in it, or loses some.
LEMMA IndexGrowsByEntries ==
  ASSUME Inv1, NEW T, PendSoundBut(T), [Next]_vars
  PROVE  \A f \in IndexFile : \A n \in index'[f] :
           \/ n \in index[f]
           \/ n \in DOMAIN events /\ UNCHANGED events /\ (n \notin T => f \in Range(FilesOf(events[n])))
<1>1. ASSUME NEW p \in Proc, NEW failed \in BOOLEAN, UpdateIndex(p, failed)
      PROVE  \A f \in IndexFile : \A n \in index'[f] :
               \/ n \in index[f]
               \/ n \in DOMAIN events /\ UNCHANGED events /\ (n \notin T => f \in Range(FilesOf(events[n])))
  <2> DEFINE file == Head(pend[p])
             old == IF failed THEN {} ELSE index[file]
  <2>1. UNCHANGED events /\ pc[p] = "index" /\ pend[p] # << >>
        /\ index' = [index EXCEPT ![file] = old \cup {seq[p]}]
    BY <1>1 DEF UpdateIndex
  <2>2. index \in [IndexFile -> SUBSET Nat] /\ pend[p] \in Seq(IndexFile) /\ seq[p] \in Nat
    BY DEF Inv1, TypeOK
  <2>3. file \in Range(pend[p])
    BY <2>1, <2>2, RangeHeadTail
  <2>4. old \subseteq index[file]
    OBVIOUS
  <2>5. seq[p] \in DOMAIN events /\ (seq[p] \notin T => file \in Range(FilesOf(events[seq[p]])))
    BY SMTT(30), <2>1, <2>2, <2>3, LogFacts DEF PendSoundBut, Inv1, SeqInRange
  <2> HIDE DEF old, file
  <2> QED
    BY <2>1, <2>2, <2>4, <2>5
<1>2. \A p \in Proc :
        AcquireLock(p) \/ WriteEvent(p) \/ ReleaseLock(p) \/ BreakLock(p) \/ CrashUnstamped(p)
          => UNCHANGED index
  BY DEF AcquireLock, WriteEvent, ReleaseLock, BreakLock, CrashUnstamped
<1> QED
  BY <1>1, <1>2, WhoChangesTheStore

LEMMA IndexGrowsBySoundEntries ==
  ASSUME Inv1, PendSound, [Next]_vars
  PROVE  \A f \in IndexFile : \A n \in index'[f] :
           \/ n \in index[f]
           \/ n \in DOMAIN events /\ f \in Range(FilesOf(events[n])) /\ UNCHANGED events
<1>1. \A f \in IndexFile : \A n \in index'[f] :
        \/ n \in index[f]
        \/ n \in DOMAIN events /\ UNCHANGED events /\ (n \notin {} => f \in Range(FilesOf(events[n])))
  BY IndexGrowsByEntries DEF PendSound
<1> QED
  BY <1>1

\* Every event that is in the log stays in it as it is.
LEMMA StepKeepsEvents ==
  ASSUME Inv1, SequenceReserved, [Next]_vars
  PROVE  \A n \in DOMAIN events : n \in DOMAIN events' /\ events'[n] = events[n]
<1>1. ASSUME NEW p \in Proc, WriteEvent(p)
      PROVE  \A n \in DOMAIN events : n \in DOMAIN events' /\ events'[n] = events[n]
  BY <1>1, WriteKeepsEvents
<1>2. \A p \in Proc : AcquireLock(p) \/ ReleaseLock(p) \/ BreakLock(p) \/ CrashUnstamped(p) => events' = events
  BY DEF AcquireLock, ReleaseLock, BreakLock, CrashUnstamped
<1>3. \A p \in Proc, failed \in BOOLEAN : UpdateIndex(p, failed) => events' = events
  BY DEF UpdateIndex
<1> QED
  BY <1>1, <1>2, <1>3, WhoChangesTheStore

\* Index files are updated with positions of events they belong to.
LEMMA IndexStep ==
  ASSUME Inv2, [Next]_vars
  PROVE  (PendSound /\ IndexSound)'
<1>1. PendSound'
  BY PendSoundStep DEF Inv2
<1>2. \A n \in DOMAIN events : n \in DOMAIN events' /\ events'[n] = events[n]
  BY StepKeepsEvents DEF Inv2
<1>3. \A f \in IndexFile : \A n \in index'[f] :
        n \in DOMAIN events /\ f \in Range(FilesOf(events[n]))
  BY IndexGrowsBySoundEntries DEF Inv2, IndexSound
<1> QED
  BY <1>1, <1>2, <1>3 DEF IndexSound

\* The log does not get shorter, and a `sequence` is computed from it or moves
\* past an event of it.
LEMMA SeqBehindStep ==
  ASSUME Inv2, [Next]_vars
  PROVE  SeqBehind'
<1>1. /\ End \in Nat /\ SeqBehind /\ SeqInRange
      /\ seq \in [Proc -> Nat] /\ rest \in [Proc -> Seq(Event)]
  BY DEF Inv2, Inv1, TypeOK
<1>2. End' \in Nat /\ End <= End'
  <2>1. ASSUME NEW p \in Proc, WriteEvent(p)
        PROVE  End' \in Nat /\ End <= End'
    BY <2>1, WriteEventLog DEF Inv2
  <2>2. UNCHANGED events => End' = End
    BY DEF End
  <2>3. \A p \in Proc : AcquireLock(p) \/ ReleaseLock(p) \/ BreakLock(p) \/ CrashUnstamped(p) => UNCHANGED events
    BY DEF AcquireLock, ReleaseLock, BreakLock, CrashUnstamped
  <2>4. \A p \in Proc, failed \in BOOLEAN : UpdateIndex(p, failed) => UNCHANGED events
    BY DEF UpdateIndex
  <2> QED
    BY <1>1, <2>1, <2>2, <2>3, <2>4, WhoChangesTheStore
<1>3. CASE UNCHANGED seq
  BY <1>1, <1>2, <1>3 DEF SeqBehind
<1>4. ASSUME NEW p \in Proc, NEW failed \in BOOLEAN, ScanEvents(p, failed)
      PROVE  SeqBehind'
  <2>1. seq' = [seq EXCEPT ![p] = IF failed THEN 0 ELSE End]
    BY <1>4 DEF ScanEvents, End
  <2> QED
    BY <1>1, <1>2, <2>1 DEF SeqBehind
<1>5. ASSUME NEW p \in Proc, NextEvent(p)
      PROVE  SeqBehind'
  <2>1. seq' = [seq EXCEPT ![p] = seq[p] + 1] /\ seq[p] < End
    BY <1>1, <1>5 DEF NextEvent, SeqInRange
  <2> QED
    BY <1>1, <1>2, <2>1 DEF SeqBehind
<1>6. \A p \in Proc : \A c \in Calls : Invoke(p, c) => UNCHANGED seq
  BY DEF Invoke
<1>7. \A p \in Proc : WriteEvent(p) \/ IndexWriteFails(p) => UNCHANGED seq
  BY DEF WriteEvent, IndexWriteFails
<1>8. \A p \in Proc, failed \in BOOLEAN : UpdateIndex(p, failed) => UNCHANGED seq
  BY DEF UpdateIndex
<1> QED
  BY <1>3, <1>4, <1>5, <1>6, <1>7, <1>8, WhoChangesTheWriter

LEMMA Inv2Step == ListingsSucceed /\ SafeLock /\ Inv2 /\ [Next]_vars => Inv2'
<1> SUFFICES ASSUME ListingsSucceed, SafeLock, Inv2, [Next]_vars
             PROVE  Inv2'
  OBVIOUS
<1>1. Inv1'
  BY Inv1Step DEF Inv2
<1> QED
  BY <1>1, LockHeldStep, SequenceFreshStep, IndexStep, SeqBehindStep DEF Inv2, SequenceReserved

LEMMA Inv2Always == ASSUME ListingsSucceed, SafeLock PROVE Spec => []Inv2
<1>1. Inv2 /\ [Next]_vars => Inv2'
  BY Inv2Step
<1> QED
  BY <1>1, Inv2Init, PTL DEF Spec

\* While directory listings succeed and the lock excludes, an append that has computed
\* its `sequence` is alone and writes at the end of the log, even if a process dies
\* holding the lock and other storage operations fail.
THEOREM SequenceIsReserved == ASSUME ListingsSucceed, SafeLock PROVE Spec => []SequenceReserved
<1>1. Inv2 => SequenceReserved
  BY DEF Inv2
<1> QED
  BY <1>1, Inv2Always, PTL

\* While directory listings succeed and the lock excludes, the index files list only
\* events that exist and belong in them, whatever is written, fails or dies half-way.
THEOREM IndicesAreSound == ASSUME ListingsSucceed, SafeLock PROVE Spec => []IndexSound
<1>1. Inv2 => IndexSound
  BY DEF Inv2
<1> QED
  BY <1>1, Inv2Always, PTL

\* The log is append-only while directory listings succeed and the lock excludes: no
\* step of any process removes or changes an event that is in the log.
THEOREM LogIsAppendOnly == ASSUME ListingsSucceed, SafeLock PROVE Spec => EventsImmutable
<1>1. Inv2 /\ [Next]_vars =>
        [\A n \in DOMAIN events : n \in DOMAIN events' /\ events'[n] = events[n]]_events
  BY StepKeepsEvents DEF Inv2
<1>2. Spec => [][\A n \in DOMAIN events : n \in DOMAIN events' /\ events'[n] = events[n]]_events
  BY <1>1, Inv2Always, PTL DEF Spec
<1> QED
  BY <1>2 DEF EventsImmutable

-----------------------------------------------------------------------------
(***************************************************************************)
(* The consistency boundary: the index files are complete whenever the lock*)
(* is free, and every append honours its condition.                        *)
(*                                                                         *)
(* The code keeps these promises when no index operation or listing fails  *)
(* and nobody dies inside append_async; the second one for conditions      *)
(* whose items all name a type or a tag.  Without the one an event can stay*)
(* out of its index files for ever; without the other an item matches      *)
(* every event and is resolved to none.                                    *)
(***************************************************************************)

\* The storage operations that an append depends on for its indices succeed and its
\* lock excludes.  Reading and writing event files may fail.
IndexStorageReliable ==
  FaultKinds \subseteq {"event_read", "event_write"} /\ NestedLockNames /\ SafeLock

\* The same, but processes may die.
IndexOperationsSucceed ==
  FaultKinds \subseteq {"event_read", "event_write", "crash"} /\ NestedLockNames /\ SafeLock

\* Every item of the query names a type or a tag (Query::all() has no item).
NoWildcards(c) == \A i \in DOMAIN c.query : FilesRead(c.query[i]) # << >>

ConditionsNameTypesOrTags == \A c \in Calls : c.op = "append_if" => NoWildcards(c)

-----------------------------------------------------------------------------
(* The invariant *)

\* p evaluates its condition.
Checking(p) == pc[p] \in {"resolve", "load"} /\ call[p].op = "append_if"

\* How far p is in its call.
Progress(p) ==
  /\ pc[p] # "crashed"
  /\ call[p].op = "append_if" => NoWildcards(call[p]) /\ call[p].max = None
  /\ Len(rest[p]) <= Len(call[p].batch)
  /\ pc[p] \notin {"idle", "release"} => result[p].status = "none"
  /\ pc[p] \in {"acquire", "unlink", "scan"} =>
       item[p] = 1 /\ seen[p] = << >> /\ found[p] = {}
  /\ pc[p] \in {"acquire", "unlink", "scan"} \/ Checking(p) => rest[p] = call[p].batch

\* n is in an index file, or about to be added to it by the writer of its event.
Covered(n, f) ==
  \/ n \in index[f]
  \/ \E p \in Proc : pc[p] = "index" /\ seq[p] = n /\ f \in Range(pend[p])

\* Every event is in its index files, or about to be.
IndexComplete == \A n \in DOMAIN events : \A f \in Range(FilesOf(events[n])) : Covered(n, f)

\* What p has read for the current item is what the index files hold, and what
\* it has resolved contains every event that matches an earlier item.
Resolving(p) ==
  pc[p] = "resolve" /\ call[p].op = "append_if" =>
    /\ item[p] \in DOMAIN call[p].query =>
         LET files == FilesRead(call[p].query[item[p]]) IN
           /\ Len(seen[p]) <= Len(files)
           /\ \A j \in 1 .. Len(seen[p]) : seen[p][j] = index[files[j]]
    /\ \A i \in DOMAIN call[p].query : \A n \in DOMAIN events :
         i < item[p] /\ ItemMatches(call[p].query[i], events[n]) => n \in found[p]

\* p has resolved every event that violates its condition.
Resolved(p) ==
  pc[p] = "load" /\ call[p].op = "append_if" =>
    Matching(events, call[p].query, call[p].after) \subseteq found[p]

\* p's part of ConditionHonoured.
Honoured(p) ==
  call[p].op = "append_if" /\ (pc[p] \in {"write", "index"} \/ result[p].status = "ok")
    => \A n \in Matching(events, call[p].query, call[p].after) : n >= Base(p)

Inv3 ==
  /\ Inv2
  /\ IndexComplete
  /\ \A p \in Proc : Progress(p) /\ Resolving(p) /\ Resolved(p) /\ Honoured(p)

-----------------------------------------------------------------------------
(* Index files and items *)

\* Which file stands where in a list of types and tags.
LEMMA IndexFilesAt ==
  ASSUME NEW types \in Seq(Type), NEW tags \in Seq(Tag)
  PROVE  LET files == IndexFiles(types, tags) IN
           /\ DOMAIN files = 1 .. Len(types) + Len(tags)
           /\ \A i \in DOMAIN types : i \in DOMAIN files /\ files[i] = TypeFile[types[i]]
           /\ \A i \in DOMAIN tags :
                Len(types) + i \in DOMAIN files /\ files[Len(types) + i] = TagFile[tags[i]]
<1> DEFINE ofTypes == [i \in DOMAIN types |-> TypeFile[types[i]]]
           ofTags == [i \in DOMAIN tags |-> TagFile[tags[i]]]
<1>1. TypeFile \in [Type -> IndexFile] /\ TagFile \in [Tag -> IndexFile]
  BY FilesAssumption
<1>2. ofTypes \in Seq(IndexFile) /\ Len(ofTypes) = Len(types)
  BY SMTT(30), <1>1, MapSeq
<1>3. ofTags \in Seq(IndexFile) /\ Len(ofTags) = Len(tags)
  BY <1>1, MapSeq
<1>4. IndexFiles(types, tags) = ofTypes \o ofTags
  BY DEF IndexFiles, TypeFiles, TagFiles
<1>5. /\ \A i \in DOMAIN types : ofTypes[i] = TypeFile[types[i]]
      /\ \A i \in DOMAIN tags : ofTags[i] = TagFile[tags[i]]
  OBVIOUS
<1>6. /\ Len(types) \in Nat /\ DOMAIN types = 1 .. Len(types)
      /\ Len(tags) \in Nat /\ DOMAIN tags = 1 .. Len(tags)
  BY LenProperties
<1> HIDE DEF ofTypes, ofTags
<1>7. /\ ofTypes \o ofTags \in Seq(IndexFile)
      /\ Len(ofTypes \o ofTags) = Len(types) + Len(tags)
      /\ \A i \in 1 .. Len(types) + Len(tags) :
           (ofTypes \o ofTags)[i] = IF i <= Len(types) THEN ofTypes[i] ELSE ofTags[i - Len(types)]
  <2>1. /\ ofTypes \o ofTags \in Seq(IndexFile)
        /\ Len(ofTypes \o ofTags) = Len(ofTypes) + Len(ofTags)
        /\ \A i \in 1 .. Len(ofTypes) + Len(ofTags) :
             (ofTypes \o ofTags)[i] = IF i <= Len(ofTypes) THEN ofTypes[i] ELSE ofTags[i - Len(ofTypes)]
    <3>1. ofTypes \in Seq(IndexFile) /\ ofTags \in Seq(IndexFile)
      BY <1>2, <1>3
    <3> QED
      BY ONLY <3>1, ConcatProperties
  <2> QED
    BY <1>2, <1>3, <2>1, Zenon
<1>8. DOMAIN (ofTypes \o ofTags) = 1 .. Len(types) + Len(tags)
  BY <1>6, <1>7, LenProperties
<1>9. ASSUME NEW i \in DOMAIN types
      PROVE  i \in 1 .. Len(types) + Len(tags) /\ (ofTypes \o ofTags)[i] = TypeFile[types[i]]
  BY <1>5, <1>6, <1>7
<1>10. ASSUME NEW i \in DOMAIN tags
       PROVE  /\ Len(types) + i \in 1 .. Len(types) + Len(tags)
              /\ (ofTypes \o ofTags)[Len(types) + i] = TagFile[tags[i]]
  <2>1. i \in 1 .. Len(tags) /\ Len(types) + i \in 1 .. Len(types) + Len(tags)
        /\ ~(Len(types) + i <= Len(types)) /\ (Len(types) + i) - Len(types) = i
    BY <1>6
  <2>2. (ofTypes \o ofTags)[Len(types) + i] = ofTags[(Len(types) + i) - Len(types)]
    BY <1>7, <2>1
  <2> QED
    BY <1>5, <2>1, <2>2
<1> QED
  BY <1>4, <1>8, <1>9, <1>10

\* The index files an event is added to: its type's and its tags'.
LEMMA FilesOfEvent ==
  ASSUME NEW e \in Event
  PROVE  /\ TypeFile[e.type] \in Range(FilesOf(e))
         /\ \A g \in Range(e.tags) : TagFile[g] \in Range(FilesOf(e))
<1>1. <<e.type>> \in Seq(Type) /\ e.tags \in Seq(Tag) /\ DOMAIN <<e.type>> = {1} /\ <<e.type>>[1] = e.type
  BY DEF Event
<1>2. 1 \in DOMAIN FilesOf(e) /\ FilesOf(e)[1] = TypeFile[e.type]
  <2>1. \A i \in DOMAIN <<e.type>> :
          i \in DOMAIN FilesOf(e) /\ FilesOf(e)[i] = TypeFile[<<e.type>>[i]]
    BY <1>1, IndexFilesAt DEF FilesOf
  <2> QED
    BY <1>1, <2>1
<1>3. \A i \in DOMAIN e.tags :
        Len(<<e.type>>) + i \in DOMAIN FilesOf(e) /\ FilesOf(e)[Len(<<e.type>>) + i] = TagFile[e.tags[i]]
  BY <1>1, IndexFilesAt DEF FilesOf
<1> QED
  BY <1>2, <1>3 DEF Range

\* Resolving an item from complete index files finds every event it matches.
LEMMA ItemPositionsComplete ==
  ASSUME NEW it \in QueryItem, FilesRead(it) # << >>,
         NEW s \in Seq(SUBSET Nat), Len(s) = Len(FilesRead(it)),
         \A j \in 1 .. Len(s) : s[j] = index[FilesRead(it)[j]],
         NEW e \in Event, ItemMatches(it, e),
         NEW n, \A f \in Range(FilesOf(e)) : n \in index[f]
  PROVE  n \in ItemPositions(it, s)
<1>1. it.types \in Seq(Type) /\ it.tags \in Seq(Tag)
  BY DEF QueryItem
<1>2. /\ Len(it.types) \in Nat /\ DOMAIN it.types = 1 .. Len(it.types)
      /\ Len(it.tags) \in Nat /\ DOMAIN it.tags = 1 .. Len(it.tags)
  BY <1>1, LenProperties
<1>3. FilesRead(it) \in Seq(IndexFile)
  BY FilesReadType
<1>4. DOMAIN s = DOMAIN FilesRead(it) /\ DOMAIN s = 1 .. Len(s)
  BY <1>3, LenProperties
<1>5. \A j \in DOMAIN s : s[j] = index[FilesRead(it)[j]]
  BY <1>4
<1>6. /\ DOMAIN s = 1 .. Len(it.types) + Len(it.tags)
      /\ \A i \in DOMAIN it.types : i \in DOMAIN s /\ s[i] = index[TypeFile[it.types[i]]]
      /\ \A i \in DOMAIN it.tags :
           Len(it.types) + i \in DOMAIN s /\ s[Len(it.types) + i] = index[TagFile[it.tags[i]]]
  <2>1. /\ DOMAIN FilesRead(it) = 1 .. Len(it.types) + Len(it.tags)
        /\ \A i \in DOMAIN it.types :
             i \in DOMAIN FilesRead(it) /\ FilesRead(it)[i] = TypeFile[it.types[i]]
        /\ \A i \in DOMAIN it.tags :
             /\ Len(it.types) + i \in DOMAIN FilesRead(it)
             /\ FilesRead(it)[Len(it.types) + i] = TagFile[it.tags[i]]
    BY <1>1, IndexFilesAt, Zenon DEF FilesRead
  <2> QED
    BY <1>4, <1>5, <2>1, Zenon
<1>7. it.types # << >> => \E i \in DOMAIN it.types : i \in DOMAIN s /\ n \in s[i]
  <2> SUFFICES ASSUME it.types # << >>
               PROVE  \E i \in DOMAIN it.types : i \in DOMAIN s /\ n \in s[i]
    OBVIOUS
  <2>1. PICK i \in DOMAIN it.types : it.types[i] = e.type
    BY DEF ItemMatches, Range
  <2>2. TypeFile[e.type] \in Range(FilesOf(e))
    BY FilesOfEvent
  <2>3. s[i] = index[TypeFile[e.type]] /\ i \in DOMAIN s
    BY <1>6, <2>1
  <2> QED
    BY <2>2, <2>3
<1>8. \A i \in DOMAIN it.tags : n \in s[Len(it.types) + i]
  <2> TAKE i \in DOMAIN it.tags
  <2>1. it.tags[i] \in Range(e.tags)
    BY DEF ItemMatches, Range
  <2> QED
    BY <1>6, <2>1, FilesOfEvent
<1>9. n \in UNION Range(s)
  <2>1. CASE it.types # << >>
    BY <1>7, <2>1 DEF Range
  <2>2. CASE it.types = << >>
    <3>1. Len(it.types) = 0
      BY <2>2
    <3>2. Len(FilesRead(it)) # 0
      BY <1>3, EmptySeq
    <3>3. Len(s) = Len(it.tags)
      BY <1>2, <1>4, <1>6, <3>1, <1>3, LenProperties
    <3>4. 1 \in DOMAIN it.tags
      BY <1>2, <3>2, <3>3
    <3>5. Len(it.types) + 1 \in DOMAIN s /\ n \in s[Len(it.types) + 1]
      BY <1>6, <1>8, <3>4
    <3> QED
      BY <3>5 DEF Range
  <2> QED
    BY <2>1, <2>2
<1> QED
  BY <1>7, <1>8, <1>9 DEF ItemPositions

\* The files of a sequence are its first one and the remaining ones.
LEMMA RangeOfHeadTail ==
  ASSUME NEW S, NEW s \in Seq(S), s # << >>
  PROVE  Head(s) \in S /\ Range(s) = {Head(s)} \cup Range(Tail(s))
<1>1. Head(s) \in Range(s) /\ Range(Tail(s)) \subseteq Range(s)
  BY RangeHeadTail
<1>2. Len(s) \in Nat \ {0} /\ DOMAIN s = 1 .. Len(s) /\ Head(s) = s[1] /\ Head(s) \in S
  BY EmptySeq, LenProperties, HeadTailProperties
<1>3. /\ DOMAIN Tail(s) = 1 .. Len(s) - 1
      /\ \A i \in 1 .. Len(s) - 1 : Tail(s)[i] = s[i + 1]
  BY <1>2, HeadTailProperties, LenProperties
<1>4. ASSUME NEW i \in DOMAIN s, i # 1
      PROVE  s[i] \in Range(Tail(s))
  <2>1. i - 1 \in DOMAIN Tail(s) /\ Tail(s)[i - 1] = s[(i - 1) + 1] /\ (i - 1) + 1 = i
    BY <1>2, <1>3, <1>4
  <2> QED
    BY <2>1 DEF Range
<1> QED
  BY <1>1, <1>2, <1>4 DEF Range

\* An unlimited read that returns nothing has resolved no position of an event
\* that matches.
LEMMA NothingReturned ==
  ASSUME NEW stored, NEW q, NEW positions, NEW desc,
         Returned(stored, q, positions, None, desc) = {}
  PROVE  \A n \in positions : ~Matches(q, stored[n])
<1>1. Truncated(q, positions, None, desc) = positions
  BY DEF Truncated
<1> QED
  BY <1>1 DEF Returned

-----------------------------------------------------------------------------
(* Who changes what *)

\* A process changes no other process's local variables.
Locals(p) ==
  <<pc[p], call[p], seq[p], rest[p], pend[p], item[p], seen[p], found[p], result[p]>>

Acts(p) == Step(p) \/ Crash(p) \/ CrashUnstamped(p) \/ \E c \in Calls : Invoke(p, c)

\* What p does without dying.
Lives(p) == Step(p) \/ \E c \in Calls : Invoke(p, c)

\* What p does leaves the local variables of the others alone.
LEMMA OthersKeepLocals ==
  ASSUME TypeOK, NEW p \in Proc, NEW q \in Proc, q # p, Acts(p)
  PROVE  UNCHANGED Locals(q)
<1> USE DEF TypeOK, Locals, Go, Finish, resolving
<1>1. ASSUME NEW c \in Calls, Invoke(p, c)
      PROVE  UNCHANGED Locals(q)
  BY <1>1 DEF Invoke
<1>2. CASE AcquireLock(p)
  BY <1>2 DEF AcquireLock
<1>3. ASSUME NEW failed \in BOOLEAN, ScanEvents(p, failed)
      PROVE  UNCHANGED Locals(q)
  BY <1>3 DEF ScanEvents
<1>4. ASSUME NEW failed \in BOOLEAN, ListEvents(p, failed)
      PROVE  UNCHANGED Locals(q)
  BY <1>4 DEF ListEvents
<1>5. ASSUME NEW failed \in BOOLEAN, ReadIndex(p, failed)
      PROVE  UNCHANGED Locals(q)
  BY <1>5 DEF ReadIndex
<1>6. CASE ResolveItem(p)
  BY <1>6 DEF ResolveItem
<1>7. ASSUME NEW failed \in BOOLEAN, LoadEvents(p, failed)
      PROVE  UNCHANGED Locals(q)
  <2>1. UNCHANGED <<call, seq, rest, pend, item, seen, found>>
    BY <1>7 DEF LoadEvents
  <2>2. /\ \E label : Go(p, label)
        /\ result' = result \/ \E status, positions : Finish(p, status, positions)
    BY <1>7 DEF LoadEvents
  <2> QED
    BY <2>1, <2>2
<1>8. CASE WriteEvent(p)
  BY <1>8 DEF WriteEvent
<1>9. ASSUME NEW failed \in BOOLEAN, UpdateIndex(p, failed)
      PROVE  UNCHANGED Locals(q)
  BY <1>9 DEF UpdateIndex
<1>10. CASE IndexLockFails(p)
  BY <1>10 DEF IndexLockFails
<1>11. CASE NextEvent(p)
  BY <1>11 DEF NextEvent
<1>12. CASE FinishBatch(p)
  BY <1>12 DEF FinishBatch
<1>13. CASE ReleaseLock(p)
  BY <1>13 DEF ReleaseLock
<1>14. CASE EventWriteFails(p)
  BY <1>14 DEF EventWriteFails
<1>15. CASE IndexWriteFails(p)
  BY <1>15 DEF IndexWriteFails
<1>16. CASE JudgeLock(p) \/ BreakLock(p)
  BY <1>16 DEF JudgeLock, BreakLock
<1>17. CASE Crash(p) \/ CrashUnstamped(p)
  BY <1>17 DEF Crash, CrashUnstamped
<1> QED
  BY <1>1, <1>2, <1>3, <1>4, <1>5, <1>6, <1>7, <1>8, <1>9, <1>10, <1>11, <1>12, <1>13,
     <1>14, <1>15, <1>16, <1>17 DEF Acts, Step

\* Seen from p, a step is p's own or leaves p's local variables alone.
LEMMA OwnOrOther ==
  ASSUME TypeOK, [Next]_vars, NEW p \in Proc
  PROVE  Acts(p) \/ UNCHANGED Locals(p)
<1>1. CASE UNCHANGED vars
  BY <1>1 DEF vars, resolving, Locals
<1>2. CASE Quiet
  BY <1>1, <1>2 DEF Quiet
<1>3. ASSUME NEW q \in Proc, Acts(q)
      PROVE  Acts(p) \/ UNCHANGED Locals(p)
  BY <1>3, OthersKeepLocals
<1> QED
  BY <1>1, <1>2, <1>3 DEF Next, Acts

\* While p evaluates its condition nobody changes an event or an index file.
LEMMA StoreIsStill ==
  ASSUME Inv2, [Next]_vars, NEW p \in Proc, pc[p] = "scan" \/ Checking(p)
  PROVE  UNCHANGED <<events, index>>
<1>1. Appending(p)
  BY DEF Appending, Checking
<1>2. \A q \in Proc : pc[q] \in {"write", "index"} => q = p
  BY <1>1 DEF Inv2, SequenceReserved, LockHeld, Appending
<1>3. \A q \in Proc : ~WriteEvent(q)
  BY <1>2 DEF WriteEvent, Checking
<1>4. \A q \in Proc, failed \in BOOLEAN : ~UpdateIndex(q, failed)
  BY <1>2 DEF UpdateIndex, Checking
<1>5. \A q \in Proc : AcquireLock(q) \/ ReleaseLock(q) \/ BreakLock(q) \/ CrashUnstamped(q) => UNCHANGED <<events, index>>
  BY DEF AcquireLock, ReleaseLock, BreakLock, CrashUnstamped
<1> QED
  BY <1>3, <1>4, <1>5, WhoChangesTheStore

\* A step changes the log only by an event at its end.
LEMMA LogGrowsAtItsEnd ==
  ASSUME Inv1, SequenceReserved, [Next]_vars
  PROVE  \/ UNCHANGED events
         \/ /\ DOMAIN events' = DOMAIN events \cup {End}
            /\ \A n \in DOMAIN events : events'[n] = events[n]
<1>1. ASSUME NEW p \in Proc, WriteEvent(p)
      PROVE  /\ DOMAIN events' = DOMAIN events \cup {End}
             /\ \A n \in DOMAIN events : events'[n] = events[n]
  <2>1. seq[p] = End
    BY <1>1 DEF WriteEvent, Inv2, SequenceReserved, SequenceFresh, Appending, End
  <2> QED
    BY <1>1, <2>1, WriteKeepsEvents
<1>2. \A p \in Proc : AcquireLock(p) \/ ReleaseLock(p) \/ BreakLock(p) \/ CrashUnstamped(p) => UNCHANGED events
  BY DEF AcquireLock, ReleaseLock, BreakLock, CrashUnstamped
<1>3. \A p \in Proc, failed \in BOOLEAN : UpdateIndex(p, failed) => UNCHANGED events
  BY DEF UpdateIndex
<1> QED
  BY <1>1, <1>2, <1>3, WhoChangesTheStore

\* No index operation fails.
LEMMA NoIndexErrors ==
  ASSUME IndexOperationsSucceed, NEW p \in Proc
  PROVE  /\ ~ScanEvents(p, TRUE) /\ ~ListEvents(p, TRUE) /\ ~ReadIndex(p, TRUE)
         /\ ~UpdateIndex(p, TRUE) /\ ~IndexLockFails(p) /\ ~IndexWriteFails(p)
BY DEF IndexOperationsSucceed, Storage, ScanEvents, ListEvents, ReadIndex, UpdateIndex,
       IndexLockFails, IndexWriteFails

\* With reliable storage no index operation fails and nobody dies.
LEMMA NoIndexFaults ==
  ASSUME IndexStorageReliable, NEW p \in Proc
  PROVE  /\ ~ScanEvents(p, TRUE) /\ ~ListEvents(p, TRUE) /\ ~ReadIndex(p, TRUE)
         /\ ~UpdateIndex(p, TRUE) /\ ~IndexLockFails(p) /\ ~IndexWriteFails(p) /\ ~Crash(p) /\ ~CrashUnstamped(p)
<1>1. IndexOperationsSucceed
  BY DEF IndexStorageReliable, IndexOperationsSucceed
<1>2. ~Crash(p) /\ ~CrashUnstamped(p)
  BY DEF IndexStorageReliable, Storage, Crash, CrashUnstamped
<1> QED
  BY <1>1, <1>2, NoIndexErrors

\* The steps that are left to p, if it does not die.
LEMMA LivingSteps ==
  ASSUME IndexOperationsSucceed, NEW p \in Proc, Lives(p)
  PROVE  \/ \E c \in Calls : Invoke(p, c)
         \/ AcquireLock(p) \/ ScanEvents(p, FALSE) \/ ListEvents(p, FALSE) \/ ReadIndex(p, FALSE)
         \/ ResolveItem(p) \/ LoadEvents(p, FALSE) \/ LoadEvents(p, TRUE)
         \/ WriteEvent(p) \/ UpdateIndex(p, FALSE) \/ NextEvent(p) \/ FinishBatch(p)
         \/ ReleaseLock(p) \/ EventWriteFails(p) \/ JudgeLock(p) \/ BreakLock(p)
<1>1. \A failed \in BOOLEAN : failed = TRUE \/ failed = FALSE
  OBVIOUS
<1> QED
  BY <1>1, NoIndexErrors, Zenon DEF Lives, Step

\* The steps that are left to p with reliable storage.
LEMMA OwnSteps ==
  ASSUME IndexStorageReliable, NEW p \in Proc, Acts(p)
  PROVE  \/ \E c \in Calls : Invoke(p, c)
         \/ AcquireLock(p) \/ ScanEvents(p, FALSE) \/ ListEvents(p, FALSE) \/ ReadIndex(p, FALSE)
         \/ ResolveItem(p) \/ LoadEvents(p, FALSE) \/ LoadEvents(p, TRUE)
         \/ WriteEvent(p) \/ UpdateIndex(p, FALSE) \/ NextEvent(p) \/ FinishBatch(p)
         \/ ReleaseLock(p) \/ EventWriteFails(p) \/ JudgeLock(p) \/ BreakLock(p)
<1>1. IndexOperationsSucceed
  BY DEF IndexStorageReliable, IndexOperationsSucceed
<1>2. Lives(p)
  BY NoIndexFaults DEF Acts, Lives
<1> QED
  BY <1>1, <1>2, LivingSteps

-----------------------------------------------------------------------------
(* The invariant is inductive *)

\* The local variables follow the labels.
LEMMA ProgressStep ==
  ASSUME IndexStorageReliable, ConditionsNameTypesOrTags, Inv3, [Next]_vars, NEW p \in Proc
  PROVE  Progress(p)'
<1>1. TypeOK /\ Progress(p) /\ SeqInRange
  BY DEF Inv3, Inv2, Inv1
<1>2. CASE UNCHANGED Locals(p)
  BY <1>1, <1>2 DEF Progress, Checking, Locals
<1>3. CASE Acts(p)
  <2> USE <1>1 DEF TypeOK, Progress, Checking, Go, Finish, resolving
  <2>1. ASSUME NEW c \in Calls, Invoke(p, c)
        PROVE  Progress(p)'
    <3>1. /\ call'[p] = c /\ rest'[p] = c.batch /\ item'[p] = 1 /\ seen'[p] = << >> /\ found'[p] = {}
          /\ result'[p].status = "none"
          /\ pc'[p] = IF c.op = "read" THEN "resolve" ELSE "acquire"
      BY <2>1 DEF Invoke
    <3>2. c.op = "append_if" => NoWildcards(c) /\ c.max = None
      BY ConstantsAssumption DEF ConditionsNameTypesOrTags
    <3>3. Len(c.batch) \in Nat
      BY ConstantsAssumption, LenProperties DEF Call
    <3>4. (call[p].op = "append_if" => NoWildcards(call[p]) /\ call[p].max = None)'
      BY <3>1, <3>2 DEF NoWildcards
    <3>5. (pc[p] # "crashed" /\ Len(rest[p]) <= Len(call[p].batch) /\ rest[p] = call[p].batch)'
      BY <3>1, <3>3
    <3> QED
      BY <3>1, <3>4, <3>5
  <2>2. CASE AcquireLock(p)
    BY <2>2 DEF AcquireLock, NoWildcards
  <2>3. CASE ScanEvents(p, FALSE)
    BY <2>3 DEF ScanEvents, NoWildcards
  <2>4. CASE ListEvents(p, FALSE)
    BY <2>4 DEF ListEvents, NoWildcards
  <2>5. CASE ReadIndex(p, FALSE)
    BY <2>5 DEF ReadIndex, NoWildcards
  <2>6. CASE ResolveItem(p)
    BY <2>6 DEF ResolveItem, NoWildcards
  <2>7. CASE LoadEvents(p, FALSE) \/ LoadEvents(p, TRUE)
    <3>1. pc[p] = "load" /\ UNCHANGED <<call, rest>>
      BY <2>7 DEF LoadEvents
    <3>2. pc'[p] \in {"idle", "release"} \/ (pc'[p] = "write" /\ UNCHANGED result)
      BY <2>7 DEF LoadEvents
    <3> QED
      BY <3>1, <3>2 DEF NoWildcards
  <2>8. CASE WriteEvent(p)
    BY <2>8 DEF WriteEvent, NoWildcards
  <2>9. CASE UpdateIndex(p, FALSE)
    BY <2>9 DEF UpdateIndex, NoWildcards
  <2>10. CASE NextEvent(p)
    <3>1. pc[p] = "index" /\ pc'[p] = "write" /\ rest'[p] = Tail(rest[p]) /\ UNCHANGED <<call, result>>
      BY <2>10 DEF NextEvent
    <3>2. rest[p] \in Seq(Event) /\ rest[p] # << >>
      BY <3>1 DEF SeqInRange
    <3>3. Len(rest'[p]) = Len(rest[p]) - 1 /\ Len(rest[p]) \in Nat
      BY <3>1, <3>2, HeadTailProperties, LenProperties
    <3>4. Len(call[p].batch) \in Nat
      <4>1. call[p].batch \in Seq(Event)
        BY DEF Call
      <4> QED
        BY <4>1, LenProperties
    <3> QED
      BY <3>1, <3>3, <3>4 DEF NoWildcards
  <2>11. CASE FinishBatch(p)
    BY <2>11 DEF FinishBatch, NoWildcards
  <2>12. CASE ReleaseLock(p)
    BY <2>12 DEF ReleaseLock, NoWildcards
  <2>13. CASE EventWriteFails(p)
    BY <2>13 DEF EventWriteFails, NoWildcards
  <2>14. CASE JudgeLock(p) \/ BreakLock(p)
    BY <2>14 DEF JudgeLock, BreakLock, NoWildcards
  <2> QED
    BY <1>3, <2>1, <2>2, <2>3, <2>4, <2>5, <2>6, <2>7, <2>8, <2>9, <2>10, <2>11, <2>12,
       <2>13, <2>14, OwnSteps
<1> QED
  BY <1>1, <1>2, <1>3, OwnOrOther

\* A file leaves `pend` when the index file lists the event.
LEMMA CoveredStays ==
  ASSUME IndexOperationsSucceed, TypeOK, NEW p \in Proc, Lives(p),
         NEW n, NEW f \in IndexFile, Covered(n, f)
  PROVE  Covered(n, f)'
<1>1. /\ pc \in [Proc -> Labels] /\ seq \in [Proc -> Nat] /\ pend \in [Proc -> Seq(IndexFile)]
      /\ index \in [IndexFile -> SUBSET Nat]
  BY DEF TypeOK
<1>2. CASE UpdateIndex(p, FALSE)
  <2> DEFINE file == Head(pend[p])
  <2>1. /\ UNCHANGED <<pc, seq>> /\ pend[p] # << >>
        /\ index' = [index EXCEPT ![file] = index[file] \cup {seq[p]}]
        /\ pend' = [pend EXCEPT ![p] = Tail(pend[p])]
    BY <1>2 DEF UpdateIndex
  <2>2. file \in IndexFile /\ Range(pend[p]) = {file} \cup Range(Tail(pend[p]))
    BY <1>1, <2>1, RangeOfHeadTail
  <2> HIDE DEF file
  <2>3. CASE n \in index[f]
    BY <1>1, <2>1, <2>2, <2>3 DEF Covered
  <2>4. ASSUME NEW q \in Proc, pc[q] = "index", seq[q] = n, f \in Range(pend[q])
        PROVE  n \in index'[f] \/ f \in Range(pend'[q])
    <3>1. CASE q # p
      BY <1>1, <2>1, <2>4, <3>1
    <3>2. CASE q = p /\ f = file
      BY <1>1, <2>1, <2>2, <2>4, <3>2
    <3>3. CASE q = p /\ f # file
      BY <1>1, <2>1, <2>2, <2>4, <3>3
    <3> QED
      BY <3>1, <3>2, <3>3
  <2> QED
    BY <2>1, <2>3, <2>4 DEF Covered
<1>3. CASE NextEvent(p)
  <2>1. /\ UNCHANGED <<index, pend>> /\ pend[p] = << >>
        /\ \A q \in Proc : q # p => pc'[q] = pc[q] /\ seq'[q] = seq[q]
    BY <1>1, <1>3 DEF NextEvent, store, Go
  <2>2. Range(pend[p]) = {}
    BY <2>1 DEF Range
  <2> QED
    BY <2>1, <2>2 DEF Covered
<1>4. ASSUME index' = index, pc[p] # "index"
      PROVE  Covered(n, f)'
  <2>1. \A q \in Proc : q # p => pc'[q] = pc[q] /\ seq'[q] = seq[q] /\ pend'[q] = pend[q]
    BY <1>4, OthersKeepLocals DEF Locals, Lives, Acts
  <2> QED
    BY <1>4, <2>1 DEF Covered
<1>5. index' = index \/ UpdateIndex(p, FALSE)
  <2>1. \A c \in Calls : Invoke(p, c) => index' = index
    BY DEF Invoke, store
  <2> QED
    BY <2>1, LivingSteps
       DEF store, AcquireLock, ScanEvents, ListEvents, ReadIndex, ResolveItem, LoadEvents, WriteEvent,
           NextEvent, FinishBatch, ReleaseLock, EventWriteFails, JudgeLock, BreakLock
<1>6. pc[p] # "index" \/ UpdateIndex(p, FALSE) \/ NextEvent(p)
  <2>1. \A c \in Calls : Invoke(p, c) => pc[p] # "index"
    BY DEF Invoke
  <2> QED
    BY <2>1, LivingSteps
       DEF AcquireLock, ScanEvents, ListEvents, ReadIndex, ResolveItem, LoadEvents,
           WriteEvent, FinishBatch, ReleaseLock, EventWriteFails, JudgeLock, BreakLock
<1> QED
  BY <1>2, <1>3, <1>4, <1>5, <1>6

\* An event joins the log together with its index files.
LEMMA IndexCompleteAct ==
  ASSUME IndexOperationsSucceed, Inv1, SequenceReserved, IndexComplete,
         NEW p \in Proc, Lives(p)
  PROVE  IndexComplete'
<1>1. /\ TypeOK /\ pc \in [Proc -> Labels] /\ seq \in [Proc -> Nat] /\ pend \in [Proc -> Seq(IndexFile)]
      /\ events \in [DOMAIN events -> Event]
  BY DEF Inv1, TypeOK
<1>2. ASSUME NEW n \in DOMAIN events, NEW f \in Range(FilesOf(events[n]))
      PROVE  Covered(n, f)'
  <2>1. f \in IndexFile
    <3>1. FilesOf(events[n]) \in Seq(IndexFile)
      BY <1>1, FilesOfType
    <3> QED
      BY <1>2, <3>1 DEF Range
  <2> QED
    BY <1>1, <1>2, <2>1, CoveredStays DEF IndexComplete
<1>3. CASE WriteEvent(p)
  <2>1. /\ seq' = seq /\ pc' = [pc EXCEPT ![p] = "index"]
        /\ pend' = [pend EXCEPT ![p] = FilesOf(Head(rest[p]))]
    BY <1>3 DEF WriteEvent, Go
  <2>2. /\ DOMAIN events' = DOMAIN events \cup {seq[p]}
        /\ \A n \in DOMAIN events : events'[n] = events[n]
        /\ events'[seq[p]] = Head(rest[p])
    BY <1>3, WriteKeepsEvents
  <2>3. ASSUME NEW n \in DOMAIN events', NEW f \in Range(FilesOf(events'[n]))
        PROVE  Covered(n, f)'
    <3>1. CASE n \in DOMAIN events
      BY <1>2, <2>2, <2>3, <3>1
    <3>2. CASE n = seq[p]
      BY <1>1, <2>1, <2>2, <2>3, <3>2 DEF Covered
    <3> QED
      BY <2>2, <2>3, <3>1, <3>2
  <2> QED
    BY <2>3 DEF IndexComplete
<1>4. CASE events' = events
  BY <1>2, <1>4 DEF IndexComplete
<1>5. events' = events \/ WriteEvent(p)
  <2>1. \A c \in Calls : Invoke(p, c) => events' = events
    BY DEF Invoke, store
  <2> QED
    BY <2>1, LivingSteps
       DEF store, AcquireLock, ScanEvents, ListEvents, ReadIndex, ResolveItem, LoadEvents, UpdateIndex,
           NextEvent, FinishBatch, ReleaseLock, EventWriteFails, JudgeLock, BreakLock
<1> QED
  BY <1>3, <1>4, <1>5

LEMMA IndexCompleteStep ==
  ASSUME IndexStorageReliable, Inv2, IndexComplete, [Next]_vars
  PROVE  IndexComplete'
<1>1. IndexOperationsSucceed
  BY DEF IndexStorageReliable, IndexOperationsSucceed
<1>2. ASSUME NEW p \in Proc, Acts(p)
      PROVE  IndexComplete'
  <2>1. Lives(p)
    BY <1>2, NoIndexFaults DEF Acts, Lives
  <2> QED
    BY <1>1, <2>1, IndexCompleteAct DEF Inv2
<1>3. CASE UNCHANGED vars
  BY <1>3 DEF vars, store, IndexComplete, Covered
<1> QED
  BY <1>2, <1>3 DEF Next, Acts, Quiet

\* With the lock held by a process that is not writing, index files are complete.
LEMMA CompleteWhileChecking ==
  ASSUME Inv3, NEW p \in Proc, Checking(p)
  PROVE  \A n \in DOMAIN events : \A f \in Range(FilesOf(events[n])) : n \in index[f]
<1>1. \A q \in Proc : pc[q] # "index"
  BY DEF Inv3, Inv2, SequenceReserved, LockHeld, Appending, Checking
<1> QED
  BY <1>1 DEF Inv3, IndexComplete, Covered

\* Resolving an item finds every event that it matches: what p has read of the
\* index files is complete, because nobody writes while p checks.
LEMMA ItemResolved ==
  ASSUME Inv3, NEW p \in Proc, ResolveItem(p), call[p].op = "append_if"
  PROVE  \A i \in DOMAIN call[p].query : \A n \in DOMAIN events :
           i < item[p] + 1 /\ ItemMatches(call[p].query[i], events[n])
             => n \in found[p] \cup ItemPositions(call[p].query[item[p]], seen[p])
<1>0. TypeOK /\ Progress(p) /\ Resolving(p)
  BY DEF Inv3, Inv2, Inv1
<1> DEFINE it == call[p].query[item[p]]
<1>1. /\ pc[p] = "resolve" /\ item[p] \in DOMAIN call[p].query
      /\ Len(seen[p]) = Len(FilesRead(it))
  BY DEF ResolveItem
<1>2. call[p].query \in Seq(QueryItem) /\ seen[p] \in Seq(SUBSET Nat) /\ item[p] \in Nat
  BY <1>0 DEF TypeOK, Call, Query
<1>3. it \in QueryItem
  BY <1>1, <1>2, LenProperties, ElementOfSeq
<1>4. FilesRead(it) # << >>
  BY <1>0, <1>1 DEF Progress, NoWildcards
<1>5. \A j \in 1 .. Len(seen[p]) : seen[p][j] = index[FilesRead(it)[j]]
  BY <1>0, <1>1 DEF Resolving
<1>6. \A n \in DOMAIN events : events[n] \in Event
  BY <1>0 DEF TypeOK
<1>7. \A n \in DOMAIN events : \A f \in Range(FilesOf(events[n])) : n \in index[f]
  BY <1>1, CompleteWhileChecking DEF Checking
<1> HIDE DEF it
<1>8. \A n \in DOMAIN events : ItemMatches(it, events[n]) => n \in ItemPositions(it, seen[p])
  BY <1>1, <1>2, <1>3, <1>4, <1>5, <1>6, <1>7, ItemPositionsComplete
<1>9. \A i \in DOMAIN call[p].query : i < item[p] + 1 => i < item[p] \/ i = item[p]
  <2>1. DOMAIN call[p].query \subseteq Nat
    BY <1>2, LenProperties
  <2> QED
    BY <1>2, <2>1
<1>10. \A i \in DOMAIN call[p].query : \A n \in DOMAIN events :
         i < item[p] /\ ItemMatches(call[p].query[i], events[n]) => n \in found[p]
  BY <1>0, <1>1 DEF Resolving
<1> QED
  BY <1>8, <1>9, <1>10 DEF it

\* Nobody starts to check a condition but on the way from `scan` to `load`.
LEMMA WhoChecks ==
  ASSUME IndexStorageReliable, TypeOK, NEW p \in Proc, Acts(p), Checking(p)'
  PROVE  ScanEvents(p, FALSE) \/ ListEvents(p, FALSE) \/ ReadIndex(p, FALSE) \/ ResolveItem(p)
<1> USE DEF TypeOK, Checking, Go
<1>1. \A c \in Calls : ~Invoke(p, c)
  BY DEF Invoke
<1>2. ~LoadEvents(p, FALSE) /\ ~LoadEvents(p, TRUE)
  <2>1. \A failed \in BOOLEAN : LoadEvents(p, failed) => pc'[p] \in {"idle", "release", "write"}
    BY DEF LoadEvents
  <2> QED
    BY <2>1
<1>3. ~AcquireLock(p) /\ ~WriteEvent(p) /\ ~UpdateIndex(p, FALSE) /\ ~NextEvent(p)
  BY DEF AcquireLock, WriteEvent, UpdateIndex, NextEvent
<1>4. ~FinishBatch(p) /\ ~ReleaseLock(p) /\ ~EventWriteFails(p) /\ ~JudgeLock(p) /\ ~BreakLock(p)
  BY DEF FinishBatch, ReleaseLock, EventWriteFails, JudgeLock, BreakLock
<1> HIDE DEF TypeOK, Checking, Go
<1> QED
  BY <1>1, <1>2, <1>3, <1>4, OwnSteps

\* What p has read stays what the index files hold until it has resolved it.
LEMMA ResolvingStep ==
  ASSUME IndexStorageReliable, Inv3, [Next]_vars, NEW p \in Proc
  PROVE  Resolving(p)'
<1>1. TypeOK /\ Inv2 /\ Progress(p) /\ Resolving(p)
  BY DEF Inv3, Inv2, Inv1
<1>2. CASE UNCHANGED Locals(p)
  <2>1. CASE Checking(p)
    <3>1. UNCHANGED <<events, index>>
      BY <1>1, <2>1, StoreIsStill
    <3> QED
      BY <1>1, <1>2, <3>1 DEF Resolving, Locals
  <2>2. CASE ~Checking(p)
    BY <1>2, <2>2 DEF Resolving, Checking, Locals
  <2> QED
    BY <2>1, <2>2
<1>3. CASE ScanEvents(p, FALSE)
  <2>1. UNCHANGED <<call, item, seen>> /\ item[p] = 1 /\ seen[p] = << >>
    BY <1>1, <1>3 DEF ScanEvents, resolving, Progress
  <2>2. Len(seen'[p]) = 0
    BY <2>1
  <2>3. \A i \in DOMAIN call[p].query : ~(i < item'[p])
    <3>1. call[p].query \in Seq(QueryItem)
      BY <1>1 DEF TypeOK, Call, Query
    <3>2. DOMAIN call[p].query = 1 .. Len(call[p].query) /\ Len(call[p].query) \in Nat
      BY <3>1, LenProperties
    <3> QED
      BY <2>1, <3>2
  <2>4. item'[p] \in DOMAIN call[p].query =>
          0 <= Len(FilesRead(call[p].query[item'[p]]))
    <3>1. ASSUME item'[p] \in DOMAIN call[p].query
          PROVE  call[p].query[item'[p]] \in QueryItem
      <4>1. call[p].query \in Seq(QueryItem)
        BY <1>1 DEF TypeOK, Call, Query
      <4> QED
        BY <3>1, <4>1, LenProperties, ElementOfSeq
    <3> QED
      BY <3>1, FilesReadType, LenProperties
  <2> QED
    BY <2>1, <2>2, <2>3, <2>4 DEF Resolving
<1>4. CASE ReadIndex(p, FALSE)
  <2> DEFINE files == FilesRead(call[p].query[item[p]])
             held == index[files[Len(seen[p]) + 1]]
  <2>1. /\ UNCHANGED <<events, index, pc, call, item, found>>
        /\ pc[p] = "resolve" /\ item[p] \in DOMAIN call[p].query
        /\ Len(seen[p]) < Len(files) /\ seen'[p] = Append(seen[p], held)
    BY <1>1, <1>4 DEF ReadIndex, store, TypeOK
  <2> SUFFICES ASSUME call[p].op = "append_if"
               PROVE  Resolving(p)'
    BY <2>1 DEF Resolving
  <2>2. \A j \in 1 .. Len(seen[p]) : seen[p][j] = index[files[j]]
    BY <1>1, <2>1 DEF Resolving
  <2>3. call[p].query[item[p]] \in QueryItem
    <3>1. call[p].query \in Seq(QueryItem)
      BY <1>1 DEF TypeOK, Call, Query
    <3> QED
      BY <2>1, <3>1, LenProperties, ElementOfSeq
  <2>4. files \in Seq(IndexFile) /\ seen[p] \in Seq(SUBSET Nat)
    BY <1>1, <2>3, FilesReadType DEF TypeOK
  <2>5. Len(files) \in Nat /\ Len(seen[p]) \in Nat
    BY <2>4, LenProperties
  <2>6. held \in SUBSET Nat
    <3>1. files[Len(seen[p]) + 1] \in IndexFile
      BY <2>1, <2>4, <2>5, ElementOfSeq
    <3> QED
      BY <1>1, <3>1 DEF TypeOK
  <2> HIDE DEF held
  <2>7. /\ Len(Append(seen[p], held)) = Len(seen[p]) + 1
        /\ \A j \in 1 .. Len(seen[p]) : Append(seen[p], held)[j] = seen[p][j]
        /\ Append(seen[p], held)[Len(seen[p]) + 1] = held
    BY <2>4, <2>6, AppendProperties
  <2>8. Len(seen'[p]) <= Len(files)
    BY <2>1, <2>5, <2>7
  <2>9. ASSUME NEW j \in 1 .. Len(seen'[p])
        PROVE  seen'[p][j] = index[files[j]]
    <3>1. CASE j = Len(seen[p]) + 1
      BY <2>1, <2>7, <3>1 DEF held
    <3>2. CASE j # Len(seen[p]) + 1
      <4>1. j \in 1 .. Len(seen[p])
        BY <2>1, <2>5, <2>7, <3>2
      <4> QED
        BY <2>1, <2>2, <2>7, <4>1
    <3> QED
      BY <3>1, <3>2
  <2>10. \A i \in DOMAIN call[p].query : \A n \in DOMAIN events :
           i < item[p] /\ ItemMatches(call[p].query[i], events[n]) => n \in found[p]
    BY <1>1, <2>1 DEF Resolving
  <2> QED
    BY <2>1, <2>8, <2>9, <2>10 DEF Resolving
<1>5. CASE ResolveItem(p)
  <2> DEFINE all == found[p] \cup ItemPositions(call[p].query[item[p]], seen[p])
             last == item[p] = Len(call[p].query)
  <2>1. /\ UNCHANGED <<events, index, call>>
        /\ item'[p] = item[p] + 1 /\ seen'[p] = << >>
        /\ pc'[p] = IF last THEN "load" ELSE "resolve"
        /\ found'[p] = IF last THEN FromStart(all, call[p].after) ELSE all
    BY <1>1, <1>5 DEF ResolveItem, store, Go, TypeOK
  <2> SUFFICES ASSUME pc'[p] = "resolve", call[p].op = "append_if"
               PROVE  Resolving(p)'
    BY <2>1 DEF Resolving
  <2>2. found'[p] = all
    BY <2>1
  <2>3. ASSUME item'[p] \in DOMAIN call[p].query
        PROVE  0 <= Len(FilesRead(call[p].query[item'[p]]))
    <3>1. call[p].query \in Seq(QueryItem)
      BY <1>1 DEF TypeOK, Call, Query
    <3>2. call[p].query[item'[p]] \in QueryItem
      BY <2>3, <3>1, LenProperties, ElementOfSeq
    <3> QED
      BY <3>2, FilesReadType, LenProperties
  <2>4. Len(seen'[p]) = 0
    BY <2>1
  <2>5. \A i \in DOMAIN call[p].query : \A n \in DOMAIN events :
          i < item'[p] /\ ItemMatches(call[p].query[i], events[n]) => n \in found'[p]
    BY <1>5, <2>1, <2>2, ItemResolved
  <2> HIDE DEF all, last
  <2> QED
    BY <2>1, <2>3, <2>4, <2>5 DEF Resolving
<1>6. CASE ListEvents(p, FALSE)
  <2>1. pc'[p] = "load"
    BY <1>1, <1>6 DEF ListEvents, Go, TypeOK
  <2> QED
    BY <2>1 DEF Resolving
<1>7. CASE ~Checking(p)'
  BY <1>7 DEF Checking, Resolving
<1> QED
  BY <1>1, <1>2, <1>3, <1>4, <1>5, <1>6, <1>7, OwnOrOther, WhoChecks

\* Once the last item is resolved, nothing that the condition forbids is missing.
LEMMA ResolvedStep ==
  ASSUME IndexStorageReliable, Inv3, [Next]_vars, NEW p \in Proc
  PROVE  Resolved(p)'
<1>1. TypeOK /\ Inv2 /\ Resolved(p) /\ call[p].after \in Nat \cup {None} /\ DOMAIN events \subseteq Nat
  BY DEF Inv3, Inv2, Inv1, TypeOK, Call
<1>2. \A n \in Nat : n > call[p].after => n >= call[p].after + 1
  BY <1>1 DEF None
<1>3. CASE UNCHANGED Locals(p)
  <2>1. CASE Checking(p)
    <3>1. UNCHANGED <<events, index>>
      BY <1>1, <2>1, StoreIsStill
    <3> QED
      BY <1>1, <1>3, <3>1 DEF Resolved, Locals
  <2>2. CASE ~Checking(p)
    BY <1>3, <2>2 DEF Resolved, Checking, Locals
  <2> QED
    BY <2>1, <2>2
<1>4. CASE ListEvents(p, FALSE)
  <2>1. /\ UNCHANGED <<events, call>>
        /\ found'[p] = FromStart(DOMAIN events, call[p].after)
    BY <1>1, <1>4 DEF ListEvents, store, TypeOK
  <2>2. Matching(events, call[p].query, call[p].after) \subseteq FromStart(DOMAIN events, call[p].after)
    BY <1>1, <1>2 DEF Matching, FromStart
  <2> QED
    BY <2>1, <2>2 DEF Resolved
<1>5. CASE ResolveItem(p)
  <2> DEFINE all == found[p] \cup ItemPositions(call[p].query[item[p]], seen[p])
             last == item[p] = Len(call[p].query)
  <2>1. /\ UNCHANGED <<events, call>> /\ item[p] \in DOMAIN call[p].query
        /\ pc'[p] = IF last THEN "load" ELSE "resolve"
        /\ found'[p] = IF last THEN FromStart(all, call[p].after) ELSE all
    BY <1>1, <1>5 DEF ResolveItem, store, Go, TypeOK
  <2> SUFFICES ASSUME pc'[p] = "load", call[p].op = "append_if"
               PROVE  Matching(events, call[p].query, call[p].after) \subseteq found'[p]
    BY <2>1 DEF Resolved
  <2>2. last /\ found'[p] = FromStart(all, call[p].after)
    BY <2>1
  <2>3. call[p].query \in Seq(QueryItem) /\ call[p].query # All
    <3>1. call[p].query \in Seq(QueryItem)
      BY <1>1 DEF TypeOK, Call, Query
    <3>2. DOMAIN All = {}
      BY DEF All
    <3> QED
      BY <2>1, <3>1, <3>2
  <2>4. DOMAIN call[p].query = 1 .. Len(call[p].query) /\ Len(call[p].query) \in Nat
    BY <2>3, LenProperties
  <2>5. \A i \in DOMAIN call[p].query : \A n \in DOMAIN events :
          ItemMatches(call[p].query[i], events[n]) => n \in all
    <3>1. \A i \in DOMAIN call[p].query : i < item[p] + 1
      BY <2>2, <2>4
    <3> QED
      BY <1>5, <3>1, ItemResolved
  <2> HIDE DEF all, last
  <2>6. \A n \in DOMAIN events : Matches(call[p].query, events[n]) => n \in all
    BY <2>3, <2>5 DEF Matches
  <2> QED
    BY <1>1, <1>2, <2>2, <2>6 DEF Matching, FromStart
<1>6. CASE ScanEvents(p, FALSE)
  <2>1. pc'[p] # "load"
    BY <1>1, <1>6 DEF ScanEvents, Go, TypeOK
  <2> QED
    BY <2>1 DEF Resolved
<1>7. CASE ReadIndex(p, FALSE)
  <2>1. pc'[p] # "load"
    BY <1>1, <1>7 DEF ReadIndex
  <2> QED
    BY <2>1 DEF Resolved
<1>8. CASE ~Checking(p)'
  BY <1>8 DEF Checking, Resolved
<1> QED
  BY <1>1, <1>3, <1>4, <1>5, <1>6, <1>7, <1>8, OwnOrOther, WhoChecks

\* p is past its condition.
Passed(p) ==
  call[p].op = "append_if" /\ (pc[p] \in {"write", "index"} \/ result[p].status = "ok")

\* Whatever a step adds to the log comes after what p has written.
LEMMA AddedAfterBase ==
  ASSUME Inv3, [Next]_vars, NEW p \in Proc, Passed(p)
  PROVE  \A n \in Matching(events', call[p].query, call[p].after) : n >= Base(p)
<1>1. Inv2 /\ TypeOK /\ SeqInRange /\ Progress(p) /\ Honoured(p)
  BY DEF Inv3, Inv2, Inv1
<1>2. \A n \in Matching(events, call[p].query, call[p].after) : n >= Base(p)
  BY <1>1 DEF Honoured, Passed
<1>3. End \in Nat /\ seq[p] \in Nat /\ seq[p] <= End
  BY <1>1 DEF Inv2, Inv1, TypeOK, SeqBehind
<1>4. Len(rest[p]) \in Nat /\ Len(call[p].batch) \in Nat /\ Len(rest[p]) <= Len(call[p].batch)
  <2>1. rest[p] \in Seq(Event) /\ call[p].batch \in Seq(Event)
    BY <1>1 DEF TypeOK, Call
  <2> QED
    BY <1>1, <2>1, LenProperties DEF Progress
<1>5. End >= Base(p)
  <2>1. \A s, e, b, r \in Nat : s <= e /\ r <= b => e >= s - (b - r)
    OBVIOUS
  <2> QED
    BY <1>3, <1>4, <2>1 DEF Base
<1> TAKE n \in Matching(events', call[p].query, call[p].after)
<1>6. CASE UNCHANGED events
  BY <1>2, <1>6
<1>7. CASE /\ DOMAIN events' = DOMAIN events \cup {End}
           /\ \A m \in DOMAIN events : events'[m] = events[m]
  <2>1. n \in DOMAIN events \/ n = End
    BY <1>7 DEF Matching
  <2>2. CASE n \in DOMAIN events
    <3>1. n \in Matching(events, call[p].query, call[p].after)
      BY <1>7, <2>2 DEF Matching
    <3> QED
      BY <1>2, <3>1
  <2> QED
    BY <1>5, <2>1, <2>2
<1> QED
  BY <1>1, <1>6, <1>7, LogGrowsAtItsEnd DEF Inv2

\* p gets past its condition only when nothing violates it, and what comes
\* later lies behind its batch.
LEMMA HonouredStep ==
  ASSUME IndexStorageReliable, Inv3, [Next]_vars, NEW p \in Proc
  PROVE  Honoured(p)'
<1>1. TypeOK /\ SeqInRange /\ Progress(p) /\ Resolved(p) /\ Honoured(p)
  BY DEF Inv3, Inv2, Inv1
<1>2. ASSUME Passed(p), UNCHANGED call, Base(p)' = Base(p)
      PROVE  Honoured(p)'
  BY <1>2, AddedAfterBase DEF Honoured
<1>3. ASSUME ~Passed(p)'
      PROVE  Honoured(p)'
  BY <1>3 DEF Passed, Honoured
<1>4. CASE UNCHANGED Locals(p)
  <2>1. CASE Passed(p)
    <3>1. Base(p)' = Base(p) /\ call'[p] = call[p]
      BY <1>4 DEF Locals, Base
    <3> QED
      BY <2>1, <3>1, AddedAfterBase DEF Honoured
  <2>2. CASE ~Passed(p)
    BY <1>3, <1>4, <2>2 DEF Passed, Locals
  <2> QED
    BY <2>1, <2>2
<1>5. CASE Acts(p)
  <2> USE DEF Go, Finish
  <2>1. ASSUME NEW c \in Calls, Invoke(p, c)
        PROVE  Honoured(p)'
    BY <1>1, <1>3, <2>1 DEF Invoke, TypeOK, Passed
  <2>2. CASE ScanEvents(p, FALSE) \/ ListEvents(p, FALSE) \/ ReadIndex(p, FALSE) \/ ResolveItem(p)
    <3>1. UNCHANGED <<call, result>> /\ pc[p] \in {"scan", "resolve"}
      BY <2>2 DEF ScanEvents, ListEvents, ReadIndex, ResolveItem
    <3>2. call[p].op = "append_if" => pc'[p] \in {"resolve", "load"}
      BY <1>1, <2>2 DEF ScanEvents, ListEvents, ReadIndex, ResolveItem, TypeOK
    <3>3. result[p].status = "none"
      BY <1>1, <3>1 DEF Progress
    <3> QED
      BY <1>3, <3>1, <3>2, <3>3 DEF Passed
  <2>3. ASSUME NEW failed \in BOOLEAN, LoadEvents(p, failed)
        PROVE  Honoured(p)'
    <3> DEFINE got == Returned(events, call[p].query, found[p], call[p].max, call[p].desc)
    <3>1. UNCHANGED <<events, call>> /\ pc[p] = "load"
      BY <2>3 DEF LoadEvents, store
    <3>2. \/ result'[p].status = "io_error" /\ pc'[p] \in {"idle", "release"}
          \/ call[p].op = "read"
          \/ result'[p].status = "condition_failed" /\ pc'[p] = "release"
          \/ got = {}
      BY <1>1, <2>3 DEF LoadEvents, TypeOK
    <3>3. CASE call[p].op = "append_if" /\ got = {}
      <4>1. call[p].max = None /\ Matching(events, call[p].query, call[p].after) \subseteq found[p]
        BY <1>1, <3>1, <3>3 DEF Progress, Resolved
      <4>2. \A n \in found[p] : ~Matches(call[p].query, events[n])
        BY <3>3, <4>1, NothingReturned
      <4>3. Matching(events, call[p].query, call[p].after) = {}
        BY <4>1, <4>2 DEF Matching
      <4> QED
        BY <3>1, <4>3 DEF Honoured
    <3> HIDE DEF got
    <3>4. CASE ~(call[p].op = "append_if" /\ got = {})
      BY <1>3, <3>1, <3>2, <3>4 DEF Passed
    <3> QED
      BY <3>3, <3>4
  <2>4. CASE AcquireLock(p) \/ JudgeLock(p) \/ BreakLock(p)
    <3>1. UNCHANGED <<call, result>> /\ pc[p] \in {"acquire", "unlink"}
          /\ pc'[p] \in {"acquire", "unlink", "scan"}
      BY <1>1, <2>4 DEF AcquireLock, JudgeLock, BreakLock, TypeOK
    <3> QED
      BY <1>1, <1>3, <3>1 DEF Passed, Progress
  <2>5. CASE WriteEvent(p) \/ UpdateIndex(p, FALSE) \/ FinishBatch(p) \/ ReleaseLock(p)
    <3>1. UNCHANGED <<call, seq, rest>>
      BY <2>5 DEF WriteEvent, UpdateIndex, FinishBatch, ReleaseLock
    <3>2. Base(p)' = Base(p)
      BY <3>1 DEF Base
    <3>3. Passed(p)' => Passed(p)
      BY <1>1, <2>5 DEF WriteEvent, UpdateIndex, FinishBatch, ReleaseLock, Passed, TypeOK
    <3> QED
      BY <1>2, <1>3, <3>1, <3>2, <3>3
  <2>6. CASE NextEvent(p)
    <3>1. /\ call' = call /\ pc[p] = "index" /\ UNCHANGED result
          /\ seq'[p] = seq[p] + 1 /\ rest'[p] = Tail(rest[p])
      BY <1>1, <2>6 DEF NextEvent, TypeOK
    <3>2. rest[p] \in Seq(Event) /\ rest[p] # << >> /\ seq[p] \in Nat /\ call[p].batch \in Seq(Event)
      BY <1>1, <3>1 DEF SeqInRange, TypeOK, Call
    <3>3. Len(rest'[p]) = Len(rest[p]) - 1 /\ Len(rest[p]) \in Nat /\ Len(call[p].batch) \in Nat
      BY <3>1, <3>2, HeadTailProperties, LenProperties
    <3>4. Base(p)' = Base(p)
      <4>1. \A s, b, r \in Nat : (s + 1) - (b - (r - 1)) = s - (b - r)
        OBVIOUS
      <4>2. Base(p)' = (seq[p] + 1) - (Len(call[p].batch) - (Len(rest[p]) - 1))
        BY <3>1, <3>3 DEF Base
      <4> QED
        BY <3>2, <3>3, <4>1, <4>2 DEF Base
    <3>5. Passed(p)' => Passed(p)
      BY <3>1 DEF Passed
    <3> QED
      BY <1>2, <1>3, <3>1, <3>4, <3>5
  <2>7. CASE EventWriteFails(p)
    BY <1>1, <1>3, <2>7 DEF EventWriteFails, TypeOK, Passed
  <2> QED
    BY <1>5, <2>1, <2>2, <2>3, <2>4, <2>5, <2>6, <2>7, OwnSteps
<1> QED
  BY <1>1, <1>4, <1>5, OwnOrOther

-----------------------------------------------------------------------------
(* The theorems *)

LEMMA Inv3Init == Init => Inv3
<1> SUFFICES ASSUME Init PROVE Inv3
  OBVIOUS
<1>1. Inv2
  BY Inv2Init
<1>2. IndexComplete
  BY DEF Init, IndexComplete
<1>3. ASSUME NEW p \in Proc
      PROVE  Progress(p) /\ Resolving(p) /\ Resolved(p) /\ Honoured(p)
  <2>1. /\ pc[p] = "idle" /\ call[p].op = "read" /\ rest[p] = << >> /\ call[p].batch = << >>
    BY DEF Init, ReadCall
  <2> QED
    BY <2>1 DEF Progress, Checking, Resolving, Resolved, Honoured
<1> QED
  BY <1>1, <1>2, <1>3 DEF Inv3

LEMMA Inv3Step ==
  ASSUME IndexStorageReliable, ConditionsNameTypesOrTags
  PROVE  Inv3 /\ [Next]_vars => Inv3'
<1> SUFFICES ASSUME Inv3, [Next]_vars
             PROVE  Inv3'
  OBVIOUS
<1>1. Inv2'
  <2>1. ListingsSucceed /\ SafeLock
    BY DEF IndexStorageReliable, ListingsSucceed
  <2> QED
    BY <2>1, Inv2Step DEF Inv3
<1>2. IndexComplete'
  BY IndexCompleteStep DEF Inv3
<1>3. \A p \in Proc : (Progress(p) /\ Resolving(p) /\ Resolved(p) /\ Honoured(p))'
  BY ProgressStep, ResolvingStep, ResolvedStep, HonouredStep
<1> QED
  BY <1>1, <1>2, <1>3 DEF Inv3

LEMMA Inv3Always ==
  ASSUME IndexStorageReliable, ConditionsNameTypesOrTags
  PROVE  Spec => []Inv3
<1>1. Inv3 /\ [Next]_vars => Inv3'
  BY Inv3Step
<1> QED
  BY <1>1, Inv3Init, PTL DEF Spec

\* Whenever nobody holds the lock every event is in its index files: appends
\* that share index files, or colliding ones, never lose each other's entries.
THEOREM IndicesAreComplete ==
  ASSUME IndexStorageReliable
  PROVE  Spec => []IndexedWhenUnlocked
<1>1. Init => Inv2 /\ IndexComplete
  BY Inv2Init DEF Init, IndexComplete
<1>2. Inv2 /\ IndexComplete /\ [Next]_vars => (Inv2 /\ IndexComplete)'
  <2>1. ListingsSucceed /\ SafeLock
    BY DEF IndexStorageReliable, ListingsSucceed
  <2> QED
    BY <2>1, Inv2Step, IndexCompleteStep
<1>3. Inv2 /\ IndexComplete => IndexedWhenUnlocked
  <2> SUFFICES ASSUME Inv2, IndexComplete, lock = Free,
                      NEW n \in DOMAIN events, NEW f \in Range(FilesOf(events[n]))
               PROVE  n \in index[f]
    BY DEF IndexedWhenUnlocked
  <2>1. \A p \in Proc : pc[p] # "index"
    BY ConstantsAssumption DEF Inv2, SequenceReserved, LockHeld, Appending
  <2> QED
    BY <2>1 DEF IndexComplete, Covered
<1> QED
  BY <1>1, <1>2, <1>3, PTL DEF Spec

\* No append that went past its condition has an event before its own that the
\* condition forbids: the check and the writes that follow it are one step to
\* every other caller, and the check through the index files misses nothing.
THEOREM ConditionsAreHonoured ==
  ASSUME IndexStorageReliable, ConditionsNameTypesOrTags
  PROVE  Spec => []ConditionHonoured
<1>1. Inv3 => ConditionHonoured
  BY DEF Inv3, Honoured, ConditionHonoured
<1> QED
  BY <1>1, Inv3Always, PTL

=============================================================================
