------------------------------ MODULE ReadProofs ------------------------------
(***************************************************************************)
(* What read_async returns without ever taking the lock: proofs for any    *)
(* callers, calls, index files and bounds.                                 *)
(*                                                                         *)
(* A read collects what the index files held at different moments.  Three  *)
(* facts about one index file survive from the moment it was read to the   *)
(* end of the read, because events are only added behind the others:       *)
(*   - it lists only events that belong in it,                             *)
(*   - of the events that belong in it, it misses none before one it lists,*)
(*   - it misses none that was settled when the read was called.           *)
(* They carry over to the positions resolved from several files.           *)
(***************************************************************************)
EXTENDS EventStoreProofs, WellFoundedInduction

\* Different types and different tags have different index files.
NamesDiffer ==
  /\ \A t, u \in Type : TypeFile[t] = TypeFile[u] => t = u
  /\ \A g, h \in Tag : TagFile[g] = TagFile[h] => g = h

\* More than ParallelReadMin resolved positions are returned unfiltered: that they match
\* is then up to the index files.
Exact == NamesDiffer \/ Cardinality(DOMAIN events) <= ParallelReadMin

-----------------------------------------------------------------------------
(* Facts about index files *)

\* The files an event is added to, and no other.
LEMMA FilesOfExactly ==
  ASSUME NEW e \in Event, NEW f \in Range(FilesOf(e))
  PROVE  f = TypeFile[e.type] \/ \E g \in Range(e.tags) : f = TagFile[g]
<1>1. <<e.type>> \in Seq(Type) /\ e.tags \in Seq(Tag) /\ DOMAIN <<e.type>> = {1} /\ Len(<<e.type>>) = 1
  BY DEF Event
<1>2. Len(e.tags) \in Nat /\ DOMAIN e.tags = 1 .. Len(e.tags)
  BY <1>1, LenProperties
<1>3. PICK k \in DOMAIN FilesOf(e) : f = FilesOf(e)[k]
  BY DEF Range
<1>4. /\ DOMAIN FilesOf(e) = 1 .. 1 + Len(e.tags)
      /\ FilesOf(e)[1] = TypeFile[e.type]
      /\ \A i \in DOMAIN e.tags : FilesOf(e)[1 + i] = TagFile[e.tags[i]]
  <2>1. \A i \in DOMAIN <<e.type>> : FilesOf(e)[i] = TypeFile[<<e.type>>[i]]
    BY <1>1, IndexFilesAt DEF FilesOf
  <2>2. DOMAIN FilesOf(e) = 1 .. Len(<<e.type>>) + Len(e.tags)
    BY <1>1, IndexFilesAt DEF FilesOf
  <2>3. \A i \in DOMAIN e.tags : FilesOf(e)[Len(<<e.type>>) + i] = TagFile[e.tags[i]]
    BY <1>1, IndexFilesAt DEF FilesOf
  <2> QED
    BY <1>1, <2>1, <2>2, <2>3
<1>5. CASE k = 1
  BY <1>3, <1>4, <1>5
<1>6. CASE k # 1
  <2>1. k - 1 \in DOMAIN e.tags /\ 1 + (k - 1) = k
    BY <1>2, <1>3, <1>4, <1>6
  <2>2. f = TagFile[e.tags[k - 1]]
    BY <1>3, <1>4, <2>1
  <2> QED
    BY <2>1, <2>2 DEF Range
<1> QED
  BY <1>5, <1>6

\* What an item resolves to is listed by the files of a type it names and of all its tags.
LEMMA ItemPositionsListed ==
  ASSUME NEW it \in QueryItem, NEW s \in Seq(SUBSET Nat), Len(s) = Len(FilesRead(it)),
         NEW n \in ItemPositions(it, s)
  PROVE  /\ it.types # << >> => \E i \in DOMAIN it.types :
              i \in DOMAIN s /\ n \in s[i] /\ FilesRead(it)[i] = TypeFile[it.types[i]]
         /\ \A i \in DOMAIN it.tags :
              /\ Len(it.types) + i \in DOMAIN s /\ n \in s[Len(it.types) + i]
              /\ FilesRead(it)[Len(it.types) + i] = TagFile[it.tags[i]]
         /\ \E j \in DOMAIN s : n \in s[j]
<1>1. it.types \in Seq(Type) /\ it.tags \in Seq(Tag) /\ FilesRead(it) \in Seq(IndexFile)
  BY FilesReadType DEF QueryItem
<1>2. DOMAIN s = DOMAIN FilesRead(it)
  BY <1>1, LenProperties
<1>3. /\ \A i \in DOMAIN it.types : i \in DOMAIN s /\ FilesRead(it)[i] = TypeFile[it.types[i]]
      /\ \A i \in DOMAIN it.tags : /\ Len(it.types) + i \in DOMAIN s
                                   /\ FilesRead(it)[Len(it.types) + i] = TagFile[it.tags[i]]
  BY <1>1, <1>2, IndexFilesAt DEF FilesRead
<1>4. /\ it.types # << >> => \E i \in DOMAIN it.types : n \in s[i]
      /\ \A i \in DOMAIN it.tags : n \in s[Len(it.types) + i]
      /\ \E j \in DOMAIN s : n \in s[j]
  BY DEF ItemPositions, Range
<1> QED
  BY <1>3, <1>4

\* If no two names share a file, an event that the files of an item list matches it.
LEMMA ItemPositionsMatch ==
  ASSUME NamesDiffer,
         NEW it \in QueryItem, NEW s \in Seq(SUBSET Nat), Len(s) = Len(FilesRead(it)),
         NEW n \in ItemPositions(it, s), NEW e \in Event,
         \A j \in DOMAIN s : n \in s[j] => FilesRead(it)[j] \in Range(FilesOf(e))
  PROVE  ItemMatches(it, e)
<1>1. it.types \in Seq(Type) /\ it.tags \in Seq(Tag) /\ e.type \in Type /\ e.tags \in Seq(Tag)
  BY DEF QueryItem, Event
<1>2. /\ \A i \in DOMAIN it.types : it.types[i] \in Type
      /\ \A i \in DOMAIN it.tags : it.tags[i] \in Tag
      /\ \A i \in DOMAIN e.tags : e.tags[i] \in Tag
  BY <1>1, LenProperties, ElementOfSeq
<1>3. \A g \in Range(e.tags) : g \in Tag
  BY <1>2 DEF Range
<1>4. \A t \in Type : TypeFile[t] \in Range(FilesOf(e)) => t = e.type
  BY <1>1, <1>3, FilesOfExactly, FilesAssumption DEF NamesDiffer
<1>5. \A g \in Tag : TagFile[g] \in Range(FilesOf(e)) => g \in Range(e.tags)
  BY <1>1, <1>3, FilesOfExactly, FilesAssumption DEF NamesDiffer
<1>6. it.types # << >> => e.type \in Range(it.types)
  <2> HAVE it.types # << >>
  <2>1. PICK i \in DOMAIN it.types :
          i \in DOMAIN s /\ n \in s[i] /\ FilesRead(it)[i] = TypeFile[it.types[i]]
    BY ItemPositionsListed
  <2>2. it.types[i] = e.type
    BY <1>2, <1>4, <2>1
  <2> QED
    BY <2>2 DEF Range
<1>7. Range(it.tags) \subseteq Range(e.tags)
  <2> SUFFICES ASSUME NEW i \in DOMAIN it.tags PROVE it.tags[i] \in Range(e.tags)
    BY DEF Range
  <2>1. TagFile[it.tags[i]] \in Range(FilesOf(e))
    BY ItemPositionsListed
  <2> QED
    BY <1>2, <1>5, <2>1
<1> QED
  BY <1>6, <1>7 DEF ItemMatches

\* What is returned matches, be it filtered or not.
LEMMA ReturnedMatches ==
  ASSUME NEW stored, NEW q, NEW positions, NEW max, NEW desc,
         positions \subseteq DOMAIN stored, IsFiniteSet(DOMAIN stored),
         NamesDiffer => \A n \in positions : Matches(q, stored[n]),
         NamesDiffer \/ Cardinality(DOMAIN stored) <= ParallelReadMin
  PROVE  \A n \in Returned(stored, q, positions, max, desc) : Matches(q, stored[n])
<1> DEFINE kept == Truncated(q, positions, max, desc)
<1>1. \A S, k, d : FirstOf(S, k, d) \subseteq S
  BY DEF FirstOf
<1>2. kept \subseteq positions
  BY <1>1 DEF Truncated
<1>3. /\ IsFiniteSet(kept) /\ Cardinality(kept) <= Cardinality(DOMAIN stored)
      /\ Cardinality(kept) \in Nat /\ Cardinality(DOMAIN stored) \in Nat
  BY <1>2, FS_Subset, FS_CardinalityType
<1>4. CASE q = All
  BY <1>4 DEF Matches
<1>5. CASE q # All /\ NamesDiffer
  BY <1>1, <1>2, <1>5 DEF Returned
<1>6. CASE q # All /\ ~NamesDiffer
  <2>1. ~(Cardinality(kept) > ParallelReadMin)
    BY <1>3, <1>6, ParallelReadMinAssumption
  <2> QED
    BY <1>6, <2>1 DEF Returned
<1> QED
  BY <1>4, <1>5, <1>6

-----------------------------------------------------------------------------
(* What a step is to a reader *)

\* p has not resolved its query.
Before == {"acquire", "unlink", "scan", "resolve"}

\* The steps that neither start, advance nor end the resolution of p's query.
Bystander(p) ==
  /\ UNCHANGED <<call[p], item[p], seen[p], found[p], floor[p]>>
  /\ pc'[p] \in Before => pc[p] \in Before
  /\ pc'[p] = "load" => pc[p] = "load"
  /\ pc'[p] \in {"acquire", "unlink", "scan", "write", "index"} =>
       pc[p] \in {"acquire", "unlink", "scan", "write", "index"}
  /\ \/ result'[p] = result[p]
     \/ result'[p].status = "io_error"
     \/ result'[p].status = "ok" /\ pc[p] = "write"

Resolves(p) ==
  \/ \E failed \in BOOLEAN : ListEvents(p, failed) \/ ReadIndex(p, failed)
  \/ ResolveItem(p)

LEMMA ReaderStep ==
  ASSUME TypeOK, [Next]_vars, NEW p \in Proc
  PROVE  \/ \E c \in Calls : Invoke(p, c)
         \/ Resolves(p) \/ \E failed \in BOOLEAN : LoadEvents(p, failed)
         \/ Bystander(p)
<1>1. \A q \in Proc : q # p => (Acts(q) => floor'[p] = floor[p])
  <2> SUFFICES ASSUME NEW q \in Proc, q # p, Acts(q) PROVE floor'[p] = floor[p]
    OBVIOUS
  <2>1. \A c \in Calls : Invoke(q, c) => floor'[p] = floor[p]
    BY DEF Invoke, TypeOK
  <2>2. \A failed \in BOOLEAN :
          ScanEvents(q, failed) \/ ListEvents(q, failed) \/ ReadIndex(q, failed)
            \/ LoadEvents(q, failed) \/ UpdateIndex(q, failed) => floor' = floor
    BY DEF ScanEvents, ListEvents, ReadIndex, LoadEvents, UpdateIndex
  <2>3. AcquireLock(q) \/ ResolveItem(q) \/ WriteEvent(q) \/ IndexLockFails(q) \/ NextEvent(q)
          => floor' = floor
    BY DEF AcquireLock, ResolveItem, WriteEvent, IndexLockFails, NextEvent
  <2>4. FinishBatch(q) \/ ReleaseLock(q) \/ EventWriteFails(q) \/ IndexWriteFails(q)
          \/ JudgeLock(q) \/ BreakLock(q) \/ Crash(q) \/ CrashUnstamped(q) => floor' = floor
    BY DEF FinishBatch, ReleaseLock, EventWriteFails, IndexWriteFails, JudgeLock, BreakLock, Crash, CrashUnstamped
  <2> QED
    BY <2>1, <2>2, <2>3, <2>4 DEF Acts, Step
<1>2. ASSUME NEW q \in Proc, q # p, Acts(q) PROVE Bystander(p)
  <2>1. UNCHANGED Locals(p)
    BY <1>2, OthersKeepLocals
  <2> QED
    BY <1>1, <1>2, <2>1 DEF Locals, Bystander
<1>3. CASE UNCHANGED vars
  BY <1>3 DEF vars, resolving, Bystander
<1>4. ASSUME Acts(p), \A c \in Calls : ~Invoke(p, c), ~Resolves(p),
             \A failed \in BOOLEAN : ~LoadEvents(p, failed)
      PROVE  Bystander(p)
  <2> USE DEF TypeOK, Bystander, Before, Go, Finish, resolving
  <2>1. CASE \E failed \in BOOLEAN : ScanEvents(p, failed) \/ UpdateIndex(p, failed)
    BY <2>1 DEF ScanEvents, UpdateIndex
  <2>2. CASE AcquireLock(p) \/ ReleaseLock(p) \/ Crash(p)
    BY <2>2 DEF AcquireLock, ReleaseLock, Crash
  <2>7. CASE JudgeLock(p) \/ BreakLock(p) \/ CrashUnstamped(p)
    BY <2>7 DEF JudgeLock, BreakLock, CrashUnstamped, store
  <2>3. CASE WriteEvent(p) \/ NextEvent(p) \/ IndexWriteFails(p)
    BY <2>3 DEF WriteEvent, NextEvent, IndexWriteFails
  <2>4. CASE IndexLockFails(p) \/ EventWriteFails(p)
    <3>1. /\ pc' = [pc EXCEPT ![p] = "release"]
          /\ result' = [result EXCEPT ![p] = [status |-> "io_error", positions |-> {}]]
          /\ UNCHANGED <<call, item, seen, found, floor>>
      BY <2>4 DEF IndexLockFails, EventWriteFails
    <3> QED
      BY <3>1
  <2>5. CASE FinishBatch(p)
    BY <2>5 DEF FinishBatch
  <2> QED
    BY <1>4, <2>1, <2>2, <2>3, <2>4, <2>5, <2>7 DEF Acts, Step, Resolves
<1> QED
  BY <1>2, <1>3, <1>4 DEF Next, Acts, Quiet

\* A file read: what it holds, or nothing if it cannot be read, is seen behind the others.
LEMMA ReadIndexStep ==
  ASSUME TypeOK, NEW p \in Proc, NEW failed \in BOOLEAN, ReadIndex(p, failed)
  PROVE  LET files == FilesRead(call[p].query[item[p]]) IN
           /\ UNCHANGED <<events, index, pc, call, item, found, result, floor>>
           /\ pc[p] = "resolve" /\ item[p] \in DOMAIN call[p].query
           /\ Len(seen'[p]) <= Len(files)
           /\ \A j \in DOMAIN seen'[p] :
                \/ j \in DOMAIN seen[p] /\ seen'[p][j] = seen[p][j]
                \/ /\ j \in DOMAIN files /\ files[j] \in IndexFile
                   /\ seen'[p][j] = IF failed THEN {} ELSE index[files[j]]
<1> DEFINE files == FilesRead(call[p].query[item[p]])
           held == IF failed THEN {} ELSE index[files[Len(seen[p]) + 1]]
<1>1. /\ UNCHANGED <<events, index, pc, call, item, found, result, floor>>
      /\ pc[p] = "resolve" /\ item[p] \in DOMAIN call[p].query
      /\ Len(seen[p]) < Len(files) /\ seen'[p] = Append(seen[p], held)
  BY DEF ReadIndex, store, TypeOK
<1>2. call[p].query[item[p]] \in QueryItem
  <2>1. call[p].query \in Seq(QueryItem)
    BY DEF TypeOK, Call, Query
  <2> QED
    BY <1>1, <2>1, LenProperties, ElementOfSeq
<1>3. files \in Seq(IndexFile) /\ seen[p] \in Seq(SUBSET Nat)
  BY <1>2, FilesReadType DEF TypeOK
<1>4. /\ Len(files) \in Nat /\ DOMAIN files = 1 .. Len(files)
      /\ Len(seen[p]) \in Nat /\ DOMAIN seen[p] = 1 .. Len(seen[p])
  BY <1>3, LenProperties
<1>5. \A j \in DOMAIN files : files[j] \in IndexFile
  BY <1>3, <1>4, ElementOfSeq
<1>6. held \in SUBSET Nat
  <2>1. files[Len(seen[p]) + 1] \in IndexFile
    BY SMTT(30), <1>1, <1>4, <1>5
  <2> QED
    BY <2>1 DEF TypeOK
<1> HIDE DEF held, files
<1>7. /\ Append(seen[p], held) \in Seq(SUBSET Nat)
      /\ Len(Append(seen[p], held)) = Len(seen[p]) + 1
      /\ \A j \in 1 .. Len(seen[p]) : Append(seen[p], held)[j] = seen[p][j]
      /\ Append(seen[p], held)[Len(seen[p]) + 1] = held
  BY <1>3, <1>6, AppendProperties
<1>8. DOMAIN seen'[p] = 1 .. Len(seen[p]) + 1 /\ Len(seen'[p]) = Len(seen[p]) + 1
  BY <1>1, <1>7, LenProperties
<1>9. Len(seen'[p]) <= Len(files)
  BY <1>1, <1>4, <1>8
<1>10. ASSUME NEW j \in DOMAIN seen'[p]
       PROVE  \/ j \in DOMAIN seen[p] /\ seen'[p][j] = seen[p][j]
              \/ /\ j \in DOMAIN files /\ files[j] \in IndexFile
                 /\ seen'[p][j] = IF failed THEN {} ELSE index[files[j]]
  <2>1. CASE j = Len(seen[p]) + 1
    BY <1>1, <1>4, <1>5, <1>7, <2>1 DEF held
  <2>2. CASE j # Len(seen[p]) + 1
    BY <1>1, <1>4, <1>7, <1>8, <2>2
  <2> QED
    BY <2>1, <2>2
<1> QED
  BY <1>1, <1>9, <1>10 DEF files

\* An item resolved, and after the last one the start position applied.
LEMMA ResolveItemStep ==
  ASSUME TypeOK, NEW p \in Proc, ResolveItem(p)
  PROVE  LET it  == call[p].query[item[p]]
             all == found[p] \cup ItemPositions(it, seen[p])
         IN  /\ UNCHANGED <<events, index, call, result, floor>>
             /\ pc[p] = "resolve" /\ item[p] \in DOMAIN call[p].query
             /\ call[p].query # All /\ it \in QueryItem
             /\ seen[p] \in Seq(SUBSET Nat) /\ Len(seen[p]) = Len(FilesRead(it))
             /\ item'[p] = item[p] + 1 /\ seen'[p] = << >>
             /\ \/ pc'[p] = "resolve" /\ found'[p] = all
                \/ /\ pc'[p] = "load" /\ found'[p] = FromStart(all, call[p].after)
                   /\ item[p] = Len(call[p].query)
<1>1. /\ pc[p] = "resolve" /\ item[p] \in DOMAIN call[p].query
      /\ Len(seen[p]) = Len(FilesRead(call[p].query[item[p]]))
      /\ UNCHANGED <<events, index, call, result, floor>>
      /\ item'[p] = item[p] + 1 /\ seen'[p] = << >>
  BY DEF ResolveItem, TypeOK, store
<1>2. call[p].query \in Seq(QueryItem) /\ seen[p] \in Seq(SUBSET Nat)
  BY DEF TypeOK, Call, Query
<1>3. call[p].query[item[p]] \in QueryItem /\ call[p].query # All
  <2>1. DOMAIN All = {}
    BY DEF All
  <2> QED
    BY <1>1, <1>2, <2>1, LenProperties, ElementOfSeq
<1>4. LET all == found[p] \cup ItemPositions(call[p].query[item[p]], seen[p]) IN
        \/ pc'[p] = "resolve" /\ found'[p] = all
        \/ /\ pc'[p] = "load" /\ found'[p] = FromStart(all, call[p].after)
           /\ item[p] = Len(call[p].query)
  BY DEF ResolveItem, TypeOK, Go
<1> QED
  BY <1>1, <1>2, <1>3, <1>4

-----------------------------------------------------------------------------
(* What is read matches, whatever fails but a directory listing *)

\* Events that belong in the index file f.
Belong(S, f) == \A n \in S : n \in DOMAIN events /\ f \in Range(FilesOf(events[n]))

SeenSound(p) ==
  item[p] \in DOMAIN call[p].query =>
    LET files == FilesRead(call[p].query[item[p]]) IN
      /\ Len(seen[p]) <= Len(files)
      /\ \A j \in DOMAIN seen[p] : Belong(seen[p][j], files[j])

FoundSound(p) ==
  \A n \in found[p] :
    n \in DOMAIN events /\ (NamesDiffer => Matches(call[p].query, events[n]))

\* Only an append gets the lock and writes.
WritesAppend(p) == pc[p] \in {"acquire", "unlink", "scan", "write", "index"} => call[p].op # "read"

\* p's part of ReadsMatch and NoSpuriousRejection.
ResultSound(p) ==
  /\ IsOkRead(p) =>
       result[p].positions \subseteq Matching(events, call[p].query, call[p].after)
  /\ result[p].status = "condition_failed" =>
       Matching(events, call[p].query, call[p].after) # {}

ReadSound(p) ==
  /\ pc[p] \in Before => SeenSound(p) /\ FoundSound(p)
  /\ pc[p] = "load" => FoundSound(p) /\ \A n \in found[p] : n > call[p].after
  /\ WritesAppend(p)
  /\ ResultSound(p)

LEMMA ReadSoundInit == Init => \A p \in Proc : ReadSound(p)
<1> SUFFICES ASSUME Init, NEW p \in Proc PROVE ReadSound(p)
  OBVIOUS
<1>1. pc[p] = "idle" /\ result[p].status = "none"
  BY DEF Init
<1> QED
  BY <1>1 DEF ReadSound, WritesAppend, Before, ResultSound, IsOkRead

LEMMA ReadSoundStep ==
  ASSUME Inv2, Exact, [Next]_vars, NEW p \in Proc, ReadSound(p)
  PROVE  ReadSound(p)'
<1>1. TypeOK /\ IndexSound
  BY DEF Inv2, Inv1
<1>2. \A n \in DOMAIN events : n \in DOMAIN events' /\ events'[n] = events[n]
  BY StepKeepsEvents DEF Inv2
<1>3. ASSUME NEW q, NEW after
      PROVE  Matching(events, q, after) \subseteq Matching(events', q, after)
  BY <1>2 DEF Matching
<1>4. ASSUME NEW c \in Calls, Invoke(p, c)
      PROVE  ReadSound(p)'
  <2>1. /\ call'[p] = c /\ item'[p] = 1 /\ seen'[p] = << >> /\ found'[p] = {}
        /\ result'[p].status = "none"
        /\ pc'[p] = IF c.op = "read" THEN "resolve" ELSE "acquire"
    BY <1>1, <1>4 DEF Invoke, Go, Finish, TypeOK
  <2>2. c.query \in Seq(QueryItem)
    BY ConstantsAssumption DEF Call, Query
  <2>3. 1 \in DOMAIN c.query => 0 <= Len(FilesRead(c.query[1]))
    BY <2>2, LenProperties, ElementOfSeq, FilesReadType
  <2>4. SeenSound(p)'
    BY <2>1, <2>3 DEF SeenSound
  <2> QED
    BY <2>1, <2>4 DEF ReadSound, WritesAppend, Before, FoundSound, ResultSound, IsOkRead
<1>5. CASE Bystander(p)
  <2> USE DEF Bystander, ReadSound, WritesAppend
  <2>1. SeenSound(p) => SeenSound(p)'
    BY <1>2, <1>5 DEF SeenSound, Belong
  <2>2. FoundSound(p) => FoundSound(p)'
    BY <1>2, <1>5 DEF FoundSound
  <2>3. ResultSound(p)'
    BY <1>3, <1>5 DEF ResultSound, IsOkRead
  <2> QED
    BY <1>5, <2>1, <2>2, <2>3
<1>6. ASSUME NEW failed \in BOOLEAN, ReadIndex(p, failed)
      PROVE  ReadSound(p)'
  <2> DEFINE files == FilesRead(call[p].query[item[p]])
  <2>1. /\ UNCHANGED <<events, index, pc, call, item, found, result>>
        /\ pc[p] = "resolve" /\ item[p] \in DOMAIN call[p].query
        /\ Len(seen'[p]) <= Len(files)
        /\ \A j \in DOMAIN seen'[p] :
             \/ j \in DOMAIN seen[p] /\ seen'[p][j] = seen[p][j]
             \/ /\ j \in DOMAIN files /\ files[j] \in IndexFile
                /\ seen'[p][j] = IF failed THEN {} ELSE index[files[j]]
    BY <1>1, <1>6, ReadIndexStep
  <2>2. \A f \in IndexFile : Belong(index[f], f)
    BY <1>1 DEF IndexSound, Belong
  <2>3. \A j \in DOMAIN seen[p] : Belong(seen[p][j], files[j])
    BY <2>1 DEF ReadSound, Before, SeenSound
  <2> HIDE DEF files
  <2>4. \A j \in DOMAIN seen'[p] : Belong(seen'[p][j], files[j])
    BY <2>1, <2>2, <2>3 DEF Belong
  <2>5. SeenSound(p)'
    BY <2>1, <2>4 DEF SeenSound, Belong, files
  <2> QED
    BY <2>1, <2>5 DEF ReadSound, WritesAppend, Before, FoundSound, ResultSound, IsOkRead
<1>7. CASE ResolveItem(p)
  <2> DEFINE it == call[p].query[item[p]]
             all == found[p] \cup ItemPositions(it, seen[p])
  <2>1. /\ UNCHANGED <<events, call, result>>
        /\ pc[p] = "resolve" /\ item[p] \in DOMAIN call[p].query
        /\ call[p].query # All /\ it \in QueryItem
        /\ seen[p] \in Seq(SUBSET Nat) /\ Len(seen[p]) = Len(FilesRead(it))
        /\ item'[p] = item[p] + 1 /\ seen'[p] = << >>
        /\ \/ pc'[p] = "resolve" /\ found'[p] = all
           \/ pc'[p] = "load" /\ found'[p] = FromStart(all, call[p].after)
    BY <1>1, <1>7, ResolveItemStep
  <2>2. \A j \in DOMAIN seen[p] : Belong(seen[p][j], FilesRead(it)[j])
    BY <2>1 DEF ReadSound, Before, SeenSound
  <2>3. ASSUME NEW n \in ItemPositions(it, seen[p])
        PROVE  n \in DOMAIN events /\ (NamesDiffer => Matches(call[p].query, events[n]))
    <3>1. \E j \in DOMAIN seen[p] : n \in seen[p][j]
      BY <2>1, ItemPositionsListed
    <3>2. n \in DOMAIN events /\ events[n] \in Event
      BY <1>1, <2>2, <3>1 DEF Belong, TypeOK
    <3>3. \A j \in DOMAIN seen[p] :
            n \in seen[p][j] => FilesRead(it)[j] \in Range(FilesOf(events[n]))
      BY <2>2 DEF Belong
    <3>4. NamesDiffer => ItemMatches(it, events[n])
      <4> HIDE DEF it
      <4> QED
        BY <2>1, <3>2, <3>3, ItemPositionsMatch
    <3> QED
      BY <2>1, <3>2, <3>4 DEF Matches
  <2>4. \A n \in all : n \in DOMAIN events /\ (NamesDiffer => Matches(call[p].query, events[n]))
    BY <2>1, <2>3 DEF ReadSound, WritesAppend, Before, FoundSound
  <2>5. call[p].after \in Nat \cup {None} /\ DOMAIN events \subseteq Nat
    BY <1>1 DEF TypeOK, Call
  <2>6. /\ found'[p] \subseteq all
        /\ pc'[p] = "load" => \A n \in found'[p] : n > call[p].after
    BY <2>1, <2>4, <2>5 DEF FromStart, None
  <2>7. FoundSound(p)'
    BY <2>1, <2>4, <2>6 DEF FoundSound
  <2>8. SeenSound(p)'
    <3>1. call[p].query \in Seq(QueryItem)
      BY <1>1 DEF TypeOK, Call, Query
    <3>2. \A i \in DOMAIN call[p].query : 0 <= Len(FilesRead(call[p].query[i]))
      BY <3>1, LenProperties, ElementOfSeq, FilesReadType
    <3> QED
      BY <2>1, <3>2 DEF SeenSound
  <2> QED
    BY <2>1, <2>6, <2>7, <2>8 DEF ReadSound, WritesAppend, ResultSound, IsOkRead
<1>8. ASSUME NEW failed \in BOOLEAN, ListEvents(p, failed)
      PROVE  ReadSound(p)'
  <2>1. /\ UNCHANGED <<events, call, result>> /\ call[p].query = All
        /\ pc'[p] = "load" /\ pc[p] = "resolve"
        /\ found'[p] \subseteq FromStart(DOMAIN events, call[p].after)
    BY <1>1, <1>8 DEF ListEvents, Go, TypeOK, store
  <2>2. call[p].after \in Nat \cup {None} /\ DOMAIN events \subseteq Nat
    BY <1>1 DEF TypeOK, Call
  <2>3. \A n \in found'[p] : n \in DOMAIN events /\ n > call[p].after
    BY <2>1, <2>2 DEF FromStart, None
  <2> QED
    BY <2>1, <2>3 DEF ReadSound, WritesAppend, Before, FoundSound, Matches, ResultSound, IsOkRead
<1>9. ASSUME NEW failed \in BOOLEAN, LoadEvents(p, failed)
      PROVE  ReadSound(p)'
  <2> DEFINE got == Returned(events, call[p].query, found[p], call[p].max, call[p].desc)
  <2>1. pc[p] = "load" /\ UNCHANGED <<events, call>>
    BY <1>9 DEF LoadEvents, store
  <2>2. \/ result'[p] = [status |-> "io_error", positions |-> {}] /\ pc'[p] \in {"idle", "release"}
        \/ /\ result'[p] = [status |-> "ok", positions |-> got]
           /\ call[p].op = "read" /\ pc'[p] = "idle"
        \/ /\ result'[p] = [status |-> "condition_failed", positions |-> {}]
           /\ got # {} /\ pc'[p] = "release"
        \/ call[p].op # "read" /\ pc'[p] = "write" /\ result' = result
    BY <1>1, <1>9 DEF LoadEvents, Go, Finish, TypeOK
  <2>3. FoundSound(p) /\ \A n \in found[p] : n > call[p].after
    BY <2>1 DEF ReadSound
  <2>4. got \subseteq found[p]
    BY ReturnedSubset
  <2>5. \A n \in got : Matches(call[p].query, events[n])
    <3>1. found[p] \subseteq DOMAIN events /\ IsFiniteSet(DOMAIN events)
      BY <1>1, <2>3 DEF FoundSound, TypeOK
    <3>2. NamesDiffer => \A n \in found[p] : Matches(call[p].query, events[n])
      BY <2>3 DEF FoundSound
    <3>3. NamesDiffer \/ Cardinality(DOMAIN events) <= ParallelReadMin
      BY DEF Exact
    <3> QED
      BY <3>1, <3>2, <3>3, ReturnedMatches
  <2>6. got \subseteq Matching(events, call[p].query, call[p].after)
    BY <2>3, <2>4, <2>5 DEF Matching, FoundSound
  <2> HIDE DEF got
  <2>7. ResultSound(p)'
    BY <2>1, <2>2, <2>6 DEF ResultSound, IsOkRead, ReadSound
  <2> QED
    BY <2>1, <2>2, <2>7 DEF ReadSound, WritesAppend, Before
<1> QED
  BY <1>1, <1>4, <1>5, <1>6, <1>7, <1>8, <1>9, ReaderStep DEF Resolves

LEMMA ReadSoundAlways ==
  ASSUME ListingsSucceed, SafeLock
  PROVE  Spec /\ []Exact => [](Inv2 /\ \A p \in Proc : ReadSound(p))
<1>1. Inv2 /\ (\A p \in Proc : ReadSound(p)) /\ Exact /\ [Next]_vars
        => Inv2' /\ (\A p \in Proc : ReadSound(p))'
  BY Inv2Step, ReadSoundStep
<1> QED
  BY <1>1, Inv2Init, ReadSoundInit, PTL DEF Spec

\* What a read returns matches its query, although the index files were read one by one
\* while appends went on, and whatever failed or died meanwhile: as long as no two names
\* share an index file, or the log is short enough for every read to be filtered.
THEOREM ReadsReturnMatches ==
  ASSUME ListingsSucceed, SafeLock PROVE Spec /\ []Exact => []ReadsMatch
<1>1. (\A p \in Proc : ReadSound(p)) => ReadsMatch
  BY DEF ReadSound, ResultSound, ReadsMatch
<1> QED
  BY <1>1, ReadSoundAlways, PTL

\* Under the same conditions an append is refused only for an event that matches.
THEOREM RejectionsAreDue ==
  ASSUME ListingsSucceed, SafeLock PROVE Spec /\ []Exact => []NoSpuriousRejection
<1>1. (\A p \in Proc : ReadSound(p)) => NoSpuriousRejection
  BY DEF ReadSound, ResultSound, NoSpuriousRejection
<1> QED
  BY <1>1, ReadSoundAlways, PTL

-----------------------------------------------------------------------------
(* Unlimited reads of nested queries have no hole *)

\* The last item of the query, which is resolved last, has at most one type and matches
\* whatever the others do.
Nested(q) ==
  q # All =>
    LET last == q[Len(q)] IN
      /\ Len(last.types) <= 1 /\ FilesRead(last) # << >>
      /\ \A e \in Event : Matches(q, e) => ItemMatches(last, e)

\* Among them are the simple ones.
LEMMA SimpleIsNested ==
  ASSUME NEW q \in Query, Simple(q)
  PROVE  Nested(q)
<1>1. CASE q = All
  BY <1>1 DEF Nested
<1>2. CASE q # All
  <2>1. Len(q) = 1 /\ Len(q[1].types) <= 1 /\ FilesRead(q[1]) # << >>
    BY <1>2 DEF Simple
  <2>2. DOMAIN q = {1}
    BY <2>1, LenProperties DEF Query
  <2> QED
    BY <1>2, <2>1, <2>2 DEF Nested, Matches
<1> QED
  BY <1>1, <1>2

\* Which of the files of an item an event that matches it is added to.
LEMMA FilesOfMatch ==
  ASSUME NEW it \in QueryItem, NEW e \in Event, ItemMatches(it, e)
  PROVE  /\ it.types # << >> => \E i \in DOMAIN it.types : FilesRead(it)[i] \in Range(FilesOf(e))
         /\ \A i \in DOMAIN it.tags : FilesRead(it)[Len(it.types) + i] \in Range(FilesOf(e))
<1>1. it.types \in Seq(Type) /\ it.tags \in Seq(Tag)
  BY DEF QueryItem
<1>2. /\ \A i \in DOMAIN it.types : FilesRead(it)[i] = TypeFile[it.types[i]]
      /\ \A i \in DOMAIN it.tags : FilesRead(it)[Len(it.types) + i] = TagFile[it.tags[i]]
  BY <1>1, IndexFilesAt DEF FilesRead
<1>3. it.types # << >> => \E i \in DOMAIN it.types : it.types[i] = e.type
  BY DEF ItemMatches, Range
<1>4. \A i \in DOMAIN it.tags : it.tags[i] \in Range(e.tags)
  BY DEF ItemMatches, Range
<1> QED
  BY <1>2, <1>3, <1>4, FilesOfEvent

\* An event that matches is resolved if the files that it belongs in list it.
LEMMA ItemPositionsCover ==
  ASSUME NEW it \in QueryItem, NEW s \in Seq(SUBSET Nat), Len(s) = Len(FilesRead(it)),
         DOMAIN s # {}, NEW e \in Event, ItemMatches(it, e), NEW n,
         \A j \in DOMAIN s : FilesRead(it)[j] \in Range(FilesOf(e)) => n \in s[j]
  PROVE  n \in ItemPositions(it, s)
<1>1. it.types \in Seq(Type) /\ it.tags \in Seq(Tag) /\ FilesRead(it) \in Seq(IndexFile)
  BY FilesReadType DEF QueryItem
<1>2. /\ Len(it.types) \in Nat /\ DOMAIN it.types = 1 .. Len(it.types)
      /\ Len(it.tags) \in Nat /\ DOMAIN it.tags = 1 .. Len(it.tags)
  BY <1>1, LenProperties
<1>3. DOMAIN s = 1 .. Len(it.types) + Len(it.tags)
  <2>1. DOMAIN s = DOMAIN FilesRead(it)
    BY <1>1, LenProperties
  <2> QED
    BY <1>1, <2>1, IndexFilesAt DEF FilesRead
<1>0. /\ \A i \in DOMAIN it.types : i \in DOMAIN s
      /\ \A i \in DOMAIN it.tags : Len(it.types) + i \in DOMAIN s
  <2>1. \A a, b \in Nat : /\ \A i \in 1 .. a : i \in 1 .. a + b
                         /\ \A i \in 1 .. b : a + i \in 1 .. a + b
    OBVIOUS
  <2> QED
    BY <1>2, <1>3, <2>1
<1>4. it.types # << >> => \E i \in DOMAIN it.types : i \in DOMAIN s /\ n \in s[i]
  BY <1>0, FilesOfMatch
<1>5. \A i \in DOMAIN it.tags : Len(it.types) + i \in DOMAIN s /\ n \in s[Len(it.types) + i]
  BY <1>0, FilesOfMatch
<1>6. n \in UNION Range(s)
  <2>1. CASE it.types # << >>
    BY <1>4, <2>1 DEF Range
  <2>2. CASE it.types = << >>
    <3>1. Len(it.types) = 0
      BY <2>2
    <3>2. 1 \in DOMAIN it.tags
      BY <1>2, <1>3, <3>1
    <3> QED
      BY <1>5, <3>2 DEF Range
  <2> QED
    BY <2>1, <2>2
<1> QED
  BY <1>4, <1>5, <1>6 DEF ItemPositions

\* With at most one type an item selects what every one of its files lists.
LEMMA ItemPositionsInAll ==
  ASSUME NEW it \in QueryItem, Len(it.types) <= 1,
         NEW s \in Seq(SUBSET Nat), Len(s) = Len(FilesRead(it)), NEW m \in ItemPositions(it, s)
  PROVE  \A j \in DOMAIN s : m \in s[j]
<1>1. it.types \in Seq(Type) /\ it.tags \in Seq(Tag) /\ FilesRead(it) \in Seq(IndexFile)
  BY FilesReadType DEF QueryItem
<1>2. /\ Len(it.types) \in Nat /\ DOMAIN it.types = 1 .. Len(it.types)
      /\ Len(it.tags) \in Nat /\ DOMAIN it.tags = 1 .. Len(it.tags)
  BY <1>1, LenProperties
<1>3. DOMAIN s = 1 .. Len(it.types) + Len(it.tags)
  <2>1. DOMAIN s = DOMAIN FilesRead(it)
    BY <1>1, LenProperties
  <2> QED
    BY <1>1, <2>1, IndexFilesAt DEF FilesRead
<1> TAKE j \in DOMAIN s
<1>4. CASE j <= Len(it.types)
  <2>1. j = 1 /\ DOMAIN it.types = {1} /\ it.types # << >>
    BY <1>2, <1>3, <1>4
  <2> QED
    BY <2>1, ItemPositionsListed
<1>5. CASE ~(j <= Len(it.types))
  <2>1. \A a, b \in Nat : j \in 1 .. a + b /\ ~(j <= a) => j - a \in 1 .. b /\ a + (j - a) = j
    OBVIOUS
  <2>2. j - Len(it.types) \in DOMAIN it.tags /\ Len(it.types) + (j - Len(it.types)) = j
    BY <1>2, <1>3, <1>5, <2>1
  <2> QED
    BY <2>2, ItemPositionsListed
<1> QED
  BY <1>4, <1>5

\* S lists events, and every event that belongs in the index file f before one of them.
Closed(S, f) ==
  /\ S \subseteq DOMAIN events
  /\ \A m \in S : \A n \in DOMAIN events :
       n < m /\ f \in Range(FilesOf(events[n])) => n \in S

\* An event is in all its index files before the next one is written.
LEMMA IndexFilesReach ==
  ASSUME Inv2, IndexComplete
  PROVE  \A f \in IndexFile : \A m \in DOMAIN events : \A n \in DOMAIN events :
           n < m /\ f \in Range(FilesOf(events[n])) => n \in index[f]
<1> SUFFICES ASSUME NEW f \in IndexFile, NEW m \in DOMAIN events, NEW n \in DOMAIN events,
                    n < m, f \in Range(FilesOf(events[n]))
             PROVE  n \in index[f]
  OBVIOUS
<1>1. DOMAIN events = 0 .. End - 1 /\ End \in Nat
  BY LogFacts DEF Inv2
<1>2. \A p \in Proc : pc[p] = "index" => seq[p] + 1 = End /\ seq[p] \in Nat
  BY DEF Inv2, Inv1, TypeOK, SequenceReserved, SequenceFresh, End
<1>3. \A p \in Proc : pc[p] = "index" => seq[p] # n
  BY <1>1, <1>2
<1> QED
  BY <1>3 DEF IndexComplete, Covered

\* Index files are closed: an event is in all of them before the next one is written.
LEMMA IndexFilesClosed ==
  ASSUME Inv2, IndexComplete
  PROVE  \A f \in IndexFile : Closed(index[f], f)
<1>1. \A f \in IndexFile : index[f] \subseteq DOMAIN events
  BY DEF Inv2, IndexSound
<1> QED
  BY <1>1, IndexFilesReach DEF Closed

\* It stays closed when events are added.
LEMMA ClosedStays ==
  ASSUME Inv2, [Next]_vars, NEW S, NEW f, Closed(S, f)
  PROVE  Closed(S, f)'
<1>1. DOMAIN events = 0 .. End - 1 /\ End \in Nat
  BY LogFacts DEF Inv2
<1> QED
  BY <1>1, LogGrowsAtItsEnd DEF Inv2, Closed

SeenClosed(p) ==
  item[p] \in DOMAIN call[p].query =>
    \A j \in DOMAIN seen[p] : Closed(seen[p][j], FilesRead(call[p].query[item[p]])[j])

\* The positions S have no hole as an answer to p's query.
NoHole(p, S) ==
  /\ S \subseteq DOMAIN events
  /\ Nested(call[p].query) =>
       \A n \in Matching(events, call[p].query, call[p].after), m \in S : n < m => n \in S

\* What p has read of the current item was read after what it has found: it misses no event
\* before one of those.
SeenBehind(p) ==
  item[p] \in DOMAIN call[p].query =>
    \A j \in DOMAIN seen[p] : \A m \in found[p] : \A n \in DOMAIN events :
      n < m /\ FilesRead(call[p].query[item[p]])[j] \in Range(FilesOf(events[n]))
        => n \in seen[p][j]

\* p's part of PrefixReads.
ResultClosed(p) ==
  IsOkRead(p) /\ call[p].max = None => NoHole(p, result[p].positions)

ReadClosed(p) ==
  /\ pc[p] \in Before =>
       SeenClosed(p) /\ SeenBehind(p) /\ found[p] \subseteq DOMAIN events
  /\ pc[p] = "load" => NoHole(p, found[p])
  /\ WritesAppend(p)
  /\ ResultClosed(p)

\* A read that misses no event before one of T does not when events are added.
LEMMA BehindStays ==
  ASSUME Inv2, [Next]_vars, NEW S, NEW f, NEW T \in SUBSET DOMAIN events,
         \A m \in T : \A n \in DOMAIN events :
           n < m /\ f \in Range(FilesOf(events[n])) => n \in S
  PROVE  \A m \in T : \A n \in DOMAIN events' :
           n < m /\ f \in Range(FilesOf(events'[n])) => n \in S
<1>1. DOMAIN events = 0 .. End - 1 /\ End \in Nat
  BY LogFacts DEF Inv2
<1> QED
  BY <1>1, LogGrowsAtItsEnd DEF Inv2

LEMMA NoHoleStays ==
  ASSUME Inv2, [Next]_vars, NEW p \in Proc, call'[p] = call[p], NEW S, NoHole(p, S)
  PROVE  NoHole(p, S)'
<1>1. DOMAIN events = 0 .. End - 1 /\ End \in Nat
  BY LogFacts DEF Inv2
<1> QED
  BY <1>1, LogGrowsAtItsEnd DEF Inv2, NoHole, Matching

LEMMA ReadClosedStep ==
  ASSUME IndexStorageReliable, Inv2, IndexComplete, [Next]_vars,
         NEW p \in Proc, ReadClosed(p)
  PROVE  ReadClosed(p)'
<1>1. TypeOK
  BY DEF Inv2, Inv1
<1>2. \A n \in DOMAIN events : n \in DOMAIN events' /\ events'[n] = events[n]
  BY StepKeepsEvents DEF Inv2
<1>4. ASSUME NEW c \in Calls, Invoke(p, c)
      PROVE  ReadClosed(p)'
  <2>1. /\ call'[p] = c /\ item'[p] = 1 /\ seen'[p] = << >> /\ found'[p] = {}
        /\ result'[p].status = "none"
        /\ pc'[p] = IF c.op = "read" THEN "resolve" ELSE "acquire"
    BY <1>1, <1>4 DEF Invoke, Go, Finish, TypeOK
  <2> QED
    BY <2>1 DEF ReadClosed, SeenClosed, SeenBehind, WritesAppend, Before, ResultClosed, IsOkRead
<1>5. CASE Bystander(p)
  <2> USE DEF Bystander, ReadClosed, WritesAppend
  <2>1. SeenClosed(p) => SeenClosed(p)'
    BY <1>5, ClosedStays DEF SeenClosed
  <2>2. found[p] \subseteq DOMAIN events => found'[p] \subseteq DOMAIN events'
    BY <1>2, <1>5
  <2>5. SeenBehind(p) /\ found[p] \subseteq DOMAIN events => SeenBehind(p)'
    BY <1>5, BehindStays DEF SeenBehind
  <2>3. NoHole(p, found[p]) => NoHole(p, found[p])'
    BY <1>5, NoHoleStays
  <2>4. ResultClosed(p)'
    BY <1>5, NoHoleStays DEF ResultClosed, IsOkRead
  <2> QED
    BY <1>5, <2>1, <2>2, <2>3, <2>4, <2>5
<1>6. CASE ReadIndex(p, FALSE)
  <2> DEFINE files == FilesRead(call[p].query[item[p]])
  <2>1. /\ UNCHANGED <<events, index, pc, call, item, found, result>>
        /\ pc[p] = "resolve" /\ item[p] \in DOMAIN call[p].query
        /\ \A j \in DOMAIN seen'[p] :
             \/ j \in DOMAIN seen[p] /\ seen'[p][j] = seen[p][j]
             \/ /\ j \in DOMAIN files /\ files[j] \in IndexFile
                /\ seen'[p][j] = index[files[j]]
    BY <1>1, <1>6, ReadIndexStep
  <2>2. \A j \in DOMAIN seen[p] : Closed(seen[p][j], files[j])
    BY <2>1 DEF ReadClosed, Before, SeenClosed
  <2> HIDE DEF files
  <2>3. \A j \in DOMAIN seen'[p] : Closed(seen'[p][j], files[j])
    BY <2>1, <2>2, IndexFilesClosed
  <2>4. SeenClosed(p)'
    BY <2>1, <2>3 DEF SeenClosed, Closed, files
  <2>5. SeenBehind(p)'
    <3>1. found[p] \subseteq DOMAIN events
          /\ \A j \in DOMAIN seen[p] : \A m \in found[p] : \A n \in DOMAIN events :
               n < m /\ files[j] \in Range(FilesOf(events[n])) => n \in seen[p][j]
      BY <2>1 DEF ReadClosed, Before, SeenBehind, files
    <3>2. \A j \in DOMAIN seen'[p] : \A m \in found[p] : \A n \in DOMAIN events :
            n < m /\ files[j] \in Range(FilesOf(events[n])) => n \in seen'[p][j]
      BY <2>1, <3>1, IndexFilesReach
    <3> QED
      BY <2>1, <3>2 DEF SeenBehind, files
  <2> QED
    BY <2>1, <2>4, <2>5 DEF ReadClosed, WritesAppend, Before, ResultClosed, IsOkRead, NoHole
<1>7. CASE ResolveItem(p)
  <2> DEFINE q == call[p].query
             it == q[item[p]]
             all == found[p] \cup ItemPositions(it, seen[p])
  <2>1. /\ UNCHANGED <<events, call, result>>
        /\ pc[p] = "resolve" /\ item[p] \in DOMAIN q
        /\ q # All /\ it \in QueryItem
        /\ seen[p] \in Seq(SUBSET Nat) /\ Len(seen[p]) = Len(FilesRead(it))
        /\ item'[p] = item[p] + 1 /\ seen'[p] = << >>
        /\ \/ pc'[p] = "resolve" /\ found'[p] = all
           \/ /\ pc'[p] = "load" /\ found'[p] = FromStart(all, call[p].after)
              /\ item[p] = Len(q)
    BY <1>1, <1>7, ResolveItemStep
  <2>2. \A j \in DOMAIN seen[p] : Closed(seen[p][j], FilesRead(it)[j])
    BY <2>1 DEF ReadClosed, Before, SeenClosed
  <2>3. all \subseteq DOMAIN events
    <3>1. \A n \in ItemPositions(it, seen[p]) : \E j \in DOMAIN seen[p] : n \in seen[p][j]
      BY <2>1, ItemPositionsListed
    <3> QED
      BY <2>1, <2>2, <3>1 DEF Closed, ReadClosed, Before
  <2>4. CASE pc'[p] = "resolve"
    <3>1. SeenClosed(p)' /\ SeenBehind(p)'
      BY <2>1 DEF SeenClosed, SeenBehind
    <3> QED
      BY <2>1, <2>3, <2>4, <3>1
         DEF ReadClosed, WritesAppend, ResultClosed, IsOkRead, NoHole
  <2>5. CASE pc'[p] = "load"
    <3>1. found'[p] = FromStart(all, call[p].after)
      BY <2>1, <2>5
    <3>2. found'[p] \subseteq all
      BY <3>1 DEF FromStart
    <3>3. ASSUME Nested(q), NEW n \in Matching(events, q, call[p].after), NEW m \in found'[p],
                 n < m
          PROVE  n \in found'[p]
      <4>1. item[p] = Len(q)
        BY <1>1, <1>7, <2>5 DEF ResolveItem, Go, TypeOK
      <4>2. Len(it.types) <= 1 /\ FilesRead(it) # << >>
        BY <2>1, <3>3, <4>1 DEF Nested
      <4>5. n \in DOMAIN events /\ events[n] \in Event /\ ItemMatches(it, events[n])
        <5>1. n \in DOMAIN events /\ events[n] \in Event /\ Matches(q, events[n])
          BY <1>1 DEF Matching, TypeOK
        <5> QED
          BY <2>1, <3>3, <4>1, <5>1 DEF Nested
      <4>6. \A j \in DOMAIN seen[p] :
              FilesRead(it)[j] \in Range(FilesOf(events[n])) => n \in seen[p][j]
        <5>1. CASE m \in found[p]
          BY <2>1, <3>3, <4>5, <5>1 DEF ReadClosed, Before, SeenBehind
        <5>2. CASE m \in ItemPositions(it, seen[p])
          <6>1. \A j \in DOMAIN seen[p] : m \in seen[p][j]
            <7> HIDE DEF it
            <7> QED
              BY <2>1, <4>2, <5>2, ItemPositionsInAll
          <6> QED
            BY <2>2, <3>3, <4>5, <6>1 DEF Closed
        <5> QED
          BY <3>2, <5>1, <5>2
      <4>7. DOMAIN seen[p] # {}
        <5> HIDE DEF it
        <5>1. Len(seen[p]) # 0
          BY <2>1, <4>2, FilesReadType, EmptySeq, LenProperties
        <5>2. Len(seen[p]) \in Nat /\ DOMAIN seen[p] = 1 .. Len(seen[p])
          BY <2>1, LenProperties
        <5>3. 1 \in DOMAIN seen[p]
          BY <5>1, <5>2
        <5> QED
          BY <5>3
      <4>8. n \in ItemPositions(it, seen[p])
        <5> HIDE DEF it
        <5> QED
          BY <2>1, <4>5, <4>6, <4>7, ItemPositionsCover
      <4>9. n >= call[p].after + 1
        <5>1. n \in Nat /\ call[p].after \in Nat \cup {None} /\ n > call[p].after
          BY <1>1, <4>5 DEF TypeOK, Call, Matching
        <5> QED
          BY <5>1 DEF None
      <4> QED
        BY <3>1, <4>8, <4>9 DEF FromStart
    <3>4. NoHole(p, found[p])'
      BY <2>1, <2>3, <3>2, <3>3 DEF NoHole
    <3> QED
      BY <2>1, <2>5, <3>4 DEF ReadClosed, Before, WritesAppend, ResultClosed, IsOkRead, NoHole
  <2> QED
    BY <2>1, <2>4, <2>5
<1>8. CASE ListEvents(p, FALSE)
  <2>1. /\ UNCHANGED <<events, call, result>> /\ call[p].query = All
        /\ pc'[p] = "load" /\ pc[p] = "resolve"
        /\ found'[p] = FromStart(DOMAIN events, call[p].after)
    BY <1>1, <1>8 DEF ListEvents, Go, TypeOK, store
  <2>2. call[p].after \in Nat \cup {None} /\ DOMAIN events \subseteq Nat
    BY <1>1 DEF TypeOK, Call
  <2>3. NoHole(p, found[p])'
    BY <2>1, <2>2 DEF NoHole, FromStart, Matching, None
  <2> QED
    BY <2>1, <2>3 DEF ReadClosed, Before, WritesAppend, ResultClosed, IsOkRead, NoHole
<1>9. ASSUME NEW failed \in BOOLEAN, LoadEvents(p, failed)
      PROVE  ReadClosed(p)'
  <2> DEFINE got == Returned(events, call[p].query, found[p], call[p].max, call[p].desc)
  <2>1. pc[p] = "load" /\ UNCHANGED <<events, call>>
    BY <1>9 DEF LoadEvents, store
  <2>2. \/ result'[p].status \in {"io_error", "condition_failed"} /\ pc'[p] \in {"idle", "release"}
        \/ /\ result'[p] = [status |-> "ok", positions |-> got]
           /\ call[p].op = "read" /\ pc'[p] = "idle"
        \/ call[p].op # "read" /\ pc'[p] = "write" /\ result' = result
    BY <1>1, <1>9 DEF LoadEvents, Go, Finish, TypeOK
  <2>3. NoHole(p, found[p])
    BY <2>1 DEF ReadClosed
  <2>4. got \subseteq found[p]
    BY ReturnedSubset
  <2>5. call[p].max = None =>
          \A n \in found[p] : Matches(call[p].query, events[n]) => n \in got
    BY DEF Returned, Truncated
  <2> HIDE DEF got
  <2>6. call[p].max = None => NoHole(p, got)
    BY <2>3, <2>4, <2>5 DEF NoHole, Matching
  <2>7. ResultClosed(p)'
    BY <2>1, <2>2, <2>6 DEF ResultClosed, IsOkRead, ReadClosed, NoHole
  <2> QED
    BY <2>1, <2>2, <2>7 DEF ReadClosed, WritesAppend, Before
<1> QED
  <2>1. ~ReadIndex(p, TRUE) /\ ~ListEvents(p, TRUE)
    BY NoIndexFaults
  <2>2. \A failed \in BOOLEAN : failed = TRUE \/ failed = FALSE
    OBVIOUS
  <2> QED
    BY <1>1, <1>4, <1>5, <1>6, <1>7, <1>8, <1>9, <2>1, <2>2, ReaderStep DEF Resolves

LEMMA ReadClosedAlways ==
  ASSUME IndexStorageReliable PROVE Spec => []\A p \in Proc : ReadClosed(p)
<1> DEFINE I == Inv2 /\ IndexComplete /\ \A p \in Proc : ReadClosed(p)
<1>1. Init => I
  <2> SUFFICES ASSUME Init PROVE I
    OBVIOUS
  <2>1. \A p \in Proc : pc[p] = "idle" /\ result[p].status = "none"
    BY DEF Init
  <2>2. \A p \in Proc : ReadClosed(p)
    BY <2>1 DEF ReadClosed, WritesAppend, Before, ResultClosed, IsOkRead
  <2> QED
    BY <2>2, Inv2Init DEF Init, IndexComplete
<1>2. I /\ [Next]_vars => I'
  <2>1. ListingsSucceed /\ SafeLock
    BY DEF IndexStorageReliable, ListingsSucceed
  <2> QED
    BY <2>1, Inv2Step, IndexCompleteStep, ReadClosedStep
<1>3. I => \A p \in Proc : ReadClosed(p)
  OBVIOUS
<1> HIDE DEF I
<1> QED
  BY <1>1, <1>2, <1>3, PTL DEF Spec

\* An unlimited read has no hole if its last item has at most one type and matches whatever
\* the others do: with an event it returns every matching event before it.
THEOREM NestedReadsHaveNoHole ==
  ASSUME IndexStorageReliable
  PROVE  Spec => [](\A p \in Proc :
                      IsOkRead(p) /\ call[p].max = None => NoHole(p, result[p].positions))
<1>1. (\A p \in Proc : ReadClosed(p)) =>
        \A p \in Proc : IsOkRead(p) /\ call[p].max = None => NoHole(p, result[p].positions)
  BY DEF ReadClosed, ResultClosed
<1> QED
  BY <1>1, ReadClosedAlways, PTL

\* An unlimited read of Query::all() or of one item with at most one type has no hole: if
\* it returns an event it returns every event before it that matches.
THEOREM SimpleReadsHaveNoHole ==
  ASSUME IndexStorageReliable PROVE Spec => []PrefixReads
<1>1. TypeOK /\ (\A p \in Proc : ReadClosed(p)) => PrefixReads
  <2> SUFFICES ASSUME TypeOK, \A p \in Proc : ReadClosed(p), NEW p \in Proc,
                      IsOkRead(p), Simple(call[p].query), call[p].max = None
               PROVE  \A n \in Matching(events, call[p].query, call[p].after) :
                        \A m \in result[p].positions : n < m => n \in result[p].positions
    BY DEF PrefixReads
  <2>1. Nested(call[p].query)
    BY SimpleIsNested DEF TypeOK, Call
  <2> QED
    BY <2>1 DEF ReadClosed, ResultClosed, NoHole
<1> QED
  BY <1>1, ReadClosedAlways, TypeCorrect, PTL

-----------------------------------------------------------------------------
(* Reads find what was settled when they were called *)

QueriesNameTypesOrTags == \A c \in Calls : NoWildcards(c)

\* Nobody has more left to append than it was called with.
RestFits == \A p \in Proc : Len(rest[p]) <= Len(call[p].batch)

\* A batch begins at or before the position that its writer has come to.
LEMMA BatchBegins ==
  ASSUME TypeOK, RestFits, NEW q \in Proc
  PROVE  seq[q] \in Nat /\ Base(q) \in Int /\ Base(q) <= seq[q]
<1>1. rest[q] \in Seq(Event) /\ call[q].batch \in Seq(Event) /\ seq[q] \in Nat
  BY DEF TypeOK, Call
<1>2. Len(rest[q]) \in Nat /\ Len(call[q].batch) \in Nat /\ Len(rest[q]) <= Len(call[q].batch)
  BY <1>1, LenProperties DEF RestFits
<1>3. \A s, b, r \in Nat : r <= b => s - (b - r) \in Int /\ s - (b - r) <= s
  OBVIOUS
<1> QED
  BY <1>1, <1>2, <1>3 DEF Base

\* The events below `floor` were all in the index files when the call was made.
LEMMA SettledIsIndexed ==
  ASSUME Inv1, RestFits, IndexComplete
  PROVE  LET k == Cardinality(Settled) IN
           /\ k \in Nat /\ k <= End
           /\ \A n \in DOMAIN events : n < k =>
                \A f \in Range(FilesOf(events[n])) : n \in index[f]
<1> DEFINE k == Cardinality(Settled)
<1>1. DOMAIN events = 0 .. End - 1 /\ End \in Nat /\ IsFiniteSet(DOMAIN events)
  BY LogFacts DEF Inv1, TypeOK
<1>2. Cardinality(DOMAIN events) = End
  BY <1>1, FS_Interval
<1>3. Settled \in SUBSET DOMAIN events
  BY DEF Settled
<1>4. k \in Nat /\ k <= End
  <2>1. IsFiniteSet(Settled) /\ Cardinality(Settled) <= Cardinality(DOMAIN events)
    BY <1>1, <1>3, FS_Subset
  <2> QED
    BY <1>2, <2>1, FS_CardinalityType
<1> HIDE DEF k
<1>5. ASSUME NEW n \in DOMAIN events, n < k, NEW q \in Proc, pc[q] = "index"
      PROVE  seq[q] # n
  <2>1. seq[q] \in Nat /\ Base(q) \in Int /\ Base(q) <= seq[q]
    BY BatchBegins DEF Inv1
  <2>3. \A m \in Settled : m \in Nat /\ m < Base(q)
    BY <1>1, <1>5 DEF Settled
  <2>4. k > 0
    BY <1>1, <1>4, <1>5
  <2>5. Settled # {}
    BY <2>4, FS_EmptySet DEF k
  <2>6. Base(q) \in Nat \ {0}
    BY <2>1, <2>3, <2>5
  <2>7. Settled \in SUBSET (0 .. Base(q) - 1)
    BY <2>3, <2>6
  <2>8. k <= Base(q)
    <3>1. /\ IsFiniteSet(0 .. Base(q) - 1)
          /\ Cardinality(0 .. Base(q) - 1) = Base(q)
      BY SMTT(30), <2>6, FS_Interval
    <3> QED
      BY <2>7, <3>1, FS_Subset DEF k
  <2> QED
    BY <1>1, <1>4, <1>5, <2>1, <2>8
<1>6. ASSUME NEW n \in DOMAIN events, n < k, NEW f \in Range(FilesOf(events[n]))
      PROVE  n \in index[f]
  BY <1>5, <1>6 DEF IndexComplete, Covered
<1> QED
  BY <1>4, <1>6 DEF k

\* S lists every event below k that belongs in the index file f.
Lists(S, f, k) ==
  \A n \in DOMAIN events : n < k /\ f \in Range(FilesOf(events[n])) => n \in S

FloorIndexed(p) ==
  floor[p] <= End /\ \A f \in IndexFile : Lists(index[f], f, floor[p])

SeenFresh(p) ==
  item[p] \in DOMAIN call[p].query =>
    \A j \in DOMAIN seen[p] :
      Lists(seen[p][j], FilesRead(call[p].query[item[p]])[j], floor[p])

\* Of the items up to the current one no event below `floor` is missing.
FoundFresh(p) ==
  \A i \in DOMAIN call[p].query : \A n \in DOMAIN events :
    i < item[p] /\ n < floor[p] /\ ItemMatches(call[p].query[i], events[n]) => n \in found[p]

\* The positions S lack no event below `floor` as an answer to p's query.
NoneMissing(p, S) ==
  \A n \in Matching(events, call[p].query, call[p].after) : n < floor[p] => n \in S

\* p's parts of FreshReads and, if names differ, of LimitedReadsFind.
ResultFresh(p) ==
  IsOkRead(p) =>
    /\ call[p].max = None => NoneMissing(p, result[p].positions)
    /\ NamesDiffer /\ call[p].max > 0 /\ ~NoneMissing(p, {}) => result[p].positions # {}

ReadFresh(p) ==
  /\ NoWildcards(call[p]) /\ FloorIndexed(p)
  /\ pc[p] \in Before => SeenFresh(p) /\ FoundFresh(p)
  /\ pc[p] = "load" => NoneMissing(p, found[p])
  /\ ResultFresh(p)

\* An event added lies at the end of the log, above every `floor`.
LEMMA FreshStays ==
  ASSUME Inv2, [Next]_vars, NEW p \in Proc, floor[p] <= End, floor'[p] = floor[p]
  PROVE  /\ End <= End'
         /\ \A S, f : Lists(S, f, floor[p]) => Lists(S, f, floor[p])'
         /\ call'[p] = call[p] => \A S : NoneMissing(p, S) => NoneMissing(p, S)'
         /\ call'[p] = call[p] => \A S : NoneMissing(p, S)' => NoneMissing(p, S)
         /\ \A n \in DOMAIN events' : n < floor[p] => n \in DOMAIN events /\ events'[n] = events[n]
<1>1. DOMAIN events = 0 .. End - 1 /\ End \in Nat /\ floor[p] \in Nat
  BY LogFacts DEF Inv2, Inv1, TypeOK
<1>2. End <= End'
  <2>1. CASE events' = events
    BY <1>1, <2>1 DEF End
  <2>2. CASE DOMAIN events' = DOMAIN events \cup {End}
    <3>1. End + 1 \in Nat /\ DOMAIN events' = 0 .. (End + 1) - 1
      BY <1>1, <2>2
    <3>2. End' = End + 1
      BY <3>1, NextPositionOfInterval DEF End
    <3> QED
      BY <1>1, <3>2
  <2> QED
    BY <2>1, <2>2, LogGrowsAtItsEnd DEF Inv2
<1>3. \A n \in DOMAIN events' : n < floor[p] => n \in DOMAIN events /\ events'[n] = events[n]
  BY <1>1, LogGrowsAtItsEnd DEF Inv2
<1>4. \A n \in DOMAIN events : n \in DOMAIN events' /\ events'[n] = events[n]
  BY StepKeepsEvents DEF Inv2
<1>5. ASSUME NEW S, NEW f, Lists(S, f, floor[p]) PROVE Lists(S, f, floor[p])'
  BY <1>3, <1>5 DEF Lists
<1>6. ASSUME NEW S, call'[p] = call[p], NoneMissing(p, S) PROVE NoneMissing(p, S)'
  BY <1>3, <1>6 DEF NoneMissing, Matching
<1>7. ASSUME NEW S, call'[p] = call[p], NoneMissing(p, S)' PROVE NoneMissing(p, S)
  BY <1>4, <1>7 DEF NoneMissing, Matching
<1> QED
  BY <1>2, <1>3, <1>5, <1>6, <1>7

\* Index files only grow, as long as they can be read.
LEMMA IndexFilesGrow ==
  ASSUME IndexStorageReliable, TypeOK, [Next]_vars
  PROVE  \A f \in IndexFile : index[f] \subseteq index'[f]
<1>1. \A p \in Proc :
        AcquireLock(p) \/ WriteEvent(p) \/ ReleaseLock(p) \/ BreakLock(p) \/ CrashUnstamped(p)
          => index' = index
  BY DEF AcquireLock, WriteEvent, ReleaseLock, BreakLock, CrashUnstamped
<1>2. ASSUME NEW p \in Proc, UpdateIndex(p, FALSE)
      PROVE  \A f \in IndexFile : index[f] \subseteq index'[f]
  BY <1>2 DEF UpdateIndex, TypeOK
<1>3. \A p \in Proc : ~UpdateIndex(p, TRUE)
  BY NoIndexFaults
<1>4. \A failed \in BOOLEAN : failed = TRUE \/ failed = FALSE
  OBVIOUS
<1> QED
  BY <1>1, <1>2, <1>3, <1>4, WhoChangesTheStore

LEMMA LeastNat ==
  ASSUME NEW S \in SUBSET Nat, S # {}
  PROVE  \E x \in S : \A y \in S : x <= y
<1> DEFINE Below == {ss \in Nat \X Nat : ss[1] < ss[2]}
<1>1. IsWellFoundedOn(Below, Nat)
  BY NatLessThanWellFounded DEF OpToRel
<1>2. \A x, y \in Nat : <<y, x>> \in Below <=> y < x
  OBVIOUS
<1> HIDE DEF Below
<1>3. PICK x \in S : \A y \in S : ~(<<y, x>> \in Below)
  BY <1>1, WFMin
<1>4. ASSUME NEW y \in S PROVE x <= y
  <2>1. ~(y < x)
    BY <1>2, <1>3
  <2> QED
    BY <2>1
<1> QED
  BY <1>4

LEMMA GreatestBelow ==
  ASSUME NEW k \in Nat, NEW S \in SUBSET (0 .. k - 1), S # {}
  PROVE  \E x \in S : \A y \in S : y <= x
<1> DEFINE mirrored == {k - y : y \in S}
<1>1. mirrored \in SUBSET Nat /\ mirrored # {}
  <2>1. \A y \in S : k - y \in Nat
    OBVIOUS
  <2> QED
    BY <2>1, Zenon
<1>2. \A y \in S : k - y \in mirrored
  BY Zenon
<1>3. \A t \in mirrored : \E y \in S : t = k - y
  OBVIOUS
<1> HIDE DEF mirrored
<1>4. PICK t \in mirrored : \A u \in mirrored : t <= u
  BY <1>1, LeastNat
<1>5. PICK x \in S : t = k - x
  BY <1>3
<1>6. \A y \in S : k - x <= k - y
  BY <1>2, <1>4, <1>5
<1>7. \A y \in S : y <= x
  BY <1>6
<1> QED
  BY <1>7

\* A limit above zero leaves something of what there is.
LEMMA FirstOfNonEmpty ==
  ASSUME NEW b \in Nat, NEW S \in SUBSET (0 .. b - 1), S # {},
         NEW k \in Nat, k > 0, NEW desc \in BOOLEAN
  PROVE  FirstOf(S, k, desc) # {}
<1>1. PICK x \in S : {m \in S : IF desc THEN m > x ELSE m < x} = {}
  <2>1. CASE desc
    <3>1. PICK x \in S : \A y \in S : y <= x
      BY GreatestBelow
    <3>2. ASSUME NEW m \in S PROVE ~(m > x)
      BY <3>1
    <3> QED
      BY <2>1, <3>2
  <2>2. CASE ~desc
    <3>1. PICK x \in S : \A y \in S : x <= y
      BY LeastNat
    <3>2. ASSUME NEW m \in S PROVE ~(m < x)
      BY <3>1
    <3> QED
      BY <2>2, <3>2
  <2> QED
    BY <2>1, <2>2
<1>2. x \in FirstOf(S, k, desc)
  BY <1>1, FS_EmptySet DEF FirstOf
<1> QED
  BY <1>2

\* An item resolved: what was settled and matches it is among its positions.
LEMMA ItemFresh ==
  ASSUME Inv2, NEW p \in Proc, ReadFresh(p), ResolveItem(p)
  PROVE  \A i \in DOMAIN call[p].query : \A n \in DOMAIN events :
           i < item[p] + 1 /\ n < floor[p] /\ ItemMatches(call[p].query[i], events[n])
             => n \in found[p] \cup ItemPositions(call[p].query[item[p]], seen[p])
<1> DEFINE it == call[p].query[item[p]]
<1>1. TypeOK
  BY DEF Inv2, Inv1
<1>2. /\ pc[p] = "resolve" /\ item[p] \in DOMAIN call[p].query /\ it \in QueryItem
      /\ seen[p] \in Seq(SUBSET Nat) /\ Len(seen[p]) = Len(FilesRead(it))
  BY <1>1, ResolveItemStep
<1>3. call[p].query \in Seq(QueryItem) /\ item[p] \in Nat
  BY <1>1 DEF TypeOK, Call, Query
<1>4. DOMAIN call[p].query \subseteq Nat
  BY <1>3, LenProperties
<1>5. SeenFresh(p) /\ FoundFresh(p) /\ FilesRead(it) # << >>
  BY <1>2 DEF ReadFresh, Before, NoWildcards
<1>6. \A j \in DOMAIN seen[p] : Lists(seen[p][j], FilesRead(it)[j], floor[p])
  BY <1>2, <1>5 DEF SeenFresh
<1>7. DOMAIN seen[p] # {}
  <2> HIDE DEF it
  <2>1. FilesRead(it) \in Seq(IndexFile)
    BY <1>2, FilesReadType
  <2>2. Len(FilesRead(it)) \in Nat \ {0}
    BY <1>5, <2>1, EmptySeq, LenProperties
  <2>3. DOMAIN seen[p] = 1 .. Len(seen[p])
    BY <1>2, LenProperties
  <2>4. 1 \in 1 .. Len(seen[p])
    BY <1>2, <2>2
  <2> QED
    BY <2>3, <2>4
<1>8. ASSUME NEW n \in DOMAIN events, n < floor[p], ItemMatches(it, events[n])
      PROVE  n \in ItemPositions(it, seen[p])
  <2>1. events[n] \in Event
    BY <1>1 DEF TypeOK
  <2>2. \A j \in DOMAIN seen[p] :
          FilesRead(it)[j] \in Range(FilesOf(events[n])) => n \in seen[p][j]
    BY <1>6, <1>8 DEF Lists
  <2> HIDE DEF it
  <2> QED
    BY <1>2, <1>7, <1>8, <2>1, <2>2, ItemPositionsCover
<1>9. ASSUME NEW i \in DOMAIN call[p].query, NEW n \in DOMAIN events,
             i < item[p] + 1, n < floor[p], ItemMatches(call[p].query[i], events[n])
      PROVE  n \in found[p] \cup ItemPositions(it, seen[p])
  <2>1. i = item[p] \/ i < item[p]
    BY <1>3, <1>4, <1>9
  <2> QED
    BY <1>5, <1>8, <1>9, <2>1 DEF FoundFresh
<1> QED
  BY <1>9

\* A limit does not cut everything away, if everything resolved matches.
LEMMA ReturnedNonEmpty ==
  ASSUME NEW stored, NEW b \in Nat, DOMAIN stored = 0 .. b - 1,
         NEW q, NEW S \in SUBSET DOMAIN stored, S # {}, \A n \in S : Matches(q, stored[n]),
         NEW k \in Nat, k > 0, NEW desc \in BOOLEAN
  PROVE  Returned(stored, q, S, k, desc) # {}
<1>1. FirstOf(S, k, desc) # {} /\ FirstOf(S, k, desc) \subseteq S
  <2>1. FirstOf(S, k, desc) # {}
    BY FirstOfNonEmpty
  <2> QED
    BY <2>1 DEF FirstOf
<1>2. k # None
  BY DEF None
<1>3. CASE q = All
  BY <1>1, <1>2, <1>3 DEF Returned, Truncated
<1>4. CASE q # All
  <2>1. Truncated(q, S, k, desc) = FirstOf(S, k, desc)
    BY <1>2, <1>4 DEF Truncated
  <2>2. {n \in FirstOf(S, k, desc) : Matches(q, stored[n])} = FirstOf(S, k, desc)
    BY <1>1
  <2> QED
    BY <1>1, <1>4, <2>1, <2>2 DEF Returned
<1> QED
  BY <1>3, <1>4

LEMMA ReadFreshStep ==
  ASSUME IndexStorageReliable, QueriesNameTypesOrTags, Inv3, [Next]_vars, NEW p \in Proc,
         ReadClosed(p), NamesDiffer => ReadSound(p), ReadFresh(p)
  PROVE  ReadFresh(p)'
<1>1. TypeOK /\ Inv2 /\ IndexComplete
  BY DEF Inv3, Inv2, Inv1
<1>2. \A f \in IndexFile : index[f] \subseteq index'[f]
  BY <1>1, IndexFilesGrow
<1>3. ASSUME floor'[p] = floor[p], call'[p] = call[p]
      PROVE  NoWildcards(call[p])' /\ FloorIndexed(p)'
  <2>1. End \in Nat /\ End' \in Nat /\ floor[p] \in Nat
    <3>1. TypeOK' /\ Inv2'
      <4>1. ListingsSucceed /\ SafeLock
        BY DEF IndexStorageReliable, ListingsSucceed
      <4> QED
        BY <1>1, <4>1, Inv2Step DEF Inv2, Inv1
    <3> QED
      BY <1>1, <3>1, LogFacts DEF Inv2, Inv1, TypeOK
  <2>2. End <= End'
    BY <1>1, <1>3, FreshStays DEF ReadFresh, FloorIndexed
  <2>3. \A n \in DOMAIN events' : n < floor[p] => n \in DOMAIN events /\ events'[n] = events[n]
    BY <1>1, <1>3, FreshStays DEF ReadFresh, FloorIndexed
  <2>4. \A f \in IndexFile : \A n \in DOMAIN events' :
          n < floor[p] /\ f \in Range(FilesOf(events'[n])) => n \in index'[f]
    BY <1>2, <2>3 DEF Lists, ReadFresh, FloorIndexed
  <2>5. floor'[p] <= End'
    BY <1>3, <2>1, <2>2 DEF ReadFresh, FloorIndexed
  <2> QED
    BY <1>3, <2>4, <2>5 DEF ReadFresh, FloorIndexed, NoWildcards, Lists
<1>4. ASSUME floor'[p] = floor[p], call'[p] = call[p], result'[p] = result[p]
      PROVE  ResultFresh(p)'
  BY <1>1, <1>4, FreshStays DEF ResultFresh, IsOkRead, ReadFresh, FloorIndexed
<1>5. ASSUME NEW c \in Calls, Invoke(p, c)
      PROVE  ReadFresh(p)'
  <2>1. /\ UNCHANGED <<events, index>>
        /\ call'[p] = c /\ item'[p] = 1 /\ seen'[p] = << >> /\ found'[p] = {}
        /\ result'[p].status = "none" /\ floor'[p] = Cardinality(Settled)
        /\ pc'[p] = IF c.op = "read" THEN "resolve" ELSE "acquire"
    BY <1>1, <1>5 DEF Invoke, Go, Finish, TypeOK, store
  <2>2. c.query \in Seq(QueryItem)
    BY ConstantsAssumption DEF Call, Query
  <2>3. FloorIndexed(p)'
    <3>1. Inv1 /\ RestFits /\ IndexComplete
      BY DEF Inv3, Inv2, Progress, RestFits
    <3> QED
      BY <2>1, <3>1, SettledIsIndexed DEF FloorIndexed, Lists, End
  <2>4. FoundFresh(p)'
    BY <2>1, <2>2, LenProperties DEF FoundFresh
  <2> QED
    BY <2>1, <2>3, <2>4 DEF ReadFresh, Before, SeenFresh, ResultFresh, IsOkRead,
         QueriesNameTypesOrTags, NoWildcards
<1>6. CASE Bystander(p)
  <2>1. floor'[p] = floor[p] /\ call'[p] = call[p]
    BY <1>6 DEF Bystander
  <2>2. pc'[p] \in Before => SeenFresh(p)' /\ FoundFresh(p)'
    BY <1>1, <1>6, <2>1, FreshStays
       DEF Bystander, ReadFresh, FloorIndexed, SeenFresh, FoundFresh
  <2>3. pc'[p] = "load" => NoneMissing(p, found[p])'
    BY <1>1, <1>6, <2>1, FreshStays DEF Bystander, ReadFresh, FloorIndexed, NoneMissing
  <2>4. ResultFresh(p)'
    <3>1. CASE result'[p] = result[p]
      BY <1>4, <2>1, <3>1
    <3>2. CASE result'[p].status = "io_error"
      BY <3>2 DEF ResultFresh, IsOkRead
    <3>3. CASE result'[p].status = "ok" /\ pc[p] = "write"
      BY <2>1, <3>3 DEF ResultFresh, IsOkRead, ReadClosed, WritesAppend
    <3> QED
      BY <1>6, <3>1, <3>2, <3>3 DEF Bystander
  <2> QED
    BY <1>3, <1>6, <2>1, <2>2, <2>3, <2>4 DEF Bystander, ReadFresh
<1>7. CASE ReadIndex(p, FALSE)
  <2> DEFINE files == FilesRead(call[p].query[item[p]])
  <2>1. /\ UNCHANGED <<events, index, pc, call, item, found, result, floor>>
        /\ pc[p] = "resolve" /\ item[p] \in DOMAIN call[p].query
        /\ \A j \in DOMAIN seen'[p] :
             \/ j \in DOMAIN seen[p] /\ seen'[p][j] = seen[p][j]
             \/ /\ j \in DOMAIN files /\ files[j] \in IndexFile
                /\ seen'[p][j] = index[files[j]]
    BY <1>1, <1>7, ReadIndexStep
  <2>2. \A j \in DOMAIN seen[p] : Lists(seen[p][j], files[j], floor[p])
    BY <2>1 DEF ReadFresh, Before, SeenFresh
  <2> HIDE DEF files
  <2>3. \A j \in DOMAIN seen'[p] : Lists(seen'[p][j], files[j], floor[p])
    BY <2>1, <2>2 DEF ReadFresh, FloorIndexed
  <2>4. SeenFresh(p)' /\ FoundFresh(p)'
    BY <2>1, <2>3 DEF SeenFresh, FoundFresh, Lists, files, ReadFresh, Before
  <2> QED
    BY <1>3, <1>4, <2>1, <2>4 DEF ReadFresh
<1>8. CASE ResolveItem(p)
  <2> DEFINE q == call[p].query
             all == found[p] \cup ItemPositions(q[item[p]], seen[p])
  <2>1. /\ UNCHANGED <<events, index, call, result, floor>>
        /\ pc[p] = "resolve" /\ item[p] \in DOMAIN q /\ q # All
        /\ item'[p] = item[p] + 1 /\ seen'[p] = << >>
        /\ \/ pc'[p] = "resolve" /\ found'[p] = all
           \/ /\ pc'[p] = "load" /\ found'[p] = FromStart(all, call[p].after)
              /\ item[p] = Len(q)
    BY <1>1, <1>8, ResolveItemStep
  <2>2. \A i \in DOMAIN q : \A n \in DOMAIN events :
          i < item[p] + 1 /\ n < floor[p] /\ ItemMatches(q[i], events[n]) => n \in all
    BY <1>1, <1>8, ItemFresh
  <2>3. q \in Seq(QueryItem) /\ call[p].after \in Nat \cup {None} /\ DOMAIN events \subseteq Nat
    BY <1>1 DEF TypeOK, Call, Query
  <2> HIDE DEF all, q
  <2>4. CASE pc'[p] = "resolve"
    <3>1. SeenFresh(p)' /\ FoundFresh(p)'
      BY <2>1, <2>2, <2>4 DEF SeenFresh, FoundFresh, q
    <3> QED
      BY <1>3, <1>4, <2>1, <2>4, <3>1 DEF ReadFresh
  <2>5. CASE pc'[p] = "load"
    <3>1. \A i \in DOMAIN q : i < item[p] + 1
      BY <2>1, <2>3, <2>5, LenProperties
    <3>2. ASSUME NEW n \in Matching(events, q, call[p].after), n < floor[p]
          PROVE  n \in found'[p]
      <4>1. n \in DOMAIN events /\ n > call[p].after /\ \E i \in DOMAIN q : ItemMatches(q[i], events[n])
        BY <2>1, <3>2 DEF Matching, Matches
      <4>2. n \in all
        BY <2>2, <3>1, <3>2, <4>1
      <4>3. n >= call[p].after + 1
        BY <2>3, <4>1 DEF None
      <4> QED
        BY <2>1, <2>5, <4>2, <4>3 DEF FromStart
    <3>3. NoneMissing(p, found[p])'
      BY <2>1, <3>2 DEF NoneMissing, q
    <3> QED
      BY <1>3, <1>4, <2>1, <2>5, <3>3 DEF ReadFresh, Before
  <2> QED
    BY <2>1, <2>4, <2>5
<1>9. CASE ListEvents(p, FALSE)
  <2>1. /\ UNCHANGED <<events, call, result, floor>>
        /\ pc'[p] = "load"
        /\ found'[p] = FromStart(DOMAIN events, call[p].after)
    BY <1>1, <1>9 DEF ListEvents, Go, TypeOK, store
  <2>2. call[p].after \in Nat \cup {None} /\ DOMAIN events \subseteq Nat
    BY <1>1 DEF TypeOK, Call
  <2>3. NoneMissing(p, found[p])'
    BY <2>1, <2>2 DEF NoneMissing, FromStart, Matching, None
  <2> QED
    BY <1>3, <1>4, <2>1, <2>3 DEF ReadFresh, Before
<1>10. ASSUME NEW failed \in BOOLEAN, LoadEvents(p, failed)
       PROVE  ReadFresh(p)'
  <2> DEFINE got == Returned(events, call[p].query, found[p], call[p].max, call[p].desc)
  <2>1. pc[p] = "load" /\ UNCHANGED <<events, call, floor>>
    BY <1>10 DEF LoadEvents, store
  <2>2. /\ pc'[p] \in {"idle", "release", "write"}
        /\ \/ result'[p].status # "ok" \/ result'[p] = result[p]
           \/ result'[p] = [status |-> "ok", positions |-> got]
    BY <1>1, <1>10 DEF LoadEvents, Go, Finish, TypeOK
  <2>3. NoneMissing(p, found[p])
    BY <2>1 DEF ReadFresh
  <2>4. call[p].max = None => NoneMissing(p, got)
    <3>1. call[p].max = None =>
            \A n \in found[p] : Matches(call[p].query, events[n]) => n \in got
      BY DEF Returned, Truncated
    <3> QED
      BY <2>3, <3>1 DEF NoneMissing, Matching
  <2>5. NamesDiffer /\ call[p].max > 0 /\ ~NoneMissing(p, {}) => got # {}
    <3> SUFFICES ASSUME NamesDiffer, call[p].max > 0, ~NoneMissing(p, {}) PROVE got # {}
      OBVIOUS
    <3>1. found[p] # {}
      BY <2>3 DEF NoneMissing
    <3>2. \A n \in found[p] : n \in DOMAIN events /\ Matches(call[p].query, events[n])
      BY <2>1 DEF ReadSound, FoundSound
    <3>3. call[p].max \in Nat /\ call[p].desc \in BOOLEAN
      <4>1. call[p].max \in Nat \cup {None} /\ call[p].desc \in BOOLEAN
        BY <1>1 DEF TypeOK, Call
      <4> QED
        BY <4>1 DEF None
    <3>4. DOMAIN events = 0 .. End - 1 /\ End \in Nat
      BY <1>1, LogFacts DEF Inv2
    <3> QED
      BY <3>1, <3>2, <3>3, <3>4, ReturnedNonEmpty
  <2> HIDE DEF got
  <2>6. ResultFresh(p)'
    <3>1. CASE result'[p] = [status |-> "ok", positions |-> got]
      BY <2>1, <2>4, <2>5, <3>1 DEF ResultFresh, IsOkRead, NoneMissing
    <3> QED
      BY <1>4, <2>1, <2>2, <3>1 DEF ResultFresh, IsOkRead
  <2> QED
    BY <1>3, <2>1, <2>2, <2>6 DEF ReadFresh, Before
<1> QED
  <2>1. ~ReadIndex(p, TRUE) /\ ~ListEvents(p, TRUE)
    BY NoIndexFaults
  <2>2. \A failed \in BOOLEAN : failed = TRUE \/ failed = FALSE
    OBVIOUS
  <2> QED
    BY <1>1, <1>5, <1>6, <1>7, <1>8, <1>9, <1>10, <2>1, <2>2, ReaderStep DEF Resolves

LEMMA FreshAlways ==
  ASSUME IndexStorageReliable, QueriesNameTypesOrTags
  PROVE  Spec => [](\A p \in Proc : ReadFresh(p))
<1> DEFINE I == /\ Inv3
               /\ \A p \in Proc : ReadClosed(p) /\ (NamesDiffer => ReadSound(p)) /\ ReadFresh(p)
<1>1. ConditionsNameTypesOrTags
  BY DEF QueriesNameTypesOrTags, ConditionsNameTypesOrTags
<1>2. Init => I
  <2> SUFFICES ASSUME Init PROVE I
    OBVIOUS
  <2>1. ASSUME NEW p \in Proc
        PROVE  ReadClosed(p) /\ ReadSound(p) /\ ReadFresh(p)
    <3>1. /\ pc[p] = "idle" /\ result[p].status = "none" /\ floor[p] = 0
          /\ call[p].query = << >> /\ DOMAIN events = {}
      BY DEF Init, ReadCall, All
    <3>2. ReadClosed(p)
      BY <3>1 DEF ReadClosed, WritesAppend, Before, ResultClosed, IsOkRead
    <3>3. End = 0
      BY <3>1 DEF End, NextPosition
    <3>4. ReadFresh(p)
      BY <3>1, <3>3 DEF ReadFresh, Before, ResultFresh, IsOkRead, NoWildcards, FloorIndexed, Lists
    <3> QED
      BY <3>2, <3>4, ReadSoundInit
  <2> QED
    BY <2>1, Inv3Init
<1>3. I /\ [Next]_vars => I'
  <2> SUFFICES ASSUME I, [Next]_vars PROVE I'
    OBVIOUS
  <2>1. Inv3'
    BY <1>1, Inv3Step
  <2>2. ASSUME NEW p \in Proc
        PROVE  ReadClosed(p)' /\ (NamesDiffer => ReadSound(p)') /\ ReadFresh(p)'
    <3>1. Inv2 /\ IndexComplete
      BY DEF Inv3
    <3>2. ReadClosed(p)'
      BY <3>1, ReadClosedStep
    <3>3. NamesDiffer => ReadSound(p)'
      BY <3>1, ReadSoundStep DEF Exact
    <3>4. ReadFresh(p)'
      BY ReadFreshStep
    <3> QED
      BY <3>2, <3>3, <3>4
  <2> QED
    BY <2>1, <2>2 DEF NamesDiffer
<1>4. I => \A p \in Proc : ReadFresh(p)
  OBVIOUS
<1> HIDE DEF I
<1> QED
  BY <1>2, <1>3, <1>4, PTL DEF Spec

\* An unlimited read misses no matching event whose append was over when it was called:
\* a caller reads its own writes, whatever else is being appended and however long the
\* index files take to read.
THEOREM ReadsAreFresh ==
  ASSUME IndexStorageReliable, QueriesNameTypesOrTags
  PROVE  Spec => []FreshReads
<1>1. (\A p \in Proc : ReadFresh(p)) => FreshReads
  BY DEF ReadFresh, ResultFresh, NoneMissing, FreshReads
<1> QED
  BY <1>1, FreshAlways, PTL

\* If no two names share an index file, a read with a limit above zero finds something when
\* there was something to find as it was called: read_last never misses a settled event.
THEOREM LimitedReadsFindSomething ==
  ASSUME IndexStorageReliable, QueriesNameTypesOrTags, NamesDiffer
  PROVE  Spec => []LimitedReadsFind
<1>1. (\A p \in Proc : ReadFresh(p)) => LimitedReadsFind
  BY DEF ReadFresh, ResultFresh, NoneMissing, LimitedReadsFind
<1> QED
  BY <1>1, FreshAlways, PTL
=============================================================================
