----------------------------- MODULE EventStore -----------------------------
(***************************************************************************)
(* MarmosaStore: append_async and read_async over a StorageBackend, called *)
(* by concurrent processes.  One action per storage call that another      *)
(* process can observe; a call of append_async goes through                *)
(*                                                                         *)
(*   acquire -> scan -> [resolve -> load] -> write -> index ... -> release *)
(*                                                                         *)
(* with the condition check in brackets, and a call of read_async through  *)
(* resolve -> load without ever taking the lock.                           *)
(*                                                                         *)
(* Each write_file is atomic, as in InMemoryStorage.  The index lock that  *)
(* surrounds an index update is always free here: only append_async        *)
(* updates indices, under the global lock, and a lock left by a dead       *)
(* holder counts as removed.  So lock, read, write and unlock of one index *)
(* file are one step.                                                      *)
(***************************************************************************)
EXTENDS Queries, FiniteSetsExt

CONSTANTS
  Proc,             \* the callers: tasks, threads or processes
  Free,             \* value of `lock` when the lock is not held
  Orphan,           \* value of `lock` when its holder died before it stamped the lock
  Calls,            \* the calls they may make, a subset of Call
  MaxCalls,         \* bound: the number of calls made in a behaviour
  FaultKinds,       \* the faults of storage that can happen, see Fault
  MaxFaults,        \* bound: the number of faults in a behaviour
  NestedLockNames,  \* TRUE iff the backend locks names that contain a '/'
  BreaksStaleLocks, \* TRUE iff it breaks old locks: on Node, never in memory
  FastHolders       \* TRUE iff no living holder keeps the lock long enough to be old

\* A call: read_async(query, after, max, desc), append_async(batch, None) or
\* append_async(batch, Some(query, after)); unused fields have default values.
Call == [op : {"read", "append", "append_if"}, batch : Seq(Event),
         query : Query, after : Nat \cup {None}, max : Nat \cup {None}, desc : BOOLEAN]

ReadCall(q, after, max, desc) ==
  [op |-> "read", batch |-> << >>, query |-> q, after |-> after, max |-> max, desc |-> desc]

AppendCall(batch) ==
  [op |-> "append", batch |-> batch, query |-> All, after |-> None, max |-> None, desc |-> FALSE]

AppendIfCall(batch, q, after) ==
  [op |-> "append_if", batch |-> batch, query |-> q, after |-> after, max |-> None, desc |-> FALSE]

\* append_single_async, read_all_async and read_last_async (extensions.rs).
AppendSingle(e) == AppendCall(<<e>>)

ReadAll(q) == ReadCall(q, None, None, FALSE)

ReadLast(q) == ReadCall(q, None, 1, TRUE)

\* The operations of the storage that may return an error, and the death of a
\* caller's process.  The errors of the last two are those of Maintenance.
Fault == {"dir_read", "index_read", "event_read", "event_write", "index_write", "index_lock",
          "crash", "tag_index", "delete_dir"}

ASSUME ConstantsAssumption ==
  /\ Free \notin Proc /\ Orphan \notin Proc /\ Orphan # Free
  /\ Calls \subseteq Call
  /\ \A c \in Calls : c.op # "read" => c.max = None
  /\ MaxCalls \in Nat /\ MaxFaults \in Nat
  /\ FaultKinds \subseteq Fault
  /\ NestedLockNames \in BOOLEAN
  /\ BreaksStaleLocks \in BOOLEAN /\ FastHolders \in BOOLEAN

VARIABLES
  events,  \* the files under Events: position -> event
  index,   \* index file -> the positions it lists (a missing file lists none)
  lock,    \* who stamped the lock "global_store", if it is there
  pc,      \* what each process is about to do
  call,    \* the call each process is making, or made last
  seq,     \* `sequence`: the position of the next event to write
  rest,    \* the events of the batch not yet written and indexed
  pend,    \* the index files still to be updated for the event at `seq`
  item,    \* index of the query item being resolved
  seen,    \* what the index files read for this item so far held
  found,   \* `all_positions`: the positions resolved so far
  result,  \* outcome of the last call
  floor,   \* history: all events below it were appended when the call was made
  calls,   \* number of calls made
  faults   \* number of faults that happened

store == <<events, index, lock>>
resolving == <<item, seen, found>>
vars == <<store, pc, call, seq, rest, pend, resolving, result, floor, calls, faults>>

Labels == {"idle", "acquire", "unlink", "scan", "resolve", "load", "write", "index", "release", "crashed"}

Statuses == {"none", "ok", "condition_failed", "io_error"}

\* Mutant of NextPosition: the last position taken instead of the one after it.
NextPositionLast(stored) == IF stored = {} THEN None ELSE Max(stored)

\* `max().map(|v| v + 1).unwrap_or(0)` over the file names under Events.
NextPosition(stored) == IF stored = {} THEN 0 ELSE Max(stored) + 1

Go(p, label) == pc' = [pc EXCEPT ![p] = label]

Finish(p, status, positions) ==
  result' = [result EXCEPT ![p] = [status |-> status, positions |-> positions]]

\* The position given to the first event of p's batch.
Base(p) == seq[p] - (Len(call[p].batch) - Len(rest[p]))

\* The positions of the events whose append is over, one way or another.
Settled ==
  {n \in DOMAIN events :
     \A p \in Proc : pc[p] \in {"write", "index"} => n < Base(p)}

Init ==
  /\ events = << >>
  /\ index = [f \in IndexFile |-> {}]
  /\ lock = Free
  /\ pc = [p \in Proc |-> "idle"]
  /\ call = [p \in Proc |-> ReadCall(All, None, None, FALSE)]
  /\ seq = [p \in Proc |-> 0]
  /\ rest = [p \in Proc |-> << >>]
  /\ pend = [p \in Proc |-> << >>]
  /\ item = [p \in Proc |-> 1]
  /\ seen = [p \in Proc |-> << >>]
  /\ found = [p \in Proc |-> {}]
  /\ result = [p \in Proc |-> [status |-> "none", positions |-> {}]]
  /\ floor = [p \in Proc |-> 0]
  /\ calls = 0
  /\ faults = 0

\* A storage operation of this kind fails, if `failed`.
Storage(kind, failed) ==
  IF failed
  THEN kind \in FaultKinds /\ faults < MaxFaults /\ faults' = faults + 1
  ELSE UNCHANGED faults

-----------------------------------------------------------------------------
(* The caller *)

Invoke(p, c) ==
  /\ pc[p] = "idle" /\ calls < MaxCalls
  /\ calls' = calls + 1
  /\ call' = [call EXCEPT ![p] = c]
  /\ Go(p, IF c.op = "read" THEN "resolve" ELSE "acquire")
  /\ Finish(p, "none", {})
  /\ floor' = [floor EXCEPT ![p] = Cardinality(Settled)]
  /\ rest' = [rest EXCEPT ![p] = c.batch]
  /\ item' = [item EXCEPT ![p] = 1]
  /\ seen' = [seen EXCEPT ![p] = << >>]
  /\ found' = [found EXCEPT ![p] = {}]
  /\ UNCHANGED <<store, seq, pend, faults>>

-----------------------------------------------------------------------------
(* append_async up to the condition *)

\* Mutant of AcquireLock: the lock does not exclude.
AcquireLockUnchecked(p) ==
  /\ pc[p] = "acquire"
  /\ lock' = p
  /\ Go(p, "scan")
  /\ UNCHANGED <<events, index, call, seq, rest, pend, resolving, result, floor, calls, faults>>

AcquireLock(p) ==
  /\ pc[p] = "acquire" /\ lock = Free
  /\ lock' = p
  /\ Go(p, "scan")
  /\ UNCHANGED <<events, index, call, seq, rest, pend, resolving, result, floor, calls, faults>>

\* Mutants of JudgeLock: the lock of a living holder counts as stale; none does.
JudgeAnyLock(p) ==
  /\ pc[p] = "acquire" /\ BreaksStaleLocks
  /\ lock \in Proc
  /\ Go(p, "unlink")
  /\ UNCHANGED <<store, call, seq, rest, pend, resolving, result, floor, calls, faults>>

JudgeNoLock(p) == pc[p] = "acquire" /\ lock \in Proc /\ UNCHANGED vars

\* A process that waits finds a stamp older than the threshold, whoever has the lock:
\* a dead process, or one that takes too long.  A lock without a stamp never counts.
JudgeLock(p) ==
  /\ pc[p] = "acquire" /\ BreaksStaleLocks
  /\ lock \in Proc
  /\ FastHolders => pc[lock] = "crashed"
  /\ Go(p, "unlink")
  /\ UNCHANGED <<store, call, seq, rest, pend, resolving, result, floor, calls, faults>>

\* It removes the lock, whichever is there by now, and tries again.
BreakLock(p) ==
  /\ pc[p] = "unlink"
  /\ lock' = Free
  /\ Go(p, "acquire")
  /\ UNCHANGED <<events, index, call, seq, rest, pend, resolving, result, floor, calls, faults>>

\* The next position is taken from the directory listing before the condition
\* is looked at; a listing that fails counts as an empty one.
ScanEvents(p, failed) ==
  /\ pc[p] = "scan"
  /\ Storage("dir_read", failed)
  /\ seq' = [seq EXCEPT ![p] = IF failed THEN 0 ELSE NextPosition(DOMAIN events)]
  /\ Go(p, IF call[p].op = "append_if" THEN "resolve" ELSE "write")
  /\ UNCHANGED <<store, call, rest, pend, resolving, result, floor, calls>>

-----------------------------------------------------------------------------
(* read_internal: for read_async, and for the condition of append_async *)

\* get_all_positions: one directory listing, empty if it fails.
ListEvents(p, failed) ==
  /\ pc[p] = "resolve" /\ call[p].query = All
  /\ Storage("dir_read", failed)
  /\ found' = [found EXCEPT ![p] =
                 IF failed THEN {} ELSE FromStart(DOMAIN events, call[p].after)]
  /\ Go(p, "load")
  /\ UNCHANGED <<store, call, seq, rest, pend, item, seen, result, floor, calls>>

\* One get_positions_async: the index files of an item are read one at a time;
\* one that cannot be read counts as empty.
ReadIndex(p, failed) ==
  /\ pc[p] = "resolve" /\ item[p] \in DOMAIN call[p].query
  /\ Storage("index_read", failed)
  /\ LET files == FilesRead(call[p].query[item[p]]) IN
       /\ Len(seen[p]) < Len(files)
       /\ seen' = [seen EXCEPT ![p] =
                     Append(@, IF failed THEN {} ELSE index[files[Len(@) + 1]])]
  /\ UNCHANGED <<store, pc, call, seq, rest, pend, item, found, result, floor, calls>>

\* All files of the item are read: its positions join all_positions, and after
\* the last item those before the start are dropped.
ResolveItem(p) ==
  /\ pc[p] = "resolve" /\ item[p] \in DOMAIN call[p].query
  /\ LET it   == call[p].query[item[p]]
         all  == found[p] \cup ItemPositions(it, seen[p])
         last == item[p] = Len(call[p].query)
     IN  /\ Len(seen[p]) = Len(FilesRead(it))
         /\ found' = [found EXCEPT ![p] =
                        IF last THEN FromStart(all, call[p].after) ELSE all]
         /\ Go(p, IF last THEN "load" ELSE "resolve")
  /\ item' = [item EXCEPT ![p] = @ + 1]
  /\ seen' = [seen EXCEPT ![p] = << >>]
  /\ UNCHANGED <<store, call, seq, rest, pend, result, floor, calls, faults>>

\* The event files are read and filtered; they never change once written, so
\* reading them is one step.  One file that is missing or cannot be read fails
\* the whole read.  For the condition, any record fails the append.
LoadEvents(p, failed) ==
  /\ pc[p] = "load"
  /\ Storage("event_read", failed)
  /\ LET c == call[p]
         toRead == Truncated(c.query, found[p], c.max, c.desc)
         bad == IF failed THEN toRead # {} ELSE ~(toRead \subseteq DOMAIN events)
         got == Returned(events, c.query, found[p], c.max, c.desc)
     IN  \/ /\ bad
            /\ Finish(p, "io_error", {})
            /\ Go(p, IF c.op = "read" THEN "idle" ELSE "release")
         \/ /\ ~bad /\ c.op = "read"
            /\ Finish(p, "ok", got)
            /\ Go(p, "idle")
         \/ /\ ~bad /\ c.op # "read" /\ got # {}
            /\ Finish(p, "condition_failed", {})
            /\ Go(p, "release")
         \/ /\ ~bad /\ c.op # "read" /\ got = {}
            /\ Go(p, "write")
            /\ UNCHANGED result
  /\ UNCHANGED <<store, call, seq, rest, pend, resolving, floor, calls>>

-----------------------------------------------------------------------------
(* append_async after the condition *)

WriteEvent(p) ==
  /\ pc[p] = "write" /\ rest[p] # << >>
  /\ events' = [n \in DOMAIN events \cup {seq[p]} |->
                  IF n = seq[p] THEN Head(rest[p]) ELSE events[n]]
  /\ pend' = [pend EXCEPT ![p] = FilesOf(Head(rest[p]))]
  /\ Go(p, "index")
  /\ UNCHANGED <<index, lock, call, seq, rest, resolving, result, floor, calls, faults>>

\* Mutant of UpdateIndex: the old positions are not written back.
UpdateIndexAfresh(p, failed) ==
  /\ pc[p] = "index" /\ pend[p] # << >> /\ NestedLockNames
  /\ Storage("index_read", failed)
  /\ index' = [index EXCEPT ![Head(pend[p])] = {seq[p]}]
  /\ pend' = [pend EXCEPT ![p] = Tail(@)]
  /\ UNCHANGED <<events, lock, pc, call, seq, rest, resolving, result, floor, calls>>

\* add_position_async of the type index, then of each tag index: the file is
\* read and written back with the position added.  If it cannot be read it is
\* started afresh.
UpdateIndex(p, failed) ==
  /\ pc[p] = "index" /\ pend[p] # << >> /\ NestedLockNames
  /\ Storage("index_read", failed)
  /\ index' = [index EXCEPT ![Head(pend[p])] = (IF failed THEN {} ELSE @) \cup {seq[p]}]
  /\ pend' = [pend EXCEPT ![p] = Tail(@)]
  /\ UNCHANGED <<events, lock, pc, call, seq, rest, resolving, result, floor, calls>>

\* The lock of an index is named after the path of its file.  The lock file of
\* NodeFileSystemStorage would lie in a directory that nobody creates: `open`
\* fails, and the append with it.  Where names are no problem the storage may still fail.
IndexLockFails(p) ==
  /\ pc[p] = "index" /\ pend[p] # << >>
  /\ (~NestedLockNames /\ UNCHANGED faults) \/ Storage("index_lock", TRUE)
  /\ Finish(p, "io_error", {})
  /\ Go(p, "release")
  /\ UNCHANGED <<store, call, seq, rest, pend, resolving, floor, calls>>

\* Mutant of NextEvent: it does not wait for the index updates.
NextEventEarly(p) ==
  /\ pc[p] = "index"
  /\ seq' = [seq EXCEPT ![p] = @ + 1]
  /\ rest' = [rest EXCEPT ![p] = Tail(@)]
  /\ Go(p, "write")
  /\ UNCHANGED <<store, call, pend, resolving, result, floor, calls, faults>>

NextEvent(p) ==
  /\ pc[p] = "index" /\ pend[p] = << >>
  /\ seq' = [seq EXCEPT ![p] = @ + 1]
  /\ rest' = [rest EXCEPT ![p] = Tail(@)]
  /\ Go(p, "write")
  /\ UNCHANGED <<store, call, pend, resolving, result, floor, calls, faults>>

FinishBatch(p) ==
  /\ pc[p] = "write" /\ rest[p] = << >>
  /\ Finish(p, "ok", {})
  /\ Go(p, "release")
  /\ UNCHANGED <<store, call, seq, rest, pend, resolving, floor, calls, faults>>

\* Reached on every return of the block between lock and unlock: the lock goes,
\* whoever has it by now.
ReleaseLock(p) ==
  /\ pc[p] = "release"
  /\ lock' = Free
  /\ Go(p, "idle")
  /\ UNCHANGED <<events, index, call, seq, rest, pend, resolving, result, floor, calls, faults>>

-----------------------------------------------------------------------------
(* Faults *)

\* Mutant of EventWriteFails: the error is ignored and the indices are updated.
EventWriteFailsIgnored(p) ==
  /\ Storage("event_write", TRUE)
  /\ pc[p] = "write" /\ rest[p] # << >>
  /\ pend' = [pend EXCEPT ![p] = FilesOf(Head(rest[p]))]
  /\ Go(p, "index")
  /\ UNCHANGED <<store, call, seq, rest, resolving, result, floor, calls>>

\* write_file of the event returns an error: the events before it stay.
EventWriteFails(p) ==
  /\ Storage("event_write", TRUE)
  /\ pc[p] = "write" /\ rest[p] # << >>
  /\ Finish(p, "io_error", {})
  /\ Go(p, "release")
  /\ UNCHANGED <<store, call, seq, rest, pend, resolving, floor, calls>>

\* write_file of an index returns an error, which add_position_async ignores.
IndexWriteFails(p) ==
  /\ Storage("index_write", TRUE)
  /\ pc[p] = "index" /\ pend[p] # << >> /\ NestedLockNames
  /\ pend' = [pend EXCEPT ![p] = Tail(@)]
  /\ UNCHANGED <<store, pc, call, seq, rest, resolving, result, floor, calls>>

\* The process of the caller dies; what it wrote stays, and so does its lock.
Crash(p) ==
  /\ Storage("crash", TRUE)
  /\ pc[p] \notin {"idle", "crashed"}
  /\ Go(p, "crashed")
  /\ UNCHANGED <<store, call, seq, rest, pend, resolving, result, floor, calls>>

\* It dies between the creation of the lock and its stamp.
CrashUnstamped(p) ==
  /\ Storage("crash", TRUE)
  /\ pc[p] = "acquire" /\ lock = Free
  /\ lock' = Orphan
  /\ Go(p, "crashed")
  /\ UNCHANGED <<events, index, call, seq, rest, pend, resolving, result, floor, calls>>

-----------------------------------------------------------------------------
\* A step of the code; deaths are steps of its environment.
Step(p) ==
  \/ \E failed \in BOOLEAN :
       ScanEvents(p, failed) \/ ListEvents(p, failed) \/ ReadIndex(p, failed)
         \/ LoadEvents(p, failed) \/ UpdateIndex(p, failed)
  \/ AcquireLock(p) \/ ResolveItem(p)
  \/ WriteEvent(p) \/ IndexLockFails(p) \/ NextEvent(p)
  \/ FinishBatch(p) \/ ReleaseLock(p)
  \/ EventWriteFails(p) \/ IndexWriteFails(p) \/ JudgeLock(p) \/ BreakLock(p)

\* The lock will not be given back: it is never stale, or never broken.
Orphaned ==
  \/ lock = Orphan
  \/ ~BreaksStaleLocks /\ lock \in Proc /\ pc[lock] = "crashed"

\* The callers stop: all calls are made and over, or nobody is left to make one, or
\* who is left waits for ever.
Quiet ==
  /\ \A p \in Proc : pc[p] \in {"idle", "crashed"} \/ (Orphaned /\ pc[p] = "acquire")
  /\ calls = MaxCalls \/ \A p \in Proc : pc[p] # "idle"
  /\ UNCHANGED vars

Next ==
  \/ \E p \in Proc : Step(p) \/ Crash(p) \/ CrashUnstamped(p) \/ \E c \in Calls : Invoke(p, c)
  \/ Quiet

Spec == Init /\ [][Next]_vars

\* A task that can run is run: every process keeps taking steps of the code.
FairSpec == Spec /\ \A p \in Proc : WF_vars(Step(p))

-----------------------------------------------------------------------------
(* Properties *)

\* Types of the state.
TypeOK ==
  /\ DOMAIN events \subseteq Nat /\ IsFiniteSet(DOMAIN events)
  /\ events \in [DOMAIN events -> Event]
  /\ index \in [IndexFile -> SUBSET Nat]
  /\ lock \in Proc \cup {Free, Orphan}
  /\ pc \in [Proc -> Labels]
  /\ call \in [Proc -> Call]
  /\ seq \in [Proc -> Nat]
  /\ rest \in [Proc -> Seq(Event)]
  /\ pend \in [Proc -> Seq(IndexFile)]
  /\ item \in [Proc -> Nat]
  /\ seen \in [Proc -> Seq(SUBSET Nat)]
  /\ found \in [Proc -> SUBSET Nat]
  /\ result \in [Proc -> [status : Statuses, positions : SUBSET Nat]]
  /\ floor \in [Proc -> Nat]
  /\ calls \in Nat /\ faults \in Nat

\* Positions are handed out without a gap from 0, whatever calls interleave, whatever
\* fails and whoever dies in the middle of a batch: no event is written beyond the end of
\* the log.
GapFree == DOMAIN events = 0 .. NextPosition(DOMAIN events) - 1

\* No append ever overwrites or removes an event: as long as the lock is a lock two
\* appends never compute the same `sequence`, not even after a death left a batch half
\* written and its lock behind.
EventsImmutable ==
  [][\A n \in DOMAIN events : n \in DOMAIN events' /\ events'[n] = events[n]]_events

\* p is inside append_async and has taken the lock.
Appending(p) ==
  \/ pc[p] \in {"scan", "write", "index", "release"}
  \/ pc[p] \in {"resolve", "load"} /\ call[p].op # "read"

LockHeld == \A p \in Proc : Appending(p) => lock = p

SequenceFresh ==
  \A p \in Proc :
    /\ pc[p] = "index" => seq[p] + 1 = NextPosition(DOMAIN events)
    /\ pc[p] \in {"resolve", "load", "write"} /\ Appending(p) =>
         seq[p] = NextPosition(DOMAIN events)

\* The `sequence` an append has computed is the end of the log until it writes
\* its event there, through the whole evaluation of its condition and for every
\* event of its batch, also after the lock of a dead process was broken.  It needs
\* holders that are fast and, if processes die, a single one that waits: two that judge
\* one lock stale both remove what they find, see NodeLock.
SequenceReserved == LockHeld /\ SequenceFresh

\* An index file lists only events that exist and belong in it: the event file
\* is written first, so a position resolved without the lock can be loaded.
IndexSound ==
  \A f \in IndexFile : \A n \in index[f] :
    n \in DOMAIN events /\ f \in Range(FilesOf(events[n]))

\* When nobody holds the lock every event is in the index file of its type and
\* of each of its tags: no update of a shared index file is lost.
IndexedWhenUnlocked ==
  lock = Free => \A n \in DOMAIN events : \A f \in Range(FilesOf(events[n])) : n \in index[f]

\* An append that went past its condition has no event before its own that the
\* condition forbids, judged by Query::matches on the stored events and not by
\* the indices the code consulted.
ConditionHonoured ==
  \A p \in Proc :
    call[p].op = "append_if" /\ (pc[p] \in {"write", "index"} \/ result[p].status = "ok")
      => \A n \in Matching(events, call[p].query, call[p].after) : n >= Base(p)

\* An append is refused only if an event that its condition forbids exists.
NoSpuriousRejection ==
  \A p \in Proc :
    result[p].status = "condition_failed" =>
      Matching(events, call[p].query, call[p].after) # {}

IsOkRead(p) == call[p].op = "read" /\ result[p].status = "ok"

\* read_async returns events that match the query, after the start position.
ReadsMatch ==
  \A p \in Proc :
    IsOkRead(p) =>
      result[p].positions \subseteq Matching(events, call[p].query, call[p].after)

\* A query whose resolution is a prefix of the log: Query::all(), or a single
\* item with at most one event type and at least one type or tag.
Simple(q) ==
  \/ q = All
  \/ Len(q) = 1 /\ Len(q[1].types) <= 1 /\ FilesRead(q[1]) # << >>

\* An unlimited read of a simple query, although it takes no lock and reads
\* index files one after another while appends update them, has no hole: if it
\* returns an event it returns every matching event before it.
PrefixReads ==
  \A p \in Proc :
    IsOkRead(p) /\ Simple(call[p].query) /\ call[p].max = None =>
      \A n \in Matching(events, call[p].query, call[p].after), m \in result[p].positions :
        n < m => n \in result[p].positions

\* An unlimited read returns every matching event whose append was over when
\* the read was called: a caller reads its own writes.
FreshReads ==
  \A p \in Proc :
    IsOkRead(p) /\ call[p].max = None =>
      \A n \in Matching(events, call[p].query, call[p].after) :
        n < floor[p] => n \in result[p].positions

\* A read with a limit finds something if there was something to find when it
\* was called (read_last_async is such a read with limit 1).
LimitedReadsFind ==
  \A p \in Proc :
    IsOkRead(p) /\ call[p].max > 0
    /\ (\E n \in Matching(events, call[p].query, call[p].after) : n < floor[p])
      => result[p].positions # {}

\* An append fails with an I/O error only if the storage failed.
ErrorsAreFaults ==
  (\E p \in Proc : result[p].status = "io_error") => faults > 0

\* Every call returns, unless its process dies or the lock is out of reach for ever:
\* the lock is given back on every path through append_async, and a waiting process
\* gets past a stamped lock of a dead one if locks are broken at all.
EveryCallEnds ==
  \A p \in Proc : pc[p] # "idle" ~> pc[p] \in {"idle", "crashed"} \/ Orphaned
=============================================================================
