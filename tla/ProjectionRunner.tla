--------------------------- MODULE ProjectionRunner ---------------------------
(***************************************************************************)
(* ProjectionRunner (src/src/projections.rs): rebuild, under the lock of   *)
(* the projection, and process_events, under none, by processes that share *)
(* checkpoint and state files.  A rebuild goes through                     *)
(*                                                                         *)
(*   acquire -> clear -> reset -> read -> start -> (load -> save)* ->      *)
(*   checkpoint -> reindex -> release                                      *)
(*                                                                         *)
(* (acquire -> unlink -> acquire when it finds the lock old enough)        *)
(* and process_events, called with all events as runner_rebuild_with_store *)
(* of the bindings does, through read -> start -> ... -> checkpoint.       *)
(*                                                                         *)
(* The log only grows and is read whole and at once, see EventStore.  What *)
(* `apply` computes is the list of the events it was given: the state of a *)
(* key tells exactly which events made it.                                 *)
(***************************************************************************)
EXTENDS Integers, FiniteSets, Sequences, SequencesExt

CONSTANTS
  Proc,        \* processes with runners of their own
  Free,        \* value of a lock that is not held
  Orphan,      \* value of a lock whose holder died before it stamped the lock
  Proj,        \* names of projections
  Related,     \* those with as_related_events
  Key,         \* keys of projection states
  Keyless,     \* result of key_selector for events without a key
  Kinds,       \* the events that can be appended, a subset of Event
  MaxEvents,   \* bound: length of the log
  MaxRuns,     \* bound: number of calls in a behaviour
  FaultKinds,  \* the faults that can happen, see Fault
  MaxFaults,   \* bound: number of faults
  Serialised,  \* TRUE iff callers run process_events alone on a projection
  BreaksStaleLocks, \* TRUE iff the storage breaks old locks: on Node, never in memory
  FastHolders       \* TRUE iff no living holder keeps a lock long enough to be old

\* An event as the projections see it: those whose query matches it, its key, and
\* whether `apply` answers None.
Event == [in : SUBSET Proj, key : Key \cup {Keyless}, ends : BOOLEAN]

Fault == {"checkpoint_write", "checkpoint_read", "read", "load", "save", "crash"}

ASSUME RunnerAssumption ==
  /\ Free \notin Proc /\ Orphan \notin Proc /\ Orphan # Free
  /\ Keyless \notin Key
  /\ Related \subseteq Proj
  /\ Kinds \subseteq Event
  /\ MaxEvents \in Nat /\ MaxRuns \in Nat /\ MaxFaults \in Nat
  /\ FaultKinds \subseteq Fault
  /\ Serialised \in BOOLEAN
  /\ BreaksStaleLocks \in BOOLEAN /\ FastHolders \in BOOLEAN

VARIABLES
  log,         \* the events, position n at index n + 1
  states,      \* projection -> key -> its state, << >> if there is no file
  listed,      \* projection -> keys in Metadata/index.json
  checkpoint,  \* projection -> last_position in its checkpoint file
  lock,        \* projection -> holder of ".proj_lock_<name>"
  pc,          \* what each process is about to do
  run,         \* the call each process is making, and the length of the log then
  batch,       \* projections whose store in the process has skip_index_writes set
  local,       \* the locals of its process_events, see Locals
  result,      \* how the last call ended
  damage,      \* history: what interrupted calls did to a projection
  runs, faults \* number of calls made and of faults that happened

stored == <<states, listed, checkpoint, lock>>
runnerVars == <<log, stored, pc, run, batch, local, result, damage, runs, faults>>

\* A checkpoint is its last_position; total_events_processed is only reported.
NoCheckpoint == -1
StartOfLog == 0

\* One application of an event to a state: the event and the related events.
Applied(n, others) == [at |-> n, related |-> others]

\* The events it was given (`upto` of the log), the one it looks at, its `checkpoint`,
\* and the `new_state` to save.
Locals(upto, next, last, state) == [upto |-> upto, next |-> next, last |-> last, state |-> state]

NoLocals == Locals(0, 0, StartOfLog, << >>)

NoRun == [op |-> "none", proj |-> CHOOSE j \in Proj : TRUE, floor |-> 0]

Go(p, label) == pc' = [pc EXCEPT ![p] = label]

\* A fallible operation of the storage fails, if `failed`.
Storage(kind, failed) ==
  IF failed
  THEN kind \in FaultKinds /\ faults < MaxFaults /\ faults' = faults + 1
  ELSE UNCHANGED faults

P(p) == run[p].proj

\* A call of another process on j that is not over.
Busy(p, j) == pc[p] \notin {"idle", "crashed"} /\ P(p) = j

\* p rebuilds j, with its lock taken and not released.
Inside(p, j) == Busy(p, j) /\ run[p].op = "rebuild" /\ pc[p] \notin {"acquire", "unlink"}

\* A lock that waiters never get past: without a stamp, or of a dead process where
\* nobody breaks locks.
Orphaned(j) ==
  \/ lock[j] = Orphan
  \/ ~BreaksStaleLocks /\ lock[j] \in Proc /\ ~Inside(lock[j], j)

\* What an interruption at p's current step does to its projection.  Between clear
\* and reset the checkpoint is ahead of the states ("lost"); after the reset both are
\* at the start ("behind"); later the states are ahead of the checkpoint, or the
\* index is behind the states ("repeats").
Harm(p) ==
  LET old == damage[P(p)] IN
  IF pc[p] = "reset" THEN "lost"
  ELSE IF pc[p] \in {"read", "start"} /\ run[p].op = "rebuild" /\ old = "none" THEN "behind"
  ELSE IF pc[p] \in {"load", "save", "checkpoint", "reindex"} /\ old # "lost" THEN "repeats"
  ELSE old

Damaged(p) == damage' = [damage EXCEPT ![P(p)] = Harm(p)]

Finish(p, status) == result' = [result EXCEPT ![p] = status]

RunnerInit ==
  /\ log = << >>
  /\ states = [j \in Proj |-> [k \in Key |-> << >>]]
  /\ listed = [j \in Proj |-> {}]
  /\ checkpoint = [j \in Proj |-> NoCheckpoint]
  /\ lock = [j \in Proj |-> Free]
  /\ pc = [p \in Proc |-> "idle"]
  /\ run = [p \in Proc |-> NoRun]
  /\ batch = [p \in Proc |-> {}]
  /\ local = [p \in Proc |-> NoLocals]
  /\ result = [p \in Proc |-> "none"]
  /\ damage = [j \in Proj |-> "none"]
  /\ runs = 0 /\ faults = 0

-----------------------------------------------------------------------------
\* The event store appends an event.
AppendEvent ==
  /\ Len(log) < MaxEvents
  /\ \E e \in Kinds : log' = Append(log, e)
  /\ UNCHANGED <<stored, pc, run, batch, local, result, damage, runs, faults>>

\* Callers that run process_events alone, if they do.
MayCall(op, j) ==
  Serialised => \A q \in Proc : Busy(q, j) => op = "rebuild" /\ run[q].op = "rebuild"

\* Each process in DOMAIN calls makes its call.
Call(calls) ==
  /\ \A p \in DOMAIN calls : pc[p] = "idle" /\ MayCall(calls[p].op, calls[p].proj)
  /\ run' = [p \in Proc |->
               IF p \in DOMAIN calls
               THEN [op |-> calls[p].op, proj |-> calls[p].proj, floor |-> Len(log)]
               ELSE run[p]]
  /\ pc' = [p \in Proc |->
              IF p \notin DOMAIN calls THEN pc[p]
              ELSE IF calls[p].op = "rebuild" THEN "acquire" ELSE "read"]
  /\ result' = [p \in Proc |-> IF p \in DOMAIN calls THEN "none" ELSE result[p]]
  /\ UNCHANGED <<log, stored, batch, local, damage, faults>>

Invoke(p, op, j) ==
  /\ runs < MaxRuns
  /\ runs' = runs + 1
  /\ Call([q \in {p} |-> [op |-> op, proj |-> j]])

-----------------------------------------------------------------------------
(* rebuild *)

AcquireProjectionLock(p) ==
  /\ pc[p] = "acquire" /\ lock[P(p)] = Free
  /\ lock' = [lock EXCEPT ![P(p)] = p]
  /\ Go(p, "clear")
  /\ UNCHANGED <<log, states, listed, checkpoint, run, batch, local, result, damage, runs, faults>>

\* Mutant of JudgeLock: no lock counts as old.
JudgeNoLock(p) == pc[p] = "acquire" /\ lock[P(p)] \in Proc /\ UNCHANGED runnerVars

\* A process that waits finds a stamp older than the threshold, whoever has the lock:
\* a dead process, or one that takes too long.  A lock without a stamp never counts.
JudgeLock(p) ==
  /\ pc[p] = "acquire" /\ BreaksStaleLocks
  /\ lock[P(p)] \in Proc
  /\ FastHolders => ~Inside(lock[P(p)], P(p))
  /\ Go(p, "unlink")
  /\ UNCHANGED <<log, stored, run, batch, local, result, damage, runs, faults>>

\* It removes the lock file there is now, and tries to create it again.
BreakLock(p) ==
  /\ pc[p] = "unlink"
  /\ lock' = [lock EXCEPT ![P(p)] = Free]
  /\ Go(p, "acquire")
  /\ UNCHANGED <<log, states, listed, checkpoint, run, batch, local, result, damage, runs, faults>>

\* store.clear(): the directory of the projection is deleted.
ClearStore(p) ==
  /\ pc[p] = "clear"
  /\ states' = [states EXCEPT ![P(p)] = [k \in Key |-> << >>]]
  /\ listed' = [listed EXCEPT ![P(p)] = {}]
  /\ Go(p, "reset")
  /\ UNCHANGED <<log, checkpoint, lock, run, batch, local, result, damage, runs, faults>>

\* Mutant of ResetCheckpoint: the checkpoint is kept.
ResetCheckpointKept(p, failed) ==
  /\ pc[p] = "reset" /\ ~failed
  /\ batch' = [batch EXCEPT ![p] = @ \cup {P(p)}]
  /\ Go(p, "read")
  /\ UNCHANGED <<log, stored, run, local, result, damage, runs, faults>>

\* save_checkpoint(0, 0)?, then set_batch_mode(true).
ResetCheckpoint(p, failed) ==
  /\ pc[p] = "reset"
  /\ Storage("checkpoint_write", failed)
  /\ IF failed
     THEN /\ Finish(p, "error") /\ Go(p, "release") /\ Damaged(p)
          /\ UNCHANGED <<checkpoint, batch>>
     ELSE /\ checkpoint' = [checkpoint EXCEPT ![P(p)] = StartOfLog]
          /\ batch' = [batch EXCEPT ![p] = @ \cup {P(p)}]
          /\ Go(p, "read")
          /\ UNCHANGED <<result, damage>>
  /\ UNCHANGED <<log, states, listed, lock, run, local, runs>>

\* The call is over: what it knew is gone.
Return(p) == Go(p, "idle") /\ run' = [run EXCEPT ![p] = NoRun]

\* read_async(all)?  An error leaves rebuild before batch mode is switched off.
ReadAllEvents(p, failed) ==
  /\ pc[p] = "read"
  /\ Storage("read", failed)
  /\ IF failed
     THEN /\ Finish(p, "error")
          /\ IF run[p].op = "rebuild" THEN Go(p, "release") /\ UNCHANGED run ELSE Return(p)
          /\ Damaged(p)
          /\ UNCHANGED local
     ELSE /\ local' = [local EXCEPT ![p].upto = Len(log)]
          /\ Go(p, "start")
          /\ UNCHANGED <<run, result, damage>>
  /\ UNCHANGED <<log, stored, batch, runs>>

-----------------------------------------------------------------------------
(* process_events_internal *)

\* It returns: to its caller, or into rebuild, which goes on whatever it returned.
\* A save in a batch mode that an earlier rebuild left on has not been listed.
EndProcessing(p, status) ==
  /\ Finish(p, status)
  /\ local' = [local EXCEPT ![p] = NoLocals]
  /\ IF run[p].op = "rebuild" THEN Go(p, "reindex") /\ UNCHANGED run ELSE Return(p)
  /\ IF status = "error" \/ (run[p].op # "rebuild" /\ P(p) \in batch[p])
     THEN Damaged(p) ELSE UNCHANGED damage

\* get_checkpoint, and position 0 without any.
StartProcessing(p, failed) ==
  /\ pc[p] = "start"
  /\ Storage("checkpoint_read", failed)
  /\ IF failed
     THEN EndProcessing(p, "error")
     ELSE /\ local' = [local EXCEPT ![p].last =
                         IF checkpoint[P(p)] = NoCheckpoint THEN StartOfLog ELSE checkpoint[P(p)]]
          /\ Go(p, "load")
          /\ UNCHANGED <<run, result, damage>>
  /\ UNCHANGED <<log, stored, batch, runs>>

\* The event it looks at.
At(p) == local[p].next

MoreEvents(p) == pc[p] = "load" /\ At(p) < local[p].upto

\* Mutant of Processed: the last position counts as not processed.
ProcessedBefore(c, n) == n < c /\ c > 0

\* `event.position <= checkpoint.last_position && checkpoint.last_position > 0`
Processed(c, n) == n <= c /\ c > 0

Matched(j, n) == j \in log[n + 1].in

KeyOf(n) == log[n + 1].key

\* On to the next event, with `last` as the checkpoint.
Advance(p, last) ==
  local' = [local EXCEPT ![p] = Locals(@.upto, @.next + 1, last, << >>)]

\* An event already processed, one the query does not match, one without a key.
PassEvent(p) ==
  /\ MoreEvents(p)
  /\ \/ Processed(local[p].last, At(p)) /\ Advance(p, local[p].last)
     \/ /\ ~Processed(local[p].last, At(p))
        /\ Matched(P(p), At(p)) => KeyOf(At(p)) = Keyless
        /\ Advance(p, At(p))
  /\ UNCHANGED <<log, stored, pc, run, batch, result, damage, runs, faults>>

\* The events read through get_related_events_query, here those of the same key:
\* from the store as it is now, or none if process_events was given no store.
RelatedEvents(j, n, op) ==
  IF j \in Related /\ op = "rebuild"
  THEN {m \in 0 .. Len(log) - 1 : KeyOf(m) = KeyOf(n)} ELSE {}

\* store.get(key)?, the related events, and `apply`.
LoadState(p, failed) ==
  /\ MoreEvents(p) /\ ~Processed(local[p].last, At(p))
  /\ Matched(P(p), At(p)) /\ KeyOf(At(p)) # Keyless
  /\ Storage("load", failed)
  /\ IF failed
     THEN EndProcessing(p, "error")
     ELSE /\ local' = [local EXCEPT ![p].state =
                 IF log[At(p) + 1].ends THEN << >>
                 ELSE Append(states[P(p)][KeyOf(At(p))],
                             Applied(At(p), RelatedEvents(P(p), At(p), run[p].op)))]
          /\ Go(p, "save")
          /\ UNCHANGED <<run, result, damage>>
  /\ UNCHANGED <<log, stored, batch, runs>>

\* store.save or store.delete of the new state, which list the key or drop it
\* unless the store is in batch mode.
SaveState(p, failed) ==
  /\ pc[p] = "save"
  /\ Storage("save", failed)
  /\ LET key == KeyOf(At(p))
         new == local[p].state IN
     IF failed
     THEN EndProcessing(p, "error") /\ UNCHANGED <<states, listed>>
     ELSE /\ states' = [states EXCEPT ![P(p)][key] = new]
          /\ listed' = [listed EXCEPT ![P(p)] =
               IF P(p) \in batch[p] THEN @ ELSE IF new = << >> THEN @ \ {key} ELSE @ \cup {key}]
          /\ Advance(p, At(p))
          /\ Go(p, "load")
          /\ UNCHANGED <<run, result, damage>>
  /\ UNCHANGED <<log, checkpoint, lock, batch, runs>>

\* After the last event: the checkpoint is saved, unless it is at position 0.
EndOfEvents(p) ==
  /\ pc[p] = "load" /\ ~MoreEvents(p)
  /\ IF local[p].last > 0
     THEN Go(p, "checkpoint") /\ UNCHANGED <<run, local, result, damage>>
     ELSE EndProcessing(p, "ok")
  /\ UNCHANGED <<log, stored, batch, runs, faults>>

\* Mutant of SaveCheckpoint: the end of the log instead of the last event given.
SaveCheckpointOfLog(p, failed) ==
  /\ pc[p] = "checkpoint" /\ ~failed
  /\ checkpoint' = [checkpoint EXCEPT ![P(p)] = Len(log) - 1]
  /\ EndProcessing(p, "ok")
  /\ UNCHANGED <<log, states, listed, lock, batch, runs, faults>>

SaveCheckpoint(p, failed) ==
  /\ pc[p] = "checkpoint"
  /\ Storage("checkpoint_write", failed)
  /\ IF failed
     THEN EndProcessing(p, "error") /\ UNCHANGED checkpoint
     ELSE EndProcessing(p, "ok") /\ checkpoint' = [checkpoint EXCEPT ![P(p)] = local[p].last]
  /\ UNCHANGED <<log, states, listed, lock, batch, runs>>

-----------------------------------------------------------------------------
(* The end of rebuild *)

\* set_batch_mode(false), rebuild_metadata_index from the state files there are.
RebuildIndex(p, failed) ==
  /\ pc[p] = "reindex"
  /\ Storage("save", failed)
  /\ batch' = [batch EXCEPT ![p] = @ \ {P(p)}]
  /\ IF failed
     THEN Finish(p, "error") /\ Damaged(p) /\ UNCHANGED listed
     ELSE /\ listed' = [listed EXCEPT ![P(p)] = {k \in Key : states[P(p)][k] # << >>}]
          /\ UNCHANGED <<result, damage>>
  /\ Go(p, "release")
  /\ UNCHANGED <<log, states, checkpoint, lock, run, local, runs>>

\* release_stream_lock, on every path.  A rebuild that succeeded has repaired
\* whatever was wrong.
ReleaseProjectionLock(p) ==
  /\ pc[p] = "release"
  /\ lock' = [lock EXCEPT ![P(p)] = Free]
  /\ damage' = IF result[p] = "error" THEN damage ELSE [damage EXCEPT ![P(p)] = "none"]
  /\ Return(p)
  /\ UNCHANGED <<log, states, listed, checkpoint, batch, local, result, runs, faults>>

\* Free locks that a process in S may be creating.
Created(S) == {j \in Proj : lock[j] = Free /\ \E p \in S : pc[p] = "acquire" /\ P(p) = j}

\* The processes in S die and later come back with new runners.  Those that were
\* about to stamp a lock leave it without a stamp.
Kill(S) ==
  /\ Storage("crash", TRUE)
  /\ \E p \in S : pc[p] \notin {"idle", "crashed"}
  /\ \E J \in SUBSET Created(S) : lock' = [j \in Proj |-> IF j \in J THEN Orphan ELSE lock[j]]
  /\ pc' = [p \in Proc |-> IF p \in S /\ pc[p] # "idle" THEN "crashed" ELSE pc[p]]
  /\ local' = [p \in Proc |-> IF p \in S THEN NoLocals ELSE local[p]]
  /\ batch' = [p \in Proc |-> IF p \in S THEN {} ELSE batch[p]]
  /\ UNCHANGED <<log, states, listed, checkpoint, run, result, runs>>

Crash(p) == Kill({p}) /\ Damaged(p)

\* A process that died comes back with a new store and a new runner, over the same
\* directory.
Restart(p) ==
  /\ pc[p] = "crashed"
  /\ Return(p)
  /\ Finish(p, "error")
  /\ UNCHANGED <<log, stored, batch, local, damage, runs, faults>>

-----------------------------------------------------------------------------
RunnerStep(p) ==
  \/ AcquireProjectionLock(p) \/ JudgeLock(p) \/ BreakLock(p) \/ ClearStore(p)
  \/ PassEvent(p) \/ EndOfEvents(p) \/ ReleaseProjectionLock(p)
  \/ \E failed \in BOOLEAN :
       ResetCheckpoint(p, failed) \/ ReadAllEvents(p, failed) \/ StartProcessing(p, failed)
         \/ LoadState(p, failed) \/ SaveState(p, failed) \/ SaveCheckpoint(p, failed)
         \/ RebuildIndex(p, failed)

\* No call is left but those that wait for ever.
RunnerQuiet ==
  /\ runs = MaxRuns
  /\ \A p \in Proc : pc[p] = "idle" \/ (pc[p] = "acquire" /\ Orphaned(P(p)))
  /\ UNCHANGED runnerVars

RunnerNext ==
  \/ \E p \in Proc :
       \/ RunnerStep(p) \/ Crash(p) \/ Restart(p)
       \/ \E op \in {"rebuild", "process_events"}, j \in Proj : Invoke(p, op, j)
  \/ AppendEvent
  \/ RunnerQuiet

RunnerSpec == RunnerInit /\ [][RunnerNext]_runnerVars

-----------------------------------------------------------------------------
(* What the states should be *)

\* The positions whose events made the state of k.
Positions(j, k) == [i \in DOMAIN states[j][k] |-> states[j][k][i].at]

IsOf(event, j, k) == j \in event.in /\ event.key = k

\* build_projections (extensions.rs) over the events of j up to `last`: the state
\* that its pure fold makes of the events of k.
Fold(events, j, k, last) ==
  FoldLeft(LAMBDA state, n :
             IF ~IsOf(events[n + 1], j, k) THEN state
             ELSE IF events[n + 1].ends THEN << >> ELSE Append(state, n),
           << >>,
           [i \in 1 .. last + 1 |-> i - 1])

\* The positions in it: those of the events of k behind the last that ended it.
MadeOf(events, j, k, last) ==
  {n \in 0 .. last :
     /\ n < Len(events) /\ IsOf(events[n + 1], j, k)
     /\ \A m \in n .. last : m < Len(events) /\ IsOf(events[m + 1], j, k) => ~events[m + 1].ends}

\* Their order.  The event at position 0 may have been applied many times.
InOrder(s) == \A a, b \in DOMAIN s : a < b => s[a] < s[b] \/ (s[a] = 0 /\ s[b] = 0)

\* What the fold makes of k is the positions of MadeOf in order.
FoldIsMadeOf(events, j, k, last) ==
  LET fold == Fold(events, j, k, last) IN
  ToSet(fold) = MadeOf(events, j, k, last) /\ InOrder(fold) /\ IsInjective(fold)

\* The state of k after the events up to the checkpoint.  That of position 0 counts
\* as unprocessed until a later one is saved.
IsFold(j, k) ==
  LET s == Positions(j, k)
      last == checkpoint[j] IN
  /\ InOrder(s)
  /\ last > 0 => ToSet(s) = MadeOf(log, j, k, last)
  /\ last <= 0 => ToSet(s) \subseteq MadeOf(log, j, k, 0)

IndexIsExact(j) == listed[j] = {k \in Key : states[j][k] # << >>}

Unused(j) == \A p \in Proc : ~Busy(p, j)

-----------------------------------------------------------------------------
(* Properties *)

\* Between calls the states of a projection are what its checkpoint says, and the
\* metadata index lists exactly the keys with a state: whatever rebuilds were broken
\* off or read too early, no event is skipped, none but that at position 0 applied twice.
StatesFollowCheckpoint ==
  \A j \in Proj : Unused(j) /\ damage[j] \in {"none", "behind"} =>
    IndexIsExact(j) /\ \A k \in Key : IsFold(j, k)

\* A rebuild that is about to return Ok has restored the projection whatever an earlier
\* call or a crash left: states, checkpoint and index agree, no event that was there
\* when it was called is missing, and related events were looked up among all of them.
RebuildRestores ==
  \A p \in Proc : pc[p] = "release" /\ result[p] = "ok" =>
    LET j == P(p) IN
    /\ IndexIsExact(j) /\ \A k \in Key : IsFold(j, k)
    /\ \A k \in Key : IsInjective(Positions(j, k))
    /\ run[p].floor > 1 => checkpoint[j] >= run[p].floor - 1
    /\ j \in Related => \A k \in Key : \A i \in DOMAIN states[j][k] :
         \A n \in 0 .. run[p].floor - 1 : KeyOf(n) = k => n \in states[j][k][i].related

\* An event up to the checkpoint is never lost, over crashes and failing operations,
\* unless a rebuild was broken off between clear and the reset of the checkpoint:
\* its key has it in its state, or was ended after it.
NoEventLost ==
  \A j \in Proj : Unused(j) /\ damage[j] # "lost" /\ checkpoint[j] > 0 =>
    \A k \in Key : \A n \in 0 .. checkpoint[j] :
      n \in MadeOf(log, j, k, Len(log) - 1) => n \in ToSet(Positions(j, k))

\* process_events applies no event twice unless a call was broken off: "Skip events
\* we've already processed" (projections.rs:418).
EventsAppliedOnce ==
  \A j \in Proj : Unused(j) /\ damage[j] = "none" => \A k \in Key : IsInjective(Positions(j, k))
=============================================================================
