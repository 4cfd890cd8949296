# A TLA+ verification of marmosa

marmosa (`src/`) is an event store with the *dynamic consistency boundary*:
events carry a type and tags, every event has a position in one global log, and
an append can be made conditional on no matching event having been added behind
a position. It stores one JSON file per event, one JSON file of positions per
event type and per tag, and relies on a `StorageBackend` (files and named locks)
that several tasks, threads or operating system processes share. On top of it
sit decision models (read, fold, decide, append under a condition, retry) and
projections (checkpointed read models).

All paths below are relative to the directory that holds `src/` and `tla/`.

## 1. Inventory

| Component | State it keeps | Operations | Hard behaviour | Correct when |
|---|---|---|---|---|
| **Queries** `src/src/domain.rs` | none | `Query::matches` | none | index resolution and `matches` select the same events |
| **Indices** `src/src/event_store/indices.rs` | one file of positions per type and per tag | `add_position_async`, `get_positions_async`, and-/or-combinations | read-modify-write of shared files; every read error counts as "empty"; `sanitize_name` maps several names to one file | every event is in its files, the files list only events that belong there |
| **Event store** `src/src/event_store/mod.rs` | event files | `append_async`, `read_async` (`read_internal`) | global lock around append only; readers take none; next position from a directory listing; event file written before index files; batches written event by event; errors half-way | positions unique and without gap, events never change, conditions honoured, reads return what matches, every call returns |
| **Storage port, in-memory backend** `src/src/ports.rs`, `in_memory.rs` | files, directories, lock names | read, write, delete, list, lock, unlock | lock is polled | mutual exclusion, atomic files |
| **Node backend** `src/marmosa-wasm/src/storage.rs` | real files, lock files with a timestamp | the same | writes are not atomic; stale locks are broken by age; release removes whatever lock file is there; lock names with `/` | mutual exclusion between processes, recovery from dead holders |
| **Decision models** `src/src/decision_model/` | none between attempts | `execute_async`, `execute_decision_async`, single and n-ary folds | the read takes no lock; the condition is checked later, under the lock; a fold may read a clock; retries | a decision commits only on the events it was taken on; retries end |
| **Extensions** `src/src/extensions.rs` | none | `append_single`, `read_all`, `read_last`, `build_projections` | limits | a read with a limit finds an event if there is one |
| **Maintenance** `event_store/maintenance.rs` | events, tag indices | `add_tags` | rewrites event files without the lock | no tag lost, indices agree with events |
| **Administration** `event_store/admin.rs` | everything | `delete_store` | deletes directories one by one, no lock | no append resurrects part of a deleted store |
| **Ledger, event files, initialiser** `event_store/ledger.rs`, `files.rs`, `initializer.rs` | `.ledger`, event files, directories | next/last position, write/read of one event | not called by `append_async`; positions start at 1, the store's at 0 | monotonic, never behind the files |
| **Projection runner** `src/src/projections.rs:291` | checkpoint file, store | `rebuild` (under a lock), `process_events` (without) | checkpoint saved once per batch; position 0 special; batch mode left on after an error | each event applied exactly once per rebuild, checkpoint never ahead of the state |
| **Projection store** `src/src/projections.rs:472` | state file per key, metadata, tag files | `save`, `delete`, `clear`, queries | several files per operation; one metadata file for all keys, unlocked | state, metadata and tag files agree |
| **Projection tag index** `:917` / **metadata index** `:1174` | key lists | add, remove, update / save, delete, clear | read-modify-write, look-up outside the lock | no update lost |
| **Projection rebuilder** `src/src/projections/rebuilder.rs` | none | `rebuild_all` | concurrent rebuilds; skipped when a checkpoint exists | a projection that failed half-way is rebuilt |
| **Test harness** `src/src/testing.rs` | none | `given`, `when`, `then` | none | a test tells what an execution does |
| **Bindings, options, errors, TypeScript helpers** | none | conversion, configuration | none | - |

How they interact: `append_async` and `read_async` call the indices and the
backend; decision models call `read_async` and `append_async`; projections
read events and write their own files through the backend; maintenance and
administration change the store's files behind its back. All sharing is through
the backend's files and its named locks. The complete list with what is
modelled, partly modelled and not modelled is `components` in `PROJECT.json`,
the places where the code is hard to test are `hazards`.

## 2. Modules

| Module | Models | Builds on |
|---|---|---|
| `Queries` | `Query::matches`; the index files an event is added to and an item is resolved from; `get_positions_for_query_item`; the truncation, filtering and limits of `read_internal`. Operators only. | - |
| `EventStore` | `MarmosaStore` over a `StorageBackend`, called by concurrent processes, with storage faults, dying processes and stale locks. | `Queries` |
| `DcbLog` | What `append_async` promises: one log, batches appended whole, in one step, iff their condition holds then. | `Queries` |
| `EventStoreRefinement` | The refinement mapping from `EventStore` to `DcbLog`. | `EventStore`, `DcbLog` |
| `Decisions` | `execute_async` and its n-ary form, with retries, over `EventStore`. | `EventStore` |
| `TestHarness` | `given(history).when(decision)`, next to the executions it stands for. | `Decisions` |
| `Maintenance` | any number of `add_tags`, `delete_store` and look-ups by tags, composed with the store. | `EventStore` |
| `StreamLock` | What a named lock promises: one owner, whom nobody replaces. | - |
| `NodeLock` | The lock file protocol of the Node backend; its refinement of `StreamLock`. | `StreamLock` |
| `Ledger` | Ledger, event files and initialisation in a directory of the Node backend, under its lock. | `NodeLock` |
| `ProjectionRunner` | `rebuild` and `process_events`: checkpoint, lock and its breaking, batch mode, related events. | - |
| `ProjectionRebuilder` | `rebuild_all`, next to processes of their own. | `ProjectionRunner` |
| `ProjectionTagIndex` | Key lists per tag, changed under one lock per tag. | - |
| `ProjectionStore` | State files, tag files and their ignored errors, metadata index, batch mode, queries; `ProjectionMetadataIndex` on the same file. | `ProjectionTagIndex` |
| `EventStoreProofs` | Theorems about the log (types, gaps, sequences, sound indices, append-only) and about the consistency boundary (complete indices, honoured conditions). | `EventStore` |
| `ReadProofs` | Theorems about reads, which take no lock: they match, have no hole, and are fresh. | `EventStoreProofs` |
| `RefinementProofs` | Theorem that appends implement `DcbLog`. | `ReadProofs`, `EventStoreRefinement` |
| `DecisionProofs` | Theorems about executions of decisions and about the test harness. | `TestHarness`, `ReadProofs` |
| `MaintenanceProofs` | Theorems about `add_tags` and look-ups next to appends and deletions. | `Maintenance`, `ReadProofs` |
| `LedgerProofs` | Theorems about the lock file and about the ledger under it. | `Ledger` |
| `ProjectionRunnerProofs` | Theorems about rebuilds, `process_events` and what `rebuild_all` reports. | `ProjectionRebuilder` |
| `ProjectionStoreProofs` | Theorems about the tag index and the projection store. | `ProjectionStore` |
| `MCEventStore`, `MCDecisions`, `MCMaintenance`, `MCLedger`, `MCProjections`, `MCProjectionStore` | Values of the constants for TLC. | |

An action is, everywhere, a stretch of code between two storage calls that
others can observe. `map` in `PROJECT.json` gives the lines of each definition.

### `EventStore`

The shared state is `events` (the directory `Events`, position to event),
`index` (the files below `Indices`) and `lock` (the lock `global_store`). Each
process has the local variables of the async function it is in: `call` (the
arguments), `seq` (`sequence`), `rest` (what is left of the batch), `pend` (the
index files still to be updated for the event just written), `item`, `seen`,
`found` (the progress of `read_internal`), and the `result` of its last call.

| Action | Code (`event_store/mod.rs` unless said otherwise) |
|---|---|
| `Invoke` | the call |
| `AcquireLock` | `acquire_stream_lock("global_store")` |
| `ScanEvents` | `read_dir("Events")`, `max + 1`, before the condition |
| `ListEvents` | `get_all_positions` for `Query::all()` |
| `ReadIndex`, `ResolveItem` | `get_positions_for_query_item`: one index file per step, then union of types, intersection with tags |
| `LoadEvents` | the rest of `read_internal`: truncate, read files, filter; and the condition's verdict |
| `WriteEvent`, `EventWriteFails` | `write_file` of one event |
| `UpdateIndex`, `IndexWriteFails` | `add_position_async` of one index file (`indices.rs`) |
| `IndexLockFails` | the same when the lock of the index cannot be had: never on a backend without `NestedLockNames`, by a fault (`"index_lock"`) on others |
| `NextEvent`, `FinishBatch` | the loop over the batch |
| `ReleaseLock` | `release_stream_lock`, on every return |
| `Crash`, `CrashUnstamped` | the process dies anywhere inside a call; also between the creation of the lock and its stamp |
| `JudgeLock`, `BreakLock` | `acquire_stream_lock` of the Node backend: a waiter finds the stamp too old; later it removes the lock there is by then |

The lock of the store is the whole of `NodeLock` in four actions. `JudgeLock` and
`BreakLock` are two steps, so two waiters may judge one dead holder's lock and the
second remove the lock of the first; with `FastHolders` FALSE a living holder loses
its lock as well; a lock that was never stamped (`Orphan`) is never judged stale.
`BreaksStaleLocks` is TRUE for the Node backend and FALSE for `InMemoryStorage`,
whose `acquire_stream_lock` breaks nothing. When this lock excludes is the definition
`SafeLock` of `EventStoreProofs`: locks are never broken, or holders are fast and
nobody dies or there are two processes only. Nothing that rests on
exclusion is claimed beyond that.

Abstractions, and why they are sound for the properties:

* A write of one file is atomic (it is in `InMemoryStorage`). On the Node
  backend it is not; `Ledger` models that for the files of the ledger.
* Reading the event files of one read is one step. Event files never change
  once written (`EventsImmutable`, which is checked and proved), so the moment
  at which each is read makes no difference.
* Locking, reading, writing and unlocking one index file is one step: the lock of
  the index file makes it one, whoever else updates it. That this lock stays behind
  when its holder dies inside the update, and that the write of a stamp fails, is
  not modelled.
* `EventStoreFaults` sets both `BreaksStaleLocks` and `NestedLockNames`. No backend of
  the repository has both: on Node the index locks cannot be taken (`NodeIndexLock`),
  in memory no lock is broken. Both kinds of steps are choices, so the behaviours
  of a backend with one of them are among those of the run, and its safety properties
  hold of either; `EveryCallEnds` names, by `Orphaned`, the locks that nobody breaks.
* A process that died in a call does not come back.
* Names of files are model values. That `sanitize_name` maps two tags to one
  file is the constant `TagFile`; `CollidingTagFile` is such a mapping, since
  `course:1` and a tag that differs only in case or punctuation share a file.
* Serialisation, metadata and time stamps of events are left out.

### `Decisions` and `TestHarness`

`Decisions` adds to each process the retry loop: `BuildModel` (read the query),
`Decide` (fold, `process`, append under the condition), `Retry`, `Conclude`,
`ReadFailed`. Processes in `Bound` execute through `executeDecision` of the
JavaScript bindings, which looks for `AppendConditionFailed` in the `message` of the
error while `append` rejects with a plain string: it never retries (`SeesRefusal`),
although `marmosa-wasm/README.md` says that it does. The history variable `beaten`
keeps, for each refusal, the events that refused it. `process` (`Accepts`) refuses from `Capacity` events on, as the
enrolment commands of `tests/concurrency_integration_tests.rs` do. The
projections of `Timed` processes are `TimeAwareDecisionProjection`s: they read
the clock whenever an event is applied, and are refused when the clock had
passed a deadline by then; `PassDeadline` is the clock. `max_retries - 1` is
computed modulo `UsizeModulus` (2^64 in a release build, 8 here: larger than
the number of attempts any run makes when the bound works).

`TestHarness` has no action: `Given` takes from the log the events a test would
hand over, `When` folds them and decides, and `HarnessAgrees` holds the verdict
against the execution.

### `Maintenance`

`add_tags` is a read of `EventStore` (`AddTags`, `ReadRecords`) followed, record
by record (`NextRecord`), by one locked index update per new tag (`MergeTag`) and
one write of the event file from the record in memory (`RewriteEvent`), none of
it under the global lock. `MaintainerDies` may end it between any two.
`RewriteEvent` and the update of an index in `MergeTag` may fail, which the code
ignores: it counts the tags all the same and returns `Ok`, although the documentation
of `AddTagsResult` says "actually persisted". Its read takes all its records at one
moment; they are files of their own, and no property relates two of them.
`LookUpTags`, `ReadTagIndex` and `EndLookUp` are `get_positions_by_tags_async`.

Any number of processes may be in `add_tags`, each with the tags of its own
`Factory`, and nothing in the code keeps them apart: one that
writes back a record older than what another has written undoes it, and tags are
lost. The history `stale` says which records are that old, `torn` which events
were undone or could not be written; the properties say that nothing else goes wrong.

`delete_store` is one step per directory (`DeleteEvents`, `DeleteIndices`); each may
fail, the error is dropped, and then its directory stays as it was (a partial removal
is not modelled). It takes no lock: its `.store.lock` is a file to be
deleted, not the lock `global_store`. With `DeletesAlone` FALSE, as in the run,
everybody else goes on meanwhile. The test
`delete_store_concurrent_with_append_neither_throws_and_store_is_consistent`
(`admin.rs:114`) asserts only that both calls return: after such a race an index
may list an event that is gone, and `spoiled` says so until a deletion goes through
undisturbed.

### `NodeLock`, `StreamLock` and `Ledger`

`NodeLock` has the lock file (absent, not yet stamped, or stamped with an age)
and one action per call of `node:fs`: exclusive creation, stamping, reading and
judging, removing, releasing. `FastHolders` says that no living holder keeps the
lock longer than the threshold; without it the lock plainly does not exclude.
`Ledger` puts the append of `docs_opossum/limitations/crash-recovery-position-collision.md`
under it: reconcile, allocate, write the event file, write the ledger, each write
in two steps (truncate, fill), with a process that dies anywhere. No code of the
repository puts `LedgerManager` and `EventFileManager` together, and the event store
uses neither; the order, and that a process reconciles on its first append only
(`reconciled`), are those of that document. Its claim that after a crash the ledger
catches up before a position is allocated (lines 37 to 41) holds of processes that
come after the crash. One that had reconciled before allocates the
position of the dead process's event, `write_event_async` skips the file that exists
(`files.rs:47`), and its own event is lost although the append returns `Ok`. The
history `overtaken` names those processes, and `AckedEventsStored` and
`PositionsGrow` except what they acknowledge. `InitializeFirst` says that
callers initialise before they append: `initialize` creates an empty ledger after
looking for one without a lock, and would otherwise reset one created in between.

### `ProjectionRunner` and `ProjectionRebuilder`

Per projection: `states` (key to state), `listed` (keys in the metadata index),
`checkpoint`, `lock`. `apply` appends the event to the state, so a state says
which events made it, in which order, and what related events were seen. Two
things that go wrong are recorded in the history variable `damage`, which the
properties name: a rebuild broken off between clearing and resetting leaves the
checkpoint ahead of the states ("lost"), later ones leave states ahead of the
checkpoint or the index behind the states ("repeats"), and one broken off before
the first event leaves everything at the start ("behind"). `Serialised` says that
callers run `process_events` alone on a projection, which takes no lock.
The lock of a projection is acquired, judged, broken and orphaned as that of
the event store is. No code of the repository runs projections on the Node backend
without the bindings, whose rebuild is a `process_events` (`runner_rebuild_with_store`);
`rebuild` under a lock that is broken is what the library does on any backend that
behaves like it. When rebuilds exclude each other is `SafeLock` of
`ProjectionRunnerProofs`.
What the states should be is `MadeOf`: the events of a key behind the last one that
ended it. `Fold`, which is `build_projections` of `extensions.rs`, makes just these,
in order (`FoldsAreMadeOf` in `MCProjections`).
`ProjectionRebuilder` adds `rebuild_all`: the checkpoints looked at one after
another, the rebuilds as tasks of one process, which die together.

### `ProjectionTagIndex` and `ProjectionStore`

`ProjectionTagIndex` moves keys between tags, one locked read-modify-write per
tag, and looks tags up under no lock. Whether a key's list exists is looked at once,
before the lock is waited for (`AskForTagLock`, `SkipRemoval`). The lock of a call
that was broken off may be taken over, by one caller at a time. That is more than any
backend gives: in memory such a lock is never broken and its waiters stay, on Node the
names of these locks contain a `/` and they cannot be taken at all, and
`NodeLockBroken` shows what breaking costs with more than two processes. What waits
for ever changes nothing, so the safety properties lose nothing by it. `ProjectionStore` has the state file, the
tag files and the metadata entry of each key, and every call as its sequence of
file operations; no two callers write one key. The metadata index is one file
for all keys that the store reads and writes back under no lock, so overlapping
saves lose entries; the history variable `stale` marks such an overlap, and the
properties say what holds otherwise. Likewise `torn` marks keys whose last save
or delete was broken off. The code ignores errors of reading the old state and of
writing and deleting tag files; `OldStateUnreadable` and `TagFileFails` are these, and
`failed` holds the tag files whose last operation failed. Ignored errors of writing
the key lists and the metadata index are not modelled; an error of writing the
state leaves what a call that is broken off there leaves.

## 3. Runs

`tlc -workers 2 -config <name>.cfg <module>`; the longest takes two to three minutes.

### Runs that pass

| Run (module) | Question |
|---|---|
| `EventStoreSafety` (`MCEventStore`) | Without faults, are conditions honoured, refusals justified, indices complete whenever the lock is free; do reads without lock return what matches, without holes and including everything finished before they began; does a limited read find something if there is something; and do racing appends implement `DcbLog`? Tags share an index file, so filtering matters. |
| `EventStoreFaults` (`MCEventStore`) | With failing index and event operations, index locks and dying lock holders, whose locks the survivor judges stale and removes: no gap, no overwritten event, no two appends with one position, no dangling index entry, and does every call return unless the lock was never stamped? (Two processes: with three and a death the lock does not exclude, see `NodeLockBroken`.) |
| `DecisionsRacing` (`MCDecisions`) | Is every committed decision taken on exactly the events before it, do the limit and the deadline it enforces hold, is no execution refused twice for the same event, does every execution end, one of them through the bindings, and does the test harness agree? (The whole log, and items with at most one type; reads may fail.) |
| `Maintenance` (`MCMaintenance`) | Two `add_tags` at once, appends, look-ups and deletions race, and one operation fails or one process dies: are tags lost only when a record is written back that is older than what the other wrote; is there one tag per key, no event passed over, the tally right, no index entry left without its tag, and does a look-up by tags miss nothing? |
| `LedgerOnNode` (`MCLedger`) | Does the lock file make a lock; do acknowledged events stay and their positions grow, but for a process that reconciled before another died, and are there no gaps, over the death of a process between any two file operations; do waiters get the lock? |
| `ProjectionsRacing` (`MCProjections`) | With a rebuilder and another process on one projection, appends, failing operations and deaths: does a successful rebuild restore everything, do states follow the checkpoint, is no event lost, is the result of `rebuild_all` honest, and does success mean that each projection has a checkpoint? |
| `RebuildAll` (`MCProjections`) | Two projections, `rebuild_all` twice, forced or not, and a process that dies: does every call return, and does a rebuild wait for ever only for a lock that was never stamped? |
| `ProjectionStores` (`MCProjectionStore`) | With a call broken off or a failing operation on a tag file: do state files, tag files, key lists and the metadata index agree, and are queries right, as far as the code's locking goes? |

### Runs that find a disagreement

Each checks one sentence of the repository's documentation, comments or README
(quoted in `findings`) that the code does not keep.

| Run | What the counterexample shows |
|---|---|
| `NodeIndexLock` | On the Node backend the lock of an index file cannot be created; `append_async` fails after it has stored the event. |
| `DecisionsTypes` | A query with two types reads their files at different moments. The view misses an event and contains a later one, the condition starts behind the later one, and the capacity is exceeded. |
| `NodeLockBroken` | After the death of a holder two waiters judge its lock file stale; the second removes the new lock of the first, and both are in the critical section. It takes three processes: with two, and fast holders, `LedgerOnNode` shows that the lock excludes. |
| `FirstEventTwice` | `process_events` on a log of one event applies it again at the next call: position 0 is never saved as a checkpoint, and never counts as processed. |

Further behaviour at boundaries that no run is about, since the properties state
what holds outside of it; the definitions named reproduce it:

* an append whose n-th write fails returns an error and keeps its earlier events
  (`EventWriteFails`); a death between an event file and its index files leaves
  an event that no query and no condition sees (`Crash`);
* a directory listing that fails counts as an empty store, and the append
  overwrites position 0 (`ScanEvents` with the fault `"dir_read"`); an index file
  that cannot be read counts as empty, also for a condition (`ReadIndex`);
* an item with neither types nor tags matches everything in `Query::matches` and
  resolves to nothing, so a condition with it never fails (`ItemPositions`);
* above `ParallelReadMin` records are not filtered, and colliding index files
  leak events of another tag (`Returned`); a limit is spent on records that are
  filtered out afterwards (`Truncated`); `max_count = 0` of the whole log returns
  one event (`Returned`);
* `max_retries = 0` wraps around (`MayRetry`); `executeDecision` of the bindings never
  retries (`SeesRefusal`), although `marmosa-wasm/README.md:198` says that it does;
* two `add_tags` at once undo each other's tags (`RewriteEvent` from a `stale` record);
* a process that reconciled before another died in its append loses its own next
  event (`Reconcile`);
* an event file left empty by a dead process is adopted by reconciliation as an
  event (`Reconcile`), a lock file left unstamped is never stale (`Inspect`);
* the harness folds events that the decision's query does not select (`When`);
* `size_in_bytes` is set after the metadata was copied into the state file, so
  `rebuild_metadata_index` restores another size (`projections.rs:825`), and a key
  with an escaped character makes `read_index` give up the whole index (`:1370`);
  the models have no sizes and no spelling of keys;
* `acquire_stream_lock` of `InMemoryStorage` spins without awaiting
  (`in_memory.rs:120`): on an executor with one thread the waiter keeps the holder
  from running. The models schedule every process, as one thread per caller does;
* the bindings' `rebuild` is a `process_events` of all events: it clears nothing
  and starts from the checkpoint.

### Bounds

Two or three processes and at most two faults everywhere.

* Event store: `MaxCalls` calls (3; 2 where the counterexample needs no more).
  Three are enough for what the properties relate: a writer that prepares the
  store, a second writer that races with it, and a third call, of a reader or a
  writer, that observes both; batches of two events put every interleaving point
  of a batch between them. Each cfg lists its calls (`SafetyCalls`, ... in
  `MCEventStore`), chosen so that the items resolve to types only, tags only,
  both, several types, and several items; limits are 1 and 2, in both directions.
  In `EventStoreFaults` two faults let a process die and its successor fail too.
  Of the reads of `EventStoreSafety` one joins the index files of a type and of a tag,
  which an append extends at different moments.
* Decisions: one decision per process, two attempts each; batches sum up to more
  than the capacity, so decisions are refused and retried. `MaxCalls = 20` is
  never reached: three executions with two attempts make at most twelve calls.
* Maintenance: four calls by two processes (a batch of two, further appends, `add_tags`
  by either or both, look-ups, deletions), a factory of two tags of one key and
  one of another, and another factory for the second process.
* Ledger: five appends, one of them too large, one death, a threshold of one
  tick; the age of a stamp is the only time that matters. The violation needs
  three processes, three appends and one death.
* Projections: a log of up to three events (position 0 is special, so a
  checkpoint at 2 with an event on either side is the least that separates the
  cases), with an event that ends a state and one without a key; one rebuild of
  the rebuilder, one call of another process, one fault. `RebuildAll` has two
  projections and two calls of `rebuild_all` instead. In both the number of calls and
  deaths is such that no two waiters judge one lock: the theorems have that as
  the hypothesis `RebuildsExclude`, and the runs by their bounds.
* Projection stores: three calls, one break-off or failing operation, two keys, two
  tags, every method. Behaviours that change both the tag index and the store are
  left out (`MCNext` of `MCProjectionStore`): they have no file and no lock in common.

`SYMMETRY` is used where no constant names a process, key or tag: the runs of
`MCEventStore` without fairness and `ProjectionStores`.

### Fairness

* `FairSpec`: weak fairness of each process's own steps: an executor polls every
  task that can run, and an operating system runs every process. The lock is
  polled, which alone would need strong fairness for a particular waiter; with a
  bounded number of calls it is free from some point on, and weak fairness is
  enough. It follows that the runs do not claim that no waiter starves under an
  endless stream of appends; the code's lock has no queue and does not promise it.
* `DecisionsFairSpec`: as long as some execution can take a step, some execution
  takes one. That is weaker, and enough: no execution goes on for ever.
* `RebuilderFairSpec`: of the rebuilder's steps, and of each process's steps.
* `LedgerFairSpec`: of each process's steps, and of time: without it no stamp
  would ever become stale. `WaitersAdvance` is stated up to `Orphaned`, a lock
  file whose creator died before stamping it, for which nobody ever gets it.
  `EveryCallEnds` and `CallsEnd` name the same state, and with it, where
  `BreaksStaleLocks` is FALSE, the lock of any dead holder.

Deaths, faults, restarts, calls and the deadline are never fair: nobody has to
die or to call.

### Refinements

`ImplementsDcbLog` (`EventStoreSafety`): the log that the appends implement is the
`events` up to the batch that is being written; a batch appears in it at once, when
its last event is indexed, together with the verdict on its condition.
`ImplementsStreamLock` (`LedgerOnNode`): the owners are the processes between the
exclusive creation of a lock file and the removal at the end.

## 4. Proofs

The theorems hold for any processes, calls, names, files, decisions and bounds
that satisfy the assumptions on the constants in each module and the hypotheses
named here. A hypothesis is a condition on the constants, except `Exact`,
`[]MutualExclusion` and `[]RebuildsExclude`, which are about states.

`EventStoreProofs`, `ReadProofs` and `RefinementProofs`:

| Theorem | States | Hypotheses |
|---|---|---|
| `TypeCorrect` | `Spec => []TypeOK` | none |
| `LogHasNoGap` | `Spec => []GapFree`, a failing directory listing included | none |
| `SequenceIsReserved` | `Spec => []SequenceReserved` | `ListingsSucceed`, `SafeLock` |
| `IndicesAreSound` | `Spec => []IndexSound` | `ListingsSucceed`, `SafeLock` |
| `LogIsAppendOnly` | `Spec => EventsImmutable` | `ListingsSucceed`, `SafeLock` |
| `IndicesAreComplete` | `Spec => []IndexedWhenUnlocked` | `IndexStorageReliable` |
| `ConditionsAreHonoured` | `Spec => []ConditionHonoured` | `IndexStorageReliable`, `ConditionsNameTypesOrTags` |
| `ReadsReturnMatches` | `Spec /\ []Exact => []ReadsMatch` | `ListingsSucceed`, `SafeLock` |
| `RejectionsAreDue` | `Spec /\ []Exact => []NoSpuriousRejection` | `ListingsSucceed`, `SafeLock` |
| `SimpleReadsHaveNoHole` | `Spec => []PrefixReads` | `IndexStorageReliable` |
| `NestedReadsHaveNoHole` | the same for every unlimited read of a `Nested` query | `IndexStorageReliable` |
| `ReadsAreFresh` | `Spec => []FreshReads` | `IndexStorageReliable`, `QueriesNameTypesOrTags` |
| `LimitedReadsFindSomething` | `Spec => []LimitedReadsFind` | the same, and `NamesDiffer` |
| `AppendsAreSerialisable` | `Spec /\ []Exact => ImplementsDcbLog` | `NoFaults`, `ConditionsNameTypesOrTags` |

`DecisionProofs`, all under `DecisionsSpec /\ []Exact` and the hypotheses
`IndexStorageReliable`, `QueriesNameTypesOrTags`, `ExecutionsAreCalls`,
`UnionsAreRight`, `ReadsAreNested`:

| Theorem | States |
|---|---|
| `ExecutionsUseTheStore` | executions implement `Spec`: what is proved of the store holds of them |
| `DecisionsAreNotStale` | `[]NoStaleDecision` |
| `CapacityIsRespected` | `[]CapacityRespected` |
| `DeadlineIsKept` | `[]DeadlineKept` |
| `GivingUpMeansContention` | `[]FailureMeansContention` |
| `HarnessIsRight` | `[]HarnessAgrees` |

`MaintenanceProofs`, all under `MaintenanceSpec`, for any number of maintainers, and the
hypotheses `ListingsSucceed`, `SafeLock`, `DeletesAlone` and `FactoryMakesTags`:

| Theorem | States | Further hypotheses |
|---|---|---|
| `TagsAreOnlyAdded` | `TagsOnlyGrow` | none |
| `ReportIsRight` | `[]TallyIsRight` | none |
| `IndicesAreSoundAtRest` | `[]IndexSoundAtRest` | none |
| `LookUpsByTagFindAll` | `[]TagLookUpsComplete` | `IndexOperationsSucceed` |
| `EveryEventIsTagged` | `[]AddTagsComplete` | `IndexOperationsSucceed`, `FactoryStable`, `KeysDiffer` |

`LedgerProofs` and `ProjectionStoreProofs`:

| Theorem | States | Hypotheses |
|---|---|---|
| `LockExcludesUntilADeath` | `LedgerSpec => [](deaths = 0 => MutualExclusion)` | `FastHolders` |
| `TwoProcessesExclude` | `LedgerSpec => []MutualExclusion` for two processes, deaths and broken locks included | `FastHolders` |
| `SafeLockExcludes` | `LedgerSpec => []MutualExclusion` | `SafeLock` |
| `ExclusionKeepsEvents` | `LedgerSpec /\ []MutualExclusion => []AckedEventsStored` | `InitializeFirst` |
| `ExclusionLeavesNoGap` | `LedgerSpec /\ []MutualExclusion => []FilesWithoutGap` | `InitializeFirst` |
| `ExclusionOrdersPositions` | `LedgerSpec /\ []MutualExclusion => PositionsGrow` | `InitializeFirst` |
| `ExclusionMakesALock` | `LedgerSpec /\ []MutualExclusion => ImplementsStreamLock` | none |
| `SafeLockIsEnough` | the four before, of `LedgerSpec` alone | `SafeLock`, `InitializeFirst` |
| `StoreTypesAreRight` | `StoreSpec => []TypeInv` | none |
| `TagListsStayExact` | `StoreSpec => []TagListsExact` | `FilesDiffer` |
| `LookUpsStayRight` | `StoreSpec => []LookUpsAreRight` | `FilesDiffer` |
| `TagFilesStayExact` | `StoreSpec => []TagFilesFollowStates` | none |
| `QueriesStayRight` | `StoreSpec => []QueriesAreRight` | none |
| `EntriesStayKept` | `StoreSpec => []EntriesAreKept` | none |

`ProjectionRunnerProofs`, all under `RebuilderSpec /\ []RebuildsExclude` and the hypothesis
`Serialised`, but the second, which is of `RebuilderSpec` and supplies `[]RebuildsExclude`:

| Theorem | States |
|---|---|
| `RebuilderSafe` | `[]RebuilderInvariant`, the inductive invariant of runners and rebuilder |
| `SafeLockExcludes` | `[]RebuildsExclude`, under `SafeLock` |
| `StatesFollowCheckpointHolds` | `[]StatesFollowCheckpoint` |
| `RebuildRestoresHolds` | `[]RebuildRestores` |
| `NoEventLostHolds` | `[]NoEventLost` |
| `RebuildAllIsHonestHolds` | `RebuildAllIsHonest` |

### Hypotheses

Each names what the theorem is false without:

* `ListingsSucceed`: directory listings do not fail. After one that does, the
  append takes position 0 and overwrites the event there.
* `SafeLock` of the event store: locks are never broken, as in memory; or no living
  holder keeps the lock longer than the threshold (`FastHolders`) and, if processes
  die, there are two. `NodeLockBroken` breaks the lock with three and one death.
* `IndexStorageReliable`: nothing fails but reading and writing event files,
  nobody dies inside a call, `SafeLock`, and the backend can create the locks of index files
  (`NodeIndexLock` shows that otherwise an append leaves its event unindexed).
* `ConditionsNameTypesOrTags`: no condition has an item with neither types nor
  tags. `Query::all()` is allowed, it has no items. `QueriesNameTypesOrTags` says
  the same of every call: such an item resolves to nothing.
* `Exact`: no two types and no two tags share an index file (`NamesDiffer`), or
  the log has at most `ParallelReadMin` events. A read of more records than that
  is not filtered, so that a shared file makes it return events of another name.
* `NamesDiffer` for reads with a limit: the limit is spent on records of the other
  name, which are filtered out afterwards.
* `NoFaults`: a batch whose n-th write fails is appended in part.
* `ExecutionsAreCalls`: what executions call is in `Calls`. `DecisionsSpec` does not
  mention `Calls`, so this only says which instance of `EventStore` is meant.
* `UnionsAreRight`: the query of an execution matches what one of the queries of
  its projections matches. It is false when one of several projections wants
  everything: `build_decision_model_nary_async` concatenates items, and
  `Query::all()` has none. The queries are concatenated by a fold, about which
  nothing can be proved here; TLC evaluates the formula for the events of the run
  (an `ASSUME` of `MCDecisions`).
* `ReadsAreNested`: the last item of the query that an execution reads has at most
  one type and matches whatever the other items do. `DecisionsTypes` shows that
  decisions on a query of two types can be stale.
* `DeletesAlone`: callers delete the store only while nobody uses it. Each directory's
  deletion may still fail. The run `Maintenance` does without this hypothesis.
* `IndexOperationsSucceed`: as `IndexStorageReliable`, but processes may die. An
  event that is in none of its index files is found neither by the read of
  `add_tags` nor by a look-up.
* `FactoryMakesTags`: a tag factory gives tags, for any event: this is its Rust type.
* `FactoryStable`: for an event with more tags the factory gives no tag of another
  key. `add_tags` calls it with the event as it was read; a factory that answers
  the tags it has just added with a new one has to be applied again.
* `KeysDiffer`: nobody appends an event that has a key twice. Nothing in
  `append_async` forbids that, and `add_tags` leaves such an event as it is.
* `FastHolders`: no living holder keeps the lock longer than the threshold.
  `SafeLock` of the ledger adds that nobody dies or that there are two processes only.
* `InitializeFirst`: callers initialise before they append. `initialize` would reset
  a ledger created after it looked for one.
* `Serialised`: nobody calls `process_events` on a projection while another call on it
  is under way. `rebuild` takes a lock, `process_events` takes none: two of them load
  the same state and write it back, and one next to a rebuild writes what was
  cleared. Rebuilds, those of `rebuild_all` included, may race as they like.
* `[]RebuildsExclude`: no two rebuilds of one projection are past its lock. `SafeLock` of
  `ProjectionRunnerProofs` (locks are never broken, or holders are fast and nobody
  dies) is enough for it: a theorem. After a death it can be false where locks are
  broken, as it can for the event store.
* `FilesDiffer`: no two tags share a file of keys. An update for one would take its
  key off the list of both.

### Arguments

**The log.** `Inv1` needs no lock: the event files are the
interval `0 .. End - 1` and no append's `sequence` is beyond `End`, because a
`sequence` is computed from a listing (or is 0) and the log only grows; so a
write either extends the interval by one or overwrites. `GapFree` alone is not
inductive since it does not say where the next write goes. `Inv2` is what the
lock is for: the process between scan and release is the holder, its `sequence`
*is* `End` until it writes (`SequenceFresh`), and the index files still to be
updated belong to the event it has written (`PendSound`). From that a write
never hits an existing event, which gives append-only and index soundness.
A dead holder's lock can be broken because the dead process is in no label in
which a holder would act; but the lock is removed a step after it was judged, so the
invariant also says, under `SafeLock`, that whoever is about to remove a lock is the
only one left (`UnlinkAlone`).

**Conditions.** `Inv3` follows an append through its condition. `ConditionHonoured`
compares stored events with a decision that was taken from index files, so the
invariant carries the intermediate results: every event is in its index files or
about to be added by its writer (`IndexComplete`), hence in all of them while
somebody else holds the lock; what the holder has read for the current item is
what the files hold, and what it has resolved contains every event that matches
an earlier item (`Resolving`); at the end of the resolution it contains every
event that violates the condition (`Resolved`), so an unlimited read that returns
nothing means that there is none (`NothingReturned`); and whatever is
added to the log afterwards is added at its end, behind the batch (`Honoured`,
`AddedAfterBase`). `StoreIsStill` is the reason why results may be carried from
one step to the next: nobody else writes while the condition is evaluated.
The lemma about the operators that the argument rests on is
`ItemPositionsComplete`: index resolution finds whatever `Query::matches` accepts.

**Reads.** A reader has no lock: the files it has read are out of date when it
reads the next one. Three facts about one index file survive that, and each gives
a theorem. *Sound*: what it listed belongs there, and goes on to (`ReadSound`;
`ItemPositionsMatch` turns it into a match). *Closed*: with a position it listed
all those before it that belong there (`ReadClosed`). That is lost as soon as two
files are joined, unless the last item of the query, which is resolved last, has
one file of the type and covers the others; that is `Nested`. *Fresh*: it listed
what had been settled when the call began (`ReadFresh`, from `IndexComplete` and
the history variable `floor`). `Inv3` is not needed for the first; the others hold
under the invariant of the indices.

**Refinement.** `Inv4` adds to `Inv3` that what a batch has written so far is what
it says (`Written`), that an append which is about to return knows its answer
(`Answered`), and `ReadSound`, because a refusal must name an event that violates
the condition. `FinishBatch` maps to `Commit` of
`DcbLog`, the `LoadEvents` that finds a match to `Refuse`, a call to `Submit`; every other
step stutters. The log up to the batch
being written does not change meanwhile (`SettledIsPrefix`, `LogStays`), so the
condition that was checked is true of the log at the step that appends.

**Decisions.** An execution takes steps of the store, so `StoreFacts` (`Inv3` and the
three facts about reads) holds of it. `Inv5` says what an execution knows in each
phase: its call (`PhaseOf`); that its view is what its queries match up to the last
event in it (`ViewOf`: closed and sound); what its verdict says of the view
(`VerdictOf`); that its batch goes behind the view (`BehindView`). That the view also is all
there is before the batch is then what the honoured condition says. For
`FailureMeansContention` the invariant follows the events of each refusal (`LostTo`):
there are as many refusals as attempts failed; what refused is settled before the next
read begins, which therefore sees it (fresh), so that the next condition starts behind
it and whatever refuses next is disjoint from all before (`Parted`).

**Maintenance.** `Inv2` does not hold next to `add_tags`: between an index update and
the rewriting of the event, an index file lists what the event does not have. What is left of
it, and is proved anew for the steps of maintenance, is the log and the reservation of its end
(`LogLayer`, `Inv1` and `SequenceReserved`). On it rests `MInv1`, for any number of
`add_tags` at work: the records that a maintainer has read and not done yet are the events in the
log, and the record in hand is its event and the tags added so far (`Reads`,
`Extends`); so writing it back takes nothing away (`EventsOnlyGrow`). That is said of the
records nobody else has rewritten since. For the others, those in `stale`, it is
false, and an event over which one of them is written is `torn`: those are the
lost updates, and every claim about tags is about the events that are not. Appends are
no part of this, since they touch no event that is there. Deletions are alone
(`Duties`, from `DeletesAlone`); what one that failed left behind makes the store
`spoiled`. `Counted` keeps the tally equal to what the events that are done
gained. `IndexKnown` is the soundness of the indices: they name events only
(`IndexNames`), and an event in one has the tag, or will when a record in hand is
written (`Belongs`), which is why `IndexSoundAtRest` needs everybody to be at rest.
`Indexed` is their completeness, with what is in memory: a record that gets a tag is in
its file first (`RecordsIndexed`).
From it a look-up finds what it must (`LookUpsKnow`), and so does the read of `add_tags`, followed
from the index file to the records (`MaintenanceRead`, `WantedFound`); what was read is then
done key by key (`FactoryDone`, `KeysOnce`).

**The lock file and the ledger.** `LockInv` says, until the first death, that the file there
was created by the process in the critical section and is not stale. With two
processes, a death leaves one. `LedgerInv` does not speak of the lock file: it assumes
`MutualExclusion` in every state, and says what the holder knows at each of
its steps (`HolderKnows`), that only the writer of an event, alive or dead, leaves its
file empty (`TornHasWriter`), that the files are an interval (`FilesAreInterval`) and that the
ledger is never ahead of them (`LedgerBehindFiles`); so an append that reconciles
can start from the state any death leaves. A process reconciles once. When its ledger
may be trusted later is `LedgerTrusted`: it is behind the files only
while somebody writes, or, after a death between file and ledger, for the
processes that had reconciled before (`overtaken`). Such a process takes a position that has
a file, its event is not written, and still it is acknowledged: these are the
events that are not `sure`, and what is left for them is that their position has a
file (`AckedInFiles`). `AckedEventsStored` is about all others.
`SafeLockIsEnough` puts both together.

**Projection stores.** The tag index: locks exclude (`TagLocks`), the list read under a lock
is the list until it is written back (`HeldReads`), an update knows which of its tags it has
moved its key to (`Moved`), and a look-up knows of each key that nobody touches whether
it can still be found (`Looking`). The store: apart from the files whose last operation failed (`TagsIn`,
`FailedOf`), no key has a tag file that its state does not
have, and the writer of a key knows what is missing (`Tagging`); a query knows which keys
it is right about (`Queried`); the entries are as wanted until two changes
overlap (`Entries`).

**Projections.** Whoever works on a projection is alone with it (`WorksAlone`), by
the lock or because callers see to it (`ProcessingAlone`). That the lock excludes
(`RebuildsExclude`) is assumed in every state, as `MutualExclusion` is for the
ledger; `SafeLockExcludes` supplies it where locks are never broken or nobody
dies (`LockSound`). So what a process has learned of its projection stays true until it goes on: `Knows` says, label by label, how states, index, checkpoint and locals are
related there, and in the loop that the states are made of exactly the events before
the next one, the one loaded from the file being the state to save (`InLoop`, `Saving`). When nobody is at work
the projection is `AtRest`: as its checkpoint says if undamaged, without a missing
event if states are only ahead, anything if the checkpoint is. That `Knows` gives `AtRest`
with the damage recorded, at every label, is the lemma `HarmLeaves`: it covers deaths and
failures alike. The properties alone are not inductive, since they do not speak of
projections in use. What an event does to `MadeOf` (passed over, applied, ending its key) is a lemma each, over
sets of positions, so that no fold is needed. For `rebuild_all`, `HonestInvariant`
adds what has become of each projection since it was called (`Settled`): not chosen, it has a
checkpoint; chosen and its task ended well, it is `Served`: whoever works on it
since leaves it caught up with the log of the call, or damages it, and then somebody else
has made a call (`OthersCounted`). `HonestInvariant` was checked with TLC on the
constants of `ProjectionsRacing` and of `RebuildAll` before it was proved.

### Only model-checked

Every invariant and every action property of the passing runs is stated by a
theorem, and so are the refinements. Liveness and everything under fairness are out of
reach of the prover, and are left to TLC: that calls, executions and rebuilds return and that
waiters get the lock (`EveryCallEnds`, `EveryDecisionEnds`, `CallsEnd`,
`WaitersAdvance`). So are the runs that find a disagreement.

Nothing can be proved here about what a fold computes for every input. Where a model has one, the
theorems rest on a description of its result that TLC compares with it on all small inputs:
`UnionsAreRight` for the condition of several projections, a hypothesis, and
`MadeOf` for the replay of a projection, which the properties use in place of
`Fold`; `FoldsAreMadeOf` evaluates both for every log of up to four events of
the kinds of the run and every position up to which it is replayed.

## 5. Not modelled, and the plan

Not modelled, because there is no state or interaction in it: the options and
their validation, the error types, the event and tag builders, the conversion of
JavaScript values in the bindings, the TypeScript helpers. Of the storage
backends, operations that nothing modelled calls (deleting single files on Node,
creating directories, the `*_exists` queries) and the test backend in `ports.rs`.
`get_updated_since` selects entries by a time stamp, and the models have none.
Less than half of the lines of the implementation files are code outside tests
and documentation comments; the modules cover most of those that change state.

Partly modelled: on the Node backend the files of the event store and of the
projections can be found truncated, as those of the ledger can; only `Ledger`
models it. The lock of an index file that a dead process leaves behind is free
again in `EventStore` and stays in the code until somebody breaks it: the Node
backend cannot create these locks at all (`NodeIndexLock`), and in memory the holder takes its
locks with it. In the bindings the in-memory projection runner has a storage of its
own for its checkpoint, which no module distinguishes.

Next, in this order:

1. **Truncated files** in `EventStore` and `ProjectionStore`.
2. **Locks of index files** whose holder has died, for a backend that can create them.
3. **`MaintenanceProofs` without `DeletesAlone`**: the run `Maintenance` does without it.
