-------------------------------- MODULE Ledger --------------------------------
(***************************************************************************)
(* LedgerManager, EventFileManager and StorageInitializer                  *)
(* (src/src/event_store/ledger.rs, files.rs, initializer.rs) used together *)
(* by processes that share a directory of the Node backend: an append      *)
(* takes the lock of the context, reconciles the ledger with the event     *)
(* files if it is the first of its process, allocates the next position,   *)
(* writes the event file there and then the ledger.  No code of the        *)
(* repository puts the three together; the order is that of                *)
(* docs_opossum/limitations/crash-recovery-position-collision.md.          *)
(*                                                                         *)
(* write_file of the Node backend truncates a file before it fills it, so  *)
(* both the ledger and an event file can be found empty.                   *)
(*                                                                         *)
(* The context is a directory directly under the base path: the lock of a  *)
(* context with a '/' in its path cannot be created on this backend, as    *)
(* little as that of an index file (NestedLockNames of EventStore).        *)
(***************************************************************************)
EXTENDS NodeLock, FiniteSets, FiniteSetsExt

CONSTANTS
  MaxAppends,       \* bound: number of appends in a behaviour
  MaxDeaths,        \* bound: number of processes that die
  BigEvents,        \* the events, by number, whose JSON has more than 1024 bytes
  InitializeFirst   \* TRUE iff nobody appends before every initialize is over

ASSUME LedgerAssumption ==
  /\ MaxAppends \in Nat /\ MaxDeaths \in Nat
  /\ BigEvents \subseteq Nat
  /\ InitializeFirst \in BOOLEAN

VARIABLES
  ledger,     \* content of the file .ledger
  eventFile,  \* position -> number of the event in the file, or Torn
  step,       \* where each process is in its append, or in initialize
  position,   \* the position it works with
  event,      \* number of the event it appends
  outcome,    \* how its last append ended
  reconciled, \* processes that have reconciled the ledger, see Reconcile
  overtaken,  \* history: those that had, when another died while it wrote
  acked,      \* history: the appends that returned Ok, see Acked
  appends,    \* number of appends started
  deaths      \* number of processes that died

files == <<ledger, eventFile>>
trust == <<reconciled, overtaken>>
counts == <<appends, deaths>>
ledgerVars == <<lockVars, files, step, position, event, outcome, trust, acked, counts>>

NoLedger == -1    \* the file does not exist: ENOENT, which is Error::NotFound
EmptyLedger == 0  \* it exists and is empty, which reads as position 0
Torn == 0         \* an event file that exists and is empty

\* get_last_sequence_position: no file and an empty file both count as 0.
LastPosition(content) == IF content = NoLedger THEN 0 ELSE content

\* read_dir of the events directory: names only, whatever is in the files.
EventFiles == DOMAIN eventFile

\* The highest number among the names in the events directory, or 0.
HighestFile == IF EventFiles = {} THEN 0 ELSE Max(EventFiles)

\* file_exists, which reads the file: an empty one exists.
EventFileExists(n) == n \in EventFiles

\* read_event_async(n) succeeds: there is a file with an event in it.
Readable(n) == n \in DOMAIN eventFile /\ eventFile[n] # Torn

At(p, s) == pc[p] = "critical" /\ step[p] = s

To(p, s) == step' = [step EXCEPT ![p] = s]

\* An append of e acknowledged at position n, by a process that was overtaken or not.
Acked(n, e, sure) == [at |-> n, event |-> e, sure |-> sure]

\* Steps between which the ledger may be behind the event files.
Writing == {"mend", "mended", "event", "commit", "committed"}

LedgerInit ==
  /\ LockInit
  /\ ledger = NoLedger
  /\ eventFile = << >>
  /\ step = [p \in Proc |-> "none"]
  /\ position = [p \in Proc |-> 0]
  /\ event = [p \in Proc |-> 0]
  /\ outcome = [p \in Proc |-> "none"]
  /\ reconciled = {} /\ overtaken = {}
  /\ acked = {}
  /\ appends = 0 /\ deaths = 0

-----------------------------------------------------------------------------
(* StorageInitializer::initialize, which takes no lock *)

FindNoLedger(p) ==
  /\ pc[p] = "idle" /\ step[p] = "none" /\ ledger = NoLedger
  /\ InitializeFirst => appends = 0
  /\ To(p, "wipe")
  /\ UNCHANGED <<lockVars, files, position, event, outcome, trust, acked, counts>>

CreateLedger(p) ==
  /\ step[p] = "wipe" /\ pc[p] = "idle"
  /\ ledger' = EmptyLedger
  /\ To(p, "none")
  /\ UNCHANGED <<lockVars, eventFile, position, event, outcome, trust, acked, counts>>

-----------------------------------------------------------------------------
(* The append *)

StartAppend(p) ==
  /\ step[p] = "none" /\ appends < MaxAppends
  /\ InitializeFirst => \A q \in Proc : step[q] # "wipe"
  /\ Request(p)
  /\ appends' = appends + 1
  /\ event' = [event EXCEPT ![p] = appends + 1]
  /\ outcome' = [outcome EXCEPT ![p] = "none"]
  /\ To(p, "reconcile")
  /\ UNCHANGED <<files, position, trust, acked, deaths>>

\* acquire_lock_async.
AcquireLedgerLock(p) ==
  /\ AcquireStep(p)
  /\ UNCHANGED <<files, step, position, event, outcome, trust, acked, counts>>

\* Mutant of Reconcile: the ledger is trusted.
ReconcileSkipped(p) ==
  /\ At(p, "reconcile")
  /\ To(p, "next")
  /\ reconciled' = reconciled \cup {p} /\ overtaken' = {}
  /\ UNCHANGED <<lockVars, files, position, event, outcome, acked, counts>>

\* reconcile_ledger_async, once per process: a ledger behind the event files is set to
\* the last one.
Reconcile(p) ==
  /\ At(p, "reconcile")
  /\ \/ /\ p \in reconciled
        /\ To(p, "next")
        /\ UNCHANGED <<position, overtaken>>
     \/ /\ p \notin reconciled /\ HighestFile > LastPosition(ledger)
        /\ To(p, "mend")
        /\ position' = [position EXCEPT ![p] = HighestFile]
        /\ UNCHANGED overtaken
     \/ /\ p \notin reconciled /\ HighestFile <= LastPosition(ledger)
        /\ To(p, "next")
        /\ overtaken' = {}
        /\ UNCHANGED position
  /\ reconciled' = reconciled \cup {p}
  /\ UNCHANGED <<lockVars, files, event, outcome, acked, counts>>

\* Mutant of AllocatePosition: the last position instead of the one after it.
AllocatePositionLast(p) ==
  /\ At(p, "next")
  /\ position' = [position EXCEPT ![p] = ledger]
  /\ To(p, "check")
  /\ UNCHANGED <<lockVars, files, event, outcome, trust, acked, counts>>

\* Mutant of AllocatePosition: positions are counted from 1 by their number.
AllocatePositionByCount(p) ==
  /\ At(p, "next")
  /\ position' = [position EXCEPT ![p] = appends]
  /\ To(p, "check")
  /\ UNCHANGED <<lockVars, files, event, outcome, trust, acked, counts>>

\* get_next_sequence_position_async.
AllocatePosition(p) ==
  /\ At(p, "next")
  /\ position' = [position EXCEPT ![p] = LastPosition(ledger) + 1]
  /\ To(p, "check")
  /\ UNCHANGED <<lockVars, files, event, outcome, trust, acked, counts>>

\* write_event_async without allow_overwrite: an event too large for the buffer is
\* an error; an existing file is left alone and counts as written.
RefuseBigEvent(p) ==
  /\ At(p, "check") /\ ~EventFileExists(position[p]) /\ event[p] \in BigEvents
  /\ Leave(p)
  /\ To(p, "none")
  /\ outcome' = [outcome EXCEPT ![p] = "io_error"]
  /\ UNCHANGED <<files, position, event, trust, acked, counts>>

CheckEventFile(p) ==
  /\ At(p, "check")
  /\ IF EventFileExists(position[p])
     THEN To(p, "commit") /\ UNCHANGED eventFile
     ELSE /\ event[p] \notin BigEvents
          /\ eventFile' = [n \in DOMAIN eventFile \cup {position[p]} |->
                             IF n = position[p] THEN Torn ELSE eventFile[n]]
          /\ To(p, "event")
  /\ UNCHANGED <<lockVars, ledger, position, event, outcome, trust, acked, counts>>

FillEventFile(p) ==
  /\ At(p, "event")
  /\ eventFile' = [eventFile EXCEPT ![position[p]] = event[p]]
  /\ To(p, "commit")
  /\ UNCHANGED <<lockVars, ledger, position, event, outcome, trust, acked, counts>>

\* update_sequence_position_async, in reconcile_ledger_async and at the end.
TruncateLedger(p) ==
  /\ At(p, "mend") \/ At(p, "commit")
  /\ ledger' = EmptyLedger
  /\ To(p, IF step[p] = "mend" THEN "mended" ELSE "committed")
  /\ UNCHANGED <<lockVars, eventFile, position, event, outcome, trust, acked, counts>>

MendLedger(p) ==
  /\ At(p, "mended")
  /\ ledger' = position[p]
  /\ overtaken' = {}
  /\ To(p, "next")
  /\ UNCHANGED <<lockVars, eventFile, position, event, outcome, reconciled, acked, counts>>

\* The ledger names the new position: the append is over and returns Ok.
CommitLedger(p) ==
  /\ At(p, "committed")
  /\ ledger' = position[p]
  /\ acked' = acked \cup {Acked(position[p], event[p], p \notin overtaken)}
  /\ outcome' = [outcome EXCEPT ![p] = "ok"]
  /\ To(p, "none")
  /\ Leave(p)
  /\ UNCHANGED <<eventFile, position, event, trust, counts>>

ReleaseLedgerLock(p) ==
  /\ Release(p)
  /\ UNCHANGED <<files, step, position, event, outcome, trust, acked, counts>>

\* A process dies anywhere in its append; the others go on.
DieInAppend(p) ==
  /\ deaths < MaxDeaths
  /\ Die(p)
  /\ deaths' = deaths + 1
  /\ overtaken' = IF pc[p] = "critical" /\ step[p] \in Writing THEN reconciled ELSE overtaken
  /\ UNCHANGED <<files, step, position, event, outcome, reconciled, acked, appends>>

Pass == Tick /\ UNCHANGED <<files, step, position, event, outcome, trust, acked, counts>>

-----------------------------------------------------------------------------
LedgerStep(p) ==
  \/ AcquireLedgerLock(p) \/ Reconcile(p) \/ AllocatePosition(p)
  \/ RefuseBigEvent(p) \/ CheckEventFile(p) \/ FillEventFile(p)
  \/ TruncateLedger(p) \/ MendLedger(p) \/ CommitLedger(p) \/ ReleaseLedgerLock(p)

LedgerQuiet ==
  /\ appends = MaxAppends
  /\ \A p \in Proc : pc[p] \in {"idle", "crashed"}
  /\ UNCHANGED ledgerVars

LedgerNext ==
  \/ \E p \in Proc :
       LedgerStep(p) \/ StartAppend(p) \/ DieInAppend(p) \/ FindNoLedger(p) \/ CreateLedger(p)
  \/ Pass
  \/ LedgerQuiet

LedgerSpec == LedgerInit /\ [][LedgerNext]_ledgerVars

\* Processes run, and time passes.
LedgerFairSpec ==
  LedgerSpec /\ WF_ledgerVars(Pass) /\ \A p \in Proc : WF_ledgerVars(LedgerStep(p))

-----------------------------------------------------------------------------
(* Properties *)

\* An append that returned Ok has stored its event, and it stays: no position is
\* handed out twice, nobody overwrites an event file, and the silent skip of an
\* existing file never drops an event, although a process may die between any
\* two writes and the ledger is empty in between.  Not so an append of a process that
\* had reconciled already when another died, before anybody reconciles again: it gets
\* the position of the dead one's event, skips its file and returns Ok.
AckedEventsStored ==
  \A a \in acked : a.sure => a.at \in DOMAIN eventFile /\ eventFile[a.at] = a.event

\* Positions grow from one successful append to the next, over crashes too, with the
\* same exception.
PositionsGrow ==
  [][\A a \in acked' \ acked : a.sure => \A b \in acked : a.at > b.at]_ledgerVars

\* Positions are used without a gap: neither a refused event nor a death between event
\* file and ledger loses one, and the ledger is never ahead of the files.  A position up
\* to the one in the ledger can be read, by a reader without the lock as well, unless the
\* process that wrote it died in the middle: such a file is taken over by the next
\* append's reconciliation, and read_events_async fails there ever after.
FilesWithoutGap ==
  /\ EventFiles = 1 .. HighestFile
  /\ \A n \in 1 .. LastPosition(ledger) :
       /\ n \in EventFiles
       /\ Readable(n) \/ \E p \in Proc : pc[p] = "crashed" /\ step[p] = "event" /\ position[p] = n

\* A waiting process gets the lock although its holder dies, unless that holder
\* died between creating the lock file and stamping it.
WaitersAdvance == \A p \in Proc : pc[p] \in Waiting ~> pc[p] \notin Waiting \/ Orphaned
=============================================================================
