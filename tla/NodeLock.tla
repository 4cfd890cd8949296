------------------------------- MODULE NodeLock -------------------------------
(***************************************************************************)
(* acquire_stream_lock and release_stream_lock of NodeFileSystemStorage    *)
(* (src/marmosa-wasm/src/storage.rs): one lock, one lock file.             *)
(*                                                                         *)
(*   create -> stamp -> critical ... -> release          (it was created)  *)
(*   create -> inspect -> [unlink] -> create             (it exists)       *)
(*                                                                         *)
(* Each step is one call of node:fs.  The lock file is created exclusively *)
(* but everything after that goes by its name: the time stamp is written   *)
(* to, and the file removed from, whatever is there at that moment.        *)
(*                                                                         *)
(* Time is the age of the stamp in the lock file, which is all the code    *)
(* looks at; the clocks of all processes agree.                            *)
(***************************************************************************)
EXTENDS Integers

CONSTANTS
  Proc,         \* processes (Node.js workers) that share a data directory
  Threshold,    \* stale_lock_threshold_ms, in units of Tick
  FastHolders   \* TRUE iff no living holder keeps the lock for longer than that

ASSUME NodeLockAssumption ==
  /\ Threshold \in Nat \ {0}
  /\ FastHolders \in BOOLEAN

VARIABLES
  lockFile,  \* content of the lock file
  pc         \* what each process is about to do

lockVars == <<lockFile, pc>>

\* What is in the lock file: nothing, for there is no file; no number yet; or a
\* time stamp, of which only the age matters.  `by` is history: the process that
\* created or stamped the file last.
NoFile == [age |-> -2]
Unstamped == -1
Oldest == Threshold + 1

File(age, p) == [age |-> age, by |-> p]

Go(p, label) == pc' = [pc EXCEPT ![p] = label]

\* Between the exclusive creation and the removal of the file.
InLock == {"stamp", "critical", "release"}

\* Waiting in acquire_stream_lock.
Waiting == {"create", "inspect", "unlink"}

LockInit ==
  /\ lockFile = NoFile
  /\ pc = [p \in Proc |-> "idle"]

-----------------------------------------------------------------------------
Request(p) ==
  /\ pc[p] = "idle"
  /\ Go(p, "create")
  /\ UNCHANGED lockFile

\* open(lock_file, "wx") creates an empty file, or fails since it exists.
Create(p) ==
  /\ pc[p] = "create"
  /\ IF lockFile = NoFile
     THEN lockFile' = File(Unstamped, p) /\ Go(p, "stamp")
     ELSE Go(p, "inspect") /\ UNCHANGED lockFile

\* write_file of the time: it succeeds whatever became of the file.
Stamp(p) ==
  /\ pc[p] = "stamp"
  /\ lockFile' = File(0, p)
  /\ Go(p, "critical")

\* Mutants of Inspect: a file without a number counts as stale; no file does.
InspectUnstamped(p) ==
  /\ pc[p] = "inspect"
  /\ Go(p, IF lockFile.age = Unstamped \/ lockFile.age > Threshold THEN "unlink" ELSE "create")
  /\ UNCHANGED lockFile

InspectNever(p) ==
  /\ pc[p] = "inspect"
  /\ Go(p, "create")
  /\ UNCHANGED lockFile

\* The file is read; one that holds no number, or is gone, is not stale, and the
\* process tries again after 10 milliseconds.
Inspect(p) ==
  /\ pc[p] = "inspect"
  /\ Go(p, IF lockFile.age > Threshold THEN "unlink" ELSE "create")
  /\ UNCHANGED lockFile

\* The file judged stale is removed, whichever file is there by now.
Unlink(p) ==
  /\ pc[p] = "unlink"
  /\ lockFile' = NoFile
  /\ Go(p, "create")

\* The work under the lock is over.
Leave(p) ==
  /\ pc[p] = "critical"
  /\ Go(p, "release")
  /\ UNCHANGED lockFile

\* release_stream_lock: unlink, whoever created the file that is there.
Release(p) ==
  /\ pc[p] = "release"
  /\ lockFile' = NoFile
  /\ Go(p, "idle")

Die(p) ==
  /\ pc[p] \notin {"idle", "crashed"}
  /\ Go(p, "crashed")
  /\ UNCHANGED lockFile

\* A stamp gets older, unless its holder lives and is fast.
Tick ==
  /\ lockFile.age \in 0 .. Threshold
  /\ FastHolders /\ lockFile.age = Threshold => pc[lockFile.by] \notin InLock
  /\ lockFile' = [lockFile EXCEPT !.age = @ + 1]
  /\ UNCHANGED pc

\* A step of acquire_stream_lock.
AcquireStep(p) == Create(p) \/ Stamp(p) \/ Inspect(p) \/ Unlink(p)

-----------------------------------------------------------------------------
(* Properties *)

\* What the critical section of append_async, of a ledger update or of a rebuild
\* relies on.
MutualExclusion == \A p, q \in Proc : p # q => ~(pc[p] \in InLock /\ pc[q] \in InLock)

\* The lock file makes a lock: it has one owner at a time, which nobody replaces while
\* it lives, whoever judges which stamp stale, removes which file and stamps which.
StreamLock == INSTANCE StreamLock WITH owners <- {p \in Proc : pc[p] \in InLock}

ImplementsStreamLock == StreamLock!StreamLockSpec

\* A lock file that never becomes stale: its creator died before stamping it.
Orphaned == lockFile.age = Unstamped /\ pc[lockFile.by] \notin InLock
=============================================================================
