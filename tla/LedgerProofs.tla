----------------------------- MODULE LedgerProofs -----------------------------
(***************************************************************************)
(* Proofs about NodeLock and Ledger for any number of processes, appends   *)
(* and deaths and any stale lock threshold.                                *)
(*                                                                         *)
(* The argument has two halves.  The lock file makes a lock as long as     *)
(* nobody has died: every holder is the creator of the file that is there, *)
(* and a fast one, so nobody finds the file stale (LockInv).  Whatever     *)
(* else becomes of the lock, as long as it excludes, an append works on    *)
(* files nobody else touches, and finds and leaves them as it should,      *)
(* wherever the appends before it died (LedgerInv).                        *)
(***************************************************************************)
EXTENDS Ledger, TLAPS, FiniteSetTheorems

-----------------------------------------------------------------------------
(* Types *)

Steps == {"none", "wipe", "reconcile", "mend", "mended", "next", "check", "event",
          "commit", "committed"}

Labels == {"idle", "crashed"} \cup Waiting \cup InLock

LockTypes ==
  /\ lockFile \in {NoFile} \cup [age : Unstamped .. Oldest, by : Proc]
  /\ pc \in [Proc -> Labels]
  /\ deaths \in Nat

AppendTypes ==
  /\ pc \in [Proc -> Labels]
  /\ ledger \in Nat \cup {NoLedger}
  /\ eventFile \in [EventFiles -> Nat]
  /\ step \in [Proc -> Steps]
  /\ position \in [Proc -> Nat]
  /\ event \in [Proc -> Nat]
  /\ acked \subseteq [at : Nat, event : Nat, sure : BOOLEAN]
  /\ reconciled \subseteq Proc /\ overtaken \subseteq reconciled
  /\ appends \in Nat

-----------------------------------------------------------------------------
(* The lock *)

\* While nobody has died, a process in the lock created the file that is there, the
\* creator of that file is in the lock, and its stamp is not stale.
CreatorHolds ==
  deaths = 0 =>
    /\ \A p \in Proc : pc[p] \notin {"crashed", "unlink"}
    /\ \A p \in Proc :
         pc[p] \in InLock => /\ lockFile # NoFile /\ lockFile.by = p
                             /\ pc[p] = "stamp" => lockFile.age = Unstamped
    /\ lockFile # NoFile => pc[lockFile.by] \in InLock
    /\ lockFile.age <= Threshold

LockInv ==
  /\ LockTypes
  /\ CreatorHolds
  /\ deaths # 0 => \E p \in Proc : pc[p] = "crashed"

-----------------------------------------------------------------------------
(* The ledger and the event files, while the lock excludes *)

\* initialize is over before the first append: there is nothing to wipe.
NothingToWipe ==
  /\ (\E p \in Proc : step[p] = "wipe") => appends = 0
  /\ appends = 0 =>
       /\ EventFiles = {} /\ acked = {}
       /\ \A p \in Proc : pc[p] = "idle" /\ step[p] \in {"none", "wipe"}

\* Where in its append a process is, by what it does about the lock.
StepsMatchLabels ==
  \A p \in Proc :
    /\ pc[p] \in Waiting \cup {"stamp"} => step[p] = "reconcile"
    /\ pc[p] = "critical" => step[p] \notin {"none", "wipe"}
    /\ pc[p] \in {"release", "idle"} => step[p] \in {"none", "wipe"}
    /\ pc[p] = "crashed" => step[p] # "wipe"
    /\ step[p] \notin {"none", "wipe"} => event[p] # 0

FilesAreInterval == HighestFile \in Nat /\ EventFiles = 1 .. HighestFile

LedgerBehindFiles == LastPosition(ledger) <= HighestFile

\* Behind the event files the ledger is only while somebody writes, or for processes
\* that were overtaken: all that had reconciled, until somebody reconciles again.
LedgerTrusted ==
  /\ \A q \in reconciled \ overtaken :
       \/ LastPosition(ledger) = HighestFile
       \/ \E h \in Proc : pc[h] = "critical" /\ step[h] \in Writing
  /\ overtaken # {} => \A q \in reconciled \ overtaken :
       pc[q] = "critical" /\ step[q] \in {"mend", "mended"}

\* What an append knows of the files at each of its steps: its position is the one after
\* the ledger's, and unless it was overtaken the one after the last event file, or that
\* of its own file.
Knows(p) ==
  /\ step[p] # "reconcile" => p \in reconciled
  /\ step[p] \in {"mend", "mended"} => position[p] = HighestFile
  /\ step[p] = "check" => position[p] = LastPosition(ledger) + 1
  /\ step[p] = "event" => LastPosition(ledger) = HighestFile - 1
  /\ step[p] \in {"commit", "committed"} => position[p] \in 1 .. HighestFile
  /\ step[p] = "event" \/ (step[p] \in {"commit", "committed"} /\ p \notin overtaken) =>
       /\ HighestFile > 0 /\ position[p] = HighestFile
       /\ \A a \in acked : a.at < HighestFile
  /\ step[p] \in {"commit", "committed"} /\ p \notin overtaken =>
       eventFile[HighestFile] = event[p]

HolderKnows == \A p \in Proc : pc[p] = "critical" => Knows(p)

\* Acknowledged positions have a file.
AckedInFiles == \A a \in acked : a.at \in EventFiles

\* An empty event file is being written, or its writer died.
TornHasWriter ==
  \A n \in EventFiles : eventFile[n] = Torn =>
    \E p \in Proc : /\ pc[p] \in {"critical", "crashed"}
                    /\ step[p] = "event" /\ position[p] = n

LedgerInv ==
  /\ AppendTypes /\ NothingToWipe /\ StepsMatchLabels
  /\ FilesAreInterval /\ LedgerBehindFiles /\ LedgerTrusted
  /\ HolderKnows /\ TornHasWriter
  /\ AckedInFiles /\ AckedEventsStored

-----------------------------------------------------------------------------
(* The lock excludes while nobody has died *)

\* What can be in the lock file.
LEMMA LockFileForms ==
  /\ NoFile.age = -2
  /\ \A a \in Int, p \in Proc : File(a, p).age = a /\ File(a, p).by = p
  /\ \A f \in [age : Unstamped .. Oldest, by : Proc] :
       f # NoFile /\ f.age \in Unstamped .. Oldest /\ f.by \in Proc
<1>1. \A f \in [age : Unstamped .. Oldest, by : Proc] : f.age # NoFile.age
  BY NodeLockAssumption DEF NoFile, Unstamped, Oldest
<1> QED
  BY <1>1 DEF NoFile, File

\* A step changes the lock file and the label of at most one process, or time passes.
LockStep(p) ==
  \/ Request(p) \/ AcquireStep(p) \/ Leave(p) \/ Release(p)
  \/ UNCHANGED lockVars

LEMMA StepsOfTheLock ==
  ASSUME [LedgerNext]_ledgerVars
  PROVE  \/ \E p \in Proc : LockStep(p) /\ deaths' = deaths
         \/ \E p \in Proc : Die(p) /\ deaths' = deaths + 1
         \/ Tick /\ deaths' = deaths
         \/ UNCHANGED <<lockVars, deaths>>
<1>1. ASSUME NEW p \in Proc, LedgerStep(p)
      PROVE  LockStep(p) /\ deaths' = deaths
  <2>1. AcquireLedgerLock(p) => LockStep(p) /\ deaths' = deaths
    BY DEF AcquireLedgerLock, LockStep, counts
  <2>2. Reconcile(p) \/ AllocatePosition(p) => LockStep(p) /\ deaths' = deaths
    BY DEF Reconcile, AllocatePosition, LockStep, counts
  <2>3. RefuseBigEvent(p) \/ CommitLedger(p) => LockStep(p) /\ deaths' = deaths
    BY DEF RefuseBigEvent, CommitLedger, LockStep, counts
  <2>4. CheckEventFile(p) \/ FillEventFile(p) => LockStep(p) /\ deaths' = deaths
    BY DEF CheckEventFile, FillEventFile, LockStep, counts
  <2>5. TruncateLedger(p) \/ MendLedger(p) => LockStep(p) /\ deaths' = deaths
    BY DEF TruncateLedger, MendLedger, LockStep, counts
  <2>6. ReleaseLedgerLock(p) => LockStep(p) /\ deaths' = deaths
    BY DEF ReleaseLedgerLock, LockStep, counts
  <2> QED
    BY <1>1, <2>1, <2>2, <2>3, <2>4, <2>5, <2>6 DEF LedgerStep
<1>2. \A p \in Proc : StartAppend(p) => LockStep(p) /\ deaths' = deaths
  BY DEF StartAppend, LockStep
<1>3. \A p \in Proc : DieInAppend(p) => Die(p) /\ deaths' = deaths + 1
  BY DEF DieInAppend
<1>4. \A p \in Proc : FindNoLedger(p) \/ CreateLedger(p) => UNCHANGED <<lockVars, deaths>>
  BY DEF FindNoLedger, CreateLedger, counts
<1>5. Pass => Tick /\ deaths' = deaths
  BY DEF Pass, counts
<1>6. LedgerQuiet \/ UNCHANGED ledgerVars => UNCHANGED <<lockVars, deaths>>
  BY DEF LedgerQuiet, ledgerVars, counts
<1> QED
  BY <1>1, <1>2, <1>3, <1>4, <1>5, <1>6 DEF LedgerNext

LEMMA LockInvInit == LedgerInit => LockInv
BY LockFileForms, NodeLockAssumption
   DEF LedgerInit, LockInit, LockInv, LockTypes, CreatorHolds, Labels, InLock, Waiting

LEMMA LockStepKeepsLockInv ==
  ASSUME LockInv, FastHolders, NEW p \in Proc, LockStep(p), deaths' = deaths
  PROVE  LockInv'
<1> USE DEF LockInv, LockTypes, CreatorHolds, Labels, InLock, Waiting, Go
<1>1. CASE Request(p)
  BY <1>1 DEF Request
<1>2. CASE Create(p)
  <2>1. CASE lockFile = NoFile
    <3>1. lockFile' \in [age : Unstamped .. Oldest, by : Proc]
      BY <1>2, <2>1, NodeLockAssumption DEF Create, File, Unstamped, Oldest
    <3>2. lockFile'.age = Unstamped /\ lockFile'.by = p /\ lockFile' # NoFile
      BY <1>2, <2>1, <3>1, LockFileForms DEF Create, Unstamped
    <3>3. pc' = [pc EXCEPT ![p] = "stamp"]
      BY <1>2, <2>1 DEF Create
    <3>4. \A q \in Proc : deaths = 0 => pc[q] \notin InLock
      BY <2>1
    <3>5. LockTypes'
      BY <3>1, <3>3
    <3>6. Unstamped <= Threshold
      BY NodeLockAssumption DEF Unstamped
    <3>7. CreatorHolds'
      BY <3>2, <3>3, <3>4, <3>6
    <3>8. \A q \in Proc : pc[q] = "crashed" => pc'[q] = "crashed"
      BY <1>2, <3>3 DEF Create
    <3> QED
      BY <3>5, <3>7, <3>8
  <2>2. CASE lockFile # NoFile
    BY <1>2, <2>2 DEF Create
  <2> QED
    BY <2>1, <2>2
<1>3. CASE Stamp(p)
  <2>1. lockFile' \in [age : Unstamped .. Oldest, by : Proc]
    BY <1>3, NodeLockAssumption DEF Stamp, File, Unstamped, Oldest
  <2>2. lockFile'.age = 0 /\ lockFile'.by = p /\ lockFile' # NoFile
    BY <1>3, <2>1, LockFileForms DEF Stamp
  <2>3. pc[p] = "stamp" /\ pc' = [pc EXCEPT ![p] = "critical"]
    BY <1>3 DEF Stamp
  <2> QED
    BY <2>1, <2>2, <2>3, NodeLockAssumption
<1>4. CASE Inspect(p)
  <2>1. pc' = [pc EXCEPT ![p] = "unlink"] \/ pc' = [pc EXCEPT ![p] = "create"]
    BY <1>4 DEF Inspect
  <2>2. deaths = 0 => ~(lockFile.age > Threshold)
    <3>1. lockFile.age \in Int
      BY LockFileForms DEF Unstamped, Oldest
    <3> QED
      BY <3>1, NodeLockAssumption
  <2>3. deaths = 0 => pc' = [pc EXCEPT ![p] = "create"]
    BY <1>4, <2>2 DEF Inspect
  <2> QED
    BY <1>4, <2>1, <2>3 DEF Inspect
<1>5. CASE Unlink(p)
  BY <1>5, LockFileForms, NodeLockAssumption DEF Unlink
<1>6. CASE Leave(p)
  BY <1>6 DEF Leave
<1>7. CASE Release(p)
  BY <1>7, LockFileForms, NodeLockAssumption DEF Release
<1>8. CASE UNCHANGED lockVars
  BY <1>8 DEF lockVars
<1> QED
  BY <1>1, <1>2, <1>3, <1>4, <1>5, <1>6, <1>7, <1>8 DEF LockStep, AcquireStep

LEMMA DieKeepsLockInv ==
  ASSUME LockInv, NEW p \in Proc, Die(p), deaths' = deaths + 1
  PROVE  LockInv'
BY DEF LockInv, LockTypes, CreatorHolds, Labels, Die, Go

\* A stamp grows stale only when its creator is not in the lock, hence has died.
LEMMA TickKeepsLockInv ==
  ASSUME LockInv, FastHolders, Tick, deaths' = deaths
  PROVE  LockInv'
<1>1. lockFile \in [age : Unstamped .. Oldest, by : Proc]
  BY LockFileForms, NodeLockAssumption DEF LockInv, LockTypes, Tick
<1>2. lockFile' \in [age : Unstamped .. Oldest, by : Proc]
  BY <1>1, NodeLockAssumption DEF Tick, Unstamped, Oldest
<1>3. /\ lockFile'.age = lockFile.age + 1 /\ lockFile'.by = lockFile.by
      /\ lockFile' # NoFile /\ lockFile # NoFile /\ pc' = pc
      /\ lockFile.age \in 0 .. Threshold
  BY <1>1, <1>2, LockFileForms DEF Tick
<1>4. deaths = 0 => lockFile.age # Threshold
  BY <1>1, <1>3 DEF Tick, LockInv, CreatorHolds
<1>5. \A q \in Proc : deaths = 0 => pc[q] # "stamp"
  BY <1>3 DEF LockInv, CreatorHolds, InLock, Unstamped
<1> QED
  BY <1>1, <1>2, <1>3, <1>4, <1>5, NodeLockAssumption DEF LockInv, LockTypes, CreatorHolds

LEMMA LockInvStep ==
  ASSUME LockInv, FastHolders, [LedgerNext]_ledgerVars
  PROVE  LockInv'
<1>1. CASE UNCHANGED <<lockVars, deaths>>
  BY <1>1 DEF LockInv, LockTypes, CreatorHolds, lockVars
<1> QED
  BY <1>1, StepsOfTheLock, LockStepKeepsLockInv, DieKeepsLockInv, TickKeepsLockInv

LEMMA LockInvAlways == ASSUME FastHolders PROVE LedgerSpec => []LockInv
<1>1. LockInv /\ [LedgerNext]_ledgerVars => LockInv'
  BY LockInvStep
<1> QED
  BY <1>1, LockInvInit, PTL DEF LedgerSpec

\* Any number of processes with fast holders exclude each other as long as none of them
\* has died: the time stamps and the breaking of stale locks never break a live one.
THEOREM LockExcludesUntilADeath ==
  ASSUME FastHolders PROVE LedgerSpec => [](deaths = 0 => MutualExclusion)
<1>1. LockInv => (deaths = 0 => MutualExclusion)
  BY DEF LockInv, CreatorHolds, MutualExclusion
<1> QED
  BY <1>1, LockInvAlways, PTL

\* With fast holders and two processes the lock excludes for ever: of two waiters one is
\* needed to take the lock that the other removes, and after a death there is only one.
THEOREM TwoProcessesExclude ==
  ASSUME FastHolders, \E a, b \in Proc : Proc = {a, b}
  PROVE  LedgerSpec => []MutualExclusion
<1>1. LockInv => MutualExclusion
  BY DEF LockInv, CreatorHolds, MutualExclusion, InLock
<1> QED
  BY <1>1, LockInvAlways, PTL

-----------------------------------------------------------------------------
(* The files, while the lock excludes *)

LEMMA HighestOfInterval ==
  ASSUME NEW h \in Nat, NEW S, S = 1 .. h
  PROVE  (IF S = {} THEN 0 ELSE Max(S)) = h
<1>1. CASE h = 0
  BY <1>1
<1>2. CASE h # 0
  <2>1. h \in S /\ \A y \in S : h >= y
    BY <1>2
  <2>2. Max(S) \in S /\ \A y \in S : Max(S) >= y
    BY <2>1 DEF Max
  <2>3. Max(S) >= h /\ h >= Max(S) /\ Max(S) \in Int
    BY <2>1, <2>2
  <2> QED
    BY <2>1, <2>3
<1> QED
  BY <1>1, <1>2

LEMMA LedgerInvInit == LedgerInit => LedgerInv
<1> SUFFICES ASSUME LedgerInit PROVE LedgerInv
  OBVIOUS
<1>1. EventFiles = {} /\ eventFile \in [EventFiles -> Nat]
  BY DEF LedgerInit, EventFiles
<1>2. HighestFile = 0
  BY <1>1 DEF HighestFile
<1> QED
  BY <1>1, <1>2
     DEF LedgerInit, LockInit, LedgerInv, AppendTypes, Labels, InLock, Waiting, Steps,
         NothingToWipe, StepsMatchLabels, FilesAreInterval, LedgerBehindFiles, LastPosition, NoLedger,
         LedgerTrusted, HolderKnows, TornHasWriter, AckedInFiles, AckedEventsStored

\* A step that leaves the files alone and takes nobody into a step of an append that
\* knows something of them.
LEMMA QuietStepKeepsLedgerInv ==
  ASSUME LedgerInv, InitializeFirst, NEW p \in Proc,
         \/ AcquireLedgerLock(p) \/ RefuseBigEvent(p) \/ ReleaseLedgerLock(p)
         \/ StartAppend(p) \/ DieInAppend(p) \/ FindNoLedger(p)
  PROVE  LedgerInv'
<1> USE DEF LedgerInv, Labels, InLock, Waiting, Go, At, To, files, trust, counts
<1>1. /\ UNCHANGED <<ledger, eventFile, acked, position, reconciled>>
      /\ \/ UNCHANGED overtaken
         \/ /\ overtaken' = reconciled /\ DieInAppend(p)
            /\ pc[p] = "critical" /\ step[p] \in Writing
  BY DEF AcquireLedgerLock, RefuseBigEvent, ReleaseLedgerLock, StartAppend, DieInAppend,
         FindNoLedger
<1>2. EventFiles' = EventFiles /\ HighestFile' = HighestFile
  BY <1>1 DEF EventFiles, HighestFile
<1>3. AppendTypes'
  <2> USE DEF AppendTypes, Steps
  <2>1. CASE AcquireLedgerLock(p)
    BY <1>1, <1>2, <2>1 DEF AcquireLedgerLock, AcquireStep, Create, Stamp, Inspect, Unlink
  <2>2. CASE RefuseBigEvent(p) \/ ReleaseLedgerLock(p) \/ DieInAppend(p)
    BY <1>1, <1>2, <2>2 DEF RefuseBigEvent, ReleaseLedgerLock, DieInAppend, Leave, Release, Die
  <2>3. CASE StartAppend(p) \/ FindNoLedger(p)
    BY <1>1, <1>2, <2>3 DEF StartAppend, Request, FindNoLedger, lockVars
  <2> QED
    BY <2>1, <2>2, <2>3
<1>4. NothingToWipe' /\ StepsMatchLabels'
  <2> USE DEF AppendTypes, Steps, NothingToWipe, StepsMatchLabels
  <2>1. CASE AcquireLedgerLock(p)
    BY <1>1, <1>2, <2>1 DEF AcquireLedgerLock, AcquireStep, Create, Stamp, Inspect, Unlink
  <2>2. CASE RefuseBigEvent(p) \/ ReleaseLedgerLock(p) \/ DieInAppend(p)
    BY <1>1, <1>2, <2>2 DEF RefuseBigEvent, ReleaseLedgerLock, DieInAppend, Leave, Release, Die
  <2>3. CASE StartAppend(p)
    BY <1>1, <1>2, <2>3 DEF StartAppend, Request
  <2>4. CASE FindNoLedger(p)
    BY <1>1, <1>2, <2>4 DEF FindNoLedger, lockVars
  <2> QED
    BY <2>1, <2>2, <2>3, <2>4
<1>5. \A q \in Proc : pc'[q] = "critical" =>
        \/ pc[q] = "critical" /\ step'[q] = step[q] /\ event'[q] = event[q]
        \/ step'[q] = "reconcile"
  <2> USE DEF AppendTypes, StepsMatchLabels
  <2>1. CASE AcquireLedgerLock(p)
    BY <1>1, <2>1 DEF AcquireLedgerLock, AcquireStep, Create, Stamp, Inspect, Unlink
  <2>2. CASE RefuseBigEvent(p) \/ ReleaseLedgerLock(p) \/ DieInAppend(p)
    BY <2>2 DEF RefuseBigEvent, ReleaseLedgerLock, DieInAppend, Leave, Release, Die
  <2>3. CASE StartAppend(p) \/ FindNoLedger(p)
    BY <2>3 DEF StartAppend, Request, FindNoLedger, lockVars
  <2> QED
    BY <2>1, <2>2, <2>3
<1>6. HolderKnows'
  <2> SUFFICES ASSUME NEW q \in Proc, pc'[q] = "critical", step'[q] # "reconcile",
                      pc[q] = "critical", step'[q] = step[q], event'[q] = event[q]
               PROVE  Knows(q)'
    BY <1>5 DEF HolderKnows, Knows
  <2>1. q \notin overtaken' => q \notin overtaken \/ q \notin reconciled
    BY <1>1
  <2> QED
    BY <1>1, <1>2, <2>1 DEF HolderKnows, Knows
<1>7. \A q \in Proc : pc[q] \in {"critical", "crashed"} /\ step[q] = "event"
        => pc'[q] \in {"critical", "crashed"} /\ step'[q] = "event"
  <2> USE DEF AppendTypes, StepsMatchLabels
  <2>1. CASE AcquireLedgerLock(p)
    BY <2>1 DEF AcquireLedgerLock, AcquireStep, Create, Stamp, Inspect, Unlink
  <2>2. CASE RefuseBigEvent(p) \/ ReleaseLedgerLock(p) \/ DieInAppend(p)
    BY <2>2 DEF RefuseBigEvent, ReleaseLedgerLock, DieInAppend, Leave, Release, Die
  <2>3. CASE StartAppend(p) \/ FindNoLedger(p)
    BY <2>3 DEF StartAppend, Request, FindNoLedger, lockVars
  <2> QED
    BY <2>1, <2>2, <2>3
<1>8. TornHasWriter'
  BY <1>1, <1>2, <1>7 DEF TornHasWriter
<1>9. ASSUME NEW q \in Proc, pc[q] = "critical", step[q] \in Writing,
             ~(DieInAppend(p) /\ q = p)
      PROVE  pc'[q] = "critical" /\ step'[q] = step[q]
  <2> USE DEF AppendTypes, StepsMatchLabels, Writing
  <2>1. CASE AcquireLedgerLock(p)
    BY <1>9, <2>1 DEF AcquireLedgerLock, AcquireStep, Create, Stamp, Inspect, Unlink
  <2>2. CASE RefuseBigEvent(p) \/ ReleaseLedgerLock(p) \/ DieInAppend(p)
    BY <1>9, <2>2 DEF RefuseBigEvent, ReleaseLedgerLock, DieInAppend, Leave, Release, Die
  <2>3. CASE StartAppend(p) \/ FindNoLedger(p)
    BY <1>9, <2>3 DEF StartAppend, Request, FindNoLedger, lockVars
  <2> QED
    BY <2>1, <2>2, <2>3
<1>10. LedgerTrusted'
  <2>1. CASE overtaken' = overtaken /\ ~(DieInAppend(p) /\ pc[p] = "critical" /\ step[p] \in Writing)
    <3>1. \A q \in Proc : pc[q] = "critical" /\ step[q] \in Writing =>
            pc'[q] = "critical" /\ step'[q] = step[q]
      BY <1>9, <2>1
    <3>2. \A q \in reconciled : q \in Proc
      BY DEF AppendTypes
    <3> QED
      BY <1>1, <1>2, <2>1, <3>1, <3>2 DEF LedgerTrusted, LastPosition, Writing
  <2>2. CASE overtaken' = reconciled
    BY <1>1, <2>2 DEF LedgerTrusted
  <2>3. DieInAppend(p) /\ pc[p] = "critical" /\ step[p] \in Writing => overtaken' = reconciled
    BY DEF DieInAppend
  <2> QED
    BY <1>1, <2>1, <2>2, <2>3
<1> QED
  BY <1>1, <1>2, <1>3, <1>4, <1>6, <1>8, <1>10
     DEF FilesAreInterval, LedgerBehindFiles, LastPosition, AckedInFiles, AckedEventsStored

\* initialize finds no ledger only before the first append, when there is nothing else.
LEMMA CreateLedgerKeepsLedgerInv ==
  ASSUME LedgerInv, NEW p \in Proc, CreateLedger(p)
  PROVE  LedgerInv'
<1> USE DEF LedgerInv, CreateLedger, To, trust, counts, lockVars
<1>1. EventFiles = {} /\ eventFile' = eventFile /\ acked' = {}
  BY DEF NothingToWipe
<1>2. EventFiles' = {} /\ HighestFile' = 0
  BY <1>1 DEF EventFiles, HighestFile
<1>3. AppendTypes'
  BY <1>1, <1>2 DEF AppendTypes, Steps, EmptyLedger
<1>4. NothingToWipe' /\ StepsMatchLabels' /\ HolderKnows'
  BY <1>1, <1>2 DEF AppendTypes, NothingToWipe, StepsMatchLabels, HolderKnows
<1>5. LedgerTrusted'
  <2>1. \A q \in reconciled : q \in Proc /\ pc[q] = "idle"
    BY DEF AppendTypes, NothingToWipe
  <2> QED
    BY <1>2, <2>1 DEF LedgerTrusted, LastPosition, EmptyLedger, NoLedger
<1> QED
  BY <1>1, <1>2, <1>3, <1>4, <1>5
     DEF FilesAreInterval, LedgerBehindFiles, LastPosition, EmptyLedger, TornHasWriter,
         AckedInFiles, AckedEventsStored

\* What a step of the holder that stays in the lock leaves alone.
LEMMA HolderStep ==
  ASSUME LedgerInv, NEW p \in Proc, pc[p] = "critical", pc' = pc, event' = event,
         appends' = appends, NEW s \in Steps, s \notin {"none", "wipe"}, To(p, s)
  PROVE  NothingToWipe' /\ StepsMatchLabels' /\ step' \in [Proc -> Steps] /\ step'[p] = s
BY DEF LedgerInv, AppendTypes, NothingToWipe, StepsMatchLabels, To, Waiting

LEMMA LedgerWriteKeepsLedgerInv ==
  ASSUME LedgerInv, MutualExclusion, NEW p \in Proc,
         Reconcile(p) \/ AllocatePosition(p) \/ TruncateLedger(p) \/ MendLedger(p)
  PROVE  LedgerInv'
<1> USE DEF LedgerInv, At, files, trust, counts, lockVars
<1>1. /\ pc[p] = "critical" /\ pc' = pc
      /\ UNCHANGED <<eventFile, event, acked, appends>>
  BY DEF Reconcile, AllocatePosition, TruncateLedger, MendLedger
<1>2. EventFiles' = EventFiles /\ HighestFile' = HighestFile
  BY <1>1 DEF EventFiles, HighestFile
<1>3. \E s \in Steps : s \notin {"none", "wipe", "event"} /\ To(p, s)
  BY DEF Reconcile, AllocatePosition, TruncateLedger, MendLedger, Steps
<1>4. /\ NothingToWipe' /\ StepsMatchLabels' /\ step' \in [Proc -> Steps]
      /\ \A q \in Proc \ {p} : pc[q] # "critical" /\ step'[q] = step[q]
  <2>1. \A q \in Proc \ {p} : pc[q] # "critical"
    BY <1>1 DEF MutualExclusion, InLock
  <2>2. \A q \in Proc \ {p} : step'[q] = step[q]
    BY <1>3 DEF To, AppendTypes
  <2> QED
    BY <1>1, <1>3, <2>1, <2>2, HolderStep
<1>5. HighestFile \in Nat /\ LastPosition(ledger) \in Nat /\ LastPosition(ledger) <= HighestFile
  BY DEF FilesAreInterval, LastPosition, NoLedger, AppendTypes, LedgerBehindFiles
<1>6. /\ ledger' \in Nat \cup {NoLedger} /\ LastPosition(ledger') <= HighestFile
      /\ position' \in [Proc -> Nat] /\ \A q \in Proc \ {p} : position'[q] = position[q]
      /\ step[p] # "event" /\ Knows(p)'
  <2> USE <1>1, <1>2, <1>5 DEF AppendTypes, HolderKnows, Knows, To
  <2>1. CASE Reconcile(p)
    BY <2>1 DEF Reconcile
  <2>2. CASE AllocatePosition(p)
    BY <2>2 DEF AllocatePosition
  <2>3. CASE TruncateLedger(p)
    BY <2>3 DEF TruncateLedger, EmptyLedger, LastPosition
  <2>4. CASE MendLedger(p)
    BY <2>4 DEF MendLedger, LastPosition, NoLedger
  <2> QED
    BY <2>1, <2>2, <2>3, <2>4
<1>7. HolderKnows'
  BY <1>1, <1>4, <1>6 DEF HolderKnows
<1>8. TornHasWriter'
  BY <1>1, <1>2, <1>4, <1>6 DEF TornHasWriter
<1>9. reconciled' \subseteq Proc /\ overtaken' \subseteq reconciled' /\ LedgerTrusted'
  <2> USE <1>1, <1>2, <1>5
  <2>1. /\ reconciled \subseteq Proc /\ overtaken \subseteq reconciled
        /\ \A q \in Proc : pc[q] = "critical" => q = p
        /\ p \in reconciled \ overtaken =>
             LastPosition(ledger) = HighestFile \/ step[p] \in Writing
    BY <1>4 DEF AppendTypes, LedgerTrusted
  <2>2. CASE Reconcile(p) /\ p \in reconciled
    <3>1. UNCHANGED <<ledger, reconciled, overtaken>> /\ step[p] = "reconcile"
      BY <2>1, <2>2 DEF Reconcile
    <3> QED
      BY <2>1, <3>1 DEF LedgerTrusted, Writing
  <2>3. CASE Reconcile(p) /\ p \notin reconciled /\ HighestFile > LastPosition(ledger)
    <3>1. /\ UNCHANGED <<ledger, overtaken>> /\ reconciled' = reconciled \cup {p}
          /\ step[p] = "reconcile" /\ step'[p] = "mend"
      BY <2>3 DEF Reconcile, To, AppendTypes
    <3>2. overtaken # {} => \A q \in reconciled \ overtaken : FALSE
      BY <2>1, <3>1 DEF LedgerTrusted
    <3> QED
      BY <2>1, <3>1, <3>2 DEF LedgerTrusted, Writing
  <2>4. CASE Reconcile(p) /\ p \notin reconciled /\ HighestFile <= LastPosition(ledger)
    <3>1. UNCHANGED ledger /\ reconciled' = reconciled \cup {p} /\ overtaken' = {}
      BY <2>4 DEF Reconcile
    <3> QED
      BY <2>1, <2>4, <3>1 DEF LedgerTrusted
  <2>5. CASE AllocatePosition(p)
    <3>1. UNCHANGED <<ledger, reconciled, overtaken>> /\ step[p] = "next"
      BY <2>5 DEF AllocatePosition
    <3> QED
      BY <2>1, <3>1 DEF LedgerTrusted, Writing
  <2>6. CASE TruncateLedger(p)
    <3>1. /\ UNCHANGED <<reconciled, overtaken>>
          /\ \/ step[p] = "mend" /\ step'[p] = "mended"
             \/ step[p] = "commit" /\ step'[p] = "committed"
      BY <2>6 DEF TruncateLedger, To, AppendTypes
    <3> QED
      BY <2>1, <3>1 DEF LedgerTrusted, Writing
  <2>7. CASE MendLedger(p)
    <3>1. position[p] = HighestFile /\ ledger' = HighestFile /\ overtaken' = {} /\ reconciled' = reconciled
      BY <2>7 DEF MendLedger, HolderKnows, Knows
    <3> QED
      BY <2>1, <3>1 DEF LedgerTrusted, LastPosition, NoLedger
  <2> QED
    BY <1>5, <2>2, <2>3, <2>4, <2>5, <2>6, <2>7
<1> QED
  BY <1>1, <1>2, <1>4, <1>5, <1>6, <1>7, <1>8, <1>9
     DEF AppendTypes, FilesAreInterval, LedgerBehindFiles, LastPosition, AckedInFiles, AckedEventsStored

\* A holder that goes on to write an event or its position leaves the ledger trusted as
\* far as it was.
LEMMA WriterKeepsTrust ==
  ASSUME LedgerTrusted, reconciled \subseteq Proc, UNCHANGED <<pc, reconciled, overtaken>>,
         NEW p \in Proc, pc[p] = "critical", \A q \in Proc \ {p} : pc[q] # "critical",
         step[p] \notin {"mend", "mended"}, step'[p] \in Writing
  PROVE  LedgerTrusted'
<1>1. \E q \in Proc : pc'[q] = "critical" /\ step'[q] \in Writing
  OBVIOUS
<1>2. overtaken # {} => \A q \in reconciled \ overtaken : FALSE
  <2> SUFFICES ASSUME overtaken # {}, NEW q \in reconciled \ overtaken PROVE FALSE
    OBVIOUS
  <2>1. pc[q] = "critical" /\ step[q] \in {"mend", "mended"}
    BY DEF LedgerTrusted
  <2> QED
    BY <2>1
<1> QED
  BY <1>1, <1>2 DEF LedgerTrusted

LEMMA EventWriteKeepsLedgerInv ==
  ASSUME LedgerInv, MutualExclusion, NEW p \in Proc,
         CheckEventFile(p) \/ FillEventFile(p)
  PROVE  LedgerInv'
<1> USE DEF LedgerInv, At, trust, counts, lockVars
<1> DEFINE h == HighestFile
<1>1. /\ pc[p] = "critical" /\ pc' = pc
      /\ UNCHANGED <<ledger, position, event, reconciled, overtaken, acked, appends>>
  BY DEF CheckEventFile, FillEventFile
<1>2. /\ h \in Nat /\ EventFiles = 1 .. h
      /\ eventFile \in [EventFiles -> Nat] /\ event[p] \in Nat \ {0}
      /\ \A a \in acked : a.at \in EventFiles
      /\ \A a \in acked : a.sure => eventFile[a.at] = a.event
  BY <1>1 DEF FilesAreInterval, AppendTypes, AckedInFiles, AckedEventsStored, EventFiles, StepsMatchLabels
<1>3. \A q \in Proc \ {p} : pc[q] # "critical"
  BY <1>1 DEF MutualExclusion, InLock
<1> DEFINE L == LastPosition(ledger)
<1>6. L \in Nat /\ L <= h
  BY <1>2 DEF LastPosition, NoLedger, AppendTypes, LedgerBehindFiles
<1>7. CASE CheckEventFile(p) /\ EventFileExists(position[p])
  <2>1. /\ position[p] = L + 1 /\ position[p] \in 1 .. h /\ p \in reconciled
        /\ step[p] = "check" /\ eventFile' = eventFile /\ To(p, "commit")
    BY <1>2, <1>6, <1>7 DEF CheckEventFile, HolderKnows, Knows, EventFileExists
  <2>2. p \in overtaken
    <3>1. L # h /\ \A q \in Proc : pc[q] = "critical" => step[q] \notin Writing
      BY <1>2, <1>3, <1>6, <2>1 DEF Writing
    <3> QED
      BY <2>1, <3>1 DEF LedgerTrusted
  <2>3. EventFiles' = EventFiles /\ HighestFile' = h
    BY <2>1 DEF EventFiles, HighestFile
  <2>4. /\ NothingToWipe' /\ StepsMatchLabels' /\ step' \in [Proc -> Steps]
        /\ step'[p] = "commit" /\ \A q \in Proc \ {p} : step'[q] = step[q]
    BY <1>1, <2>1, HolderStep DEF Steps, To, AppendTypes
  <2>5. HolderKnows'
    BY <1>1, <1>3, <2>1, <2>2, <2>3, <2>4 DEF HolderKnows, Knows
  <2>6. TornHasWriter'
    BY <1>1, <2>1, <2>3, <2>4 DEF TornHasWriter
  <2>7. LedgerTrusted'
    BY <1>1, <1>3, <2>1, <2>4, WriterKeepsTrust DEF AppendTypes, Writing
  <2> QED
    BY <1>1, <1>2, <2>1, <2>3, <2>4, <2>5, <2>6, <2>7
       DEF AppendTypes, FilesAreInterval, LedgerBehindFiles, LastPosition, AckedInFiles, AckedEventsStored
<1>4. CASE CheckEventFile(p) /\ ~EventFileExists(position[p])
  <2>1. position[p] = h + 1 /\ L = h
    <3>1. position[p] = L + 1
      BY <1>4 DEF CheckEventFile, HolderKnows, Knows
    <3> QED
      BY <1>2, <1>4, <1>6, <3>1 DEF EventFileExists
  <2>2. ~EventFileExists(position[p])
    BY <1>4
  <2>3. eventFile' = [n \in 1 .. h + 1 |-> IF n = h + 1 THEN Torn ELSE eventFile[n]]
    <3>1. DOMAIN eventFile \cup {h + 1} = 1 .. h + 1
      BY <1>2 DEF EventFiles
    <3> QED
      BY <1>4, <2>1, <2>2, <3>1 DEF CheckEventFile
  <2>4. EventFiles' = 1 .. h + 1 /\ HighestFile' = h + 1
    <3>1. h + 1 \in Nat /\ EventFiles' = 1 .. h + 1
      BY <1>2, <2>3 DEF EventFiles
    <3>2. HighestFile' = h + 1
      BY <3>1, HighestOfInterval DEF HighestFile
    <3> QED
      BY <3>1, <3>2
  <2>5. /\ NothingToWipe' /\ StepsMatchLabels' /\ step' \in [Proc -> Steps]
        /\ step'[p] = "event" /\ \A q \in Proc \ {p} : step'[q] = step[q]
    <3>1. To(p, "event")
      BY <1>4, <2>2 DEF CheckEventFile
    <3> QED
      BY <1>1, <3>1, HolderStep DEF Steps, To, AppendTypes
  <2>6. AppendTypes'
    BY <1>1, <1>2, <2>3, <2>4, <2>5 DEF AppendTypes, Torn
  <2>7. HolderKnows'
    <3>1. LastPosition(ledger') = HighestFile' - 1 /\ p \in reconciled
      <4>1. LastPosition(ledger') = LastPosition(ledger)
        BY <1>1
      <4>2. p \in reconciled
        BY <1>1, <1>4 DEF CheckEventFile, HolderKnows, Knows
      <4> QED
        BY <1>2, <2>1, <2>4, <4>1, <4>2
    <3>2. /\ HighestFile' > 0 /\ position'[p] = HighestFile'
          /\ \A a \in acked' : a.at < HighestFile'
      BY <1>1, <1>2, <2>1, <2>4
    <3> QED
      BY <1>1, <1>3, <2>5, <3>1, <3>2 DEF HolderKnows, Knows
  <2>8. TornHasWriter'
    <3> SUFFICES ASSUME NEW n \in EventFiles', eventFile'[n] = Torn
                 PROVE  \E q \in Proc : /\ pc[q] \in {"critical", "crashed"}
                                        /\ step'[q] = "event" /\ position[q] = n
      BY <1>1 DEF TornHasWriter
    <3>1. CASE n = h + 1
      BY <1>1, <2>1, <2>5, <3>1
    <3>2. CASE n # h + 1
      <4>1. n \in EventFiles /\ eventFile[n] = Torn
        BY <1>2, <2>3, <2>4, <3>2
      <4>2. PICK q \in Proc : /\ pc[q] \in {"critical", "crashed"}
                              /\ step[q] = "event" /\ position[q] = n
        BY <4>1 DEF TornHasWriter
      <4>3. q # p
        BY <4>2, <2>1, <3>2
      <4> QED
        BY <4>2, <4>3, <2>5
    <3> QED
      BY <3>1, <3>2
  <2>9. AckedInFiles' /\ AckedEventsStored'
    BY <1>1, <1>2, <2>3, <2>4 DEF AckedInFiles, AckedEventsStored, EventFiles
  <2>10. LedgerTrusted'
    <3>1. pc'[p] = "critical" /\ step'[p] \in Writing
      BY <1>1, <2>5 DEF Writing
    <3>2. step[p] = "check"
      BY <1>4 DEF CheckEventFile
    <3> QED
      BY <1>1, <1>3, <3>1, <3>2, WriterKeepsTrust DEF AppendTypes
  <2> QED
    BY <1>1, <1>2, <2>1, <2>4, <2>5, <2>6, <2>7, <2>8, <2>9, <2>10
       DEF FilesAreInterval, LedgerBehindFiles, LastPosition
<1>5. CASE FillEventFile(p)
  <2>1. /\ position[p] = h /\ h > 0 /\ LastPosition(ledger) = h - 1
        /\ \A a \in acked : a.at < h
        /\ step[p] = "event" /\ p \in reconciled
    BY <1>5 DEF FillEventFile, HolderKnows, Knows
  <2>2. eventFile' = [eventFile EXCEPT ![h] = event[p]]
    BY <1>5, <2>1 DEF FillEventFile
  <2>3. /\ EventFiles' = EventFiles /\ HighestFile' = h
        /\ eventFile' \in [EventFiles -> Nat] /\ eventFile'[h] = event[p]
        /\ \A n \in EventFiles : n # h => eventFile'[n] = eventFile[n]
    BY <1>2, <2>1, <2>2 DEF EventFiles, HighestFile
  <2>4. /\ NothingToWipe' /\ StepsMatchLabels' /\ step' \in [Proc -> Steps]
        /\ step'[p] = "commit" /\ \A q \in Proc \ {p} : step'[q] = step[q]
    <3>1. To(p, "commit")
      BY <1>5 DEF FillEventFile
    <3> QED
      BY <1>1, <3>1, HolderStep DEF Steps, To, AppendTypes
  <2>5. AppendTypes'
    BY <1>1, <2>3, <2>4 DEF AppendTypes
  <2>6. HolderKnows'
    BY <1>1, <1>2, <1>3, <2>1, <2>3, <2>4 DEF HolderKnows, Knows, LastPosition
  <2>7. TornHasWriter'
    <3> SUFFICES ASSUME NEW n \in EventFiles', eventFile'[n] = Torn
                 PROVE  \E q \in Proc : /\ pc[q] \in {"critical", "crashed"}
                                        /\ step'[q] = "event" /\ position[q] = n
      BY <1>1 DEF TornHasWriter
    <3>1. n # h /\ n \in EventFiles /\ eventFile[n] = Torn
      BY <1>2, <2>3 DEF Torn
    <3>2. PICK q \in Proc : /\ pc[q] \in {"critical", "crashed"}
                            /\ step[q] = "event" /\ position[q] = n
      BY <3>1 DEF TornHasWriter
    <3>3. q # p
      BY <3>1, <3>2, <2>1
    <3> QED
      BY <3>2, <3>3, <2>4
  <2>8. AckedInFiles' /\ AckedEventsStored'
    BY <1>1, <1>2, <2>1, <2>3 DEF AckedInFiles, AckedEventsStored, EventFiles
  <2>9. LedgerTrusted'
    <3>1. pc'[p] = "critical" /\ step'[p] \in Writing
      BY <1>1, <2>4 DEF Writing
    <3> QED
      BY <1>1, <1>3, <2>1, <3>1, WriterKeepsTrust DEF AppendTypes
  <2> QED
    BY <1>1, <1>2, <2>1, <2>3, <2>4, <2>5, <2>6, <2>7, <2>8, <2>9
       DEF FilesAreInterval, LedgerBehindFiles, LastPosition
<1> QED
  BY <1>4, <1>5, <1>7

\* The file of an append that was not overtaken is the last one, and its event is in it.
LEMMA CommitKeepsLedgerInv ==
  ASSUME LedgerInv, MutualExclusion, NEW p \in Proc, CommitLedger(p)
  PROVE  LedgerInv' /\ \A a \in acked' \ acked : a.sure => \A b \in acked : a.at > b.at
<1> USE DEF LedgerInv, At, trust, counts, CommitLedger, Leave, Go, To
<1> DEFINE mine == Acked(position[p], event[p], p \notin overtaken)
<1>1. /\ pc[p] = "critical" /\ step[p] = "committed"
      /\ pc' = [pc EXCEPT ![p] = "release"] /\ step' = [step EXCEPT ![p] = "none"]
      /\ UNCHANGED <<eventFile, position, event, reconciled, overtaken, appends>>
  OBVIOUS
<1>2. /\ HighestFile \in Nat /\ EventFiles = 1 .. HighestFile
      /\ position[p] \in 1 .. HighestFile /\ p \in reconciled
      /\ p \notin overtaken => /\ position[p] = HighestFile
                              /\ eventFile[HighestFile] = event[p]
                              /\ \A a \in acked : a.at < HighestFile
  BY <1>1 DEF FilesAreInterval, HolderKnows, Knows
<1>3. EventFiles' = EventFiles /\ HighestFile' = HighestFile
  BY <1>1 DEF EventFiles, HighestFile
<1>4. acked' = acked \cup {mine} /\ ledger' = position[p]
  BY <1>1
<1>5. /\ mine \in [at : Nat, event : Nat, sure : BOOLEAN]
      /\ mine.at = position[p] /\ mine.event = event[p] /\ mine.sure = (p \notin overtaken)
  BY <1>2 DEF AppendTypes, Acked
<1> HIDE DEF mine
<1>6. AppendTypes'
  BY <1>1, <1>2, <1>3, <1>4, <1>5 DEF AppendTypes, Labels, InLock, Steps
<1>7. NothingToWipe' /\ StepsMatchLabels'
  BY <1>1 DEF AppendTypes, NothingToWipe, StepsMatchLabels, Waiting
<1>8. HolderKnows'
  <2>1. \A q \in Proc : pc'[q] # "critical"
    BY <1>1 DEF MutualExclusion, InLock, AppendTypes
  <2> QED
    BY <2>1 DEF HolderKnows
<1>9. TornHasWriter'
  BY <1>1, <1>3 DEF TornHasWriter, AppendTypes
<1>10. AckedInFiles' /\ AckedEventsStored'
  BY <1>1, <1>2, <1>3, <1>4, <1>5 DEF AckedInFiles, AckedEventsStored, EventFiles
<1>11. LedgerTrusted'
  <2>1. CASE p \notin overtaken
    <3>1. LastPosition(ledger') = HighestFile'
      BY <1>2, <1>3, <1>4, <2>1 DEF LastPosition, NoLedger
    <3>2. overtaken = {}
      BY <1>1, <1>2, <2>1 DEF LedgerTrusted
    <3> QED
      BY <1>1, <3>1, <3>2 DEF LedgerTrusted
  <2>2. CASE p \in overtaken
    <3>1. \A q \in Proc : pc[q] = "critical" => q = p
      BY <1>1 DEF MutualExclusion, InLock
    <3>2. \A q \in reconciled \ overtaken : FALSE
      BY <2>2, <3>1 DEF LedgerTrusted, AppendTypes
    <3> QED
      BY <1>1, <3>2 DEF LedgerTrusted
  <2> QED
    BY <2>1, <2>2
<1>12. \A a \in acked' \ acked : a.sure => \A b \in acked : a.at > b.at
  <2>1. \A b \in acked : b.at \in Nat
    BY DEF AppendTypes
  <2> QED
    BY <1>2, <1>4, <1>5, <2>1
<1> QED
  BY <1>2, <1>3, <1>4, <1>6, <1>7, <1>8, <1>9, <1>10, <1>11, <1>12
     DEF FilesAreInterval, LedgerBehindFiles, LastPosition

\* Where the lock has excluded so far, an append finds and leaves the files as it should,
\* and the position it is acknowledged with is above all that were acknowledged before.
LEMMA LedgerInvStep ==
  ASSUME LedgerInv, InitializeFirst, MutualExclusion, [LedgerNext]_ledgerVars
  PROVE  LedgerInv' /\ \A a \in acked' \ acked : a.sure => \A b \in acked : a.at > b.at
<1>1. ASSUME NEW p \in Proc, CommitLedger(p)
      PROVE  LedgerInv' /\ \A a \in acked' \ acked : a.sure => \A b \in acked : a.at > b.at
  BY <1>1, CommitKeepsLedgerInv
<1>2. ASSUME NEW p \in Proc, LedgerStep(p), ~CommitLedger(p)
      PROVE  LedgerInv' /\ acked' = acked
  <2>1. LedgerInv'
    BY <1>2, QuietStepKeepsLedgerInv, LedgerWriteKeepsLedgerInv, EventWriteKeepsLedgerInv
       DEF LedgerStep
  <2>2. acked' = acked
    BY <1>2 DEF LedgerStep, AcquireLedgerLock, Reconcile, AllocatePosition, RefuseBigEvent,
                CheckEventFile, FillEventFile, TruncateLedger, MendLedger, ReleaseLedgerLock
  <2> QED
    BY <2>1, <2>2
<1>3. ASSUME NEW p \in Proc, StartAppend(p) \/ DieInAppend(p) \/ FindNoLedger(p)
      PROVE  LedgerInv' /\ acked' = acked
  BY <1>3, QuietStepKeepsLedgerInv DEF StartAppend, DieInAppend, FindNoLedger
<1>4. ASSUME NEW p \in Proc, CreateLedger(p)
      PROVE  LedgerInv' /\ acked' = acked
  BY <1>4, CreateLedgerKeepsLedgerInv DEF CreateLedger
<1>5. CASE Pass \/ LedgerQuiet \/ UNCHANGED ledgerVars
  <2>1. UNCHANGED <<pc, files, step, position, event, trust, acked, counts>>
    BY <1>5 DEF Pass, Tick, LedgerQuiet, ledgerVars, lockVars
  <2>2. EventFiles' = EventFiles /\ HighestFile' = HighestFile
    BY <2>1 DEF EventFiles, HighestFile, files
  <2>3. AppendTypes' /\ NothingToWipe' /\ StepsMatchLabels'
    BY <2>1, <2>2 DEF files, trust, counts, LedgerInv, AppendTypes, NothingToWipe, StepsMatchLabels
  <2>4. FilesAreInterval' /\ LedgerBehindFiles'
    BY <2>1, <2>2 DEF files, LedgerInv, FilesAreInterval, LedgerBehindFiles, LastPosition
  <2>5. HolderKnows' /\ LedgerTrusted'
    BY <2>1, <2>2 DEF files, trust, LedgerInv, HolderKnows, Knows, LedgerTrusted, LastPosition
  <2>6. TornHasWriter' /\ AckedInFiles' /\ AckedEventsStored'
    BY <2>1, <2>2 DEF files, LedgerInv, TornHasWriter, AckedInFiles, AckedEventsStored
  <2> QED
    BY <2>1, <2>3, <2>4, <2>5, <2>6 DEF LedgerInv
<1> QED
  BY <1>1, <1>2, <1>3, <1>4, <1>5 DEF LedgerNext

LEMMA LedgerInvAlways ==
  ASSUME InitializeFirst PROVE LedgerSpec /\ []MutualExclusion => []LedgerInv
<1>1. LedgerInv /\ MutualExclusion /\ [LedgerNext]_ledgerVars => LedgerInv'
  BY LedgerInvStep
<1> QED
  BY <1>1, LedgerInvInit, PTL DEF LedgerSpec

\* No position up to the ledger's lacks an event that its writer did not die writing.
LEMMA LedgerInvImpliesNoGap == LedgerInv => FilesWithoutGap
<1> SUFFICES ASSUME LedgerInv PROVE FilesWithoutGap
  OBVIOUS
<1> USE DEF LedgerInv
<1>1. HighestFile \in Nat /\ EventFiles = 1 .. HighestFile
  BY DEF FilesAreInterval
<1>2. ASSUME NEW n \in 1 .. LastPosition(ledger)
      PROVE  /\ n \in EventFiles
             /\ \/ Readable(n)
                \/ \E p \in Proc : pc[p] = "crashed" /\ step[p] = "event" /\ position[p] = n
  <2>1. LastPosition(ledger) \in Nat
    BY DEF LastPosition, NoLedger, AppendTypes
  <2>2. n \in EventFiles
    BY <1>1, <2>1 DEF LedgerBehindFiles
  <2>3. CASE eventFile[n] = Torn
    <3>1. PICK p \in Proc : /\ pc[p] \in {"critical", "crashed"}
                            /\ step[p] = "event" /\ position[p] = n
      BY <2>2, <2>3 DEF TornHasWriter
    <3>2. pc[p] # "critical"
      BY <1>1, <2>1, <3>1 DEF HolderKnows, Knows
    <3> QED
      BY <2>2, <3>1, <3>2
  <2> QED
    BY <2>2, <2>3 DEF Readable, EventFiles
<1> QED
  BY <1>1, <1>2 DEF FilesWithoutGap

\* Under any lock that excludes, whoever dies between which of the writes: an event
\* acknowledged to a process that was not overtaken stays where it is for good.  That
\* is every event acknowledged to a process before another one dies, and to one that
\* reconciles after the death.
THEOREM ExclusionKeepsEvents ==
  ASSUME InitializeFirst PROVE LedgerSpec /\ []MutualExclusion => []AckedEventsStored
<1>1. LedgerInv => AckedEventsStored
  BY DEF LedgerInv
<1> QED
  BY <1>1, LedgerInvAlways, PTL

\* Positions are used without a gap and the ledger is never ahead of the event files,
\* under any lock that excludes.
THEOREM ExclusionLeavesNoGap ==
  ASSUME InitializeFirst PROVE LedgerSpec /\ []MutualExclusion => []FilesWithoutGap
BY LedgerInvImpliesNoGap, LedgerInvAlways, PTL

\* Every position acknowledged to a process that was not overtaken is above all
\* acknowledged before it, under any lock that excludes.
THEOREM ExclusionOrdersPositions ==
  ASSUME InitializeFirst PROVE LedgerSpec /\ []MutualExclusion => PositionsGrow
<1>1. LedgerInv /\ MutualExclusion /\ [LedgerNext]_ledgerVars =>
        [\A a \in acked' \ acked : a.sure => \A b \in acked : a.at > b.at]_ledgerVars
  BY LedgerInvStep
<1> QED
  BY <1>1, LedgerInvAlways, PTL DEF LedgerSpec, PositionsGrow

-----------------------------------------------------------------------------
(* The lock as its users know it *)

\* A step changes the label of one process at most.
LEMMA StepMovesOneProcess ==
  ASSUME pc \in [Proc -> Labels], [LedgerNext]_ledgerVars
  PROVE  /\ pc' \in [Proc -> Labels]
         /\ pc' = pc \/ \E p \in Proc : \A q \in Proc \ {p} : pc'[q] = pc[q]
<1> USE DEF Go
<1>1. ASSUME NEW p \in Proc, LockStep(p) \/ Die(p)
      PROVE  pc' \in [Proc -> Labels] /\ \A q \in Proc \ {p} : pc'[q] = pc[q]
  BY <1>1 DEF LockStep, AcquireStep, Request, Create, Stamp, Inspect, Unlink, Leave,
              Release, Die, lockVars, Labels, InLock, Waiting
<1>2. Tick \/ UNCHANGED <<lockVars, deaths>> => pc' = pc
  BY DEF Tick, lockVars
<1> QED
  BY <1>1, <1>2, StepsOfTheLock

LEMMA LabelsAlways == LedgerSpec => [](pc \in [Proc -> Labels])
<1>1. LedgerInit => pc \in [Proc -> Labels]
  BY DEF LedgerInit, LockInit, Labels
<1>2. pc \in [Proc -> Labels] /\ [LedgerNext]_ledgerVars => (pc \in [Proc -> Labels])'
  BY StepMovesOneProcess
<1> QED
  BY <1>1, <1>2, PTL DEF LedgerSpec

\* Exclusion in every state is all it takes for the lock file to be a lock: nobody is
\* ever replaced by a single step, it has to leave, or die, before another gets in.
THEOREM ExclusionMakesALock == LedgerSpec /\ []MutualExclusion => ImplementsStreamLock
<1> DEFINE owners == {p \in Proc : pc[p] \in InLock}
<1>1. LedgerInit => owners = {}
  BY DEF LedgerInit, LockInit, InLock
<1>2. ASSUME pc \in [Proc -> Labels], MutualExclusion, MutualExclusion',
             [LedgerNext]_ledgerVars
      PROVE  [StreamLock!StreamLockNext]_owners
  <2>1. CASE pc' = pc
    BY <2>1
  <2>2. ASSUME NEW p \in Proc, \A q \in Proc \ {p} : pc'[q] = pc[q]
        PROVE  [StreamLock!StreamLockNext]_owners
    <3>1. CASE pc[p] \in InLock /\ pc'[p] \notin InLock
      <4>1. owners = {p} /\ owners' = {}
        BY <1>2, <2>2, <3>1 DEF MutualExclusion
      <4> QED
        BY <4>1 DEF StreamLock!StreamLockNext, StreamLock!Vacate
    <3>2. CASE pc[p] \notin InLock /\ pc'[p] \in InLock
      <4>1. owners = {} /\ owners' = {p}
        BY <1>2, <2>2, <3>2 DEF MutualExclusion
      <4> QED
        BY <4>1 DEF StreamLock!StreamLockNext, StreamLock!Acquire
    <3>3. CASE pc[p] \in InLock <=> pc'[p] \in InLock
      BY <2>2, <3>3
    <3> QED
      BY <3>1, <3>2, <3>3
  <2> QED
    BY <1>2, <2>1, <2>2, StepMovesOneProcess
<1> QED
  BY <1>1, <1>2, LabelsAlways, PTL
     DEF LedgerSpec, ImplementsStreamLock, StreamLock!StreamLockSpec,
         StreamLock!StreamLockInit

-----------------------------------------------------------------------------
(* Both halves together *)

\* The bounds under which the lock file of the Node backend is a lock.
SafeLock == FastHolders /\ (MaxDeaths = 0 \/ \E a, b \in Proc : Proc = {a, b})

\* With fast holders, two processes, or any number of which none dies, exclude each other.
THEOREM SafeLockExcludes == ASSUME SafeLock PROVE LedgerSpec => []MutualExclusion
<1>1. CASE \E a, b \in Proc : Proc = {a, b}
  BY <1>1, TwoProcessesExclude DEF SafeLock
<1>2. CASE MaxDeaths = 0
  <2>1. LedgerInit => deaths = 0
    BY DEF LedgerInit
  <2>2. deaths = 0 /\ [LedgerNext]_ledgerVars => (deaths = 0)'
    <3>1. \A p \in Proc : ~DieInAppend(p) \/ deaths # 0
      BY <1>2 DEF DieInAppend
    <3>2. ASSUME NEW p \in Proc, LedgerStep(p) PROVE deaths' = deaths
      BY <3>2 DEF LedgerStep, AcquireLedgerLock, Reconcile, AllocatePosition,
                  RefuseBigEvent, CheckEventFile, FillEventFile, TruncateLedger, MendLedger,
                  CommitLedger, ReleaseLedgerLock, counts
    <3>3. ASSUME NEW p \in Proc, StartAppend(p) \/ FindNoLedger(p) \/ CreateLedger(p)
          PROVE  deaths' = deaths
      BY <3>3 DEF StartAppend, FindNoLedger, CreateLedger, counts
    <3>4. Pass \/ LedgerQuiet \/ UNCHANGED ledgerVars => deaths' = deaths
      BY DEF Pass, LedgerQuiet, ledgerVars, counts
    <3> QED
      BY <3>1, <3>2, <3>3, <3>4 DEF LedgerNext
  <2>3. LedgerSpec => [](deaths = 0)
    BY <2>1, <2>2, PTL DEF LedgerSpec
  <2>4. LedgerSpec => [](deaths = 0 => MutualExclusion)
    BY LockExcludesUntilADeath DEF SafeLock
  <2> QED
    BY <2>3, <2>4, PTL
<1> QED
  BY <1>1, <1>2 DEF SafeLock

\* Then the ledger of the Node backend leaves no gap, loses no acknowledged event and
\* orders its positions but for processes that were overtaken, and its lock is that of the
\* in-memory backend.
THEOREM SafeLockIsEnough ==
  ASSUME SafeLock, InitializeFirst
  PROVE  LedgerSpec => /\ []AckedEventsStored /\ []FilesWithoutGap
                       /\ PositionsGrow /\ ImplementsStreamLock
BY SafeLockExcludes, ExclusionKeepsEvents, ExclusionLeavesNoGap, ExclusionOrdersPositions,
   ExclusionMakesALock, PTL
=============================================================================
