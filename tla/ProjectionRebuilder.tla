-------------------------- MODULE ProjectionRebuilder --------------------------
(***************************************************************************)
(* ProjectionRebuilder::rebuild_all (src/src/projections/rebuilder.rs):    *)
(* looks for the checkpoint of each registered projection in turn, then    *)
(* rebuilds those without one, or all of them, concurrently in one process *)
(* and sums up what became of each.  Other processes run projections too.  *)
(***************************************************************************)
EXTENDS ProjectionRunner

CONSTANTS
  Task,       \* the processes that are tasks of the rebuilder
  TaskOf(_),  \* the task of each registered projection
  MaxAll      \* bound: number of calls of rebuild_all

ASSUME RebuilderAssumption ==
  /\ Task \subseteq Proc
  /\ \A j \in Proj : TaskOf(j) \in Task
  /\ \A i, j \in Proj : TaskOf(i) = TaskOf(j) => i = j
  /\ MaxAll \in Nat

VARIABLES
  phase,    \* where rebuild_all is
  force,    \* force_rebuild
  todo,     \* projections not looked at yet
  chosen,   \* projections to rebuild
  summary,  \* success and failed_projections of its result
  start,    \* history: when it was called, the length of the log and the calls of others
  calls     \* number of calls made

rebuilderVars == <<phase, force, todo, chosen, summary, start, calls>>
allVars == <<runnerVars, rebuilderVars>>

NoSummary == [success |-> TRUE, failed |-> {}]

RebuilderInit ==
  /\ RunnerInit
  /\ phase = "idle" /\ force = FALSE
  /\ todo = {} /\ chosen = {}
  /\ summary = NoSummary
  /\ start = [length |-> 0, runs |-> 0, alone |-> TRUE] /\ calls = 0

RebuildAll ==
  /\ phase = "idle" /\ calls < MaxAll
  /\ \A p \in Task : pc[p] = "idle"
  /\ force' \in BOOLEAN
  /\ phase' = "check" /\ todo' = Proj /\ chosen' = {}
  /\ start' = [length |-> Len(log), runs |-> runs, alone |-> \A p \in Proc : pc[p] = "idle"]
  /\ calls' = calls + 1
  /\ UNCHANGED <<runnerVars, summary>>

\* get_checkpoint, unless forced; one that cannot be read counts as none.
CheckProjection(j, failed) ==
  /\ phase = "check" /\ j \in todo
  /\ ~force \/ ~failed
  /\ Storage("checkpoint_read", failed)
  /\ todo' = todo \ {j}
  /\ chosen' = IF force \/ failed \/ checkpoint[j] = NoCheckpoint THEN chosen \cup {j} ELSE chosen
  /\ UNCHANGED <<log, stored, pc, run, batch, local, result, damage, runs, phase, force, summary, start, calls>>

\* join_all over the rebuilds.
Launch ==
  /\ phase = "check" /\ todo = {}
  /\ phase' = "wait"
  /\ Call([p \in {TaskOf(j) : j \in chosen} |->
             [op |-> "rebuild", proj |-> CHOOSE j \in chosen : TaskOf(j) = p]])
  /\ UNCHANGED <<runs, force, todo, chosen, summary, start, calls>>

\* Mutant of Collect: only the count of results decides.
CollectAny ==
  /\ phase = "wait" /\ \A j \in chosen : pc[TaskOf(j)] = "idle"
  /\ phase' = "idle"
  /\ summary' = NoSummary
  /\ UNCHANGED <<runnerVars, force, todo, chosen, start, calls>>

Collect ==
  /\ phase = "wait" /\ \A j \in chosen : pc[TaskOf(j)] = "idle"
  /\ phase' = "idle"
  /\ LET failed == {j \in chosen : result[TaskOf(j)] = "error"} IN
     summary' = [success |-> failed = {}, failed |-> failed]
  /\ UNCHANGED <<runnerVars, force, todo, chosen, start, calls>>

\* The process of the rebuilder dies with all its tasks: rebuild_all never returns.
CrashRebuilder ==
  /\ phase = "wait"
  /\ Kill(Task)
  /\ damage' = [j \in Proj |-> IF Busy(TaskOf(j), j) THEN Harm(TaskOf(j)) ELSE damage[j]]
  /\ phase' = "crashed"
  /\ UNCHANGED <<force, todo, chosen, summary, start, calls>>

\* Its tasks never come back; the next rebuild_all has tasks of its own.
RestartRebuilder ==
  /\ phase = "crashed"
  /\ phase' = "idle" /\ summary' = [success |-> FALSE, failed |-> {}]
  /\ pc' = [p \in Proc |-> IF p \in Task THEN "idle" ELSE pc[p]]
  /\ run' = [p \in Proc |-> IF p \in Task THEN NoRun ELSE run[p]]
  /\ UNCHANGED <<log, stored, batch, local, result, damage, runs, faults,
                 force, todo, chosen, start, calls>>

-----------------------------------------------------------------------------
\* A process of its own: its runner steps, dies and restarts.
OtherProcess(p) ==
  /\ p \notin Task
  /\ \/ Crash(p) \/ Restart(p)
     \/ \E op \in {"rebuild", "process_events"}, j \in Proj : Invoke(p, op, j)

RebuilderStep ==
  \/ \E j \in Proj, failed \in BOOLEAN : CheckProjection(j, failed)
  \/ Launch \/ Collect

RebuilderQuiet ==
  /\ phase = "wait" \/ (phase = "idle" /\ calls = MaxAll)
  /\ RunnerQuiet
  /\ UNCHANGED rebuilderVars

RebuilderNext ==
  \/ /\ \/ \E p \in Proc : RunnerStep(p) \/ OtherProcess(p)
        \/ AppendEvent
     /\ UNCHANGED rebuilderVars
  \/ RebuildAll \/ RebuilderStep \/ CrashRebuilder \/ RestartRebuilder
  \/ RebuilderQuiet

RebuilderSpec == RebuilderInit /\ [][RebuilderNext]_allVars

\* The executor polls every future that can run, those of the rebuilder as well.
RebuilderFairSpec ==
  /\ RebuilderSpec
  /\ WF_allVars(RebuilderStep)
  /\ \A p \in Proc : WF_allVars(RunnerStep(p) /\ UNCHANGED rebuilderVars)

-----------------------------------------------------------------------------
(* Properties *)

\* Others that run projections during rebuild_all.
OthersRan == ~start.alone \/ runs # start.runs

\* When rebuild_all returns, each projection it chose is named as failed or has been
\* rebuilt from all the events there were when it was called, also if others rebuild it
\* at the same time; it is undamaged, unless by them.  Success means that no projection
\* is without a checkpoint, unreadable ones included.
RebuildAllIsHonest ==
  [][phase = "wait" /\ phase' = "idle" =>
       /\ \A j \in chosen :
            \/ j \in summary'.failed /\ ~summary'.success
            \/ ~Unused(j) \/ (OthersRan /\ damage[j] # "none")
            \/ damage[j] = "none" /\ (start.length > 1 => checkpoint[j] >= start.length - 1)
       /\ summary'.success => \A j \in Proj : checkpoint[j] # NoCheckpoint]_allVars

\* Every rebuild that waits for the lock of its projection returns or dies, also if
\* the holder died, unless it is a lock that waiters never get past.
CallsEnd ==
  \A p \in Proc : pc[p] = "acquire" ~> pc[p] \in {"idle", "crashed"} \/ Orphaned(P(p))
=============================================================================
