------------------------------ MODULE StreamLock ------------------------------
(***************************************************************************)
(* One lock of a StorageBackend, as its users rely on it: the set `locks`  *)
(* of InMemoryStorage (src/src/in_memory.rs) for one name, with its owner. *)
(* EventStore and the projection modules take their locks to be like this; *)
(* NodeLock shows what the lock file of the Node backend makes of it.      *)
(***************************************************************************)
CONSTANTS Proc

VARIABLES owners  \* the processes between acquire_stream_lock and release_stream_lock

StreamLockInit == owners = {}

\* `locks.insert` succeeds for a name that is not there.
Acquire(p) == owners = {} /\ owners' = {p}

\* `locks.remove`, or the death of the owner.
Vacate(p) == owners = {p} /\ owners' = {}

StreamLockNext == \E p \in Proc : Acquire(p) \/ Vacate(p)

StreamLockSpec == StreamLockInit /\ [][StreamLockNext]_owners
=============================================================================
