--------------------------- MODULE MCProjectionStore ---------------------------
(* Values of the constants of ProjectionStore for TLC. *)
EXTENDS ProjectionStore, TLC

CONSTANTS p1, p2, k1, k2, t1, t2, free

MCPathOf(t) == t

MCSymmetry == Permutations({p1, p2}) \cup Permutations({k1, k2}) \cup Permutations({t1, t2})

(* ProjectionTagIndex and the store have files and locks of their own, and each property *)
(* is about one of them; so behaviours that change both show nothing more.               *)
TagMethods == {"update", "lookup", "delete_all"}

TagIndexUnused ==
  /\ keyList = [path \in Paths |-> {}] /\ tagLock = [t \in Tag |-> Free]
  /\ tagsOf = [k \in Key |-> {}] /\ broken = {}
  /\ \A p \in Proc : call[p].op \notin TagMethods

StoreUnused ==
  /\ file = [k \in Key |-> NoFile] /\ index = [k \in Key |-> 0] /\ tagFile = {}
  /\ batch = FALSE /\ metaLock = Free
  /\ wanted = [k \in Key |-> 0] /\ stale = FALSE /\ torn = {} /\ failed = {}
  /\ \A p \in Proc : call[p].op \in TagMethods \cup {"none"}

MCNext == StoreNext /\ (TagIndexUnused' \/ StoreUnused')

MCSpec == StoreInit /\ [][MCNext]_allVars
=============================================================================
