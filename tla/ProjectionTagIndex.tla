-------------------------- MODULE ProjectionTagIndex --------------------------
(***************************************************************************)
(* ProjectionTagIndex (src/src/projections.rs): for each tag a file with   *)
(* the list of the projection keys that carry it, changed under a lock of  *)
(* the tag.  update_projection_tags moves a key from its old tags to its   *)
(* new ones, one locked change after the other.                            *)
(*                                                                         *)
(* get_projection_keys_by_tags reads the lists of its tags under no lock.  *)
(*                                                                         *)
(* A file is read and written in steps of their own.  Two tags can have    *)
(* the same file and different locks: "a_b", "c" and "a", "b_c" do.        *)
(***************************************************************************)
EXTENDS Integers, FiniteSets

CONSTANTS
  Proc,       \* concurrent callers
  Free,       \* value of a lock that is not held
  Key,        \* projection keys
  Tag,        \* tags, equal if they differ in case only
  PathOf(_),  \* the file of a tag
  MaxCalls,   \* bound: number of calls in a behaviour
  MaxCrashes  \* bound: number of calls that are broken off and operations that fail

ASSUME TagIndexAssumption ==
  /\ Free \notin Proc
  /\ MaxCalls \in Nat /\ MaxCrashes \in Nat

VARIABLES
  pc,       \* what each caller is about to do
  call,     \* its call
  keyList,  \* file -> the keys in it, empty if there is no file
  tagLock,  \* tag -> holder of its lock
  change,   \* the changes of update_projection_tags to make, and the list read
  lookup,   \* the lists a look-up has to read, the keys in all it has read, and
            \* as history the keys that are updated while it runs
  tagsOf,   \* history: the tags of each key after the last update_projection_tags
  broken,   \* history: keys with an update that was broken off
  calls, crashes  \* number of calls, and of those broken off and operations that failed

tagVars == <<keyList, tagLock, change, lookup, tagsOf, broken>>
callVars == <<pc, call, calls, crashes>>

NoCall == [op |-> "none", key |-> {}, tags |-> {}]
NoLookup == [todo |-> {}, found |-> {}, touched |-> {}]
NoChange == [remove |-> {}, add |-> {}, tag |-> {}, read |-> {}]

Paths == {PathOf(t) : t \in Tag}

Go(p, label) == pc' = [pc EXCEPT ![p] = label]

Return(p) == Go(p, "idle") /\ call' = [call EXCEPT ![p] = NoCall]

\* A caller starts c at `label`.
Start(p, c, label) ==
  /\ pc[p] = "idle" /\ calls < MaxCalls
  /\ calls' = calls + 1
  /\ call' = [call EXCEPT ![p] = c]
  /\ Go(p, label)
  /\ UNCHANGED crashes

\* Look-ups note the keys that are updated while they run.
NoteUpdate(keys) ==
  lookup' = [p \in Proc |->
               IF call[p].op = "lookup" THEN [lookup[p] EXCEPT !.touched = @ \cup keys] ELSE lookup[p]]

Working(op) == {p \in Proc : pc[p] # "idle" /\ call[p].op = op}

TagIndexInit ==
  /\ pc = [p \in Proc |-> "idle"]
  /\ call = [p \in Proc |-> NoCall]
  /\ keyList = [path \in Paths |-> {}]
  /\ tagLock = [t \in Tag |-> Free]
  /\ change = [p \in Proc |-> NoChange]
  /\ lookup = [p \in Proc |-> NoLookup]
  /\ tagsOf = [k \in Key |-> {}]
  /\ broken = {}
  /\ calls = 0 /\ crashes = 0

-----------------------------------------------------------------------------
\* update_projection_tags(key, old, new) by the one that owns the key and knows its
\* old tags.
UpdateTags(p, k, new) ==
  /\ \A q \in Working("update") : call[q].key # {k}
  /\ Working("delete_all") = {}
  /\ Start(p, [op |-> "update", key |-> {k}, tags |-> new], "tags")
  /\ change' = [change EXCEPT ![p] =
       [NoChange EXCEPT !.remove = tagsOf[k] \ new, !.add = new \ tagsOf[k]]]
  /\ NoteUpdate({k})
  /\ UNCHANGED <<keyList, tagLock, tagsOf, broken>>

\* Removals come before additions.
Pending(p) == IF change[p].remove # {} THEN change[p].remove ELSE change[p].add

Done(p, t) ==
  change' = [change EXCEPT ![p] =
    [remove |-> @.remove \ {t}, add |-> @.add \ {t}, tag |-> {}, read |-> {}]]

\* p is between acquire and release of the lock of t.
InTagLock(p, t) == pc[p] \in {"keys", "write_keys", "release"} /\ change[p].tag = {t}

\* remove_projection: without a file it takes no lock.
SkipRemoval(p, t) ==
  /\ pc[p] = "tags" /\ t \in change[p].remove
  /\ keyList[PathOf(t)] = {}
  /\ Done(p, t)
  /\ UNCHANGED <<callVars, keyList, tagLock, lookup, tagsOf, broken>>

\* remove_projection has found a file, once, before it waits for the lock;
\* add_projection does not look for one.
AskForTagLock(p, t) ==
  /\ pc[p] = "tags" /\ t \in Pending(p)
  /\ t \in change[p].remove => keyList[PathOf(t)] # {}
  /\ change' = [change EXCEPT ![p].tag = {t}]
  /\ Go(p, "lock_tag")
  /\ UNCHANGED <<call, calls, crashes, keyList, tagLock, lookup, tagsOf, broken>>

\* Mutant of AcquireTagLock: nobody waits.
AcquireTagLockShared(p, t) ==
  /\ pc[p] = "lock_tag" /\ change[p].tag = {t}
  /\ tagLock' = [tagLock EXCEPT ![t] = p]
  /\ Go(p, "keys")
  /\ UNCHANGED <<call, calls, crashes, keyList, change, lookup, tagsOf, broken>>

\* acquire_stream_lock of the tag.  The lock of a call that was broken off may be taken
\* over, by one caller at a time.
AcquireTagLock(p, t) ==
  /\ pc[p] = "lock_tag" /\ change[p].tag = {t}
  /\ tagLock[t] # Free => ~InTagLock(tagLock[t], t)
  /\ tagLock' = [tagLock EXCEPT ![t] = p]
  /\ Go(p, "keys")
  /\ UNCHANGED <<call, calls, crashes, keyList, change, lookup, tagsOf, broken>>

ReadKeys(p, t) ==
  /\ pc[p] = "keys" /\ change[p].tag = {t}
  /\ change' = [change EXCEPT ![p].read = keyList[PathOf(t)]]
  /\ Go(p, "write_keys")
  /\ UNCHANGED <<call, calls, crashes, keyList, tagLock, lookup, tagsOf, broken>>

\* The list without the key or with it is written; the file of an empty one is deleted.
WriteKeys(p, t) ==
  /\ pc[p] = "write_keys" /\ change[p].tag = {t}
  /\ keyList' = [keyList EXCEPT ![PathOf(t)] =
       IF t \in change[p].remove THEN change[p].read \ call[p].key ELSE change[p].read \cup call[p].key]
  /\ Go(p, "release")
  /\ UNCHANGED <<call, calls, crashes, tagLock, change, lookup, tagsOf, broken>>

ReleaseTagLock(p, t) ==
  /\ pc[p] = "release" /\ change[p].tag = {t}
  /\ tagLock' = [tagLock EXCEPT ![t] = Free]
  /\ Done(p, t)
  /\ Go(p, "tags")
  /\ UNCHANGED <<call, calls, crashes, keyList, lookup, tagsOf, broken>>

EndUpdate(p) ==
  /\ pc[p] = "tags" /\ Pending(p) = {}
  /\ tagsOf' = [k \in Key |-> IF k \in call[p].key THEN call[p].tags ELSE tagsOf[k]]
  /\ Return(p)
  /\ UNCHANGED <<calls, crashes, keyList, tagLock, change, lookup, broken>>

\* delete_all_indices, without any lock, file by file.
DeleteAllIndices(p) ==
  /\ Working("update") = {}
  /\ Start(p, [op |-> "delete_all", key |-> {}, tags |-> {}], "delete_all")
  /\ tagsOf' = [k \in Key |-> {}]
  /\ broken' = {}
  /\ NoteUpdate(Key)
  /\ UNCHANGED <<keyList, tagLock, change>>

DeleteIndex(p, path) ==
  /\ pc[p] = "delete_all" /\ keyList[path] # {}
  /\ keyList' = [keyList EXCEPT ![path] = {}]
  /\ UNCHANGED <<callVars, tagLock, change, lookup, tagsOf, broken>>

EndDeleteAll(p) ==
  /\ pc[p] = "delete_all" /\ \A path \in Paths : keyList[path] = {}
  /\ Return(p)
  /\ UNCHANGED <<calls, crashes, tagVars>>

\* A caller dies in update_projection_tags.
BreakOffUpdate(p) ==
  /\ call[p].op = "update" /\ crashes < MaxCrashes
  /\ crashes' = crashes + 1
  /\ broken' = broken \cup call[p].key
  /\ change' = [change EXCEPT ![p] = NoChange]
  /\ Return(p)
  /\ UNCHANGED <<calls, keyList, tagLock, lookup, tagsOf>>

-----------------------------------------------------------------------------
\* get_projection_keys_by_tags, for at least one tag; get_projection_keys_by_tag for one.
LookUp(p, tags) ==
  /\ Start(p, [op |-> "lookup", key |-> {}, tags |-> tags], "lookup")
  /\ lookup' = [lookup EXCEPT ![p] =
       [todo |-> tags, found |-> Key,
        touched |-> IF Working("delete_all") # {} THEN Key
                    ELSE UNION {call[q].key : q \in Working("update")}]]
  /\ UNCHANGED <<keyList, tagLock, change, tagsOf, broken>>

\* Mutant of ReadTagList: the lists after an empty one still count.
ReadTagListSkipping(p, t) ==
  /\ pc[p] = "lookup" /\ t \in lookup[p].todo
  /\ LET keys == keyList[PathOf(t)] IN
     lookup' = [lookup EXCEPT ![p].todo = @ \ {t},
                              ![p].found = IF keys = {} THEN @ ELSE @ \cap keys]
  /\ UNCHANGED <<callVars, keyList, tagLock, change, tagsOf, broken>>

\* The list of one tag; an empty one ends it.
ReadTagList(p, t) ==
  /\ pc[p] = "lookup" /\ t \in lookup[p].todo
  /\ LET keys == keyList[PathOf(t)] IN
     lookup' = [lookup EXCEPT ![p].todo = IF keys = {} THEN {} ELSE @ \ {t},
                              ![p].found = @ \cap keys]
  /\ UNCHANGED <<callVars, keyList, tagLock, change, tagsOf, broken>>

EndLookUp(p) ==
  /\ pc[p] = "lookup" /\ lookup[p].todo = {}
  /\ lookup' = [lookup EXCEPT ![p] = NoLookup]
  /\ Return(p)
  /\ UNCHANGED <<calls, crashes, keyList, tagLock, change, tagsOf, broken>>

-----------------------------------------------------------------------------
TagIndexStep(p) ==
  \/ \E t \in Tag :
       SkipRemoval(p, t) \/ AskForTagLock(p, t) \/ AcquireTagLock(p, t) \/ ReadKeys(p, t)
         \/ WriteKeys(p, t) \/ ReleaseTagLock(p, t) \/ ReadTagList(p, t)
  \/ \E path \in Paths : DeleteIndex(p, path)
  \/ EndUpdate(p) \/ EndDeleteAll(p) \/ EndLookUp(p)

TagIndexCall(p) ==
  \/ \E k \in Key, new \in SUBSET Tag : UpdateTags(p, k, new)
  \/ \E tags \in (SUBSET Tag) \ {{}} : LookUp(p, tags)
  \/ DeleteAllIndices(p)
  \/ BreakOffUpdate(p)

-----------------------------------------------------------------------------
(* Properties *)

\* A key is in the list of a tag exactly if its last update gave it the tag, also if
\* keys are moved to and from the same tags at the same time, and whatever became of
\* callers that died: a change of one key never undoes that of another.
TagListsExact ==
  \A k \in Key \ broken :
    (\A p \in Working("update") : k \notin call[p].key) /\ Working("delete_all") = {} =>
      tagsOf[k] = {t \in Tag : k \in keyList[PathOf(t)]}

\* A look-up finds exactly the keys that have all its tags, among those that nobody
\* updated while it ran: the lists of other keys that change under it, and lists that
\* become empty in between, do not matter.
LookUpsAreRight ==
  \A p \in Working("lookup") : lookup[p].todo = {} =>
    \A k \in Key \ (broken \cup lookup[p].touched) :
      k \in lookup[p].found <=> call[p].tags \subseteq tagsOf[k]
=============================================================================
