---------------------------- MODULE ProjectionStore ----------------------------
(***************************************************************************)
(* StorageBackendProjectionStore and ProjectionMetadataIndex               *)
(* (src/src/projections.rs), used by concurrent callers of which no two    *)
(* write the same key.  A key has a state file, an entry in the metadata   *)
(* index and an empty file under each tag of its state:                    *)
(*                                                                         *)
(*   save:    old state, remove its tag files, read index, state file,     *)
(*            write index, tag files                                       *)
(*   delete:  old state, remove its tag files, read and write index,       *)
(*            remove state file                                            *)
(*                                                                         *)
(* The store reads and writes the whole index under no lock; a             *)
(* ProjectionMetadataIndex on the same directory does it under one.  In    *)
(* batch mode the index is left alone until it is rebuilt.                 *)
(*                                                                         *)
(* A state is the set of tags the tag provider finds in it.                *)
(***************************************************************************)
EXTENDS ProjectionTagIndex, Functions

CONSTANTS Methods  \* the methods that are called

VARIABLES
  file,      \* key -> version and tags in its state file, or NoFile
  index,     \* key -> version in Metadata/index.json, 0 if not there
  tagFile,   \* the files Indices/<tag>/<key>.json
  batch,     \* skip_index_writes
  metaLock,  \* holder of the lock of ProjectionMetadataIndex
  work,      \* the locals of each caller, see NoWork
  wanted,    \* history: the index if every change of an entry were kept
  stale,     \* history: the index was changed by overlapping calls, or not at all
  torn,      \* history: keys whose last save or delete was broken off
  failed     \* history: the tag files whose last writing or deletion failed

files == <<file, index, tagFile, batch>>
ghosts == <<wanted, stale, torn, failed>>
storeVars == <<files, metaLock, work, ghosts>>
allVars == <<callVars, tagVars, storeVars>>

NoFile == [version |-> 0, tags |-> {}]

\* Tags to remove, to add or to look up, the index read, the version to save; keys that
\* were found and those still to read; keys written since a query began.
NoWork == [tags |-> {}, read |-> [k \in Key |-> 0], version |-> 0,
           found |-> {}, todo |-> {}, touched |-> {}]

StoreInit ==
  /\ TagIndexInit
  /\ file = [k \in Key |-> NoFile]
  /\ index = [k \in Key |-> 0]
  /\ tagFile = {}
  /\ batch = FALSE
  /\ metaLock = Free
  /\ work = [p \in Proc |-> NoWork]
  /\ wanted = [k \in Key |-> 0]
  /\ stale = FALSE
  /\ torn = {} /\ failed = {}

Exists(k) == file[k] # NoFile

\* read_dir of the directory of the projection.
StateFiles == {k \in Key : Exists(k)}

\* get_tags of the tag provider for the state of k; none for NoopProjectionTagProvider.
StateTags(k) == file[k].tags

\* get and get_all of ProjectionMetadataIndex: the index, read under no lock; it has no
\* entry where the version is 0.
MetaEntries == Restrict(index, {k \in Key : index[k] # 0})

\* Callers that write k, that read and write the index under no lock, that hold its lock.
Writers(k) == {p \in Working("save") \cup Working("delete") : k \in call[p].key}
Unlocked == {p \in Proc : pc[p] \in {"write_state", "write_index", "drop_entry"}}
Locked == {p \in Proc : pc[p] = "write_meta"}
InMetaLock(p) == pc[p] \in {"read_meta", "write_meta", "unlock_meta"}

\* The index is read, to be written later: do others do so at the same time?
Overlap == stale' = (stale \/ Unlocked # {} \/ Locked # {})

SetEntry(k, version) == wanted' = [wanted EXCEPT ![k] = version]

\* A query notes the keys that are written while it runs.
Touch(works, k) ==
  [p \in Proc |-> IF call[p].op = "query" THEN [works[p] EXCEPT !.touched = @ \cup {k}] ELSE works[p]]

\* A storage operation fails.
OneFails == crashes < MaxCrashes /\ crashes' = crashes + 1

MayWrite(k) == Writers(k) = {} /\ Working("rebuild") = {} /\ Working("clear") = {}

-----------------------------------------------------------------------------
(* save *)

Save(p, k, tags) ==
  /\ "save" \in Methods /\ MayWrite(k)
  /\ Start(p, [op |-> "save", key |-> {k}, tags |-> tags], "old_state")
  /\ UNCHANGED <<tagVars, storeVars>>

\* The tags of the old state, if there is one.
GetOldState(p, k) ==
  /\ pc[p] = "old_state" /\ k \in call[p].key
  /\ work' = [Touch(work, k) EXCEPT ![p].tags = StateTags(k)]
  /\ Go(p, "untag")
  /\ UNCHANGED <<call, calls, crashes, tagVars, files, metaLock, ghosts>>

\* The old state cannot be read: it counts as none.
OldStateUnreadable(p, k) ==
  /\ pc[p] = "old_state" /\ k \in call[p].key /\ OneFails
  /\ failed' = failed \cup (StateTags(k) \X {k})
  /\ work' = Touch(work, k)
  /\ Go(p, "untag")
  /\ UNCHANGED <<call, calls, tagVars, files, metaLock, wanted, stale, torn>>

\* Mutant of RemoveTagFile: the files of the old tags stay.
RemoveTagFileNever(p, k, t) ==
  /\ pc[p] = "untag" /\ k \in call[p].key /\ t \in work[p].tags
  /\ work' = [work EXCEPT ![p].tags = @ \ {t}]
  /\ UNCHANGED <<callVars, tagVars, files, metaLock, ghosts>>

\* The tag files of the old state go one by one.
RemoveTagFile(p, k, t) ==
  /\ pc[p] = "untag" /\ k \in call[p].key /\ t \in work[p].tags
  /\ tagFile' = tagFile \ {<<t, k>>}
  /\ failed' = failed \ {<<t, k>>}
  /\ work' = [work EXCEPT ![p].tags = @ \ {t}]
  /\ UNCHANGED <<callVars, tagVars, file, index, batch, metaLock, wanted, stale, torn>>

\* An error of deleting it, or of writing it below, is ignored.
TagFileFails(p, k, t) ==
  /\ pc[p] \in {"untag", "tag"} /\ k \in call[p].key /\ t \in work[p].tags /\ OneFails
  /\ failed' = failed \cup {<<t, k>>}
  /\ work' = [work EXCEPT ![p].tags = @ \ {t}]
  /\ UNCHANGED <<pc, call, calls, tagVars, files, metaLock, wanted, stale, torn>>

\* The previous version, from the state file in batch mode and else from the index.
ReadMetadata(p, k) ==
  /\ pc[p] = "untag" /\ work[p].tags = {} /\ call[p].op = "save" /\ k \in call[p].key
  /\ IF batch
     THEN /\ work' = [work EXCEPT ![p].version = file[k].version + 1]
          /\ stale' = TRUE
     ELSE /\ work' = [work EXCEPT ![p].version = index[k] + 1, ![p].read = index]
          /\ Overlap
  /\ Go(p, "write_state")
  /\ UNCHANGED <<call, calls, crashes, tagVars, files, metaLock, wanted, torn, failed>>

WriteState(p, k) ==
  /\ pc[p] = "write_state" /\ k \in call[p].key
  /\ file' = [file EXCEPT ![k] = [version |-> work[p].version, tags |-> call[p].tags]]
  /\ IF batch
     THEN work' = [work EXCEPT ![p].tags = call[p].tags] /\ Go(p, "tag")
     ELSE UNCHANGED work /\ Go(p, "write_index")
  /\ UNCHANGED <<call, calls, crashes, tagVars, index, tagFile, batch, metaLock,
                 wanted, stale, torn, failed>>

\* The index read before, with the new version of the key.
WriteIndex(p, k) ==
  /\ pc[p] = "write_index" /\ k \in call[p].key
  /\ index' = [work[p].read EXCEPT ![k] = work[p].version]
  /\ SetEntry(k, work[p].version)
  /\ work' = [work EXCEPT ![p].tags = call[p].tags]
  /\ Go(p, "tag")
  /\ UNCHANGED <<call, calls, crashes, tagVars, file, tagFile, batch, metaLock,
                 stale, torn, failed>>

AddTagFile(p, k, t) ==
  /\ pc[p] = "tag" /\ k \in call[p].key /\ t \in work[p].tags
  /\ tagFile' = tagFile \cup {<<t, k>>}
  /\ failed' = failed \ {<<t, k>>}
  /\ work' = [work EXCEPT ![p].tags = @ \ {t}]
  /\ UNCHANGED <<callVars, tagVars, file, index, batch, metaLock, wanted, stale, torn>>

EndSave(p) ==
  /\ pc[p] = "tag" /\ work[p].tags = {}
  /\ torn' = torn \ call[p].key
  /\ work' = [work EXCEPT ![p] = NoWork]
  /\ Return(p)
  /\ UNCHANGED <<calls, crashes, tagVars, files, metaLock, wanted, stale, failed>>

-----------------------------------------------------------------------------
(* delete *)

Delete(p, k) ==
  /\ "delete" \in Methods /\ MayWrite(k)
  /\ Start(p, [op |-> "delete", key |-> {k}, tags |-> {}], "old_state")
  /\ UNCHANGED <<tagVars, storeVars>>

\* The index is read, and written again if the key is in it.
ReadEntry(p, k) ==
  /\ pc[p] = "untag" /\ work[p].tags = {} /\ call[p].op = "delete" /\ k \in call[p].key
  /\ IF ~batch /\ index[k] # 0
     THEN work' = [work EXCEPT ![p].read = index] /\ Overlap /\ Go(p, "drop_entry")
     ELSE stale' = (stale \/ batch) /\ UNCHANGED work /\ Go(p, "delete_state")
  /\ UNCHANGED <<call, calls, crashes, tagVars, files, metaLock, wanted, torn, failed>>

DropEntry(p, k) ==
  /\ pc[p] = "drop_entry" /\ k \in call[p].key
  /\ index' = [work[p].read EXCEPT ![k] = 0]
  /\ SetEntry(k, 0)
  /\ Go(p, "delete_state")
  /\ UNCHANGED <<call, calls, crashes, tagVars, file, tagFile, batch, metaLock, work,
                 stale, torn, failed>>

DeleteState(p, k) ==
  /\ pc[p] = "delete_state" /\ k \in call[p].key
  /\ file' = [file EXCEPT ![k] = NoFile]
  /\ torn' = torn \ {k}
  /\ work' = [work EXCEPT ![p] = NoWork]
  /\ Return(p)
  /\ UNCHANGED <<calls, crashes, tagVars, index, tagFile, batch, metaLock, wanted, stale, failed>>

-----------------------------------------------------------------------------
(* query_by_tag, query_by_tags and get_all *)

Query(p, tags) ==
  /\ "query" \in Methods
  /\ Start(p, [op |-> "query", key |-> {}, tags |-> tags], "list_tag")
  /\ work' = [work EXCEPT ![p] = [NoWork EXCEPT
       !.tags = tags, !.found = Key, !.touched = {k \in Key : Writers(k) # {}}]]
  /\ UNCHANGED <<tagVars, files, metaLock, ghosts>>

\* Mutant of ListTag: the keys of any tag.
ListTagUnion(p, t) ==
  /\ pc[p] = "list_tag" /\ t \in work[p].tags /\ work[p].found # {}
  /\ LET keys == {k \in Key : <<t, k>> \in tagFile} IN
     work' = [work EXCEPT ![p].tags = @ \ {t},
                          ![p].found = IF work[p].tags = call[p].tags THEN keys ELSE @ \cup keys]
  /\ UNCHANGED <<callVars, tagVars, files, metaLock, ghosts>>

\* The keys that have all the tags so far; it is over when there are none.
ListTag(p, t) ==
  /\ pc[p] = "list_tag" /\ t \in work[p].tags /\ work[p].found # {}
  /\ work' = [work EXCEPT ![p].tags = @ \ {t},
                          ![p].found = {k \in @ : <<t, k>> \in tagFile}]
  /\ UNCHANGED <<callVars, tagVars, files, metaLock, ghosts>>

EndListing(p) ==
  /\ pc[p] = "list_tag" /\ (work[p].tags = {} \/ work[p].found = {})
  /\ work' = [work EXCEPT ![p].todo = work[p].found]
  /\ Go(p, "get")
  /\ UNCHANGED <<call, calls, crashes, tagVars, files, metaLock, ghosts>>

\* get_all: the state files that are listed, whatever their tags.
GetAll(p) ==
  /\ "query" \in Methods
  /\ Start(p, [op |-> "query", key |-> {}, tags |-> {}], "get")
  /\ work' = [work EXCEPT ![p] = [NoWork EXCEPT
       !.found = StateFiles, !.todo = StateFiles,
       !.touched = {k \in Key : Writers(k) # {}}]]
  /\ UNCHANGED <<tagVars, files, metaLock, ghosts>>

\* get(key): a state that is gone is left out.
Get(p, k) ==
  /\ pc[p] = "get" /\ k \in work[p].todo
  /\ work' = [work EXCEPT ![p].todo = @ \ {k},
                          ![p].found = IF Exists(k) THEN @ ELSE @ \ {k}]
  /\ UNCHANGED <<callVars, tagVars, files, metaLock, ghosts>>

EndQuery(p) ==
  /\ call[p].op = "query" /\ pc[p] = "get" /\ work[p].todo = {}
  /\ work' = [work EXCEPT ![p] = NoWork]
  /\ Return(p)
  /\ UNCHANGED <<calls, crashes, tagVars, files, metaLock, ghosts>>

-----------------------------------------------------------------------------
(* clear, set_batch_mode and rebuild_metadata_index, as rebuild calls them: by nobody *)
(* while keys are written                                                             *)

NoWriter == \A k \in Key : MayWrite(k)

Clear(p) ==
  /\ "clear" \in Methods /\ NoWriter
  /\ Start(p, NoCall, "idle")
  /\ file' = [k \in Key |-> NoFile] /\ index' = [k \in Key |-> 0] /\ tagFile' = {}
  /\ wanted' = [k \in Key |-> 0]
  /\ stale' = (Locked # {})
  /\ torn' = {} /\ failed' = {}
  /\ work' = [q \in Proc |-> IF call[q].op = "query" THEN [work[q] EXCEPT !.touched = Key] ELSE work[q]]
  /\ UNCHANGED <<tagVars, batch, metaLock>>

BeginBatch ==
  /\ "rebuild" \in Methods /\ ~batch /\ NoWriter
  /\ batch' = TRUE
  /\ UNCHANGED <<callVars, tagVars, file, index, tagFile, metaLock, work, ghosts>>

\* Batch mode ends and the directory is listed.
Rebuild(p) ==
  /\ batch /\ NoWriter
  /\ Start(p, [op |-> "rebuild", key |-> {}, tags |-> {}], "rebuild")
  /\ batch' = FALSE
  /\ work' = [work EXCEPT ![p] = [NoWork EXCEPT !.todo = StateFiles]]
  /\ UNCHANGED <<tagVars, file, index, tagFile, metaLock, ghosts>>

ReadVersion(p, k) ==
  /\ pc[p] = "rebuild" /\ k \in work[p].todo
  /\ work' = [work EXCEPT ![p].todo = @ \ {k}, ![p].read[k] = file[k].version]
  /\ UNCHANGED <<callVars, tagVars, files, metaLock, ghosts>>

WriteRebuilt(p) ==
  /\ pc[p] = "rebuild" /\ work[p].todo = {}
  /\ index' = work[p].read
  /\ wanted' = work[p].read
  /\ stale' = (Locked # {})
  /\ work' = [work EXCEPT ![p] = NoWork]
  /\ Return(p)
  /\ UNCHANGED <<calls, crashes, tagVars, file, tagFile, batch, metaLock, torn, failed>>

-----------------------------------------------------------------------------
(* ProjectionMetadataIndex *)

MetaCall(p, keys, version) ==
  /\ "metadata" \in Methods
  /\ Start(p, [op |-> "metadata", key |-> keys, tags |-> {}], "lock_meta")
  /\ work' = [work EXCEPT ![p].version = version]
  /\ UNCHANGED <<tagVars, files, metaLock, ghosts>>

\* save, with a version of the caller's.
MetaSave(p, k, version) == MetaCall(p, {k}, version)

MetaDelete(p, k) == MetaCall(p, {k}, 0)

\* delete looks for the file before it takes the lock, and is over if there is none.
SkipMetaDelete(p) ==
  /\ pc[p] = "lock_meta" /\ work[p].version = 0 /\ Cardinality(call[p].key) = 1
  /\ index = [k \in Key |-> 0]
  /\ work' = [work EXCEPT ![p] = NoWork]
  /\ Return(p)
  /\ UNCHANGED <<calls, crashes, tagVars, files, metaLock, ghosts>>

MetaClear(p) == MetaCall(p, Key, 0)

\* Mutant of LockMeta: nobody waits.
LockMetaShared(p) ==
  /\ pc[p] = "lock_meta"
  /\ metaLock' = p
  /\ Go(p, "read_meta")
  /\ UNCHANGED <<call, calls, crashes, tagVars, files, work, ghosts>>

\* acquire_stream_lock; the lock of a call that was broken off is taken over.
LockMeta(p) ==
  /\ pc[p] = "lock_meta"
  /\ metaLock # Free => ~InMetaLock(metaLock)
  /\ metaLock' = p
  /\ Go(p, "read_meta")
  /\ UNCHANGED <<call, calls, crashes, tagVars, files, work, ghosts>>

\* Whether unlocked writers are between their read and their write of the index.
ReadMeta(p) ==
  /\ pc[p] = "read_meta"
  /\ work' = [work EXCEPT ![p].read = index]
  /\ stale' = (stale \/ Unlocked # {})
  /\ Go(p, "write_meta")
  /\ UNCHANGED <<call, calls, crashes, tagVars, files, metaLock, wanted, torn, failed>>

WriteMeta(p) ==
  /\ pc[p] = "write_meta"
  /\ index' = [k \in Key |-> IF k \in call[p].key THEN work[p].version ELSE work[p].read[k]]
  /\ wanted' = [k \in Key |-> IF k \in call[p].key THEN work[p].version ELSE wanted[k]]
  /\ Go(p, "unlock_meta")
  /\ UNCHANGED <<call, calls, crashes, tagVars, file, tagFile, batch, metaLock, work,
                 stale, torn, failed>>

UnlockMeta(p) ==
  /\ pc[p] = "unlock_meta"
  /\ metaLock' = Free
  /\ work' = [work EXCEPT ![p] = NoWork]
  /\ Return(p)
  /\ UNCHANGED <<calls, crashes, tagVars, files, ghosts>>

-----------------------------------------------------------------------------
\* The caller dies in a method that writes.
BreakOff(p) ==
  /\ call[p].op \in {"save", "delete", "metadata"} /\ crashes < MaxCrashes
  /\ crashes' = crashes + 1
  /\ torn' = IF call[p].op = "metadata" THEN torn ELSE torn \cup call[p].key
  /\ work' = [work EXCEPT ![p] = NoWork]
  /\ Return(p)
  /\ UNCHANGED <<calls, tagVars, files, metaLock, wanted, stale, failed>>

StoreStep(p) ==
  \/ \E k \in Key :
       \/ GetOldState(p, k) \/ OldStateUnreadable(p, k)
       \/ ReadMetadata(p, k) \/ WriteState(p, k) \/ WriteIndex(p, k)
       \/ ReadEntry(p, k) \/ DropEntry(p, k) \/ DeleteState(p, k)
       \/ Get(p, k) \/ ReadVersion(p, k)
       \/ \E t \in Tag : RemoveTagFile(p, k, t) \/ AddTagFile(p, k, t) \/ TagFileFails(p, k, t)
  \/ \E t \in Tag : ListTag(p, t)
  \/ EndSave(p) \/ EndListing(p) \/ EndQuery(p) \/ WriteRebuilt(p)
  \/ SkipMetaDelete(p) \/ LockMeta(p) \/ ReadMeta(p) \/ WriteMeta(p) \/ UnlockMeta(p)

StoreCall(p) ==
  \/ \E k \in Key, tags \in SUBSET Tag : Save(p, k, tags)
  \/ \E k \in Key : Delete(p, k)
  \/ \E tags \in (SUBSET Tag) \ {{}} : Query(p, tags)
  \/ GetAll(p) \/ Clear(p) \/ Rebuild(p) \/ BreakOff(p)
  \/ \E k \in Key : MetaSave(p, k, 7) \/ MetaDelete(p, k)
  \/ MetaClear(p)

StoreQuiet ==
  /\ calls = MaxCalls /\ \A p \in Proc : pc[p] = "idle"
  /\ UNCHANGED allVars

StoreNext ==
  \/ \E p \in Proc : StoreStep(p) \/ StoreCall(p)
  \/ \E p \in Proc :
       /\ "tags" \in Methods
       /\ TagIndexStep(p) \/ TagIndexCall(p)
       /\ UNCHANGED storeVars
  \/ BeginBatch
  \/ StoreQuiet

StoreSpec == StoreInit /\ [][StoreNext]_allVars

-----------------------------------------------------------------------------
(* Properties *)

\* Whenever nobody writes a key, it has a file for exactly the tags of its state, also
\* after a save that follows one broken off at any point.  Errors are ignored, but only
\* the file of a tag whose own writing or deletion failed can be wrong, for as long as
\* nobody writes or deletes it again.
TagFilesFollowStates ==
  \A k \in Key \ torn, t \in Tag : Writers(k) = {} /\ <<t, k>> \notin failed =>
    (<<t, k>> \in tagFile <=> t \in StateTags(k))

\* A query finds exactly the keys whose state has all its tags, among those that nobody
\* wrote while it ran, however tag files and states of others change under it.
QueriesAreRight ==
  \A p \in Working("query") : pc[p] = "get" /\ work[p].todo = {} =>
    \A k \in Key \ (torn \cup work[p].touched) :
      (\A t \in call[p].tags : <<t, k>> \notin failed) =>
        (k \in work[p].found <=> Exists(k) /\ call[p].tags \subseteq StateTags(k))

\* No change of an entry of the index undoes that of another, if those that change it
\* hold the lock of ProjectionMetadataIndex or do it one after the other.
EntriesAreKept == ~stale => MetaEntries = Restrict(wanted, {k \in Key : wanted[k] # 0})
=============================================================================
