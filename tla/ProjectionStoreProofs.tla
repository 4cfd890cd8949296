------------------------- MODULE ProjectionStoreProofs -------------------------
(***************************************************************************)
(* Proofs about ProjectionTagIndex and ProjectionStore for any callers,    *)
(* keys, tags and bounds.                                                  *)
(*                                                                         *)
(* Tag index: a key list is only changed under the lock of its tag, so the *)
(* list that was read is still the list when it is written (HeldReads).    *)
(* Hence a change of one key leaves the others alone, and of the key being *)
(* moved it is known for each tag whether it has been moved (Moving).      *)
(* This needs a file of its own for each tag.                              *)
(*                                                                         *)
(* Store: the tag files of a key never exceed the tags of its state file,  *)
(* because all of them go before the state is replaced (Tagging).  Thus a  *)
(* save heals what one that was broken off left behind.  A file whose last *)
(* writing or deletion failed counts for neither side.                     *)
(***************************************************************************)
EXTENDS ProjectionStore, TLAPS

\* No two tags have the same file.
FilesDiffer == \A s, t \in Tag : PathOf(s) = PathOf(t) => s = t

-----------------------------------------------------------------------------
(* Types, and what a caller is doing *)

Ops == {"none", "update", "lookup", "delete_all", "save", "delete", "query", "rebuild", "metadata"}

Labels == {"idle", "tags", "lock_tag", "keys", "write_keys", "release", "lookup", "delete_all",
           "old_state", "untag", "write_state", "write_index", "tag", "drop_entry", "delete_state",
           "list_tag", "get", "rebuild", "lock_meta", "read_meta", "write_meta", "unlock_meta"}

CallType == [op : Ops, key : SUBSET Key, tags : SUBSET Tag]

ChangeType == [remove : SUBSET Tag, add : SUBSET Tag, tag : SUBSET Tag, read : SUBSET Key]

LookupType == [todo : SUBSET Tag, found : SUBSET Key, touched : SUBSET Key]

WorkType == [tags : SUBSET Tag, read : [Key -> Nat], version : Nat,
             found : SUBSET Key, todo : SUBSET Key, touched : SUBSET Key]

TagTypes ==
  /\ pc \in [Proc -> Labels] /\ call \in [Proc -> CallType]
  /\ keyList \in [Paths -> SUBSET Key]
  /\ tagLock \in [Tag -> Proc \cup {Free}]
  /\ change \in [Proc -> ChangeType] /\ lookup \in [Proc -> LookupType]
  /\ tagsOf \in [Key -> SUBSET Tag] /\ broken \in SUBSET Key

StoreTypes ==
  /\ file \in [Key -> [version : Nat, tags : SUBSET Tag]]
  /\ index \in [Key -> Nat] /\ wanted \in [Key -> Nat]
  /\ tagFile \in SUBSET (Tag \X Key)
  /\ batch \in BOOLEAN /\ stale \in BOOLEAN
  /\ metaLock \in Proc \cup {Free}
  /\ work \in [Proc -> WorkType]
  /\ torn \in SUBSET Key
  /\ failed \in SUBSET (Tag \X Key)

\* Which labels belong to which operation.
Phase(p) ==
  /\ call[p].op \in Ops
  /\ call[p].op = "none" <=> pc[p] = "idle"
  /\ call[p].op = "update" <=> pc[p] \in {"tags", "lock_tag", "keys", "write_keys", "release"}
  /\ call[p].op = "lookup" <=> pc[p] = "lookup"
  /\ call[p].op = "delete_all" <=> pc[p] = "delete_all"
  /\ call[p].op = "save" => pc[p] \in {"old_state", "untag", "write_state", "write_index", "tag"}
  /\ call[p].op = "delete" => pc[p] \in {"old_state", "untag", "drop_entry", "delete_state"}
  /\ call[p].op = "query" <=> pc[p] \in {"list_tag", "get"}
  /\ call[p].op = "rebuild" <=> pc[p] = "rebuild"
  /\ call[p].op = "metadata" <=> pc[p] \in {"lock_meta", "read_meta", "write_meta", "unlock_meta"}
  /\ call[p].op \in {"update", "save", "delete"} => \E k \in Key : call[p].key = {k}

TypeInv == TagTypes /\ StoreTypes /\ \A p \in Proc : Phase(p)

\* A step of p in the tag index.
TagActs(p) == (TagIndexStep(p) \/ TagIndexCall(p)) /\ UNCHANGED storeVars

StoreActs(p) == StoreStep(p) \/ StoreCall(p)

LEMMA WhoActs ==
  ASSUME [StoreNext]_allVars
  PROVE  \/ \E p \in Proc : TagActs(p) \/ StoreActs(p)
         \/ BeginBatch \/ UNCHANGED allVars
BY DEF StoreNext, TagActs, StoreActs, StoreQuiet

LEMMA TypeInit == StoreInit => TypeInv
<1> SUFFICES ASSUME StoreInit PROVE TypeInv
  OBVIOUS
<1> USE DEF StoreInit, TagIndexInit
<1>1. NoCall \in CallType /\ NoLookup \in LookupType /\ NoChange \in ChangeType
  <2>1. NoCall \in CallType
    BY DEF NoCall, CallType, Ops
  <2>2. NoLookup \in LookupType
    BY DEF NoLookup, LookupType
  <2>3. NoChange \in ChangeType
    BY DEF NoChange, ChangeType
  <2> QED
    BY <2>1, <2>2, <2>3
<1>2. NoWork \in WorkType /\ NoFile \in [version : Nat, tags : SUBSET Tag]
  BY DEF NoWork, WorkType, NoFile
<1>3. TagTypes
  <2>1. "idle" \in Labels
    BY DEF Labels
  <2>2. pc \in [Proc -> Labels] /\ call \in [Proc -> CallType]
    BY <1>1, <2>1
  <2>3. change \in [Proc -> ChangeType] /\ lookup \in [Proc -> LookupType]
    BY <1>1
  <2> QED
    BY <2>2, <2>3 DEF TagTypes
<1>4. StoreTypes
  BY <1>2 DEF StoreTypes
<1>5. \A p \in Proc : Phase(p)
  BY DEF Phase, NoCall, Ops
<1> QED
  BY <1>3, <1>4, <1>5 DEF TypeInv

\* A caller changes the label and the call of no other.
LEMMA OthersStay ==
  ASSUME TagTypes, NEW p \in Proc, TagActs(p) \/ StoreActs(p)
  PROVE  \A q \in Proc : q # p => pc'[q] = pc[q] /\ call'[q] = call[q]
<1> USE DEF TagTypes, Go, Return, Start, callVars
<1>1. CASE TagActs(p)
  BY <1>1 DEF TagActs, TagIndexStep, TagIndexCall, UpdateTags, SkipRemoval, AskForTagLock, AcquireTagLock,
       ReadKeys, WriteKeys, ReleaseTagLock, EndUpdate, DeleteAllIndices, DeleteIndex, EndDeleteAll,
       BreakOffUpdate, LookUp, ReadTagList, EndLookUp
<1>2. CASE StoreStep(p)
  <2>1. ASSUME NEW k \in Key,
               \/ GetOldState(p, k) \/ OldStateUnreadable(p, k) \/ ReadMetadata(p, k) \/ WriteState(p, k)
               \/ WriteIndex(p, k) \/ ReadEntry(p, k) \/ DropEntry(p, k) \/ DeleteState(p, k)
               \/ Get(p, k) \/ ReadVersion(p, k)
        PROVE  \A q \in Proc : q # p => pc'[q] = pc[q] /\ call'[q] = call[q]
    BY <2>1 DEF GetOldState, OldStateUnreadable, ReadMetadata, WriteState, WriteIndex, ReadEntry,
         DropEntry, DeleteState, Get, ReadVersion
  <2>2. ASSUME NEW k \in Key, NEW t \in Tag,
               RemoveTagFile(p, k, t) \/ AddTagFile(p, k, t) \/ TagFileFails(p, k, t)
        PROVE  \A q \in Proc : q # p => pc'[q] = pc[q] /\ call'[q] = call[q]
    BY <2>2 DEF RemoveTagFile, AddTagFile, TagFileFails
  <2>3. ASSUME NEW t \in Tag, ListTag(p, t)
        PROVE  \A q \in Proc : q # p => pc'[q] = pc[q] /\ call'[q] = call[q]
    BY <2>3 DEF ListTag
  <2>4. CASE \/ EndSave(p) \/ EndListing(p) \/ EndQuery(p) \/ WriteRebuilt(p) \/ SkipMetaDelete(p)
             \/ LockMeta(p) \/ ReadMeta(p) \/ WriteMeta(p) \/ UnlockMeta(p)
    BY <2>4 DEF EndSave, EndListing, EndQuery, WriteRebuilt, SkipMetaDelete, LockMeta, ReadMeta,
         WriteMeta, UnlockMeta
  <2> QED
    BY <1>2, <2>1, <2>2, <2>3, <2>4 DEF StoreStep
<1>3. CASE StoreCall(p)
  BY <1>3 DEF StoreCall, Save, Delete, Query, GetAll, Clear, Rebuild, BreakOff, MetaSave, MetaDelete,
       MetaClear, MetaCall
<1> QED
  BY <1>1, <1>2, <1>3 DEF StoreActs

LEMMA TagActsTypes ==
  ASSUME TypeInv, NEW p \in Proc, TagActs(p)
  PROVE  TagTypes' /\ Phase(p)'
<1> USE DEF TypeInv, TagTypes, Phase, Go, Return, Start, callVars, Labels, Ops
<1>0. ASSUME NEW keys \in SUBSET Key, NoteUpdate(keys)
      PROVE  lookup' \in [Proc -> LookupType]
  <2>1. \A l \in LookupType : [l EXCEPT !.touched = @ \cup keys] \in LookupType
    BY DEF LookupType
  <2> QED
    BY <1>0, <2>1 DEF NoteUpdate
<1>1. NoCall \in CallType /\ NoChange \in ChangeType /\ NoLookup \in LookupType
  BY DEF NoCall, NoChange, NoLookup, CallType, ChangeType, LookupType
<1>2. \A t \in Tag : PathOf(t) \in Paths
  BY DEF Paths
<1>3. ASSUME NEW k \in Key, NEW new \in SUBSET Tag, UpdateTags(p, k, new)
      PROVE  TagTypes' /\ Phase(p)'
  <2>1. /\ call' = [call EXCEPT ![p] = [op |-> "update", key |-> {k}, tags |-> new]]
        /\ pc' = [pc EXCEPT ![p] = "tags"]
        /\ UNCHANGED <<keyList, tagLock, tagsOf, broken>>
    BY <1>3 DEF UpdateTags
  <2>2. [op |-> "update", key |-> {k}, tags |-> new] \in CallType
    BY DEF CallType
  <2>3. change' \in [Proc -> ChangeType]
    <3>1. [NoChange EXCEPT !.remove = tagsOf[k] \ new, !.add = new \ tagsOf[k]] \in ChangeType
      BY DEF NoChange, ChangeType
    <3> QED
      BY <1>3, <3>1 DEF UpdateTags
  <2>4. lookup' \in [Proc -> LookupType]
    BY <1>0, <1>3 DEF UpdateTags
  <2> QED
    BY <2>1, <2>2, <2>3, <2>4
<1>4. ASSUME NEW t \in Tag, SkipRemoval(p, t) \/ ReleaseTagLock(p, t)
      PROVE  TagTypes' /\ Phase(p)'
  <2>1. change' \in [Proc -> ChangeType]
    BY <1>4 DEF SkipRemoval, ReleaseTagLock, Done, ChangeType
  <2> QED
    BY <1>4, <2>1 DEF SkipRemoval, ReleaseTagLock
<1>5. ASSUME NEW t \in Tag, AskForTagLock(p, t) \/ AcquireTagLock(p, t) \/ ReadKeys(p, t)
      PROVE  TagTypes' /\ Phase(p)'
  <2>1. change' \in [Proc -> ChangeType]
    <3>1. \A c \in ChangeType : /\ [c EXCEPT !.tag = {t}] \in ChangeType
                                /\ \A K \in SUBSET Key : [c EXCEPT !.read = K] \in ChangeType
      BY DEF ChangeType
    <3>2. keyList[PathOf(t)] \in SUBSET Key
      BY <1>2
    <3>3. CASE AskForTagLock(p, t)
      BY <3>1, <3>3 DEF AskForTagLock
    <3>5. CASE AcquireTagLock(p, t)
      BY <3>5 DEF AcquireTagLock
    <3>4. CASE ReadKeys(p, t)
      <4>1. change' = [change EXCEPT ![p] = [@ EXCEPT !.read = keyList[PathOf(t)]]]
        BY <3>4 DEF ReadKeys
      <4> QED
        BY <3>1, <3>2, <4>1
    <3> QED
      BY <1>5, <3>3, <3>4, <3>5
  <2> QED
    BY SMTT(30), <1>5, <2>1 DEF AskForTagLock, AcquireTagLock, ReadKeys
<1>6. ASSUME NEW t \in Tag, WriteKeys(p, t)
      PROVE  TagTypes' /\ Phase(p)'
  <2>1. keyList' \in [Paths -> SUBSET Key]
    BY <1>2, <1>6 DEF WriteKeys, ChangeType, CallType
  <2> QED
    BY <1>6, <2>1 DEF WriteKeys
<1>7. ASSUME NEW t \in Tag, ReadTagList(p, t)
      PROVE  TagTypes' /\ Phase(p)'
  <2>1. lookup' \in [Proc -> LookupType]
    <3>1. \A l \in LookupType : \A T, K :
            [l EXCEPT !.todo = IF T THEN {} ELSE @ \ {t}, !.found = @ \cap K] \in LookupType
      BY DEF LookupType
    <3> QED
      BY <1>7, <3>1 DEF ReadTagList
  <2> QED
    BY <1>7, <2>1 DEF ReadTagList
<1>8. CASE EndUpdate(p)
  <2>1. tagsOf' \in [Key -> SUBSET Tag]
    BY <1>8 DEF EndUpdate, CallType
  <2> QED
    BY <1>1, <1>8, <2>1 DEF EndUpdate, NoCall
<1>9. CASE EndDeleteAll(p) \/ EndLookUp(p)
  <2>1. CASE EndDeleteAll(p)
    BY <1>1, <2>1 DEF EndDeleteAll, tagVars, NoCall
  <2>2. CASE EndLookUp(p)
    BY <1>1, <2>2 DEF EndLookUp, NoCall
  <2> QED
    BY <1>9, <2>1, <2>2
<1>10. ASSUME NEW path \in Paths, DeleteIndex(p, path)
       PROVE  TagTypes' /\ Phase(p)'
  BY <1>10 DEF DeleteIndex
<1>11. CASE DeleteAllIndices(p)
  <2>1. lookup' \in [Proc -> LookupType]
    BY <1>0, <1>11 DEF DeleteAllIndices
  <2>2. [op |-> "delete_all", key |-> {}, tags |-> {}] \in CallType
    BY DEF CallType
  <2> QED
    BY <1>11, <2>1, <2>2 DEF DeleteAllIndices
<1>12. CASE BreakOffUpdate(p)
  BY <1>1, <1>12 DEF BreakOffUpdate, NoCall, CallType
<1>13. ASSUME NEW tags \in SUBSET Tag, LookUp(p, tags)
       PROVE  TagTypes' /\ Phase(p)'
  <2>1. lookup' \in [Proc -> LookupType]
    <3>1. UNION {call[q].key : q \in Working("update")} \in SUBSET Key
      BY DEF Working, CallType
    <3> QED
      BY <1>13, <3>1 DEF LookUp, LookupType
  <2>2. [op |-> "lookup", key |-> {}, tags |-> tags] \in CallType
    BY DEF CallType
  <2> QED
    BY <1>13, <2>1, <2>2 DEF LookUp
<1> QED
  BY <1>3, <1>4, <1>5, <1>6, <1>7, <1>8, <1>9, <1>10, <1>11, <1>12, <1>13
     DEF TagActs, TagIndexStep, TagIndexCall

\* A step of the store keeps the types of the tag index.
LEMMA StoreActsCalls ==
  ASSUME TypeInv, NEW p \in Proc, StoreActs(p)
  PROVE  UNCHANGED tagVars /\ TagTypes' /\ Phase(p)'
<1> USE DEF TypeInv, TagTypes, Phase, Go, Return, Start, callVars, Labels, Ops
<1>1. NoCall \in CallType
  BY DEF NoCall, CallType
<1>2. ASSUME NEW k \in Key, NEW tags \in SUBSET Tag, Save(p, k, tags)
      PROVE  UNCHANGED tagVars /\ TagTypes' /\ Phase(p)'
  <2>1. [op |-> "save", key |-> {k}, tags |-> tags] \in CallType
    BY DEF CallType
  <2> QED
    BY <1>2, <2>1 DEF Save, tagVars
<1>3. ASSUME NEW k \in Key, Delete(p, k)
      PROVE  UNCHANGED tagVars /\ TagTypes' /\ Phase(p)'
  <2>1. [op |-> "delete", key |-> {k}, tags |-> {}] \in CallType
    BY DEF CallType
  <2> QED
    BY <1>3, <2>1 DEF Delete, tagVars
<1>4. ASSUME NEW tags \in SUBSET Tag, Query(p, tags)
      PROVE  UNCHANGED tagVars /\ TagTypes' /\ Phase(p)'
  <2>1. [op |-> "query", key |-> {}, tags |-> tags] \in CallType
    BY DEF CallType
  <2> QED
    BY <1>4, <2>1 DEF Query, tagVars
<1>5. ASSUME NEW keys \in SUBSET Key, NEW version, MetaCall(p, keys, version)
      PROVE  UNCHANGED tagVars /\ TagTypes' /\ Phase(p)'
  <2>1. [op |-> "metadata", key |-> keys, tags |-> {}] \in CallType
    BY DEF CallType
  <2> QED
    BY <1>5, <2>1 DEF MetaCall, tagVars
<1>6. CASE GetAll(p)
  <2>1. [op |-> "query", key |-> {}, tags |-> {}] \in CallType
    BY DEF CallType
  <2> QED
    BY <1>6, <2>1 DEF GetAll, tagVars
<1>7. CASE Rebuild(p)
  <2>1. [op |-> "rebuild", key |-> {}, tags |-> {}] \in CallType
    BY DEF CallType
  <2> QED
    BY <1>7, <2>1 DEF Rebuild, tagVars
<1>8. CASE Clear(p)
  BY <1>1, <1>8 DEF Clear, NoCall, tagVars
<1>9. CASE BreakOff(p)
  BY <1>1, <1>9 DEF BreakOff, NoCall, tagVars
<1>10. ASSUME NEW k \in Key, \/ GetOldState(p, k) \/ OldStateUnreadable(p, k)
                             \/ ReadMetadata(p, k) \/ WriteState(p, k) \/ WriteIndex(p, k)
                             \/ ReadEntry(p, k) \/ DropEntry(p, k)
       PROVE  UNCHANGED tagVars /\ TagTypes' /\ Phase(p)'
  BY <1>10 DEF GetOldState, OldStateUnreadable, OneFails, ReadMetadata, WriteState, WriteIndex, ReadEntry, DropEntry, tagVars
<1>11. ASSUME NEW k \in Key, DeleteState(p, k)
       PROVE  UNCHANGED tagVars /\ TagTypes' /\ Phase(p)'
  BY <1>1, <1>11 DEF DeleteState, NoCall, tagVars
<1>12. ASSUME NEW k \in Key, Get(p, k) \/ ReadVersion(p, k)
       PROVE  UNCHANGED tagVars /\ TagTypes' /\ Phase(p)'
  BY <1>12 DEF Get, ReadVersion, tagVars
<1>13. ASSUME NEW k \in Key, NEW t \in Tag,
              RemoveTagFile(p, k, t) \/ AddTagFile(p, k, t) \/ TagFileFails(p, k, t)
       PROVE  UNCHANGED tagVars /\ TagTypes' /\ Phase(p)'
  BY <1>13 DEF RemoveTagFile, AddTagFile, TagFileFails, tagVars
<1>14. ASSUME NEW t \in Tag, ListTag(p, t)
       PROVE  UNCHANGED tagVars /\ TagTypes' /\ Phase(p)'
  BY <1>14 DEF ListTag, tagVars
<1>15. CASE EndSave(p)
  BY <1>1, <1>15 DEF EndSave, NoCall, tagVars
<1>16. CASE EndQuery(p)
  BY <1>1, <1>16 DEF EndQuery, NoCall, tagVars
<1>17. CASE WriteRebuilt(p)
  BY <1>1, <1>17 DEF WriteRebuilt, NoCall, tagVars
<1>18. CASE SkipMetaDelete(p)
  BY <1>1, <1>18 DEF SkipMetaDelete, NoCall, tagVars
<1>19. CASE UnlockMeta(p)
  BY <1>1, <1>19 DEF UnlockMeta, NoCall, tagVars
<1>20. CASE EndListing(p) \/ LockMeta(p) \/ ReadMeta(p) \/ WriteMeta(p)
  BY <1>20 DEF EndListing, LockMeta, ReadMeta, WriteMeta, tagVars
<1>21. CASE StoreStep(p)
  BY <1>10, <1>11, <1>12, <1>13, <1>14, <1>15, <1>16, <1>17, <1>18, <1>19, <1>20, <1>21 DEF StoreStep
<1>22. CASE StoreCall(p)
  BY <1>2, <1>3, <1>4, <1>5, <1>6, <1>7, <1>8, <1>9, <1>22
     DEF StoreCall, MetaSave, MetaDelete, MetaClear
<1> QED
  BY <1>21, <1>22 DEF StoreActs

\* A step of the store keeps the types of the store.
LEMMA StoreActsTypes ==
  ASSUME TypeInv, NEW p \in Proc, StoreActs(p)
  PROVE  StoreTypes'
<1> USE DEF TypeInv, StoreTypes, files, ghosts
<1>0. /\ NoWork \in WorkType /\ NoFile \in [version : Nat, tags : SUBSET Tag]
      /\ [k \in Key |-> 0] \in [Key -> Nat]
  BY DEF NoWork, WorkType, NoFile
<1>1. /\ \A w \in WorkType : /\ \A T \in SUBSET Tag : [w EXCEPT !.tags = T] \in WorkType
                             /\ \A r \in [Key -> Nat] : [w EXCEPT !.read = r] \in WorkType
                             /\ \A v \in Nat : [w EXCEPT !.version = v] \in WorkType
                             /\ \A K \in SUBSET Key : /\ [w EXCEPT !.found = K] \in WorkType
                                                      /\ [w EXCEPT !.todo = K] \in WorkType
                                                      /\ [w EXCEPT !.touched = K] \in WorkType
      /\ \A w \in WorkType : /\ w.tags \in SUBSET Tag /\ w.read \in [Key -> Nat] /\ w.version \in Nat
                             /\ w.found \in SUBSET Key /\ w.todo \in SUBSET Key
                             /\ w.touched \in SUBSET Key
  BY DEF WorkType
<1>1a. /\ \A w \in WorkType, v \in Nat, r \in [Key -> Nat] :
            [w EXCEPT !.version = v, !.read = r] \in WorkType
       /\ \A w \in WorkType, K \in SUBSET Key, r \in [Key -> Nat] :
            [w EXCEPT !.todo = K, !.read = r] \in WorkType
       /\ \A w \in WorkType, K, L \in SUBSET Key : [w EXCEPT !.todo = K, !.found = L] \in WorkType
       /\ \A w \in WorkType, T \in SUBSET Tag, K \in SUBSET Key :
            [w EXCEPT !.tags = T, !.found = K] \in WorkType
  BY DEF WorkType
<1>1b. \A n \in Nat : n + 1 \in Nat
  OBVIOUS
<1>2. \A k \in Key : file[k].version \in Nat /\ file[k].tags \in SUBSET Tag /\ index[k] \in Nat
  OBVIOUS
<1>3. \A w : w \in WorkType => [work EXCEPT ![p] = w] \in [Proc -> WorkType]
  OBVIOUS
<1>4. \A k \in Key : Touch(work, k) \in [Proc -> WorkType]
  BY <1>1 DEF Touch
<1>5. ASSUME NEW k \in Key, GetOldState(p, k)
      PROVE  StoreTypes'
  <2>1. [Touch(work, k)[p] EXCEPT !.tags = StateTags(k)] \in WorkType
    BY <1>1, <1>2, <1>4 DEF StateTags
  <2>2. work' \in [Proc -> WorkType]
    BY <1>4, <1>5, <2>1 DEF GetOldState
  <2> QED
    BY <1>5, <2>2 DEF GetOldState
<1>33. ASSUME NEW k \in Key, OldStateUnreadable(p, k)
       PROVE  StoreTypes'
  <2>1. work' \in [Proc -> WorkType]
    BY <1>4, <1>33 DEF OldStateUnreadable
  <2>2. failed' \in SUBSET (Tag \X Key)
    BY <1>2, <1>33 DEF OldStateUnreadable, StateTags
  <2> QED
    BY <1>33, <2>1, <2>2 DEF OldStateUnreadable
<1>6. ASSUME NEW k \in Key, NEW t \in Tag,
             RemoveTagFile(p, k, t) \/ AddTagFile(p, k, t) \/ TagFileFails(p, k, t)
      PROVE  StoreTypes'
  <2>1. [work[p] EXCEPT !.tags = @ \ {t}] \in WorkType
    BY <1>1
  <2>2. work' \in [Proc -> WorkType]
    BY <1>6, <2>1 DEF RemoveTagFile, AddTagFile, TagFileFails
  <2> QED
    BY <1>6, <2>2 DEF RemoveTagFile, AddTagFile, TagFileFails
<1>7. ASSUME NEW k \in Key, ReadMetadata(p, k)
      PROVE  StoreTypes'
  <2>1. [work[p] EXCEPT !.version = file[k].version + 1] \in WorkType
    BY <1>1, <1>2, <1>1b
  <2>2. [work[p] EXCEPT !.version = index[k] + 1, !.read = index] \in WorkType
    BY <1>2, <1>1a, <1>1b
  <2>3. work' \in [Proc -> WorkType]
    <3>1. CASE batch
      BY <1>3, <1>7, <2>1, <3>1 DEF ReadMetadata
    <3>2. CASE ~batch
      <4>1. work' = [work EXCEPT ![p] = [@ EXCEPT !.version = index[k] + 1, !.read = index]]
        BY <1>7, <3>2 DEF ReadMetadata
      <4> QED
        BY <1>3, <2>2, <4>1
    <3> QED
      BY <3>1, <3>2
  <2>4. stale' \in BOOLEAN
    BY <1>7 DEF ReadMetadata, Overlap
  <2> QED
    BY <1>7, <2>3, <2>4 DEF ReadMetadata
<1>8. ASSUME NEW k \in Key, WriteState(p, k)
      PROVE  StoreTypes'
  <2>1. [work[p] EXCEPT !.tags = call[p].tags] \in WorkType
    BY <1>1 DEF TagTypes, CallType
  <2>2. work' \in [Proc -> WorkType]
    BY <1>8, <2>1 DEF WriteState
  <2>3. file' \in [Key -> [version : Nat, tags : SUBSET Tag]]
    <3>1. [version |-> work[p].version, tags |-> call[p].tags] \in [version : Nat, tags : SUBSET Tag]
      BY <1>1 DEF TagTypes, CallType
    <3> QED
      BY <1>8, <3>1 DEF WriteState
  <2> QED
    BY <1>8, <2>2, <2>3 DEF WriteState
<1>9. ASSUME NEW k \in Key, WriteIndex(p, k)
      PROVE  StoreTypes'
  <2>1. [work[p] EXCEPT !.tags = call[p].tags] \in WorkType
    BY <1>1 DEF TagTypes, CallType
  <2>2. work' \in [Proc -> WorkType]
    BY <1>9, <2>1 DEF WriteIndex
  <2>3. index' \in [Key -> Nat] /\ wanted' \in [Key -> Nat]
    BY <1>1, <1>9 DEF WriteIndex, SetEntry
  <2> QED
    BY <1>9, <2>2, <2>3 DEF WriteIndex
<1>10. ASSUME NEW k \in Key, ReadEntry(p, k)
       PROVE  StoreTypes'
  <2>1. [work[p] EXCEPT !.read = index] \in WorkType
    BY <1>1
  <2>2. work' \in [Proc -> WorkType] /\ stale' \in BOOLEAN
    BY <1>10, <2>1 DEF ReadEntry, Overlap
  <2> QED
    BY <1>10, <2>2 DEF ReadEntry
<1>11. ASSUME NEW k \in Key, DropEntry(p, k)
       PROVE  StoreTypes'
  <2>1. index' \in [Key -> Nat] /\ wanted' \in [Key -> Nat]
    BY <1>1, <1>11 DEF DropEntry, SetEntry
  <2> QED
    BY <1>11, <2>1 DEF DropEntry
<1>12. ASSUME NEW k \in Key, DeleteState(p, k)
       PROVE  StoreTypes'
  BY <1>0, <1>12 DEF DeleteState
<1>13. ASSUME NEW k \in Key, Get(p, k)
       PROVE  StoreTypes'
  <2> DEFINE found == IF Exists(k) THEN work[p].found ELSE work[p].found \ {k}
  <2>1. [work[p] EXCEPT !.todo = work[p].todo \ {k}, !.found = found] \in WorkType
    BY <1>1, <1>1a
  <2>2. work' = [work EXCEPT ![p] = [work[p] EXCEPT !.todo = work[p].todo \ {k}, !.found = found]]
    BY <1>13 DEF Get
  <2>3. work' \in [Proc -> WorkType]
    BY <1>3, <2>1, <2>2
  <2> QED
    BY <1>13, <2>3 DEF Get
<1>14. ASSUME NEW k \in Key, ReadVersion(p, k)
       PROVE  StoreTypes'
  <2> DEFINE read == [work[p].read EXCEPT ![k] = file[k].version]
  <2>1. [work[p] EXCEPT !.todo = work[p].todo \ {k}, !.read = read] \in WorkType
    <3>1. read \in [Key -> Nat]
      BY <1>1, <1>2
    <3> HIDE DEF read
    <3> QED
      BY <1>1, <1>1a, <3>1
  <2>2. work' = [work EXCEPT ![p] = [work[p] EXCEPT !.todo = work[p].todo \ {k}, !.read = read]]
    <3> DEFINE left == work[p].todo \ {k}
               one == [work EXCEPT ![p].todo = left]
    <3>1. work' = [one EXCEPT ![p].read[k] = file[k].version]
      BY <1>14, Zenon DEF ReadVersion
    <3>2. one = [work EXCEPT ![p] = [work[p] EXCEPT !.todo = left]] /\ work \in [Proc -> WorkType]
      BY Zenon
    <3> HIDE DEF left
    <3>3. one[p] = [work[p] EXCEPT !.todo = left] /\ one[p].read = work[p].read
      BY <3>2 DEF WorkType
    <3> HIDE DEF one
    <3>4. work' = [one EXCEPT ![p] = [one[p] EXCEPT !.read = [one[p].read EXCEPT ![k] = file[k].version]]]
      BY <3>1, Zenon
    <3>5. [one[p].read EXCEPT ![k] = file[k].version] = read
      BY <3>3
    <3> HIDE DEF read
    <3>6. work' = [one EXCEPT ![p] = [[work[p] EXCEPT !.todo = left] EXCEPT !.read = read]]
      BY <3>3, <3>4, <3>5
    <3>7. work' = [work EXCEPT ![p] = [[work[p] EXCEPT !.todo = left] EXCEPT !.read = read]]
      BY <3>2, <3>6
    <3> QED
      BY <3>7 DEF left
  <2>3. work' \in [Proc -> WorkType]
    BY <1>3, <2>1, <2>2
  <2> QED
    BY <1>14, <2>3 DEF ReadVersion
<1>15. ASSUME NEW t \in Tag, ListTag(p, t)
       PROVE  StoreTypes'
  <2> DEFINE found == {k \in work[p].found : <<t, k>> \in tagFile}
  <2>1. [work[p] EXCEPT !.tags = work[p].tags \ {t}, !.found = found] \in WorkType
    BY <1>1, <1>1a
  <2>2. work' = [work EXCEPT ![p] = [work[p] EXCEPT !.tags = work[p].tags \ {t}, !.found = found]]
    BY <1>15 DEF ListTag
  <2>3. work' \in [Proc -> WorkType]
    BY <1>3, <2>1, <2>2
  <2> QED
    BY <1>15, <2>3 DEF ListTag
<1>16. CASE EndSave(p) \/ EndQuery(p)
  BY <1>0, <1>16 DEF EndSave, EndQuery
<1>17. CASE EndListing(p)
  BY <1>1, <1>17 DEF EndListing
<1>18. CASE WriteRebuilt(p)
  BY <1>0, <1>1, <1>18 DEF WriteRebuilt
<1>19. CASE SkipMetaDelete(p) \/ UnlockMeta(p)
  BY <1>0, <1>19 DEF SkipMetaDelete, UnlockMeta
<1>20. CASE LockMeta(p)
  BY <1>20 DEF LockMeta
<1>21. CASE ReadMeta(p)
  BY <1>1, <1>21 DEF ReadMeta
<1>22. CASE WriteMeta(p)
  BY <1>1, <1>22 DEF WriteMeta
<1>24. ASSUME NEW tags \in SUBSET Tag, Query(p, tags)
       PROVE  StoreTypes'
  <2>1. [NoWork EXCEPT !.tags = tags, !.found = Key, !.touched = {k \in Key : Writers(k) # {}}] \in WorkType
    BY <1>0 DEF NoWork, WorkType
  <2>2. work' \in [Proc -> WorkType]
    BY <1>3, <1>24, <2>1 DEF Query
  <2> QED
    BY <1>24, <2>2 DEF Query
<1>25. CASE GetAll(p)
  <2>1. [NoWork EXCEPT !.found = StateFiles, !.todo = StateFiles,
                       !.touched = {k \in Key : Writers(k) # {}}] \in WorkType
    BY <1>0 DEF NoWork, WorkType, StateFiles
  <2>2. work' \in [Proc -> WorkType]
    BY <1>3, <1>25, <2>1 DEF GetAll
  <2> QED
    BY <1>25, <2>2 DEF GetAll
<1>26. CASE Rebuild(p)
  <2>1. [NoWork EXCEPT !.todo = StateFiles] \in WorkType
    BY <1>0, <1>1 DEF StateFiles
  <2>2. work' \in [Proc -> WorkType]
    BY <1>3, <1>26, <2>1 DEF Rebuild
  <2> QED
    BY <1>26, <2>2 DEF Rebuild
<1>27. CASE Clear(p)
  <2>1. work' \in [Proc -> WorkType]
    BY <1>1, <1>27 DEF Clear
  <2> QED
    BY <1>0, <1>27, <2>1 DEF Clear
<1>28. CASE BreakOff(p)
  BY <1>0, <1>28 DEF BreakOff, TagTypes, CallType
<1>29. ASSUME NEW keys, NEW version \in Nat, MetaCall(p, keys, version)
       PROVE  StoreTypes'
  BY <1>1, <1>29 DEF MetaCall
<1>30. ASSUME NEW k \in Key, NEW tags \in SUBSET Tag, Save(p, k, tags) \/ Delete(p, k)
       PROVE  StoreTypes'
  BY <1>30 DEF Save, Delete, storeVars
<1>31. CASE StoreStep(p)
  BY <1>5, <1>6, <1>7, <1>8, <1>9, <1>10, <1>11, <1>12, <1>13, <1>14, <1>15, <1>16, <1>17, <1>18,
     <1>19, <1>20, <1>21, <1>22, <1>31, <1>33 DEF StoreStep
<1>32. CASE StoreCall(p)
  BY <1>24, <1>25, <1>26, <1>27, <1>28, <1>29, <1>30, <1>32
     DEF StoreCall, MetaSave, MetaDelete, MetaClear
<1> QED
  BY <1>31, <1>32 DEF StoreActs

LEMMA TypeInvStep ==
  ASSUME TypeInv, [StoreNext]_allVars
  PROVE  TypeInv'
<1> USE DEF TypeInv
<1>1. ASSUME NEW p \in Proc, TagActs(p) \/ StoreActs(p)
      PROVE  TypeInv'
  <2>1. TagTypes' /\ Phase(p)' /\ StoreTypes'
    <3>1. CASE TagActs(p)
      <4>1. UNCHANGED storeVars
        BY <3>1 DEF TagActs
      <4> QED
        BY <3>1, <4>1, TagActsTypes DEF StoreTypes, storeVars, files, ghosts
    <3> QED
      BY <1>1, <3>1, StoreActsCalls, StoreActsTypes
  <2>2. \A q \in Proc \ {p} : Phase(q)'
    BY <1>1, OthersStay DEF Phase
  <2> QED
    BY <2>1, <2>2
<1>2. CASE BeginBatch
  BY <1>2 DEF BeginBatch, TagTypes, StoreTypes, Phase, callVars, tagVars, ghosts
<1>3. CASE UNCHANGED allVars
  BY <1>3 DEF allVars, TagTypes, StoreTypes, Phase, callVars, tagVars, storeVars, files, ghosts
<1> QED
  BY <1>1, <1>2, <1>3, WhoActs

-----------------------------------------------------------------------------
(* The inductive invariant of the tag index *)

\* The list of t has been written by p, which has yet to release the lock.
Listed(p, t) == pc[p] = "release" /\ change[p].tag = {t}

Updaters(k) == {p \in Working("update") : k \in call[p].key}

\* Locks exclude, and a caller only takes those of tags it moves its key from or to.
TagLocks ==
  /\ \A p \in Proc, t \in Tag : InTagLock(p, t) => tagLock[t] = p
  /\ \A p \in Proc : pc[p] \in {"lock_tag", "keys", "write_keys", "release"} =>
       \E t \in change[p].remove \cup change[p].add : change[p].tag = {t}

\* Those who own the keys do not update one twice at a time, nor during delete_all_indices.
Owners ==
  /\ \A p, q \in Proc : call[p].op = "update" /\ call[q].op = "update" /\ call[p].key = call[q].key => p = q
  /\ \A p, q \in Proc : call[p].op = "update" => call[q].op # "delete_all"
  /\ \A p \in Proc, k \in Key : call[p].op = "delete_all" => tagsOf[k] = {}

\* The list read under the lock of its tag is still the list of the tag.
HeldReads ==
  \A p \in Proc, t \in Tag :
    pc[p] = "write_keys" /\ change[p].tag = {t} => change[p].read = keyList[PathOf(t)]

\* Which of its tags an update has moved its key to so far.
Moved(p) ==
  /\ change[p].remove \cap call[p].tags = {}
  /\ change[p].add \subseteq call[p].tags
  /\ \A k \in call[p].key \ broken, t \in Tag :
       k \in keyList[PathOf(t)] <=> \/ t \in change[p].remove /\ ~Listed(p, t)
                                    \/ t \in change[p].add /\ Listed(p, t)
                                    \/ t \in call[p].tags \ change[p].add

Moving == \A p \in Proc : call[p].op = "update" => Moved(p)

\* What a look-up has found of the keys that nobody updates.
Looking ==
  \A p \in Proc : call[p].op = "lookup" =>
    /\ lookup[p].todo \subseteq call[p].tags
    /\ \A k \in Key \ (broken \cup lookup[p].touched) :
         /\ Updaters(k) = {} /\ Working("delete_all") = {}
         /\ k \in lookup[p].found => call[p].tags \ lookup[p].todo \subseteq tagsOf[k]
         /\ k \notin lookup[p].found => ~(call[p].tags \subseteq tagsOf[k])

TagInv == TagLocks /\ Owners /\ HeldReads /\ Moving /\ TagListsExact /\ Looking

-----------------------------------------------------------------------------
(* The inductive invariant of the store *)

Writes(p) == call[p].op \in {"save", "delete"}

\* The tag files of k, but for those in `failed`.
TagsIn(k) == {t \in Tag : <<t, k>> \in tagFile \ failed}
FailedOf(k) == {t \in Tag : <<t, k>> \in failed}

\* Those who own the keys do not write one twice at a time, nor during rebuild.
KeyOwners ==
  /\ \A p, q \in Proc : Writes(p) /\ Writes(q) /\ call[p].key = call[q].key => p = q
  /\ \A p, q \in Proc : Writes(p) => call[q].op # "rebuild"

\* Where a writer is with the tag files of its key.
Tagged(p) ==
  \A k \in call[p].key :
    /\ pc[p] = "untag" => TagsIn(k) \subseteq work[p].tags
    /\ pc[p] \in {"write_state", "write_index", "drop_entry", "delete_state"} => TagsIn(k) = {}
    /\ pc[p] = "write_index" => StateTags(k) = call[p].tags
    /\ pc[p] = "tag" => /\ StateTags(k) = call[p].tags
                        /\ work[p].tags \subseteq call[p].tags
                        /\ call[p].tags \ work[p].tags \subseteq TagsIn(k) \cup FailedOf(k)

\* A key has a file only for tags of its state, and for each of them unless it is being
\* written or the last writer was broken off.
Tagging ==
  /\ \A k \in Key : TagsIn(k) \subseteq StateTags(k)
  /\ \A k \in Key \ torn :
       (\A p \in Proc : Writes(p) /\ k \in call[p].key => pc[p] = "old_state")
       => StateTags(k) \subseteq TagsIn(k) \cup FailedOf(k)
  /\ \A p \in Proc : Writes(p) => Tagged(p)

\* What a query has found of the keys that nobody writes.
Queried(p) ==
  /\ \A q \in Proc : Writes(q) /\ pc[q] # "old_state" => call[q].key \subseteq work[p].touched
  /\ pc[p] = "list_tag" => call[p].tags # {} /\ work[p].tags \subseteq call[p].tags
  /\ \A k \in Key \ (torn \cup work[p].touched) : call[p].tags \cap FailedOf(k) = {} =>
       /\ pc[p] = "list_tag" =>
            /\ k \in work[p].found => call[p].tags \ work[p].tags \subseteq StateTags(k)
            /\ k \notin work[p].found => ~(call[p].tags \subseteq StateTags(k))
       /\ pc[p] = "get" => (k \in work[p].found <=> Exists(k) /\ call[p].tags \subseteq StateTags(k))

Querying == \A p \in Proc : call[p].op = "query" => Queried(p)

\* p has read the index and is about to write it.
Changing(p) == pc[p] \in {"write_state", "write_index", "drop_entry", "write_meta"}

\* Unless changes of the index overlapped, at most one is under way, and it has read the
\* index as it is.
Entries ==
  /\ \A p \in Proc : InMetaLock(p) => metaLock = p
  /\ batch => stale \/ \A p \in Proc : pc[p] \notin {"write_state", "write_index", "drop_entry"}
  /\ ~stale => /\ index = wanted
               /\ \A p, q \in Proc : Changing(p) => work[p].read = index /\ (Changing(q) => p = q)

StoreInv == KeyOwners /\ Tagging /\ Querying /\ Entries

-----------------------------------------------------------------------------
(* The tag index: one lemma for each part of its invariant *)

\* What BreakOff and the end of a call in the store leave of the tag index.
LEMMA StoreActsOps ==
  ASSUME TypeInv, NEW p \in Proc, StoreActs(p)
  PROVE  /\ call[p].op \notin {"update", "lookup", "delete_all"}
         /\ call'[p].op \notin {"update", "lookup", "delete_all"}
         /\ call'[p] = call[p] \/ call[p].op = "none" \/ call'[p].op = "none"
<1> USE DEF TypeInv, TagTypes, Phase, Go, Return, Start, callVars, NoCall
<1>1. CASE StoreCall(p)
  <2>1. ASSUME NEW k \in Key, NEW tags \in SUBSET Tag, Save(p, k, tags) \/ Delete(p, k)
        PROVE  call[p].op = "none" /\ call'[p].op \in {"save", "delete"}
    BY <2>1 DEF Save, Delete
  <2>2. ASSUME NEW tags \in SUBSET Tag, Query(p, tags)
        PROVE  call[p].op = "none" /\ call'[p].op = "query"
    BY <2>2 DEF Query
  <2>3. ASSUME NEW keys, NEW version, MetaCall(p, keys, version)
        PROVE  call[p].op = "none" /\ call'[p].op = "metadata"
    BY <2>3 DEF MetaCall
  <2>4. CASE GetAll(p)
    BY <2>4 DEF GetAll
  <2>5. CASE Rebuild(p)
    BY <2>5 DEF Rebuild
  <2>6. CASE Clear(p)
    BY <2>6 DEF Clear
  <2>7. CASE BreakOff(p)
    BY <2>7 DEF BreakOff
  <2> QED
    BY <1>1, <2>1, <2>2, <2>3, <2>4, <2>5, <2>6, <2>7 DEF StoreCall, MetaSave, MetaDelete, MetaClear
<1>2. ASSUME NEW k \in Key, \/ GetOldState(p, k) \/ OldStateUnreadable(p, k)
                            \/ ReadMetadata(p, k) \/ WriteState(p, k) \/ WriteIndex(p, k)
                            \/ ReadEntry(p, k) \/ DropEntry(p, k) \/ DeleteState(p, k)
                            \/ Get(p, k) \/ ReadVersion(p, k)
      PROVE  /\ call[p].op \notin {"update", "lookup", "delete_all"}
             /\ call'[p].op \notin {"update", "lookup", "delete_all"}
             /\ call'[p] = call[p] \/ call[p].op = "none" \/ call'[p].op = "none"
  BY <1>2 DEF GetOldState, OldStateUnreadable, ReadMetadata, WriteState, WriteIndex, ReadEntry,
       DropEntry, DeleteState, Get, ReadVersion
<1>3. ASSUME NEW k \in Key, NEW t \in Tag,
             RemoveTagFile(p, k, t) \/ AddTagFile(p, k, t) \/ TagFileFails(p, k, t)
      PROVE  /\ call[p].op \notin {"update", "lookup", "delete_all"}
             /\ call'[p].op \notin {"update", "lookup", "delete_all"}
             /\ call'[p] = call[p]
  BY <1>3 DEF RemoveTagFile, AddTagFile, TagFileFails
<1>4. ASSUME NEW t \in Tag, ListTag(p, t)
      PROVE  /\ call[p].op \notin {"update", "lookup", "delete_all"}
             /\ call'[p].op \notin {"update", "lookup", "delete_all"}
             /\ call'[p] = call[p]
  BY <1>4 DEF ListTag
<1>5. CASE \/ EndSave(p) \/ EndListing(p) \/ EndQuery(p) \/ WriteRebuilt(p)
           \/ SkipMetaDelete(p) \/ LockMeta(p) \/ ReadMeta(p) \/ WriteMeta(p) \/ UnlockMeta(p)
  BY <1>5 DEF EndSave, EndListing, EndQuery, WriteRebuilt, SkipMetaDelete, LockMeta, ReadMeta,
       WriteMeta, UnlockMeta
<1> QED
  BY <1>1, <1>2, <1>3, <1>4, <1>5 DEF StoreActs, StoreStep

\* Steps of other components keep the invariant of the tag index.
LEMMA TagInvStays ==
  ASSUME TypeInv, TypeInv', TagInv, UNCHANGED tagVars,
         \A q \in Proc : \/ call[q].op \in {"update", "lookup", "delete_all"}
                         \/ call'[q].op \in {"update", "lookup", "delete_all"}
                         => pc'[q] = pc[q] /\ call'[q] = call[q]
  PROVE  TagInv'
<1> USE DEF TypeInv, TagTypes, TagInv, tagVars
<1>1. \A q \in Proc, op \in {"update", "lookup", "delete_all"} :
        /\ call'[q].op = op <=> call[q].op = op
        /\ call[q].op = op => pc'[q] = pc[q] /\ call'[q] = call[q]
  OBVIOUS
<1>2. \A q \in Proc, label \in {"tags", "lock_tag", "keys", "write_keys", "release", "lookup", "delete_all"} :
        pc'[q] = label <=> pc[q] = label
  BY <1>1 DEF Phase
<1>3. \A op \in {"update", "lookup", "delete_all"} : Working(op)' = Working(op)
  BY <1>1, <1>2 DEF Working, Phase
<1>4. \A k \in Key : Updaters(k)' = Updaters(k)
  BY <1>1, <1>3 DEF Updaters, Working
<1>5. TagLocks'
  BY <1>2 DEF TagLocks, InTagLock
<1>6. Owners'
  BY <1>1 DEF Owners
<1>7. HeldReads'
  BY <1>2 DEF HeldReads
<1>8. Moving'
  BY <1>1, <1>2 DEF Moving, Moved, Listed
<1>9. TagListsExact'
  BY <1>1, <1>3 DEF TagListsExact, Working
<1>10. Looking'
  BY <1>1, <1>3, <1>4 DEF Looking
<1> QED
  BY <1>5, <1>6, <1>7, <1>8, <1>9, <1>10

LEMMA LocksStep ==
  ASSUME TypeInv, TypeInv', TagInv, NEW p \in Proc, TagActs(p)
  PROVE  TagLocks'
<1> USE DEF TypeInv, TagTypes, TagInv, TagLocks, InTagLock, Go, Return, Start, callVars
<1>0. /\ \A q \in Proc : change[q] \in ChangeType
      /\ \A t, s \in Tag : {t} = {s} => t = s
      /\ Free \notin Proc
  BY TagIndexAssumption
<1>1. ASSUME NEW k \in Key, NEW new \in SUBSET Tag, UpdateTags(p, k, new)
      PROVE  TagLocks'
  BY <1>1 DEF UpdateTags
<1>2. ASSUME NEW t \in Tag, SkipRemoval(p, t)
      PROVE  TagLocks'
  BY <1>2 DEF SkipRemoval, Done
<1>3. ASSUME NEW t \in Tag, AcquireTagLock(p, t)
      PROVE  TagLocks'
  <2>1. t \in change[p].remove \cup change[p].add
    <3>1. pc[p] = "lock_tag" /\ change[p].tag = {t}
      BY <1>3 DEF AcquireTagLock
    <3>2. PICK s \in change[p].remove \cup change[p].add : change[p].tag = {s}
      BY <3>1
    <3> QED
      BY <3>1, <3>2
  <2>2. /\ change' = change /\ change[p].tag = {t}
        /\ \A q \in Proc \ {p} : pc'[q] = pc[q]
        /\ pc[p] = "lock_tag" /\ pc'[p] = "keys"
        /\ tagLock' = [tagLock EXCEPT ![t] = p]
    BY <1>3 DEF AcquireTagLock
  <2>3. \A q \in Proc : ~InTagLock(q, t)
    BY <1>0, <1>3 DEF AcquireTagLock
  <2>4. ASSUME NEW q \in Proc, NEW s \in Tag, InTagLock(q, s)'
        PROVE  tagLock'[s] = q
    <3>1. CASE q = p
      BY <1>0, <2>2, <2>4, <3>1
    <3>2. CASE q # p
      BY <2>2, <2>3, <2>4, <3>2
    <3> QED
      BY <3>1, <3>2
  <2>5. ASSUME NEW q \in Proc, pc'[q] \in {"lock_tag", "keys", "write_keys", "release"}
        PROVE  \E s \in change'[q].remove \cup change'[q].add : change'[q].tag = {s}
    BY <2>1, <2>2, <2>5
  <2> QED
    BY <2>4, <2>5
<1>4. ASSUME NEW t \in Tag, ReadKeys(p, t)
      PROVE  TagLocks'
  <2>1. /\ change'[p].tag = change[p].tag /\ change'[p].remove = change[p].remove
        /\ change'[p].add = change[p].add
        /\ \A q \in Proc \ {p} : change'[q] = change[q] /\ pc'[q] = pc[q]
        /\ pc[p] = "keys" /\ pc'[p] = "write_keys"
        /\ tagLock' = tagLock
    BY <1>0, <1>4 DEF ReadKeys, ChangeType
  <2> QED
    BY <1>0, <2>1
<1>5. ASSUME NEW t \in Tag, WriteKeys(p, t)
      PROVE  TagLocks'
  BY <1>5 DEF WriteKeys
<1>6. ASSUME NEW t \in Tag, ReleaseTagLock(p, t)
      PROVE  TagLocks'
  <2>1. /\ \A q \in Proc \ {p} : change'[q] = change[q] /\ pc'[q] = pc[q]
        /\ pc'[p] = "tags"
        /\ tagLock' = [tagLock EXCEPT ![t] = Free]
    BY <1>6 DEF ReleaseTagLock, Done
  <2>2. \A q \in Proc \ {p} : ~InTagLock(q, t)
    BY <1>6 DEF ReleaseTagLock
  <2> QED
    BY <2>1, <2>2
<1>7. ASSUME NEW t \in Tag, ReadTagList(p, t)
      PROVE  TagLocks'
  BY <1>7 DEF ReadTagList
<1>8. CASE EndUpdate(p)
  BY <1>8 DEF EndUpdate
<1>9. CASE EndDeleteAll(p)
  BY <1>9 DEF EndDeleteAll, tagVars
<1>10. CASE EndLookUp(p)
  BY <1>10 DEF EndLookUp
<1>11. ASSUME NEW path \in Paths, DeleteIndex(p, path)
       PROVE  TagLocks'
  BY <1>11 DEF DeleteIndex
<1>12. CASE DeleteAllIndices(p)
  BY <1>12 DEF DeleteAllIndices
<1>13. CASE BreakOffUpdate(p)
  BY <1>13 DEF BreakOffUpdate
<1>14. ASSUME NEW tags \in SUBSET Tag, LookUp(p, tags)
       PROVE  TagLocks'
  BY <1>14 DEF LookUp
<1>15. ASSUME NEW t \in Tag, AskForTagLock(p, t)
       PROVE  TagLocks'
  <2>1. t \in change[p].remove \cup change[p].add
    BY <1>15 DEF AskForTagLock, Pending
  <2>2. /\ change'[p].tag = {t} /\ change'[p].remove = change[p].remove /\ change'[p].add = change[p].add
        /\ \A q \in Proc \ {p} : change'[q] = change[q] /\ pc'[q] = pc[q]
        /\ pc'[p] = "lock_tag" /\ tagLock' = tagLock
    BY <1>0, <1>15 DEF AskForTagLock, ChangeType
  <2> QED
    BY <1>0, <2>1, <2>2
<1> QED
  BY <1>15, <1>1, <1>2, <1>3, <1>4, <1>5, <1>6, <1>7, <1>8, <1>9, <1>10, <1>11, <1>12, <1>13, <1>14
     DEF TagActs, TagIndexStep, TagIndexCall

LEMMA OwnersStep ==
  ASSUME TypeInv, TypeInv', TagInv, NEW p \in Proc, TagActs(p)
  PROVE  Owners'
<1> USE DEF TypeInv, TagTypes, TagInv, Owners, Go, Return, Start, callVars
<1>0. \A q \in Proc : /\ call[q].op # "none" => pc[q] # "idle"
                      /\ pc[q] = "idle" => call[q].op = "none"
  BY DEF Phase
<1>1. ASSUME NEW k \in Key, NEW new \in SUBSET Tag, UpdateTags(p, k, new)
      PROVE  Owners'
  <2>1. /\ call' = [call EXCEPT ![p] = [op |-> "update", key |-> {k}, tags |-> new]]
        /\ tagsOf' = tagsOf
        /\ \A q \in Proc : call[q].op = "update" => call[q].key # {k}
        /\ \A q \in Proc : call[q].op # "delete_all"
    BY <1>0, <1>1 DEF UpdateTags, Working
  <2> QED
    BY <2>1
<1>2. ASSUME NEW t \in Tag, \/ SkipRemoval(p, t) \/ AskForTagLock(p, t) \/ AcquireTagLock(p, t)
                            \/ ReadKeys(p, t) \/ WriteKeys(p, t) \/ ReleaseTagLock(p, t)
                            \/ ReadTagList(p, t)
      PROVE  Owners'
  <2>1. UNCHANGED <<call, tagsOf>>
    BY <1>2 DEF SkipRemoval, AskForTagLock, AcquireTagLock, ReadKeys, WriteKeys, ReleaseTagLock,
         ReadTagList
  <2> QED
    BY <2>1
<1>3. ASSUME NEW path \in Paths, DeleteIndex(p, path)
      PROVE  Owners'
  BY <1>3 DEF DeleteIndex
<1>4. CASE EndUpdate(p)
  <2>1. call' = [call EXCEPT ![p] = NoCall] /\ call[p].op = "update"
    BY <1>4 DEF EndUpdate, Phase
  <2> QED
    BY <2>1 DEF NoCall
<1>5. CASE EndDeleteAll(p) \/ EndLookUp(p) \/ BreakOffUpdate(p)
  <2>1. call' = [call EXCEPT ![p] = NoCall] /\ UNCHANGED tagsOf
    BY <1>5 DEF EndDeleteAll, EndLookUp, BreakOffUpdate, tagVars
  <2> QED
    BY <2>1 DEF NoCall
<1>6. CASE DeleteAllIndices(p)
  <2>1. /\ call' = [call EXCEPT ![p] = [op |-> "delete_all", key |-> {}, tags |-> {}]]
        /\ tagsOf' = [k \in Key |-> {}]
        /\ \A q \in Proc : call[q].op # "update"
    BY <1>0, <1>6 DEF DeleteAllIndices, Working
  <2> QED
    BY <2>1
<1>7. ASSUME NEW tags \in SUBSET Tag, LookUp(p, tags)
      PROVE  Owners'
  <2>1. /\ call' = [call EXCEPT ![p] = [op |-> "lookup", key |-> {}, tags |-> tags]]
        /\ tagsOf' = tagsOf
    BY <1>7 DEF LookUp
  <2> QED
    BY <2>1
<1> QED
  BY <1>1, <1>2, <1>3, <1>4, <1>5, <1>6, <1>7 DEF TagActs, TagIndexStep, TagIndexCall

\* What a caller writes to the list of a tag changes it for the key of the caller only.
LEMMA OneKeyChanges ==
  ASSUME FilesDiffer, TypeInv, TagInv, NEW p \in Proc, NEW t \in Tag, WriteKeys(p, t)
  PROVE  \A s \in Tag, k \in Key :
           k \in keyList'[PathOf(s)] <=>
             IF s = t /\ k \in call[p].key THEN t \notin change[p].remove ELSE k \in keyList[PathOf(s)]
<1> USE DEF TypeInv, TagTypes
<1>1. PathOf(t) \in Paths /\ \A s \in Tag : PathOf(s) = PathOf(t) => s = t
  BY DEF Paths, FilesDiffer
<1>2. change[p].read = keyList[PathOf(t)]
  BY DEF WriteKeys, TagInv, HeldReads
<1>3. keyList' = [keyList EXCEPT ![PathOf(t)] =
                    IF t \in change[p].remove THEN keyList[PathOf(t)] \ call[p].key
                    ELSE keyList[PathOf(t)] \cup call[p].key]
  BY <1>2 DEF WriteKeys
<1>4. \A s \in Tag : PathOf(s) \in Paths
  BY DEF Paths
<1> QED
  BY <1>1, <1>3, <1>4

LEMMA HeldReadsStep ==
  ASSUME FilesDiffer, TypeInv, TypeInv', TagInv, NEW p \in Proc, TagActs(p)
  PROVE  HeldReads'
<1> USE DEF TypeInv, TagTypes, Go, Return, Start, callVars
<1>0. /\ \A q \in Proc : change[q] \in ChangeType
      /\ \A q \in Proc \ {p} : pc'[q] = pc[q]
      /\ HeldReads
      /\ \A t \in Tag : PathOf(t) \in Paths
  BY OthersStay DEF TagInv, Paths
<1>1. ASSUME UNCHANGED keyList, pc'[p] # "write_keys", \A q \in Proc \ {p} : change'[q] = change[q]
      PROVE  HeldReads'
  BY <1>0, <1>1 DEF HeldReads
<1>2. ASSUME NEW t \in Tag, ReadKeys(p, t)
      PROVE  HeldReads'
  <2>1. /\ change'[p].tag = {t} /\ change'[p].read = keyList[PathOf(t)]
        /\ \A q \in Proc \ {p} : change'[q] = change[q]
        /\ keyList' = keyList
    BY <1>0, <1>2 DEF ReadKeys, ChangeType
  <2>2. \A s \in Tag : {s} = {t} => s = t
    OBVIOUS
  <2>3. ASSUME NEW q \in Proc, NEW s \in Tag, pc'[q] = "write_keys", change'[q].tag = {s}
        PROVE  change'[q].read = keyList'[PathOf(s)]
    <3>1. CASE q = p
      BY <2>1, <2>2, <2>3, <3>1
    <3>2. CASE q # p
      BY <1>0, <2>1, <2>3, <3>2 DEF HeldReads
    <3> QED
      BY <3>1, <3>2
  <2> QED
    BY <2>3 DEF HeldReads
<1>3. ASSUME NEW t \in Tag, WriteKeys(p, t)
      PROVE  HeldReads'
  <2>1. \A q \in Proc \ {p}, s \in Tag : pc[q] = "write_keys" /\ change[q].tag = {s} => s # t
    BY <1>3 DEF WriteKeys, TagInv, TagLocks, InTagLock
  <2>2. \A s \in Tag : s # t => keyList'[PathOf(s)] = keyList[PathOf(s)]
    BY <1>3 DEF WriteKeys, FilesDiffer
  <2>3. change' = change /\ pc'[p] = "release"
    BY <1>3 DEF WriteKeys
  <2> QED
    BY <1>0, <2>1, <2>2, <2>3 DEF HeldReads
<1>4. ASSUME NEW path \in Paths, DeleteIndex(p, path)
      PROVE  HeldReads'
  <2>1. \A q \in Proc : pc'[q] # "write_keys"
    BY <1>4 DEF DeleteIndex, Phase, TagInv, Owners
  <2> QED
    BY <2>1 DEF HeldReads
<1>5. ASSUME NEW t \in Tag, \/ SkipRemoval(p, t) \/ AskForTagLock(p, t) \/ AcquireTagLock(p, t)
                            \/ ReleaseTagLock(p, t) \/ ReadTagList(p, t)
      PROVE  HeldReads'
  BY <1>1, <1>5 DEF SkipRemoval, AskForTagLock, AcquireTagLock, ReleaseTagLock, ReadTagList, Done
<1>6. CASE EndUpdate(p) \/ EndDeleteAll(p) \/ EndLookUp(p) \/ DeleteAllIndices(p) \/ BreakOffUpdate(p)
  BY <1>1, <1>6 DEF EndUpdate, EndDeleteAll, EndLookUp, DeleteAllIndices, BreakOffUpdate, tagVars
<1>7. ASSUME NEW k \in Key, NEW new \in SUBSET Tag, UpdateTags(p, k, new)
      PROVE  HeldReads'
  BY <1>1, <1>7 DEF UpdateTags
<1>8. ASSUME NEW tags \in SUBSET Tag, LookUp(p, tags)
      PROVE  HeldReads'
  BY <1>1, <1>8 DEF LookUp
<1> QED
  BY <1>2, <1>3, <1>4, <1>5, <1>6, <1>7, <1>8 DEF TagActs, TagIndexStep, TagIndexCall

LEMMA MovingStep ==
  ASSUME FilesDiffer, TypeInv, TypeInv', TagInv, NEW p \in Proc, TagActs(p)
  PROVE  Moving'
<1> USE DEF TypeInv, TagTypes, Go, Return, Start, callVars
<1>0. /\ \A q \in Proc : change[q] \in ChangeType /\ call[q] \in CallType
      /\ \A q \in Proc \ {p} : pc'[q] = pc[q] /\ call'[q] = call[q]
      /\ \A q \in Proc : call[q].op = "update" => Moved(q)
      /\ \A s, t \in Tag : {s} = {t} => s = t
      /\ \A q \in Proc : Phase(q) /\ Phase(q)'
  BY OthersStay DEF TagInv, Moving
<1>1. ASSUME NEW q \in Proc, call'[q] = call[q], change'[q] = change[q],
             \A t \in Tag : Listed(q, t)' <=> Listed(q, t), broken \subseteq broken',
             \A k \in call[q].key, t \in Tag : k \in keyList'[PathOf(t)] <=> k \in keyList[PathOf(t)],
             call'[q].op = "update"
      PROVE  Moved(q)'
  BY <1>0, <1>1 DEF Moved
<1>2. ASSUME UNCHANGED keyList, broken \subseteq broken', \A q \in Proc \ {p} : change'[q] = change[q],
             call'[p].op = "update" => Moved(p)'
      PROVE  Moving'
  <2>1. ASSUME NEW q \in Proc \ {p}, call'[q].op = "update"
        PROVE  Moved(q)'
    <3>1. \A t \in Tag : Listed(q, t)' <=> Listed(q, t)
      BY <1>0, <1>2 DEF Listed
    <3> QED
      BY <1>0, <1>1, <1>2, <2>1, <3>1
  <2> QED
    BY <1>2, <2>1 DEF Moving
<1>3. ASSUME NEW k \in Key, NEW new \in SUBSET Tag, UpdateTags(p, k, new)
      PROVE  Moving'
  <2>1. /\ call'[p] = [op |-> "update", key |-> {k}, tags |-> new]
        /\ change'[p].remove = tagsOf[k] \ new /\ change'[p].add = new \ tagsOf[k]
        /\ pc'[p] = "tags"
    BY <1>3 DEF UpdateTags, NoChange
  <2>2. k \notin broken => tagsOf[k] = {t \in Tag : k \in keyList[PathOf(t)]}
    <3>1. \A q \in Working("update") : k \notin call[q].key
      BY <1>0, <1>3 DEF UpdateTags, Working, Phase
    <3> QED
      BY <1>3, <3>1 DEF UpdateTags, TagInv, TagListsExact
  <2>3. tagsOf[k] \subseteq Tag /\ keyList' = keyList /\ broken' = broken
    BY <1>3 DEF UpdateTags
  <2>4. Moved(p)'
    BY <2>1, <2>2, <2>3 DEF Moved, Listed
  <2> QED
    BY <1>2, <1>3, <2>4 DEF UpdateTags
<1>4. ASSUME NEW t \in Tag, SkipRemoval(p, t)
      PROVE  Moving'
  <2>1. /\ change'[p].remove = change[p].remove \ {t} /\ change'[p].add = change[p].add \ {t}
        /\ t \in change[p].remove /\ pc[p] = "tags" /\ pc' = pc /\ call' = call
        /\ keyList[PathOf(t)] = {} /\ keyList' = keyList /\ broken' = broken
        /\ \A q \in Proc \ {p} : change'[q] = change[q]
    BY <1>4 DEF SkipRemoval, Done
  <2>2. call[p].op = "update" /\ Moved(p)
    BY <1>0, <2>1 DEF Phase
  <2>3. Moved(p)'
    BY <2>1, <2>2 DEF Moved, Listed
  <2> QED
    BY <1>2, <2>1, <2>3
<1>5. ASSUME NEW t \in Tag, AskForTagLock(p, t) \/ AcquireTagLock(p, t) \/ ReadKeys(p, t)
      PROVE  Moving'
  <2>1. /\ change'[p].remove = change[p].remove /\ change'[p].add = change[p].add
        /\ pc[p] \in {"tags", "lock_tag", "keys"} /\ pc'[p] \in {"lock_tag", "keys", "write_keys"}
        /\ call' = call
        /\ keyList' = keyList /\ broken' = broken
        /\ \A q \in Proc \ {p} : change'[q] = change[q]
    <3>1. CASE AskForTagLock(p, t)
      BY <1>0, <3>1 DEF AskForTagLock, ChangeType
    <3>2. CASE ReadKeys(p, t)
      BY <1>0, <3>2 DEF ReadKeys, ChangeType
    <3>3. CASE AcquireTagLock(p, t)
      BY <1>0, <3>3 DEF AcquireTagLock
    <3> QED
      BY <1>5, <3>1, <3>2, <3>3
  <2>2. call[p].op = "update" /\ Moved(p)
    BY <1>0, <2>1 DEF Phase
  <2>3. Moved(p)'
    BY <2>1, <2>2 DEF Moved, Listed
  <2> QED
    BY <1>2, <2>1, <2>3
<1>6. ASSUME NEW t \in Tag, WriteKeys(p, t)
      PROVE  Moving'
  <2>1. /\ pc[p] = "write_keys" /\ pc'[p] = "release" /\ call' = call /\ change' = change
        /\ broken' = broken /\ change[p].tag = {t}
    BY <1>6 DEF WriteKeys
  <2>2. call[p].op = "update" /\ Moved(p)
    BY <1>0, <2>1 DEF Phase
  <2>3. t \in change[p].remove \cup change[p].add
    <3>1. PICK s \in change[p].remove \cup change[p].add : change[p].tag = {s}
      BY <2>1 DEF TagInv, TagLocks
    <3> QED
      BY <2>1, <3>1
  <2>4. Moved(p)'
    <3>1. \A s \in Tag : ~Listed(p, s) /\ (Listed(p, s)' <=> s = t)
      BY <1>0, <2>1 DEF Listed
    <3>2. \A k \in call[p].key, s \in Tag :
            k \in keyList'[PathOf(s)] <=> IF s = t THEN t \notin change[p].remove ELSE k \in keyList[PathOf(s)]
      BY <1>0, <1>6, OneKeyChanges DEF CallType
    <3>3. /\ change'[p] = change[p] /\ call'[p] = call[p]
          /\ change[p].remove \cap call[p].tags = {} /\ change[p].add \subseteq call[p].tags
          /\ \A k \in call[p].key \ broken, s \in Tag :
               k \in keyList[PathOf(s)] <=> \/ s \in change[p].remove
                                            \/ s \in call[p].tags \ change[p].add
      BY <2>1, <2>2, <3>1 DEF Moved
    <3> QED
      BY <2>1, <2>3, <3>1, <3>2, <3>3 DEF Moved
  <2>5. ASSUME NEW q \in Proc \ {p}, call'[q].op = "update"
        PROVE  Moved(q)'
    <3>1. \A k \in call[q].key : k \notin call[p].key
      <4>1. call[q].op = "update" /\ call[q].key # call[p].key
        BY <2>1, <2>2, <2>5 DEF TagInv, Owners
      <4>2. (\E k \in Key : call[q].key = {k}) /\ \E k \in Key : call[p].key = {k}
        BY <1>0, <2>2, <4>1 DEF Phase
      <4> QED
        BY <4>1, <4>2
    <3>2. \A k \in call[q].key, s \in Tag : k \in keyList'[PathOf(s)] <=> k \in keyList[PathOf(s)]
      BY <1>0, <1>6, <3>1, OneKeyChanges DEF CallType
    <3>3. \A s \in Tag : Listed(q, s)' <=> Listed(q, s)
      BY <1>0, <2>1 DEF Listed
    <3> QED
      BY <1>1, <2>1, <2>5, <3>2, <3>3
  <2> QED
    BY <2>4, <2>5 DEF Moving
<1>7. ASSUME NEW t \in Tag, ReleaseTagLock(p, t)
      PROVE  Moving'
  <2>1. /\ change'[p].remove = change[p].remove \ {t} /\ change'[p].add = change[p].add \ {t}
        /\ pc[p] = "release" /\ change[p].tag = {t} /\ pc'[p] = "tags" /\ call' = call
        /\ keyList' = keyList /\ broken' = broken
        /\ \A q \in Proc \ {p} : change'[q] = change[q]
    BY <1>7 DEF ReleaseTagLock, Done
  <2>2. call[p].op = "update" /\ Moved(p)
    BY <1>0, <2>1 DEF Phase
  <2>3. t \in change[p].remove \cup change[p].add
    BY <1>0, <2>1 DEF TagInv, TagLocks
  <2>4. Moved(p)'
    <3>1. \A s \in Tag : ~Listed(p, s)' /\ (Listed(p, s) <=> s = t)
      BY <1>0, <2>1 DEF Listed
    <3> QED
      BY <2>1, <2>2, <2>3, <3>1 DEF Moved
  <2> QED
    BY <1>2, <2>1, <2>4
<1>8. ASSUME NEW path \in Paths, DeleteIndex(p, path)
      PROVE  Moving'
  <2>1. \A q \in Proc : call'[q].op # "update"
    BY <1>0, <1>8 DEF DeleteIndex, Phase, TagInv, Owners
  <2> QED
    BY <2>1 DEF Moving
<1>9. CASE DeleteAllIndices(p)
  <2>1. \A q \in Proc : call'[q].op # "update"
    BY <1>0, <1>9 DEF DeleteAllIndices, Phase, Working
  <2> QED
    BY <2>1 DEF Moving
<1>10. CASE EndUpdate(p) \/ EndDeleteAll(p) \/ EndLookUp(p) \/ BreakOffUpdate(p)
  <2>1. /\ call'[p].op # "update" /\ keyList' = keyList /\ broken \subseteq broken'
        /\ \A q \in Proc \ {p} : change'[q] = change[q]
    BY <1>10 DEF EndUpdate, EndDeleteAll, EndLookUp, BreakOffUpdate, tagVars, NoCall
  <2> QED
    BY <1>2, <2>1
<1>11. ASSUME NEW tags \in SUBSET Tag, LookUp(p, tags)
       PROVE  Moving'
  <2>1. /\ call'[p].op # "update" /\ keyList' = keyList /\ broken \subseteq broken'
        /\ \A q \in Proc \ {p} : change'[q] = change[q]
    BY <1>11 DEF LookUp
  <2> QED
    BY <1>2, <2>1
<1>12. ASSUME NEW t \in Tag, ReadTagList(p, t)
       PROVE  Moving'
  <2>1. /\ call'[p].op # "update" /\ keyList' = keyList /\ broken \subseteq broken'
        /\ \A q \in Proc \ {p} : change'[q] = change[q]
    BY <1>0, <1>12 DEF ReadTagList, Phase
  <2> QED
    BY <1>2, <2>1
<1> QED
  BY <1>3, <1>4, <1>5, <1>6, <1>7, <1>8, <1>9, <1>10, <1>11, <1>12
     DEF TagActs, TagIndexStep, TagIndexCall

\* Those who update a key after a step did so before it, but for update_projection_tags
\* itself.
LEMMA ListsStep ==
  ASSUME FilesDiffer, TypeInv, TypeInv', TagInv, NEW p \in Proc, TagActs(p)
  PROVE  TagListsExact'
<1> USE DEF TypeInv, TagTypes, Go, Return, Start, callVars
<1>0. /\ \A q \in Proc : change[q] \in ChangeType /\ call[q] \in CallType
      /\ \A q \in Proc \ {p} : pc'[q] = pc[q] /\ call'[q] = call[q]
      /\ \A q \in Proc : Phase(q) /\ Phase(q)'
      /\ \A t \in Tag : PathOf(t) \in Paths
  BY OthersStay DEF Paths
<1> SUFFICES ASSUME NEW k \in Key \ broken',
                    \A q \in Proc : call'[q].op = "update" => k \notin call'[q].key,
                    \A q \in Proc : call'[q].op # "delete_all"
             PROVE  tagsOf'[k] = {t \in Tag : k \in keyList'[PathOf(t)]}
  BY <1>0 DEF TagListsExact, Working, Phase
<1>1. ASSUME k \notin broken, \A q \in Proc : call[q].op = "update" => k \notin call[q].key,
             \A q \in Proc : call[q].op # "delete_all"
      PROVE  tagsOf[k] = {t \in Tag : k \in keyList[PathOf(t)]}
  BY <1>0, <1>1 DEF TagInv, TagListsExact, Working, Phase
<1>2. ASSUME UNCHANGED <<keyList, tagsOf>>, k \notin broken,
             call[p].op = "update" => k \notin call[p].key, call[p].op # "delete_all"
      PROVE  tagsOf'[k] = {t \in Tag : k \in keyList'[PathOf(t)]}
  BY <1>0, <1>1, <1>2
<1>3. ASSUME NEW l \in Key, NEW new \in SUBSET Tag, UpdateTags(p, l, new)
      PROVE  tagsOf'[k] = {t \in Tag : k \in keyList'[PathOf(t)]}
  BY <1>0, <1>2, <1>3 DEF UpdateTags, Phase
<1>4. ASSUME NEW t \in Tag, \/ SkipRemoval(p, t) \/ AskForTagLock(p, t) \/ AcquireTagLock(p, t)
                            \/ ReadKeys(p, t) \/ ReleaseTagLock(p, t) \/ ReadTagList(p, t)
      PROVE  tagsOf'[k] = {s \in Tag : k \in keyList'[PathOf(s)]}
  <2>1. UNCHANGED <<call, keyList, tagsOf, broken>>
    BY <1>4 DEF SkipRemoval, AskForTagLock, AcquireTagLock, ReadKeys, ReleaseTagLock, ReadTagList
  <2> QED
    BY <1>2, <2>1
<1>5. ASSUME NEW t \in Tag, WriteKeys(p, t)
      PROVE  tagsOf'[k] = {s \in Tag : k \in keyList'[PathOf(s)]}
  <2>1. UNCHANGED <<call, tagsOf, broken>> /\ call[p].op = "update"
    BY <1>0, <1>5 DEF WriteKeys, Phase
  <2>2. \A s \in Tag : k \in keyList'[PathOf(s)] <=> k \in keyList[PathOf(s)]
    BY <1>5, <2>1, OneKeyChanges
  <2>3. tagsOf[k] = {s \in Tag : k \in keyList[PathOf(s)]}
    BY <1>1, <2>1
  <2> QED
    BY <2>1, <2>2, <2>3
<1>6. CASE EndUpdate(p)
  <2>1. /\ call[p].op = "update" /\ keyList' = keyList /\ broken' = broken
        /\ change[p].remove = {} /\ change[p].add = {} /\ pc[p] = "tags"
        /\ tagsOf' = [l \in Key |-> IF l \in call[p].key THEN call[p].tags ELSE tagsOf[l]]
    BY <1>0, <1>6 DEF EndUpdate, Phase, Pending
  <2>2. CASE k \in call[p].key
    <3>1. Moved(p)
      BY <2>1 DEF TagInv, Moving
    <3>2. call[p].tags = {s \in Tag : k \in keyList[PathOf(s)]}
      BY <1>0, <2>1, <2>2, <3>1 DEF Moved, CallType
    <3> QED
      BY <2>1, <2>2, <3>2
  <2>3. CASE k \notin call[p].key
    BY <1>0, <1>1, <2>1, <2>3
  <2> QED
    BY <2>2, <2>3
<1>7. CASE EndDeleteAll(p)
  <2>1. tagsOf[k] = {} /\ tagsOf' = tagsOf /\ keyList' = keyList
    BY <1>0, <1>7 DEF EndDeleteAll, tagVars, Phase, TagInv, Owners
  <2>2. \A s \in Tag : keyList[PathOf(s)] = {}
    BY <1>0, <1>7 DEF EndDeleteAll
  <2> QED
    BY <2>1, <2>2
<1>8. CASE EndLookUp(p)
  BY <1>0, <1>2, <1>8 DEF EndLookUp, Phase
<1>9. ASSUME NEW path \in Paths, DeleteIndex(p, path)
      PROVE  tagsOf'[k] = {t \in Tag : k \in keyList'[PathOf(t)]}
  BY <1>0, <1>9 DEF DeleteIndex, Phase
<1>10. CASE DeleteAllIndices(p)
  BY <1>0, <1>10 DEF DeleteAllIndices
<1>11. CASE BreakOffUpdate(p)
  <2>1. UNCHANGED <<keyList, tagsOf>> /\ k \notin broken /\ k \notin call[p].key /\ call[p].op = "update"
    BY <1>11 DEF BreakOffUpdate
  <2> QED
    BY <1>2, <2>1
<1>12. ASSUME NEW tags \in SUBSET Tag, LookUp(p, tags)
       PROVE  tagsOf'[k] = {t \in Tag : k \in keyList'[PathOf(t)]}
  BY <1>0, <1>2, <1>12 DEF LookUp, Phase
<1> QED
  BY <1>3, <1>4, <1>5, <1>6, <1>7, <1>8, <1>9, <1>10, <1>11, <1>12
     DEF TagActs, TagIndexStep, TagIndexCall

LEMMA LookingStep ==
  ASSUME TypeInv, TypeInv', TagInv, NEW p \in Proc, TagActs(p)
  PROVE  Looking'
<1> USE DEF TypeInv, TagTypes, Go, Return, Start, callVars
<1>0. /\ \A q \in Proc : lookup[q] \in LookupType /\ call[q] \in CallType
      /\ \A q \in Proc \ {p} : pc'[q] = pc[q] /\ call'[q] = call[q]
      /\ \A q \in Proc : Phase(q) /\ Phase(q)'
      /\ \A t \in Tag : PathOf(t) \in Paths
  BY OthersStay DEF Paths
<1> DEFINE Fits(q, k) ==
      /\ \A r \in Proc : /\ call[r].op = "update" => k \notin call[r].key
                         /\ call[r].op # "delete_all"
      /\ k \in lookup[q].found => call[q].tags \ lookup[q].todo \subseteq tagsOf[k]
      /\ k \notin lookup[q].found => ~(call[q].tags \subseteq tagsOf[k])
<1>1. \A q \in Proc : call[q].op = "lookup" =>
        /\ lookup[q].todo \subseteq call[q].tags
        /\ \A k \in Key \ (broken \cup lookup[q].touched) : Fits(q, k)
  BY <1>0 DEF TagInv, Looking, Updaters, Working, Phase
<1>2. ASSUME \A q \in Proc : call'[q].op = "lookup" =>
               /\ lookup'[q].todo \subseteq call'[q].tags
               /\ \A k \in Key \ (broken' \cup lookup'[q].touched) : Fits(q, k)'
      PROVE  Looking'
  BY <1>2 DEF Looking, Updaters, Working
<1>3. ASSUME NEW k \in Key, NEW new \in SUBSET Tag, UpdateTags(p, k, new)
      PROVE  Looking'
  <2>1. /\ call'[p] = [op |-> "update", key |-> {k}, tags |-> new] /\ call[p].op = "none"
        /\ tagsOf' = tagsOf /\ broken' = broken
    BY <1>0, <1>3 DEF UpdateTags, Phase
  <2>2. \A q \in Proc : call[q].op = "lookup" =>
          /\ lookup'[q].todo = lookup[q].todo /\ lookup'[q].found = lookup[q].found
          /\ lookup'[q].touched = lookup[q].touched \cup {k}
    BY <1>0, <1>3 DEF UpdateTags, NoteUpdate, LookupType
  <2>3. ASSUME NEW q \in Proc, call'[q].op = "lookup"
        PROVE  /\ lookup'[q].todo \subseteq call'[q].tags
               /\ \A l \in Key \ (broken' \cup lookup'[q].touched) : Fits(q, l)'
    BY <1>0, <1>1, <2>1, <2>2, <2>3
  <2> QED
    BY <1>2, <2>3
<1>4. ASSUME UNCHANGED <<lookup, tagsOf>>, broken \subseteq broken',
             call'[p] = call[p] \/ call'[p].op = "none"
      PROVE  Looking'
  <2>1. ASSUME NEW q \in Proc, call'[q].op = "lookup"
        PROVE  /\ lookup'[q].todo \subseteq call'[q].tags
               /\ \A k \in Key \ (broken' \cup lookup'[q].touched) : Fits(q, k)'
    BY <1>0, <1>1, <1>4, <2>1
  <2> QED
    BY <1>2, <2>1
<1>5. ASSUME NEW t \in Tag, \/ SkipRemoval(p, t) \/ AskForTagLock(p, t) \/ AcquireTagLock(p, t)
                            \/ ReadKeys(p, t) \/ WriteKeys(p, t) \/ ReleaseTagLock(p, t)
      PROVE  Looking'
  BY <1>4, <1>5 DEF SkipRemoval, AskForTagLock, AcquireTagLock, ReadKeys, WriteKeys, ReleaseTagLock
<1>6. ASSUME NEW path \in Paths, DeleteIndex(p, path)
      PROVE  Looking'
  BY <1>4, <1>6 DEF DeleteIndex
<1>7. CASE EndDeleteAll(p) \/ BreakOffUpdate(p)
  <2>1. UNCHANGED <<lookup, tagsOf>> /\ broken \subseteq broken' /\ call'[p].op = "none"
    BY <1>7 DEF EndDeleteAll, BreakOffUpdate, tagVars, NoCall
  <2> QED
    BY <1>4, <2>1
<1>8. CASE EndUpdate(p)
  <2>1. /\ call[p].op = "update" /\ call'[p].op = "none" /\ lookup' = lookup /\ broken' = broken
        /\ tagsOf' = [k \in Key |-> IF k \in call[p].key THEN call[p].tags ELSE tagsOf[k]]
    BY <1>0, <1>8 DEF EndUpdate, Phase, NoCall
  <2>2. ASSUME NEW q \in Proc, call'[q].op = "lookup"
        PROVE  /\ lookup'[q].todo \subseteq call'[q].tags
               /\ \A k \in Key \ (broken' \cup lookup'[q].touched) : Fits(q, k)'
    BY <1>0, <1>1, <2>1, <2>2
  <2> QED
    BY <1>2, <2>2
<1>9. CASE DeleteAllIndices(p)
  <2>1. /\ call'[p].op = "delete_all" /\ call[p].op = "none"
        /\ \A q \in Proc : call[q].op = "lookup" =>
             /\ lookup'[q].todo = lookup[q].todo
             /\ lookup'[q].touched = lookup[q].touched \cup Key
    BY <1>0, <1>9 DEF DeleteAllIndices, Phase, NoteUpdate, LookupType
  <2>2. ASSUME NEW q \in Proc, call'[q].op = "lookup"
        PROVE  /\ lookup'[q].todo \subseteq call'[q].tags
               /\ \A k \in Key \ (broken' \cup lookup'[q].touched) : Fits(q, k)'
    BY <1>0, <1>1, <2>1, <2>2
  <2> QED
    BY <1>2, <2>2
<1>10. ASSUME NEW tags \in SUBSET Tag, LookUp(p, tags)
       PROVE  Looking'
  <2>1. /\ call[p].op = "none" /\ call'[p].op = "lookup" /\ call'[p].tags = tags
        /\ tagsOf' = tagsOf /\ broken' = broken
        /\ lookup'[p].todo = tags /\ lookup'[p].found = Key
        /\ \A q \in Proc \ {p} : lookup'[q] = lookup[q]
    BY <1>0, <1>10 DEF LookUp, Phase
  <2>2. ASSUME NEW k \in Key \ lookup'[p].touched, NEW r \in Proc
        PROVE  /\ call[r].op = "update" => k \notin call[r].key
               /\ call[r].op # "delete_all"
    <3>1. /\ lookup'[p].touched = IF Working("delete_all") # {} THEN Key
                                  ELSE UNION {call[q].key : q \in Working("update")}
          /\ call[r].op \in {"update", "delete_all"} => pc[r] # "idle"
      BY <1>0, <1>10 DEF LookUp, Phase
    <3>2. call[r].op = "delete_all" => r \in Working("delete_all")
      BY <3>1 DEF Working
    <3>3. call[r].op = "update" => r \in Working("update")
      BY <3>1 DEF Working
    <3> QED
      BY <2>2, <3>1, <3>2, <3>3
  <2>3. ASSUME NEW q \in Proc, call'[q].op = "lookup"
        PROVE  /\ lookup'[q].todo \subseteq call'[q].tags
               /\ \A k \in Key \ (broken' \cup lookup'[q].touched) : Fits(q, k)'
    <3>1. CASE q = p
      BY <1>0, <2>1, <2>2, <3>1
    <3>2. CASE q # p
      BY SMTT(30), <1>0, <1>1, <2>1, <2>3, <3>2
    <3> QED
      BY <3>1, <3>2
  <2> QED
    BY <1>2, <2>3
<1>11. ASSUME NEW t \in Tag, ReadTagList(p, t)
       PROVE  Looking'
  <2>1. /\ call' = call /\ tagsOf' = tagsOf /\ broken' = broken
        /\ lookup'[p].todo = IF keyList[PathOf(t)] = {} THEN {} ELSE lookup[p].todo \ {t}
        /\ lookup'[p].found = lookup[p].found \cap keyList[PathOf(t)]
        /\ lookup'[p].touched = lookup[p].touched
        /\ \A q \in Proc \ {p} : lookup'[q] = lookup[q]
        /\ t \in lookup[p].todo /\ call[p].op = "lookup"
    <3> DEFINE keys == keyList[PathOf(t)]
    <3>1. lookup' = [lookup EXCEPT ![p].todo = IF keys = {} THEN {} ELSE @ \ {t},
                                   ![p].found = @ \cap keys]
      BY <1>11, Zenon DEF ReadTagList
    <3>2. UNCHANGED <<call, tagsOf, broken>> /\ pc[p] = "lookup" /\ t \in lookup[p].todo
      BY <1>11 DEF ReadTagList, callVars
    <3>3. call[p].op = "lookup"
      BY <1>0, <3>2 DEF Phase
    <3>4. lookup \in [Proc -> LookupType]
      OBVIOUS
    <3> HIDE DEF keys
    <3>5. lookup' = [lookup EXCEPT ![p] = [lookup[p] EXCEPT
                       !.todo = IF keys = {} THEN {} ELSE lookup[p].todo \ {t},
                       !.found = lookup[p].found \cap keys]]
      BY <3>1, Zenon
    <3>6. /\ lookup'[p].todo = IF keys = {} THEN {} ELSE lookup[p].todo \ {t}
          /\ lookup'[p].found = lookup[p].found \cap keys
          /\ lookup'[p].touched = lookup[p].touched
          /\ \A q \in Proc \ {p} : lookup'[q] = lookup[q]
      BY <3>4, <3>5 DEF LookupType
    <3> QED
      BY <3>2, <3>3, <3>6 DEF keys
  <2>2. ASSUME NEW k \in Key \ (broken \cup lookup[p].touched)
        PROVE  Fits(p, k)'
    <3>1. Fits(p, k) /\ t \in call[p].tags
      BY <1>1, <2>1
    <3>2. tagsOf[k] = {s \in Tag : k \in keyList[PathOf(s)]}
      BY <3>1 DEF TagInv, TagListsExact, Working
    <3> QED
      BY <2>1, <3>1, <3>2
  <2>3. ASSUME NEW q \in Proc, call'[q].op = "lookup"
        PROVE  /\ lookup'[q].todo \subseteq call'[q].tags
               /\ \A k \in Key \ (broken' \cup lookup'[q].touched) : Fits(q, k)'
    BY <1>1, <2>1, <2>2, <2>3
  <2> QED
    BY <1>2, <2>3
<1>12. CASE EndLookUp(p)
  <2>1. /\ call'[p].op = "none" /\ tagsOf' = tagsOf /\ broken' = broken
        /\ \A q \in Proc \ {p} : lookup'[q] = lookup[q]
    BY <1>12 DEF EndLookUp, NoCall
  <2>2. ASSUME NEW q \in Proc, call'[q].op = "lookup"
        PROVE  /\ lookup'[q].todo \subseteq call'[q].tags
               /\ \A k \in Key \ (broken' \cup lookup'[q].touched) : Fits(q, k)'
    BY SMTT(30), <1>0, <1>1, <2>1, <2>2
  <2> QED
    BY <1>2, <2>2
<1> QED
  BY <1>3, <1>5, <1>6, <1>7, <1>8, <1>9, <1>10, <1>11, <1>12 DEF TagActs, TagIndexStep, TagIndexCall

LEMMA TagInvInit == StoreInit => TagInv
BY DEF StoreInit, TagIndexInit, TagInv, TagLocks, InTagLock, Owners, HeldReads, Moving, TagListsExact,
       Looking, NoCall, Working, Paths

LEMMA TagInvStep ==
  ASSUME FilesDiffer, TypeInv, TagInv, [StoreNext]_allVars
  PROVE  TagInv'
<1> USE TypeInvStep
<1>1. ASSUME NEW p \in Proc, TagActs(p)
      PROVE  TagInv'
  BY <1>1, LocksStep, OwnersStep, HeldReadsStep, MovingStep, ListsStep, LookingStep DEF TagInv
<1>2. ASSUME NEW p \in Proc, StoreActs(p)
      PROVE  TagInv'
  <2>1. \A q \in Proc : \/ call[q].op \in {"update", "lookup", "delete_all"}
                        \/ call'[q].op \in {"update", "lookup", "delete_all"}
                        => pc'[q] = pc[q] /\ call'[q] = call[q]
    BY <1>2, OthersStay, StoreActsOps DEF TypeInv
  <2> QED
    BY <1>2, <2>1, StoreActsCalls, TagInvStays
<1>3. CASE BeginBatch \/ UNCHANGED allVars
  <2>1. UNCHANGED tagVars /\ pc' = pc /\ call' = call
    BY <1>3 DEF BeginBatch, allVars, callVars
  <2> QED
    BY <2>1, TagInvStays
<1> QED
  BY <1>1, <1>2, <1>3, WhoActs

\* Labels, calls, locks, lists, files and the locals of each caller keep their types, and
\* every caller is at a label of its operation.
THEOREM StoreTypesAreRight == StoreSpec => []TypeInv
<1>1. TypeInv /\ [StoreNext]_allVars => TypeInv'
  BY TypeInvStep
<1> QED
  BY TypeInit, <1>1, PTL DEF StoreSpec

\* If each tag has a file of its own, a key whose updates have all returned is in exactly
\* the lists of the tags of the last one: the read and the write of a list by one caller
\* never enclose those of another, whatever becomes of callers that die with a lock.
THEOREM TagListsStayExact ==
  ASSUME FilesDiffer
  PROVE  StoreSpec => []TagListsExact
<1>1. TypeInv /\ TagInv /\ [StoreNext]_allVars => (TypeInv /\ TagInv)'
  BY TypeInvStep, TagInvStep
<1>2. StoreInit => TypeInv /\ TagInv
  BY TypeInit, TagInvInit
<1>3. TagInv => TagListsExact
  BY DEF TagInv
<1> QED
  BY <1>1, <1>2, <1>3, PTL DEF StoreSpec

\* If each tag has a file of its own, get_projection_keys_by_tags, which reads its lists
\* under no lock, is right about every key that nobody updated while it ran.
THEOREM LookUpsStayRight ==
  ASSUME FilesDiffer
  PROVE  StoreSpec => []LookUpsAreRight
<1>1. TypeInv /\ TagInv /\ [StoreNext]_allVars => (TypeInv /\ TagInv)'
  BY TypeInvStep, TagInvStep
<1>2. StoreInit => TypeInv /\ TagInv
  BY TypeInit, TagInvInit
<1>3. TypeInv /\ TagInv => LookUpsAreRight
  <2> SUFFICES ASSUME TypeInv, TagInv, NEW p \in Working("lookup"), lookup[p].todo = {},
                      NEW k \in Key \ (broken \cup lookup[p].touched)
               PROVE  k \in lookup[p].found <=> call[p].tags \subseteq tagsOf[k]
    BY DEF LookUpsAreRight
  <2> QED
    BY DEF TagInv, Looking, Working
<1> QED
  BY <1>1, <1>2, <1>3, PTL DEF StoreSpec

-----------------------------------------------------------------------------
(* The store: one lemma for each part of its invariant *)

StoreOps == {"save", "delete", "query", "rebuild", "metadata"}

LEMMA TagActsOps ==
  ASSUME TypeInv, NEW p \in Proc, TagActs(p)
  PROVE  call[p].op \notin StoreOps /\ call'[p].op \notin StoreOps
<1> USE DEF TypeInv, TagTypes, Phase, Go, Return, Start, callVars, NoCall, StoreOps
<1>1. ASSUME NEW k \in Key, NEW new \in SUBSET Tag, UpdateTags(p, k, new)
      PROVE  call[p].op \notin StoreOps /\ call'[p].op \notin StoreOps
  BY <1>1 DEF UpdateTags
<1>2. ASSUME NEW t \in Tag, \/ SkipRemoval(p, t) \/ AskForTagLock(p, t) \/ AcquireTagLock(p, t)
                            \/ ReadKeys(p, t) \/ WriteKeys(p, t) \/ ReleaseTagLock(p, t)
                            \/ ReadTagList(p, t)
      PROVE  call[p].op \notin StoreOps /\ call'[p].op \notin StoreOps
  BY <1>2 DEF SkipRemoval, AskForTagLock, AcquireTagLock, ReadKeys, WriteKeys, ReleaseTagLock,
       ReadTagList
<1>3. ASSUME NEW path \in Paths, DeleteIndex(p, path)
      PROVE  call[p].op \notin StoreOps /\ call'[p].op \notin StoreOps
  BY <1>3 DEF DeleteIndex
<1>4. CASE \/ EndUpdate(p) \/ EndDeleteAll(p) \/ EndLookUp(p) \/ BreakOffUpdate(p)
  BY <1>4 DEF EndUpdate, EndDeleteAll, EndLookUp, BreakOffUpdate
<1>5. CASE DeleteAllIndices(p)
  BY <1>5 DEF DeleteAllIndices
<1>6. ASSUME NEW tags \in SUBSET Tag, LookUp(p, tags)
      PROVE  call[p].op \notin StoreOps /\ call'[p].op \notin StoreOps
  BY <1>6 DEF LookUp
<1> QED
  BY <1>1, <1>2, <1>3, <1>4, <1>5, <1>6 DEF TagActs, TagIndexStep, TagIndexCall

\* Steps of the tag index keep the invariant of the store.
LEMMA StoreInvStays ==
  ASSUME TypeInv, TypeInv', StoreInv,
         UNCHANGED <<file, tagFile, failed, work, torn, index, wanted, metaLock, stale>>,
         batch' => batch \/ \A q \in Proc : pc[q] \notin {"write_state", "write_index", "drop_entry"},
         \A q \in Proc : call[q].op \in StoreOps \/ call'[q].op \in StoreOps
                         => pc'[q] = pc[q] /\ call'[q] = call[q]
  PROVE  StoreInv'
<1> USE DEF TypeInv, StoreInv, StoreOps
<1>1. \A q \in Proc, op \in StoreOps :
        /\ call'[q].op = op <=> call[q].op = op
        /\ call[q].op = op => pc'[q] = pc[q] /\ call'[q] = call[q]
  OBVIOUS
<1>2. \A q \in Proc, label \in {"old_state", "untag", "write_state", "write_index", "tag", "drop_entry",
                                "delete_state", "list_tag", "get", "rebuild", "lock_meta", "read_meta",
                                "write_meta", "unlock_meta"} :
        pc'[q] = label <=> pc[q] = label
  BY <1>1 DEF Phase, Ops
<1>3. KeyOwners'
  BY <1>1 DEF KeyOwners, Writes
<1>4. Tagging'
  BY <1>1 DEF Tagging, Tagged, Writes, TagsIn, FailedOf, StateTags
<1>5. Querying'
  BY <1>1 DEF Querying, Queried, Writes, FailedOf, StateTags, Exists
<1>6. Entries'
  <2>1. \A q \in Proc : (Changing(q)' <=> Changing(q)) /\ (InMetaLock(q)' <=> InMetaLock(q))
    BY <1>2 DEF Changing, InMetaLock
  <2> QED
    BY <1>2, <2>1 DEF Entries
<1> QED
  BY <1>3, <1>4, <1>5, <1>6

LEMMA KeyOwnersStep ==
  ASSUME TypeInv, TypeInv', StoreInv, NEW p \in Proc, StoreActs(p)
  PROVE  KeyOwners'
<1> USE DEF TypeInv, TagTypes, Go, Return, Start, callVars
<1>0. /\ \A q \in Proc \ {p} : pc'[q] = pc[q] /\ call'[q] = call[q]
      /\ \A q \in Proc : Phase(q)
      /\ KeyOwners
  BY OthersStay DEF StoreInv
<1>1. \A q \in Proc : Writes(q) => q \in Working("save") \cup Working("delete")
  BY <1>0 DEF Writes, Working, Phase
<1>2. \A q \in Proc : call[q].op = "rebuild" => q \in Working("rebuild")
  BY <1>0 DEF Working, Phase
<1>3. ASSUME call'[p] = call[p] \/ call'[p].op \notin {"save", "delete", "rebuild"}
      PROVE  KeyOwners'
  BY SMTT(30), <1>0, <1>3 DEF KeyOwners, Writes
<1>4. ASSUME NEW k \in Key, MayWrite(k), call'[p].key = {k}, call'[p].op # "rebuild"
      PROVE  KeyOwners'
  <2>1. \A q \in Proc : Writes(q) => call[q].key # {k}
    BY <1>1, <1>4 DEF MayWrite, Writers
  <2>2. \A q \in Proc : call[q].op # "rebuild"
    BY <1>2, <1>4 DEF MayWrite
  <2> QED
    BY SMTT(30), <1>0, <1>4, <2>1, <2>2 DEF KeyOwners, Writes
<1>5. ASSUME NEW k \in Key, NEW tags \in SUBSET Tag, Save(p, k, tags) \/ Delete(p, k)
      PROVE  KeyOwners'
  <2>1. MayWrite(k) /\ call'[p].key = {k} /\ call'[p].op # "rebuild"
    BY <1>5 DEF Save, Delete
  <2> QED
    BY <1>4, <2>1
<1>6. CASE Rebuild(p)
  <2>1. call'[p].op = "rebuild"
    BY <1>6 DEF Rebuild
  <2>2. \A q \in Proc : ~Writes(q)
    <3>1. ASSUME NEW q \in Proc, Writes(q)
          PROVE  FALSE
      <4>1. PICK k \in Key : call[q].key = {k}
        BY <1>0, <3>1 DEF Phase, Writes
      <4>2. MayWrite(k)
        BY <1>6 DEF Rebuild, NoWriter
      <4> QED
        BY <1>1, <3>1, <4>1, <4>2 DEF MayWrite, Writers
    <3> QED
      BY <3>1
  <2> QED
    BY <1>0, <2>1, <2>2 DEF KeyOwners, Writes
<1>7. ASSUME NEW tags \in SUBSET Tag, Query(p, tags)
      PROVE  KeyOwners'
  BY <1>3, <1>7 DEF Query
<1>8. CASE GetAll(p)
  BY <1>3, <1>8 DEF GetAll
<1>9. CASE Clear(p) \/ BreakOff(p)
  BY <1>3, <1>9 DEF Clear, BreakOff, NoCall
<1>10. ASSUME NEW keys, NEW version, MetaCall(p, keys, version)
       PROVE  KeyOwners'
  BY <1>3, <1>10 DEF MetaCall
<1>11. CASE StoreStep(p)
  <2>1. call'[p] = call[p] \/ call'[p] = NoCall
    BY <1>11 DEF StoreStep, GetOldState, OldStateUnreadable, ReadMetadata, WriteState, WriteIndex,
       ReadEntry, DropEntry, DeleteState, Get, ReadVersion, RemoveTagFile, AddTagFile, TagFileFails,
       ListTag, EndSave, EndListing, EndQuery, WriteRebuilt, SkipMetaDelete, LockMeta, ReadMeta,
       WriteMeta, UnlockMeta
  <2> QED
    BY <1>3, <2>1 DEF NoCall
<1>12. CASE StoreCall(p)
  BY <1>5, <1>6, <1>7, <1>8, <1>9, <1>10, <1>12 DEF StoreCall, MetaSave, MetaDelete, MetaClear
<1> QED
  BY <1>11, <1>12 DEF StoreActs

LEMMA TaggingStep ==
  ASSUME TypeInv, TypeInv', StoreInv, NEW p \in Proc, StoreActs(p)
  PROVE  Tagging'
<1> USE DEF TypeInv, TagTypes, StoreTypes, Go, Return, Start, callVars, files, ghosts
<1>0. /\ \A q \in Proc : work[q] \in WorkType /\ call[q] \in CallType
      /\ \A q \in Proc \ {p} : pc'[q] = pc[q] /\ call'[q] = call[q]
      /\ \A q \in Proc : Phase(q) /\ Phase(q)'
      /\ KeyOwners /\ Tagging
  BY OthersStay DEF StoreInv
<1>1. \A k \in Key : MayWrite(k) => \A q \in Proc : Writes(q) => k \notin call[q].key
  BY <1>0 DEF MayWrite, Writers, Working, Writes, Phase
<1>1a. ASSUME NEW k \in Key, k \in call[p].key,
              pc[p] \in {"old_state", "untag", "write_state", "write_index", "tag", "drop_entry",
                         "delete_state"}
       PROVE  Writes(p) /\ call[p].key = {k}
  <2>1. Writes(p)
    BY <1>0, <1>1a DEF Phase, Writes, Ops
  <2>2. PICK l \in Key : call[p].key = {l}
    BY <1>0, <2>1 DEF Phase, Writes
  <2> QED
    BY <1>1a, <2>1, <2>2
<1>1b. \A w \in WorkType : \A x : /\ [w EXCEPT !.touched = x].tags = w.tags
                                  /\ [w EXCEPT !.tags = x].tags = x
                                  /\ [w EXCEPT !.version = x].tags = w.tags
                                  /\ [w EXCEPT !.read = x].tags = w.tags
                                  /\ \A y : [w EXCEPT !.version = x, !.read = y].tags = w.tags
  BY DEF WorkType
\* A step of anyone but a writer, or one that breaks a writer off.
<1>2. ASSUME UNCHANGED <<file, tagFile, failed>>, torn \subseteq torn',
             \A q \in Proc \ {p} : work'[q] = work[q],
             Writes(p) => ~Writes(p)' /\ call[p].key \subseteq torn',
             Writes(p)' => pc'[p] = "old_state"
      PROVE  Tagging'
  <2>1. ASSUME NEW q \in Proc, Writes(q)'
        PROVE  Tagged(q)'
    <3>1. CASE q = p
      BY <1>2, <2>1, <3>1 DEF Tagged
    <3>2. CASE q # p
      BY <1>0, <1>2, <2>1, <3>2 DEF Tagged, Tagging, Writes, TagsIn, FailedOf, StateTags
    <3> QED
      BY <3>1, <3>2
  <2>2. ASSUME NEW k \in Key \ torn', \A q \in Proc : Writes(q)' /\ k \in call'[q].key => pc'[q] = "old_state"
        PROVE  \A q \in Proc : Writes(q) /\ k \in call[q].key => pc[q] = "old_state"
    BY <1>0, <1>2, <2>2 DEF Writes
  <2> QED
    BY <1>0, <1>2, <2>1, <2>2 DEF Tagging, TagsIn, FailedOf, StateTags
\* A step of the writer of k: nothing changes but for k, and p is past its old state.
<1>3. ASSUME NEW k \in Key, Writes(p), k \in call[p].key,
             \A l \in Key \ {k} : /\ TagsIn(l)' = TagsIn(l) /\ FailedOf(l)' = FailedOf(l)
                                  /\ file'[l] = file[l]
                                  /\ l \in torn => l \in torn',
             \A q \in Proc \ {p} : work'[q].tags = work[q].tags,
             TagsIn(k)' \subseteq StateTags(k)',
             Writes(p)' => /\ call'[p] = call[p] /\ pc'[p] # "old_state"
                           /\ Tagged(p)',
             ~Writes(p)' => StateTags(k)' \subseteq TagsIn(k)' \cup FailedOf(k)'
      PROVE  Tagging'
  <2>1. call[p].key = {k}
    BY <1>0, <1>3 DEF Phase, Writes
  <2>2. \A q \in Proc \ {p} : Writes(q) => call[q].key \subseteq Key \ {k}
    <3>1. ASSUME NEW q \in Proc \ {p}, Writes(q)
          PROVE  call[q].key \subseteq Key \ {k}
      <4>1. PICK l \in Key : call[q].key = {l}
        BY <1>0, <3>1 DEF Phase, Writes
      <4>2. l # k
        BY <1>0, <1>3, <2>1, <3>1, <4>1 DEF KeyOwners
      <4> QED
        BY <4>1, <4>2
    <3> QED
      BY <3>1
  <2>3. ASSUME NEW q \in Proc \ {p}, Writes(q)'
        PROVE  Tagged(q)'
    <3>1. Writes(q) /\ Tagged(q)
      BY <1>0, <2>3 DEF Writes, Tagging
    <3>2. \A l \in call[q].key : /\ TagsIn(l)' = TagsIn(l) /\ FailedOf(l)' = FailedOf(l)
                                 /\ StateTags(l)' = StateTags(l)
      BY <1>3, <2>2, <3>1 DEF StateTags
    <3>3. pc'[q] = pc[q] /\ call'[q] = call[q] /\ work'[q].tags = work[q].tags
      BY <1>0, <1>3
    <3> QED
      BY <3>1, <3>2, <3>3 DEF Tagged
  <2>4. ASSUME NEW l \in Key \ torn', \A q \in Proc : Writes(q)' /\ l \in call'[q].key => pc'[q] = "old_state"
        PROVE  StateTags(l)' \subseteq TagsIn(l)' \cup FailedOf(l)'
    <3>1. CASE l = k
      BY <1>3, <2>4, <3>1
    <3>2. CASE l # k
      <4>1. \A q \in Proc : Writes(q) /\ l \in call[q].key => pc[q] = "old_state"
        BY <1>0, <2>1, <2>4, <3>2 DEF Writes
      <4>2. l \notin torn
        BY <1>3, <2>4, <3>2
      <4>3. StateTags(l) \subseteq TagsIn(l) \cup FailedOf(l)
        BY <1>0, <4>1, <4>2 DEF Tagging
      <4> QED
        BY <1>3, <3>2, <4>3 DEF StateTags
    <3> QED
      BY <3>1, <3>2
  <2>5. \A l \in Key : TagsIn(l)' \subseteq StateTags(l)'
    BY <1>0, <1>3 DEF Tagging, StateTags
  <2> QED
    BY <1>3, <2>3, <2>4, <2>5 DEF Tagging
<1>4. \A k \in Key : Writes(p) /\ k \in call[p].key => Tagged(p) /\ TagsIn(k) \subseteq StateTags(k)
  BY <1>0 DEF Tagging
<1>5. ASSUME NEW k \in Key, GetOldState(p, k)
      PROVE  Tagging'
  <2>1. /\ work'[p].tags = StateTags(k) /\ \A q \in Proc \ {p} : work'[q].tags = work[q].tags
        /\ UNCHANGED <<call, file, tagFile, failed, torn>> /\ pc'[p] = "untag"
        /\ k \in call[p].key /\ pc[p] = "old_state"
    <3>1. \A w \in WorkType : [w EXCEPT !.touched = @ \cup {k}] \in WorkType
      BY DEF WorkType
    <3>2. Touch(work, k) \in [Proc -> WorkType] /\ \A q \in Proc : Touch(work, k)[q].tags = work[q].tags
      BY <1>0, <1>1b, <3>1 DEF Touch
    <3>3. work' = [Touch(work, k) EXCEPT ![p] = [Touch(work, k)[p] EXCEPT !.tags = StateTags(k)]]
      BY <1>5 DEF GetOldState
    <3>4. work'[p].tags = StateTags(k) /\ \A q \in Proc \ {p} : work'[q].tags = work[q].tags
      BY <1>1b, <3>2, <3>3
    <3> QED
      BY <1>5, <3>4 DEF GetOldState
  <2>2. Writes(p) /\ call[p].key = {k}
    BY <1>1a, <2>1
  <2>3. Tagged(p)'
    BY <1>4, <2>1, <2>2 DEF Tagged, TagsIn, StateTags
  <2> QED
    BY <1>3, <1>4, <2>1, <2>2, <2>3 DEF TagsIn, FailedOf, StateTags, Writes
<1>28. ASSUME NEW k \in Key, OldStateUnreadable(p, k)
       PROVE  Tagging'
  <2>1. /\ \A q \in Proc \ {p} : work'[q].tags = work[q].tags
        /\ UNCHANGED <<call, file, tagFile, torn>> /\ pc'[p] = "untag"
        /\ failed' = failed \cup (StateTags(k) \X {k})
        /\ k \in call[p].key /\ pc[p] = "old_state"
    <3>1. \A q \in Proc : Touch(work, k)[q].tags = work[q].tags
      BY <1>0, <1>1b DEF Touch
    <3> QED
      BY <1>28, <3>1 DEF OldStateUnreadable
  <2>2. Writes(p) /\ call[p].key = {k}
    BY <1>1a, <2>1
  <2>3. /\ TagsIn(k)' = TagsIn(k) \ StateTags(k)
        /\ \A l \in Key \ {k} : TagsIn(l)' = TagsIn(l) /\ FailedOf(l)' = FailedOf(l)
    BY <2>1 DEF TagsIn, FailedOf
  <2>4. TagsIn(k)' = {}
    BY <1>4, <2>2, <2>3
  <2>5. Tagged(p)'
    BY <2>1, <2>2, <2>4 DEF Tagged
  <2> QED
    BY <1>3, <2>1, <2>2, <2>3, <2>4, <2>5 DEF Writes
<1>6. ASSUME NEW k \in Key, NEW t \in Tag, RemoveTagFile(p, k, t)
      PROVE  Tagging'
  <2>1. /\ work'[p].tags = work[p].tags \ {t} /\ \A q \in Proc \ {p} : work'[q] = work[q]
        /\ UNCHANGED <<call, pc, file, torn>>
        /\ tagFile' = tagFile \ {<<t, k>>} /\ failed' = failed \ {<<t, k>>}
        /\ k \in call[p].key /\ pc[p] = "untag"
    BY <1>0, <1>6 DEF RemoveTagFile, WorkType
  <2>2. Writes(p) /\ call[p].key = {k}
    BY <1>1a, <2>1
  <2>3. /\ TagsIn(k)' = TagsIn(k) \ {t}
        /\ \A l \in Key \ {k} : TagsIn(l)' = TagsIn(l) /\ FailedOf(l)' = FailedOf(l)
    BY <2>1 DEF TagsIn, FailedOf
  <2>4. Tagged(p)'
    BY <1>4, <2>1, <2>2, <2>3 DEF Tagged
  <2> QED
    BY <1>3, <1>4, <2>1, <2>2, <2>3, <2>4 DEF StateTags, Writes
<1>7. ASSUME NEW k \in Key, ReadMetadata(p, k) \/ ReadEntry(p, k)
      PROVE  Tagging'
  <2>1. /\ work'[p].tags = work[p].tags /\ \A q \in Proc \ {p} : work'[q] = work[q]
        /\ UNCHANGED <<call, file, tagFile, failed, torn>>
        /\ k \in call[p].key /\ pc[p] = "untag" /\ work[p].tags = {}
        /\ pc'[p] \in {"write_state", "drop_entry", "delete_state"}
    <3>1. CASE ReadMetadata(p, k)
      <4>1. \/ work' = [work EXCEPT ![p] = [work[p] EXCEPT !.version = file[k].version + 1]]
            \/ work' = [work EXCEPT ![p] = [work[p] EXCEPT !.version = index[k] + 1, !.read = index]]
        BY <3>1 DEF ReadMetadata
      <4>2. work'[p].tags = work[p].tags /\ \A q \in Proc \ {p} : work'[q] = work[q]
        <5>1. ASSUME NEW v, work' = [work EXCEPT ![p] = [work[p] EXCEPT !.version = v]]
              PROVE  work'[p].tags = work[p].tags /\ \A q \in Proc \ {p} : work'[q] = work[q]
          BY <1>0, <1>1b, <5>1
        <5>2. ASSUME NEW v, NEW r, work' = [work EXCEPT ![p] = [work[p] EXCEPT !.version = v, !.read = r]]
              PROVE  work'[p].tags = work[p].tags /\ \A q \in Proc \ {p} : work'[q] = work[q]
          BY <1>0, <1>1b, <5>2
        <5> QED
          BY <4>1, <5>1, <5>2
      <4> QED
        BY <3>1, <4>2 DEF ReadMetadata
    <3>2. CASE ReadEntry(p, k)
      <4>1. work' = work \/ work' = [work EXCEPT ![p] = [work[p] EXCEPT !.read = index]]
        BY <3>2 DEF ReadEntry
      <4>2. work'[p].tags = work[p].tags /\ \A q \in Proc \ {p} : work'[q] = work[q]
        <5>1. ASSUME NEW r, work' = [work EXCEPT ![p] = [work[p] EXCEPT !.read = r]]
              PROVE  work'[p].tags = work[p].tags /\ \A q \in Proc \ {p} : work'[q] = work[q]
          BY <1>0, <1>1b, <5>1
        <5> QED
          BY <4>1, <5>1
      <4> QED
        BY <3>2, <4>2 DEF ReadEntry
    <3> QED
      BY <1>7, <3>1, <3>2
  <2>2. Writes(p) /\ call[p].key = {k}
    BY <1>1a, <2>1
  <2>3. Tagged(p)'
    BY <1>4, <2>1, <2>2 DEF Tagged, TagsIn
  <2> QED
    BY <1>3, <1>4, <2>1, <2>2, <2>3 DEF TagsIn, FailedOf, StateTags, Writes
<1>8. ASSUME NEW k \in Key, WriteState(p, k)
      PROVE  Tagging'
  <2>1. /\ \A q \in Proc \ {p} : work'[q] = work[q]
        /\ UNCHANGED <<call, tagFile, failed, torn>>
        /\ StateTags(k)' = call[p].tags /\ \A l \in Key \ {k} : file'[l] = file[l]
        /\ k \in call[p].key /\ pc[p] = "write_state"
        /\ pc'[p] = "write_index" \/ (pc'[p] = "tag" /\ work'[p].tags = call[p].tags)
    BY <1>0, <1>8 DEF WriteState, WorkType, StateTags
  <2>2. Writes(p) /\ call[p].key = {k}
    BY <1>1a, <2>1
  <2>3. TagsIn(k) = {} /\ \A l \in Key : TagsIn(l)' = TagsIn(l) /\ FailedOf(l)' = FailedOf(l)
    BY <1>4, <2>1, <2>2 DEF Tagged, TagsIn, FailedOf
  <2>4. Tagged(p)'
    BY <2>1, <2>2, <2>3 DEF Tagged
  <2> QED
    BY <1>3, <2>1, <2>2, <2>3, <2>4 DEF Writes
<1>9. ASSUME NEW k \in Key, WriteIndex(p, k)
      PROVE  Tagging'
  <2>1. /\ work'[p].tags = call[p].tags /\ \A q \in Proc \ {p} : work'[q] = work[q]
        /\ UNCHANGED <<call, file, tagFile, failed, torn>>
        /\ k \in call[p].key /\ pc[p] = "write_index" /\ pc'[p] = "tag"
    BY <1>0, <1>9 DEF WriteIndex, WorkType
  <2>2. Writes(p) /\ call[p].key = {k}
    BY <1>1a, <2>1
  <2>3. Tagged(p)'
    BY <1>4, <2>1, <2>2 DEF Tagged, TagsIn, StateTags
  <2> QED
    BY <1>3, <1>4, <2>1, <2>2, <2>3 DEF TagsIn, FailedOf, StateTags, Writes
<1>10. ASSUME NEW k \in Key, DropEntry(p, k)
       PROVE  Tagging'
  <2>1. /\ UNCHANGED <<call, file, tagFile, failed, torn, work>>
        /\ k \in call[p].key /\ pc[p] = "drop_entry" /\ pc'[p] = "delete_state"
    BY <1>10 DEF DropEntry
  <2>2. Writes(p) /\ call[p].key = {k}
    BY <1>1a, <2>1
  <2>3. Tagged(p)'
    BY <1>4, <2>1, <2>2 DEF Tagged, TagsIn
  <2> QED
    BY <1>3, <1>4, <2>1, <2>2, <2>3 DEF TagsIn, FailedOf, StateTags, Writes
<1>11. ASSUME NEW k \in Key, NEW t \in Tag, AddTagFile(p, k, t)
       PROVE  Tagging'
  <2>1. /\ work'[p].tags = work[p].tags \ {t} /\ \A q \in Proc \ {p} : work'[q] = work[q]
        /\ UNCHANGED <<call, pc, file, torn>>
        /\ tagFile' = tagFile \cup {<<t, k>>} /\ failed' = failed \ {<<t, k>>}
        /\ k \in call[p].key /\ pc[p] = "tag" /\ t \in work[p].tags
    BY <1>0, <1>11 DEF AddTagFile, WorkType
  <2>2. Writes(p) /\ call[p].key = {k}
    BY <1>1a, <2>1
  <2>3. /\ TagsIn(k)' = TagsIn(k) \cup {t} /\ FailedOf(k)' = FailedOf(k) \ {t}
        /\ \A l \in Key \ {k} : TagsIn(l)' = TagsIn(l) /\ FailedOf(l)' = FailedOf(l)
    BY <2>1 DEF TagsIn, FailedOf
  <2>4. Tagged(p)' /\ StateTags(k)' = StateTags(k) /\ TagsIn(k)' \subseteq StateTags(k)
    BY <1>4, <2>1, <2>2, <2>3 DEF Tagged, StateTags
  <2> QED
    BY <1>3, <2>1, <2>2, <2>3, <2>4 DEF Writes
<1>29. ASSUME NEW k \in Key, NEW t \in Tag, TagFileFails(p, k, t)
       PROVE  Tagging'
  <2>1. /\ work'[p].tags = work[p].tags \ {t} /\ \A q \in Proc \ {p} : work'[q] = work[q]
        /\ UNCHANGED <<call, pc, file, torn, tagFile>> /\ failed' = failed \cup {<<t, k>>}
        /\ k \in call[p].key /\ pc[p] \in {"untag", "tag"}
    BY <1>0, <1>29 DEF TagFileFails, WorkType
  <2>2. Writes(p) /\ call[p].key = {k}
    BY <1>1a, <2>1
  <2>3. /\ TagsIn(k)' = TagsIn(k) \ {t} /\ FailedOf(k)' = FailedOf(k) \cup {t}
        /\ \A l \in Key \ {k} : TagsIn(l)' = TagsIn(l) /\ FailedOf(l)' = FailedOf(l)
    BY <2>1 DEF TagsIn, FailedOf
  <2>4. Tagged(p)' /\ StateTags(k)' = StateTags(k) /\ TagsIn(k)' \subseteq StateTags(k)
    BY <1>4, <2>1, <2>2, <2>3 DEF Tagged, StateTags
  <2> QED
    BY <1>3, <2>1, <2>2, <2>3, <2>4 DEF Writes
<1>12. CASE EndSave(p)
  <2>1. /\ \A q \in Proc \ {p} : work'[q] = work[q]
        /\ UNCHANGED <<file, tagFile, failed>> /\ torn' = torn \ call[p].key
        /\ pc[p] = "tag" /\ work[p].tags = {} /\ ~Writes(p)'
    BY <1>12 DEF EndSave, Writes, NoCall
  <2>2. Writes(p)
    BY <1>0, <2>1 DEF Phase, Writes, Ops
  <2>3. PICK k \in Key : call[p].key = {k}
    BY <1>0, <2>2 DEF Phase, Writes
  <2>4. \A l \in Key : TagsIn(l)' = TagsIn(l) /\ FailedOf(l)' = FailedOf(l) /\ StateTags(l)' = StateTags(l)
    BY <2>1 DEF TagsIn, FailedOf, StateTags
  <2>5. TagsIn(k) \subseteq StateTags(k) /\ StateTags(k) \subseteq TagsIn(k) \cup FailedOf(k)
    BY <1>4, <2>1, <2>2, <2>3 DEF Tagged
  <2> QED
    BY <1>3, <2>1, <2>2, <2>3, <2>4, <2>5
<1>13. ASSUME NEW k \in Key, DeleteState(p, k)
       PROVE  Tagging'
  <2>1. /\ \A q \in Proc \ {p} : work'[q] = work[q]
        /\ UNCHANGED <<tagFile, failed>> /\ torn' = torn \ {k}
        /\ StateTags(k)' = {} /\ \A l \in Key \ {k} : file'[l] = file[l]
        /\ pc[p] = "delete_state" /\ k \in call[p].key /\ ~Writes(p)'
    BY <1>13 DEF DeleteState, Writes, NoCall, StateTags, NoFile
  <2>2. Writes(p)
    BY <1>0, <2>1 DEF Phase, Writes, Ops
  <2>3. TagsIn(k)' = {} /\ \A l \in Key : TagsIn(l)' = TagsIn(l) /\ FailedOf(l)' = FailedOf(l)
    BY <1>4, <2>1, <2>2 DEF Tagged, TagsIn, FailedOf
  <2> QED
    BY <1>3, <2>1, <2>2, <2>3
<1>14. CASE Clear(p)
  <2>1. /\ call'[p].op = "none" /\ \A k \in Key : MayWrite(k)
        /\ tagFile' = {} /\ file' = [k \in Key |-> NoFile]
    BY <1>14 DEF Clear, NoWriter, NoCall
  <2>2. \A q \in Proc : ~Writes(q)'
    <3>1. ASSUME NEW q \in Proc, Writes(q)'
          PROVE  FALSE
      <4>1. q # p /\ Writes(q)
        BY <1>0, <2>1, <3>1 DEF Writes
      <4>2. \E k \in Key : call[q].key = {k}
        BY <1>0, <4>1 DEF Phase, Writes
      <4> QED
        BY <1>1, <2>1, <4>1, <4>2
    <3> QED
      BY <3>1
  <2> QED
    BY <2>1, <2>2 DEF Tagging, TagsIn, StateTags, NoFile
<1>15. CASE BreakOff(p)
  <2>1. /\ UNCHANGED <<file, tagFile, failed>> /\ torn \subseteq torn'
        /\ \A q \in Proc \ {p} : work'[q] = work[q]
        /\ ~Writes(p)'
    BY <1>15 DEF BreakOff, Writes, NoCall
  <2>2. Writes(p) => call[p].key \subseteq torn'
    BY <1>15 DEF BreakOff, Writes
  <2> QED
    BY <1>2, <2>1, <2>2
<1>16. ASSUME NEW k \in Key, NEW tags \in SUBSET Tag, Save(p, k, tags) \/ Delete(p, k)
       PROVE  Tagging'
  <2>1. /\ UNCHANGED <<file, tagFile, failed, torn, work>> /\ ~Writes(p) /\ pc'[p] = "old_state"
    BY <1>0, <1>16 DEF Save, Delete, storeVars, Phase, Writes
  <2> QED
    BY <1>2, <2>1
<1>17. ASSUME UNCHANGED <<file, tagFile, failed, torn>>, \A q \in Proc \ {p} : work'[q] = work[q],
              ~Writes(p), ~Writes(p)'
       PROVE  Tagging'
  BY <1>2, <1>17
<1>18. ASSUME NEW tags \in SUBSET Tag, Query(p, tags)
       PROVE  Tagging'
  BY <1>0, <1>17, <1>18 DEF Query, Phase, Writes
<1>19. CASE GetAll(p)
  BY <1>0, <1>17, <1>19 DEF GetAll, Phase, Writes
<1>20. CASE Rebuild(p)
  BY <1>0, <1>17, <1>20 DEF Rebuild, Phase, Writes
<1>21. ASSUME NEW keys, NEW version, MetaCall(p, keys, version)
       PROVE  Tagging'
  BY <1>0, <1>17, <1>21 DEF MetaCall, Phase, Writes
<1>22. ASSUME NEW k \in Key, Get(p, k) \/ ReadVersion(p, k)
       PROVE  Tagging'
  BY <1>0, <1>17, <1>22 DEF Get, ReadVersion, Phase, Writes
<1>23. ASSUME NEW t \in Tag, ListTag(p, t)
       PROVE  Tagging'
  BY <1>0, <1>17, <1>23 DEF ListTag, Phase, Writes
<1>24. CASE EndListing(p) \/ EndQuery(p) \/ WriteRebuilt(p)
  BY <1>0, <1>17, <1>24 DEF EndListing, EndQuery, WriteRebuilt, Phase, Writes, NoCall
<1>25. CASE SkipMetaDelete(p) \/ LockMeta(p) \/ ReadMeta(p) \/ WriteMeta(p) \/ UnlockMeta(p)
  BY <1>0, <1>17, <1>25 DEF SkipMetaDelete, LockMeta, ReadMeta, WriteMeta, UnlockMeta, Phase, Writes, NoCall
<1>26. CASE StoreStep(p)
  BY <1>5, <1>6, <1>7, <1>8, <1>9, <1>10, <1>11, <1>12, <1>13, <1>22, <1>23, <1>24, <1>25, <1>26,
     <1>28, <1>29 DEF StoreStep
<1>27. CASE StoreCall(p)
  BY <1>14, <1>15, <1>16, <1>18, <1>19, <1>20, <1>21, <1>27 DEF StoreCall, MetaSave, MetaDelete, MetaClear
<1> QED
  BY <1>26, <1>27 DEF StoreActs

LEMMA QueryingStep ==
  ASSUME TypeInv, TypeInv', StoreInv, NEW p \in Proc, StoreActs(p)
  PROVE  Querying'
<1> USE DEF TypeInv, TagTypes, StoreTypes, Go, Return, Start, callVars, files, ghosts
<1>0. /\ \A q \in Proc : work[q] \in WorkType /\ call[q] \in CallType
      /\ \A q \in Proc \ {p} : pc'[q] = pc[q] /\ call'[q] = call[q]
      /\ \A q \in Proc : Phase(q) /\ Phase(q)'
      /\ \A q \in Proc : call[q].op = "query" => Queried(q)
      /\ \A k \in Key : TagsIn(k) \subseteq StateTags(k)
      /\ \A k \in Key \ torn : (\A q \in Proc : Writes(q) /\ k \in call[q].key => pc[q] = "old_state")
                               => StateTags(k) \subseteq TagsIn(k) \cup FailedOf(k)
  BY OthersStay DEF StoreInv, Querying, Tagging
\* Steps that change no state but that of the key that p writes.
<1>1. ASSUME \A q \in Proc \ {p} : work'[q] = work[q],
             call'[p].op # "query",
             \A k \in Key : \/ /\ file'[k] = file[k] /\ FailedOf(k)' = FailedOf(k)
                               /\ k \in torn => k \in torn'
                            \/ Writes(p) /\ pc[p] # "old_state" /\ k \in call[p].key,
             Writes(p)' /\ pc'[p] # "old_state" =>
               Writes(p) /\ pc[p] # "old_state" /\ call'[p].key = call[p].key
      PROVE  Querying'
  <2>1. ASSUME NEW q \in Proc, call'[q].op = "query"
        PROVE  Queried(q)'
    <3>1. q # p /\ call'[q] = call[q] /\ pc'[q] = pc[q] /\ work'[q] = work[q] /\ Queried(q)
      BY <1>0, <1>1, <2>1
    <3>2. \A r \in Proc : Writes(r)' /\ pc'[r] # "old_state" =>
            Writes(r) /\ pc[r] # "old_state" /\ call'[r].key = call[r].key
      BY <1>0, <1>1 DEF Writes
    <3>3. \A k \in Key \ (torn' \cup work[q].touched) : /\ k \notin torn /\ file'[k] = file[k]
                                                        /\ FailedOf(k)' = FailedOf(k)
      BY <1>1, <3>1 DEF Queried
    <3> QED
      BY <3>1, <3>2, <3>3 DEF Queried, StateTags, Exists
  <2> QED
    BY <2>1 DEF Querying
<1>2. ASSUME NEW k \in Key, GetOldState(p, k) \/ OldStateUnreadable(p, k)
      PROVE  Querying'
  <2>1. Writes(p) /\ call[p].key = {k}
    <3>1. Writes(p) /\ k \in call[p].key
      BY <1>0, <1>2 DEF GetOldState, OldStateUnreadable, Phase, Writes, Ops
    <3>2. PICK l \in Key : call[p].key = {l}
      BY <1>0, <3>1 DEF Phase, Writes
    <3> QED
      BY <3>1, <3>2
  <2>2. ASSUME NEW q \in Proc, call'[q].op = "query"
        PROVE  Queried(q)'
    <3>1. /\ q # p /\ call' = call /\ pc'[q] = pc[q] /\ file' = file /\ torn' = torn
          /\ \A r \in Proc \ {p} : pc'[r] = pc[r]
          /\ \A l \in Key \ {k} : FailedOf(l)' = FailedOf(l)
      BY <1>0, <1>2, <2>1, <2>2 DEF GetOldState, OldStateUnreadable, Writes, FailedOf
    <3>2. work'[q] = [work[q] EXCEPT !.touched = @ \cup {k}]
      BY <1>2, <2>2, <3>1 DEF GetOldState, OldStateUnreadable, Touch
    <3>3. /\ work'[q].touched = work[q].touched \cup {k} /\ work'[q].tags = work[q].tags
          /\ work'[q].found = work[q].found
      BY <1>0, <3>2 DEF WorkType
    <3>4. Queried(q)
      BY <1>0, <2>2, <3>1
    <3> QED
      BY <2>1, <3>1, <3>3, <3>4 DEF Queried, StateTags, Exists, Writes
  <2> QED
    BY <2>2 DEF Querying
<1>3. CASE Clear(p)
  <2>1. ASSUME NEW q \in Proc, call'[q].op = "query"
        PROVE  Queried(q)'
    <3>1. /\ call'[p].op = "none" /\ \A k \in Key : MayWrite(k)
          /\ work' = [r \in Proc |-> IF call[r].op = "query" THEN [work[r] EXCEPT !.touched = Key] ELSE work[r]]
      BY <1>3 DEF Clear, NoWriter, NoCall
    <3>2. call[q].op = "query" /\ q # p /\ call'[q] = call[q] /\ pc'[q] = pc[q] /\ Queried(q)
      BY <1>0, <2>1, <3>1
    <3>3. work'[q].touched = Key /\ work'[q].tags = work[q].tags
      BY <1>0, <3>1, <3>2 DEF WorkType
    <3>4. \A r \in Proc : Writes(r)' => call'[r].key \subseteq Key
      BY <1>0 DEF Phase, Writes
    <3> QED
      BY <3>2, <3>3, <3>4 DEF Queried
  <2> QED
    BY <2>1 DEF Querying
<1>4. ASSUME \A q \in Proc \ {p} : work'[q] = work[q], UNCHANGED <<file, torn>>,
             UNCHANGED failed, ~Writes(p), ~Writes(p)', call'[p].op = "query" => Queried(p)'
      PROVE  Querying'
  <2>1. ASSUME NEW q \in Proc \ {p}, call'[q].op = "query"
        PROVE  Queried(q)'
    <3>1. call'[q] = call[q] /\ pc'[q] = pc[q] /\ work'[q] = work[q] /\ Queried(q)
      BY <1>0, <1>4, <2>1
    <3>2. \A r \in Proc : Writes(r)' /\ pc'[r] # "old_state" =>
            Writes(r) /\ pc[r] # "old_state" /\ call'[r].key = call[r].key
      BY <1>0, <1>4 DEF Writes
    <3> QED
      BY SMTT(30), <1>4, <3>1, <3>2 DEF Queried, StateTags, FailedOf, Exists
  <2> QED
    BY <1>4, <2>1 DEF Querying
<1>5. \A q \in Proc : Writes(q) =>
        /\ call[q].key \subseteq {k \in Key : Writers(k) # {}}
        /\ call[q].key \subseteq Key
  <2>1. ASSUME NEW q \in Proc, Writes(q)
        PROVE  call[q].key \subseteq {k \in Key : Writers(k) # {}}
    <3>1. PICK k \in Key : call[q].key = {k}
      BY <1>0, <2>1 DEF Phase, Writes
    <3>2. q \in Writers(k)
      BY <1>0, <2>1, <3>1 DEF Phase, Writes, Writers, Working
    <3> QED
      BY <3>1, <3>2
  <2> QED
    BY <2>1
<1>6. ASSUME NEW tags \in (SUBSET Tag) \ {{}}, Query(p, tags)
      PROVE  Querying'
  <2>1. /\ call'[p].op = "query" /\ call'[p].tags = tags /\ pc'[p] = "list_tag" /\ ~Writes(p)
        /\ call[p].op = "none" /\ UNCHANGED <<file, torn, failed>>
        /\ \A q \in Proc \ {p} : work'[q] = work[q]
    BY <1>0, <1>6 DEF Query, Phase, Writes
  <2>2. /\ work'[p].tags = tags /\ work'[p].found = Key
        /\ work'[p].touched = {k \in Key : Writers(k) # {}}
    BY <1>6 DEF Query, NoWork
  <2>3. \A q \in Proc : Writes(q)' => Writes(q) /\ call'[q] = call[q]
    BY <1>0, <2>1 DEF Writes
  <2>4. Queried(p)'
    <3>1. \A q \in Proc : Writes(q)' => call'[q].key \subseteq work'[p].touched
      BY <1>5, <2>2, <2>3
    <3>2. \A k \in Key : k \in work'[p].found /\ call'[p].tags \ work'[p].tags \subseteq StateTags(k)'
      BY <2>1, <2>2
    <3>3. pc'[p] = "list_tag" /\ call'[p].tags # {} /\ work'[p].tags \subseteq call'[p].tags
      BY <1>6, <2>1, <2>2
    <3>4. \A q \in Proc : Writes(q)' /\ pc'[q] # "old_state" => call'[q].key \subseteq work'[p].touched
      BY <3>1
    <3> QED
      BY <3>2, <3>3, <3>4 DEF Queried
  <2> QED
    BY <1>4, <2>1, <2>4 DEF Writes
<1>7. CASE GetAll(p)
  <2>1. /\ call'[p].op = "query" /\ call'[p].tags = {} /\ pc'[p] = "get" /\ ~Writes(p)
        /\ call[p].op = "none" /\ UNCHANGED <<file, torn, failed>>
        /\ \A q \in Proc \ {p} : work'[q] = work[q]
    BY <1>0, <1>7 DEF GetAll, Phase, Writes
  <2>2. /\ work'[p].found = StateFiles
        /\ work'[p].touched = {k \in Key : Writers(k) # {}}
    BY <1>7 DEF GetAll, NoWork
  <2>3. \A q \in Proc : Writes(q)' => Writes(q) /\ call'[q] = call[q]
    BY <1>0, <2>1 DEF Writes
  <2>4. Queried(p)'
    BY <1>5, <2>1, <2>2, <2>3 DEF Queried, StateFiles, Exists, StateTags
  <2> QED
    BY <1>4, <2>1, <2>4 DEF Writes
\* The keys of which a running query knows the tag files.
<1>8. ASSUME call[p].op = "query", NEW k \in Key \ (torn \cup work[p].touched)
      PROVE  TagsIn(k) \subseteq StateTags(k) /\ StateTags(k) \subseteq TagsIn(k) \cup FailedOf(k)
  <2>1. \A q \in Proc : Writes(q) /\ k \in call[q].key => pc[q] = "old_state"
    BY <1>0, <1>8 DEF Queried
  <2> QED
    BY <1>0, <1>8, <2>1
<1>9. ASSUME NEW t \in Tag, ListTag(p, t)
      PROVE  Querying'
  <2>1. /\ pc' = pc /\ call' = call /\ pc[p] = "list_tag" /\ t \in work[p].tags
        /\ UNCHANGED <<file, torn, failed>>
        /\ work' = [work EXCEPT ![p] = [work[p] EXCEPT !.tags = work[p].tags \ {t},
                      !.found = {k \in work[p].found : <<t, k>> \in tagFile}]]
    BY <1>9 DEF ListTag
  <2>2. call[p].op = "query" /\ ~Writes(p)
    BY <1>0, <2>1 DEF Phase, Writes
  <2>3. /\ work'[p].tags = work[p].tags \ {t} /\ work'[p].touched = work[p].touched
        /\ work'[p].found = {k \in work[p].found : <<t, k>> \in tagFile}
        /\ \A q \in Proc \ {p} : work'[q] = work[q]
    <3>1. \A w \in WorkType : \A x, y : /\ [w EXCEPT !.tags = x, !.found = y].tags = x
                                        /\ [w EXCEPT !.tags = x, !.found = y].found = y
                                        /\ [w EXCEPT !.tags = x, !.found = y].touched = w.touched
      BY DEF WorkType
    <3> QED
      BY <1>0, <2>1, <3>1
  <2>4. Queried(p)
    BY <1>0, <2>2
  <2>5. ASSUME NEW k \in Key \ (torn \cup work[p].touched), call[p].tags \cap FailedOf(k) = {}
        PROVE  /\ k \in work'[p].found => call[p].tags \ work'[p].tags \subseteq StateTags(k)
               /\ k \notin work'[p].found => ~(call[p].tags \subseteq StateTags(k)) \/ t \notin call[p].tags
    <3>1. /\ k \in work[p].found => call[p].tags \ work[p].tags \subseteq StateTags(k)
          /\ k \notin work[p].found => ~(call[p].tags \subseteq StateTags(k))
      BY <2>1, <2>4, <2>5 DEF Queried
    <3>2. TagsIn(k) \subseteq StateTags(k) /\ StateTags(k) \subseteq TagsIn(k) \cup FailedOf(k)
      BY <1>8, <2>2, <2>5
    <3>3. t \in call[p].tags => (<<t, k>> \in tagFile <=> t \in StateTags(k))
      BY <2>5, <3>2 DEF TagsIn, FailedOf
    <3> QED
      BY <2>1, <2>3, <2>4, <3>1, <3>3 DEF Queried
  <2>6. t \in call[p].tags
    BY <2>1, <2>4 DEF Queried
  <2>7. Queried(p)'
    BY <2>1, <2>2, <2>3, <2>4, <2>5, <2>6 DEF Queried, StateTags, FailedOf, Writes
  <2> QED
    BY <1>4, <2>1, <2>2, <2>3, <2>7 DEF Writes
<1>10. CASE EndListing(p)
  <2>1. /\ pc[p] = "list_tag" /\ pc'[p] = "get" /\ call' = call
        /\ work[p].tags = {} \/ work[p].found = {}
        /\ UNCHANGED <<file, torn, failed>>
        /\ \A q \in Proc \ {p} : pc'[q] = pc[q]
        /\ work' = [work EXCEPT ![p] = [work[p] EXCEPT !.todo = work[p].found]]
    BY <1>0, <1>10 DEF EndListing
  <2>2. call[p].op = "query" /\ ~Writes(p)
    BY <1>0, <2>1 DEF Phase, Writes
  <2>3. /\ work'[p].found = work[p].found /\ work'[p].touched = work[p].touched
        /\ \A q \in Proc \ {p} : work'[q] = work[q]
    BY <1>0, <2>1 DEF WorkType
  <2>4. Queried(p)
    BY <1>0, <2>2
  <2>5. ASSUME NEW k \in Key \ (torn \cup work[p].touched), call[p].tags \cap FailedOf(k) = {}
        PROVE  k \in work[p].found <=> Exists(k) /\ call[p].tags \subseteq StateTags(k)
    <3>1. /\ k \in work[p].found => call[p].tags \ work[p].tags \subseteq StateTags(k)
          /\ k \notin work[p].found => ~(call[p].tags \subseteq StateTags(k))
          /\ call[p].tags # {}
      BY <2>1, <2>4, <2>5 DEF Queried
    <3>2. StateTags(k) # {} => Exists(k)
      BY DEF StateTags, Exists, NoFile
    <3> QED
      BY <2>1, <3>1, <3>2
  <2>6. \A k \in Key : /\ FailedOf(k)' = FailedOf(k) /\ StateTags(k)' = StateTags(k)
                       /\ Exists(k)' <=> Exists(k)
    BY <2>1 DEF FailedOf, StateTags, Exists
  <2>7. \A q \in Proc : Writes(q)' /\ pc'[q] # "old_state" => Writes(q) /\ pc[q] # "old_state"
    BY <2>1, <2>2 DEF Writes
  <2>8. \A q \in Proc : Writes(q)' /\ pc'[q] # "old_state" => call'[q].key \subseteq work'[p].touched
    BY <2>1, <2>3, <2>4, <2>7 DEF Queried
  <2>9. Queried(p)'
    BY <2>1, <2>3, <2>5, <2>6, <2>8 DEF Queried
  <2> QED
    BY <1>4, <2>1, <2>2, <2>3, <2>9 DEF Writes
<1>11. ASSUME NEW k \in Key, Get(p, k)
       PROVE  Querying'
  <2>1. /\ pc[p] = "get" /\ pc' = pc /\ call' = call
        /\ UNCHANGED <<file, torn, failed>>
        /\ work' = [work EXCEPT ![p] = [work[p] EXCEPT !.todo = work[p].todo \ {k},
                      !.found = IF Exists(k) THEN work[p].found ELSE work[p].found \ {k}]]
    BY <1>0, <1>11 DEF Get
  <2>2. call[p].op = "query" /\ ~Writes(p)
    BY <1>0, <2>1 DEF Phase, Writes
  <2>3. /\ work'[p].found = IF Exists(k) THEN work[p].found ELSE work[p].found \ {k}
        /\ work'[p].touched = work[p].touched
        /\ \A q \in Proc \ {p} : work'[q] = work[q]
    BY <1>0, <2>1 DEF WorkType
  <2>4. Queried(p)
    BY <1>0, <2>2
  <2>5. Queried(p)'
    BY <2>1, <2>2, <2>3, <2>4 DEF Queried, StateTags, FailedOf, Exists, Writes
  <2> QED
    BY <1>4, <2>1, <2>2, <2>3, <2>5 DEF Writes
<1>12. ASSUME NEW k \in Key, \/ ReadMetadata(p, k) \/ WriteState(p, k) \/ WriteIndex(p, k) \/ ReadEntry(p, k)
                             \/ DropEntry(p, k) \/ DeleteState(p, k)
       PROVE  Querying'
  <2>1. /\ pc[p] \in {"untag", "write_state", "write_index", "drop_entry", "delete_state"}
        /\ k \in call[p].key
        /\ call'[p] = call[p] \/ call'[p].op = "none"
        /\ \A l \in Key \ {k} : file'[l] = file[l] /\ (l \in torn => l \in torn')
        /\ failed' = failed
        /\ \A q \in Proc \ {p} : work'[q] = work[q]
    BY <1>12 DEF ReadMetadata, WriteState, WriteIndex, ReadEntry, DropEntry, DeleteState, NoCall
  <2>2. Writes(p)
    BY <1>0, <2>1 DEF Phase, Writes, Ops
  <2>3. call'[p].op # "query"
    BY <2>1, <2>2 DEF Writes
  <2> QED
    BY <1>1, <2>1, <2>2, <2>3 DEF Writes, FailedOf
<1>13. ASSUME NEW k \in Key, NEW t \in Tag,
              RemoveTagFile(p, k, t) \/ AddTagFile(p, k, t) \/ TagFileFails(p, k, t)
       PROVE  Querying'
  <2>1. /\ pc[p] \in {"untag", "tag"} /\ call' = call /\ pc' = pc /\ UNCHANGED <<file, torn>>
        /\ k \in call[p].key /\ \A l \in Key \ {k} : FailedOf(l)' = FailedOf(l)
        /\ \A q \in Proc \ {p} : work'[q] = work[q]
    BY <1>13 DEF RemoveTagFile, AddTagFile, TagFileFails, FailedOf
  <2>2. Writes(p)
    BY <1>0, <2>1 DEF Phase, Writes, Ops
  <2> QED
    BY <1>1, <2>1, <2>2 DEF Writes
<1>14. CASE EndSave(p)
  <2>1. /\ pc[p] = "tag" /\ call'[p].op = "none" /\ UNCHANGED <<file, failed>>
        /\ torn' = torn \ call[p].key
        /\ \A q \in Proc \ {p} : work'[q] = work[q]
    BY <1>14 DEF EndSave, NoCall
  <2>2. Writes(p)
    BY <1>0, <2>1 DEF Phase, Writes, Ops
  <2> QED
    BY <1>1, <2>1, <2>2 DEF Writes, FailedOf
<1>15. CASE BreakOff(p)
  <2>1. /\ call'[p].op = "none" /\ UNCHANGED <<file, failed>> /\ torn \subseteq torn'
        /\ \A q \in Proc \ {p} : work'[q] = work[q]
    BY <1>15 DEF BreakOff, NoCall
  <2> QED
    BY <1>1, <2>1 DEF Writes, FailedOf
<1>16. ASSUME UNCHANGED <<file, torn, failed>>, \A q \in Proc \ {p} : work'[q] = work[q],
              call'[p].op # "query", Writes(p)' => pc'[p] = "old_state"
       PROVE  Querying'
  BY <1>1, <1>16 DEF FailedOf
<1>17. ASSUME NEW k \in Key, NEW tags \in SUBSET Tag, Save(p, k, tags) \/ Delete(p, k)
       PROVE  Querying'
  BY <1>16, <1>17 DEF Save, Delete, storeVars
<1>18. CASE Rebuild(p)
  BY <1>16, <1>18 DEF Rebuild, Writes
<1>19. ASSUME NEW keys, NEW version, MetaCall(p, keys, version)
       PROVE  Querying'
  BY <1>16, <1>19 DEF MetaCall, Writes
<1>20. ASSUME NEW k \in Key, ReadVersion(p, k)
       PROVE  Querying'
  BY <1>0, <1>16, <1>20 DEF ReadVersion, Phase, Writes
<1>21. CASE EndQuery(p) \/ WriteRebuilt(p) \/ SkipMetaDelete(p) \/ UnlockMeta(p)
  BY <1>16, <1>21 DEF EndQuery, WriteRebuilt, SkipMetaDelete, UnlockMeta, Writes, NoCall
<1>22. CASE LockMeta(p) \/ ReadMeta(p) \/ WriteMeta(p)
  BY <1>0, <1>16, <1>22 DEF LockMeta, ReadMeta, WriteMeta, Phase, Writes
<1>23. CASE StoreStep(p)
  BY <1>2, <1>9, <1>10, <1>11, <1>12, <1>13, <1>14, <1>20, <1>21, <1>22, <1>23 DEF StoreStep
<1>24. CASE StoreCall(p)
  BY <1>3, <1>6, <1>7, <1>15, <1>17, <1>18, <1>19, <1>24 DEF StoreCall, MetaSave, MetaDelete, MetaClear
<1> QED
  BY <1>23, <1>24 DEF StoreActs

LEMMA EntriesStep ==
  ASSUME TypeInv, TypeInv', StoreInv, NEW p \in Proc, StoreActs(p)
  PROVE  Entries'
<1> USE DEF TypeInv, TagTypes, StoreTypes, Go, Return, Start, callVars, files, ghosts
<1>0. /\ \A q \in Proc : work[q] \in WorkType /\ call[q] \in CallType
      /\ \A q \in Proc \ {p} : pc'[q] = pc[q] /\ call'[q] = call[q]
      /\ \A q \in Proc : Phase(q) /\ Phase(q)'
      /\ KeyOwners /\ Entries
      /\ Free \notin Proc
  BY OthersStay, TagIndexAssumption DEF StoreInv
<1> DEFINE Unl(q) == pc[q] \in {"write_state", "write_index", "drop_entry"}
<1>1. /\ \A q \in Proc : Unl(q) => Writes(q) /\ Changing(q)
      /\ \A q \in Proc : Changing(q) => Unl(q) \/ pc[q] = "write_meta"
      /\ \A q \in Proc : Unl(q) <=> q \in Unlocked
      /\ \A q \in Proc : pc[q] = "write_meta" <=> q \in Locked
  <2>1. \A q \in Proc : Unl(q) => Writes(q)
    BY <1>0 DEF Phase, Ops, Writes
  <2> QED
    BY <2>1 DEF Changing, Unlocked, Locked
<1>1a. (\A k \in Key : MayWrite(k)) => \A q \in Proc : ~Unl(q)
  <2> SUFFICES ASSUME \A k \in Key : MayWrite(k), NEW q \in Proc, Unl(q)
               PROVE  FALSE
    OBVIOUS
  <2>1. PICK k \in Key : call[q].key = {k}
    BY <1>0, <1>1 DEF Phase, Writes
  <2>2. q \in Writers(k)
    BY <1>0, <1>1, <2>1 DEF Writers, Working, Writes, Phase
  <2> QED
    BY <2>2 DEF MayWrite
\* Steps that start no change of the index and make none.
<1>2. ASSUME UNCHANGED <<index, wanted, metaLock>>, batch' => batch, stale => stale',
             \A q \in Proc \ {p} : work'[q].read = work[q].read,
             pc'[p] = pc[p] \/ pc'[p] \notin {"write_state", "drop_entry", "read_meta", "write_meta", "unlock_meta"},
             Unl(p)' => Unl(p),
             Changing(p)' => work'[p].read = work[p].read
      PROVE  Entries'
  <2>1. \A q \in Proc : /\ InMetaLock(q)' => InMetaLock(q)
                        /\ Unl(q)' => Unl(q)
                        /\ Changing(q)' => Changing(q) /\ work'[q].read = work[q].read
    <3>1. \A q \in Proc \ {p} : (InMetaLock(q)' => InMetaLock(q)) /\ (Unl(q)' => Unl(q))
                                /\ (Changing(q)' => Changing(q) /\ work'[q].read = work[q].read)
      BY <1>0, <1>2 DEF InMetaLock, Changing
    <3>2. (InMetaLock(p)' => InMetaLock(p)) /\ (Unl(p)' => Unl(p))
          /\ (Changing(p)' => Changing(p) /\ work'[p].read = work[p].read)
      BY <1>0, <1>2 DEF InMetaLock, Changing
    <3> QED
      BY <3>1, <3>2
  <2> HIDE DEF Unl
  <2>2. Entries => (batch => stale \/ \A q \in Proc : ~Unl(q))
    BY DEF Entries, Unl
  <2>3. batch' => stale' \/ \A q \in Proc : ~Unl(q)'
    BY <1>0, <1>2, <2>1, <2>2
  <2>4. batch' => stale' \/ \A q \in Proc : pc'[q] \notin {"write_state", "write_index", "drop_entry"}
    BY <2>3 DEF Unl
  <2> QED
    BY <1>0, <1>2, <2>1, <2>4 DEF Entries
\* Steps that read the index: nobody else is about to write it, or stale is set.
<1>3. ASSUME UNCHANGED <<index, wanted, metaLock, batch>>, stale => stale',
             \A q \in Proc \ {p} : work'[q] = work[q],
             ~stale' => work'[p].read = index /\ \A q \in Proc \ {p} : ~Changing(q),
             InMetaLock(p)' => InMetaLock(p),
             batch => stale' \/ ~Unl(p)'
      PROVE  Entries'
  <2>1. \A q \in Proc : InMetaLock(q)' => InMetaLock(q)
    BY <1>0, <1>3 DEF InMetaLock
  <2>2. \A q \in Proc \ {p} : (Changing(q)' <=> Changing(q)) /\ (Unl(q)' <=> Unl(q))
    BY <1>0 DEF Changing
  <2>3. batch' => stale' \/ \A q \in Proc : pc'[q] \notin {"write_state", "write_index", "drop_entry"}
    BY <1>0, <1>3, <2>2 DEF Entries
  <2>4. ~stale' => index' = wanted'
    BY <1>0, <1>3 DEF Entries
  <2>5. ~stale' => \A q, r \in Proc : Changing(q)' => work'[q].read = index' /\ (Changing(r)' => q = r)
    BY <1>3, <2>2
  <2> QED
    BY <1>0, <1>3, <2>1, <2>3, <2>4, <2>5 DEF Entries
\* Steps that write the index.
<1>4. ASSUME UNCHANGED <<metaLock, batch, stale>>, Changing(p), ~Changing(p)',
             \A q \in Proc \ {p} : work'[q] = work[q],
             work[p].read = index /\ index = wanted => index' = wanted',
             InMetaLock(p)' => InMetaLock(p)
      PROVE  Entries'
  <2>1. \A q \in Proc : InMetaLock(q)' => InMetaLock(q)
    BY <1>0, <1>4 DEF InMetaLock
  <2>2. \A q \in Proc \ {p} : (Changing(q)' <=> Changing(q)) /\ (Unl(q)' <=> Unl(q))
    BY <1>0 DEF Changing
  <2>3. ~Unl(p)'
    BY <1>4 DEF Changing
  <2>4. batch' => stale' \/ \A q \in Proc : pc'[q] \notin {"write_state", "write_index", "drop_entry"}
    BY <1>0, <1>4, <2>2, <2>3 DEF Entries
  <2>5. ~stale => work[p].read = index /\ index = wanted /\ \A q \in Proc \ {p} : ~Changing(q)
    BY <1>0, <1>4 DEF Entries
  <2>6. ~stale' => index' = wanted' /\ \A q \in Proc : ~Changing(q)'
    BY <1>4, <2>2, <2>5
  <2> QED
    BY <1>0, <1>4, <2>1, <2>4, <2>6 DEF Entries
\* Steps that replace the index when nobody reads and writes it under no lock.
<1>5. ASSUME UNCHANGED metaLock, \A q \in Proc : ~Unl(q), index' = wanted', stale' = (Locked # {}),
             pc'[p] = "idle"
      PROVE  Entries'
  <2>1. \A q \in Proc : (InMetaLock(q)' => InMetaLock(q)) /\ (pc'[q] = pc[q] \/ pc'[q] = "idle")
    BY <1>0, <1>5 DEF InMetaLock
  <2>2. \A q \in Proc : pc'[q] \notin {"write_state", "write_index", "drop_entry"}
    BY <1>5, <2>1
  <2>3. ~stale' => \A q \in Proc : ~Changing(q)'
    BY <1>1, <1>5, <2>1, <2>2 DEF Changing
  <2> QED
    BY <1>0, <1>5, <2>1, <2>2, <2>3 DEF Entries
<1>6. \A w \in WorkType : \A x : /\ [w EXCEPT !.touched = x].read = w.read
                                 /\ [w EXCEPT !.tags = x].read = w.read
                                 /\ [w EXCEPT !.read = x].read = x
                                 /\ \A y : [w EXCEPT !.version = x, !.read = y].read = y
  BY DEF WorkType
<1>7. ASSUME NEW k \in Key, GetOldState(p, k)
      PROVE  Entries'
  <2>1. \A w \in WorkType : [w EXCEPT !.touched = @ \cup {k}] \in WorkType
    BY DEF WorkType
  <2>2. Touch(work, k) \in [Proc -> WorkType] /\ \A q \in Proc : Touch(work, k)[q].read = work[q].read
    BY <1>0, <1>6, <2>1 DEF Touch
  <2>3. work' = [Touch(work, k) EXCEPT ![p] = [Touch(work, k)[p] EXCEPT !.tags = StateTags(k)]]
    BY <1>7 DEF GetOldState
  <2>4. \A q \in Proc : work'[q].read = work[q].read
    BY <1>6, <2>2, <2>3
  <2> QED
    BY <1>2, <1>7, <2>4 DEF GetOldState
<1>30. ASSUME NEW k \in Key, OldStateUnreadable(p, k)
       PROVE  Entries'
  <2>1. \A q \in Proc : Touch(work, k)[q].read = work[q].read
    BY <1>0, <1>6 DEF Touch
  <2>2. \A q \in Proc : work'[q].read = work[q].read
    BY <1>30, <2>1 DEF OldStateUnreadable
  <2> QED
    BY <1>2, <1>30, <2>2 DEF OldStateUnreadable
<1>8. ASSUME NEW k \in Key, ReadMetadata(p, k)
      PROVE  Entries'
  <2>1. /\ UNCHANGED <<index, wanted, metaLock, batch>> /\ pc[p] = "untag" /\ pc'[p] = "write_state"
        /\ \A q \in Proc \ {p} : work'[q] = work[q]
    BY <1>8 DEF ReadMetadata
  <2>2. CASE batch
    BY <1>3, <1>8, <2>1, <2>2 DEF ReadMetadata, InMetaLock
  <2>3. CASE ~batch
    <3>1. /\ work' = [work EXCEPT ![p] = [work[p] EXCEPT !.version = index[k] + 1, !.read = index]]
          /\ stale' = (stale \/ Unlocked # {} \/ Locked # {})
      BY <1>8, <2>3 DEF ReadMetadata, Overlap
    <3>2. work'[p].read = index
      BY <1>0, <1>6, <3>1
    <3>3. ~stale' => \A q \in Proc \ {p} : ~Changing(q)
      BY <1>1, <3>1
    <3> QED
      BY <1>3, <2>1, <2>3, <3>1, <3>2, <3>3 DEF InMetaLock
  <2> QED
    BY <2>2, <2>3
<1>9. ASSUME NEW k \in Key, ReadEntry(p, k)
      PROVE  Entries'
  <2>1. /\ UNCHANGED <<index, wanted, metaLock, batch>> /\ pc[p] = "untag"
        /\ \A q \in Proc \ {p} : work'[q] = work[q]
    BY <1>9 DEF ReadEntry
  <2>2. CASE ~batch /\ index[k] # 0
    <3>1. /\ work' = [work EXCEPT ![p] = [work[p] EXCEPT !.read = index]] /\ pc'[p] = "drop_entry"
          /\ stale' = (stale \/ Unlocked # {} \/ Locked # {})
      BY <1>9, <2>2 DEF ReadEntry, Overlap
    <3>2. work'[p].read = index
      BY <1>0, <1>6, <3>1
    <3>3. ~stale' => \A q \in Proc \ {p} : ~Changing(q)
      BY <1>1, <3>1
    <3> QED
      BY <1>3, <2>1, <2>2, <3>1, <3>2, <3>3 DEF InMetaLock
  <2>3. CASE ~(~batch /\ index[k] # 0)
    <3>1. work' = work /\ pc'[p] = "delete_state" /\ stale' = (stale \/ batch)
      BY <1>9, <2>3 DEF ReadEntry
    <3> QED
      BY <1>2, <2>1, <3>1 DEF Changing
  <2> QED
    BY <2>2, <2>3
<1>10. ASSUME NEW k \in Key, WriteState(p, k)
       PROVE  Entries'
  <2>1. /\ UNCHANGED <<index, wanted, metaLock, batch, stale>> /\ pc[p] = "write_state"
        /\ \A q \in Proc \ {p} : work'[q] = work[q]
        /\ pc'[p] = "tag" \/ (pc'[p] = "write_index" /\ work' = work)
    BY <1>10 DEF WriteState
  <2> QED
    BY <1>2, <2>1 DEF Changing
<1>11. ASSUME NEW k \in Key, WriteIndex(p, k)
       PROVE  Entries'
  <2>1. /\ UNCHANGED <<metaLock, batch, stale>> /\ pc[p] = "write_index" /\ pc'[p] = "tag"
        /\ \A q \in Proc \ {p} : work'[q] = work[q]
        /\ index' = [work[p].read EXCEPT ![k] = work[p].version]
        /\ wanted' = [wanted EXCEPT ![k] = work[p].version]
    BY <1>11 DEF WriteIndex, SetEntry
  <2> QED
    BY <1>4, <2>1 DEF Changing, InMetaLock
<1>12. ASSUME NEW k \in Key, DropEntry(p, k)
       PROVE  Entries'
  <2>1. /\ UNCHANGED <<metaLock, batch, stale, work>> /\ pc[p] = "drop_entry" /\ pc'[p] = "delete_state"
        /\ index' = [work[p].read EXCEPT ![k] = 0]
        /\ wanted' = [wanted EXCEPT ![k] = 0]
    BY <1>12 DEF DropEntry, SetEntry
  <2> QED
    BY <1>4, <2>1 DEF Changing, InMetaLock
<1>13. CASE WriteMeta(p)
  <2>1. /\ UNCHANGED <<metaLock, batch, stale, work>> /\ pc[p] = "write_meta" /\ pc'[p] = "unlock_meta"
        /\ index' = [k \in Key |-> IF k \in call[p].key THEN work[p].version ELSE work[p].read[k]]
        /\ wanted' = [k \in Key |-> IF k \in call[p].key THEN work[p].version ELSE wanted[k]]
    BY <1>13 DEF WriteMeta
  <2> QED
    BY <1>4, <2>1 DEF Changing, InMetaLock
<1>14. CASE ReadMeta(p)
  <2>1. /\ UNCHANGED <<index, wanted, metaLock, batch>> /\ pc[p] = "read_meta" /\ pc'[p] = "write_meta"
        /\ work' = [work EXCEPT ![p] = [work[p] EXCEPT !.read = index]]
        /\ stale' = (stale \/ Unlocked # {})
    BY <1>14 DEF ReadMeta
  <2>2. work'[p].read = index /\ \A q \in Proc \ {p} : work'[q] = work[q]
    BY <1>0, <1>6, <2>1
  <2>3. \A q \in Proc \ {p} : pc[q] # "write_meta"
    BY <1>0, <2>1 DEF Entries, InMetaLock
  <2>4. ~stale' => \A q \in Proc \ {p} : ~Changing(q)
    BY <1>1, <2>1, <2>3
  <2> QED
    BY <1>3, <2>1, <2>2, <2>4 DEF InMetaLock
<1>15. CASE LockMeta(p)
  <2>1. /\ UNCHANGED <<index, wanted, work, batch, stale>> /\ pc[p] = "lock_meta" /\ pc'[p] = "read_meta"
        /\ metaLock' = p /\ (metaLock # Free => ~InMetaLock(metaLock))
    BY <1>15 DEF LockMeta
  <2>2. \A q \in Proc : ~InMetaLock(q)
    BY <1>0, <2>1 DEF Entries
  <2>3. \A q \in Proc : /\ InMetaLock(q)' => q = p
                        /\ Changing(q)' <=> Changing(q)
                        /\ Unl(q)' <=> Unl(q)
    BY <1>0, <2>1, <2>2 DEF InMetaLock, Changing
  <2> QED
    BY <1>0, <2>1, <2>3 DEF Entries
<1>16. CASE UnlockMeta(p)
  <2>1. /\ UNCHANGED <<index, wanted, batch, stale>> /\ pc[p] = "unlock_meta" /\ pc'[p] = "idle"
        /\ \A q \in Proc \ {p} : work'[q] = work[q]
    BY <1>16 DEF UnlockMeta
  <2>2. \A q \in Proc \ {p} : ~InMetaLock(q)
    BY <1>0, <2>1 DEF Entries, InMetaLock
  <2>3. \A q \in Proc : /\ ~InMetaLock(q)'
                        /\ Changing(q)' => Changing(q) /\ work'[q] = work[q]
                        /\ Unl(q)' => Unl(q)
    BY <1>0, <2>1, <2>2 DEF InMetaLock, Changing
  <2> QED
    BY <1>0, <2>1, <2>3 DEF Entries
<1>17. CASE Clear(p)
  BY <1>1a, <1>5, <1>17 DEF Clear, NoWriter
<1>18. CASE WriteRebuilt(p)
  <2>1. call[p].op = "rebuild"
    BY <1>0, <1>18 DEF WriteRebuilt, Phase
  <2>2. \A q \in Proc : ~Unl(q)
    BY <1>0, <1>1, <2>1 DEF KeyOwners
  <2> QED
    BY <1>5, <1>18, <2>2 DEF WriteRebuilt
<1>19. ASSUME UNCHANGED <<index, wanted, metaLock, stale>>, batch' => batch,
              \A q \in Proc \ {p} : work'[q] = work[q],
              pc'[p] \notin {"write_state", "write_index", "drop_entry", "read_meta", "write_meta", "unlock_meta"}
       PROVE  Entries'
  BY <1>2, <1>19 DEF Changing
<1>20. ASSUME NEW k \in Key, NEW t \in Tag,
              RemoveTagFile(p, k, t) \/ AddTagFile(p, k, t) \/ TagFileFails(p, k, t)
       PROVE  Entries'
  BY <1>19, <1>20 DEF RemoveTagFile, AddTagFile, TagFileFails
<1>21. ASSUME NEW k \in Key, DeleteState(p, k) \/ Get(p, k) \/ ReadVersion(p, k)
       PROVE  Entries'
  BY <1>19, <1>21 DEF DeleteState, Get, ReadVersion
<1>22. ASSUME NEW t \in Tag, ListTag(p, t)
       PROVE  Entries'
  BY <1>19, <1>22 DEF ListTag
<1>23. CASE EndSave(p) \/ EndListing(p) \/ EndQuery(p) \/ SkipMetaDelete(p)
  BY <1>19, <1>23 DEF EndSave, EndListing, EndQuery, SkipMetaDelete
<1>24. CASE GetAll(p) \/ Rebuild(p) \/ BreakOff(p)
  BY <1>19, <1>24 DEF GetAll, Rebuild, BreakOff
<1>25. ASSUME NEW k \in Key, NEW tags \in SUBSET Tag, Save(p, k, tags) \/ Delete(p, k)
       PROVE  Entries'
  BY <1>19, <1>25 DEF Save, Delete, storeVars
<1>26. ASSUME NEW tags \in (SUBSET Tag) \ {{}}, Query(p, tags)
       PROVE  Entries'
  BY <1>19, <1>26 DEF Query
<1>27. ASSUME NEW keys, NEW version, MetaCall(p, keys, version)
       PROVE  Entries'
  BY <1>19, <1>27 DEF MetaCall
<1>28. CASE StoreStep(p)
  BY <1>7, <1>8, <1>9, <1>10, <1>11, <1>12, <1>13, <1>14, <1>15, <1>16, <1>18, <1>20, <1>21, <1>22,
     <1>23, <1>28, <1>30 DEF StoreStep
<1>29. CASE StoreCall(p)
  BY <1>17, <1>24, <1>25, <1>26, <1>27, <1>29 DEF StoreCall, MetaSave, MetaDelete, MetaClear
<1> QED
  BY <1>28, <1>29 DEF StoreActs

LEMMA StoreInvInit == StoreInit => StoreInv
BY DEF StoreInit, TagIndexInit, StoreInv, KeyOwners, Tagging, Tagged, Querying, Queried, Entries,
       Writes, TagsIn, FailedOf, StateTags, InMetaLock, Changing, NoCall, NoFile

LEMMA StoreInvStep ==
  ASSUME TypeInv, StoreInv, [StoreNext]_allVars
  PROVE  StoreInv'
<1> USE TypeInvStep
<1>1. ASSUME NEW p \in Proc, TagActs(p)
      PROVE  StoreInv'
  <2>1. \A q \in Proc : call[q].op \in StoreOps \/ call'[q].op \in StoreOps
                        => pc'[q] = pc[q] /\ call'[q] = call[q]
    BY <1>1, OthersStay, TagActsOps DEF TypeInv
  <2>2. UNCHANGED storeVars
    BY <1>1 DEF TagActs
  <2> QED
    BY <2>1, <2>2, StoreInvStays DEF storeVars, files, ghosts
<1>2. ASSUME NEW p \in Proc, StoreActs(p)
      PROVE  StoreInv'
  BY <1>2, KeyOwnersStep, TaggingStep, QueryingStep, EntriesStep DEF StoreInv
<1>3. CASE BeginBatch
  <2>1. /\ UNCHANGED <<pc, call, file, tagFile, failed, work, torn, index, wanted, metaLock, stale>>
        /\ \A k \in Key : MayWrite(k)
    BY <1>3 DEF BeginBatch, NoWriter, callVars, ghosts
  <2>2. \A q \in Proc : pc[q] \notin {"write_state", "write_index", "drop_entry"}
    <3> SUFFICES ASSUME NEW q \in Proc, pc[q] \in {"write_state", "write_index", "drop_entry"}
                 PROVE  FALSE
      OBVIOUS
    <3>1. Phase(q) /\ call[q].op \in {"save", "delete"}
      BY DEF TypeInv, Phase, Ops
    <3>2. PICK k \in Key : call[q].key = {k}
      BY <3>1 DEF Phase
    <3>3. q \in Writers(k)
      BY <3>1, <3>2 DEF Writers, Working
    <3> QED
      BY <2>1, <3>3 DEF MayWrite
  <2> QED
    BY <2>1, <2>2, StoreInvStays
<1>4. CASE UNCHANGED allVars
  <2>1. UNCHANGED <<pc, call, storeVars>>
    BY <1>4 DEF allVars, callVars
  <2> QED
    BY <2>1, StoreInvStays DEF storeVars, files, ghosts
<1> QED
  BY <1>1, <1>2, <1>3, <1>4, WhoActs

\* Whatever saves and deletes are broken off, and wherever: the tag files of a key that
\* nobody writes and whose last write has ended are those of its state, but for files of
\* which the last writing or deletion failed itself.
THEOREM TagFilesStayExact == StoreSpec => []TagFilesFollowStates
<1>1. TypeInv /\ StoreInv /\ [StoreNext]_allVars => (TypeInv /\ StoreInv)'
  BY TypeInvStep, StoreInvStep
<1>2. StoreInit => TypeInv /\ StoreInv
  BY TypeInit, StoreInvInit
<1>3. TypeInv /\ StoreInv => TagFilesFollowStates
  <2> SUFFICES ASSUME TypeInv, StoreInv, NEW k \in Key \ torn, Writers(k) = {}
               PROVE  TagsIn(k) \subseteq StateTags(k) /\ StateTags(k) \subseteq TagsIn(k) \cup FailedOf(k)
    BY DEF TagFilesFollowStates, TagsIn, FailedOf
  <2>1. \A q \in Proc : ~(Writes(q) /\ k \in call[q].key)
    BY DEF TypeInv, Phase, Writes, Writers, Working
  <2> QED
    BY <2>1 DEF StoreInv, Tagging
<1> QED
  BY <1>1, <1>2, <1>3, PTL DEF StoreSpec

\* query_by_tag, query_by_tags and get_all are right about every key that nobody wrote
\* while they ran, though they list tag files and read states one by one, unless the last
\* writing or deletion of one of the tag files they look for failed.
THEOREM QueriesStayRight == StoreSpec => []QueriesAreRight
<1>1. TypeInv /\ StoreInv /\ [StoreNext]_allVars => (TypeInv /\ StoreInv)'
  BY TypeInvStep, StoreInvStep
<1>2. StoreInit => TypeInv /\ StoreInv
  BY TypeInit, StoreInvInit
<1>3. TypeInv /\ StoreInv => QueriesAreRight
  BY DEF StoreInv, Querying, Queried, QueriesAreRight, Working, FailedOf
<1> QED
  BY <1>1, <1>2, <1>3, PTL DEF StoreSpec

\* The index never loses a change of an entry, if those who change it either hold the
\* lock of ProjectionMetadataIndex or do it one after the other.
THEOREM EntriesStayKept == StoreSpec => []EntriesAreKept
<1>1. TypeInv /\ StoreInv /\ [StoreNext]_allVars => (TypeInv /\ StoreInv)'
  BY TypeInvStep, StoreInvStep
<1>2. StoreInit => TypeInv /\ StoreInv
  BY TypeInit, StoreInvInit
<1>3. StoreInv => EntriesAreKept
  BY DEF StoreInv, Entries, EntriesAreKept, MetaEntries
<1> QED
  BY <1>1, <1>2, <1>3, PTL DEF StoreSpec
=============================================================================
