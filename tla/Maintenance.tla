----------------------------- MODULE Maintenance -----------------------------
(***************************************************************************)
(* EventStoreMaintenance::add_tags and EventStoreAdmin::delete_store, next  *)
(* to the appends and reads of EventStore.                                 *)
(*                                                                         *)
(* add_tags reads the events of a type with read_async, and then, record   *)
(* by record and without the global lock,                                  *)
(*                                                                         *)
(*   tag index ... tag index -> event file                                 *)
(*                                                                         *)
(* from the record it has in memory since its read.  Nothing stops two     *)
(* add_tags from writing back each other's events, nor anybody from using  *)
(* a store while it is deleted: both are left to the callers.  What such a *)
(* race costs is kept in histories that the properties take into account:  *)
(* `stale`, `torn` and `spoiled`.                                          *)
(*                                                                         *)
(* A read that add_tags begins takes all its records at one moment.  Each  *)
(* is a file of its own, and no property relates two of them.              *)
(*                                                                         *)
(* IndexManager::get_positions_by_tags_async reads tag indices next to all *)
(* of this, one after another and under no lock.                           *)
(***************************************************************************)
EXTENDS EventStore

CONSTANTS
  KeyOf,       \* tag -> its key
  TaggedType,  \* the event type that is maintained
  Factory(_, _),  \* the tag_factory of a process: the tags it makes for an event
  LookUps,     \* lists of tags that are looked up
  DeletesAlone    \* TRUE iff the callers delete the store only while nobody uses it

ASSUME MaintenanceAssumption ==
  /\ TaggedType \in Type
  /\ \A g \in Tag : g \in DOMAIN KeyOf
  /\ LookUps \subseteq Seq(Tag)
  /\ DeletesAlone \in BOOLEAN

VARIABLES
  job,      \* where each process is in add_tags or delete_store
  records,  \* the records read and not yet done: position -> event, as changed in memory
  todo,     \* the tags of the factory not yet merged into the first record
  changed,  \* added_for_this_event
  tally,    \* the AddTagsResult to be: tags_added and events_processed
  had,      \* history: how many tags each of its records had when it was read
  hits,     \* the positions get_positions_by_tags_async has collected
  due,      \* history: the positions of events that had one of the tags when it began
  torn,     \* history: events whose rewriting failed or undid another one, or whose
            \* position an index failed to keep
  stale,    \* history: the events it has read that others have rewritten since
  spoiled   \* history: the last delete_store did not go through, or was not alone

looking == <<hits, due>>
counting == <<tally, had, torn, stale, spoiled>>
maintaining == <<job, records, todo, changed, counting, looking>>
maintenanceVars == <<vars, maintaining>>

\* AddTagsResult.
Tally(tags, processed) == [tags |-> tags, events |-> processed]

Keys(e) == {KeyOf[g] : g \in Range(e.tags)}

\* The position of the record in hand.
Current(p) == Min(DOMAIN records[p])

\* p is a maintainer: it is in add_tags.
Maintains(p) == job[p] \in {"read", "next", "tags"}

NobodyDeletes == \A p \in Proc : job[p] # "delete"

\* Nobody but p uses the store, and p itself is in no call.
Alone(p) == \A q \in Proc : pc[q] \in {"idle", "crashed"} /\ (q # p => job[q] = "none")

MaintenanceInit ==
  /\ Init
  /\ job = [p \in Proc |-> "none"]
  /\ records = [p \in Proc |-> << >>]
  /\ todo = [p \in Proc |-> << >>]
  /\ changed = [p \in Proc |-> 0]
  /\ tally = [p \in Proc |-> Tally(0, 0)]
  /\ had = [p \in Proc |-> << >>]
  /\ hits = [p \in Proc |-> {}] /\ due = [p \in Proc |-> {}]
  /\ torn = {} /\ stale = [p \in Proc |-> {}] /\ spoiled = FALSE

-----------------------------------------------------------------------------
(* add_tags *)

\* add_tags begins as an unlimited read of the events of the type.
AddTags(p) ==
  /\ job[p] = "none"
  /\ DeletesAlone => NobodyDeletes
  /\ Invoke(p, ReadAll(<<[types |-> <<TaggedType>>, tags |-> << >>]>>))
  /\ job' = [job EXCEPT ![p] = "read"]
  /\ tally' = [tally EXCEPT ![p] = Tally(0, 0)]
  /\ stale' = [stale EXCEPT ![p] = {}]
  /\ UNCHANGED <<records, todo, changed, had, torn, spoiled, looking>>

\* The end of the read: its records, or its error, which `?` returns.
ReadRecords(p) ==
  /\ job[p] = "read"
  /\ \E failed \in BOOLEAN : LoadEvents(p, failed)
  /\ IF result'[p].status = "ok"
     THEN /\ records' = [records EXCEPT ![p] = Restrict(events, result'[p].positions)]
          /\ had' = [had EXCEPT ![p] = [n \in result'[p].positions |-> Len(events[n].tags)]]
          /\ job' = [job EXCEPT ![p] = "next"]
     ELSE /\ job' = [job EXCEPT ![p] = "none"]
          /\ UNCHANGED <<records, had>>
  /\ UNCHANGED <<todo, changed, tally, torn, stale, spoiled, looking>>

\* The next record, in the order of positions, and the factory's tags for it.
NextRecord(p) ==
  /\ job[p] = "next" /\ DOMAIN records[p] # {}
  /\ todo' = [todo EXCEPT ![p] = Factory(p, records[p][Current(p)])]
  /\ changed' = [changed EXCEPT ![p] = 0]
  /\ tally' = [tally EXCEPT ![p].events = @ + 1]
  /\ job' = [job EXCEPT ![p] = "tags"]
  /\ UNCHANGED <<vars, records, had, torn, stale, spoiled, looking>>

\* add_position_async of the index f, under its lock; its error, or that of the
\* write in it, is dropped, and a file that cannot be read is started afresh.
UpdateTagIndex(f, n, failed) ==
  IF failed
  THEN /\ \/ /\ index' = index
             /\ (~NestedLockNames /\ UNCHANGED faults) \/ Storage("tag_index", TRUE)
          \/ /\ index' = [index EXCEPT ![f] = {n}]
             /\ NestedLockNames /\ Storage("tag_index", TRUE)
       /\ torn' = torn \cup ((index[f] \cup {n}) \ index'[f])
  ELSE /\ NestedLockNames
       /\ index' = [index EXCEPT ![f] = @ \cup {n}]
       /\ UNCHANGED <<faults, torn>>

\* Mutant of MergeTag: a key is looked for in the event file, where the tags
\* added so far are not.
MergeTagStored(p, failed) ==
  /\ ~failed /\ job[p] = "tags" /\ todo[p] # << >>
  /\ LET tag == Head(todo[p]) IN
       IF Current(p) \in DOMAIN events /\ KeyOf[tag] \in Keys(events[Current(p)])
       THEN UNCHANGED <<index, records, changed, faults, torn>>
       ELSE /\ records' = [records EXCEPT ![p][Current(p)].tags = Append(@, tag)]
            /\ UpdateTagIndex(TagFile[tag], Current(p), failed)
            /\ changed' = [changed EXCEPT ![p] = @ + 1]
  /\ todo' = [todo EXCEPT ![p] = Tail(@)]
  /\ UNCHANGED <<events, lock, pc, call, seq, rest, pend, resolving, result, floor, calls>>
  /\ UNCHANGED <<job, tally, had, stale, spoiled, looking>>

\* One tag of the factory: if the record has no tag with its key it is added to
\* the record in memory, and the position to the tag's index, or so it seems.
MergeTag(p, failed) ==
  /\ job[p] = "tags" /\ todo[p] # << >>
  /\ LET tag == Head(todo[p]) IN
       IF KeyOf[tag] \in Keys(records[p][Current(p)])
       THEN ~failed /\ UNCHANGED <<index, records, changed, faults, torn>>
       ELSE /\ records' = [records EXCEPT ![p][Current(p)].tags = Append(@, tag)]
            /\ UpdateTagIndex(TagFile[tag], Current(p), failed)
            /\ changed' = [changed EXCEPT ![p] = @ + 1]
  /\ todo' = [todo EXCEPT ![p] = Tail(@)]
  /\ UNCHANGED <<events, lock, pc, call, seq, rest, pend, resolving, result, floor, calls>>
  /\ UNCHANGED <<job, tally, had, stale, spoiled, looking>>

\* Mutant of NextAfterRewrite: an event counts as one tag.
NextAfterRewriteOne(p) ==
  /\ records' = [records EXCEPT ![p] = Restrict(@, DOMAIN @ \ {Current(p)})]
  /\ tally' = [tally EXCEPT ![p].tags = @ + (IF changed[p] > 0 THEN 1 ELSE 0)]
  /\ job' = [job EXCEPT ![p] = "next"]
  /\ UNCHANGED <<index, lock, pc, call, seq, rest, pend, resolving, result, floor, calls>>
  /\ UNCHANGED <<todo, changed, had, spoiled, looking>>

\* The record in hand is done: what it got is added to tags_added.
NextAfterRewrite(p) ==
  /\ records' = [records EXCEPT ![p] = Restrict(@, DOMAIN @ \ {Current(p)})]
  /\ tally' = [tally EXCEPT ![p].tags = @ + changed[p]]
  /\ job' = [job EXCEPT ![p] = "next"]
  /\ UNCHANGED <<index, lock, pc, call, seq, rest, pend, resolving, result, floor, calls>>
  /\ UNCHANGED <<todo, changed, had, spoiled, looking>>

\* What has become stale when p has written its record over the event.
Overwritten(p) ==
  [q \in Proc |-> IF q # p /\ Current(p) \in DOMAIN had[q] THEN stale[q] \cup {Current(p)} ELSE stale[q]]

\* write_file of the event file of the record in hand.
WriteRecord(p, record) ==
  events' = [n \in DOMAIN events \cup {Current(p)} |-> IF n = Current(p) THEN record ELSE events[n]]

\* Mutant of RewriteEvent: the new tags replace the old ones.
RewriteEventAnew(p, failed) ==
  /\ ~failed /\ job[p] = "tags" /\ todo[p] = << >>
  /\ IF changed[p] > 0
     THEN /\ WriteRecord(p, [records[p][Current(p)] EXCEPT !.tags = Factory(p, records[p][Current(p)])])
          /\ stale' = Overwritten(p)
     ELSE UNCHANGED <<events, stale>>
  /\ NextAfterRewrite(p)
  /\ UNCHANGED <<faults, torn>>

\* After its last tag the record, if it got one, is written over the event, and its
\* tags are counted; that the write failed is ignored.
RewriteEvent(p, failed) ==
  /\ job[p] = "tags" /\ todo[p] = << >>
  /\ failed => changed[p] > 0
  /\ Storage("event_write", failed)
  /\ IF changed[p] > 0 /\ ~failed
     THEN WriteRecord(p, records[p][Current(p)]) /\ stale' = Overwritten(p)
     ELSE UNCHANGED <<events, stale>>
  /\ torn' = IF failed \/ (changed[p] > 0 /\ Current(p) \in stale[p])
              THEN torn \cup {Current(p)}
              ELSE torn
  /\ NextAfterRewrite(p)

\* add_tags returns after its last record.
EndAddTags(p) ==
  /\ job[p] = "next" /\ DOMAIN records[p] = {}
  /\ job' = [job EXCEPT ![p] = "none"]
  /\ had' = [had EXCEPT ![p] = << >>]
  /\ UNCHANGED <<vars, records, todo, changed, tally, torn, stale, spoiled, looking>>

\* The process dies in add_tags, between any two of its storage calls, or in delete_store.
MaintainerDies(p) ==
  /\ Maintains(p) \/ job[p] = "delete"
  /\ Storage("crash", TRUE)
  /\ Go(p, "crashed")
  /\ job' = [job EXCEPT ![p] = "none"]
  /\ spoiled' = (spoiled \/ job[p] = "delete")
  /\ UNCHANGED <<store, call, seq, rest, pend, resolving, result, floor, calls>>
  /\ UNCHANGED <<records, todo, changed, tally, had, torn, stale, looking>>

-----------------------------------------------------------------------------
(* get_positions_by_tags_async *)

LookUpTags(p, tags) ==
  /\ pc[p] = "idle" /\ job[p] = "none"
  /\ DeletesAlone => NobodyDeletes
  /\ calls < MaxCalls
  /\ calls' = calls + 1
  /\ job' = [job EXCEPT ![p] = "lookup"]
  /\ todo' = [todo EXCEPT ![p] = tags]
  /\ due' = [due EXCEPT ![p] = {n \in Settled : Range(tags) \cap Range(events[n].tags) # {}}]
  /\ UNCHANGED <<store, pc, call, seq, rest, pend, resolving, result, floor, faults>>
  /\ UNCHANGED <<records, changed, counting, hits>>

\* Mutant of ReadTagIndex: the positions of the last tag only.
ReadTagIndexLast(p) ==
  /\ job[p] = "lookup" /\ todo[p] # << >>
  /\ hits' = [hits EXCEPT ![p] = index[TagFile[Head(todo[p])]]]
  /\ todo' = [todo EXCEPT ![p] = Tail(@)]
  /\ UNCHANGED <<vars, job, records, changed, counting, due>>

\* The index of one tag; the positions of all of them are joined.
ReadTagIndex(p) ==
  /\ job[p] = "lookup" /\ todo[p] # << >>
  /\ hits' = [hits EXCEPT ![p] = @ \cup index[TagFile[Head(todo[p])]]]
  /\ todo' = [todo EXCEPT ![p] = Tail(@)]
  /\ UNCHANGED <<vars, job, records, changed, counting, due>>

EndLookUp(p) ==
  /\ job[p] = "lookup" /\ todo[p] = << >>
  /\ job' = [job EXCEPT ![p] = "none"]
  /\ hits' = [hits EXCEPT ![p] = {}] /\ due' = [due EXCEPT ![p] = {}]
  /\ UNCHANGED <<vars, records, todo, changed, counting>>

-----------------------------------------------------------------------------
(* delete_store *)

\* The directories are deleted one after another, first Events; an error is dropped.
DeleteEvents(p, failed) ==
  /\ pc[p] = "idle" /\ job[p] = "none" /\ calls < MaxCalls
  /\ DeletesAlone => Alone(p)
  /\ Storage("delete_dir", failed)
  /\ calls' = calls + 1
  /\ events' = IF failed THEN events ELSE << >>
  /\ job' = [job EXCEPT ![p] = "delete"]
  /\ spoiled' = (failed \/ ~Alone(p))
  /\ UNCHANGED <<index, lock, pc, call, seq, rest, pend, resolving, result, floor>>
  /\ UNCHANGED <<records, todo, changed, tally, had, torn, stale, looking>>

\* Mutant of DeleteIndices: they are forgotten.
DeleteIndicesNever(p, failed) ==
  /\ ~failed /\ job[p] = "delete"
  /\ job' = [job EXCEPT ![p] = "none"]
  /\ UNCHANGED <<vars, records, todo, changed, counting, looking>>

\* Then Indices, and after it directories that are no part of this state.  The
\* deletion went through if nobody came in between.
DeleteIndices(p, failed) ==
  /\ job[p] = "delete"
  /\ Storage("delete_dir", failed)
  /\ index' = IF failed THEN index ELSE [f \in IndexFile |-> {}]
  /\ job' = [job EXCEPT ![p] = "none"]
  /\ spoiled' = (spoiled \/ failed \/ ~Alone(p) \/ DOMAIN events # {})
  /\ torn' = IF spoiled' THEN torn ELSE {}
  /\ UNCHANGED <<events, lock, pc, call, seq, rest, pend, resolving, result, floor, calls>>
  /\ UNCHANGED <<records, todo, changed, tally, had, stale, looking>>

-----------------------------------------------------------------------------
\* A step of EventStore that is not the end of a maintainer's read.
StoreStep(p) ==
  /\ ~(job[p] = "read" /\ pc[p] = "load")
  /\ Step(p)
  /\ UNCHANGED maintaining

\* A call of EventStore, by a process that has none.
StoreCall(p, c) ==
  /\ job[p] = "none"
  /\ DeletesAlone => NobodyDeletes
  /\ Invoke(p, c)
  /\ UNCHANGED maintaining

MaintenanceStep(p) ==
  \/ ReadRecords(p) \/ NextRecord(p) \/ EndAddTags(p)
  \/ \E failed \in BOOLEAN : MergeTag(p, failed) \/ RewriteEvent(p, failed) \/ DeleteIndices(p, failed)
  \/ ReadTagIndex(p) \/ EndLookUp(p)

MaintenanceQuiet == Quiet /\ (\A p \in Proc : job[p] = "none") /\ UNCHANGED maintaining

MaintenanceNext ==
  \/ \E p \in Proc :
       \/ StoreStep(p) \/ MaintenanceStep(p)
       \/ AddTags(p) \/ MaintainerDies(p)
       \/ \E failed \in BOOLEAN : DeleteEvents(p, failed)
       \/ \E c \in Calls : StoreCall(p, c)
       \/ \E tags \in LookUps : LookUpTags(p, tags)
  \/ MaintenanceQuiet

MaintenanceSpec == MaintenanceInit /\ [][MaintenanceNext]_maintenanceVars

-----------------------------------------------------------------------------
(* Properties *)

\* The record that p is about to write back is older than the event.
WritesBackOld(p, n) == job[p] = "tags" /\ n = Current(p) /\ n \in stale[p]

\* "Existing tag keys are preserved, no tag removal is performed": an event keeps
\* its type and its tags, in their order, and what it gets comes after them,
\* although it is written back from a record read long before.  Tags are lost in one
\* way only: another add_tags has rewritten the event since this one read it.
TagsOnlyGrow ==
  [][\A n \in DOMAIN events \cap DOMAIN events' :
       spoiled \/ (\E p \in Proc : WritesBackOld(p, n))
       \/ /\ events'[n].type = events[n].type
          /\ SubSeq(events'[n].tags, 1, Len(events[n].tags)) = events[n].tags]_events

\* When add_tags returns, every event of the type whose append was over when it was
\* called has each key of the factory's tags, and has it once, even if the factory makes
\* two tags of one key, add_tags ran before, or another one runs, unless the write of the
\* event failed or undid another, or the store was deleted meanwhile.
AddTagsComplete ==
  \A p \in Proc :
    job[p] = "next" /\ DOMAIN records[p] = {} /\ ~spoiled =>
      \A n \in DOMAIN events \ torn :
        n < floor[p] /\ events[n].type = TaggedType =>
          \A g \in Range(Factory(p, events[n])) :
            Cardinality({i \in DOMAIN events[n].tags : KeyOf[events[n].tags[i]] = KeyOf[g]}) = 1

\* "tags_added: number of new tag entries actually persisted": what add_tags reports is
\* what the events it read have gained, unless the write of one of them failed, another
\* add_tags rewrote one, or the store was deleted meanwhile.
TallyIsRight ==
  \A p \in Proc :
    job[p] = "next" /\ DOMAIN records[p] = {} /\ ~spoiled
    /\ DOMAIN had[p] \cap (torn \cup stale[p]) = {} =>
      tally[p] = Tally(Cardinality(UNION {{n} \X (had[p][n] + 1 .. Len(events[n].tags)) : n \in DOMAIN had[p]}),
                       Cardinality(DOMAIN had[p]))

\* A look-up by tags finds every event that had one of the tags when it began, whatever
\* is appended or maintained while it reads one index after another, unless an index
\* update of the event failed; and no position without an event, unless a deletion of
\* the store did not go through or had company.
TagLookUpsComplete ==
  \A p \in Proc :
    job[p] = "lookup" /\ todo[p] = << >> /\ NobodyDeletes /\ ~spoiled =>
      due[p] \ torn \subseteq hits[p] /\ hits[p] \subseteq DOMAIN events

\* Once nobody maintains, has died maintaining, or deletes, the index lists nothing that
\* its tag is not on: no event is named by an index of a deleted store, whatever earlier
\* deletions left behind, and no tag stays in the index only, unless its event could not
\* be written or was written back from an older record.
IndexSoundAtRest ==
  (\A p \in Proc : job[p] \in {"none", "lookup"} /\ pc[p] # "crashed") /\ ~spoiled =>
    \A f \in IndexFile : \A n \in index[f] \ torn :
      n \in DOMAIN events /\ f \in Range(FilesOf(events[n]))
=============================================================================
