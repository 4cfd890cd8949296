------------------------------- MODULE Queries -------------------------------
(***************************************************************************)
(* Events, queries and the two ways marmosa decides which events a query   *)
(* selects: Query::matches, which looks at an event (src/src/domain.rs),   *)
(* and the resolution through the index files that read_internal uses      *)
(* (src/src/event_store/mod.rs, indices.rs).                               *)
(*                                                                         *)
(* A position is a natural number.  The Option<u64> of a start position    *)
(* and the Option<usize> of a limit are integers with None = -1, so that   *)
(* `start_position.map(|p| p + 1).unwrap_or(0)` is start + 1 in both cases. *)
(***************************************************************************)
EXTENDS Integers, FiniteSets, Sequences, Functions

CONSTANTS
  Type,            \* event types, as the caller spells them
  Tag,             \* tags (key and value together), as the caller spells them
  IndexFile,       \* files under Indices/EventTypes and Indices/Tags
  TypeFile,        \* event type -> its index file, after sanitize_name
  TagFile,         \* tag -> its index file, after sanitize_name
  ParallelReadMin  \* `positions.len() > 10`: 10 in the code

\* Sanitising may map two names of one kind to one file, never a type and a
\* tag: they live in different directories.
ASSUME FilesAssumption ==
  /\ TypeFile \in [Type -> IndexFile]
  /\ TagFile \in [Tag -> IndexFile]
  /\ \A t \in Type, g \in Tag : TypeFile[t] # TagFile[g]

ASSUME ParallelReadMinAssumption == ParallelReadMin \in Nat

None == -1

Event == [type : Type, tags : Seq(Tag)]

QueryItem == [types : Seq(Type), tags : Seq(Tag)]

\* DomainEventBuilder: an event begins without tags, and tags are added at its end.
NewEvent(type) == [type |-> type, tags |-> << >>]

WithTags(e, tags) == [e EXCEPT !.tags = @ \o tags]

\* A query is the sequence of its items; Query::all() has none.
Query == Seq(QueryItem)

All == << >>

-----------------------------------------------------------------------------
(* Query::matches *)

ItemMatches(it, e) ==
  /\ it.types # << >> => e.type \in Range(it.types)
  /\ Range(it.tags) \subseteq Range(e.tags)

Matches(q, e) == q = All \/ \E i \in DOMAIN q : ItemMatches(q[i], e)

\* The positions of the events of `stored` after position `after` that q selects.
Matching(stored, q, after) ==
  {n \in DOMAIN stored : n > after /\ Matches(q, stored[n])}

-----------------------------------------------------------------------------
(* Index files *)

\* The index files of types and of tags, each kind in a directory of its own.
TypeFiles(types) == [i \in DOMAIN types |-> TypeFile[types[i]]]

TagFiles(tags) == [i \in DOMAIN tags |-> TagFile[tags[i]]]

IndexFiles(types, tags) == TypeFiles(types) \o TagFiles(tags)

\* What add_event_to_indices_async updates for an event, in its order.
FilesOf(e) == IndexFiles(<<e.type>>, e.tags)

\* What get_positions_for_query_item reads for an item, in its order.
FilesRead(it) == IndexFiles(it.types, it.tags)

\* Mutant of ItemPositions: the types are intersected as the tags are.
ItemPositionsAllTypes(it, seen) == {n \in UNION Range(seen) : \A i \in DOMAIN seen : n \in seen[i]}

\* The positions get_positions_for_query_item makes of what each file of
\* FilesRead(it) held when it was read: any of the types, all of the tags.
\* An item with neither reads nothing and selects nothing.
ItemPositions(it, seen) ==
  {n \in UNION Range(seen) :
     /\ it.types # << >> => \E i \in DOMAIN it.types : n \in seen[i]
     /\ \A j \in DOMAIN it.tags : n \in seen[Len(it.types) + j]}

\* Mutants of FromStart: the start is inclusive; the start is one too late.
FromStartInclusive(positions, after) == {n \in positions : n >= after}

FromStartLate(positions, after) == {n \in positions : n > after + 1}

\* The positions a read with this start_position looks at.
FromStart(positions, after) == {n \in positions : n >= after + 1}

-----------------------------------------------------------------------------
(* The last part of read_internal: from resolved positions to records *)

\* The first k positions in reading order (positions.reverse when descending).
FirstOf(positions, k, desc) ==
  {n \in positions :
     Cardinality({m \in positions : IF desc THEN m > n ELSE m < n}) < k}

\* Mutant of Truncated: one record short.
TruncatedShort(q, positions, max, desc) ==
  IF q # All /\ max # None THEN FirstOf(positions, max - 1, desc) ELSE positions

\* positions.truncate(max): only for queries that went through the indices.
Truncated(q, positions, max, desc) ==
  IF q # All /\ max # None THEN FirstOf(positions, max, desc) ELSE positions

\* Mutant of Returned: no filter with Query::matches after the indices.
ReturnedUnfiltered(stored, q, positions, max, desc) ==
  LET kept == Truncated(q, positions, max, desc) IN
  IF q # All \/ max = None THEN kept ELSE FirstOf(kept, IF max = 0 THEN 1 ELSE max, desc)

\* The positions whose event files are read and returned.  More than
\* ParallelReadMin index-resolved positions are read in parallel and returned
\* as they are; otherwise each record is filtered with Query::matches, and the
\* loop tests the limit after it has pushed a record.
Returned(stored, q, positions, max, desc) ==
  LET kept == Truncated(q, positions, max, desc) IN
  IF q # All
  THEN IF Cardinality(kept) > ParallelReadMin
       THEN kept
       ELSE {n \in kept : Matches(q, stored[n])}
  ELSE IF max = None THEN kept
       ELSE FirstOf(kept, IF max = 0 THEN 1 ELSE max, desc)
=============================================================================
