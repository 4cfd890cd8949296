------------------------- MODULE EventStoreRefinement -------------------------
(***************************************************************************)
(* MarmosaStore implements DcbLog while the storage does not fail.  The    *)
(* abstract log holds the settled events: a batch joins it when the last   *)
(* of its index files is written and append_async is about to return Ok.   *)
(***************************************************************************)
EXTENDS EventStore

SettledLog == [i \in 1 .. Cardinality(Settled) |-> events[i - 1]]

AppendStatus(p) ==
  CASE call[p].op = "read"                                 -> "none"
    [] call[p].op # "read" /\ result[p].status = "none"    -> "pending"
    [] OTHER                                               -> result[p].status

Dcb == INSTANCE DcbLog WITH
  log <- SettledLog,
  request <- call,
  status <- [p \in Proc |-> AppendStatus(p)]

\* Concurrent appends are serialisable: each takes effect whole, at one moment
\* between its call and its return, on the condition evaluated at that moment.
ImplementsDcbLog == Dcb!DcbSpec
=============================================================================
