------------------------------- MODULE DcbLog -------------------------------
(***************************************************************************)
(* What append_async promises (trait EventStore, src/src/event_store/mod.rs *)
(* and docs/dcb-specification.md): one log, to which a batch is appended   *)
(* whole and in one step, unless its AppendCondition is violated by the    *)
(* log as it is in that step; a refused append changes nothing.            *)
(***************************************************************************)
EXTENDS Queries

CONSTANTS Proc, Calls

VARIABLES
  log,      \* the events, position n at index n + 1
  request,  \* the call each process made last
  status    \* "none" if that was not an append, otherwise how far it is

dcbVars == <<log, request, status>>

\* The log as a function of the positions.
Positions(l) == [n \in 0 .. Len(l) - 1 |-> l[n + 1]]

Allowed(c) == c.op = "append_if" => Matching(Positions(log), c.query, c.after) = {}

DcbInit ==
  /\ log = << >>
  /\ status = [p \in Proc |-> "none"]
  /\ \A p \in Proc : request[p].op = "read"

Submit(p, c) ==
  /\ status[p] # "pending"
  /\ request' = [request EXCEPT ![p] = c]
  /\ status' = [status EXCEPT ![p] = IF c.op = "read" THEN "none" ELSE "pending"]
  /\ UNCHANGED log

Commit(p) ==
  /\ status[p] = "pending" /\ Allowed(request[p])
  /\ log' = log \o request[p].batch
  /\ status' = [status EXCEPT ![p] = "ok"]
  /\ UNCHANGED request

Refuse(p) ==
  /\ status[p] = "pending" /\ ~Allowed(request[p])
  /\ status' = [status EXCEPT ![p] = "condition_failed"]
  /\ UNCHANGED <<log, request>>

DcbNext == \E p \in Proc : Commit(p) \/ Refuse(p) \/ \E c \in Calls : Submit(p, c)

DcbSpec == DcbInit /\ [][DcbNext]_dcbVars
=============================================================================
