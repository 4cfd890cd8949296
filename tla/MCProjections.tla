----------------------------- MODULE MCProjections -----------------------------
(* Values of the constants of ProjectionRebuilder for TLC. *)
EXTENDS ProjectionRebuilder, TLC

CONSTANTS user, task1, task2, orders, stock, key1, nokey, free, orphan

\* An event of a key for both projections, one that ends it, and one the first does not match.
MCKinds ==
  {[in |-> {orders, stock}, key |-> key1, ends |-> FALSE],
   [in |-> {orders, stock}, key |-> key1, ends |-> TRUE],
   [in |-> {stock}, key |-> nokey, ends |-> FALSE]}

\* For one projection.
MCKindsOfOne ==
  {[in |-> {orders}, key |-> key1, ends |-> FALSE],
   [in |-> {orders}, key |-> key1, ends |-> TRUE],
   [in |-> {}, key |-> nokey, ends |-> FALSE]}

\* Only events that the first projection applies.
MCOneKind == {[in |-> {orders}, key |-> key1, ends |-> FALSE]}

\* Keys, projections and events of all shapes, one at a time in any order.
ASSUME FoldsAreMadeOf ==
  \A n \in 1 .. 4 : \A events \in [1 .. n -> Kinds] : \A last \in 0 .. n - 1 :
    \A j \in Proj, k \in Key : FoldIsMadeOf(events, j, k, last)

MCTaskOf(j) == IF j = orders THEN task1 ELSE task2
=============================================================================
