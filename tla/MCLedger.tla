------------------------------- MODULE MCLedger -------------------------------
(* Values of the constants of Ledger for TLC. *)
EXTENDS Ledger, TLC

CONSTANTS p1, p2, p3

\* The second append is of an event too large for its buffer.
MCBigEvents == {2}
=============================================================================
