---------------------------- MODULE MCMaintenance ----------------------------
(* Values of the constants of Maintenance for TLC. *)
EXTENDS MCEventStore, Maintenance

\* Three tags of two keys: "course:1" and "course:2" have the same key.
MCKeyedTag == {"course:1", "course:2", "open:yes"}

MCKeyedFile == {"opened", "closed", "course_1", "course_2", "open_yes"}

MCKeyedTagFile == MCTagFile @@ ("open:yes" :> "open_yes")

MCKeyOf == ("course:1" :> "course") @@ ("course:2" :> "course") @@ ("open:yes" :> "open")

\* The factory of one process makes two tags of one key and one of another, whatever
\* the event has; that of the other makes one of these.
MCFactory(p, e) == IF p = p1 THEN <<"course:2", "course:1", "open:yes">> ELSE <<"open:yes">>

MCLookUps == {<<"course:1", "open:yes">>}

Bare == NewEvent("Opened")

\* Events with and without tags of their own, and a batch of both types.
MaintenanceCalls == {AppendCall(<<Opened, Bare>>), AppendSingle(Closed)}
=============================================================================
