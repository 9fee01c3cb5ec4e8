---------------------------- MODULE MCProvisioning ----------------------------
(* Three commands over one project, two of them at once at most. *)
EXTENDS Provisioning, TLC

CONSTANTS p1, p2, p3, a
Init1 == [op |-> "init", project |-> None]
Setup1 == [op |-> "setup", project |-> a]
Restores == {[op |-> "restore", project |-> None], [op |-> "replace", project |-> None]}

MCCommandsOf ==
    p1 :> {Init1} @@ p2 :> {Init1} \cup Restores @@ p3 :> {Setup1}
RestoreAlone == p1 :> Restores
=============================================================================
