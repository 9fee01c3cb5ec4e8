----------------------------- MODULE MCTaskLedger -----------------------------
(* A small instance of TaskLedger.  The keys are numbered and only the         *)
(* journals that use them in order are explored.  The second and the fourth    *)
(* event's keys default to their ids; the third one's key is the first one's   *)
(* id.                                                                         *)
EXTENDS TaskLedger, TLC

CONSTANTS h1, h2

MCEvents == 1..4
MCIdOf   == <<3, 2, 13, 4>>

HeadSymmetry == Permutations({h1, h2})

EventsInOrder == \A e \in events', f \in Events : f < e => f \in events'
===============================================================================
