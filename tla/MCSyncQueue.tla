------------------------------ MODULE MCSyncQueue ------------------------------
(* Small instances of SyncQueue. *)
EXTENDS SyncQueue, TLC

WorkerSymmetry == Permutations(Workers)
===============================================================================
