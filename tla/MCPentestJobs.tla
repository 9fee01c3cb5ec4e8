---------------------------- MODULE MCPentestJobs ----------------------------
(* PentestJobs with a source file, the directory it lies in and a lock file. *)
EXTENDS PentestJobs, TLC

MCStrong == {<<"src">>, <<"src", "auth">>}
MCWeak   == {<<"go.lock">>}
MCChanges == {{<<"go.lock">>}, {<<"src", "auth">>}}
CONSTANTS a, j1, j2
MCReports == {<<>>, <<a, a>>, <<NoId>>}
MCKindsOf == j1 :> {"active"} @@ j2 :> {"url", "local"}
=============================================================================
