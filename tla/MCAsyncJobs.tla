---------------------------- MODULE MCAsyncJobs ----------------------------
(* Two jobs that may share a key, two workers. *)
EXTENDS AsyncJobs

CONSTANTS j1, j2, w1, w2, k1
=============================================================================
