---------------------------- MODULE MCTaskManager ----------------------------
(* TaskManager with a spawned and an adopted task; every completed task may be evicted. *)
EXTENDS TaskManager
CONSTANTS t1, t2, k1
=============================================================================
