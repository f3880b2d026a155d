---------------------------- MODULE MCLocalLock ----------------------------
(* Two jobs are enough for the lock to be shared. *)
EXTENDS LocalLock

MCProcesses == {"p1", "p2"}
=============================================================================
