------------------------------- MODULE MCSyncLoop -------------------------------
(***************************************************************************)
(* Three threads, one of them a daemon, and the loops they could create.   *)
(***************************************************************************)
EXTENDS SyncLoop, TLC

CONSTANTS a, b, d

================================================================================
