-------------------------- MODULE MCLeaseLifecycle --------------------------
(* Small instances of LeaseLifecycle for TLC.  A tick is the unit of every *)
(* duration.  A lease lasts from a second to 96 hours and may be renewed   *)
(* in its last 24: it may be shorter than the window, and is then renewed  *)
(* before it has begun, or longer.  LifecycleSafety has the first case,    *)
(* LifecycleLiveness the second and leases of two lengths.                 *)
EXTENDS LeaseLifecycle, TLC

MCRetryDelay == <<1, 1>>

(* Ids of requests are compared and never ordered or chosen; ids of leases *)
(* are drawn with CHOOSE and are not symmetric.                            *)
MCRequests == Permutations(Renewal) \cup Permutations(Restore)
=============================================================================
