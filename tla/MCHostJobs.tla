----------------------------- MODULE MCHostJobs -----------------------------
(* Two tracks on two workers. *)
EXTENDS HostJobs, TLC
=============================================================================
