-------------------------- MODULE MCJobsLeaseRenewal ---------------------------
(* Instances of JobsLeaseRenewal for TLC. *)
EXTENDS JobsLeaseRenewal
================================================================================
