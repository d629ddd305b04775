-------------------------- MODULE MCResilienceRuntime --------------------------
(* Instances of ResilienceRuntime for TLC. *)
EXTENDS ResilienceRuntime

CONSTANTS o1, o2, o3, o4
================================================================================
