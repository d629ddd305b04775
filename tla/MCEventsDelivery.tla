--------------------------- MODULE MCEventsDelivery ----------------------------
(* One event, its consumers and the managers that may deliver it. *)
EXTENDS EventsDelivery

CONSTANTS m1, m2, c1, r1, r2
================================================================================
