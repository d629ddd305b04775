----------------------------- MODULE EventContract ------------------------------
(***************************************************************************)
(* What the events manager promises an application that publishes an       *)
(* event, whatever managers share the outbox: the contract of manager.ts   *)
(* and postgres-backend.ts (packages/events/src/events), without claims,   *)
(* leases, owners, generations, renewals, inbox entries or clocks.  An     *)
(* event is open until it is dispatched, dead or cancelled; meanwhile      *)
(* deliveries hand it to its consumers and then to its destination.  A     *)
(* delivery that is told to stop may go on.  EventsDelivery implements it. *)
(***************************************************************************)
EXTENDS Naturals

CONSTANTS Consumers, Deliveries, Bound

VARIABLES
    stage,      \* of the event: absent, open, dispatched, dead, cancelled or purged
    completed,  \* the consumers that have completed it
    hand,       \* delivery -> consumer -> idle, handling or handled
    work,       \* delivery -> its part at the destination: idle, delivering or delivered
    told        \* the deliveries that are told to stop

contract == <<stage, completed, hand, work, told>>

Becomes(s) == stage' = s

HandOf(d, c, s) == hand' = [hand EXCEPT ![d][c] = s]

WorkOf(d, s) == work' = [work EXCEPT ![d] = s]

AtRest(d) == work[d] = "idle" /\ \A c \in Consumers : hand[d][c] = "idle"

--------------------------------------------------------------------------------
Init ==
    /\ stage = "absent" /\ completed = {} /\ told = {}
    /\ hand = [d \in Deliveries |-> [c \in Consumers |-> "idle"]]
    /\ work = [d \in Deliveries |-> "idle"]

Publish ==
    /\ stage = "absent" /\ Becomes("open")
    /\ UNCHANGED <<completed, hand, work, told>>

\* A consumer is not given what it has completed, and its other handlers were told to stop.
Start(d, c) ==
    /\ d \notin told /\ c \notin completed
    /\ work[d] = "idle" /\ hand[d][c] = "idle"
    /\ \A e \in Deliveries \ {d} : hand[e][c] = "handling" => e \in told
    /\ HandOf(d, c, "handling")
    /\ UNCHANGED <<stage, completed, work, told>>

HandlerEnds(d, c) ==
    /\ hand[d][c] = "handling"
    /\ \E s \in {"handled", "idle"} : HandOf(d, c, s)
    /\ UNCHANGED <<stage, completed, work, told>>

\* A consumer completes the event with a handler that ended well, and once; or not.
Settle(d, c) ==
    /\ hand[d][c] = "handled" /\ HandOf(d, c, "idle")
    /\ \/ c \notin completed /\ completed' = completed \cup {c}
       \/ UNCHANGED completed
    /\ UNCHANGED <<stage, work, told>>

\* The destination comes last, and its other deliveries were told to stop.  What a purge
\* forgets is not asked for any more.
Deliver(d) ==
    /\ AtRest(d)
    /\ completed = Consumers \/ stage = "purged"
    /\ d \in told \/ \A e \in Deliveries \ {d} : work[e] = "delivering" => e \in told
    /\ WorkOf(d, IF Bound THEN "delivering" ELSE "delivered")
    /\ UNCHANGED <<stage, completed, hand, told>>

DeliveryEnds(d) ==
    /\ \/ work[d] = "delivering" /\ WorkOf(d, "delivered")
       \/ work[d] # "idle" /\ WorkOf(d, "idle")
    /\ UNCHANGED <<stage, completed, hand, told>>

\* A delivery that has done everything dispatches the event, and may not hear of it.
Dispatch(d) ==
    /\ stage = "open" /\ work[d] = "delivered" /\ completed = Consumers
    /\ Becomes("dispatched") /\ WorkOf(d, "idle")
    /\ told' \in {told, told \ {d}}
    /\ UNCHANGED <<completed, hand>>

\* A delivery gives the event up once nothing of its own is under way.
GiveUp(d) ==
    /\ stage = "open" /\ AtRest(d) /\ Becomes("dead")
    /\ told' = told \ {d}
    /\ UNCHANGED <<completed, hand, work>>

\* Deliveries end, or a process dies with its own.
Leave(D) ==
    /\ hand' = [d \in Deliveries |-> IF d \in D THEN [c \in Consumers |-> "idle"] ELSE hand[d]]
    /\ work' = [d \in Deliveries |-> IF d \in D THEN "idle" ELSE work[d]]
    /\ told' = told \ D
    /\ UNCHANGED <<stage, completed>>

Tell(D) ==
    /\ told' = told \cup D
    /\ UNCHANGED <<stage, completed, hand, work>>

Cancel ==
    /\ stage = "open" /\ Becomes("cancelled")
    /\ UNCHANGED <<completed, hand, work, told>>

\* An administrator replays the event for all consumers, or a dead one for those left.
Reopen ==
    /\ stage \in {"dispatched", "dead", "cancelled"}
    /\ told = {} /\ \A d \in Deliveries : AtRest(d)
    /\ Becomes("open")
    /\ completed' = {} \/ (stage = "dead" /\ completed' = completed)
    /\ UNCHANGED <<hand, work, told>>

Purge ==
    /\ stage \notin {"absent", "purged"}
    /\ Becomes("purged") /\ completed' = {}
    /\ UNCHANGED <<hand, work, told>>

Next ==
    \/ Publish \/ Cancel \/ Reopen \/ Purge
    \/ \E d \in Deliveries, c \in Consumers : Start(d, c) \/ HandlerEnds(d, c) \/ Settle(d, c)
    \/ \E d \in Deliveries : Deliver(d) \/ DeliveryEnds(d) \/ Dispatch(d) \/ GiveUp(d)
    \/ \E D \in SUBSET Deliveries : Leave(D) \/ Tell(D)

Spec == Init /\ [][Next]_contract
================================================================================
