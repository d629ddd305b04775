----------------------------- MODULE MCJobsWorkers -----------------------------
(* Instances of JobsWorkers for TLC. *)
EXTENDS JobsWorkers

CONSTANTS r1, r2, r3, q1, t1

MCQueueOf == [r \in RunId |-> q1]
MCTaskOf == [r \in RunId |-> t1]
MCPriority == [r \in RunId |-> 0]
MCTwice == [r \in RunId |-> 2]
MCTwiceOnce == [r \in RunId |-> IF r = r1 THEN 2 ELSE 1]
MCOnce == [r \in RunId |-> 1]
MCTaskLimit == [t \in Task |-> 1]
MCLooseLimit == [t \in Task |-> 2]
================================================================================
