------------------------------ MODULE MCJobsStore ------------------------------
(* Instances of JobsStore for TLC. *)
EXTENDS JobsStore

CONSTANTS r1, r2, r3, q1, t1, t2

MCQueueOf == [r \in RunId |-> q1]
MCTwoTasks == [r \in RunId |-> IF r = r3 THEN t2 ELSE t1]
MCPriority == [r \in RunId |-> IF r = r2 THEN 1 ELSE 0]
MCMaxAttempts == [r \in RunId |-> IF r = r1 THEN 2 ELSE 1]
MCTaskLimit == [t \in Task |-> 1]
================================================================================
