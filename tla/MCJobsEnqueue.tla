----------------------------- MODULE MCJobsEnqueue -----------------------------
(* Instances of JobsEnqueue for TLC. *)
EXTENDS JobsEnqueue

CONSTANTS r1, r2, r3, q1, t1, e1, e2, e3, k1, c1, c2

MCQueueOf == [r \in RunId |-> q1]
MCTaskOf == [r \in RunId |-> t1]
MCPriority == [r \in RunId |-> 0]
MCMaxAttempts == [r \in RunId |-> 1]
MCTaskLimit == [t \in Task |-> 1]
MCRunOf == [e \in Call |-> CASE e = e1 -> r1 [] e = e2 -> r2 [] OTHER -> r3]
MCKeyOf == [e \in Call |-> IF e = e3 THEN NoKey ELSE k1]
MCOneKey == [e \in Call |-> k1]
MCChecksumOf == [e \in Call |-> IF e = e3 THEN c2 ELSE c1]
================================================================================
