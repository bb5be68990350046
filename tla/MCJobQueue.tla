---------------------------- MODULE MCJobQueue ----------------------------
(* Small instances of the job queue for TLC. *)
EXTENDS JobQueue, TLC

CONSTANTS a, b, u, v

MCHandles     == [w \in Workers |-> Jobs]
MCPriority    == [j \in Jobs |-> IF j = a THEN 1 ELSE 0]
MCMaxAttempts == [j \in Jobs |-> IF j = a THEN 2 ELSE 1]
MCWorkerSymmetry == Permutations(Workers)
=============================================================================
