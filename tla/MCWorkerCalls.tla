--------------------------- MODULE MCWorkerCalls ---------------------------
(* An instance of WorkerCalls for TLC: one message, one worker. *)
EXTENDS WorkerCalls

CONSTANT w1

OneTimeOf == [w \in WaIds |-> 1]

\* The repository's nine migrations are applied.
AllMigrations == 1 .. 9
============================================================================
