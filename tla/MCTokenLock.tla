---------------------------- MODULE MCTokenLock ----------------------------
(* Constants for the run of TokenLock: two threads of one process and one   *)
(* of another, tokens for two services. *)
EXTENDS TokenLock

MCWorkers == 1..3
MCScopes == {"adla", "storage"}
MCProcesses == {"p", "q"}
MCProcessOf == [w \in MCWorkers |-> IF w = 3 THEN "q" ELSE "p"]
=============================================================================
