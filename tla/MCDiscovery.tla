---------------------------- MODULE MCDiscovery ----------------------------
(* Constants for the runs of Discovery: two roots, the first of which has   *)
(* two directories.                                                         *)
EXTENDS Discovery

MCDirs == {"a", "b", "c"}
TwoRoots == [d \in MCDirs |-> IF d = "c" THEN 2 ELSE 1]
MCFiles == 1..3
OneFileEach == [f \in MCFiles |-> IF f = 1 THEN "a" ELSE IF f = 2 THEN "b" ELSE "c"]

AvailableNow == [trigger |-> "available_now", fallback |-> FALSE, maxCycles |-> 0]
ProcessingTime == [trigger |-> "processing_time", fallback |-> FALSE, maxCycles |-> 0]

OnlyAvailableNow == {AvailableNow}
OnlyProcessingTime == {ProcessingTime}
AllConfigs == {AvailableNow, [AvailableNow EXCEPT !.fallback = TRUE],
               ProcessingTime, [ProcessingTime EXCEPT !.maxCycles = 2]}
=============================================================================
