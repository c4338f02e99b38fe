---------------------------- MODULE MCScopeTable ----------------------------
(* Constants for the runs of ScopeTable. *)
EXTENDS ScopeTable

MCFiles == 1..3
DistinctTimes == [f \in MCFiles |-> f]
TiedTimes == [f \in MCFiles |-> IF f = 3 THEN 2 ELSE 1]
EarlierRuns == 1..(NumRuns - 1)
AllRuns == 1..NumRuns
=============================================================================
