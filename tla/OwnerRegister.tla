---------------------------- MODULE OwnerRegister ----------------------------
(***************************************************************************)
(* What owner.json promises to the runs that share a table: a register     *)
(* with one owner.  A claim first makes the register unreadable, which the *)
(* claimant may do only to an earlier run (or to nobody, or to a record    *)
(* that is unreadable already), and then puts the claimant in it.          *)
(* Module ScopeTable takes the two steps as one, or stops between them.    *)
(***************************************************************************)
EXTENDS Integers

CONSTANT NumRuns    \* runs 1..NumRuns, ranked by start time, then run ID

Runs == 1..NumRuns
NoRun == 0
Unreadable == -1

VARIABLE owner

Displace(r) == owner < r /\ owner' = Unreadable
Take(r) == owner = Unreadable /\ owner' = r

Init == owner = NoRun
Next == \E r \in Runs : Displace(r) \/ Take(r)
Spec == Init /\ [][Next]_owner
=============================================================================
