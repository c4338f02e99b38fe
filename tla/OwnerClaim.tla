----------------------------- MODULE OwnerClaim -----------------------------
(***************************************************************************)
(* CheckpointManager.claim_owner: dbt runs that claim one table at once,   *)
(* through conditional writes of _checkpoint/owner.json.                   *)
(*                                                                         *)
(* An upload is two requests of the storage SDK: one creates the file      *)
(* empty, under the caller's condition, the other writes the contents if   *)
(* nobody else created it since.  Between the two the record is            *)
(* unreadable, to readers and to other claimants.                          *)
(***************************************************************************)
EXTENDS Integers

CONSTANTS
    NumRuns,      \* runs 1..NumRuns, ranked by start time, then run ID
    MaxAttempts,  \* _OWNER_CLAIM_ATTEMPTS
    MaxRetries    \* retries of the whole operation after a lost answer

ASSUME ClaimAssumption == NumRuns \in Nat /\ MaxAttempts \in Nat \ {0} /\ MaxRetries \in Nat

Runs == 1..NumRuns
NoRun == 0
Unreadable == -1
Content == Runs \cup {NoRun, Unreadable}

VARIABLES
    owner,   \* contents of owner.json; NoRun: no such file
    etag,    \* its ETag: a number no two versions share, 0 for no file
    claim,   \* the claimants' locals
    last     \* history: the run whose record was the last one complete

vars == <<owner, etag, claim, last>>

PCs == {"idle", "read", "create", "flush", "owner", "outranked", "exhausted", "dead"}
Returned == {"owner", "outranked", "exhausted", "dead"}
Claimant == [pc : PCs, current : Content, seen : Nat, attempt : 0..MaxAttempts,
             retries : 0..MaxRetries]

At(r, label) == claim[r].pc = label
Goto(r, label) == claim' = [claim EXCEPT ![r].pc = label]

(* Operators named after a slip, such as the next two, are what the code    *)
(* would be with it: the properties are tried against them.                 *)
KeepsOnlyItself(current, r) == current = r
KeepsAnyRecord(current, r) == current # NoRun /\ current # Unreadable

(* A run that started later, or the claimant itself, keeps the table.      *)
Keeps(current, r) == current # NoRun /\ current # Unreadable /\ current >= r

Begin(r) ==
    /\ At(r, "idle")
    /\ Goto(r, "read")
    /\ UNCHANGED <<owner, etag, last>>

Read(r) ==
    /\ At(r, "read")
    /\ \/ /\ Keeps(owner, r)
          /\ Goto(r, IF owner = r THEN "owner" ELSE "outranked")
       \/ /\ ~Keeps(owner, r)
          /\ claim' = [claim EXCEPT ![r].current = owner, ![r].seen = etag, ![r].pc = "create"]
    /\ UNCHANGED <<owner, etag, last>>

ConflictSameETag(r) == UNCHANGED claim

ConflictOnceMore(r) ==
    claim' = [claim EXCEPT
        ![r].attempt = @ + 1,
        ![r].pc = IF claim[r].attempt = MaxAttempts THEN "exhausted" ELSE "read"]

(* ResourceExistsError or ResourceModifiedError: read again, a few times. *)
Conflict(r) ==
    claim' = [claim EXCEPT
        ![r].attempt = @ + 1,
        ![r].pc = IF claim[r].attempt + 1 = MaxAttempts THEN "exhausted" ELSE "read"]

MatchesAlways(r) == claim[r].seen <= etag

(* The condition of the write: IfNotModified on the ETag that was read, or  *)
(* IfMissing when there was no file.                                        *)
Matches(r) == claim[r].seen = etag

Create(r) ==
    /\ At(r, "create")
    /\ \/ /\ Matches(r)
          /\ owner' = Unreadable
          /\ etag' = etag + 1
          /\ claim' = [claim EXCEPT ![r].seen = etag + 1, ![r].pc = "flush"]
       \/ /\ ~Matches(r)
          /\ Conflict(r)
          /\ UNCHANGED <<owner, etag>>
    /\ UNCHANGED last

(* The second request.  Its answer may be lost: then _retry runs the whole  *)
(* operation again.                                                         *)
Flush(r) ==
    /\ At(r, "flush")
    /\ \/ /\ Matches(r)
          /\ owner' = r
          /\ last' = r
          /\ etag' = etag + 1
          /\ \/ Goto(r, "owner")
             \/ /\ claim[r].retries < MaxRetries
                /\ claim' = [claim EXCEPT ![r].retries = @ + 1, ![r].attempt = 0, ![r].pc = "read"]
       \/ /\ ~Matches(r)
          /\ Conflict(r)
          /\ UNCHANGED <<owner, etag, last>>

(* The process dies; what it wrote stays. *)
Die(r) ==
    /\ claim[r].pc \notin Returned \cup {"idle"}
    /\ Goto(r, "dead")
    /\ UNCHANGED <<owner, etag, last>>

Init ==
    /\ owner = NoRun
    /\ etag = 0
    /\ last = NoRun
    /\ claim = [r \in Runs |-> [pc |-> "idle", current |-> NoRun, seen |-> 0,
                                attempt |-> 0, retries |-> 0]]

Step(r) == Begin(r) \/ Read(r) \/ Create(r) \/ Flush(r)

Terminated == (\A r \in Runs : claim[r].pc \in Returned) /\ UNCHANGED vars

Next == (\E r \in Runs : Step(r) \/ Die(r)) \/ Terminated

Spec == Init /\ [][Next]_vars

(* A claimant executes its next request; the storage answers it. *)
FairSpec == Spec /\ \A r \in Runs : WF_vars(Step(r))

-----------------------------------------------------------------------------
TypeOK ==
    /\ owner \in Content
    /\ etag \in Nat
    /\ last \in Runs \cup {NoRun}
    /\ claim \in [Runs -> Claimant]

(* Two runs claiming at once cannot both win: a run replaces the record of  *)
(* the run that owned the table last only if it started later than that     *)
(* run, or if it found the record unreadable.                               *)
DisplacesEarlierOnly ==
    [][\A r \in Runs : owner # r /\ owner' = r =>
          last < r \/ claim[r].current = Unreadable]_vars

(* A run that started later always takes the table over, and for good:      *)
(* from the moment its claim has returned it owns the table, whatever       *)
(* claims of other runs are still under way, unless it died or ran out of   *)
(* attempts, which takes MaxAttempts writes by other runs.                  *)
LatestRunOwns ==
    \A r \in Runs :
        (\A q \in Runs : q <= r) /\ claim[r].pc \in Returned \ {"dead", "exhausted"}
            => owner = r

(* Every claim returns: conflicts cannot keep a claimant going forever.     *)
ClaimsReturn == \A r \in Runs : At(r, "read") ~> claim[r].pc \in Returned

Register == INSTANCE OwnerRegister WITH NumRuns <- NumRuns, owner <- owner

(* owner.json implements the register that the table protocol relies on.   *)
ImplementsRegister == Register!Spec
=============================================================================
