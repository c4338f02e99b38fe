-------------------------- MODULE OwnerClaimProofs --------------------------
(***************************************************************************)
(* For any number of claimants, attempts and retries: the claims on        *)
(* owner.json displace only earlier owners, and implement OwnerRegister.   *)
(***************************************************************************)
EXTENDS OwnerClaim, TLAPS

(* What a claimant remembers while its ETag is still the file's. *)
ReadIsCurrent(r) ==
    At(r, "create") /\ Matches(r) => claim[r].current = owner /\ ~Keeps(owner, r)

RewriteIsOurs(r) ==
    At(r, "flush") /\ Matches(r) =>
        owner = Unreadable /\ (last < r \/ claim[r].current = Unreadable)

(* A claimant stops at its last attempt. *)
HasAttemptLeft(r) ==
    claim[r].pc \in {"idle", "read", "create", "flush"} => claim[r].attempt < MaxAttempts

ClaimInv ==
    /\ TypeOK
    /\ owner \in Runs => owner = last
    /\ owner = NoRun => last = NoRun
    /\ \A r \in Runs : claim[r].seen <= etag
    /\ \A r \in Runs : ReadIsCurrent(r) /\ RewriteIsOurs(r) /\ HasAttemptLeft(r)

USE ClaimAssumption DEF Runs, NoRun, Unreadable, Content, At, Goto

(* No file yet, no claimant yet. *)
LEMMA InitClaimInv == Init => ClaimInv
BY DEF Init, ClaimInv, TypeOK, Claimant, PCs, ReadIsCurrent, RewriteIsOurs, Matches, Keeps,
       HasAttemptLeft

(* Only the claimant that moves changes what it remembers; a write makes a *)
(* new ETag, which no other claimant has seen.                             *)
LEMMA StepClaimInv == ClaimInv /\ [Next]_vars => ClaimInv'
<1> SUFFICES ASSUME ClaimInv, [Next]_vars PROVE ClaimInv'
  OBVIOUS
<1> USE DEF ClaimInv, TypeOK, Claimant, PCs, ReadIsCurrent, RewriteIsOurs, Matches,
            HasAttemptLeft
<1>1. ASSUME NEW r \in Runs, Begin(r) PROVE ClaimInv'
  BY <1>1 DEF Begin, Keeps
<1>2. ASSUME NEW r \in Runs, Read(r) PROVE ClaimInv'
  <2>1. CASE Keeps(owner, r)
    <3>1. PICK label \in {"owner", "outranked"} : claim' = [claim EXCEPT ![r].pc = label]
      BY <1>2, <2>1 DEF Read
    <3>2. claim' \in [Runs -> Claimant]
      BY <3>1, ZenonT(60)
    <3>3. \A q \in Runs : /\ claim'[q].seen = claim[q].seen
                          /\ claim'[q].current = claim[q].current
                          /\ claim'[q].attempt = claim[q].attempt
                          /\ claim'[q].pc = claim[q].pc \/ claim'[q].pc = label
      BY <3>1
    <3>4. UNCHANGED <<owner, etag, last>>
      BY <1>2 DEF Read
    <3>5. TypeOK'
      BY <3>2, <3>4
    <3>6. ASSUME NEW q \in Runs
          PROVE  claim'[q].seen <= etag' /\ ReadIsCurrent(q)' /\ RewriteIsOurs(q)' /\ HasAttemptLeft(q)'
      <4>1. claim[q].seen <= etag /\ ReadIsCurrent(q) /\ RewriteIsOurs(q) /\ HasAttemptLeft(q)
        OBVIOUS
      <4>2. claim'[q].pc \in {"idle", "read", "create", "flush"} => claim'[q].pc = claim[q].pc
        BY <3>3
      <4>3. QED BY <3>3, <3>4, <4>1, <4>2 DEF Keeps
    <3>7. QED BY <3>4, <3>5, <3>6
  <2>2. CASE ~Keeps(owner, r)
    BY <1>2, <2>2, SMTT(30) DEF Read, Keeps
  <2>3. QED BY <2>1, <2>2
<1>3. ASSUME NEW r \in Runs, Conflict(r), claim[r].pc \in {"create", "flush"},
             UNCHANGED <<owner, etag, last>>
      PROVE  ClaimInv'
  <2>1. CASE claim[r].attempt + 1 = MaxAttempts
    BY <1>3, <2>1, SMTT(60) DEF Conflict, Keeps
  <2>2. CASE claim[r].attempt + 1 # MaxAttempts
    BY <1>3, <2>2, SMTT(60) DEF Conflict, Keeps
  <2>3. QED BY <2>1, <2>2
<1>4. ASSUME NEW r \in Runs, Create(r) PROVE ClaimInv'
  <2>1. CASE Matches(r)
    BY <1>4, <2>1 DEF Create, Keeps
  <2>2. CASE ~Matches(r)
    BY <1>3, <1>4, <2>2 DEF Create
  <2>3. QED BY <2>1, <2>2
<1>5. ASSUME NEW r \in Runs, Flush(r) PROVE ClaimInv'
  <2>1. CASE Matches(r) /\ Goto(r, "owner")
    <3>1. owner' = r /\ last' = r /\ etag' = etag + 1
      BY <1>5, <2>1 DEF Flush
    <3>2. claim' \in [Runs -> Claimant]
      BY <2>1, SMTT(30)
    <3>3. \A q \in Runs : /\ claim'[q].seen = claim[q].seen
                          /\ claim'[q].attempt = claim[q].attempt
                          /\ claim'[q].pc = claim[q].pc \/ claim'[q].pc = "owner"
      BY <2>1
    <3>4. TypeOK'
      BY <3>1, <3>2
    <3>5. ASSUME NEW q \in Runs
          PROVE  claim'[q].seen < etag' /\ HasAttemptLeft(q)'
      <4>1. claim[q].seen \in Nat /\ claim[q].seen <= etag /\ HasAttemptLeft(q)
        OBVIOUS
      <4>2. claim'[q].pc \in {"idle", "read", "create", "flush"} => claim'[q].pc = claim[q].pc
        BY <3>3
      <4>3. QED BY <3>1, <3>3, <4>1, <4>2
    <3>6. QED BY <3>1, <3>4, <3>5
  <2>2. CASE Matches(r) /\ ~Goto(r, "owner")
    BY <1>5, <2>2 DEF Flush, Keeps
  <2>3. CASE ~Matches(r)
    BY <1>3, <1>5, <2>3 DEF Flush
  <2>4. QED BY <2>1, <2>2, <2>3
<1>6. ASSUME NEW r \in Runs, Die(r) PROVE ClaimInv'
  BY <1>6, ZenonT(60) DEF Die, Returned, Keeps
<1>7. CASE UNCHANGED vars
  BY <1>7 DEF vars, Keeps
<1>8. QED
  BY <1>1, <1>2, <1>4, <1>5, <1>6, <1>7 DEF Next, Step, Terminated

LEMMA ClaimInvariance == Spec => []ClaimInv
BY InitClaimInv, StepClaimInv, PTL DEF Spec

(* Type correctness of the claim protocol. *)
THEOREM ClaimTypeCorrect == Spec => []TypeOK
<1>1. ClaimInv => TypeOK
  BY DEF ClaimInv
<1>2. QED BY ClaimInvariance, <1>1, PTL

(* Two runs claiming at once cannot both win: a claim that succeeds         *)
(* displaces an earlier run's record or an unreadable one, never a later    *)
(* run's, whatever the interleaving of the conditional writes.              *)
THEOREM ClaimsDisplaceEarlierOnly == Spec => DisplacesEarlierOnly
<1> DEFINE Displaced == \A r \in Runs : owner # r /\ owner' = r =>
                            last < r \/ claim[r].current = Unreadable
<1>1. ASSUME ClaimInv, [Next]_vars PROVE Displaced
  <2> SUFFICES ASSUME NEW r \in Runs, owner # r, owner' = r
               PROVE  last < r \/ claim[r].current = Unreadable
    OBVIOUS
  <2>1. owner' # owner /\ owner' # Unreadable
    OBVIOUS
  <2>2. PICK q \in Runs : Step(q) \/ Die(q)
    BY <1>1, <2>1 DEF Next, Terminated, vars
  <2>3. Flush(q) /\ Matches(q) /\ q = r
    BY <2>1, <2>2 DEF Step, Begin, Read, Create, Flush, Die
  <2>4. QED BY <1>1, <2>3 DEF ClaimInv, RewriteIsOurs, Flush
<1>2. ClaimInv /\ [Next]_vars => [Displaced]_vars
  BY <1>1
<1>3. QED BY ClaimInvariance, <1>2, PTL DEF Spec, DisplacesEarlierOnly

(* The record of the latest run is never written over: the claims under way  *)
(* read it, or their condition fails.                                        *)
LEMMA LatestStays ==
  ASSUME ClaimInv, [Next]_vars, NEW r \in Runs, \A q \in Runs : q <= r, owner = r
  PROVE  owner' = r
<1>1. CASE UNCHANGED vars
  BY <1>1 DEF vars
<1>2. ASSUME NEW q \in Runs, Step(q) \/ Die(q) PROVE owner' = r
  <2>1. q <= r /\ owner # Unreadable /\ owner # NoRun /\ Keeps(owner, q)
    BY DEF Keeps
  <2>2. At(q, "create") \/ At(q, "flush") => ~Matches(q)
    BY <2>1 DEF ClaimInv, ReadIsCurrent, RewriteIsOurs
  <2>3. QED BY <1>2, <2>2 DEF Step, Begin, Read, Create, Flush, Die
<1>3. QED BY <1>1, <1>2 DEF Next, Terminated

(* The run that started last owns the table from the moment its claim has    *)
(* succeeded, whatever claims of other runs are still under way.             *)
THEOREM LastStartedOwns == Spec => []LatestRunOwns
<1>1. Init => LatestRunOwns
  BY DEF Init, LatestRunOwns, Returned
<1>2. ASSUME ClaimInv, LatestRunOwns, [Next]_vars PROVE LatestRunOwns'
  <2> SUFFICES ASSUME NEW r \in Runs, \A q \in Runs : q <= r,
                      claim'[r].pc \in Returned \ {"dead", "exhausted"}
               PROVE  owner' = r
    BY DEF LatestRunOwns
  <2>1. CASE claim[r].pc = claim'[r].pc
    BY <1>2, <2>1, LatestStays DEF LatestRunOwns
  <2>2. CASE claim[r].pc # claim'[r].pc
    <3>1. PICK q \in Runs : Step(q) \/ Die(q)
      BY <1>2, <2>2 DEF Next, Terminated, vars
    <3>2. claim \in [Runs -> Claimant]
      BY <1>2 DEF ClaimInv, TypeOK
    <3>3. q = r
      BY <2>2, <3>1, <3>2 DEF Step, Begin, Read, Create, Flush, Conflict, Die
    <3>4. CASE Read(r)
      <4>1. CASE ~Keeps(owner, r)
        BY <3>2, <3>4, <4>1 DEF Read, Returned, Claimant
      <4>2. CASE Keeps(owner, r)
        <5>1. owner \in Runs /\ r <= owner
          BY <1>2, <4>2 DEF ClaimInv, TypeOK, Keeps
        <5>2. QED BY <3>4, <4>2, <5>1 DEF Read
      <4>3. QED BY <4>1, <4>2
    <3>5. CASE Flush(r)
      BY <3>2, <3>5 DEF Claimant, Flush, Conflict, Returned
    <3>6. CASE Begin(r) \/ Create(r) \/ Die(r)
      BY <3>2, <3>6 DEF Claimant, Begin, Create, Conflict, Die, Returned
    <3>7. QED BY <3>1, <3>3, <3>4, <3>5, <3>6 DEF Step
  <2>3. QED BY <2>1, <2>2
<1>3. ClaimInv /\ LatestRunOwns /\ [Next]_vars => LatestRunOwns'
  BY <1>2
<1>4. QED BY ClaimInvariance, <1>1, <1>3, PTL DEF Spec

(* owner.json, written in two requests under ETag conditions, is the        *)
(* register the table protocol is built on.                                 *)
THEOREM ClaimImplementsRegister == Spec => ImplementsRegister
<1>1. Init => Register!Init
  BY DEF Init, Register!Init, Register!NoRun
<1>2. ASSUME ClaimInv, [Next]_vars PROVE [Register!Next]_owner
  <2> USE DEF Register!Next, Register!Displace, Register!Take, Register!Runs,
              Register!Unreadable
  <2>1. ASSUME NEW r \in Runs, Create(r) PROVE [Register!Next]_owner
    <3>1. CASE Matches(r)
      <4>1. owner < r /\ owner' = Unreadable
        BY <1>2, <2>1, <3>1 DEF Create, ClaimInv, TypeOK, ReadIsCurrent, Keeps
      <4>2. QED BY <4>1
    <3>2. QED BY <2>1, <3>1 DEF Create
  <2>2. ASSUME NEW r \in Runs, Flush(r) PROVE [Register!Next]_owner
    <3>1. CASE Matches(r)
      <4>1. owner = Unreadable /\ owner' = r
        BY <1>2, <2>2, <3>1 DEF Flush, ClaimInv, RewriteIsOurs
      <4>2. QED BY <4>1
    <3>2. QED BY <2>2, <3>1 DEF Flush
  <2>3. QED
    BY <1>2, <2>1, <2>2 DEF Next, Step, Begin, Read, Die, Terminated, vars
<1>3. ClaimInv /\ [Next]_vars => [Register!Next]_owner
  BY <1>2
<1>4. QED
  BY ClaimInvariance, <1>1, <1>3, PTL DEF Spec, ImplementsRegister, Register!Spec
=============================================================================
