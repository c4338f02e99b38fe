-------------------------- MODULE ScopeTableProofs --------------------------
(***************************************************************************)
(* Type correctness of ScopeTable, for every number of runs, every set of  *)
(* files and every combination of faults; then, for incremental runs:      *)
(*   - no data loss, for any number of runs, overlapping or not, crashing  *)
(*     and failing anywhere, as long as no two files have the same         *)
(*     modification time;                                                  *)
(*   - no file ingested twice, with every fault but a page of jobs that    *)
(*     hides an orphan, as long as no claim lands between an owner check   *)
(*     and what the check guards: because runs do not overlap, or because  *)
(*     an earlier run acts on its check at once.                           *)
(* Full refreshes are the subject of RefreshProofs.  The README says what  *)
(* happens where an assumption does not hold.                              *)
(***************************************************************************)
EXTENDS ScopeTable, WellFoundedInduction, SequenceTheorems, TLAPS

(* A set of numbers has a least element; a bounded one has a greatest.      *)
LEMMA LeastExists ==
  ASSUME NEW U \in SUBSET Nat, U # {}
  PROVE  \E n \in U : \A k \in U : n <= k
<1> DEFINE Less == OpToRel(<, Nat)
<1>1. \A k, n \in Nat : k < n => <<k, n>> \in Less
  BY DEF OpToRel
<1>2. PICK n \in U : \A k \in U : <<k, n>> \notin Less
  <2>1. IsWellFoundedOn(Less, Nat)
    BY NatLessThanWellFounded
  <2> HIDE DEF Less
  <2>2. \E n \in U : \A k \in U : ~(<<k, n>> \in Less)
    BY <2>1, WFMin, Zenon
  <2>3. QED BY <2>2
<1>3. ASSUME NEW k \in U PROVE n <= k
  <2>1. n \in Nat /\ k \in Nat
    OBVIOUS
  <2>2. ~(k < n)
    BY <1>1, <1>2, <2>1, Zenon
  <2>3. QED BY <2>1, <2>2
<1>4. QED BY <1>3

LEMMA GreatestExists ==
  ASSUME NEW S \in SUBSET Nat, S # {}, NEW m \in Nat, \A x \in S : x <= m
  PROVE  \E x \in S : \A y \in S : y <= x
<1> DEFINE U == {n \in Nat : \A x \in S : x <= n}
<1>1. PICK n \in U : \A k \in U : n <= k
  <2>1. U \in SUBSET Nat /\ U # {}
    OBVIOUS
  <2> HIDE DEF U
  <2>2. QED BY <2>1, LeastExists, Zenon
<1>2. n \in S
  <2>1. SUFFICES ASSUME n \notin S PROVE FALSE
    OBVIOUS
  <2>2. PICK x \in S : TRUE
    OBVIOUS
  <2>3. n # 0
    BY <2>1, <2>2
  <2>4. n - 1 \in U
    BY <2>1, <2>3
  <2>5. QED BY <1>1, <2>4
<1>3. QED BY <1>1, <1>2

(* compute_new_watermark: the position is the newest file of the batch. *)
LEMMA NewWatermarkIsNewest ==
  ASSUME NEW fs \in SUBSET Files, fs # {}, NEW w \in Watermark, NEW version \in Nat
  PROVE  /\ NewWatermark(fs, w, version) \in Watermark
         /\ \E f \in fs : NewWatermark(fs, w, version).modified = MTime[f]
         /\ \A f \in fs : MTime[f] <= NewWatermark(fs, w, version).modified
<1> DEFINE T == {MTime[f] : f \in fs}
<1>1. T \in SUBSET Nat /\ T # {} /\ \A t \in T : t <= MaxTime
  <2>1. \A f \in fs : MTime[f] \in 1..MaxTime
    BY FilesAssumption
  <2>2. QED BY <2>1, BoundsAssumption
<1>2. \E t \in T : \A u \in T : u <= t
  <2> HIDE DEF T
  <2>1. QED BY <1>1, GreatestExists, BoundsAssumption
<1>3. \E t \in T : \A f \in fs : MTime[f] <= t
  BY <1>2
<1>4. /\ (CHOOSE t \in T : \A f \in fs : MTime[f] <= t) \in T
      /\ \A f \in fs : MTime[f] <= (CHOOSE t \in T : \A g \in fs : MTime[g] <= t)
  BY <1>3
<1>5. /\ NewWatermark(fs, w, version).modified \in T
      /\ \A f \in fs : MTime[f] <= NewWatermark(fs, w, version).modified
  BY <1>4 DEF NewWatermark
<1>6. w.batchId + 1 \in Nat
  BY DEF Watermark
<1>7. NewWatermark(fs, w, version) \in Watermark
  BY <1>1, <1>4, <1>6 DEF NewWatermark, Watermark
<1>8. QED BY <1>5, <1>7

-----------------------------------------------------------------------------
(* Type correctness needs two more facts: a job runs a batch that was begun, *)
(* and a run that is processing a batch has one in hand, with files in it.   *)
Processing == {"submit", "put", "recheck", "wait", "abandon", "abandoned", "update",
               "readCurrent", "record", "finish"}
BatchInHand(r) ==
    /\ run[r].pc \in Processing \cup {"begin", "readPosition", "writePending"} => run[r].files # {}
    /\ run[r].pc \in Processing \cup {"recordPending"} => run[r].batch \in 1..Len(batches)

TypeInv ==
    /\ TypeOK
    /\ \A j \in 1..Len(jobs) : jobs[j].batch \in 1..Len(batches)
    /\ \A r \in Runs : BatchInHand(r)

LEMMA NoWatermarkType == NoWatermark \in Watermark
BY DEF NoWatermark, Watermark

LEMMA IdleType == \A label \in PCs : [Idle EXCEPT !.pc = label] \in RunState
BY NoWatermarkType, BoundsAssumption DEF Idle, RunState, NoBatch

LEMMA InitTypeInv == Init => TypeInv
<1> SUFFICES ASSUME Init PROVE TypeInv
  OBVIOUS
<1>1. Idle \in RunState
  <2>1. Idle = [Idle EXCEPT !.pc = "idle"] /\ "idle" \in PCs
    BY DEF Idle, PCs
  <2>2. QED BY <2>1, IdleType
<1>2. batches \in Seq(Batch) /\ log \in Seq(0..Len(batches)) /\ jobs \in Seq(Job)
  BY DEF Init
<1>3. Len(batches) = 0 /\ Len(log) = 0 /\ Len(jobs) = 0
  BY DEF Init
<1>4. TypeOK
  BY <1>1, <1>2, <1>3, NoWatermarkType, BoundsAssumption
  DEF Init, TypeOK, NoRun, NoBatch
<1>5. \A r \in Runs : run[r].pc = "idle"
  BY DEF Init, Idle
<1>6. QED BY <1>3, <1>4, <1>5 DEF TypeInv, BatchInHand, Processing

(* A process moves: its locals stay of their type, and so does the rest of  *)
(* the state when the step touches nothing else.                            *)
Quiet == UNCHANGED <<checkpoint, delta, batches, jobs, cutoff>>
RunsOK == run \in [Runs -> RunState] /\ \A r \in Runs : BatchInHand(r)

LEMMA MoveKeepsRuns ==
  ASSUME TypeInv, NEW r \in Runs, NEW locals \in RunState,
         run' = [run EXCEPT ![r] = locals], UNCHANGED batches,
         locals.pc \in Processing \cup {"begin", "readPosition", "writePending"} => locals.files # {},
         locals.pc \in Processing \cup {"recordPending"} => locals.batch \in 1..Len(batches)
  PROVE  RunsOK'
<1>1. run \in [Runs -> RunState]
  BY DEF TypeInv, TypeOK
<1>2. run' \in [Runs -> RunState]
  BY <1>1
<1>3. ASSUME NEW q \in Runs PROVE BatchInHand(q)'
  <2>1. BatchInHand(q)
    BY DEF TypeInv
  <2>2. CASE q = r
    BY <1>1, <1>3, <2>2 DEF BatchInHand
  <2>3. CASE q # r
    BY <1>1, <1>3, <2>1, <2>3 DEF BatchInHand
  <2>4. QED BY <2>2, <2>3
<1>4. QED BY <1>2, <1>3 DEF RunsOK

LEMMA GotoKeepsRuns ==
  ASSUME TypeInv, NEW r \in Runs, NEW label \in PCs, Goto(r, label), UNCHANGED batches,
         label \in Processing => run[r].pc \in Processing,
         label = "readPosition" => run[r].pc = "begin",
         label \notin {"begin", "writePending", "recordPending"}
  PROVE  RunsOK'
<1> DEFINE locals == [run[r] EXCEPT !.pc = label]
<1>1. run[r] \in RunState /\ BatchInHand(r)
  BY DEF TypeInv, TypeOK
<1>2. locals \in RunState /\ locals.pc = label /\ locals.files = run[r].files
      /\ locals.batch = run[r].batch
  BY <1>1 DEF RunState
<1>3. run' = [run EXCEPT ![r] = locals]
  BY DEF Goto
<1>4. /\ locals.pc \in Processing \cup {"begin", "readPosition", "writePending"} => locals.files # {}
      /\ locals.pc \in Processing \cup {"recordPending"} => locals.batch \in 1..Len(batches)
  BY <1>1, <1>2 DEF BatchInHand
<1> HIDE DEF locals
<1>5. QED BY <1>2, <1>3, <1>4, MoveKeepsRuns

LEMMA EndKeepsRuns ==
  ASSUME TypeInv, NEW r \in Runs, NEW label \in Over, End(r, label), UNCHANGED batches
  PROVE  RunsOK'
<1> DEFINE locals == [Idle EXCEPT !.pc = label]
<1>1. locals \in RunState /\ locals.pc = label
  BY IdleType DEF Over, PCs, Idle
<1>2. run' = [run EXCEPT ![r] = locals]
  BY DEF End
<1>3. label \notin Processing \cup {"begin", "readPosition", "writePending", "recordPending"}
  BY DEF Over, Processing
<1> HIDE DEF locals
<1>4. QED BY <1>1, <1>2, <1>3, MoveKeepsRuns

LEMMA QuietStep ==
  ASSUME TypeInv, Quiet, RunsOK'
  PROVE  TypeInv'
BY DEF TypeInv, TypeOK, RunsOK, Quiet, checkpoint, delta

(* Cancelling jobs changes no job's batch and adds none. *)
LEMMA CancelledType ==
  ASSUME TypeInv, NEW js
  PROVE  /\ Cancelled(js) \in Seq(Job) /\ Len(Cancelled(js)) = Len(jobs)
         /\ \A j \in 1..Len(jobs) : Cancelled(js)[j].batch = jobs[j].batch
<1>1. jobs \in Seq(Job) /\ Len(jobs) \in Nat /\ DOMAIN jobs = 1..Len(jobs)
  BY DEF TypeInv, TypeOK
<1>2. ASSUME NEW j \in 1..Len(jobs)
      PROVE  Cancelled(js)[j] \in Job /\ Cancelled(js)[j].batch = jobs[j].batch
  <2>1. jobs[j] \in Job
    BY <1>1
  <2>2. [jobs[j] EXCEPT !.state = "cancelling"] \in Job
    BY <2>1 DEF Job, JobStates
  <2>3. QED BY <1>1, <2>1, <2>2 DEF Cancelled, Job
<1>3. Cancelled(js) \in [1..Len(jobs) -> Job]
  BY <1>1, <1>2 DEF Cancelled
<1>4. Cancelled(js) \in Seq(Job) /\ Len(Cancelled(js)) = Len(jobs)
  BY <1>1, <1>3
<1>5. QED BY <1>2, <1>4

(* _find_token_version: a version it returns is one that carries the token. *)
LEMMA TokenVersionFound ==
  ASSUME TypeInv, NEW b \in 1..Len(batches), NEW seen \in Nat
  PROVE  /\ TokenVersion(b, seen) \in Nat
         /\ TokenVersion(b, seen) # 0 => \E v \in DOMAIN log : log[v] = b
<1> DEFINE after == batches[b].deltaBefore
           hits  == {v \in (after + 1)..seen : v > cleaned /\ v \in DOMAIN log /\ log[v] = b}
<1>1. after \in Nat
  <2>1. batches[b] \in Batch
    BY DEF TypeInv, TypeOK
  <2>2. QED BY <2>1 DEF Batch
<1>2. CASE hits # {}
  <2>1. hits \in SUBSET Nat
    BY <1>1
  <2>2. \E v \in hits : \A w \in hits : v <= w
    <3> HIDE DEF hits
    <3>1. QED BY <1>2, <2>1, LeastExists, Zenon
  <2>3. TokenVersion(b, seen) \in hits
    BY <1>2, <2>2 DEF TokenVersion
  <2>4. QED BY <2>1, <2>3
<1>3. CASE hits = {} /\ after < seen /\ after < cleaned /\ LatestToken = b
  <2>1. TokenVersion(b, seen) = seen
    BY <1>3 DEF TokenVersion
  <2>2. \E v \in DOMAIN log : log[v] = b
    <3> DEFINE ours == {v \in DOMAIN log : log[v] # NoBatch}
    <3>1. log \in Seq(0..Len(batches)) /\ Len(log) \in Nat /\ DOMAIN log = 1..Len(log)
      BY DEF TypeInv, TypeOK
    <3>2. ours # {}
      BY <1>3 DEF LatestToken, NoBatch
    <3>3. ours \in SUBSET Nat /\ \A v \in ours : v <= Len(log)
      BY <3>1
    <3>4. \E v \in ours : \A w \in ours : w <= v
      <4> HIDE DEF ours
      <4>1. QED BY <3>1, <3>2, <3>3, GreatestExists
    <3>5. (CHOOSE v \in ours : \A w \in ours : w <= v) \in ours
      BY <3>4
    <3>6. LatestToken = log[CHOOSE v \in ours : \A w \in ours : w <= v]
      BY <3>2 DEF LatestToken
    <3>7. QED BY <1>3, <3>5, <3>6
  <2>3. QED BY <2>1, <2>2
<1>4. CASE hits = {} /\ ~(after < seen /\ after < cleaned /\ LatestToken = b)
  BY <1>4 DEF TokenVersion
<1>5. QED BY <1>2, <1>3, <1>4

-----------------------------------------------------------------------------
(* One lemma per part of a run; one step per action.                        *)
LEMMA PrepareKeepsTypes ==
  ASSUME TypeInv, NEW r \in Runs, Prepare(r)
  PROVE  TypeInv'
<1>1. CASE Start(r)
  <2>1. PICK m \in Modes : run' = [run EXCEPT ![r].mode = m,
            ![r].pc = IF m = "full" THEN "deleteWatermark" ELSE "claim"]
    BY <1>1 DEF Start
  <2> DEFINE locals == [run[r] EXCEPT !.mode = m,
                                      !.pc = IF m = "full" THEN "deleteWatermark" ELSE "claim"]
  <2>2. m \in {"incremental", "full"} /\ run[r] \in RunState
    BY ScenarioAssumption DEF TypeInv, TypeOK
  <2>3. locals \in RunState /\ locals.pc \in {"deleteWatermark", "claim"}
    BY <2>2 DEF RunState, PCs
  <2>4. run' = [run EXCEPT ![r] = locals]
    BY <2>1
  <2>5. RunsOK'
    <3> HIDE DEF locals
    <3>1. QED BY <1>1, <2>3, <2>4, MoveKeepsRuns DEF Start, Processing
  <2>6. QED BY <1>1, <2>5, QuietStep DEF Start, Quiet
<1>2. CASE DeleteWatermark(r)
  <2>1. RunsOK'
    BY <1>2, GotoKeepsRuns DEF DeleteWatermark, PCs, Processing
  <2>2. QED
    BY <1>2, <2>1, NoWatermarkType DEF DeleteWatermark, TypeInv, TypeOK, RunsOK, delta
<1>3. CASE ClearPending(r)
  <2>1. CASE pending' = NoBatch /\ Goto(r, "claim")
    <3>1. RunsOK'
      BY <1>3, <2>1, GotoKeepsRuns DEF ClearPending, PCs, Processing
    <3>2. QED
      BY <1>3, <2>1, <3>1 DEF ClearPending, TypeInv, TypeOK, RunsOK, delta, NoBatch
  <2>2. CASE UNCHANGED pending /\ End(r, "failed")
    <3>1. RunsOK'
      BY <1>3, <2>2, EndKeepsRuns DEF ClearPending, Over
    <3>2. QED
      BY <1>3, <2>2, <3>1, QuietStep DEF ClearPending, Quiet, checkpoint
  <2>3. QED BY <1>3, <2>1, <2>2 DEF ClearPending
<1>4. CASE Claim(r)
  <2>1. RunsOK'
    <3>1. CASE Goto(r, "listOrphans")
      BY <1>4, <3>1, GotoKeepsRuns DEF Claim, PCs, Processing
    <3>2. CASE End(r, "superseded")
      BY <1>4, <3>2, EndKeepsRuns DEF Claim, Over
    <3>3. CASE End(r, "crashed")
      BY <1>4, <3>3, EndKeepsRuns DEF Claim, Over
    <3>4. QED BY <1>4, <3>1, <3>2, <3>3 DEF Claim
  <2>2. owner' \in Runs \cup {NoRun, Unreadable}
    BY <1>4 DEF Claim, TypeInv, TypeOK
  <2>3. QED
    BY <1>4, <2>1, <2>2 DEF Claim, TypeInv, TypeOK, RunsOK, delta
<1>5. CASE ListOrphans(r)
  <2> PICK listed \in Listed(r) :
           /\ jobs' = Cancelled(listed)
           /\ run' = [run EXCEPT ![r].orphans = listed, ![r].pc = "settling"]
    BY <1>5 DEF ListOrphans
  <2> DEFINE locals == [run[r] EXCEPT !.orphans = listed, !.pc = "settling"]
  <2>1. run[r] \in RunState /\ listed \in SUBSET Nat
    BY DEF TypeInv, TypeOK, Orphans, Listed
  <2>2. locals \in RunState /\ locals.pc = "settling"
    BY <2>1 DEF RunState, PCs
  <2>3. run' = [run EXCEPT ![r] = locals]
    OBVIOUS
  <2>4. RunsOK'
    <3> HIDE DEF locals
    <3>1. QED BY <1>5, <2>2, <2>3, MoveKeepsRuns DEF ListOrphans, Processing
  <2>5. QED
    BY <1>5, <2>4, CancelledType DEF ListOrphans, TypeInv, TypeOK, RunsOK, delta, checkpoint
<1>6. CASE Settled(r)
  BY <1>6, GotoKeepsRuns, QuietStep DEF Settled, PCs, Processing, Quiet
<1>7. CASE SettleTimeout(r)
  BY <1>7, EndKeepsRuns, QuietStep DEF SettleTimeout, Over, Quiet
<1>8. QED
  BY <1>1, <1>2, <1>3, <1>4, <1>5, <1>6, <1>7 DEF Prepare

(* What recording writes: a watermark, and the time of the write.           *)
LEMMA WriteKeepsTypes ==
  ASSUME TypeInv, RunsOK', UNCHANGED <<owner, pending, delta, batches, jobs, cutoff>>,
         \/ UNCHANGED <<watermark, writtenAt>>
         \/ \E w \in Watermark : WriteWatermark(w)
  PROVE  TypeInv'
<1>1. watermark' \in Watermark /\ writtenAt' \in 0..Len(log)
  <2>1. watermark \in Watermark /\ writtenAt \in 0..Len(log) /\ Len(log) \in Nat
    BY DEF TypeInv, TypeOK
  <2>2. QED BY <2>1 DEF WriteWatermark
<1>2. QED BY <1>1 DEF TypeInv, TypeOK, RunsOK, delta

LEMMA AdoptNothingWrites ==
  ASSUME TypeInv, NEW r \in Runs, NEW w \in Watermark, AdoptNothing(r, w)
  PROVE  \/ UNCHANGED <<watermark, writtenAt>>
         \/ \E u \in Watermark : WriteWatermark(u)
<1>1. run[r].latest \in Nat
  BY DEF TypeInv, TypeOK, RunState
<1>2. [w EXCEPT !.delta = run[r].latest] \in Watermark
  BY <1>1 DEF Watermark
<1>3. QED BY <1>2 DEF AdoptNothing

LEMMA ReconcileKeepsTypes ==
  ASSUME TypeInv, NEW r \in Runs, Reconcile(r)
  PROVE  TypeInv'
<1>0. run[r] \in RunState /\ watermark \in Watermark /\ Len(log) \in Nat
      /\ pending \in 0..Len(batches) /\ BatchInHand(r) /\ batches \in Seq(Batch)
  BY DEF TypeInv, TypeOK
<1>1. CASE ReadTable(r)
  <2> DEFINE locals == [run[r] EXCEPT !.wm = watermark, !.latest = Len(log), !.pc = "resolve"]
  <2>1. locals \in RunState /\ locals.pc = "resolve"
    BY <1>0 DEF RunState, PCs
  <2>2. run' = [run EXCEPT ![r] = locals]
    BY <1>1 DEF ReadTable
  <2>3. RunsOK'
    <3> HIDE DEF locals
    <3>1. QED BY <1>1, <2>1, <2>2, MoveKeepsRuns DEF ReadTable, Processing
  <2>4. QED BY <1>1, <2>3, QuietStep DEF ReadTable, Quiet
<1>2. CASE ResolvePending(r)
  <2>1. CASE Goto(r, "adopt")
    BY <1>2, <2>1, GotoKeepsRuns, QuietStep DEF ResolvePending, PCs, Processing, Quiet
  <2>2. CASE ~Goto(r, "adopt")
    <3> DEFINE v == IF Applies(pending, run[r].wm)
                      THEN TokenVersion(pending, run[r].latest) ELSE 0
               locals == [run[r] EXCEPT !.batch = pending, !.version = v,
                            !.pc = IF v = 0 THEN "dropPending" ELSE "recordPending"]
    <3>1. pending \in 1..Len(batches) /\ run' = [run EXCEPT ![r] = locals]
      <4>1. pending # NoBatch
        BY <1>2, <2>2 DEF ResolvePending
      <4>2. run' = [run EXCEPT ![r].batch = pending, ![r].version = v,
                       ![r].pc = IF v = 0 THEN "dropPending" ELSE "recordPending"]
        BY <1>2, <4>1 DEF ResolvePending
      <4>3. pending \in 1..Len(batches)
        BY <1>0, <4>1 DEF NoBatch
      <4>4. QED BY <4>2, <4>3
    <3>2. v \in Nat
      BY <1>0, <3>1, TokenVersionFound DEF RunState
    <3>3. locals \in RunState /\ locals.batch = pending
          /\ locals.pc \in {"dropPending", "recordPending"}
      <4> DEFINE label == IF v = 0 THEN "dropPending" ELSE "recordPending"
      <4>1. label \in {"dropPending", "recordPending"} /\ pending \in Nat
        BY <1>0, <3>1
      <4> HIDE DEF v, label
      <4>2. [run[r] EXCEPT !.batch = pending, !.version = v, !.pc = label] \in RunState
        BY <1>0, <3>2, <4>1 DEF RunState, PCs
      <4>3. locals = [run[r] EXCEPT !.batch = pending, !.version = v, !.pc = label]
        BY DEF label
      <4>4. QED BY <1>0, <4>1, <4>2, <4>3 DEF RunState
    <3>4. RunsOK'
      <4> HIDE DEF locals, v
      <4>1. QED BY <1>2, <3>1, <3>3, MoveKeepsRuns DEF ResolvePending, Processing
    <3>5. QED BY <1>2, <3>4, QuietStep DEF ResolvePending, Quiet
  <2>3. QED BY <2>1, <2>2
<1>3. CASE RecordPending(r)
  <2> DEFINE w == NewWatermark(batches[run[r].batch].files, run[r].wm, run[r].version)
             locals == [run[r] EXCEPT !.wm = w, !.pc = "dropPending"]
  <2>1. run[r].batch \in 1..Len(batches)
    BY <1>0, <1>3 DEF RecordPending, At, BatchInHand
  <2>2. w \in Watermark
    <3>1. batches[run[r].batch] \in Batch
      <4>1. \A b \in 1..Len(batches) : batches[b] \in Batch
        BY <1>0
      <4>2. QED BY <2>1, <4>1, Zenon
    <3>2. \A b \in Batch : b.files \in SUBSET Files /\ b.files # {}
      BY DEF Batch
    <3>3. run[r].wm \in Watermark /\ run[r].version \in Nat
      BY <1>0 DEF RunState
    <3>4. QED BY <3>1, <3>2, <3>3, NewWatermarkIsNewest
  <2>3. WriteWatermark(w)
    BY <1>3 DEF RecordPending
  <2>4. RunsOK'
    <3>1. CASE run' = [run EXCEPT ![r].wm = w, ![r].pc = "dropPending"]
      <4>1. locals \in RunState /\ locals.pc = "dropPending"
        <5> HIDE DEF w
        <5>1. QED BY <1>0, <2>2 DEF RunState, PCs
      <4>2. run' = [run EXCEPT ![r] = locals]
        BY <3>1
      <4> HIDE DEF locals
      <4>3. QED BY <1>3, <4>1, <4>2, MoveKeepsRuns DEF RecordPending, Processing
    <3>2. CASE End(r, "failed")
      BY <1>3, <3>2, EndKeepsRuns DEF RecordPending, Over
    <3>3. QED BY <1>3, <3>1, <3>2 DEF RecordPending
  <2> HIDE DEF w
  <2>5. QED BY <1>3, <2>2, <2>3, <2>4, WriteKeepsTypes DEF RecordPending
<1>4. CASE DropPending(r)
  <2>1. RunsOK'
    BY <1>4, GotoKeepsRuns DEF DropPending, PCs, Processing
  <2>2. pending' \in 0..Len(batches)
    BY <1>0, <1>4 DEF DropPending, DeletePending, NoBatch
  <2>3. QED BY <1>4, <2>1, <2>2 DEF DropPending, TypeInv, TypeOK, RunsOK, delta
<1>5. CASE Adopt(r)
  <2> DEFINE w      == run[r].wm
             latest == run[r].latest
             prefix == IF w = NoWatermark \/ Baseline(w, latest) >= latest
                         THEN {} ELSE AdoptablePrefix(w, latest)
  <2>1. w \in Watermark /\ latest \in Nat
    BY <1>0 DEF RunState
  <2>2. prefix \in SUBSET Files
    BY DEF AdoptablePrefix, Adopted, Unprocessed
  <2>3. RunsOK'
    <3>1. Goto(r, "discover") \/ Goto(r, "rewrite")
      BY <1>5 DEF Adopt
    <3>2. QED BY <1>5, <3>1, GotoKeepsRuns DEF Adopt, PCs, Processing
  <2>4. \/ AdoptNothing(r, w)
        \/ prefix # {} /\ WriteWatermark(NewWatermark(prefix, w, latest))
    BY <1>5 DEF Adopt
  <2>5. \/ UNCHANGED <<watermark, writtenAt>>
        \/ \E u \in Watermark : WriteWatermark(u)
    <3> HIDE DEF w, latest, prefix
    <3>1. CASE AdoptNothing(r, w)
      BY <2>1, <3>1, AdoptNothingWrites
    <3>2. CASE prefix # {} /\ WriteWatermark(NewWatermark(prefix, w, latest))
      BY <2>1, <2>2, <3>2, NewWatermarkIsNewest
    <3>3. QED BY <2>4, <3>1, <3>2
  <2>6. QED BY <1>5, <2>3, <2>5, WriteKeepsTypes DEF Adopt
<1>6. CASE RewriteWatermark(r)
  <2>1. RunsOK'
    BY <1>6, GotoKeepsRuns DEF RewriteWatermark, PCs, Processing
  <2>2. run[r].wm \in Watermark
    BY <1>0 DEF RunState
  <2>3. QED
    BY <1>6, <2>1, <2>2, AdoptNothingWrites, WriteKeepsTypes DEF RewriteWatermark
<1>7. QED
  BY <1>1, <1>2, <1>3, <1>4, <1>5, <1>6 DEF Reconcile

(* A batch is begun: batches grows, and every index into it stays one.      *)
LEMMA WritePendingKeepsTypes ==
  ASSUME TypeInv, NEW r \in Runs, WritePending(r)
  PROVE  TypeInv'
<1> DEFINE b == [files |-> run[r].files, before |-> run[r].wm,
                 deltaBefore |-> run[r].latest, truncate |-> FirstOfRefresh(r)]
           locals == [run[r] EXCEPT !.batch = Len(batches) + 1, !.resubmits = 0,
                                    !.pc = "submit"]
<1>0. run \in [Runs -> RunState] /\ Len(batches) \in Nat /\ batches \in Seq(Batch)
      /\ run[r] \in RunState
  BY DEF TypeInv, TypeOK
<1>1. run[r].files # {}
  BY DEF TypeInv, BatchInHand, WritePending, At
<1>2. FirstOfRefresh(r) \in BOOLEAN
  BY DEF FirstOfRefresh
<1>3. b \in Batch
  BY <1>0, <1>1, <1>2 DEF RunState, Batch
<1>4. batches' = Append(batches, b) /\ pending' = Len(batches) + 1
  BY DEF WritePending
<1>5. batches' \in Seq(Batch) /\ Len(batches') = Len(batches) + 1
  <2> HIDE DEF b
  <2>1. QED BY <1>0, <1>3, <1>4
<1>6. locals \in RunState /\ locals.pc = "submit" /\ locals.files = run[r].files
      /\ locals.batch = Len(batches) + 1
  <2>1. \A n \in Nat, k \in 0..MaxResubmits :
          LET l == [run[r] EXCEPT !.batch = n, !.resubmits = k, !.pc = "submit"]
          IN  l \in RunState /\ l.pc = "submit" /\ l.files = run[r].files /\ l.batch = n
    BY <1>0, ZenonT(60) DEF RunState, PCs
  <2>2. Len(batches) + 1 \in Nat /\ 0 \in 0..MaxResubmits
    BY <1>0, BoundsAssumption
  <2>3. QED BY <2>1, <2>2, Zenon
<1>7. run' = [run EXCEPT ![r] = locals]
  BY DEF WritePending
<1> HIDE DEF b, locals
<1>8. RunsOK'
  <2>1. run' \in [Runs -> RunState]
    BY <1>0, <1>6, <1>7
  <2>2. ASSUME NEW q \in Runs PROVE BatchInHand(q)'
    <3>1. CASE q = r
      BY <1>0, <1>1, <1>5, <1>6, <1>7, <3>1 DEF BatchInHand
    <3>2. CASE q # r
      <4>1. run'[q] = run[q] /\ BatchInHand(q)
        BY <1>0, <1>7, <3>2 DEF TypeInv
      <4>2. QED BY <1>0, <1>5, <4>1 DEF BatchInHand
    <3>3. QED BY <3>1, <3>2
  <2>3. QED BY <2>1, <2>2 DEF RunsOK
<1>9. \A j \in 1..Len(jobs) : jobs[j].batch \in 1..Len(batches')
  BY <1>0, <1>5 DEF TypeInv
<1>10. log \in Seq(0..Len(batches'))
  <2>1. log \in Seq(0..Len(batches)) /\ 0..Len(batches) \subseteq 0..Len(batches')
    BY <1>0, <1>5 DEF TypeInv, TypeOK
  <2>2. QED BY <2>1, SeqMonotonic
<1>11. pending' \in 0..Len(batches')
  BY <1>0, <1>4, <1>5
<1>12. UNCHANGED <<owner, watermark, writtenAt, delta, jobs, cutoff>>
  BY DEF WritePending
<1>13. QED
  BY <1>5, <1>8, <1>9, <1>10, <1>11, <1>12 DEF TypeInv, TypeOK, RunsOK, delta

LEMMA SubmitJobKeepsTypes ==
  ASSUME TypeInv, NEW r \in Runs, SubmitJob(r)
  PROVE  TypeInv'
<1> DEFINE job == [batch |-> run[r].batch, run |-> r, state |-> "active"]
           locals == [run[r] EXCEPT !.job = Len(jobs) + 1, !.pc = "recheck"]
<1>0. jobs \in Seq(Job) /\ Len(jobs) \in Nat /\ run[r] \in RunState
  BY DEF TypeInv, TypeOK
<1>1. run[r].batch \in 1..Len(batches) /\ run[r].files # {}
  BY DEF TypeInv, BatchInHand, SubmitJob, At, Processing
<1>2. job \in Job /\ job.batch = run[r].batch
  BY <1>0 DEF Job, JobStates, RunState
<1>3. jobs' = Append(jobs, job)
  BY DEF SubmitJob
<1>4. locals \in RunState /\ locals.pc = "recheck" /\ locals.files = run[r].files
      /\ locals.batch = run[r].batch
  <2>1. \A n \in Nat : LET l == [run[r] EXCEPT !.job = n, !.pc = "recheck"]
                       IN  l \in RunState /\ l.pc = "recheck" /\ l.files = run[r].files
                           /\ l.batch = run[r].batch
    BY <1>0 DEF RunState, PCs
  <2>2. Len(jobs) + 1 \in Nat
    BY <1>0
  <2>3. QED BY <2>1, <2>2, Zenon
<1>5. run' = [run EXCEPT ![r] = locals] /\ UNCHANGED <<checkpoint, delta, batches, cutoff>>
  BY DEF SubmitJob
<1> HIDE DEF job, locals
<1>6. RunsOK'
  BY <1>1, <1>4, <1>5, MoveKeepsRuns
<1>7. jobs' \in Seq(Job) /\ \A j \in 1..Len(jobs') : jobs'[j].batch \in 1..Len(batches)
  BY <1>0, <1>1, <1>2, <1>3 DEF TypeInv
<1>8. QED BY <1>5, <1>6, <1>7 DEF TypeInv, TypeOK, RunsOK, delta, checkpoint

LEMMA ProcessKeepsTypes ==
  ASSUME TypeInv, NEW r \in Runs, Process(r)
  PROVE  TypeInv'
<1>0. run[r] \in RunState /\ watermark \in Watermark /\ Len(log) \in Nat
      /\ Len(batches) \in Nat /\ batches \in Seq(Batch) /\ BatchInHand(r)
  BY DEF TypeInv, TypeOK
<1> USE DEF At
<1>1. CASE Discover(r)
  <2>1. CASE End(r, "done")
    BY <1>1, <2>1, EndKeepsRuns, QuietStep DEF Discover, Over, Quiet
  <2>2. CASE ~End(r, "done")
    <3>1. PICK b \in NextBatches(Unprocessed(watermark)) :
            run' = [run EXCEPT ![r].files = b, ![r].batchNum = @ + 1, ![r].pc = "begin"]
      BY <1>1, <2>2 DEF Discover
    <3> DEFINE locals == [run[r] EXCEPT !.files = b, !.batchNum = @ + 1, !.pc = "begin"]
    <3>2. b \in SUBSET Files /\ b # {}
      BY DEF NextBatches, Unprocessed
    <3>3. locals \in RunState /\ locals.pc = "begin" /\ locals.files = b
      <4>1. \A n \in Nat : LET l == [run[r] EXCEPT !.files = b, !.batchNum = n, !.pc = "begin"]
                           IN  l \in RunState /\ l.pc = "begin" /\ l.files = b
        BY <1>0, <3>2 DEF RunState, PCs
      <4>2. run[r].batchNum + 1 \in Nat
        BY <1>0 DEF RunState
      <4>3. QED BY <4>1, <4>2, Zenon
    <3>4. run' = [run EXCEPT ![r] = locals]
      BY <3>1
    <3>5. RunsOK'
      <4> HIDE DEF locals
      <4>1. QED BY <1>1, <3>2, <3>3, <3>4, MoveKeepsRuns DEF Discover, Processing
    <3>6. QED BY <1>1, <3>5, QuietStep DEF Discover, Quiet
  <2>3. QED BY <2>1, <2>2
<1>2. CASE BeginBatch(r)
  <2> DEFINE locals == [run[r] EXCEPT !.wm = watermark, !.latest = Len(log),
                                      !.pc = "writePending"]
  <2>1. run' = [run EXCEPT ![r] = locals]
    BY <1>2 DEF BeginBatch
  <2>2. locals \in RunState /\ locals.pc = "writePending" /\ locals.files = run[r].files
    BY <1>0 DEF RunState, PCs
  <2>3. run[r].files # {}
    BY <1>0, <1>2 DEF BeginBatch, BatchInHand
  <2>4. RunsOK'
    <3> HIDE DEF locals
    <3>1. QED BY <1>2, <2>1, <2>2, <2>3, MoveKeepsRuns DEF BeginBatch, Processing
  <2>5. QED BY <1>2, <2>4, QuietStep DEF BeginBatch, Quiet
<1>3. CASE WritePending(r)
  BY <1>3, WritePendingKeepsTypes
<1>4. CASE CheckBeforeSubmit(r)
  <2>1. CASE Goto(r, "put")
    BY <1>4, <2>1, GotoKeepsRuns, QuietStep DEF CheckBeforeSubmit, PCs, Processing, Quiet
  <2>2. CASE End(r, "superseded")
    BY <1>4, <2>2, EndKeepsRuns, QuietStep DEF CheckBeforeSubmit, Over, Quiet
  <2>3. QED BY <1>4, <2>1, <2>2 DEF CheckBeforeSubmit
<1>5. CASE SubmitJob(r)
  BY <1>5, SubmitJobKeepsTypes
<1>6. CASE CheckAfterSubmit(r)
  <2>1. Goto(r, "wait") \/ Goto(r, "abandon")
    BY <1>6 DEF CheckAfterSubmit
  <2>2. QED
    BY <1>6, <2>1, GotoKeepsRuns, QuietStep DEF CheckAfterSubmit, PCs, Processing, Quiet
<1>7. CASE JobSucceeded(r)
  BY <1>7, GotoKeepsRuns, QuietStep DEF JobSucceeded, PCs, Processing, Quiet
<1>8. CASE JobFailed(r)
  <2>1. CASE End(r, "failed")
    BY <1>8, <2>1, EndKeepsRuns, QuietStep DEF JobFailed, Over, Quiet
  <2>2. CASE ~End(r, "failed")
    <3> DEFINE locals == [run[r] EXCEPT !.resubmits = @ + 1, !.pc = "submit"]
    <3>1. run' = [run EXCEPT ![r] = locals] /\ run[r].resubmits < MaxResubmits
      BY <1>8, <2>2 DEF JobFailed
    <3>2. run[r].resubmits + 1 \in 0..MaxResubmits
      BY <1>0, <3>1, BoundsAssumption, SMTT(30) DEF RunState
    <3>3. locals \in RunState /\ locals.pc = "submit" /\ locals.files = run[r].files
          /\ locals.batch = run[r].batch
      BY <1>0, <3>2 DEF RunState, PCs
    <3>4. run[r].files # {} /\ run[r].batch \in 1..Len(batches)
      BY <1>0, <1>8 DEF JobFailed, BatchInHand, Processing
    <3>5. RunsOK'
      <4> HIDE DEF locals
      <4>1. QED BY <1>8, <3>1, <3>3, <3>4, MoveKeepsRuns DEF JobFailed, Processing
    <3>6. QED BY <1>8, <3>5, QuietStep DEF JobFailed, Quiet
  <2>3. QED BY <2>1, <2>2
<1>9. CASE GiveUp(r)
  BY <1>9, GotoKeepsRuns, QuietStep DEF GiveUp, PCs, Processing, Quiet
<1>10. CASE Abandon(r)
  <2>1. RunsOK'
    BY <1>10, GotoKeepsRuns DEF Abandon, PCs, Processing
  <2>2. QED
    BY <1>10, <2>1, CancelledType DEF Abandon, TypeInv, TypeOK, RunsOK, delta, checkpoint
<1>11. CASE AbandonedJobEnded(r)
  <2>1. CASE Goto(r, "update")
    BY <1>11, <2>1, GotoKeepsRuns, QuietStep DEF AbandonedJobEnded, PCs, Processing, Quiet
  <2>2. CASE End(r, "failed")
    BY <1>11, <2>2, EndKeepsRuns, QuietStep DEF AbandonedJobEnded, Over, Quiet
  <2>3. QED BY <1>11, <2>1, <2>2 DEF AbandonedJobEnded
<1>12. CASE AbandonedJobUnconfirmed(r)
  BY <1>12, EndKeepsRuns, QuietStep DEF AbandonedJobUnconfirmed, Over, Quiet
<1>13. CASE UpdateCheckpoint(r)
  <2> DEFINE locals == [run[r] EXCEPT !.wm = watermark, !.pc = "record"]
  <2>1. run' = [run EXCEPT ![r] = locals]
    BY <1>13 DEF UpdateCheckpoint
  <2>2. locals \in RunState /\ locals.pc = "record" /\ locals.files = run[r].files
        /\ locals.batch = run[r].batch
    BY <1>0 DEF RunState, PCs
  <2>3. run[r].files # {} /\ run[r].batch \in 1..Len(batches)
    BY <1>0, <1>13 DEF UpdateCheckpoint, BatchInHand, Processing
  <2>4. RunsOK'
    <3> HIDE DEF locals
    <3>1. QED BY <1>13, <2>1, <2>2, <2>3, MoveKeepsRuns DEF UpdateCheckpoint, Processing
  <2>5. QED BY <1>13, <2>4, QuietStep DEF UpdateCheckpoint, Quiet
<1>14. CASE RecordBatch(r)
  <2>1. RunsOK'
    <3>1. CASE Goto(r, "finish")
      BY <1>14, <3>1, GotoKeepsRuns DEF RecordBatch, PCs, Processing
    <3>2. CASE End(r, "failed")
      BY <1>14, <3>2, EndKeepsRuns DEF RecordBatch, Over
    <3>3. QED BY <1>14, <3>1, <3>2 DEF RecordBatch
  <2>2. PICK version \in CommittedVersions(r) :
          WriteWatermark(NewWatermark(run[r].files, run[r].wm, version))
    BY <1>14 DEF RecordBatch
  <2>3. run[r].files # {} /\ run[r].batch \in 1..Len(batches)
    BY <1>0, <1>14 DEF RecordBatch, BatchInHand, Processing
  <2>4. version \in Nat
    BY <1>0, <2>3, TokenVersionFound DEF CommittedVersions
  <2>5. NewWatermark(run[r].files, run[r].wm, version) \in Watermark
    <3>1. run[r].files \in SUBSET Files /\ run[r].wm \in Watermark
      BY <1>0 DEF RunState
    <3>2. QED BY <2>3, <2>4, <3>1, NewWatermarkIsNewest
  <2>6. QED BY <1>14, <2>1, <2>2, <2>5, WriteKeepsTypes DEF RecordBatch
<1>15. CASE FinishBatch(r)
  <2>1. RunsOK'
    BY <1>15, GotoKeepsRuns DEF FinishBatch, PCs, Processing
  <2>2. pending' \in 0..Len(batches)
    BY <1>0, <1>15 DEF FinishBatch, DeletePending, NoBatch, TypeInv, TypeOK
  <2>3. QED BY <1>15, <2>1, <2>2 DEF FinishBatch, TypeInv, TypeOK, RunsOK, delta
<1>16. CASE CheckBeforeBegin(r) \/ CheckBeforeUpdate(r)
  <2>1. CASE End(r, "superseded")
    BY <1>16, <2>1, EndKeepsRuns, QuietStep DEF CheckBeforeBegin, CheckBeforeUpdate, Over, Quiet
  <2>2. CASE CheckBeforeBegin(r) /\ Goto(r, "readPosition")
    BY <2>2, GotoKeepsRuns, QuietStep DEF CheckBeforeBegin, PCs, Processing, Quiet
  <2>3. CASE CheckBeforeUpdate(r) /\ Goto(r, "readCurrent")
    BY <2>3, GotoKeepsRuns, QuietStep DEF CheckBeforeUpdate, PCs, Processing, Quiet
  <2>4. QED BY <1>16, <2>1, <2>2, <2>3 DEF CheckBeforeBegin, CheckBeforeUpdate
<1>17. QED
  BY <1>1, <1>2, <1>3, <1>4, <1>5, <1>6, <1>7, <1>8, <1>9, <1>10, <1>11, <1>12, <1>13,
     <1>14, <1>15, <1>16 DEF Process

LEMMA EnvironmentKeepsTypes ==
  ASSUME TypeInv,
         \/ \E r \in Runs : Crash(r)
         \/ \E j \in DOMAIN jobs : EndJob(j)
         \/ OtherCommit \/ CleanLog \/ Tick \/ Terminated
  PROVE  TypeInv'
<1>0. /\ jobs \in Seq(Job) /\ Len(jobs) \in Nat /\ DOMAIN jobs = 1..Len(jobs)
      /\ log \in Seq(0..Len(batches)) /\ Len(log) \in Nat
      /\ batches \in Seq(Batch) /\ Len(batches) \in Nat
      /\ writtenAt \in 0..Len(log) /\ cleaned \in 0..Len(log)
  BY DEF TypeInv, TypeOK
<1>a. ASSUME UNCHANGED <<run, batches>> PROVE RunsOK'
  BY <1>a DEF TypeInv, TypeOK, RunsOK, BatchInHand
<1>b. ASSUME NEW j \in DOMAIN jobs, NEW state \in JobStates,
             jobs' = [jobs EXCEPT ![j].state = state]
      PROVE  jobs' \in Seq(Job) /\ Len(jobs') = Len(jobs)
             /\ \A i \in 1..Len(jobs) : jobs'[i].batch = jobs[i].batch
  <2>1. \A i \in 1..Len(jobs) : jobs[i] \in Job
    BY <1>0
  <2>2. [jobs[j] EXCEPT !.state = state] \in Job
    BY <1>0, <1>b, <2>1 DEF Job
  <2>3. QED BY <1>0, <1>b, <2>1, <2>2 DEF Job
<1>1. ASSUME NEW r \in Runs, Crash(r) PROVE TypeInv'
  BY <1>1, EndKeepsRuns, QuietStep DEF Crash, Over, Quiet
<1>2. ASSUME NEW j \in DOMAIN jobs, CommitJob(j) PROVE TypeInv'
  <2>1. jobs[j].batch \in 0..Len(batches)
    BY <1>0 DEF TypeInv
  <2>2. log' \in Seq(0..Len(batches)) /\ Len(log') = Len(log) + 1
    BY <1>0, <1>2, <2>1 DEF CommitJob
  <2>3. RunsOK'
    BY <1>2, <1>a DEF CommitJob
  <2>4. jobs' \in Seq(Job) /\ Len(jobs') = Len(jobs)
        /\ \A i \in 1..Len(jobs) : jobs'[i].batch = jobs[i].batch
    BY <1>2, <1>b DEF CommitJob, JobStates
  <2>5. UNCHANGED <<checkpoint, cleaned, batches, cutoff, run>>
    BY <1>2 DEF CommitJob
  <2>6. writtenAt \in 0..Len(log') /\ cleaned \in 0..Len(log')
    BY <1>0, <2>2
  <2>7. QED
    BY <2>2, <2>3, <2>4, <2>5, <2>6 DEF TypeInv, TypeOK, RunsOK, checkpoint
<1>3. ASSUME NEW j \in DOMAIN jobs, FailJob(j) PROVE TypeInv'
  <2>1. RunsOK'
    BY <1>3, <1>a DEF FailJob
  <2>2. jobs' \in Seq(Job) /\ Len(jobs') = Len(jobs)
        /\ \A i \in 1..Len(jobs) : jobs'[i].batch = jobs[i].batch
    BY <1>3, <1>b DEF FailJob, JobStates
  <2>3. QED
    BY <1>3, <2>1, <2>2 DEF FailJob, TypeInv, TypeOK, RunsOK, checkpoint, delta
<1>4. CASE OtherCommit
  <2>1. log' \in Seq(0..Len(batches)) /\ Len(log') = Len(log) + 1
    BY <1>0, <1>4 DEF OtherCommit, NoBatch
  <2>2. RunsOK'
    BY <1>4, <1>a DEF OtherCommit
  <2>3. writtenAt \in 0..Len(log') /\ cleaned \in 0..Len(log')
    BY <1>0, <2>1
  <2>4. QED
    BY <1>4, <2>1, <2>2, <2>3 DEF OtherCommit, TypeInv, TypeOK, RunsOK, checkpoint
<1>5. CASE CleanLog
  <2>1. RunsOK' /\ cleaned' \in 0..Len(log)
    BY <1>0, <1>5, <1>a DEF CleanLog
  <2>2. QED
    BY <1>5, <2>1 DEF CleanLog, TypeInv, TypeOK, RunsOK, checkpoint
<1>6. CASE Tick
  <2>1. RunsOK' /\ cutoff' \in 0..MaxTime
    BY <1>6, <1>a, BoundsAssumption DEF Tick, TypeInv, TypeOK
  <2>2. QED
    BY <1>6, <2>1 DEF Tick, TypeInv, TypeOK, RunsOK, checkpoint, delta
<1>7. CASE Terminated
  <2>1. RunsOK' /\ UNCHANGED vars
    BY <1>7, <1>a DEF Terminated, vars
  <2>2. QED BY <2>1, QuietStep DEF vars, Quiet, checkpoint, delta
<1>8. QED
  BY <1>1, <1>2, <1>3, <1>4, <1>5, <1>6, <1>7 DEF EndJob

LEMMA StepTypeInv == TypeInv /\ [Next]_vars => TypeInv'
<1> SUFFICES ASSUME TypeInv, [Next]_vars PROVE TypeInv'
  OBVIOUS
<1>1. CASE UNCHANGED vars
  <2>1. RunsOK'
    BY <1>1 DEF vars, TypeInv, TypeOK, RunsOK, BatchInHand
  <2>2. QED BY <1>1, <2>1, QuietStep DEF vars, Quiet, checkpoint, delta
<1>2. CASE \E r \in Runs : RunStep(r)
  BY <1>2, PrepareKeepsTypes, ReconcileKeepsTypes, ProcessKeepsTypes DEF RunStep
<1>3. CASE Next /\ ~\E r \in Runs : RunStep(r)
  BY <1>3, EnvironmentKeepsTypes DEF Next
<1>4. QED BY <1>1, <1>2, <1>3

LEMMA TypeInvariance == Spec => []TypeInv
BY InitTypeInv, StepTypeInv, PTL DEF Spec

(* Type correctness of the table protocol: checkpoint files, Delta log,     *)
(* jobs and processes, whatever the faults and however many the runs.       *)
THEOREM TypeCorrect == Spec => []TypeOK
<1>1. TypeInv => TypeOK
  BY DEF TypeInv
<1>2. QED BY TypeInvariance, <1>1, PTL

-----------------------------------------------------------------------------
(* No data loss *)

(* The batch's commit is in the Delta log; the file's rows are.             *)
InLog(b) == \E v \in DOMAIN log : log[v] = b
Ingested(f) == \E v \in DOMAIN log : log[v] # NoBatch /\ f \in batches[log[v]].files

(* Every file up to the position of a watermark is in the log.              *)
Covered(w) == \A f \in Files : MTime[f] <= w.modified => Ingested(f)

(* A set of files that leaves none behind: whatever is older than one of    *)
(* its files is in it, or in the log.                                       *)
Closed(fs) == \A g \in fs : \A f \in Files : MTime[f] <= MTime[g] => f \in fs \/ Ingested(f)

BatchesSound == \A b \in 1..Len(batches) : ~batches[b].truncate /\ Closed(batches[b].files)

JobsSound == \A j \in 1..Len(jobs) : jobs[j].state = "succeeded" => InLog(jobs[j].batch)

(* What a process relies on between two accesses to the shared state.       *)
Sound(l) ==
    /\ l.mode = "incremental"
    /\ Covered(l.wm)
    /\ Closed(l.files)
    /\ l.pc \in Processing => batches[l.batch].files = l.files
    /\ l.pc \in {"recheck", "wait", "abandon", "abandoned"} =>
          l.job \in 1..Len(jobs) /\ jobs[l.job].batch = l.batch
    /\ l.pc \in {"recordPending", "update", "readCurrent", "record"} => InLog(l.batch)

NoLossInv ==
    /\ Covered(watermark)
    /\ BatchesSound
    /\ JobsSound
    /\ \A r \in Runs : Sound(run[r])

(* The two assumptions of the theorem. *)
OnlyIncremental == Modes \subseteq {"incremental"}
DistinctMTimes == \A f, g \in Files : MTime[f] = MTime[g] => f = g

-----------------------------------------------------------------------------
(* The data *)

LEMMA NoWatermarkCovered == Covered(NoWatermark)
BY FilesAssumption DEF Covered, NoWatermark

LEMMA IdleSound == \A label \in Over \cup {"idle"} : Sound([Idle EXCEPT !.pc = label])
<1> SUFFICES ASSUME NEW label \in Over \cup {"idle"}
             PROVE  Sound([Idle EXCEPT !.pc = label])
  OBVIOUS
<1> DEFINE l == [Idle EXCEPT !.pc = label]
<1>1. l.mode = "incremental" /\ l.wm = NoWatermark /\ l.files = {} /\ l.pc = label
  BY DEF Idle
<1>2. label \notin Processing \cup {"recordPending"}
  BY DEF Over, Processing
<1> HIDE DEF l
<1>3. Sound(l)
  BY <1>1, <1>2, NoWatermarkCovered DEF Sound, Closed, Processing
<1>4. QED BY <1>3 DEF l

(* A batch is the oldest part of what was ready: with distinct times, it    *)
(* leaves no file behind.                                                   *)
LEMMA DiscoveredBatchIsClosed ==
  ASSUME TypeInv, DistinctMTimes, Covered(watermark),
         NEW b \in NextBatches(Unprocessed(watermark))
  PROVE  Closed(b)
<1> SUFFICES ASSUME NEW g \in b, NEW f \in Files, MTime[f] <= MTime[g], f \notin b
             PROVE  Ingested(f)
  BY DEF Closed
<1>1. g \in Files /\ MTime[g] <= cutoff
  BY DEF NextBatches, Unprocessed
<1>2. MTime[f] \in Nat /\ MTime[g] \in Nat /\ cutoff \in Nat /\ watermark.modified \in Nat
  <2>1. MTime[f] \in 1..MaxTime /\ MTime[g] \in 1..MaxTime
    BY <1>1, FilesAssumption
  <2>2. cutoff \in 0..MaxTime /\ watermark \in Watermark
    BY DEF TypeInv, TypeOK
  <2>3. QED BY <2>1, <2>2, BoundsAssumption DEF Watermark
<1>3. CASE MTime[f] <= watermark.modified
  BY <1>3 DEF Covered
<1>4. CASE ~(MTime[f] <= watermark.modified)
  <2>1. f \in Unprocessed(watermark)
    BY <1>1, <1>2, <1>4 DEF Unprocessed
  <2>2. MTime[f] # MTime[g]
    BY <1>1 DEF DistinctMTimes
  <2>3. Before(f, g)
    BY <1>2, <2>2 DEF Before
  <2>4. QED BY <2>1, <2>3 DEF NextBatches
<1>5. QED BY <1>3, <1>4

(* _adoptable_prefix leaves no file behind either. *)
LEMMA AdoptedIsIngested ==
  ASSUME NEW w, NEW latest, NEW f \in Adopted(w, latest)
  PROVE  Ingested(f)
<1>1. PICK v \in DOMAIN log : f \in CommittedFiles(v)
  BY DEF Adopted
<1>2. log[v] # NoBatch /\ f \in batches[log[v]].files
  BY <1>1 DEF CommittedFiles
<1>3. QED BY <1>2 DEF Ingested

LEMMA AdoptablePrefixIsClosed ==
  ASSUME TypeInv, NEW w \in Watermark, Covered(w), NEW latest
  PROVE  Closed(AdoptablePrefix(w, latest))
<1> SUFFICES ASSUME NEW g \in AdoptablePrefix(w, latest), NEW f \in Files,
                    MTime[f] <= MTime[g]
             PROVE  Ingested(f)
  BY DEF Closed
<1>1. g \in Unprocessed(w) /\ \A h \in Unprocessed(w) \ Adopted(w, latest) : MTime[g] < MTime[h]
  BY DEF AdoptablePrefix, Adopted
<1>2. g \in Files /\ MTime[g] <= cutoff
  BY <1>1 DEF Unprocessed
<1>3. MTime[f] \in Nat /\ MTime[g] \in Nat /\ cutoff \in Nat /\ w.modified \in Nat
  <2>1. MTime[f] \in 1..MaxTime /\ MTime[g] \in 1..MaxTime
    BY <1>2, FilesAssumption
  <2>2. cutoff \in 0..MaxTime
    BY DEF TypeInv, TypeOK
  <2>3. QED BY <2>1, <2>2, BoundsAssumption DEF Watermark
<1>4. CASE MTime[f] <= w.modified
  BY <1>4 DEF Covered
<1>5. CASE ~(MTime[f] <= w.modified)
  <2>1. f \in Unprocessed(w)
    BY <1>2, <1>3, <1>5 DEF Unprocessed
  <2>2. f \in Adopted(w, latest)
    BY <1>1, <1>3, <2>1
  <2>3. QED BY <2>2, AdoptedIsIngested
<1>6. QED BY <1>4, <1>5

(* Recording ingested files that leave none behind keeps the promise.       *)
LEMMA RecordingCovers ==
  ASSUME NEW fs \in SUBSET Files, fs # {}, Closed(fs), \A f \in fs : Ingested(f),
         NEW w \in Watermark, NEW version \in Nat
  PROVE  Covered(NewWatermark(fs, w, version))
<1>1. PICK g \in fs : NewWatermark(fs, w, version).modified = MTime[g]
  BY NewWatermarkIsNewest
<1>2. QED BY <1>1 DEF Covered, Closed

LEMMA BatchInLogIsIngested ==
  ASSUME NEW b \in Nat \ {NoBatch}, InLog(b)
  PROVE  \A f \in batches[b].files : Ingested(f)
BY DEF InLog, Ingested

-----------------------------------------------------------------------------
(* Batches, versions and jobs are only ever added: what was true of them    *)
(* stays true.                                                              *)
Grows ==
    /\ Len(batches) <= Len(batches')
    /\ \A b \in 1..Len(batches) : batches'[b] = batches[b]
    /\ Len(log) <= Len(log')
    /\ \A v \in 1..Len(log) : log'[v] = log[v]
    /\ Len(jobs) <= Len(jobs')
    /\ \A j \in 1..Len(jobs) : jobs'[j].batch = jobs[j].batch

LEMMA Lengths ==
  ASSUME TypeInv
  PROVE  /\ Len(batches) \in Nat /\ Len(log) \in Nat /\ Len(jobs) \in Nat
         /\ DOMAIN log = 1..Len(log) /\ DOMAIN jobs = 1..Len(jobs)
         /\ \A v \in 1..Len(log) : log[v] \in 0..Len(batches)
         /\ \A j \in 1..Len(jobs) : jobs[j] \in Job /\ jobs[j].batch \in 1..Len(batches)
         /\ \A b \in 1..Len(batches) : batches[b] \in Batch
BY DEF TypeInv, TypeOK

LEMMA UnchangedGrows ==
  ASSUME TypeInv, UNCHANGED <<batches, log, jobs>>
  PROVE  Grows
BY Lengths DEF Grows

LEMMA LogGrows ==
  ASSUME TypeInv, TypeInv', Grows
  PROVE  /\ \A f \in Files : Ingested(f) => Ingested(f)'
         /\ \A b \in Nat : InLog(b) => InLog(b)'
<1>1. /\ DOMAIN log = 1..Len(log) /\ DOMAIN log' = 1..Len(log')
      /\ Len(log) \in Nat /\ Len(log') \in Nat
      /\ \A v \in 1..Len(log) : log[v] \in 0..Len(batches)
  <2>1. log \in Seq(0..Len(batches)) /\ log' \in Seq(0..Len(batches'))
    BY DEF TypeInv, TypeOK
  <2>2. QED BY <2>1
<1>2. \A v \in DOMAIN log : v \in DOMAIN log' /\ log'[v] = log[v]
  BY <1>1 DEF Grows
<1>3. ASSUME NEW f \in Files, Ingested(f) PROVE Ingested(f)'
  <2>1. PICK v \in DOMAIN log : log[v] # NoBatch /\ f \in batches[log[v]].files
    BY <1>3 DEF Ingested
  <2>2. log[v] \in 1..Len(batches)
    BY <1>1, <2>1 DEF NoBatch
  <2>3. batches'[log[v]] = batches[log[v]]
    BY <2>2 DEF Grows
  <2>4. v \in DOMAIN log' /\ log'[v] # NoBatch /\ f \in batches'[log'[v]].files
    BY <1>2, <2>1, <2>3
  <2>5. QED BY <2>4 DEF Ingested
<1>4. ASSUME NEW b \in Nat, InLog(b) PROVE InLog(b)'
  BY <1>2, <1>4 DEF InLog
<1>5. QED BY <1>3, <1>4

(* What does not change stays covered, closed and sound.                    *)
LEMMA UnchangedStaysSound ==
  ASSUME TypeInv, TypeInv', NoLossInv, Grows
  PROVE  /\ \A w \in Watermark : Covered(w) => Covered(w)'
         /\ \A fs \in SUBSET Files : Closed(fs) => Closed(fs)'
         /\ \A l \in RunState :
              /\ Sound(l)
              /\ l.pc \in Processing \cup {"recordPending"} => l.batch \in 1..Len(batches)
              => Sound(l)'
<1>1. /\ \A f \in Files : Ingested(f) => Ingested(f)'
      /\ \A b \in Nat : InLog(b) => InLog(b)'
  BY LogGrows
<1>2. \A w \in Watermark : Covered(w) => Covered(w)'
  BY <1>1 DEF Covered
<1>3. \A fs \in SUBSET Files : Closed(fs) => Closed(fs)'
  BY <1>1 DEF Closed
<1>4. ASSUME NEW l \in RunState, Sound(l),
             l.pc \in Processing \cup {"recordPending"} => l.batch \in 1..Len(batches)
      PROVE  Sound(l)'
  <2>1. l.wm \in Watermark /\ l.files \in SUBSET Files /\ l.batch \in Nat /\ l.job \in Nat
    BY DEF RunState
  <2>2. l.mode = "incremental" /\ Covered(l.wm)' /\ Closed(l.files)'
    BY <1>2, <1>3, <1>4, <2>1 DEF Sound
  <2>3. l.pc \in Processing => batches'[l.batch].files = l.files
    BY <1>4 DEF Sound, Grows
  <2>4. l.pc \in {"recheck", "wait", "abandon", "abandoned"} =>
          l.job \in 1..Len(jobs') /\ jobs'[l.job].batch = l.batch
    <3>1. Len(jobs) \in Nat /\ Len(jobs') \in Nat
      BY DEF TypeInv, TypeOK
    <3>2. QED BY <1>4, <3>1 DEF Sound, Grows
  <2>5. l.pc \in {"recordPending", "update", "readCurrent", "record"} => InLog(l.batch)'
    BY <1>1, <1>4, <2>1 DEF Sound
  <2>6. QED BY <2>2, <2>3, <2>4, <2>5 DEF Sound
<1>5. QED BY <1>2, <1>3, <1>4

(* So a step has to answer only for what it changes.                        *)
LEMMA ProcessesStaySound ==
  ASSUME TypeInv, TypeInv', NoLossInv, Grows, NEW r \in Runs,
         \A q \in Runs \ {r} : run'[q] = run[q], Sound(run[r])'
  PROVE  \A q \in Runs : Sound(run[q])'
<1> SUFFICES ASSUME NEW q \in Runs \ {r} PROVE Sound(run[q])'
  OBVIOUS
<1>1. run[q] \in RunState /\ Sound(run[q]) /\ BatchInHand(q) /\ run'[q] = run[q]
  BY DEF TypeInv, TypeOK, NoLossInv
<1>2. run[q].pc \in Processing \cup {"recordPending"} => run[q].batch \in 1..Len(batches)
  BY <1>1 DEF BatchInHand
<1>3. PICK l \in RunState : l = run[q]
  BY <1>1
<1>4. Sound(l)'
  BY <1>1, <1>2, <1>3, UnchangedStaysSound
<1>5. QED BY <1>1, <1>3, <1>4 DEF Sound

LEMMA BatchesStaySound ==
  ASSUME TypeInv, TypeInv', NoLossInv, Grows, UNCHANGED batches
  PROVE  BatchesSound'
<1> SUFFICES ASSUME NEW b \in 1..Len(batches)
             PROVE  ~batches[b].truncate /\ Closed(batches[b].files)'
  BY DEF BatchesSound
<1>1. batches[b].files \in SUBSET Files /\ ~batches[b].truncate /\ Closed(batches[b].files)
  BY Lengths DEF NoLossInv, BatchesSound, Batch
<1>2. PICK fs \in SUBSET Files : fs = batches[b].files
  BY <1>1
<1>3. Closed(fs)'
  BY <1>1, <1>2, UnchangedStaysSound
<1>4. QED BY <1>1, <1>2, <1>3 DEF Closed

LEMMA WatermarkStaysCovered ==
  ASSUME TypeInv, TypeInv', NoLossInv, Grows, UNCHANGED watermark
  PROVE  Covered(watermark)'
<1>1. PICK w \in Watermark : w = watermark
  BY DEF TypeInv, TypeOK
<1>2. Covered(w)'
  BY <1>1, UnchangedStaysSound DEF NoLossInv
<1>3. QED BY <1>1, <1>2 DEF Covered

(* A process moves and the log, the batches and the jobs stay.              *)
LEMMA MoveIsSound ==
  ASSUME TypeInv, TypeInv', NoLossInv, NEW r \in Runs, NEW locals \in RunState,
         run' = [run EXCEPT ![r] = locals], UNCHANGED <<batches, log, jobs>>,
         Sound(locals), Covered(watermark)'
  PROVE  NoLossInv'
<1>1. run \in [Runs -> RunState]
  BY DEF TypeInv, TypeOK
<1>2. Grows
  BY UnchangedGrows
<1>3. run'[r] = locals /\ \A q \in Runs \ {r} : run'[q] = run[q]
  BY <1>1
<1>4. Sound(run[r])'
  BY <1>3 DEF Sound, Covered, Closed, Ingested, InLog
<1>5. \A q \in Runs : Sound(run[q])'
  BY <1>2, <1>3, <1>4, ProcessesStaySound
<1>6. BatchesSound'
  BY <1>2, BatchesStaySound
<1>7. JobsSound'
  BY DEF NoLossInv, JobsSound, InLog
<1>8. QED BY <1>5, <1>6, <1>7 DEF NoLossInv

HasJob == {"recheck", "wait", "abandon", "abandoned"}

LEMMA GotoIsSound ==
  ASSUME TypeInv, TypeInv', NoLossInv, NEW r \in Runs, NEW label \in PCs, Goto(r, label),
         UNCHANGED <<batches, log, jobs>>, Covered(watermark)',
         label \in Processing => run[r].pc \in Processing,
         label \in HasJob => run[r].pc \in HasJob,
         label = "readPosition" => run[r].pc = "begin",
         label \in {"recordPending", "update", "readCurrent", "record"} => InLog(run[r].batch)
  PROVE  NoLossInv'
<1> DEFINE locals == [run[r] EXCEPT !.pc = label]
<1>1. run[r] \in RunState /\ Sound(run[r])
  BY DEF TypeInv, TypeOK, NoLossInv
<1>2. locals \in RunState /\ locals.pc = label /\ locals.mode = run[r].mode
      /\ locals.wm = run[r].wm /\ locals.files = run[r].files
      /\ locals.batch = run[r].batch /\ locals.job = run[r].job
  BY <1>1 DEF RunState
<1>3. run' = [run EXCEPT ![r] = locals]
  BY DEF Goto
<1> HIDE DEF locals
<1>4. Sound(locals)
  BY <1>1, <1>2 DEF Sound, HasJob
<1>5. QED BY <1>2, <1>3, <1>4, MoveIsSound

LEMMA EndIsSound ==
  ASSUME TypeInv, TypeInv', NoLossInv, NEW r \in Runs, NEW label \in Over, End(r, label),
         UNCHANGED <<batches, log, jobs>>, Covered(watermark)'
  PROVE  NoLossInv'
<1> DEFINE locals == [Idle EXCEPT !.pc = label]
<1>1. locals \in RunState /\ Sound(locals)
  BY IdleType, IdleSound DEF Over, PCs
<1>2. run' = [run EXCEPT ![r] = locals]
  BY DEF End
<1> HIDE DEF locals
<1>3. QED BY <1>1, <1>2, MoveIsSound

(* The jobs that succeeded before still did, and each new success has its   *)
(* commit in the log.                                                       *)
LEMMA JobsStaySound ==
  ASSUME TypeInv, TypeInv', NoLossInv, Grows,
         \A j \in 1..Len(jobs') : jobs'[j].state = "succeeded" =>
            \/ j \in 1..Len(jobs) /\ jobs[j].state = "succeeded"
            \/ InLog(jobs[j].batch)' 
  PROVE  JobsSound'
<1> SUFFICES ASSUME NEW j \in 1..Len(jobs'), jobs'[j].state = "succeeded"
             PROVE  InLog(jobs[j].batch)'
  BY DEF JobsSound
<1>1. CASE j \in 1..Len(jobs) /\ jobs[j].state = "succeeded"
  <2>1. InLog(jobs[j].batch) /\ jobs'[j].batch = jobs[j].batch
    BY <1>1 DEF NoLossInv, JobsSound, Grows
  <2>2. jobs[j].batch \in Nat
    BY <1>1, Lengths
  <2>3. PICK b \in Nat : b = jobs[j].batch
    BY <2>2
  <2>4. InLog(b)'
    BY <2>1, <2>3, LogGrows
  <2>5. QED BY <2>1, <2>3, <2>4 DEF InLog
<1>2. QED BY <1>1

(* A cancel request neither adds a job nor makes one succeed.               *)
LEMMA CancellingIsSound ==
  ASSUME TypeInv, TypeInv', NoLossInv, NEW js, jobs' = Cancelled(js), UNCHANGED <<batches, log>>
  PROVE  Grows /\ JobsSound'
<1>1. Len(jobs') = Len(jobs) /\ \A j \in 1..Len(jobs) : jobs'[j].batch = jobs[j].batch
  BY CancelledType
<1>2. Grows
  BY <1>1, Lengths DEF Grows
<1>3. \A j \in 1..Len(jobs) : jobs'[j].state = "succeeded" => jobs[j].state = "succeeded"
  <2>1. \A j \in 1..Len(jobs) : jobs[j] \in Job /\ j \in DOMAIN jobs
    BY Lengths
  <2>2. QED BY <2>1 DEF Cancelled, Job
<1>4. QED BY <1>1, <1>2, <1>3, JobsStaySound

-----------------------------------------------------------------------------
(* One lemma per part of a run, one step per action. *)

LEMMA PrepareIsSound ==
  ASSUME OnlyIncremental, TypeInv, TypeInv', NoLossInv, NEW r \in Runs, Prepare(r)
  PROVE  NoLossInv'
<1>0. run[r] \in RunState /\ Sound(run[r])
  BY DEF TypeInv, TypeOK, NoLossInv
<1>1. CASE Start(r)
  <2> DEFINE locals == [run[r] EXCEPT !.mode = "incremental", !.pc = "claim"]
  <2>1. run' = [run EXCEPT ![r] = locals]
    BY <1>1 DEF Start, OnlyIncremental
  <2>2. locals \in RunState /\ locals.pc = "claim" /\ locals.mode = "incremental"
        /\ locals.wm = run[r].wm /\ locals.files = run[r].files
    BY <1>0 DEF RunState, PCs
  <2> HIDE DEF locals
  <2>3. Sound(locals)
    BY <1>0, <2>2 DEF Sound, Processing
  <2>4. UNCHANGED <<batches, log, jobs, watermark>>
    BY <1>1 DEF Start, checkpoint, delta
  <2>5. Covered(watermark)'
    BY <2>4, UnchangedGrows, WatermarkStaysCovered
  <2>6. QED BY <2>1, <2>2, <2>3, <2>4, <2>5, MoveIsSound
<1>2. CASE DeleteWatermark(r)
  <2>1. UNCHANGED <<batches, log, jobs>>
    BY <1>2 DEF DeleteWatermark, delta
  <2>2. Covered(watermark)'
    <3>1. CASE watermark' = NoWatermark
      BY <3>1, FilesAssumption DEF Covered, NoWatermark
    <3>2. CASE UNCHANGED watermark
      BY <2>1, <3>2, UnchangedGrows, WatermarkStaysCovered
    <3>3. QED BY <1>2, <3>1, <3>2 DEF DeleteWatermark
  <2>3. QED
    BY <1>2, <2>1, <2>2, GotoIsSound DEF DeleteWatermark, PCs, Processing, HasJob
<1>3. CASE ClearPending(r)
  <2>1. UNCHANGED <<batches, log, jobs, watermark>>
    BY <1>3 DEF ClearPending, delta
  <2>2. Covered(watermark)'
    BY <2>1, UnchangedGrows, WatermarkStaysCovered
  <2>3. CASE Goto(r, "claim")
    BY <2>1, <2>2, <2>3, GotoIsSound DEF PCs, Processing, HasJob
  <2>4. CASE End(r, "failed")
    BY <2>1, <2>2, <2>4, EndIsSound DEF Over
  <2>5. QED BY <1>3, <2>3, <2>4 DEF ClearPending
<1>4. CASE Claim(r)
  <2>1. UNCHANGED <<batches, log, jobs, watermark>>
    BY <1>4 DEF Claim, delta
  <2>2. Covered(watermark)'
    BY <2>1, UnchangedGrows, WatermarkStaysCovered
  <2>3. CASE Goto(r, "listOrphans")
    BY <2>1, <2>2, <2>3, GotoIsSound DEF PCs, Processing, HasJob
  <2>4. CASE End(r, "superseded")
    BY <2>1, <2>2, <2>4, EndIsSound DEF Over
  <2>5. CASE End(r, "crashed")
    BY <2>1, <2>2, <2>5, EndIsSound DEF Over
  <2>6. QED BY <1>4, <2>3, <2>4, <2>5 DEF Claim
<1>5. CASE ListOrphans(r)
  <2> PICK listed \in Listed(r) :
           /\ jobs' = Cancelled(listed)
           /\ run' = [run EXCEPT ![r].orphans = listed, ![r].pc = "settling"]
    BY <1>5 DEF ListOrphans
  <2> DEFINE locals == [run[r] EXCEPT !.orphans = listed, !.pc = "settling"]
  <2>1. UNCHANGED <<batches, log, watermark>> /\ jobs' = Cancelled(listed)
        /\ run' = [run EXCEPT ![r] = locals]
    BY <1>5 DEF ListOrphans, checkpoint, delta
  <2>2. Grows /\ JobsSound'
    BY <2>1, CancellingIsSound
  <2>3. Covered(watermark)' /\ BatchesSound'
    BY <2>1, <2>2, WatermarkStaysCovered, BatchesStaySound
  <2>4. Sound(run[r])'
    <3>1. locals.mode = run[r].mode /\ locals.wm = run[r].wm /\ locals.files = run[r].files
          /\ locals.pc = "settling" /\ run'[r] = locals
      BY <1>0, <2>1 DEF RunState, TypeInv, TypeOK
    <3> HIDE DEF locals
    <3>2. UNCHANGED <<batches, log>>
      BY <2>1
    <3>3. QED
      BY <1>0, <3>1, <3>2 DEF Sound, Covered, Closed, Ingested, Processing
  <2>5. \A q \in Runs \ {r} : run'[q] = run[q]
    BY <2>1 DEF TypeInv, TypeOK
  <2>6. QED BY <2>2, <2>3, <2>4, <2>5, ProcessesStaySound DEF NoLossInv
<1>6. CASE Settled(r)
  <2>1. UNCHANGED <<batches, log, jobs, watermark>>
    BY <1>6 DEF Settled, checkpoint, delta
  <2>2. Covered(watermark)'
    BY <2>1, UnchangedGrows, WatermarkStaysCovered
  <2>3. QED BY <1>6, <2>1, <2>2, GotoIsSound DEF Settled, PCs, Processing, HasJob
<1>7. CASE SettleTimeout(r)
  <2>1. UNCHANGED <<batches, log, jobs, watermark>>
    BY <1>7 DEF SettleTimeout, checkpoint, delta
  <2>2. Covered(watermark)'
    BY <2>1, UnchangedGrows, WatermarkStaysCovered
  <2>3. QED BY <1>7, <2>1, <2>2, EndIsSound DEF SettleTimeout, Over
<1>8. QED
  BY <1>1, <1>2, <1>3, <1>4, <1>5, <1>6, <1>7 DEF Prepare

(* Writing the Delta version into a watermark leaves its position alone.    *)
LEMMA AdoptNothingIsSound ==
  ASSUME TypeInv, TypeInv', NoLossInv, NEW r \in Runs, NEW w \in Watermark, Covered(w),
         AdoptNothing(r, w), UNCHANGED <<batches, log, jobs>>
  PROVE  Covered(watermark)'
<1>1. CASE UNCHANGED watermark
  BY <1>1, UnchangedGrows, WatermarkStaysCovered
<1>2. CASE ~UNCHANGED watermark
  <2>1. watermark' = [w EXCEPT !.delta = run[r].latest]
    BY <1>2 DEF AdoptNothing, WriteWatermark
  <2>2. watermark'.modified = w.modified
    BY <2>1 DEF Watermark
  <2>3. QED BY <2>2 DEF Covered, Ingested
<1>3. QED BY <1>1, <1>2

LEMMA ReconcileIsSound ==
  ASSUME TypeInv, TypeInv', NoLossInv, NEW r \in Runs, Reconcile(r)
  PROVE  NoLossInv'
<1>0. run[r] \in RunState /\ Sound(run[r]) /\ BatchInHand(r) /\ watermark \in Watermark
  BY DEF TypeInv, TypeOK, NoLossInv
<1>u. UNCHANGED <<batches, log, jobs>>
  BY DEF Reconcile, ReadTable, ResolvePending, RecordPending, DropPending, Adopt,
         RewriteWatermark, delta
<1>1. CASE ReadTable(r)
  <2> DEFINE locals == [run[r] EXCEPT !.wm = watermark, !.latest = Len(log), !.pc = "resolve"]
  <2>1. run' = [run EXCEPT ![r] = locals] /\ UNCHANGED watermark
    BY <1>1 DEF ReadTable, checkpoint
  <2>2. locals \in RunState /\ locals.pc = "resolve" /\ locals.mode = run[r].mode
        /\ locals.wm = watermark /\ locals.files = run[r].files
    BY <1>0, Lengths DEF RunState, PCs
  <2> HIDE DEF locals
  <2>3. Sound(locals)
    BY <1>0, <2>2 DEF Sound, Processing, NoLossInv
  <2>4. Covered(watermark)'
    BY <1>u, <2>1, UnchangedGrows, WatermarkStaysCovered
  <2>5. QED BY <1>u, <2>1, <2>2, <2>3, <2>4, MoveIsSound
<1>2. CASE ResolvePending(r)
  <2>1. Covered(watermark)'
    BY <1>u, <1>2, UnchangedGrows, WatermarkStaysCovered DEF ResolvePending, checkpoint
  <2>2. CASE Goto(r, "adopt")
    BY <1>u, <2>1, <2>2, GotoIsSound DEF PCs, Processing, HasJob
  <2>3. CASE ~Goto(r, "adopt")
    <3> DEFINE v == IF Applies(pending, run[r].wm)
                      THEN TokenVersion(pending, run[r].latest) ELSE 0
               label == IF v = 0 THEN "dropPending" ELSE "recordPending"
               locals == [run[r] EXCEPT !.batch = pending, !.version = v, !.pc = label]
    <3>1. pending \in 1..Len(batches) /\ run' = [run EXCEPT ![r] = locals]
      <4>1. pending # NoBatch /\ run' = [run EXCEPT ![r].batch = pending, ![r].version = v,
                       ![r].pc = IF v = 0 THEN "dropPending" ELSE "recordPending"]
        BY <1>2, <2>3 DEF ResolvePending
      <4>2. pending \in 1..Len(batches)
        BY <4>1 DEF NoBatch, TypeInv, TypeOK
      <4>3. QED BY <4>1, <4>2
    <3>2. /\ v \in Nat /\ (v # 0 => InLog(pending))
          /\ label \in {"dropPending", "recordPending"} /\ (label = "recordPending" => v # 0)
      <4>1. run[r].latest \in Nat
        BY <1>0 DEF RunState
      <4>2. v \in Nat /\ (v # 0 => InLog(pending))
        BY <3>1, <4>1, TokenVersionFound DEF InLog
      <4>3. QED BY <4>2
    <3>3. pending \in Nat
      BY <3>1, Lengths
    <3> HIDE DEF v, label
    <3>4. locals \in RunState /\ locals.pc = label /\ locals.mode = run[r].mode
          /\ locals.wm = run[r].wm /\ locals.files = run[r].files /\ locals.batch = pending
      BY <1>0, <3>2, <3>3 DEF RunState, PCs
    <3> HIDE DEF locals
    <3>5. Sound(locals)
      BY <1>0, <3>2, <3>4 DEF Sound, Processing
    <3>6. QED BY <1>u, <2>1, <3>1, <3>4, <3>5, MoveIsSound
  <2>4. QED BY <2>2, <2>3
<1>3. CASE RecordPending(r)
  <2> DEFINE b == run[r].batch
             w == NewWatermark(batches[b].files, run[r].wm, run[r].version)
             locals == [run[r] EXCEPT !.wm = w, !.pc = "dropPending"]
  <2>1. b \in 1..Len(batches) /\ InLog(b)
    BY <1>0, <1>3 DEF RecordPending, At, BatchInHand, Sound
  <2>2. run[r].wm \in Watermark /\ run[r].version \in Nat
    BY <1>0 DEF RunState
  <2>3. w \in Watermark /\ Covered(w)
    <3>1. b \in Nat \ {NoBatch} /\ Closed(batches[b].files) /\ batches[b] \in Batch
      BY <2>1, Lengths DEF NoBatch, NoLossInv, BatchesSound
    <3>2. batches[b].files \in SUBSET Files /\ batches[b].files # {}
      <4>1. \A x \in Batch : x.files \in SUBSET Files /\ x.files # {}
        BY DEF Batch
      <4>2. QED BY <3>1, <4>1
    <3>3. \A f \in batches[b].files : Ingested(f)
      BY <2>1, <3>1, BatchInLogIsIngested
    <3> HIDE DEF b
    <3>4. QED BY <2>2, <3>1, <3>2, <3>3, NewWatermarkIsNewest, RecordingCovers
  <2>4. watermark' = w
    BY <1>3 DEF RecordPending, WriteWatermark
  <2> HIDE DEF w
  <2>5. Covered(watermark)'
    BY <1>u, <2>3, <2>4 DEF Covered, Ingested
  <2>6. CASE run' = [run EXCEPT ![r].wm = w, ![r].pc = "dropPending"]
    <3>1. locals \in RunState /\ locals.pc = "dropPending" /\ locals.mode = run[r].mode
          /\ locals.wm = w /\ locals.files = run[r].files
      BY <1>0, <2>3 DEF RunState, PCs
    <3>2. run' = [run EXCEPT ![r] = locals]
      BY <2>6
    <3> HIDE DEF locals
    <3>3. Sound(locals)
      BY <1>0, <2>3, <3>1 DEF Sound, Processing
    <3>4. QED BY <1>u, <2>5, <3>1, <3>2, <3>3, MoveIsSound
  <2>7. CASE End(r, "failed")
    BY <1>u, <2>5, <2>7, EndIsSound DEF Over
  <2>8. QED BY <1>3, <2>6, <2>7 DEF RecordPending, w
<1>4. CASE DropPending(r)
  <2>1. Covered(watermark)'
    BY <1>u, <1>4, UnchangedGrows, WatermarkStaysCovered DEF DropPending
  <2>2. QED BY <1>u, <1>4, <2>1, GotoIsSound DEF DropPending, PCs, Processing, HasJob
<1>5. CASE Adopt(r)
  <2> DEFINE w      == run[r].wm
             latest == run[r].latest
             prefix == IF w = NoWatermark \/ Baseline(w, latest) >= latest
                         THEN {} ELSE AdoptablePrefix(w, latest)
  <2>1. w \in Watermark /\ latest \in Nat /\ Covered(w)
    BY <1>0 DEF RunState, Sound
  <2>2. prefix \in SUBSET Files /\ Closed(prefix) /\ \A f \in prefix : Ingested(f)
    <3> HIDE DEF w, latest
    <3>1. AdoptablePrefix(w, latest) \in SUBSET Files
      BY DEF AdoptablePrefix, Adopted, Unprocessed
    <3>2. Closed(AdoptablePrefix(w, latest))
      BY <2>1, AdoptablePrefixIsClosed
    <3>3. \A f \in AdoptablePrefix(w, latest) : Ingested(f)
      <4>1. AdoptablePrefix(w, latest) \subseteq Adopted(w, latest)
        BY DEF AdoptablePrefix
      <4>2. QED BY <4>1, AdoptedIsIngested
    <3>4. QED BY <3>1, <3>2, <3>3 DEF Closed
  <2>3. \/ AdoptNothing(r, w)
        \/ prefix # {} /\ watermark' = NewWatermark(prefix, w, latest)
    BY <1>5 DEF Adopt, WriteWatermark
  <2>4. Covered(watermark)'
    <3> HIDE DEF prefix, latest
    <3>1. CASE AdoptNothing(r, w)
      BY <1>u, <2>1, <3>1, AdoptNothingIsSound
    <3>2. CASE prefix # {} /\ watermark' = NewWatermark(prefix, w, latest)
      <4> DEFINE u == NewWatermark(prefix, w, latest)
      <4>1. Covered(u)
        BY <2>1, <2>2, <3>2, RecordingCovers
      <4>2. watermark' = u
        BY <3>2
      <4> HIDE DEF u
      <4>3. QED BY <1>u, <4>1, <4>2 DEF Covered, Ingested
    <3>3. QED BY <2>3, <3>1, <3>2
  <2>5. Goto(r, "discover") \/ Goto(r, "rewrite")
    BY <1>5 DEF Adopt
  <2>6. QED BY <1>u, <2>4, <2>5, GotoIsSound DEF PCs, Processing, HasJob
<1>6. CASE RewriteWatermark(r)
  <2>1. Covered(run[r].wm) /\ run[r].wm \in Watermark
    BY <1>0 DEF Sound, RunState
  <2>2. Covered(watermark)'
    BY <1>u, <1>6, <2>1, AdoptNothingIsSound DEF RewriteWatermark
  <2>3. QED BY <1>u, <1>6, <2>2, GotoIsSound DEF RewriteWatermark, PCs, Processing, HasJob
<1>7. QED
  BY <1>1, <1>2, <1>3, <1>4, <1>5, <1>6 DEF Reconcile

(* A new batch: closed, and deleting nothing, because no run is a full      *)
(* refresh.                                                                 *)
LEMMA WritePendingIsSound ==
  ASSUME TypeInv, TypeInv', NoLossInv, NEW r \in Runs, WritePending(r)
  PROVE  NoLossInv'
<1> DEFINE b == [files |-> run[r].files, before |-> run[r].wm,
                 deltaBefore |-> run[r].latest, truncate |-> FirstOfRefresh(r)]
           locals == [run[r] EXCEPT !.batch = Len(batches) + 1, !.resubmits = 0,
                                    !.pc = "submit"]
<1>0. run[r] \in RunState /\ Sound(run[r]) /\ batches \in Seq(Batch) /\ Len(batches) \in Nat
  BY DEF TypeInv, TypeOK, NoLossInv
<1>1. /\ batches' = Append(batches, b) /\ run' = [run EXCEPT ![r] = locals]
      /\ UNCHANGED <<log, jobs, watermark>>
  BY DEF WritePending, delta
<1>2. b.files = run[r].files /\ ~b.truncate
  BY <1>0 DEF Sound, FirstOfRefresh
<1>3. /\ Len(batches') = Len(batches) + 1 /\ batches'[Len(batches) + 1] = b
      /\ \A i \in 1..Len(batches) : batches'[i] = batches[i]
  <2> HIDE DEF b
  <2>1. QED BY <1>0, <1>1
<1>4. run'[r].mode = run[r].mode /\ run'[r].wm = run[r].wm /\ run'[r].files = run[r].files
      /\ run'[r].pc = "submit" /\ run'[r].batch = Len(batches) + 1
      /\ \A q \in Runs \ {r} : run'[q] = run[q]
  BY <1>0, <1>1 DEF RunState, TypeInv, TypeOK
<1> HIDE DEF b, locals
<1>5. Grows
  BY <1>1, <1>3, Lengths DEF Grows
<1>6. Covered(watermark)'
  BY <1>1, <1>5, WatermarkStaysCovered
<1>7. Covered(run[r].wm)' /\ Closed(run[r].files)'
  <2>1. PICK w \in Watermark, fs \in SUBSET Files : w = run[r].wm /\ fs = run[r].files
    BY <1>0 DEF RunState
  <2>2. Covered(w)' /\ Closed(fs)'
    BY <1>0, <1>5, <2>1, UnchangedStaysSound DEF Sound
  <2>3. QED BY <1>4, <2>1, <2>2 DEF Covered, Closed
<1>8. Sound(run[r])'
  BY <1>0, <1>2, <1>3, <1>4, <1>7 DEF Sound, Processing
<1>9. \A q \in Runs : Sound(run[q])'
  BY <1>4, <1>5, <1>8, ProcessesStaySound
<1>10. BatchesSound'
  <2> SUFFICES ASSUME NEW i \in 1..Len(batches')
               PROVE  ~batches'[i].truncate /\ Closed(batches[i].files)'
    BY DEF BatchesSound
  <2>1. CASE i \in 1..Len(batches)
    <3>1. batches'[i] = batches[i] /\ ~batches[i].truncate /\ Closed(batches[i].files)
          /\ batches[i].files \in SUBSET Files
      BY <1>3, <2>1, Lengths DEF NoLossInv, BatchesSound, Batch
    <3>2. PICK fs \in SUBSET Files : fs = batches[i].files
      BY <3>1
    <3>3. Closed(fs)'
      BY <1>5, <3>1, <3>2, UnchangedStaysSound
    <3>4. QED BY <3>1, <3>2, <3>3 DEF Closed
  <2>2. CASE i = Len(batches) + 1
    BY <1>2, <1>3, <1>4, <1>7, <2>2 DEF Closed
  <2>3. QED BY <1>0, <1>3, <2>1, <2>2
<1>11. JobsSound'
  BY <1>1, <1>5, JobsStaySound DEF NoLossInv, JobsSound
<1>12. QED BY <1>6, <1>9, <1>10, <1>11 DEF NoLossInv

(* A new job is not a success yet, and runs the batch in hand.              *)
LEMMA SubmitJobIsSound ==
  ASSUME TypeInv, TypeInv', NoLossInv, NEW r \in Runs, SubmitJob(r)
  PROVE  NoLossInv'
<1> DEFINE job == [batch |-> run[r].batch, run |-> r, state |-> "active"]
           locals == [run[r] EXCEPT !.job = Len(jobs) + 1, !.pc = "recheck"]
<1>0. run[r] \in RunState /\ Sound(run[r]) /\ jobs \in Seq(Job) /\ Len(jobs) \in Nat
      /\ run[r].pc = "put"
  BY DEF TypeInv, TypeOK, NoLossInv, SubmitJob, At
<1>1. /\ jobs' = Append(jobs, job) /\ run' = [run EXCEPT ![r] = locals]
      /\ UNCHANGED <<log, batches, watermark>>
  BY DEF SubmitJob, delta, checkpoint
<1>2. job.state = "active" /\ job.batch = run[r].batch
  OBVIOUS
<1>3. /\ Len(jobs') = Len(jobs) + 1 /\ jobs'[Len(jobs) + 1] = job
      /\ \A i \in 1..Len(jobs) : jobs'[i] = jobs[i]
  <2> HIDE DEF job
  <2>1. QED BY <1>0, <1>1
<1>4. run'[r].mode = run[r].mode /\ run'[r].wm = run[r].wm /\ run'[r].files = run[r].files
      /\ run'[r].pc = "recheck" /\ run'[r].batch = run[r].batch /\ run'[r].job = Len(jobs) + 1
      /\ \A q \in Runs \ {r} : run'[q] = run[q]
  BY <1>0, <1>1 DEF RunState, TypeInv, TypeOK
<1> HIDE DEF job, locals
<1>5. Grows
  BY <1>1, <1>3, Lengths DEF Grows
<1>6. Covered(watermark)' /\ BatchesSound'
  BY <1>1, <1>5, WatermarkStaysCovered, BatchesStaySound
<1>7. JobsSound'
  <2>1. \A j \in 1..Len(jobs') : jobs'[j].state = "succeeded" =>
          j \in 1..Len(jobs) /\ jobs[j].state = "succeeded"
    BY <1>0, <1>2, <1>3
  <2>2. QED BY <1>5, <2>1, JobsStaySound
<1>8. Sound(run[r])'
  <2>1. run'[r].job \in 1..Len(jobs') /\ jobs'[run'[r].job].batch = run'[r].batch
    BY <1>0, <1>2, <1>3, <1>4
  <2>2. run[r].pc \in Processing
    BY <1>0 DEF Processing
  <2>3. UNCHANGED <<log, batches>>
    BY <1>1
  <2>4. QED
    BY <1>0, <1>4, <2>1, <2>2, <2>3 DEF Sound, Covered, Closed, Ingested, Processing
<1>9. \A q \in Runs : Sound(run[q])'
  BY <1>4, <1>5, <1>8, ProcessesStaySound
<1>10. QED BY <1>6, <1>7, <1>9 DEF NoLossInv

(* The job a process waits for runs its batch: if it succeeded, the batch   *)
(* is in the log.                                                           *)
LEMMA SucceededIsInLog ==
  ASSUME TypeInv, NoLossInv, NEW r \in Runs, run[r].pc \in {"wait", "abandoned"},
         JobState(r) = "succeeded"
  PROVE  InLog(run[r].batch)
BY DEF NoLossInv, Sound, JobsSound, JobState

(* The steps of Process that leave the log, the batches, the jobs and the   *)
(* watermark alone.                                                         *)
LEMMA ProcessIsSound ==
  ASSUME DistinctMTimes, TypeInv, TypeInv', NoLossInv, NEW r \in Runs, Process(r)
  PROVE  NoLossInv'
<1>0. run[r] \in RunState /\ Sound(run[r]) /\ BatchInHand(r) /\ watermark \in Watermark
      /\ Covered(watermark)
  BY DEF TypeInv, TypeOK, NoLossInv
<1>c. ASSUME UNCHANGED <<batches, log, jobs, watermark>> PROVE Covered(watermark)'
  BY <1>c, UnchangedGrows, WatermarkStaysCovered
<1> USE DEF At
<1>1. CASE Discover(r)
  <2>1. UNCHANGED <<batches, log, jobs, watermark>>
    BY <1>1 DEF Discover, checkpoint, delta
  <2>2. CASE End(r, "done")
    BY <1>c, <2>1, <2>2, EndIsSound DEF Over
  <2>3. CASE ~End(r, "done")
    <3>1. PICK b \in NextBatches(Unprocessed(watermark)) :
            run' = [run EXCEPT ![r].files = b, ![r].batchNum = @ + 1, ![r].pc = "begin"]
      BY <1>1, <2>3 DEF Discover
    <3> DEFINE locals == [run[r] EXCEPT !.files = b, !.batchNum = @ + 1, !.pc = "begin"]
    <3>2. b \in SUBSET Files /\ Closed(b)
      BY <1>0, DiscoveredBatchIsClosed DEF NextBatches, Unprocessed
    <3>3. locals \in RunState /\ locals.pc = "begin" /\ locals.files = b
          /\ locals.mode = run[r].mode /\ locals.wm = run[r].wm
      <4>1. \A n \in Nat : LET l == [run[r] EXCEPT !.files = b, !.batchNum = n, !.pc = "begin"]
                           IN  l \in RunState /\ l.pc = "begin" /\ l.files = b
                               /\ l.mode = run[r].mode /\ l.wm = run[r].wm
        BY <1>0, <3>2 DEF RunState, PCs
      <4>2. run[r].batchNum + 1 \in Nat
        BY <1>0 DEF RunState
      <4>3. QED BY <4>1, <4>2, Zenon
    <3>4. run' = [run EXCEPT ![r] = locals]
      BY <3>1
    <3> HIDE DEF locals
    <3>5. Sound(locals)
      BY <1>0, <3>2, <3>3 DEF Sound, Processing
    <3>6. QED BY <1>c, <2>1, <3>3, <3>4, <3>5, MoveIsSound
  <2>4. QED BY <2>2, <2>3
<1>2. CASE BeginBatch(r)
  <2>1. UNCHANGED <<batches, log, jobs, watermark>>
    BY <1>2 DEF BeginBatch, checkpoint, delta
  <2> DEFINE locals == [run[r] EXCEPT !.wm = watermark, !.latest = Len(log),
                                      !.pc = "writePending"]
  <2>2. run' = [run EXCEPT ![r] = locals] /\ run[r].pc = "readPosition"
    BY <1>2 DEF BeginBatch
  <2>3. locals \in RunState /\ locals.pc = "writePending" /\ locals.files = run[r].files
        /\ locals.wm = watermark /\ locals.mode = run[r].mode
    BY <1>0, Lengths DEF RunState, PCs
  <2> HIDE DEF locals
  <2>4. Sound(locals)
    BY <1>0, <2>2, <2>3 DEF Sound, Processing
  <2>5. QED BY <1>c, <2>1, <2>2, <2>3, <2>4, MoveIsSound
<1>3. CASE WritePending(r)
  BY <1>3, WritePendingIsSound
<1>4. CASE CheckBeforeSubmit(r)
  <2>1. UNCHANGED <<batches, log, jobs, watermark>>
    BY <1>4 DEF CheckBeforeSubmit, checkpoint, delta
  <2>2. CASE Goto(r, "put")
    BY <1>c, <1>4, <2>1, <2>2, GotoIsSound DEF CheckBeforeSubmit, PCs, Processing, HasJob
  <2>3. CASE End(r, "superseded")
    BY <1>c, <2>1, <2>3, EndIsSound DEF Over
  <2>4. QED BY <1>4, <2>2, <2>3 DEF CheckBeforeSubmit
<1>5. CASE SubmitJob(r)
  BY <1>5, SubmitJobIsSound
<1>6. CASE CheckAfterSubmit(r)
  <2>1. UNCHANGED <<batches, log, jobs, watermark>>
    BY <1>6 DEF CheckAfterSubmit, checkpoint, delta
  <2>2. Goto(r, "wait") \/ Goto(r, "abandon")
    BY <1>6 DEF CheckAfterSubmit
  <2>3. QED
    BY <1>c, <1>6, <2>1, <2>2, GotoIsSound DEF CheckAfterSubmit, PCs, Processing, HasJob
<1>7. CASE JobSucceeded(r)
  <2>1. UNCHANGED <<batches, log, jobs, watermark>>
    BY <1>7 DEF JobSucceeded, checkpoint, delta
  <2>2. InLog(run[r].batch)
    BY <1>7, SucceededIsInLog DEF JobSucceeded
  <2>3. QED
    BY <1>c, <1>7, <2>1, <2>2, GotoIsSound DEF JobSucceeded, PCs, Processing, HasJob
<1>8. CASE JobFailed(r)
  <2>1. UNCHANGED <<batches, log, jobs, watermark>>
    BY <1>8 DEF JobFailed, checkpoint, delta
  <2>2. CASE End(r, "failed")
    BY <1>c, <2>1, <2>2, EndIsSound DEF Over
  <2>3. CASE ~End(r, "failed")
    <3> DEFINE locals == [run[r] EXCEPT !.resubmits = @ + 1, !.pc = "submit"]
    <3>1. run' = [run EXCEPT ![r] = locals] /\ run[r].resubmits < MaxResubmits
          /\ run[r].pc = "wait"
      BY <1>8, <2>3 DEF JobFailed
    <3>2. run[r].resubmits + 1 \in 0..MaxResubmits
      BY <1>0, <3>1, BoundsAssumption DEF RunState
    <3>3. locals \in RunState /\ locals.pc = "submit" /\ locals.files = run[r].files
          /\ locals.mode = run[r].mode /\ locals.wm = run[r].wm /\ locals.batch = run[r].batch
      BY <1>0, <3>2 DEF RunState, PCs
    <3> HIDE DEF locals
    <3>4. Sound(locals)
      BY <1>0, <3>1, <3>3 DEF Sound, Processing
    <3>5. QED BY <1>c, <2>1, <3>1, <3>3, <3>4, MoveIsSound
  <2>4. QED BY <2>2, <2>3
<1>9. CASE GiveUp(r)
  <2>1. UNCHANGED <<batches, log, jobs, watermark>>
    BY <1>9 DEF GiveUp, checkpoint, delta
  <2>2. QED BY <1>c, <1>9, <2>1, GotoIsSound DEF GiveUp, PCs, Processing, HasJob
<1>10. CASE Abandon(r)
  <2>1. UNCHANGED <<batches, log, watermark>> /\ jobs' = Cancelled({run[r].job})
        /\ Goto(r, "abandoned") /\ run[r].pc = "abandon"
    BY <1>10 DEF Abandon, checkpoint, delta
  <2>2. Grows /\ JobsSound'
    BY <2>1, CancellingIsSound
  <2>3. Covered(watermark)' /\ BatchesSound'
    BY <2>1, <2>2, WatermarkStaysCovered, BatchesStaySound
  <2>4. /\ run'[r].mode = run[r].mode /\ run'[r].wm = run[r].wm /\ run'[r].files = run[r].files
        /\ run'[r].pc = "abandoned" /\ run'[r].batch = run[r].batch /\ run'[r].job = run[r].job
        /\ \A q \in Runs \ {r} : run'[q] = run[q]
    BY <1>0, <2>1 DEF Goto, RunState, TypeInv, TypeOK
  <2>5. run[r].job \in 1..Len(jobs') /\ jobs'[run[r].job].batch = run[r].batch
    BY <1>0, <2>1, CancelledType DEF Sound
  <2>6. Sound(run[r])'
    BY <1>0, <2>1, <2>4, <2>5 DEF Sound, Covered, Closed, Ingested, Processing
  <2>7. QED BY <2>2, <2>3, <2>4, <2>6, ProcessesStaySound DEF NoLossInv
<1>11. CASE AbandonedJobEnded(r)
  <2>1. UNCHANGED <<batches, log, jobs, watermark>>
    BY <1>11 DEF AbandonedJobEnded, checkpoint, delta
  <2>2. CASE JobState(r) = "succeeded" /\ Goto(r, "update")
    <3>1. InLog(run[r].batch)
      BY <1>11, <2>2, SucceededIsInLog DEF AbandonedJobEnded
    <3>2. QED
      BY <1>c, <1>11, <2>1, <2>2, <3>1, GotoIsSound
      DEF AbandonedJobEnded, PCs, Processing, HasJob
  <2>3. CASE End(r, "failed")
    BY <1>c, <2>1, <2>3, EndIsSound DEF Over
  <2>4. QED BY <1>11, <2>2, <2>3 DEF AbandonedJobEnded
<1>12. CASE AbandonedJobUnconfirmed(r)
  <2>1. UNCHANGED <<batches, log, jobs, watermark>>
    BY <1>12 DEF AbandonedJobUnconfirmed, checkpoint, delta
  <2>2. QED BY <1>c, <1>12, <2>1, EndIsSound DEF AbandonedJobUnconfirmed, Over
<1>13. CASE UpdateCheckpoint(r)
  <2>1. UNCHANGED <<batches, log, jobs, watermark>>
    BY <1>13 DEF UpdateCheckpoint, checkpoint, delta
  <2> DEFINE locals == [run[r] EXCEPT !.wm = watermark, !.pc = "record"]
  <2>2. run' = [run EXCEPT ![r] = locals] /\ run[r].pc = "readCurrent"
    BY <1>13 DEF UpdateCheckpoint
  <2>3. locals \in RunState /\ locals.pc = "record" /\ locals.files = run[r].files
        /\ locals.mode = run[r].mode /\ locals.wm = watermark /\ locals.batch = run[r].batch
    BY <1>0 DEF RunState, PCs
  <2> HIDE DEF locals
  <2>4. Sound(locals)
    BY <1>0, <2>2, <2>3 DEF Sound, Processing
  <2>5. QED BY <1>c, <2>1, <2>2, <2>3, <2>4, MoveIsSound
<1>14. CASE RecordBatch(r)
  <2>1. UNCHANGED <<batches, log, jobs>> /\ run[r].pc = "record"
    BY <1>14 DEF RecordBatch, delta
  <2>2. PICK version \in CommittedVersions(r) :
          watermark' = NewWatermark(run[r].files, run[r].wm, version)
    BY <1>14 DEF RecordBatch, WriteWatermark
  <2>3. /\ run[r].batch \in 1..Len(batches) /\ batches[run[r].batch].files = run[r].files
        /\ InLog(run[r].batch) /\ run[r].files # {} /\ Closed(run[r].files)
        /\ run[r].files \in SUBSET Files /\ run[r].wm \in Watermark
    BY <1>0, <2>1 DEF Sound, BatchInHand, Processing, RunState
  <2>4. version \in Nat
    <3>1. Len(log) \in Nat
      BY Lengths
    <3>2. TokenVersion(run[r].batch, Len(log)) \in Nat
      BY <2>3, <3>1, TokenVersionFound
    <3>3. QED BY <3>1, <3>2 DEF CommittedVersions
  <2>5. \A f \in run[r].files : Ingested(f)
    BY <2>3, Lengths, BatchInLogIsIngested DEF NoBatch
  <2> DEFINE u == NewWatermark(run[r].files, run[r].wm, version)
  <2>6. Covered(u) /\ watermark' = u
    BY <2>2, <2>3, <2>4, <2>5, RecordingCovers
  <2> HIDE DEF u
  <2>7. Covered(watermark)'
    BY <2>1, <2>6 DEF Covered, Ingested
  <2>8. CASE Goto(r, "finish")
    BY <2>1, <2>7, <2>8, GotoIsSound DEF PCs, Processing, HasJob
  <2>9. CASE End(r, "failed")
    BY <2>1, <2>7, <2>9, EndIsSound DEF Over
  <2>10. QED BY <1>14, <2>8, <2>9 DEF RecordBatch
<1>15. CASE FinishBatch(r)
  <2>1. UNCHANGED <<batches, log, jobs, watermark>>
    BY <1>15 DEF FinishBatch, delta
  <2>2. QED BY <1>c, <1>15, <2>1, GotoIsSound DEF FinishBatch, PCs, Processing, HasJob
<1>16. CASE CheckBeforeBegin(r) \/ CheckBeforeUpdate(r)
  <2>1. UNCHANGED <<batches, log, jobs, watermark>>
    BY <1>16 DEF CheckBeforeBegin, CheckBeforeUpdate, checkpoint, delta
  <2>2. CASE End(r, "superseded")
    BY <1>c, <2>1, <2>2, EndIsSound DEF Over
  <2>3. CASE run[r].pc = "begin" /\ Goto(r, "readPosition")
    BY <1>c, <2>1, <2>3, GotoIsSound DEF PCs, Processing, HasJob
  <2>4. CASE run[r].pc = "update" /\ Goto(r, "readCurrent")
    <3>1. InLog(run[r].batch)
      BY <1>0, <2>4 DEF Sound
    <3>2. QED
      BY <1>c, <2>1, <2>4, <3>1, GotoIsSound DEF PCs, Processing, HasJob
  <2>5. QED BY <1>16, <2>2, <2>3, <2>4 DEF CheckBeforeBegin, CheckBeforeUpdate
<1>17. QED
  BY <1>1, <1>2, <1>3, <1>4, <1>5, <1>6, <1>7, <1>8, <1>9, <1>10, <1>11, <1>12, <1>13,
     <1>14, <1>15, <1>16 DEF Process

(* The services: a commit only adds rows.                                   *)
LEMMA EnvironmentIsSound ==
  ASSUME TypeInv, TypeInv', NoLossInv,
         \/ \E r \in Runs : Crash(r)
         \/ \E j \in DOMAIN jobs : EndJob(j)
         \/ OtherCommit \/ CleanLog \/ Tick \/ Terminated
  PROVE  NoLossInv'
<1>s. ASSUME Grows, UNCHANGED <<batches, watermark, run>>, JobsSound' PROVE NoLossInv'
  <2>1. PICK r \in Runs : TRUE
    BY RunsAssumption DEF Runs
  <2>2. Covered(watermark)' /\ BatchesSound'
    BY <1>s, WatermarkStaysCovered, BatchesStaySound
  <2>3. ASSUME NEW q \in Runs PROVE Sound(run[q])'
    <3>1. PICK l \in RunState : l = run[q]
      BY DEF TypeInv, TypeOK
    <3>2. /\ Sound(l)
          /\ l.pc \in Processing \cup {"recordPending"} => l.batch \in 1..Len(batches)
      BY <3>1 DEF NoLossInv, TypeInv, BatchInHand
    <3>3. Sound(l)'
      BY <1>s, <3>2, UnchangedStaysSound
    <3>4. QED BY <1>s, <3>1, <3>3 DEF Sound
  <2>4. QED BY <1>s, <2>2, <2>3 DEF NoLossInv
<1>0. log \in Seq(0..Len(batches)) /\ jobs \in Seq(Job)
  BY DEF TypeInv, TypeOK
<1>1. ASSUME NEW r \in Runs, Crash(r) PROVE NoLossInv'
  <2>1. UNCHANGED <<batches, log, jobs, watermark>>
    BY <1>1 DEF Crash, checkpoint, delta
  <2>2. Covered(watermark)'
    BY <2>1, UnchangedGrows, WatermarkStaysCovered
  <2>3. QED BY <1>1, <2>1, <2>2, EndIsSound DEF Crash, Over
<1>2. ASSUME NEW j \in DOMAIN jobs, CommitJob(j) PROVE NoLossInv'
  <2>1. /\ log' = Append(log, jobs[j].batch) /\ jobs' = [jobs EXCEPT ![j].state = "succeeded"]
        /\ UNCHANGED <<batches, watermark, run>>
    BY <1>2 DEF CommitJob, checkpoint
  <2>2. /\ Len(jobs') = Len(jobs) /\ j \in 1..Len(jobs)
        /\ \A i \in 1..Len(jobs) : jobs'[i].batch = jobs[i].batch
        /\ \A i \in 1..Len(jobs) : i # j => jobs'[i] = jobs[i]
    BY <1>0, <1>2, <2>1, Lengths DEF Job
  <2>3. /\ Len(log') = Len(log) + 1 /\ log'[Len(log) + 1] = jobs[j].batch
        /\ \A v \in 1..Len(log) : log'[v] = log[v]
    BY <1>0, <2>1, <2>2, Lengths
  <2>4. Grows
    BY <2>1, <2>2, <2>3, Lengths DEF Grows
  <2>5. InLog(jobs[j].batch)'
    <3>1. Len(log) + 1 \in DOMAIN log'
      BY <2>3, Lengths DEF TypeInv, TypeOK
    <3>2. QED BY <2>2, <2>3, <3>1 DEF InLog
  <2>6. JobsSound'
    BY <2>2, <2>4, <2>5, JobsStaySound
  <2>7. QED BY <1>s, <2>1, <2>4, <2>6
<1>3. ASSUME NEW j \in DOMAIN jobs, FailJob(j) PROVE NoLossInv'
  <2>1. jobs' = [jobs EXCEPT ![j].state = "failed"] /\ UNCHANGED <<log, batches, watermark, run>>
    BY <1>3 DEF FailJob, checkpoint, delta
  <2>2. /\ Len(jobs') = Len(jobs) /\ j \in 1..Len(jobs)
        /\ \A i \in 1..Len(jobs) : jobs'[i].batch = jobs[i].batch
        /\ \A i \in 1..Len(jobs) : jobs'[i].state = "succeeded" => jobs[i].state = "succeeded"
    BY <1>0, <1>3, <2>1, Lengths DEF Job
  <2>3. Grows
    BY <2>1, <2>2, Lengths DEF Grows
  <2>4. JobsSound'
    BY <2>2, <2>3, JobsStaySound
  <2>5. QED BY <1>s, <2>1, <2>3, <2>4
<1>4. CASE OtherCommit
  <2>1. log' = Append(log, NoBatch) /\ UNCHANGED <<jobs, batches, watermark, run>>
    BY <1>4 DEF OtherCommit, checkpoint
  <2>2. Len(log') = Len(log) + 1 /\ \A v \in 1..Len(log) : log'[v] = log[v]
    BY <1>0, <2>1, Lengths
  <2>3. Grows
    BY <2>1, <2>2, Lengths DEF Grows
  <2>4. JobsSound'
    BY <2>1, <2>3, JobsStaySound
  <2>5. QED BY <1>s, <2>1, <2>3, <2>4
<1>5. CASE CleanLog \/ Tick \/ Terminated
  <2>1. UNCHANGED <<log, jobs, batches, watermark, run>>
    BY <1>5 DEF CleanLog, Tick, Terminated, vars, checkpoint, delta
  <2>2. Grows
    BY <2>1, UnchangedGrows
  <2>3. JobsSound'
    BY <2>1, <2>2, JobsStaySound
  <2>4. QED BY <1>s, <2>1, <2>2, <2>3
<1>6. QED
  BY <1>1, <1>2, <1>3, <1>4, <1>5 DEF EndJob

-----------------------------------------------------------------------------
LEMMA InitNoLossInv == Init => NoLossInv
<1> SUFFICES ASSUME Init PROVE NoLossInv
  OBVIOUS
<1>1. batches = <<>> /\ jobs = <<>> /\ watermark = NoWatermark
  BY DEF Init
<1>2. ASSUME NEW r \in Runs PROVE Sound(run[r])
  <2>1. run[r] = Idle
    BY DEF Init
  <2>2. Idle = [Idle EXCEPT !.pc = "idle"]
    BY DEF Idle
  <2>3. QED BY <2>1, <2>2, IdleSound
<1>3. QED
  BY <1>1, <1>2, NoWatermarkCovered DEF NoLossInv, BatchesSound, JobsSound

LEMMA StepNoLossInv ==
  ASSUME OnlyIncremental, DistinctMTimes
  PROVE  TypeInv /\ TypeInv' /\ NoLossInv /\ [Next]_vars => NoLossInv'
<1> SUFFICES ASSUME TypeInv, TypeInv', NoLossInv, [Next]_vars PROVE NoLossInv'
  OBVIOUS
<1>1. CASE UNCHANGED vars
  BY <1>1 DEF vars, NoLossInv, Covered, BatchesSound, JobsSound, Sound, Closed, InLog, Ingested
<1>2. CASE \E r \in Runs : RunStep(r)
  BY <1>2, PrepareIsSound, ReconcileIsSound, ProcessIsSound DEF RunStep
<1>3. CASE Next /\ ~\E r \in Runs : RunStep(r)
  BY <1>3, EnvironmentIsSound DEF Next
<1>4. QED BY <1>1, <1>2, <1>3

LEMMA NoLossInvariance ==
  ASSUME OnlyIncremental, DistinctMTimes
  PROVE  Spec => [](TypeInv /\ NoLossInv)
<1>1. TypeInv /\ TypeInv' /\ NoLossInv /\ [Next]_vars => NoLossInv'
  BY StepNoLossInv
<1>2. QED BY InitNoLossInv, TypeInvariance, <1>1, PTL DEF Spec

(* Without full refreshes nothing is ever deleted: what was ingested is in  *)
(* the table.                                                               *)
LEMMA IngestedIsInTable ==
  ASSUME TypeInv, NoLossInv, NEW f \in Files, Ingested(f)
  PROVE  InTable(f)
<1>1. PICK v \in DOMAIN log : log[v] # NoBatch /\ f \in batches[log[v]].files
  BY DEF Ingested
<1>2. \A u \in DOMAIN log : ~Truncates(u)
  <2> SUFFICES ASSUME NEW u \in DOMAIN log, log[u] # NoBatch PROVE ~batches[log[u]].truncate
    BY DEF Truncates
  <2>1. log[u] \in 1..Len(batches)
    BY Lengths DEF NoBatch
  <2>2. QED BY <2>1 DEF NoLossInv, BatchesSound
<1>3. v \in LiveVersions /\ f \in CommittedFiles(v)
  BY <1>1, <1>2 DEF LiveVersions, CommittedFiles
<1>4. QED BY <1>3 DEF InTable

(* No data loss: whatever runs overlap, crash or fail, and wherever, the    *)
(* watermark never passes a file whose rows are not in the table.           *)
THEOREM NothingIsLost ==
  ASSUME OnlyIncremental, DistinctMTimes
  PROVE  Spec => []NoLoss
<1>1. TypeInv /\ NoLossInv => NoLoss
  BY IngestedIsInTable DEF NoLoss, NoLossInv, Covered
<1>2. QED BY NoLossInvariance, <1>1, PTL

LEMMA DoneComesFromDiscover ==
  ASSUME TypeInv, [Next]_vars, NEW r \in Runs, At(r, "discover"), run'[r].pc = "done"
  PROVE  Unprocessed(watermark) = {}
<1>0. run \in [Runs -> RunState]
  BY DEF TypeInv, TypeOK
<1>1. PICK q \in Runs : RunStep(q) \/ Crash(q)
  BY DEF Next, EndJob, CommitJob, FailJob, OtherCommit, CleanLog, Tick, Terminated, vars, At
<1>2. q = r
  <2>1. \A p \in Runs \ {q} : run'[p] = run[p]
    BY <1>0, <1>1 DEF RunStep, Prepare, Start, DeleteWatermark, ClearPending, Claim,
       ListOrphans, Settled, SettleTimeout, Reconcile, ReadTable, ResolvePending,
       RecordPending, DropPending, Adopt, RewriteWatermark, Process, Discover, BeginBatch,
       CheckBeforeBegin, CheckBeforeUpdate, WritePending, CheckBeforeSubmit, SubmitJob, CheckAfterSubmit, JobSucceeded,
       JobFailed, GiveUp, Abandon, AbandonedJobEnded, AbandonedJobUnconfirmed,
       UpdateCheckpoint, RecordBatch, FinishBatch, Crash, Goto, End
  <2>2. QED BY <2>1 DEF At
<1>3. ~Crash(r)
  BY <1>0 DEF Crash, End, Idle
<1>4. ~Prepare(r) /\ ~Reconcile(r)
  BY DEF Prepare, Start, DeleteWatermark, ClearPending, Claim, ListOrphans, Settled,
     SettleTimeout, Reconcile, ReadTable, ResolvePending, RecordPending, DropPending,
     Adopt, RewriteWatermark, At
<1>5. Discover(r)
  BY <1>1, <1>2, <1>3, <1>4 DEF RunStep, Process, BeginBatch, WritePending,
     CheckBeforeBegin, CheckBeforeUpdate, CheckBeforeSubmit, SubmitJob, CheckAfterSubmit, JobSucceeded, JobFailed, GiveUp,
     Abandon, AbandonedJobEnded, AbandonedJobUnconfirmed, UpdateCheckpoint, RecordBatch,
     FinishBatch, At
<1>6. ~\E b \in NextBatches(Unprocessed(watermark)) :
          run' = [run EXCEPT ![r].files = b, ![r].batchNum = @ + 1, ![r].pc = "begin"]
  <2> SUFFICES ASSUME NEW b,
                  run' = [run EXCEPT ![r].files = b, ![r].batchNum = @ + 1, ![r].pc = "begin"]
               PROVE  FALSE
    OBVIOUS
  <2>1. run[r] \in RunState
    BY <1>0
  <2>2. run'[r] = [run[r] EXCEPT !.files = b, !.batchNum = @ + 1, !.pc = "begin"]
    BY <1>0
  <2>3. run'[r].pc = "begin"
    BY <2>1, <2>2, ZenonT(60) DEF RunState
  <2>4. QED BY <2>3
<1>7. QED BY <1>5, <1>6 DEF Discover

(* A run that finds nothing more to do and ends normally leaves nothing     *)
(* eligible behind, even if other runs worked on the table meanwhile.       *)
THEOREM DoneRunsLeaveNothing ==
  ASSUME OnlyIncremental, DistinctMTimes
  PROVE  Spec => DoneMeansIngested
<1> DEFINE Done == \A r \in Runs : At(r, "discover") /\ run'[r].pc = "done" =>
                      \A f \in Files : MTime[f] <= cutoff => InTable(f)
<1>1. ASSUME TypeInv, NoLossInv, [Next]_vars PROVE Done
  <2> SUFFICES ASSUME NEW r \in Runs, At(r, "discover"), run'[r].pc = "done",
                      NEW f \in Files, MTime[f] <= cutoff
               PROVE  InTable(f)
    OBVIOUS
  <2>1. Unprocessed(watermark) = {}
    BY <1>1, DoneComesFromDiscover
  <2>2. MTime[f] <= watermark.modified
    <3>1. MTime[f] \in 1..MaxTime /\ watermark \in Watermark
      BY <1>1, FilesAssumption DEF TypeInv, TypeOK
    <3>2. QED BY <2>1, <3>1, BoundsAssumption DEF Unprocessed, Watermark
  <2>3. QED BY <1>1, <2>2, IngestedIsInTable DEF NoLossInv, Covered
<1>2. TypeInv /\ NoLossInv /\ [Next]_vars => [Done]_vars
  BY <1>1
<1>3. QED BY NoLossInvariance, <1>2, PTL DEF Spec, DoneMeansIngested

-----------------------------------------------------------------------------
(* No file is ingested twice *)

(* The assumptions of the theorems. *)
Undisturbed == Prompt \/ ~Overlap
OrphansListed == "fullPage" \notin Faults
Hypotheses == OnlyIncremental /\ Undisturbed /\ OrphansListed

Live(j) == jobs[j].state \notin Ended
NoLive == \A j \in DOMAIN jobs : ~Live(j)

(* The watermark has passed the files of a version; all files are after it. *)
Passed(v) == \A f \in CommittedFiles(v) : MTime[f] <= watermark.modified
AllPassed == \A v \in DOMAIN log : Passed(v)
Ahead(fs) == \A f \in fs : watermark.modified < MTime[f]

(* Who has claimed the table, and which runs there may be.                  *)
Working == PCs \ ({"idle", "deleteWatermark", "clearPending", "claim"} \cup Over)
Sequential ==
    ~Overlap => \A q, r \in Runs : q < r /\ run[r].pc # "idle" => run[q].pc \in Over
OwnerActs ==
    \A r \in Runs : /\ run[r].pc \in Exposed => owner = r
                    /\ run[r].pc \in Working => owner # NoRun
                    /\ run[r].mode = "incremental"
                    /\ run[r].pc \notin {"deleteWatermark", "clearPending"}
JobsBegun == \A j \in DOMAIN jobs : run[jobs[j].run].pc \notin {"idle", "claim", "listOrphans"}
Places == Sequential /\ OwnerActs /\ JobsBegun

BatchesOK ==
    \A b \in 1..Len(batches) :
        /\ ~batches[b].truncate
        /\ \A f \in batches[b].files : batches[b].before.modified < MTime[f]
        /\ batches[b].deltaBefore <= Len(log)

(* A job that is alive runs the pending batch, which is not in the table    *)
(* and starts from the current watermark.                                   *)
LiveOK ==
    /\ \A i, j \in DOMAIN jobs : Live(i) /\ Live(j) => i = j
    /\ \A j \in DOMAIN jobs : Live(j) =>
           jobs[j].batch = pending /\ Applies(pending, watermark) /\ ~InLog(pending)

(* What the watermark has not passed is the pending batch, the last of ours *)
(* in the log, started from the current watermark.                          *)
LogOK ==
    \A v \in DOMAIN log : ~Passed(v) =>
        /\ log[v] = pending /\ Applies(pending, watermark)
        /\ batches[pending].deltaBefore < v
        /\ \A w \in DOMAIN log : log[w] # NoBatch => w <= v

Disjoint ==
    \A v, w \in DOMAIN log : v # w => CommittedFiles(v) \cap CommittedFiles(w) = {}

(* What the owner of the table knows at each place.                         *)
Alone == {"readTable", "resolve", "recordPending", "dropPending", "adopt", "discover",
          "begin", "readPosition", "writePending", "submit", "put", "update", "readCurrent",
          "record", "finish"}
Clean == {"dropPending", "adopt", "discover", "begin", "readPosition", "writePending", "finish"}
WithJob == {"recheck", "wait", "abandon", "abandoned"}
InBatch == {"submit", "put", "update", "readCurrent", "record"} \cup WithJob

Knows(l) ==
    /\ l.pc # "rewrite"
    /\ l.pc = "settling" => \A j \in DOMAIN jobs : Live(j) => j \in l.orphans
    /\ l.pc \in Alone => NoLive
    /\ l.pc \in Clean => AllPassed
    /\ l.pc \in {"resolve", "recordPending", "dropPending", "adopt", "writePending", "record"} =>
          l.wm = watermark
    /\ l.pc = "resolve" => \A v \in DOMAIN log : ~Passed(v) => v <= l.latest
    /\ l.pc = "recordPending" => l.batch = pending /\ Applies(pending, watermark)
    /\ l.pc \in {"begin", "readPosition", "writePending"} => Ahead(l.files)
    /\ l.pc = "writePending" => l.latest <= Len(log)
    /\ l.pc \in InBatch => /\ l.batch = pending /\ Applies(pending, watermark)
                           /\ l.files = batches[pending].files
    /\ l.pc \in {"submit", "put"} => ~InLog(pending)
    /\ l.pc \in WithJob => /\ l.job \in DOMAIN jobs /\ jobs[l.job].batch = l.batch
                           /\ \A j \in DOMAIN jobs : Live(j) => j = l.job
                           /\ jobs[l.job].state # "succeeded" => ~InLog(pending)

OwnerKnows == \A r \in Runs : owner = r => Knows(run[r])

TableOK == BatchesOK /\ LiveOK /\ LogOK /\ Disjoint

DupInv == Places /\ TableOK /\ OwnerKnows

-----------------------------------------------------------------------------
(* Steps of a process *)

LEMMA Facts ==
  ASSUME TypeInv
  PROVE  /\ Len(batches) \in Nat /\ Len(log) \in Nat /\ Len(jobs) \in Nat
         /\ DOMAIN log = 1..Len(log) /\ DOMAIN jobs = 1..Len(jobs)
         /\ \A v \in 1..Len(log) : log[v] \in 0..Len(batches)
         /\ \A j \in 1..Len(jobs) : jobs[j] \in Job /\ jobs[j].batch \in 1..Len(batches)
         /\ \A b \in 1..Len(batches) : batches[b] \in Batch
         /\ watermark \in Watermark /\ pending \in 0..Len(batches)
         /\ run \in [Runs -> RunState]
BY DEF TypeInv, TypeOK

LEMMA OldTimes ==
  /\ \A f \in Files : MTime[f] \in Nat
  /\ \A w \in Watermark : w.modified \in Nat
BY FilesAssumption, BoundsAssumption DEF Watermark

(* The locals after a jump. *)
LEMMA JumpedLocals ==
  ASSUME NEW l \in RunState, NEW label \in PCs
  PROVE  \E k \in RunState :
            /\ k = [l EXCEPT !.pc = label] /\ k.pc = label /\ k.mode = l.mode
            /\ k.wm = l.wm /\ k.latest = l.latest /\ k.files = l.files
            /\ k.batch = l.batch /\ k.job = l.job /\ k.orphans = l.orphans
<1> DEFINE k == [l EXCEPT !.pc = label]
<1>1. /\ k \in RunState /\ k.pc = label /\ k.mode = l.mode
      /\ k.wm = l.wm /\ k.latest = l.latest /\ k.files = l.files
      /\ k.batch = l.batch /\ k.job = l.job /\ k.orphans = l.orphans
  BY DEF RunState
<1>2. k = [l EXCEPT !.pc = label]
  OBVIOUS
<1> HIDE DEF k
<1>3. QED BY <1>1, <1>2

(* What a process knows hangs on its place alone when it is over.           *)
LEMMA OverKnows ==
  ASSUME NEW label \in Over
  PROVE  \E k \in RunState : /\ k = [Idle EXCEPT !.pc = label] /\ k.pc = label
                            /\ k.mode = "incremental" /\ Knows(k) /\ Knows(k)'
<1>1. label \in PCs
  BY DEF Over, PCs
<1>2. PICK k \in RunState : k = [Idle EXCEPT !.pc = label]
  BY <1>1, IdleType
<1>3. k.pc = label /\ k.mode = "incremental"
  BY <1>2 DEF Idle
<1>4. Knows(k) /\ Knows(k)'
  BY <1>3 DEF Knows, Over, Alone, Clean, WithJob, InBatch
<1>5. QED BY <1>2, <1>3, <1>4

LEMMA KnowsMoves ==
  ASSUME NEW r \in Runs, NEW l \in RunState, run'[r] = l, Knows(l)'
  PROVE  Knows(run[r])'
BY DEF Knows, Ahead

(* Nothing a claim rests on changes. *)
Frame == UNCHANGED <<watermark, pending, batches, log, jobs>>

LEMMA FrameKeepsTable ==
  ASSUME TableOK, Frame
  PROVE  TableOK'
<1>1. BatchesOK'
  BY DEF TableOK, Frame, BatchesOK
<1>2. LiveOK'
  BY DEF TableOK, Frame, LiveOK, Live, Applies, InLog
<1>3. LogOK'
  BY DEF TableOK, Frame, LogOK, Passed, CommittedFiles, Applies
<1>4. Disjoint'
  BY DEF TableOK, Frame, Disjoint, CommittedFiles
<1>5. QED BY <1>1, <1>2, <1>3, <1>4 DEF TableOK

LEMMA FrameKeepsKnows ==
  ASSUME Frame, NEW l \in RunState, Knows(l)
  PROVE  Knows(l)'
BY DEF Frame, Knows, Live, NoLive, InLog, AllPassed, Passed, CommittedFiles, Ahead, Applies

(* A process that has started goes from one place to another.               *)
Onward == PCs \ {"idle", "deleteWatermark", "clearPending", "claim", "listOrphans"}

LEMMA MoveKeepsPlaces ==
  ASSUME TypeInv, Places, NEW r \in Runs, NEW l \in RunState,
         run' = [run EXCEPT ![r] = l], UNCHANGED owner,
         run[r].pc \notin Over \cup {"idle"}, l.pc \in Onward, l.mode = "incremental",
         l.pc \in Exposed => owner = r, l.pc \in Working => owner # NoRun,
         \A j \in DOMAIN jobs' : \/ j \in DOMAIN jobs /\ jobs'[j].run = jobs[j].run
                                \/ jobs'[j].run = r
  PROVE  Places'
<1>1. run'[r] = l /\ \A q \in Runs \ {r} : run'[q] = run[q]
  BY DEF TypeInv, TypeOK
<1>2. Sequential'
  <2> SUFFICES ASSUME ~Overlap, NEW q \in Runs, NEW p \in Runs, q < p, run'[p].pc # "idle"
               PROVE  run'[q].pc \in Over
    BY DEF Sequential
  <2>1. run[p].pc # "idle"
    BY <1>1
  <2>2. run[q].pc \in Over
    BY <2>1 DEF Places, Sequential
  <2>3. QED BY <1>1, <2>2
<1>3. OwnerActs'
  <2> SUFFICES ASSUME NEW q \in Runs
               PROVE  /\ run'[q].pc \in Exposed => owner' = q
                      /\ run'[q].pc \in Working => owner' # NoRun
                      /\ run'[q].mode = "incremental"
                      /\ run'[q].pc \notin {"deleteWatermark", "clearPending"}
    BY DEF OwnerActs
  <2>1. CASE q = r
    BY <1>1, <2>1 DEF Onward
  <2>2. CASE q # r
    BY <1>1, <2>2 DEF Places, OwnerActs
  <2>3. QED BY <2>1, <2>2
<1>4. JobsBegun'
  BY <1>1 DEF Places, JobsBegun, Onward
<1>5. QED BY <1>2, <1>3, <1>4 DEF Places

(* A step of one process.  Only the owner knows anything: when another one  *)
(* moves, what the owner knows must stay true.                              *)
LEMMA MoveStep ==
  ASSUME TypeInv, DupInv, NEW r \in Runs, NEW l \in RunState,
         run' = [run EXCEPT ![r] = l], UNCHANGED owner,
         run[r].pc \notin Over \cup {"idle"}, l.pc \in Onward, l.mode = "incremental",
         l.pc \in Exposed => owner = r, l.pc \in Working => owner # NoRun,
         \A j \in DOMAIN jobs' : \/ j \in DOMAIN jobs /\ jobs'[j].run = jobs[j].run
                                \/ jobs'[j].run = r,
         TableOK', owner = r => Knows(l)',
         owner # r => \A k \in RunState : Knows(k) => Knows(k)'
  PROVE  DupInv'
<1>1. Places'
  BY MoveKeepsPlaces DEF DupInv
<1>2. ASSUME NEW q \in Runs, owner' = q PROVE Knows(run[q])'
  <2>1. run' = [run EXCEPT ![r] = l] /\ run \in [Runs -> RunState]
    BY DEF TypeInv, TypeOK
  <2>2. PICK k \in RunState : run'[q] = k /\ Knows(k)'
    <3>1. CASE q = r
      BY <1>2, <2>1, <3>1
    <3>2. CASE q # r
      <4>1. run'[q] = run[q]
        BY <2>1, <3>2
      <4>2. PICK k \in RunState : k = run[q]
        BY <2>1
      <4>3. Knows(k)
        BY <1>2, <4>2 DEF DupInv, OwnerKnows
      <4>4. QED BY <1>2, <3>2, <4>1, <4>2, <4>3
    <3>3. QED BY <3>1, <3>2
  <2>3. QED BY <2>2, KnowsMoves
<1>3. QED BY <1>1, <1>2 DEF DupInv, OwnerKnows

(* It may touch nothing that is shared. *)
LEMMA LocalStep ==
  ASSUME TypeInv, DupInv, NEW r \in Runs, NEW l \in RunState,
         run' = [run EXCEPT ![r] = l], Frame, UNCHANGED owner,
         run[r].pc \notin Over \cup {"idle"}, l.pc \in Onward, l.mode = "incremental",
         l.pc \in Exposed => owner = r, l.pc \in Working => owner # NoRun,
         owner = r => Knows(l)
  PROVE  DupInv'
<1>1. TableOK' /\ \A k \in RunState : Knows(k) => Knows(k)'
  BY FrameKeepsTable, FrameKeepsKnows DEF DupInv
<1>2. \A j \in DOMAIN jobs' : j \in DOMAIN jobs /\ jobs'[j].run = jobs[j].run
  BY DEF Frame
<1>3. QED BY <1>1, <1>2, MoveStep

(* It may be the owner's, who writes: what then holds is settled case by    *)
(* case.                                                                    *)
LEMMA OwnerStep ==
  ASSUME TypeInv, DupInv, NEW r \in Runs, NEW l \in RunState,
         run' = [run EXCEPT ![r] = l], owner = r, UNCHANGED owner,
         run[r].pc \notin Over \cup {"idle"}, l.pc \in Onward, l.mode = "incremental",
         \A j \in DOMAIN jobs' : \/ j \in DOMAIN jobs /\ jobs'[j].run = jobs[j].run
                                \/ jobs'[j].run = r,
         TableOK', Knows(l)'
  PROVE  DupInv'
<1>1. owner # NoRun
  BY RunsAssumption DEF Runs, NoRun
<1>2. QED BY <1>1, MoveStep

(* A process that ends knows nothing and waits for nobody.                  *)
LEMMA EndStep ==
  ASSUME TypeInv, DupInv, NEW r \in Runs, NEW label \in Over, End(r, label),
         Frame, UNCHANGED owner, run[r].pc \notin Over \cup {"idle"}
  PROVE  DupInv'
<1>1. PICK k \in RunState : /\ k = [Idle EXCEPT !.pc = label] /\ k.pc = label
                            /\ k.mode = "incremental" /\ Knows(k) /\ Knows(k)'
  BY OverKnows
<1>2. k.pc \in Onward /\ k.pc \notin Exposed /\ k.pc \notin Working
  BY <1>1 DEF Over, Onward, PCs, Exposed, Working
<1>3. run' = [run EXCEPT ![r] = k]
  BY <1>1 DEF End
<1>4. QED BY <1>1, <1>2, <1>3, LocalStep

(* A jump, likewise. *)
LEMMA JumpStep ==
  ASSUME TypeInv, DupInv, NEW r \in Runs, NEW label \in Onward, Goto(r, label),
         Frame, UNCHANGED owner, run[r].pc \notin Over \cup {"idle"},
         label \in Exposed => owner = r, label \in Working => owner # NoRun,
         owner = r => \A k \in RunState :
            /\ k.pc = label
            /\ k.wm = run[r].wm /\ k.latest = run[r].latest /\ k.files = run[r].files
            /\ k.batch = run[r].batch /\ k.job = run[r].job /\ k.orphans = run[r].orphans
            => Knows(k)
  PROVE  DupInv'
<1>1. run[r] \in RunState /\ label \in PCs /\ run[r].mode = "incremental"
  BY DEF TypeInv, TypeOK, Onward, DupInv, Places, OwnerActs
<1>2. PICK k \in RunState :
            /\ k = [run[r] EXCEPT !.pc = label] /\ k.pc = label /\ k.mode = run[r].mode
            /\ k.wm = run[r].wm /\ k.latest = run[r].latest /\ k.files = run[r].files
            /\ k.batch = run[r].batch /\ k.job = run[r].job /\ k.orphans = run[r].orphans
  BY <1>1, JumpedLocals
<1>3. run' = [run EXCEPT ![r] = k]
  BY <1>2 DEF Goto
<1>4. owner = r => Knows(k)
  BY <1>2
<1>5. QED BY <1>1, <1>2, <1>3, <1>4, LocalStep

-----------------------------------------------------------------------------
(* Steps of jobs *)

(* Jobs end, or are asked to; none is added and none succeeds.              *)
Ease ==
    /\ UNCHANGED <<watermark, pending, batches, log>>
    /\ DOMAIN jobs' = DOMAIN jobs
    /\ \A j \in DOMAIN jobs :
          /\ jobs'[j].batch = jobs[j].batch /\ jobs'[j].run = jobs[j].run
          /\ jobs'[j].state \notin Ended => jobs[j].state \notin Ended
          /\ jobs'[j].state = "succeeded" <=> jobs[j].state = "succeeded"

LEMMA CancelEases ==
  ASSUME TypeInv, NEW js, jobs' = Cancelled(js), UNCHANGED <<watermark, pending, batches, log>>
  PROVE  Ease
<1>1. DOMAIN jobs' = DOMAIN jobs
  BY DEF Cancelled
<1>2. ASSUME NEW j \in DOMAIN jobs
      PROVE  /\ jobs'[j].batch = jobs[j].batch /\ jobs'[j].run = jobs[j].run
             /\ jobs'[j].state \notin Ended => jobs[j].state \notin Ended
             /\ jobs'[j].state = "succeeded" <=> jobs[j].state = "succeeded"
  <2>1. jobs[j] \in Job
    BY Facts
  <2>2. CASE jobs'[j] = jobs[j]
    BY <2>2
  <2>3. CASE jobs[j].state = "active" /\ jobs'[j] = [jobs[j] EXCEPT !.state = "cancelling"]
    BY <2>1, <2>3 DEF Job, Ended
  <2>4. QED BY <2>2, <2>3 DEF Cancelled
<1>3. QED BY <1>1, <1>2 DEF Ease

LEMMA EaseKeepsTable ==
  ASSUME TableOK, Ease
  PROVE  TableOK'
<1>1. BatchesOK'
  BY DEF TableOK, Ease, BatchesOK
<1>2. LiveOK'
  BY DEF TableOK, Ease, LiveOK, Live, Applies, InLog
<1>3. LogOK'
  BY DEF TableOK, Ease, LogOK, Passed, CommittedFiles, Applies
<1>4. Disjoint'
  BY DEF TableOK, Ease, Disjoint, CommittedFiles
<1>5. QED BY <1>1, <1>2, <1>3, <1>4 DEF TableOK

LEMMA EaseKeepsKnows ==
  ASSUME Ease, NEW l \in RunState, Knows(l)
  PROVE  Knows(l)'
<1>1. /\ NoLive => NoLive'
      /\ AllPassed => AllPassed'
      /\ \A v \in DOMAIN log : Passed(v)' <=> Passed(v)
      /\ InLog(pending)' <=> InLog(pending)
      /\ Applies(pending, watermark)' <=> Applies(pending, watermark)
      /\ Ahead(l.files) => Ahead(l.files)'
  BY DEF Ease, NoLive, Live, AllPassed, Passed, CommittedFiles, InLog, Applies, Ahead
<1>2. l.pc = "settling" => \A j \in DOMAIN jobs' : jobs'[j].state \notin Ended => j \in l.orphans
  BY DEF Ease, Knows, Live
<1>3. l.pc \in WithJob => /\ l.job \in DOMAIN jobs' /\ jobs'[l.job].batch = l.batch
                          /\ \A j \in DOMAIN jobs' : jobs'[j].state \notin Ended => j = l.job
                          /\ jobs'[l.job].state # "succeeded" => ~InLog(pending)
  BY DEF Ease, Knows, Live
<1>4. UNCHANGED <<watermark, pending, batches, log>>
  BY DEF Ease
<1>5. QED BY <1>1, <1>2, <1>3, <1>4 DEF Knows, Live

(* The processes stay where they are while a job eases.                     *)
LEMMA PlacesStay ==
  ASSUME Places, UNCHANGED <<owner, run>>,
         DOMAIN jobs' = DOMAIN jobs, \A j \in DOMAIN jobs : jobs'[j].run = jobs[j].run
  PROVE  Places'
BY DEF Places, Sequential, OwnerActs, JobsBegun

LEMMA KnowsStay ==
  ASSUME TypeInv, OwnerKnows, UNCHANGED <<owner, run>>,
         \A r \in Runs, l \in RunState : run[r] = l /\ owner = r /\ Knows(l) => Knows(l)'
  PROVE  OwnerKnows'
<1> SUFFICES ASSUME NEW r \in Runs, owner = r PROVE Knows(run[r])'
  BY DEF OwnerKnows
<1>1. PICK l \in RunState : l = run[r]
  BY DEF TypeInv, TypeOK
<1>2. Knows(l)'
  BY <1>1 DEF OwnerKnows
<1>3. QED BY <1>1, <1>2, KnowsMoves

LEMMA FailJobKeeps ==
  ASSUME TypeInv, DupInv, NEW j \in DOMAIN jobs, FailJob(j)
  PROVE  DupInv'
<1>1. jobs \in Seq(Job) /\ jobs[j] \in Job /\ jobs[j].state \notin Ended
  BY Facts DEF TypeInv, TypeOK, FailJob, Ended
<1>2. jobs' = [jobs EXCEPT ![j].state = "failed"]
  BY DEF FailJob
<1>3. Ease
  <2>1. ASSUME NEW i \in DOMAIN jobs
        PROVE  /\ jobs'[i].batch = jobs[i].batch /\ jobs'[i].run = jobs[i].run
               /\ jobs'[i].state \notin Ended => jobs[i].state \notin Ended
               /\ jobs'[i].state = "succeeded" <=> jobs[i].state = "succeeded"
    <3>1. jobs[i] \in Job
      BY Facts
    <3>2. CASE i = j
      BY <1>1, <1>2, <3>1, <3>2 DEF Job, Ended
    <3>3. CASE i # j
      BY <1>2, <3>3
    <3>4. QED BY <3>2, <3>3
  <2>2. QED BY <1>2, <2>1 DEF Ease, FailJob, checkpoint, delta
<1>4. UNCHANGED <<owner, run>>
  BY DEF FailJob, checkpoint
<1>5. Places'
  BY <1>3, <1>4, PlacesStay DEF DupInv, Ease
<1>6. OwnerKnows'
  BY <1>3, <1>4, EaseKeepsKnows, KnowsStay DEF DupInv
<1>7. QED BY <1>3, <1>5, <1>6, EaseKeepsTable DEF DupInv

(* The log grows by one version, and what was in it stays.                  *)
LEMMA Appended ==
  ASSUME TypeInv, NEW b \in 0..Len(batches), log' = Append(log, b), UNCHANGED batches
  PROVE  \E new \in Nat :
         /\ new = Len(log) + 1 /\ Len(log') = new
         /\ DOMAIN log' = (DOMAIN log) \cup {new} /\ new \notin DOMAIN log
         /\ \A v \in DOMAIN log : log'[v] = log[v] /\ CommittedFiles(v)' = CommittedFiles(v)
         /\ log'[new] = b
         /\ CommittedFiles(new)' = IF b = NoBatch THEN {} ELSE batches[b].files
<1>1. log \in Seq(0..Len(batches)) /\ Len(log) \in Nat /\ DOMAIN log = 1..Len(log)
  BY DEF TypeInv, TypeOK
<1>2. /\ Len(log') = Len(log) + 1 /\ DOMAIN log' = 1..Len(log')
      /\ \A v \in DOMAIN log : log'[v] = log[v]
      /\ log'[Len(log) + 1] = b
  BY <1>1
<1>3. DOMAIN log' = (DOMAIN log) \cup {Len(log) + 1} /\ Len(log) + 1 \notin DOMAIN log
  BY <1>1, <1>2
<1>4. \A v \in DOMAIN log : CommittedFiles(v)' = CommittedFiles(v)
  BY <1>2 DEF CommittedFiles
<1>5. PICK new \in Nat : new = Len(log) + 1
  BY <1>1
<1>6. CommittedFiles(new)' = IF b = NoBatch THEN {} ELSE batches[b].files
  BY <1>2, <1>5 DEF CommittedFiles
<1>7. QED BY <1>2, <1>3, <1>4, <1>5, <1>6

LEMMA CommitJobKeeps ==
  ASSUME TypeInv, DupInv, NEW j \in DOMAIN jobs, CommitJob(j)
  PROVE  DupInv'
<1>1. /\ Live(j) /\ jobs[j].batch = pending /\ Applies(pending, watermark) /\ ~InLog(pending)
      /\ \A i \in DOMAIN jobs : Live(i) => i = j
  BY DEF CommitJob, Live, DupInv, TableOK, LiveOK
<1>2. /\ pending \in 1..Len(batches) /\ pending # NoBatch
      /\ batches[pending] \in Batch /\ Len(log) \in Nat /\ DOMAIN log = 1..Len(log)
      /\ jobs[j] \in Job
  BY <1>1, Facts DEF NoBatch
<1>3. log' = Append(log, pending) /\ UNCHANGED <<owner, watermark, pending, batches, run>>
  BY <1>1 DEF CommitJob, checkpoint
<1>4. PICK new \in Nat :
         /\ new = Len(log) + 1 /\ Len(log') = new
         /\ DOMAIN log' = (DOMAIN log) \cup {new} /\ new \notin DOMAIN log
         /\ \A v \in DOMAIN log : log'[v] = log[v] /\ CommittedFiles(v)' = CommittedFiles(v)
         /\ log'[new] = pending /\ CommittedFiles(new)' = batches[pending].files
  <2>1. pending \in 0..Len(batches)
    BY Facts
  <2>2. QED BY <1>2, <1>3, <2>1, Appended
<1>5. AllPassed
  BY <1>1 DEF AllPassed, InLog, DupInv, TableOK, LogOK
<1>6. \A v \in DOMAIN log : Passed(v)'
  BY <1>3, <1>4, <1>5 DEF AllPassed, Passed
<1>7. /\ DOMAIN jobs' = DOMAIN jobs
      /\ \A i \in DOMAIN jobs : jobs'[i].batch = jobs[i].batch /\ jobs'[i].run = jobs[i].run
      /\ jobs'[j].state = "succeeded"
      /\ \A i \in DOMAIN jobs : i # j => jobs'[i] = jobs[i]
  BY <1>2 DEF CommitJob, Job
<1>8. NoLive'
  <2> SUFFICES ASSUME NEW i \in DOMAIN jobs, jobs'[i].state \notin Ended PROVE FALSE
    BY <1>7 DEF NoLive, Live
  <2>1. i = j
    BY <1>1, <1>7 DEF Live
  <2>2. QED BY <1>7, <2>1 DEF Ended
<1>9. BatchesOK'
  <2>1. Len(log) <= Len(log') /\ \A b \in 1..Len(batches) : batches[b].deltaBefore \in Nat
    BY <1>2, <1>4, Facts DEF Batch
  <2>2. QED BY <1>2, <1>3, <1>4, <2>1 DEF DupInv, TableOK, BatchesOK
<1>10. LiveOK'
  BY <1>8 DEF NoLive, LiveOK
<1>11. LogOK'
  <2> SUFFICES ASSUME NEW v \in DOMAIN log', ~Passed(v)'
               PROVE  /\ log'[v] = pending' /\ Applies(pending, watermark)'
                      /\ batches'[pending'].deltaBefore < v
                      /\ \A w \in DOMAIN log' : log'[w] # NoBatch => w <= v
    BY DEF LogOK
  <2>1. v = new
    BY <1>4, <1>6
  <2>2. batches[pending].deltaBefore <= Len(log) /\ batches[pending].deltaBefore \in Nat
    BY <1>2 DEF DupInv, TableOK, BatchesOK, Batch
  <2>3. \A w \in DOMAIN log' : w <= v
    BY <1>2, <1>4, <2>1
  <2>4. QED BY <1>1, <1>2, <1>3, <1>4, <2>1, <2>2, <2>3 DEF Applies
<1>12. Disjoint'
  <2>1. ASSUME NEW v \in DOMAIN log PROVE CommittedFiles(v) \cap batches[pending].files = {}
    <3> SUFFICES ASSUME NEW f \in CommittedFiles(v), f \in batches[pending].files PROVE FALSE
      OBVIOUS
    <3>1. MTime[f] <= watermark.modified
      BY <1>5 DEF AllPassed, Passed
    <3>2. watermark.modified < MTime[f]
      BY <1>1, <1>2 DEF DupInv, TableOK, BatchesOK, Applies
    <3>3. MTime[f] \in Nat /\ watermark.modified \in Nat
      BY <1>2, Facts, OldTimes DEF Batch
    <3>4. QED BY <3>1, <3>2, <3>3
  <2> SUFFICES ASSUME NEW v \in DOMAIN log', NEW w \in DOMAIN log', v # w
               PROVE  (CommittedFiles(v) \cap CommittedFiles(w))' = {}
    BY DEF Disjoint
  <2>2. CASE v \in DOMAIN log /\ w \in DOMAIN log
    BY <1>4, <2>2 DEF DupInv, TableOK, Disjoint
  <2>3. CASE v = new /\ w \in DOMAIN log
    BY <1>4, <2>1, <2>3
  <2>4. CASE w = new /\ v \in DOMAIN log
    BY <1>4, <2>1, <2>4
  <2>5. QED BY <1>4, <2>2, <2>3, <2>4
<1>13. OwnerKnows'
  <2>1. ASSUME NEW r \in Runs, NEW l \in RunState, run[r] = l, owner = r, Knows(l)
        PROVE  Knows(l)'
    <3>1. l.pc \notin Alone
      BY <1>1, <2>1 DEF Knows, NoLive
    <3>2. l.pc \in WithJob => l.job = j
      BY <1>1, <2>1 DEF Knows
    <3>3. l.pc \in WithJob =>
             /\ l.job \in DOMAIN jobs' /\ jobs'[l.job].batch = l.batch
             /\ \A i \in DOMAIN jobs' : Live(i)' => i = l.job
             /\ jobs'[l.job].state = "succeeded"
             /\ l.batch = pending /\ Applies(pending, watermark)
             /\ l.files = batches[pending].files
      BY <1>7, <1>8, <2>1, <3>2 DEF Knows, NoLive, InBatch
    <3>4. l.pc \notin Clean \cup {"resolve", "recordPending", "dropPending", "adopt",
                                "readPosition", "writePending", "readCurrent", "record", "begin", "submit", "put", "update"}
      BY <3>1 DEF Alone, Clean
    <3>5. l.pc # "rewrite" /\ \A i \in DOMAIN jobs' : ~Live(i)'
      BY <1>8, <2>1 DEF Knows, NoLive
    <3>6. Applies(pending, watermark)' <=> Applies(pending, watermark)
      BY <1>3 DEF Applies
    <3>7. QED BY <1>3, <3>1, <3>3, <3>4, <3>5, <3>6 DEF Knows, InBatch
  <2>2. QED BY <1>3, <2>1, KnowsStay DEF DupInv
<1>14. Places'
  BY <1>3, <1>7, PlacesStay DEF DupInv
<1>15. QED BY <1>9, <1>10, <1>11, <1>12, <1>13, <1>14 DEF DupInv, TableOK

(* A commit by another engine reads no source file. *)
LEMMA OtherCommitKeeps ==
  ASSUME TypeInv, DupInv, OtherCommit
  PROVE  DupInv'
<1>1. /\ log' = Append(log, NoBatch)
      /\ UNCHANGED <<owner, watermark, pending, batches, jobs, run>>
  BY DEF OtherCommit, checkpoint
<1>2. PICK new \in Nat :
         /\ new = Len(log) + 1 /\ Len(log') = new
         /\ DOMAIN log' = (DOMAIN log) \cup {new} /\ new \notin DOMAIN log
         /\ \A v \in DOMAIN log : log'[v] = log[v] /\ CommittedFiles(v)' = CommittedFiles(v)
         /\ log'[new] = NoBatch /\ CommittedFiles(new)' = {}
  <2>1. NoBatch \in 0..Len(batches)
    BY Facts DEF NoBatch
  <2>2. QED BY <1>1, <2>1, Appended
<1>3. Len(log) \in Nat /\ DOMAIN log = 1..Len(log)
  BY Facts
<1>4. /\ Passed(new)'
      /\ \A v \in DOMAIN log : Passed(v)' <=> Passed(v)
  BY <1>1, <1>2 DEF Passed
<1>5. /\ NoLive' <=> NoLive
      /\ AllPassed => AllPassed'
      /\ Applies(pending, watermark)' <=> Applies(pending, watermark)
      /\ pending # NoBatch => (InLog(pending)' <=> InLog(pending))
  <2>1. AllPassed => AllPassed'
    BY <1>2, <1>4 DEF AllPassed
  <2>2. pending # NoBatch => (InLog(pending)' <=> InLog(pending))
    BY <1>1, <1>2 DEF InLog
  <2>3. QED BY <1>1, <2>1, <2>2 DEF NoLive, Live, Applies
<1>6. BatchesOK'
  <2>1. Len(log) <= Len(log') /\ \A b \in 1..Len(batches) : batches[b].deltaBefore \in Nat
    BY <1>2, <1>3, Facts DEF Batch
  <2>2. QED BY <1>1, <1>2, <1>3, <2>1 DEF DupInv, TableOK, BatchesOK
<1>7. LiveOK'
  <2>1. \A j \in DOMAIN jobs : Live(j) => pending # NoBatch
    BY Facts DEF DupInv, TableOK, LiveOK, NoBatch
  <2>2. QED BY <1>1, <1>5, <2>1 DEF DupInv, TableOK, LiveOK, Live
<1>8. LogOK'
  BY <1>1, <1>2, <1>4, <1>5 DEF DupInv, TableOK, LogOK
<1>9. Disjoint'
  <2> SUFFICES ASSUME NEW v \in DOMAIN log', NEW w \in DOMAIN log', v # w
               PROVE  (CommittedFiles(v) \cap CommittedFiles(w))' = {}
    BY DEF Disjoint
  <2>1. CASE v \in DOMAIN log /\ w \in DOMAIN log
    BY <1>2, <2>1 DEF DupInv, TableOK, Disjoint
  <2>2. CASE v = new \/ w = new
    BY <1>2, <2>2
  <2>3. QED BY <1>2, <2>1, <2>2
<1>10. OwnerKnows'
  <2>1. ASSUME NEW r \in Runs, NEW l \in RunState, run[r] = l, owner = r, Knows(l)
        PROVE  Knows(l)'
    <3>1. l.pc \in InBatch => pending # NoBatch
      <4>1. l.pc \in InBatch => l.batch \in 1..Len(batches) /\ l.batch = pending
        BY <2>1 DEF TypeInv, BatchInHand, Knows, InBatch, WithJob, Processing
      <4>2. QED BY <4>1 DEF NoBatch
    <3>2. /\ l.pc \in {"submit", "put"} => ~InLog(pending)'
          /\ l.pc \in WithJob => /\ l.job \in DOMAIN jobs /\ jobs[l.job].batch = l.batch
                                 /\ \A j \in DOMAIN jobs : Live(j) => j = l.job
                                 /\ jobs[l.job].state # "succeeded" => ~InLog(pending)'
      BY <1>5, <2>1, <3>1 DEF Knows, InBatch
    <3>3. l.pc = "resolve" => \A v \in DOMAIN log' : ~Passed(v)' => v <= l.latest
      BY <1>2, <1>4, <2>1 DEF Knows
    <3>4. l.pc = "writePending" => l.latest <= Len(log')
      <4>1. l.latest \in Nat
        BY DEF RunState
      <4>2. QED BY <1>2, <1>3, <2>1, <4>1 DEF Knows
    <3>5. /\ \A j \in DOMAIN jobs : Live(j)' <=> Live(j)
          /\ Ahead(l.files)' <=> Ahead(l.files)
      BY <1>1 DEF Live, Ahead
    <3>6. QED BY <1>1, <1>5, <2>1, <3>2, <3>3, <3>4, <3>5 DEF Knows
  <2>2. QED BY <1>1, <2>1, KnowsStay DEF DupInv
<1>11. Places'
  BY <1>1, PlacesStay DEF DupInv
<1>12. QED BY <1>6, <1>7, <1>8, <1>9, <1>10, <1>11 DEF DupInv, TableOK

LEMMA ElsewhereKeeps ==
  ASSUME TypeInv, DupInv, CleanLog \/ Tick \/ UNCHANGED vars
  PROVE  DupInv'
<1>1. Frame /\ UNCHANGED <<owner, run>>
  BY DEF CleanLog, Tick, vars, Frame, checkpoint, delta
<1>2. Places'
  BY <1>1, PlacesStay DEF DupInv, Frame
<1>3. OwnerKnows'
  BY <1>1, FrameKeepsKnows, KnowsStay DEF DupInv
<1>4. QED BY <1>1, <1>2, <1>3, FrameKeepsTable DEF DupInv

LEMMA CrashKeeps ==
  ASSUME TypeInv, DupInv, NEW r \in Runs, Crash(r)
  PROVE  DupInv'
<1>1. /\ End(r, "crashed") /\ "crashed" \in Over /\ run[r].pc \notin Over \cup {"idle"}
      /\ Frame /\ UNCHANGED owner
  BY DEF Crash, Over, Frame, checkpoint, delta
<1>2. QED BY <1>1, EndStep

-----------------------------------------------------------------------------
(* Claiming the table and settling what others left *)

LEMMA StartKeeps ==
  ASSUME Hypotheses, TypeInv, DupInv, NEW r \in Runs, Start(r)
  PROVE  DupInv'
<1>1. PICK m \in Modes : run' = [run EXCEPT ![r].mode = m,
            ![r].pc = IF m = "full" THEN "deleteWatermark" ELSE "claim"]
  BY DEF Start
<1>2. m = "incremental" /\ run[r].pc = "idle" /\ run \in [Runs -> RunState]
  BY Facts DEF Hypotheses, OnlyIncremental, Start, At
<1>3. /\ \A q \in Runs \ {r} : run'[q] = run[q]
      /\ run'[r].pc = "claim" /\ run'[r].mode = "incremental" /\ run'[r] \in RunState
  BY <1>1, <1>2 DEF RunState, PCs
<1>4. Frame /\ UNCHANGED owner
  BY DEF Start, Frame, checkpoint, delta
<1>5. Sequential'
  <2> SUFFICES ASSUME ~Overlap, NEW q \in Runs, NEW p \in Runs, q < p, run'[p].pc # "idle"
               PROVE  run'[q].pc \in Over
    BY DEF Sequential
  <2>1. CASE p = r
    <3>1. run[q].pc \in (IF Overlap THEN PCs \ {"idle"} ELSE Over)
      BY <2>1 DEF Start
    <3>2. q # r
      BY <2>1, RunsAssumption DEF Runs
    <3>3. QED BY <1>3, <3>1, <3>2
  <2>2. CASE p # r
    <3>1. run[q].pc \in Over
      BY <1>3, <2>2 DEF DupInv, Places, Sequential
    <3>2. q # r
      BY <1>2, <3>1 DEF Over
    <3>3. QED BY <1>3, <3>1, <3>2
  <2>3. QED BY <2>1, <2>2
<1>6. OwnerActs'
  <2>1. "claim" \notin Exposed \cup Working
    BY DEF Exposed, Working
  <2>2. QED BY <1>3, <1>4, <2>1 DEF DupInv, Places, OwnerActs
<1>7. JobsBegun'
  <2>1. \A j \in DOMAIN jobs : jobs[j].run # r
    BY <1>2 DEF DupInv, Places, JobsBegun
  <2>2. \A j \in DOMAIN jobs : jobs[j].run \in Runs
    BY Facts DEF Job
  <2>3. QED BY <1>3, <1>4, <2>1, <2>2 DEF DupInv, Places, JobsBegun, Frame
<1>8. OwnerKnows'
  <2> SUFFICES ASSUME NEW q \in Runs, owner' = q PROVE Knows(run[q])'
    BY DEF OwnerKnows
  <2>1. PICK l \in RunState : run'[q] = l /\ Knows(l)
    <3>1. CASE q = r
      BY <1>3, <3>1 DEF Knows, Alone, Clean, WithJob, InBatch
    <3>2. CASE q # r
      <4>1. run'[q] = run[q] /\ run[q] \in RunState
        BY <1>2, <1>3, <3>2
      <4>2. QED BY <1>4, <4>1 DEF DupInv, OwnerKnows
    <3>3. QED BY <3>1, <3>2
  <2>2. QED BY <1>4, <2>1, FrameKeepsKnows, KnowsMoves
<1>9. QED BY <1>4, <1>5, <1>6, <1>7, <1>8, FrameKeepsTable DEF DupInv, Places

(* Who loses the table has no check behind him: he acted on it, or is over. *)
LEMMA ClaimFindsNobodyExposed ==
  ASSUME Hypotheses, DupInv, NEW r \in Runs, At(r, "claim"), Prompted(r)
  PROVE  \A q \in Runs \ {r} : run[q].pc \notin Exposed
<1>1. CASE Prompt
  BY <1>1 DEF Prompted
<1>2. CASE ~Overlap
  <2>1. \A q \in Runs \ {r} : run[q].pc \in Over \cup {"idle"}
    BY <1>2 DEF DupInv, Places, Sequential, At, Over, Runs
  <2>2. QED BY <2>1 DEF Over, Exposed
<1>3. QED BY <1>1, <1>2 DEF Hypotheses, Undisturbed

LEMMA ClaimKeeps ==
  ASSUME Hypotheses, TypeInv, DupInv, NEW r \in Runs, Claim(r)
  PROVE  DupInv'
<1>1. /\ run[r].pc = "claim" /\ run[r].mode = "incremental" /\ Frame
      /\ run \in [Runs -> RunState]
  BY Facts DEF Claim, At, Frame, delta, DupInv, Places, OwnerActs
<1>2. \A q \in Runs \ {r} : run[q].pc \notin Exposed
  BY ClaimFindsNobodyExposed DEF Claim
<1>3. CASE owner' = owner /\ End(r, "superseded")
  BY <1>1, <1>3, EndStep DEF Over
<1>4. CASE \/ owner' = r /\ Goto(r, "listOrphans")
           \/ owner' = Unreadable /\ End(r, "crashed")
  <2>1. PICK l \in RunState :
           /\ run'[r] = l /\ \A q \in Runs \ {r} : run'[q] = run[q]
           /\ l.mode = "incremental"
           /\ \/ owner' = r /\ l.pc = "listOrphans"
              \/ owner' = Unreadable /\ l.pc = "crashed"
    <3>1. CASE owner' = r /\ Goto(r, "listOrphans")
      BY <1>1, <3>1 DEF Goto, RunState, PCs
    <3>2. CASE owner' = Unreadable /\ End(r, "crashed")
      <4>1. PICK k \in RunState : /\ k = [Idle EXCEPT !.pc = "crashed"] /\ k.pc = "crashed"
                                  /\ k.mode = "incremental" /\ Knows(k) /\ Knows(k)'
        BY OverKnows DEF Over
      <4>2. QED BY <1>1, <3>2, <4>1 DEF End
    <3>3. QED BY <1>4, <3>1, <3>2
  <2>2. owner' # NoRun
    BY <2>1, RunsAssumption DEF NoRun, Unreadable, Runs
  <2>3. Sequential'
    <3> SUFFICES ASSUME ~Overlap, NEW q \in Runs, NEW p \in Runs, q < p, run'[p].pc # "idle"
                 PROVE  run'[q].pc \in Over
      BY DEF Sequential
    <3>1. run[p].pc # "idle"
      BY <1>1, <2>1
    <3>2. run[q].pc \in Over
      BY <3>1 DEF DupInv, Places, Sequential
    <3>3. q # r
      BY <1>1, <3>2 DEF Over
    <3>4. QED BY <2>1, <3>2, <3>3
  <2>4. OwnerActs'
    <3> SUFFICES ASSUME NEW q \in Runs
                 PROVE  /\ run'[q].pc \in Exposed => owner' = q
                        /\ run'[q].pc \in Working => owner' # NoRun
                        /\ run'[q].mode = "incremental"
                        /\ run'[q].pc \notin {"deleteWatermark", "clearPending"}
      BY DEF OwnerActs
    <3>1. CASE q = r
      BY <2>1, <2>2, <3>1 DEF Exposed
    <3>2. CASE q # r
      BY <1>2, <2>1, <2>2, <3>2 DEF DupInv, Places, OwnerActs
    <3>3. QED BY <3>1, <3>2
  <2>5. JobsBegun'
    <3>1. \A j \in DOMAIN jobs : jobs[j].run # r /\ jobs[j].run \in Runs
      BY <1>1, Facts DEF DupInv, Places, JobsBegun, Job
    <3>2. QED BY <1>1, <2>1, <3>1 DEF DupInv, Places, JobsBegun, Frame
  <2>6. OwnerKnows'
    <3> SUFFICES ASSUME NEW q \in Runs, owner' = q PROVE Knows(run[q])'
      BY DEF OwnerKnows
    <3>1. q = r /\ l.pc = "listOrphans"
      BY <2>1 DEF Runs, Unreadable
    <3>2. Knows(l)'
      BY <3>1 DEF Knows, Alone, Clean, WithJob, InBatch
    <3>3. QED BY <2>1, <3>1, <3>2, KnowsMoves
  <2>7. QED BY <1>1, <2>3, <2>4, <2>5, <2>6, FrameKeepsTable DEF DupInv, Places
<1>5. QED BY <1>3, <1>4 DEF Claim

(* It may ask for the end of jobs. *)
LEMMA EaseStep ==
  ASSUME TypeInv, DupInv, NEW r \in Runs, NEW l \in RunState,
         run' = [run EXCEPT ![r] = l], Ease, UNCHANGED owner,
         run[r].pc \notin Over \cup {"idle"}, l.pc \in Onward, l.mode = "incremental",
         l.pc \in Exposed => owner = r, l.pc \in Working => owner # NoRun,
         owner = r => Knows(l)
  PROVE  DupInv'
<1>1. TableOK' /\ \A k \in RunState : Knows(k) => Knows(k)'
  BY EaseKeepsTable, EaseKeepsKnows DEF DupInv
<1>2. \A j \in DOMAIN jobs' : j \in DOMAIN jobs /\ jobs'[j].run = jobs[j].run
  BY DEF Ease
<1>3. QED BY <1>1, <1>2, MoveStep

LEMMA PrepareKeeps ==
  ASSUME Hypotheses, TypeInv, DupInv, NEW r \in Runs, Prepare(r)
  PROVE  DupInv'
<1>1. CASE Start(r)
  BY <1>1, StartKeeps
<1>2. CASE DeleteWatermark(r) \/ ClearPending(r)
  BY <1>2 DEF DeleteWatermark, ClearPending, At, DupInv, Places, OwnerActs
<1>3. CASE Claim(r)
  BY <1>3, ClaimKeeps
<1>4. CASE ListOrphans(r)
  <2>1. PICK listed \in Listed(r) :
           /\ jobs' = Cancelled(listed)
           /\ run' = [run EXCEPT ![r].orphans = listed, ![r].pc = "settling"]
    BY <1>4 DEF ListOrphans
  <2>2. listed = Orphans(r)
    BY DEF Hypotheses, OrphansListed, Listed, Fault
  <2>3. run[r] \in RunState /\ run[r].mode = "incremental" /\ owner = r
        /\ run[r].pc = "listOrphans" /\ Orphans(r) \in SUBSET Nat
    BY <1>4, Facts DEF ListOrphans, At, DupInv, Places, OwnerActs, Exposed, Orphans
  <2>4. PICK l \in RunState : /\ run' = [run EXCEPT ![r] = l] /\ l.pc = "settling"
                              /\ l.mode = "incremental" /\ l.orphans = Orphans(r)
    <3> DEFINE l == [run[r] EXCEPT !.orphans = Orphans(r), !.pc = "settling"]
    <3>1. l \in RunState /\ l.pc = "settling" /\ l.mode = "incremental"
          /\ l.orphans = Orphans(r)
      BY <2>3 DEF RunState, PCs
    <3>2. run' = [run EXCEPT ![r] = l]
      BY <2>1, <2>2
    <3> HIDE DEF l
    <3>3. QED BY <3>1, <3>2
  <2>5. Ease
    BY <1>4, <2>1, CancelEases DEF ListOrphans, checkpoint, delta
  <2>6. Knows(l)
    <3>1. ASSUME NEW j \in DOMAIN jobs, Live(j) PROVE j \in Orphans(r)
      <4>1. jobs[j].run # r
        BY <2>3 DEF DupInv, Places, JobsBegun
      <4>2. QED BY <3>1, <4>1 DEF Orphans, Live
    <3>2. QED BY <2>4, <3>1 DEF Knows, Alone, Clean, WithJob, InBatch
  <2>7. /\ l.pc \in Onward /\ l.pc \in Working /\ owner # NoRun
        /\ run[r].pc \notin Over \cup {"idle"}
    BY <2>3, <2>4, RunsAssumption DEF Onward, PCs, Working, Over, Runs, NoRun
  <2>8. QED
    <3>1. UNCHANGED owner
      BY <1>4 DEF ListOrphans, checkpoint
    <3>2. QED BY <2>3, <2>4, <2>5, <2>6, <2>7, <3>1, EaseStep
<1>5. CASE Settled(r)
  <2>1. owner = r /\ run[r].pc = "settling" /\ Knows(run[r]) /\ owner # NoRun
    BY <1>5, RunsAssumption
    DEF Settled, At, DupInv, Places, OwnerActs, OwnerKnows, Exposed, Runs, NoRun
  <2>2. NoLive
    BY <1>5, <2>1 DEF Settled, Knows, NoLive, Live
  <2>3. Goto(r, "readTable") /\ Frame /\ UNCHANGED owner
    BY <1>5 DEF Settled, Frame, checkpoint, delta
  <2>4. "readTable" \in Onward /\ run[r].pc \notin Over \cup {"idle"}
    BY <2>1 DEF Onward, PCs, Over
  <2>5. \A k \in RunState : k.pc = "readTable" => Knows(k)
    BY <2>2 DEF Knows, Clean, WithJob, InBatch
  <2>6. QED BY <2>1, <2>3, <2>4, <2>5, JumpStep
<1>6. CASE SettleTimeout(r)
  BY <1>6, EndStep DEF SettleTimeout, At, Over, Frame, checkpoint, delta
<1>7. QED BY <1>1, <1>2, <1>3, <1>4, <1>5, <1>6 DEF Prepare

-----------------------------------------------------------------------------
(* Reconciling, recording and beginning *)

(* _find_token_version finds the batch that the watermark has not passed,   *)
(* if the log that was listed reaches as far, whatever cleanup removed.     *)
LEMMA UncoveredIsFound ==
  ASSUME TypeInv, LogOK, NEW v \in DOMAIN log, ~Passed(v), NEW seen \in Nat, v <= seen
  PROVE  /\ pending = log[v] /\ Applies(pending, watermark)
         /\ TokenVersion(pending, seen) # 0
<1>1. /\ log[v] = pending /\ Applies(pending, watermark)
      /\ batches[pending].deltaBefore < v
      /\ \A w \in DOMAIN log : log[w] # NoBatch => w <= v
  BY DEF LogOK
<1>2. /\ pending # NoBatch /\ v \in Nat /\ v # 0 /\ DOMAIN log \subseteq Nat
      /\ cleaned \in Nat
  BY <1>1, Facts DEF Passed, CommittedFiles, TypeInv, TypeOK
<1>3. batches[pending].deltaBefore \in Nat
  BY <1>2, Facts DEF Batch, NoBatch
<1> DEFINE after == batches[pending].deltaBefore
           hits  == {w \in (after + 1)..seen : w > cleaned /\ w \in DOMAIN log /\ log[w] = pending}
<1>4. CASE hits # {}
  <2>1. hits \in SUBSET Nat /\ 0 \notin hits
    BY <1>3
  <2>2. \E n \in hits : \A w \in hits : n <= w
    <3> HIDE DEF hits
    <3>1. QED BY <1>4, <2>1, LeastExists, Zenon
  <2>3. TokenVersion(pending, seen) \in hits
    BY <1>4, <2>2 DEF TokenVersion
  <2>4. QED BY <1>1, <2>1, <2>3
<1>5. CASE hits = {}
  <2>1. v \in (after + 1)..seen
    BY <1>1, <1>2, <1>3
  <2>2. ~(v > cleaned)
    BY <1>1, <1>5, <2>1
  <2>3. after < seen /\ after < cleaned /\ seen # 0
    BY <1>1, <1>2, <1>3, <2>2
  <2>4. LatestToken = pending
    <3> DEFINE ours == {w \in DOMAIN log : log[w] # NoBatch}
    <3>1. v \in ours /\ \A w \in ours : w <= v
      BY <1>1, <1>2
    <3>2. \A n \in ours : (\A w \in ours : w <= n) => n = v
      BY <1>2, <3>1
    <3>3. (CHOOSE n \in ours : \A w \in ours : w <= n) = v
      BY <3>1, <3>2
    <3>4. LatestToken = log[CHOOSE n \in ours : \A w \in ours : w <= n]
      BY <3>1 DEF LatestToken
    <3>5. QED BY <1>1, <3>3, <3>4
  <2>5. TokenVersion(pending, seen) = seen
    BY <1>5, <2>3, <2>4 DEF TokenVersion
  <2>6. QED BY <1>1, <2>3, <2>5
<1>6. QED BY <1>4, <1>5

(* With no live job and nothing left unpassed, the table is as it should be *)
(* whatever pending.json holds.                                             *)
LEMMA ClearTable ==
  ASSUME NoLive', AllPassed', BatchesOK', Disjoint'
  PROVE  TableOK'
BY DEF TableOK, LiveOK, LogOK, NoLive, AllPassed

(* The position moves on, and moves past everything in the table.           *)
LEMMA RecordedBatch ==
  ASSUME TypeInv, TableOK, NoLive, pending # NoBatch, Applies(pending, watermark),
         NEW fs \in SUBSET Files, fs = batches[pending].files, NEW version \in Nat,
         watermark' = NewWatermark(fs, watermark, version),
         UNCHANGED <<pending, batches, log, jobs>>
  PROVE  /\ watermark.modified < watermark'.modified
         /\ watermark'.batchId = watermark.batchId + 1
         /\ NoLive' /\ AllPassed' /\ TableOK'
<1>1. pending \in 1..Len(batches) /\ watermark \in Watermark
  BY Facts DEF NoBatch
<1>2. fs # {}
  BY <1>1, Facts DEF Batch
<1>3. PICK f \in fs : watermark'.modified = MTime[f]
  BY <1>1, <1>2, NewWatermarkIsNewest
<1>4. /\ watermark' \in Watermark
      /\ \A g \in fs : MTime[g] <= watermark'.modified
  BY <1>1, <1>2, NewWatermarkIsNewest
<1>5. watermark.modified < watermark'.modified
  BY <1>1, <1>3 DEF TableOK, BatchesOK, Applies
<1>6. AllPassed'
  <2> SUFFICES ASSUME NEW v \in DOMAIN log, NEW g \in CommittedFiles(v)
               PROVE  MTime[g] <= watermark'.modified
    BY DEF AllPassed, Passed, CommittedFiles
  <2>1. g \in Files
    BY Facts DEF CommittedFiles, NoBatch, Batch
  <2>2. MTime[g] \in Nat /\ watermark.modified \in Nat /\ watermark'.modified \in Nat
    BY <1>1, <1>4, <2>1, OldTimes
  <2>3. CASE Passed(v)
    BY <1>5, <2>2, <2>3 DEF Passed
  <2>4. CASE ~Passed(v)
    <3>1. log[v] = pending
      BY <2>4 DEF TableOK, LogOK
    <3>2. QED BY <1>4, <3>1 DEF CommittedFiles
  <2>5. QED BY <2>3, <2>4
<1>7. NoLive' /\ BatchesOK' /\ Disjoint'
  BY DEF NoLive, Live, TableOK, BatchesOK, Disjoint, CommittedFiles
<1>8. watermark'.batchId = watermark.batchId + 1
  BY DEF NewWatermark
<1>9. QED BY <1>5, <1>6, <1>7, <1>8, ClearTable

(* When all is passed, pending.json may go or stay.                         *)
LEMMA DroppedPending ==
  ASSUME TypeInv, TableOK, NoLive, AllPassed, UNCHANGED <<watermark, batches, log, jobs>>
  PROVE  NoLive' /\ AllPassed' /\ TableOK'
<1>1. NoLive' /\ AllPassed' /\ BatchesOK' /\ Disjoint'
  BY DEF NoLive, Live, AllPassed, Passed, TableOK, BatchesOK, Disjoint, CommittedFiles
<1>2. QED BY <1>1, ClearTable

(* What the owner of the table is entitled to, at the places below.         *)
LEMMA OwnerAtWork ==
  ASSUME TypeInv, DupInv, NEW r \in Runs, run[r].pc \in Exposed \cup Alone \cup WithJob,
         run[r].pc \in Exposed \/ OwnsTable(r)
  PROVE  /\ owner = r /\ owner # NoRun /\ Knows(run[r]) /\ run[r].mode = "incremental"
         /\ run[r].pc \notin Over \cup {"idle"} /\ TableOK
<1>1. run[r].pc \in Working /\ run[r].pc \notin Over \cup {"idle"}
  BY DEF Working, PCs, Exposed, Alone, WithJob, Over
<1>2. owner # NoRun
  BY <1>1 DEF DupInv, Places, OwnerActs
<1>3. owner = r
  BY <1>2 DEF OwnsTable, DupInv, Places, OwnerActs
<1>4. QED BY <1>1, <1>2, <1>3 DEF DupInv, Places, OwnerActs, OwnerKnows

StaysOrAdvances ==
    \/ /\ watermark'.batchId = watermark.batchId
       /\ watermark'.modified = watermark.modified
    \/ /\ watermark'.batchId = watermark.batchId + 1
       /\ watermark'.modified > watermark.modified

LEMMA ResolvePendingKeeps ==
  ASSUME TypeInv, DupInv, NEW r \in Runs, ResolvePending(r)
  PROVE  DupInv'
<1>1. /\ owner = r /\ owner # NoRun /\ Knows(run[r]) /\ run[r].mode = "incremental"
      /\ run[r].pc \notin Over \cup {"idle"} /\ TableOK
  BY OwnerAtWork DEF ResolvePending, At, Exposed
<1>2. /\ NoLive /\ run[r].wm = watermark /\ run[r] \in RunState
      /\ \A v \in DOMAIN log : ~Passed(v) => v <= run[r].latest
  BY <1>1, Facts DEF ResolvePending, At, Knows, Alone
<1>3. Frame /\ UNCHANGED owner
  BY DEF ResolvePending, Frame, checkpoint, delta
<1>4. CASE pending = NoBatch /\ Goto(r, "adopt")
  <2>1. AllPassed
    <3> SUFFICES ASSUME NEW v \in DOMAIN log, ~Passed(v) PROVE FALSE
      BY DEF AllPassed
    <3>1. log[v] = NoBatch
      BY <1>1, <1>4 DEF TableOK, LogOK
    <3>2. QED BY <3>1 DEF Passed, CommittedFiles
  <2>2. \A k \in RunState : k.pc = "adopt" /\ k.wm = run[r].wm => Knows(k)
    BY <1>2, <2>1 DEF Knows, WithJob, InBatch
  <2>3. QED BY <1>1, <1>3, <1>4, <2>2, JumpStep DEF Onward, PCs
<1>5. CASE pending # NoBatch
  <2> DEFINE v == IF Applies(pending, run[r].wm)
                    THEN TokenVersion(pending, run[r].latest) ELSE 0
             label == IF v = 0 THEN "dropPending" ELSE "recordPending"
             l == [run[r] EXCEPT !.batch = pending, !.version = v, !.pc = label]
  <2>1. run' = [run EXCEPT ![r] = l]
    BY <1>5 DEF ResolvePending
  <2>2. pending \in 1..Len(batches) /\ pending \in Nat /\ run[r].latest \in Nat
    BY <1>2, <1>5, Facts DEF NoBatch, RunState
  <2>3. v \in Nat
    BY <2>2, TokenVersionFound
  <2>4. v # 0 => Applies(pending, watermark)
    BY <1>2
  <2>5. v = 0 => AllPassed
    <3> SUFFICES ASSUME NEW n \in DOMAIN log, ~Passed(n), v = 0 PROVE FALSE
      BY DEF AllPassed
    <3>1. Applies(pending, watermark) /\ TokenVersion(pending, run[r].latest) # 0
      BY <1>1, <1>2, <2>2, UncoveredIsFound DEF TableOK
    <3>2. QED BY <1>2, <3>1
  <2>6. label \in {"dropPending", "recordPending"} /\ (label = "dropPending" => v = 0)
    OBVIOUS
  <2> HIDE DEF v, label
  <2>7. /\ l \in RunState /\ l.pc = label /\ l.batch = pending
        /\ l.wm = run[r].wm /\ l.mode = run[r].mode
    BY <1>2, <2>2, <2>3, <2>6 DEF RunState, PCs
  <2> HIDE DEF l
  <2>8. Knows(l)
    <3>1. l.pc = "dropPending" => AllPassed
      BY <2>5, <2>6, <2>7
    <3>2. l.pc = "recordPending" => Applies(pending, watermark)
      BY <2>4, <2>6, <2>7 DEF label
    <3>3. QED BY <1>2, <2>6, <2>7, <3>1, <3>2 DEF Knows, Clean, WithJob, InBatch
  <2>9. l.pc \in Onward
    BY <2>6, <2>7 DEF Onward, PCs
  <2>10. QED BY <1>1, <1>3, <2>1, <2>7, <2>8, <2>9, LocalStep
<1>6. QED BY <1>4, <1>5 DEF ResolvePending

LEMMA RecordPendingKeeps ==
  ASSUME TypeInv, DupInv, NEW r \in Runs, RecordPending(r)
  PROVE  DupInv' /\ StaysOrAdvances
<1>1. /\ owner = r /\ owner # NoRun /\ Knows(run[r]) /\ run[r].mode = "incremental"
      /\ run[r].pc \notin Over \cup {"idle"} /\ TableOK /\ run[r].pc = "recordPending"
  BY OwnerAtWork DEF RecordPending, At, Exposed
<1>2. /\ NoLive /\ run[r].wm = watermark /\ run[r] \in RunState
      /\ run[r].batch = pending /\ Applies(pending, watermark)
  BY <1>1, Facts DEF Knows, Alone
<1>3. pending \in 1..Len(batches) /\ pending # NoBatch
  BY <1>1, <1>2 DEF TypeInv, BatchInHand, NoBatch
<1>4. PICK fs \in SUBSET Files : fs = batches[pending].files
  BY <1>3, Facts DEF Batch
<1>5. PICK version \in Nat : version = run[r].version
  BY <1>2 DEF RunState
<1>6. /\ watermark' = NewWatermark(fs, watermark, version)
      /\ UNCHANGED <<owner, pending, batches, log, jobs>>
  BY <1>2, <1>4, <1>5 DEF RecordPending, WriteWatermark, delta
<1>7. /\ watermark.modified < watermark'.modified
      /\ watermark'.batchId = watermark.batchId + 1
      /\ NoLive' /\ AllPassed' /\ TableOK'
  BY <1>1, <1>2, <1>3, <1>4, <1>6, RecordedBatch
<1>8. PICK w \in Watermark : w = watermark'
  <2>1. fs # {} /\ watermark \in Watermark
    BY <1>3, <1>4, Facts DEF Batch
  <2>2. QED BY <1>6, <2>1, NewWatermarkIsNewest
<1>9. \E l \in RunState : /\ run' = [run EXCEPT ![r] = l] /\ l.pc \in Onward
                          /\ l.mode = "incremental" /\ Knows(l)'
  <2>1. CASE End(r, "failed")
    <3>1. PICK k \in RunState : /\ k = [Idle EXCEPT !.pc = "failed"] /\ k.pc = "failed"
                                /\ k.mode = "incremental" /\ Knows(k) /\ Knows(k)'
      BY OverKnows DEF Over
    <3>2. QED BY <2>1, <3>1 DEF End, Onward, PCs
  <2>2. CASE ~End(r, "failed")
    <3> DEFINE l == [run[r] EXCEPT !.wm = w, !.pc = "dropPending"]
    <3>1. run' = [run EXCEPT ![r] = l]
      BY <1>2, <1>4, <1>5, <1>6, <1>8, <2>2 DEF RecordPending
    <3>2. l \in RunState /\ l.pc = "dropPending" /\ l.mode = "incremental" /\ l.wm = w
      BY <1>1, <1>2 DEF RunState, PCs
    <3>3. PICK k \in RunState : k = l
      BY <3>2
    <3> HIDE DEF l
    <3>4. Knows(k)'
      BY <1>7, <1>8, <3>2, <3>3 DEF Knows, WithJob, InBatch
    <3>5. "dropPending" \in Onward
      BY DEF Onward, PCs
    <3>6. QED BY <3>1, <3>2, <3>3, <3>4, <3>5
  <2>3. QED BY <2>1, <2>2
<1>10. DupInv'
  <2>1. PICK l \in RunState : /\ run' = [run EXCEPT ![r] = l] /\ l.pc \in Onward
                              /\ l.mode = "incremental" /\ Knows(l)'
    BY <1>9
  <2>2. QED BY <1>1, <1>6, <1>7, <2>1, OwnerStep
<1>11. watermark'.modified > watermark.modified
  <2>1. watermark.modified \in Nat /\ w.modified \in Nat
    BY Facts, OldTimes
  <2>2. QED BY <1>7, <1>8, <2>1
<1>12. QED BY <1>7, <1>10, <1>11 DEF StaysOrAdvances

(* The owner goes on once everything is passed. *)
LEMMA ClearJump ==
  ASSUME TypeInv, DupInv, NEW r \in Runs, owner = r, UNCHANGED <<owner, jobs>>,
         run[r].pc \notin Over \cup {"idle"}, run[r].mode = "incremental",
         NEW label \in {"adopt", "discover", "finish"}, Goto(r, label),
         TableOK', NoLive', AllPassed', label = "adopt" => run[r].wm = watermark'
  PROVE  DupInv'
<1>1. label \in Onward /\ label \in PCs
  BY DEF Onward, PCs
<1>2. run[r] \in RunState
  BY Facts
<1>3. PICK k \in RunState :
            /\ k = [run[r] EXCEPT !.pc = label] /\ k.pc = label /\ k.mode = run[r].mode
            /\ k.wm = run[r].wm /\ k.latest = run[r].latest /\ k.files = run[r].files
            /\ k.batch = run[r].batch /\ k.job = run[r].job /\ k.orphans = run[r].orphans
  BY <1>1, <1>2, JumpedLocals
<1>4. run' = [run EXCEPT ![r] = k]
  BY <1>3 DEF Goto
<1>5. Knows(k)'
  BY <1>3 DEF Knows, WithJob, InBatch
<1>6. QED BY <1>1, <1>3, <1>4, <1>5, OwnerStep

LEMMA AdoptKeeps ==
  ASSUME TypeInv, DupInv, NEW r \in Runs, Adopt(r)
  PROVE  DupInv' /\ StaysOrAdvances
<1>1. /\ owner = r /\ owner # NoRun /\ Knows(run[r]) /\ run[r].mode = "incremental"
      /\ run[r].pc \notin Over \cup {"idle"} /\ TableOK /\ run[r].pc = "adopt"
  BY OwnerAtWork DEF Adopt, At, Exposed
<1>2. /\ NoLive /\ AllPassed /\ run[r].wm = watermark /\ run[r] \in RunState
  BY <1>1, Facts DEF Knows, Alone, Clean
<1> DEFINE w      == run[r].wm
           latest == run[r].latest
           prefix == IF w = NoWatermark \/ Baseline(w, latest) >= latest
                       THEN {} ELSE AdoptablePrefix(w, latest)
<1>3. prefix = {}
  <2>1. ASSUME NEW f \in Adopted(w, latest) PROVE FALSE
    <3>1. PICK v \in DOMAIN log : f \in CommittedFiles(v)
      BY <2>1 DEF Adopted
    <3>2. MTime[f] <= watermark.modified
      BY <1>2, <3>1 DEF AllPassed, Passed
    <3>3. f \in Files /\ watermark.modified < MTime[f]
      BY <1>2, <2>1 DEF Adopted, Unprocessed
    <3>4. QED BY <3>2, <3>3, Facts, OldTimes
  <2>2. QED BY <2>1 DEF AdoptablePrefix
<1>4. AdoptNothing(r, w) /\ Goto(r, "discover")
  BY <1>3 DEF Adopt
<1>5. UNCHANGED <<owner, pending, batches, log, jobs>>
  BY DEF Adopt, delta
<1>6. watermark'.batchId = watermark.batchId /\ watermark'.modified = watermark.modified
  BY <1>2, <1>4, Facts DEF AdoptNothing, WriteWatermark, Watermark
<1>7. NoLive' /\ AllPassed' /\ BatchesOK' /\ Disjoint'
  <2>1. AllPassed'
    BY <1>2, <1>5, <1>6 DEF AllPassed, Passed, CommittedFiles
  <2>2. QED BY <1>1, <1>2, <1>5, <2>1
        DEF NoLive, Live, TableOK, BatchesOK, Disjoint, CommittedFiles
<1>8. DupInv'
  BY <1>1, <1>4, <1>5, <1>7, ClearTable, ClearJump
<1>9. QED BY <1>6, <1>8 DEF StaysOrAdvances

LEMMA ReconcileKeeps ==
  ASSUME TypeInv, DupInv, NEW r \in Runs, Reconcile(r)
  PROVE  DupInv' /\ StaysOrAdvances
<1> USE DEF At
<1>1. CASE ReadTable(r)
  <2>1. /\ owner = r /\ owner # NoRun /\ Knows(run[r]) /\ run[r].mode = "incremental"
        /\ run[r].pc \notin Over \cup {"idle"} /\ TableOK /\ run[r].pc = "readTable"
    BY <1>1, OwnerAtWork DEF ReadTable, Exposed
  <2>2. NoLive /\ run[r] \in RunState
    BY <2>1, Facts DEF Knows, Alone
  <2> DEFINE l == [run[r] EXCEPT !.wm = watermark, !.latest = Len(log), !.pc = "resolve"]
  <2>3. /\ l \in RunState /\ l.pc = "resolve" /\ l.wm = watermark /\ l.latest = Len(log)
        /\ l.mode = "incremental"
    BY <2>1, <2>2, Facts DEF RunState, PCs
  <2>4. run' = [run EXCEPT ![r] = l]
    BY <1>1 DEF ReadTable
  <2> HIDE DEF l
  <2>5. Knows(l)
    <3>1. \A v \in DOMAIN log : v <= Len(log)
      BY Facts
    <3>2. QED BY <2>2, <2>3, <3>1 DEF Knows, Clean, WithJob, InBatch
  <2>6. l.pc \in Onward /\ Frame /\ UNCHANGED owner
    BY <1>1, <2>3 DEF Onward, PCs, ReadTable, Frame, checkpoint, delta
  <2>7. DupInv'
    BY <2>1, <2>3, <2>4, <2>5, <2>6, LocalStep
  <2>8. QED BY <2>6, <2>7 DEF StaysOrAdvances, Frame
<1>2. CASE ResolvePending(r)
  BY <1>2, ResolvePendingKeeps DEF ResolvePending, checkpoint, StaysOrAdvances
<1>3. CASE RecordPending(r)
  BY <1>3, RecordPendingKeeps
<1>4. CASE DropPending(r)
  <2>1. /\ owner = r /\ owner # NoRun /\ Knows(run[r]) /\ run[r].mode = "incremental"
        /\ run[r].pc \notin Over \cup {"idle"} /\ TableOK /\ run[r].pc = "dropPending"
    BY <1>4, OwnerAtWork DEF DropPending, Exposed
  <2>2. NoLive /\ AllPassed /\ run[r].wm = watermark
    BY <2>1 DEF Knows, Alone, Clean
  <2>3. Goto(r, "adopt") /\ UNCHANGED <<owner, watermark, batches, log, jobs>>
    BY <1>4 DEF DropPending, delta
  <2>4. NoLive' /\ AllPassed' /\ TableOK'
    BY <2>1, <2>2, <2>3, DroppedPending
  <2>5. QED BY <2>1, <2>2, <2>3, <2>4, ClearJump DEF StaysOrAdvances
<1>5. CASE Adopt(r)
  BY <1>5, AdoptKeeps
<1>6. CASE RewriteWatermark(r)
  BY <1>6, OwnerAtWork DEF RewriteWatermark, Exposed, Knows
<1>7. QED BY <1>1, <1>2, <1>3, <1>4, <1>5, <1>6 DEF Reconcile

(* A new batch starts after everything in the table. *)
LEMMA WritePendingKeeps ==
  ASSUME TypeInv, TypeInv', DupInv, NEW r \in Runs, WritePending(r)
  PROVE  DupInv'
<1>1. /\ owner = r /\ owner # NoRun /\ Knows(run[r]) /\ run[r].mode = "incremental"
      /\ run[r].pc \notin Over \cup {"idle"} /\ TableOK /\ run[r].pc = "writePending"
  BY OwnerAtWork DEF WritePending, At, Exposed
<1>2. /\ NoLive /\ AllPassed /\ run[r].wm = watermark /\ Ahead(run[r].files)
      /\ run[r].latest <= Len(log) /\ run[r] \in RunState
  BY <1>1, Facts DEF Knows, Alone, Clean
<1> DEFINE b == [files |-> run[r].files, before |-> run[r].wm,
                 deltaBefore |-> run[r].latest, truncate |-> FirstOfRefresh(r)]
<1>3. /\ batches' = Append(batches, b) /\ pending' = Len(batches) + 1
      /\ run' = [run EXCEPT ![r].batch = Len(batches) + 1, ![r].resubmits = 0,
                            ![r].pc = "submit"]
      /\ UNCHANGED <<owner, watermark, log, jobs>>
  BY DEF WritePending, delta
<1>4. /\ ~b.truncate /\ b.files = run[r].files /\ b.before = watermark
      /\ b.deltaBefore <= Len(log) /\ \A f \in b.files : watermark.modified < MTime[f]
  BY <1>1, <1>2 DEF FirstOfRefresh, Ahead
<1> HIDE DEF b
<1>5. batches \in Seq(Batch) /\ Len(batches) \in Nat
  BY DEF TypeInv, TypeOK
<1>6. PICK new \in Nat : new = Len(batches) + 1
  BY <1>5
<1>7. /\ Len(batches') = new /\ batches'[new] = b /\ pending' = new
      /\ \A n \in 1..Len(batches) : batches'[n] = batches[n]
      /\ 1..Len(batches') = (1..Len(batches)) \cup {new}
  BY <1>3, <1>5, <1>6
<1>8. BatchesOK'
  BY <1>1, <1>3, <1>4, <1>7 DEF TableOK, BatchesOK
<1>9. \A v \in DOMAIN log : CommittedFiles(v)' = CommittedFiles(v) /\ log[v] # new
  BY <1>3, <1>6, <1>7, Facts DEF CommittedFiles, NoBatch
<1>10. NoLive' /\ AllPassed' /\ Disjoint' /\ ~InLog(pending)'
  <2>1. NoLive'
    BY <1>2, <1>3 DEF NoLive, Live
  <2>2. AllPassed'
    BY <1>2, <1>3, <1>9 DEF AllPassed, Passed
  <2>3. Disjoint'
    BY <1>1, <1>3, <1>9 DEF TableOK, Disjoint
  <2>4. ~InLog(pending)'
    BY <1>3, <1>7, <1>9 DEF InLog
  <2>5. QED BY <2>1, <2>2, <2>3, <2>4
<1>11. PICK l \in RunState : /\ run' = [run EXCEPT ![r] = l] /\ l.pc = "submit"
                             /\ l.mode = "incremental" /\ l.batch = new
                             /\ l.files = run[r].files
  <2> DEFINE l == [run[r] EXCEPT !.batch = new, !.resubmits = 0, !.pc = "submit"]
  <2>1. /\ l \in RunState /\ l.pc = "submit" /\ l.mode = "incremental" /\ l.batch = new
        /\ l.files = run[r].files
    <3>1. 0 \in 0..MaxResubmits
      BY BoundsAssumption
    <3>2. QED BY <1>1, <1>2, <3>1, ZenonT(60) DEF RunState, PCs
  <2>2. run' = [run EXCEPT ![r] = l]
    BY <1>3, <1>6
  <2> HIDE DEF l
  <2>3. QED BY <2>1, <2>2
<1>12. Knows(l)'
  <2>1. Applies(pending, watermark)' /\ l.files = batches'[pending'].files
    BY <1>3, <1>4, <1>7, <1>11 DEF Applies
  <2>2. QED BY <1>7, <1>10, <1>11, <2>1 DEF Knows, Clean, WithJob, InBatch
<1>13. TableOK'
  BY <1>8, <1>10, ClearTable
<1>14. l.pc \in Onward
  BY <1>11 DEF Onward, PCs
<1>15. QED BY <1>1, <1>3, <1>11, <1>12, <1>13, <1>14, OwnerStep

LEMMA SubmitJobKeeps ==
  ASSUME TypeInv, DupInv, NEW r \in Runs, SubmitJob(r)
  PROVE  DupInv'
<1>1. /\ owner = r /\ owner # NoRun /\ Knows(run[r]) /\ run[r].mode = "incremental"
      /\ run[r].pc \notin Over \cup {"idle"} /\ TableOK /\ run[r].pc = "put"
  BY OwnerAtWork DEF SubmitJob, At, Exposed
<1>2. /\ NoLive /\ run[r].batch = pending /\ Applies(pending, watermark)
      /\ run[r].files = batches[pending].files /\ ~InLog(pending)
      /\ run[r] \in RunState
  BY <1>1, Facts DEF Knows, Alone, InBatch
<1>3. /\ jobs' = Append(jobs, [batch |-> run[r].batch, run |-> r, state |-> "active"])
      /\ run' = [run EXCEPT ![r].job = Len(jobs) + 1, ![r].pc = "recheck"]
      /\ UNCHANGED <<owner, watermark, pending, batches, log>>
  BY DEF SubmitJob, checkpoint, delta
<1>4. jobs \in Seq(Job) /\ Len(jobs) \in Nat
  BY DEF TypeInv, TypeOK
<1>5. PICK new \in Nat : new = Len(jobs) + 1
  BY <1>4
<1>6. /\ DOMAIN jobs' = (DOMAIN jobs) \cup {new}
      /\ \A j \in DOMAIN jobs : jobs'[j] = jobs[j]
      /\ jobs'[new] = [batch |-> run[r].batch, run |-> r, state |-> "active"]
  BY <1>3, <1>4, <1>5
<1>7. \A j \in DOMAIN jobs' : jobs'[j].state \notin Ended => j = new
  BY <1>2, <1>6 DEF NoLive, Live
<1>8. TableOK'
  <2>1. LiveOK'
    BY <1>2, <1>3, <1>6, <1>7 DEF LiveOK, Live, Applies, InLog
  <2>2. LogOK'
    BY <1>1, <1>3 DEF TableOK, LogOK, Passed, CommittedFiles, Applies
  <2>3. BatchesOK' /\ Disjoint'
    BY <1>1, <1>3 DEF TableOK, BatchesOK, Disjoint, CommittedFiles
  <2>4. QED BY <2>1, <2>2, <2>3 DEF TableOK
<1>9. PICK l \in RunState : /\ run' = [run EXCEPT ![r] = l] /\ l.pc = "recheck"
                            /\ l.mode = "incremental" /\ l.batch = run[r].batch
                            /\ l.files = run[r].files /\ l.job = new
  <2> DEFINE l == [run[r] EXCEPT !.job = new, !.pc = "recheck"]
  <2>1. /\ l \in RunState /\ l.pc = "recheck" /\ l.mode = "incremental"
        /\ l.batch = run[r].batch /\ l.files = run[r].files /\ l.job = new
    BY <1>1, <1>2 DEF RunState, PCs
  <2>2. run' = [run EXCEPT ![r] = l]
    BY <1>3, <1>5
  <2> HIDE DEF l
  <2>3. QED BY <2>1, <2>2
<1>10. Knows(l)'
  <2>1. /\ Applies(pending, watermark)' /\ ~InLog(pending)'
        /\ l.batch = pending /\ l.files = batches[pending].files
        /\ l.job \in DOMAIN jobs' /\ jobs'[l.job].batch = l.batch
    BY <1>2, <1>3, <1>6, <1>9 DEF Applies, InLog
  <2>2. \A j \in DOMAIN jobs' : Live(j)' => j = l.job
    BY <1>7, <1>9 DEF Live
  <2>3. QED BY <1>3, <1>9, <2>1, <2>2 DEF Knows, Alone, Clean, WithJob, InBatch
<1>11. l.pc \in Onward
  BY <1>9 DEF Onward, PCs
<1>12. \A j \in DOMAIN jobs' : \/ j \in DOMAIN jobs /\ jobs'[j].run = jobs[j].run
                              \/ jobs'[j].run = r
  BY <1>6
<1>13. QED BY <1>1, <1>3, <1>8, <1>9, <1>10, <1>11, <1>12, OwnerStep

LEMMA RecordBatchKeeps ==
  ASSUME TypeInv, DupInv, NEW r \in Runs, RecordBatch(r)
  PROVE  DupInv' /\ StaysOrAdvances
<1>1. /\ owner = r /\ owner # NoRun /\ Knows(run[r]) /\ run[r].mode = "incremental"
      /\ run[r].pc \notin Over \cup {"idle"} /\ TableOK /\ run[r].pc = "record"
  BY OwnerAtWork DEF RecordBatch, At, Exposed
<1>2. /\ NoLive /\ run[r].wm = watermark /\ run[r] \in RunState
      /\ run[r].batch = pending /\ Applies(pending, watermark)
      /\ run[r].files = batches[pending].files
  BY <1>1, Facts DEF Knows, Alone, InBatch
<1>3. pending \in 1..Len(batches) /\ pending # NoBatch
  BY <1>1, <1>2 DEF TypeInv, BatchInHand, Processing, NoBatch
<1>4. PICK fs \in SUBSET Files : fs = batches[pending].files
  BY <1>3, Facts DEF Batch
<1>5. PICK version \in CommittedVersions(r) :
        WriteWatermark(NewWatermark(run[r].files, run[r].wm, version))
  BY DEF RecordBatch
<1>6. version \in Nat
  <2>1. Len(log) \in Nat /\ run[r].batch \in 1..Len(batches)
    BY <1>2, <1>3, Facts
  <2>2. TokenVersion(run[r].batch, Len(log)) \in Nat
    BY <2>1, TokenVersionFound
  <2>3. QED BY <2>1, <2>2 DEF CommittedVersions
<1>7. /\ watermark' = NewWatermark(fs, watermark, version)
      /\ UNCHANGED <<owner, pending, batches, log, jobs>>
  BY <1>2, <1>4, <1>5 DEF RecordBatch, WriteWatermark, delta
<1>8. /\ watermark.modified < watermark'.modified
      /\ watermark'.batchId = watermark.batchId + 1
      /\ NoLive' /\ AllPassed' /\ TableOK'
  BY <1>1, <1>2, <1>3, <1>4, <1>6, <1>7, RecordedBatch
<1>9. DupInv'
  <2>1. CASE Goto(r, "finish")
    BY <1>1, <1>7, <1>8, <2>1, ClearJump
  <2>2. CASE End(r, "failed")
    <3>1. PICK k \in RunState : /\ k = [Idle EXCEPT !.pc = "failed"] /\ k.pc = "failed"
                                /\ k.mode = "incremental" /\ Knows(k) /\ Knows(k)'
      BY OverKnows DEF Over
    <3>2. run' = [run EXCEPT ![r] = k] /\ k.pc \in Onward
      BY <2>2, <3>1 DEF End, Onward, PCs
    <3>3. QED BY <1>1, <1>7, <1>8, <3>1, <3>2, OwnerStep
  <2>3. QED BY <2>1, <2>2 DEF RecordBatch
<1>10. watermark'.modified > watermark.modified
  <2>1. fs # {} /\ watermark \in Watermark
    BY <1>3, <1>4, Facts DEF Batch
  <2>2. watermark' \in Watermark
    BY <1>6, <1>7, <2>1, NewWatermarkIsNewest
  <2>3. watermark.modified \in Nat /\ watermark'.modified \in Nat
    BY <2>1, <2>2, OldTimes
  <2>4. QED BY <1>8, <2>3
<1>11. QED BY <1>8, <1>9, <1>10 DEF StaysOrAdvances

(* The steps that only read what is shared. *)
LEMMA ReadingKeeps ==
  ASSUME TypeInv, DupInv, NEW r \in Runs,
         \/ Discover(r) \/ BeginBatch(r) \/ UpdateCheckpoint(r)
         \/ CheckBeforeBegin(r) \/ CheckBeforeUpdate(r)
  PROVE  DupInv'
<1> USE DEF At
<1>1. Frame /\ UNCHANGED owner
  BY DEF Discover, BeginBatch, UpdateCheckpoint, CheckBeforeBegin, CheckBeforeUpdate,
             Frame, checkpoint, delta
<1>2. /\ run[r] \in RunState /\ run[r].pc \in {"discover", "begin", "readPosition", "update", "readCurrent"}
      /\ run[r].mode = "incremental" /\ owner # NoRun
  <2>1. run[r].pc \in Working
    BY DEF Discover, BeginBatch, UpdateCheckpoint, CheckBeforeBegin, CheckBeforeUpdate,
             Working, PCs, Over
  <2>2. QED BY <2>1, Facts
        DEF Discover, BeginBatch, UpdateCheckpoint, CheckBeforeBegin, CheckBeforeUpdate,
             DupInv, Places, OwnerActs
<1>3. run[r].pc \notin Over \cup {"idle"}
  BY <1>2 DEF Over
<1>4. CASE End(r, "done") \/ End(r, "superseded")
  BY <1>1, <1>3, <1>4, EndStep DEF Over
<1>5. CASE Discover(r) /\ ~End(r, "done")
  <2>1. PICK b \in NextBatches(Unprocessed(watermark)) :
          run' = [run EXCEPT ![r].files = b, ![r].batchNum = @ + 1, ![r].pc = "begin"]
    BY <1>5 DEF Discover
  <2>2. b \in SUBSET Files /\ Ahead(b)
    BY DEF NextBatches, Unprocessed, Ahead
  <2>3. PICK n \in Nat : n = run[r].batchNum + 1
    BY <1>2 DEF RunState
  <2> DEFINE l == [run[r] EXCEPT !.files = b, !.batchNum = n, !.pc = "begin"]
  <2>4. l \in RunState /\ l.pc = "begin" /\ l.files = b /\ l.mode = "incremental"
    BY <1>2, <2>2 DEF RunState, PCs
  <2>5. run' = [run EXCEPT ![r] = l]
    BY <2>1, <2>3
  <2> HIDE DEF l
  <2>6. owner = r => Knows(l)
    <3>1. owner = r => NoLive /\ AllPassed
      BY <1>5 DEF Discover, DupInv, OwnerKnows, Knows, Alone, Clean
    <3>2. QED BY <2>2, <2>4, <3>1 DEF Knows, WithJob, InBatch
  <2>7. l.pc \in Onward /\ l.pc \notin Exposed
    BY <2>4 DEF Onward, PCs, Exposed
  <2>8. QED BY <1>1, <1>2, <1>3, <2>4, <2>5, <2>6, <2>7, LocalStep
<1>6. CASE BeginBatch(r)
  <2>1. /\ owner = r /\ Knows(run[r]) /\ run[r].pc = "readPosition"
    BY <1>6, OwnerAtWork DEF BeginBatch, Exposed
  <2>2. /\ NoLive /\ AllPassed /\ Ahead(run[r].files)
    BY <2>1 DEF Knows, Alone, Clean
  <2> DEFINE l == [run[r] EXCEPT !.wm = watermark, !.latest = Len(log), !.pc = "writePending"]
  <2>3. /\ l \in RunState /\ l.pc = "writePending" /\ l.wm = watermark
        /\ l.latest = Len(log) /\ l.files = run[r].files /\ l.mode = "incremental"
    BY <1>2, Facts DEF RunState, PCs
  <2>4. run' = [run EXCEPT ![r] = l]
    BY <1>6 DEF BeginBatch
  <2> HIDE DEF l
  <2>5. Knows(l)
    BY <2>2, <2>3, Facts DEF Knows, WithJob, InBatch
  <2>6. l.pc \in Onward
    BY <2>3 DEF Onward, PCs
  <2>7. QED BY <1>1, <1>2, <1>3, <2>1, <2>3, <2>4, <2>5, <2>6, LocalStep
<1>7. CASE UpdateCheckpoint(r)
  <2>1. /\ owner = r /\ Knows(run[r]) /\ run[r].pc = "readCurrent"
    BY <1>7, OwnerAtWork DEF UpdateCheckpoint, Exposed
  <2>2. /\ NoLive /\ run[r].batch = pending /\ Applies(pending, watermark)
        /\ run[r].files = batches[pending].files
    BY <2>1 DEF Knows, Alone, InBatch
  <2> DEFINE l == [run[r] EXCEPT !.wm = watermark, !.pc = "record"]
  <2>3. /\ l \in RunState /\ l.pc = "record" /\ l.wm = watermark
        /\ l.batch = run[r].batch /\ l.files = run[r].files /\ l.mode = "incremental"
    BY <1>2, Facts DEF RunState, PCs
  <2>4. run' = [run EXCEPT ![r] = l]
    BY <1>7 DEF UpdateCheckpoint
  <2> HIDE DEF l
  <2>5. Knows(l)
    BY <2>2, <2>3 DEF Knows, Clean, WithJob
  <2>6. l.pc \in Onward
    BY <2>3 DEF Onward, PCs
  <2>7. QED BY <1>1, <1>2, <1>3, <2>1, <2>3, <2>4, <2>5, <2>6, LocalStep
<1>8. CASE CheckBeforeBegin(r) /\ ~End(r, "superseded")
  <2>1. /\ owner = r /\ Knows(run[r]) /\ run[r].pc = "begin" /\ Goto(r, "readPosition")
    BY <1>8, OwnerAtWork DEF CheckBeforeBegin, Alone
  <2>2. \A k \in RunState : k.pc = "readPosition" /\ k.files = run[r].files => Knows(k)
    BY <2>1 DEF Knows, Alone, Clean, WithJob, InBatch
  <2>3. QED BY <1>1, <1>2, <1>3, <2>1, <2>2, JumpStep DEF Onward, PCs
<1>9. CASE CheckBeforeUpdate(r) /\ ~End(r, "superseded")
  <2>1. /\ owner = r /\ Knows(run[r]) /\ run[r].pc = "update" /\ Goto(r, "readCurrent")
    BY <1>9, OwnerAtWork DEF CheckBeforeUpdate, Alone
  <2>2. \A k \in RunState : k.pc = "readCurrent" /\ k.batch = run[r].batch
                              /\ k.files = run[r].files => Knows(k)
    BY <2>1 DEF Knows, Alone, Clean, WithJob, InBatch
  <2>3. QED BY <1>1, <1>2, <1>3, <2>1, <2>2, JumpStep DEF Onward, PCs
<1>10. QED BY <1>4, <1>5, <1>6, <1>7, <1>8, <1>9

(* The steps of a run that has a job, owner or not. *)
LEMMA JobStepsKeep ==
  ASSUME TypeInv, DupInv, NEW r \in Runs,
         \/ CheckBeforeSubmit(r) \/ CheckAfterSubmit(r) \/ JobSucceeded(r) \/ JobFailed(r)
         \/ GiveUp(r) \/ AbandonedJobEnded(r) \/ AbandonedJobUnconfirmed(r)
  PROVE  DupInv'
<1> USE DEF At
<1>1. Frame /\ UNCHANGED owner
  BY DEF CheckBeforeSubmit, CheckAfterSubmit, JobSucceeded, JobFailed, GiveUp,
         AbandonedJobEnded, AbandonedJobUnconfirmed, Frame, checkpoint, delta
<1>2. /\ run[r] \in RunState /\ run[r].pc \in {"submit"} \cup WithJob
      /\ run[r].mode = "incremental" /\ owner # NoRun
  <2>1. run[r].pc \in {"submit"} \cup WithJob
    BY DEF CheckBeforeSubmit, CheckAfterSubmit, JobSucceeded, JobFailed, GiveUp,
           AbandonedJobEnded, AbandonedJobUnconfirmed, WithJob
  <2>2. run[r].pc \in Working
    BY <2>1 DEF Working, PCs, Over, WithJob
  <2>3. QED BY <2>1, <2>2, Facts DEF DupInv, Places, OwnerActs
<1>3. run[r].pc \notin Over \cup {"idle"}
  BY <1>2 DEF Over, WithJob
<1>4. owner = r => Knows(run[r])
  BY DEF DupInv, OwnerKnows
<1>5. CASE End(r, "superseded") \/ End(r, "failed")
  BY <1>1, <1>3, <1>5, EndStep DEF Over
<1>6. CASE CheckBeforeSubmit(r) /\ ~End(r, "superseded")
  <2>1. owner = r /\ Goto(r, "put") /\ run[r].pc = "submit"
    BY <1>2, <1>6, OwnerAtWork DEF CheckBeforeSubmit, Alone
  <2>2. \A k \in RunState :
           k.pc = "put" /\ k.batch = run[r].batch /\ k.files = run[r].files => Knows(k)
    BY <1>4, <2>1 DEF Knows, Alone, Clean, WithJob, InBatch
  <2>3. QED BY <1>1, <1>2, <1>3, <2>1, <2>2, JumpStep DEF Onward, PCs
<1>7. ASSUME NEW label \in {"wait", "abandon"}, Goto(r, label), run[r].pc \in {"recheck", "wait"}
      PROVE  DupInv'
  <2>1. owner = r => \A k \in RunState :
            k.pc = label /\ k.batch = run[r].batch /\ k.files = run[r].files
            /\ k.job = run[r].job => Knows(k)
    BY <1>4, <1>7 DEF Knows, Alone, Clean, WithJob, InBatch
  <2>2. label \in Onward /\ label \notin Exposed
    BY DEF Onward, PCs, Exposed
  <2>3. QED BY <1>1, <1>2, <1>3, <1>7, <2>1, <2>2, JumpStep
<1>8. ASSUME Goto(r, "update"), run[r].pc \in {"wait", "abandoned"}, JobState(r) = "succeeded"
      PROVE  DupInv'
  <2>1. owner = r => NoLive
    BY <1>4, <1>8 DEF Knows, WithJob, NoLive, Live, JobState, Ended
  <2>2. owner = r => \A k \in RunState :
            k.pc = "update" /\ k.batch = run[r].batch /\ k.files = run[r].files => Knows(k)
    BY <1>4, <1>8, <2>1 DEF Knows, Clean, WithJob, InBatch
  <2>3. "update" \in Onward /\ "update" \notin Exposed
    BY DEF Onward, PCs, Exposed
  <2>4. QED BY <1>1, <1>2, <1>3, <1>8, <2>2, <2>3, JumpStep
<1>9. CASE JobFailed(r) /\ ~End(r, "failed")
  <2>1. /\ run' = [run EXCEPT ![r].resubmits = @ + 1, ![r].pc = "submit"]
        /\ run[r].resubmits < MaxResubmits /\ JobState(r) = "failed" /\ run[r].pc = "wait"
    BY <1>9 DEF JobFailed
  <2>2. PICK n \in 0..MaxResubmits : n = run[r].resubmits + 1
    <3>1. run[r].resubmits \in 0..MaxResubmits
      BY <1>2 DEF RunState
    <3>2. QED BY <2>1, <3>1, BoundsAssumption
  <2> DEFINE l == [run[r] EXCEPT !.resubmits = n, !.pc = "submit"]
  <2>3. /\ l \in RunState /\ l.pc = "submit" /\ l.mode = "incremental"
        /\ l.batch = run[r].batch /\ l.files = run[r].files
    BY <1>2, <2>2 DEF RunState, PCs
  <2>4. run' = [run EXCEPT ![r] = l]
    BY <2>1, <2>2
  <2> HIDE DEF l
  <2>5. owner = r => NoLive /\ ~InLog(pending)
    BY <1>4, <2>1 DEF Knows, WithJob, NoLive, Live, JobState, Ended
  <2>6. owner = r => Knows(l)
    BY <1>4, <2>1, <2>3, <2>5 DEF Knows, Clean, WithJob, InBatch
  <2>7. l.pc \in Onward /\ l.pc \notin Exposed
    BY <2>3 DEF Onward, PCs, Exposed
  <2>8. QED BY <1>1, <1>2, <1>3, <2>3, <2>4, <2>6, <2>7, LocalStep
<1>10. QED
  BY <1>5, <1>6, <1>7, <1>8, <1>9
  DEF CheckBeforeSubmit, CheckAfterSubmit, JobSucceeded, JobFailed, GiveUp,
      AbandonedJobEnded, AbandonedJobUnconfirmed

(* The cancel of one's own job, even by a run that lost the table.          *)
LEMMA AbandonKeeps ==
  ASSUME TypeInv, DupInv, NEW r \in Runs, Abandon(r)
  PROVE  DupInv'
<1>1. /\ run[r] \in RunState /\ run[r].pc = "abandon" /\ run[r].mode = "incremental"
      /\ owner # NoRun
  <2>1. run[r].pc = "abandon" /\ run[r].pc \in Working
    BY DEF Abandon, At, Working, PCs, Over
  <2>2. QED BY <2>1, Facts DEF DupInv, Places, OwnerActs
<1>2. PICK k \in RunState :
            /\ k = [run[r] EXCEPT !.pc = "abandoned"] /\ k.pc = "abandoned" /\ k.mode = run[r].mode
            /\ k.wm = run[r].wm /\ k.latest = run[r].latest /\ k.files = run[r].files
            /\ k.batch = run[r].batch /\ k.job = run[r].job /\ k.orphans = run[r].orphans
  BY <1>1, JumpedLocals DEF PCs
<1>3. run' = [run EXCEPT ![r] = k] /\ UNCHANGED owner
  BY <1>2 DEF Abandon, Goto, checkpoint
<1>4. Ease
  BY CancelEases DEF Abandon, checkpoint, delta
<1>5. owner = r => Knows(k)
  <2>1. owner = r => Knows(run[r])
    BY DEF DupInv, OwnerKnows
  <2>2. QED BY <1>1, <1>2, <2>1 DEF Knows, Alone, Clean, WithJob, InBatch
<1>6. k.pc \in Onward /\ k.pc \notin Exposed /\ run[r].pc \notin Over \cup {"idle"}
  BY <1>1, <1>2 DEF Onward, PCs, Exposed, Over
<1>7. QED BY <1>1, <1>2, <1>3, <1>4, <1>5, <1>6, EaseStep

LEMMA ProcessKeeps ==
  ASSUME TypeInv, TypeInv', DupInv, NEW r \in Runs, Process(r)
  PROVE  DupInv' /\ StaysOrAdvances
<1>1. CASE WritePending(r)
  BY <1>1, WritePendingKeeps DEF WritePending, StaysOrAdvances
<1>2. CASE SubmitJob(r)
  BY <1>2, SubmitJobKeeps DEF SubmitJob, checkpoint, StaysOrAdvances
<1>3. CASE RecordBatch(r)
  BY <1>3, RecordBatchKeeps
<1>4. CASE \/ Discover(r) \/ BeginBatch(r) \/ UpdateCheckpoint(r)
           \/ CheckBeforeBegin(r) \/ CheckBeforeUpdate(r)
  <2>1. UNCHANGED watermark
    BY <1>4 DEF Discover, BeginBatch, UpdateCheckpoint, CheckBeforeBegin, CheckBeforeUpdate,
                checkpoint
  <2>2. QED BY <1>4, <2>1, ReadingKeeps DEF StaysOrAdvances
<1>5. CASE \/ CheckBeforeSubmit(r) \/ CheckAfterSubmit(r) \/ JobSucceeded(r) \/ JobFailed(r)
           \/ GiveUp(r) \/ AbandonedJobEnded(r) \/ AbandonedJobUnconfirmed(r)
  <2>1. UNCHANGED watermark
    BY <1>5 DEF CheckBeforeSubmit, CheckAfterSubmit, JobSucceeded, JobFailed, GiveUp,
                AbandonedJobEnded, AbandonedJobUnconfirmed, checkpoint
  <2>2. QED BY <1>5, <2>1, JobStepsKeep DEF StaysOrAdvances
<1>6. CASE Abandon(r)
  BY <1>6, AbandonKeeps DEF Abandon, checkpoint, StaysOrAdvances
<1>7. CASE FinishBatch(r)
  <2>1. /\ owner = r /\ owner # NoRun /\ Knows(run[r]) /\ run[r].mode = "incremental"
        /\ run[r].pc \notin Over \cup {"idle"} /\ TableOK /\ run[r].pc = "finish"
    BY <1>7, OwnerAtWork DEF FinishBatch, At, Exposed
  <2>2. NoLive /\ AllPassed
    BY <2>1 DEF Knows, Alone, Clean
  <2>3. Goto(r, "discover") /\ UNCHANGED <<owner, watermark, batches, log, jobs>>
    BY <1>7 DEF FinishBatch, delta
  <2>4. NoLive' /\ AllPassed' /\ TableOK'
    BY <2>1, <2>2, <2>3, DroppedPending
  <2>5. QED BY <2>1, <2>3, <2>4, ClearJump DEF StaysOrAdvances
<1>8. QED BY <1>1, <1>2, <1>3, <1>4, <1>5, <1>6, <1>7 DEF Process

-----------------------------------------------------------------------------
(* The theorems *)

LEMMA InitDupInv == Init => DupInv
<1> SUFFICES ASSUME Init PROVE DupInv
  OBVIOUS
<1>1. \A r \in Runs : run[r].pc = "idle" /\ run[r].mode = "incremental"
  BY DEF Init, Idle
<1>2. owner = NoRun /\ DOMAIN jobs = {} /\ DOMAIN log = {} /\ Len(batches) = 0
  BY DEF Init
<1>3. Places
  BY <1>1, <1>2 DEF Places, Sequential, OwnerActs, JobsBegun, Exposed, Working
<1>4. TableOK
  BY <1>2 DEF TableOK, BatchesOK, LiveOK, LogOK, Disjoint
<1>5. OwnerKnows
  BY <1>2, RunsAssumption DEF OwnerKnows, Runs, NoRun
<1>6. QED BY <1>3, <1>4, <1>5 DEF DupInv

LEMMA NextDupInv ==
  ASSUME Hypotheses, TypeInv, TypeInv', DupInv, [Next]_vars
  PROVE  DupInv' /\ (watermark' = NoWatermark \/ StaysOrAdvances)
<1>1. CASE \E r \in Runs : Prepare(r)
  <2>1. PICK r \in Runs : Prepare(r)
    BY <1>1
  <2>2. watermark' = NoWatermark \/ UNCHANGED watermark
    BY <2>1 DEF Prepare, Start, DeleteWatermark, ClearPending, Claim, ListOrphans, Settled,
                SettleTimeout, checkpoint
  <2>3. QED BY <2>1, <2>2, PrepareKeeps DEF StaysOrAdvances
<1>2. CASE \E r \in Runs : Reconcile(r)
  BY <1>2, ReconcileKeeps
<1>3. CASE \E r \in Runs : Process(r)
  BY <1>3, ProcessKeeps
<1>4. CASE \E r \in Runs : Crash(r)
  BY <1>4, CrashKeeps DEF Crash, checkpoint, StaysOrAdvances
<1>5. CASE \E j \in DOMAIN jobs : EndJob(j)
  BY <1>5, CommitJobKeeps, FailJobKeeps
  DEF EndJob, CommitJob, FailJob, checkpoint, StaysOrAdvances
<1>6. CASE OtherCommit
  BY <1>6, OtherCommitKeeps DEF OtherCommit, checkpoint, StaysOrAdvances
<1>7. CASE CleanLog \/ Tick \/ UNCHANGED vars
  BY <1>7, ElsewhereKeeps DEF CleanLog, Tick, vars, checkpoint, StaysOrAdvances
<1>8. CASE Terminated
  BY <1>7, <1>8 DEF Terminated
<1>9. QED
  BY <1>1, <1>2, <1>3, <1>4, <1>5, <1>6, <1>7, <1>8 DEF Next, RunStep

LEMMA DupInvariance ==
  ASSUME Hypotheses
  PROVE  Spec => []DupInv
<1>1. TypeInv /\ TypeInv' /\ DupInv /\ [Next]_vars => DupInv'
  BY NextDupInv
<1>2. QED BY InitDupInv, TypeInvariance, <1>1, PTL DEF Spec

(* No two commits whose rows are in the table read the same source file,    *)
(* wherever runs crash, jobs fail or files of the checkpoint stay behind.   *)
THEOREM NothingIsIngestedTwice ==
  ASSUME Hypotheses
  PROVE  Spec => []NoDuplicate
<1>1. DupInv => NoDuplicate
  BY DEF DupInv, TableOK, Disjoint, NoDuplicate, LiveVersions
<1>2. QED BY DupInvariance, <1>1, PTL

(* reconcile_checkpoint can tell from pending.json and the log what the     *)
(* watermark is missing, in every state that a run may find.                *)
THEOREM UnrecordedCommitsAreFound ==
  ASSUME Hypotheses
  PROVE  Spec => []CommitsAccountedFor
<1>1. TypeInv /\ DupInv => CommitsAccountedFor
  <2> SUFFICES ASSUME TypeInv, DupInv, NEW v \in LiveVersions, ~Passed(v)
               PROVE  /\ pending = log[v] /\ Applies(pending, watermark)
                      /\ TokenVersion(pending, Len(log)) # 0
    BY DEF CommitsAccountedFor, Passed
  <2>1. v \in DOMAIN log /\ Len(log) \in Nat /\ v <= Len(log)
    BY Facts DEF LiveVersions
  <2>2. QED BY <2>1, UncoveredIsFound DEF DupInv, TableOK
<1>2. QED BY DupInvariance, TypeInvariance, <1>1, PTL

(* The checkpoint never goes back to a position it has left.                *)
THEOREM CheckpointAdvances ==
  ASSUME Hypotheses
  PROVE  Spec => WatermarkAdvances
<1>1. TypeInv /\ TypeInv' /\ DupInv /\ [Next]_vars =>
         [\/ watermark' = NoWatermark
          \/ /\ watermark'.batchId = watermark.batchId
             /\ watermark'.modified = watermark.modified
          \/ /\ watermark'.batchId = watermark.batchId + 1
             /\ watermark'.modified > watermark.modified]_vars
  BY NextDupInv DEF StaysOrAdvances
<1>2. QED BY DupInvariance, TypeInvariance, <1>1, PTL DEF Spec, WatermarkAdvances
=============================================================================
