---------------------------- MODULE RefreshProofs ----------------------------
(***************************************************************************)
(* Full refreshes, alone or among incremental runs, one run after the      *)
(* other.  The commit of a refresh's first batch deletes what is in the    *)
(* table, so files leave the table here and the watermark starts again:    *)
(*   - no data loss, whichever runs of either kind came before and         *)
(*     wherever they were cut short;                                       *)
(*   - no file ingested twice when every run is a full refresh, as those   *)
(*     of the table materialization are;                                   *)
(*   - a checkpoint that only ever starts again or moves one batch on,     *)
(*     whichever runs come in whatever order.                              *)
(***************************************************************************)
EXTENDS ScopeTableProofs

(* The assumptions: runs do not overlap, every orphan is on the page ADLA   *)
(* answers with, and a full refresh does delete watermark.json (its failure *)
(* to is swallowed, and then it can lose files: see the README).            *)
WatermarkDeleted == "deleteWatermark" \notin Faults
OneAtATime == ~Overlap /\ OrphansListed /\ WatermarkDeleted

(* Rows that are in the table now, not merely once committed.               *)
Kept(w) == \A f \in Files : MTime[f] <= w.modified => InTable(f)

(* A set of files that leaves none behind, whatever is in the table, or     *)
(* given what is: the first batch of a full refresh needs the first kind.   *)
Whole(fs) == \A g \in fs : \A f \in Files : MTime[f] <= MTime[g] => f \in fs
Unbroken(fs) == \A g \in fs : \A f \in Files : MTime[f] <= MTime[g] => f \in fs \/ InTable(f)
Sealed(b) == IF batches[b].truncate THEN Whole(batches[b].files) ELSE Unbroken(batches[b].files)

(* No version after this one deletes the rows of the versions before it.    *)
Past(n) == \A v \in DOMAIN log : Truncates(v) => v <= n

(* A live job's batch has no commit yet and is the pending one, unless a    *)
(* full refresh deleted pending.json; the job that deletes all rows runs    *)
(* only while there is no watermark.                                        *)
LiveSound ==
    /\ \A i, j \in DOMAIN jobs : Live(i) /\ Live(j) => i = j
    /\ \A j \in DOMAIN jobs : Live(j) =>
          /\ ~InLog(jobs[j].batch)
          /\ pending \in {NoBatch, jobs[j].batch}
          /\ batches[jobs[j].batch].truncate => watermark = NoWatermark

PendingSound ==
    pending # NoBatch =>
        Sealed(pending) /\ \A v \in DOMAIN log : log[v] = pending => v \in LiveVersions

WatermarkSound ==
    /\ Kept(watermark)
    /\ watermark # NoWatermark =>
          Past(writtenAt) /\ (watermark.delta # 0 => Past(watermark.delta))

StoreOK == LiveSound /\ PendingSound /\ WatermarkSound

(* What a run relies on at each place.                                      *)
Unstarted == {"idle", "deleteWatermark", "clearPending", "claim", "listOrphans"}
Refreshing == {"clearPending", "claim", "listOrphans", "settling", "readTable", "resolve", "adopt"}
Batching == {"begin", "readPosition", "writePending", "finish"} \cup InBatch
Reconciling == {"resolve", "recordPending", "dropPending", "adopt"}
Lone == Alone \cup {"rewrite"}
FirstBatch(l) == l.mode = "full" /\ l.batchNum = 1

(* A full refresh finds no checkpoint until its first batch is recorded.    *)
Emptied(l) ==
    /\ l.mode = "full"
    /\ \/ l.pc \in Refreshing
       \/ l.pc = "discover" /\ l.batchNum = 0
       \/ l.pc \in {"begin", "readPosition", "writePending"} /\ l.batchNum = 1

ExpectsStart(l) ==
    /\ l.mode = "full" => l.pc \notin {"recordPending", "dropPending", "rewrite"}
    /\ Emptied(l) => watermark = NoWatermark
    /\ l.mode = "full" /\ l.pc \in Refreshing \ {"clearPending"} => pending = NoBatch
    /\ l.pc \in Batching => l.batchNum # 0

ExpectsTable(l) ==
    /\ l.pc \in Reconciling => l.wm = watermark
    /\ l.pc = "rewrite" => Kept(l.wm)
    /\ l.pc \in Reconciling \cup {"rewrite"} => Past(l.latest)
    /\ l.pc = "recordPending" =>
          l.batch = pending /\ pending # NoBatch /\ InLog(pending) /\ Past(l.version)

ExpectsBatch(l) ==
    /\ l.pc \in {"begin", "readPosition", "writePending"} =>
          IF FirstBatch(l) THEN Whole(l.files) ELSE Unbroken(l.files)
    /\ l.pc \in InBatch =>
          /\ l.batch = pending /\ pending # NoBatch /\ l.files = batches[pending].files
          /\ batches[pending].truncate => watermark = NoWatermark
    /\ l.pc \in {"submit", "put"} => ~InLog(pending)
    /\ l.pc \in {"update", "readCurrent", "record"} => InLog(pending)

ExpectsJobs(l) ==
    /\ l.pc = "settling" => \A j \in DOMAIN jobs : Live(j) => j \in l.orphans
    /\ l.pc \in Lone => NoLive
    /\ l.pc \in WithJob =>
          /\ l.job \in DOMAIN jobs /\ jobs[l.job].batch = l.batch
          /\ \A j \in DOMAIN jobs : Live(j) => j = l.job
          /\ jobs[l.job].state = "succeeded" <=> InLog(pending)

Expects(l) == ExpectsStart(l) /\ ExpectsTable(l) /\ ExpectsBatch(l) /\ ExpectsJobs(l)

JobsStarted == \A j \in DOMAIN jobs : run[jobs[j].run].pc \notin Unstarted

RefreshInv ==
    /\ Sequential
    /\ JobsStarted
    /\ StoreOK
    /\ \A r \in Runs : Expects(run[r])

-----------------------------------------------------------------------------
(* Locals after a step *)

LEMMA GotoLocals ==
  ASSUME TypeInv, NEW r \in Runs, NEW label \in PCs, Goto(r, label)
  PROVE  \E k \in RunState :
            /\ run' = [run EXCEPT ![r] = k] /\ k.pc = label /\ k.mode = run[r].mode
            /\ k.wm = run[r].wm /\ k.latest = run[r].latest /\ k.files = run[r].files
            /\ k.batch = run[r].batch /\ k.job = run[r].job /\ k.orphans = run[r].orphans
            /\ k.version = run[r].version /\ k.batchNum = run[r].batchNum
<1> DEFINE k == [run[r] EXCEPT !.pc = label]
<1>1. run[r] \in RunState
  BY DEF TypeInv, TypeOK
<1>2. /\ k \in RunState /\ k.pc = label /\ k.mode = run[r].mode
      /\ k.wm = run[r].wm /\ k.latest = run[r].latest /\ k.files = run[r].files
      /\ k.batch = run[r].batch /\ k.job = run[r].job /\ k.orphans = run[r].orphans
      /\ k.version = run[r].version /\ k.batchNum = run[r].batchNum
  BY <1>1 DEF RunState
<1>3. run' = [run EXCEPT ![r] = k]
  BY DEF Goto
<1> HIDE DEF k
<1>4. QED BY <1>2, <1>3

LEMMA EndLocals ==
  ASSUME NEW r \in Runs, NEW label \in Over, End(r, label)
  PROVE  \E k \in RunState : run' = [run EXCEPT ![r] = k] /\ k.pc = label
<1>1. [Idle EXCEPT !.pc = label] \in RunState
  BY IdleType DEF Over, PCs
<1>2. [Idle EXCEPT !.pc = label].pc = label
  BY DEF Idle
<1>3. QED BY <1>1, <1>2 DEF End

LEMMA OverExpects ==
  ASSUME NEW k \in RunState, k.pc \in Over \cup {"idle", "deleteWatermark"}
  PROVE  Expects(k) /\ Expects(k)'
<1>1. /\ k.pc \notin Refreshing \cup Batching \cup Reconciling \cup Lone \cup InBatch \cup WithJob
      /\ k.pc \notin {"recordPending", "dropPending", "rewrite", "discover", "begin", "readPosition", "writePending",
                      "submit", "put", "update", "readCurrent", "record", "settling"}
  BY DEF Over, Refreshing, Batching, Reconciling, Lone, Alone, InBatch, WithJob
<1>2. ExpectsStart(k) /\ ExpectsStart(k)'
  BY <1>1 DEF ExpectsStart, Emptied
<1>3. ExpectsTable(k) /\ ExpectsTable(k)'
  BY <1>1 DEF ExpectsTable
<1>4. ExpectsBatch(k) /\ ExpectsBatch(k)'
  BY <1>1 DEF ExpectsBatch
<1>5. ExpectsJobs(k) /\ ExpectsJobs(k)'
  BY <1>1 DEF ExpectsJobs
<1>6. QED BY <1>2, <1>3, <1>4, <1>5 DEF Expects

LEMMA ExpectsMoves ==
  ASSUME NEW r \in Runs, NEW k \in RunState, run'[r] = k, Expects(k)'
  PROVE  Expects(run[r])'
BY DEF Expects, ExpectsStart, ExpectsTable, ExpectsBatch, ExpectsJobs, Emptied, FirstBatch,
       Kept, Past, Whole, Unbroken

(* When runs do not overlap, all others are over or have not begun.         *)
LEMMA OthersIdle ==
  ASSUME ~Overlap, Sequential, NEW r \in Runs, run[r].pc \notin Over \cup {"idle"}
  PROVE  \A q \in Runs \ {r} : run[q].pc \in Over \cup {"idle"}
BY DEF Sequential, Runs, Over

(* A step of one run.                                                       *)
LEMMA RunStepKeeps ==
  ASSUME ~Overlap, TypeInv, RefreshInv, NEW r \in Runs, NEW k \in RunState,
         run' = [run EXCEPT ![r] = k], run[r].pc \notin Over \cup {"idle"},
         run[r].pc \notin Unstarted => k.pc \notin Unstarted,
         \A j \in DOMAIN jobs' :
             \/ j \in DOMAIN jobs /\ jobs'[j].run = jobs[j].run
             \/ jobs'[j].run = r /\ k.pc \notin Unstarted,
         StoreOK', Expects(k)'
  PROVE  RefreshInv'
<1>1. run'[r] = k /\ \A q \in Runs \ {r} : run'[q] = run[q]
  BY DEF TypeInv, TypeOK
<1>2. \A q \in Runs \ {r} : run[q].pc \in Over \cup {"idle"} /\ run[q] \in RunState
  BY OthersIdle DEF RefreshInv, TypeInv, TypeOK
<1>3. Sequential'
  <2> SUFFICES ASSUME NEW q \in Runs, NEW p \in Runs, q < p, run'[p].pc # "idle"
               PROVE  run'[q].pc \in Over
    BY DEF Sequential
  <2>1. run[p].pc # "idle"
    BY <1>1
  <2>2. run[q].pc \in Over
    BY <2>1 DEF RefreshInv, Sequential
  <2>3. QED BY <1>1, <2>2
<1>4. JobsStarted'
  BY <1>1 DEF RefreshInv, JobsStarted
<1>5. ASSUME NEW q \in Runs PROVE Expects(run[q])'
  <2>1. PICK l \in RunState : run'[q] = l /\ Expects(l)'
    <3>1. CASE q = r
      BY <1>1, <3>1
    <3>2. CASE q # r
      BY <1>1, <1>2, <3>2, OverExpects
    <3>3. QED BY <3>1, <3>2
  <2>2. QED BY <2>1, ExpectsMoves
<1>6. QED BY <1>3, <1>4, <1>5 DEF RefreshInv

(* A step that touches nothing shared.                                      *)
Shared == <<watermark, writtenAt, pending, batches, log, jobs>>

LEMMA SharedKept ==
  ASSUME UNCHANGED <<log, batches>>
  PROVE  /\ LiveVersions' = LiveVersions
         /\ \A f \in Files : InTable(f)' <=> InTable(f)
         /\ \A n : Past(n)' <=> Past(n)
         /\ \A b : InLog(b)' <=> InLog(b)
         /\ \A w : Kept(w)' <=> Kept(w)
         /\ \A fs : Unbroken(fs)' <=> Unbroken(fs)
         /\ \A b : Sealed(b)' <=> Sealed(b)
BY DEF LiveVersions, InTable, Past, InLog, Kept, Unbroken, Sealed, Whole, Truncates, CommittedFiles

LEMMA SharedKeepsStore ==
  ASSUME StoreOK, UNCHANGED Shared
  PROVE  StoreOK'
<1>1. LiveSound'
  BY DEF Shared, StoreOK, LiveSound, Live, InLog
<1>2. PendingSound'
  BY DEF Shared, StoreOK, PendingSound, Sealed, Unbroken, Whole, InTable, LiveVersions, CommittedFiles, Truncates
<1>3. WatermarkSound'
  BY DEF Shared, StoreOK, WatermarkSound, Kept, Past, InTable, LiveVersions, CommittedFiles, Truncates
<1>4. QED BY <1>1, <1>2, <1>3 DEF StoreOK

LEMMA SharedKeepsExpects ==
  ASSUME NEW k \in RunState, Expects(k), UNCHANGED Shared
  PROVE  Expects(k)'
<1>1. ExpectsStart(k)'
  BY DEF Shared, Expects, ExpectsStart, Emptied
<1>2. ExpectsTable(k)'
  BY DEF Shared, Expects, ExpectsTable, Kept, Past, InTable, LiveVersions, CommittedFiles, Truncates, InLog
<1>3. ExpectsBatch(k)'
  BY DEF Shared, Expects, ExpectsBatch, FirstBatch, Whole, Unbroken, InTable, LiveVersions, CommittedFiles, Truncates, InLog
<1>4. ExpectsJobs(k)'
  BY DEF Shared, Expects, ExpectsJobs, Live, NoLive, InLog
<1>5. QED BY <1>1, <1>2, <1>3, <1>4 DEF Expects

LEMMA QuietMove ==
  ASSUME ~Overlap, TypeInv, RefreshInv, NEW r \in Runs, NEW k \in RunState,
         run' = [run EXCEPT ![r] = k], run[r].pc \notin Over \cup {"idle"},
         run[r].pc \notin Unstarted => k.pc \notin Unstarted,
         UNCHANGED Shared, Expects(k)
  PROVE  RefreshInv'
<1>1. StoreOK' /\ Expects(k)'
  BY SharedKeepsStore, SharedKeepsExpects DEF RefreshInv
<1>2. \A j \in DOMAIN jobs' : j \in DOMAIN jobs /\ jobs'[j].run = jobs[j].run
  BY DEF Shared
<1>3. QED BY <1>1, <1>2, RunStepKeeps

(* A run ends.                                                              *)
LEMMA QuietEnd ==
  ASSUME ~Overlap, TypeInv, RefreshInv, NEW r \in Runs, NEW label \in Over,
         End(r, label), run[r].pc \notin Over \cup {"idle"}, UNCHANGED Shared
  PROVE  RefreshInv'
<1>1. PICK k \in RunState : run' = [run EXCEPT ![r] = k] /\ k.pc = label
  BY EndLocals
<1>2. k.pc \notin Unstarted /\ Expects(k)
  BY <1>1, OverExpects DEF Over, Unstarted
<1>3. QED BY <1>1, <1>2, QuietMove

-----------------------------------------------------------------------------
(* Steps of the services *)

LEMMA RunsStayPut ==
  ASSUME TypeInv, RefreshInv, UNCHANGED run, StoreOK',
         DOMAIN jobs' = DOMAIN jobs, \A j \in DOMAIN jobs : jobs'[j].run = jobs[j].run,
         \A r \in Runs, k \in RunState : run[r] = k /\ Expects(k) => Expects(k)'
  PROVE  RefreshInv'
<1>1. Sequential' /\ JobsStarted'
  BY DEF RefreshInv, Sequential, JobsStarted
<1>2. ASSUME NEW r \in Runs PROVE Expects(run[r])'
  <2>1. PICK k \in RunState : run[r] = k
    BY DEF TypeInv, TypeOK
  <2>2. Expects(k)'
    BY <2>1 DEF RefreshInv
  <2>3. QED BY <2>1, <2>2, ExpectsMoves
<1>3. QED BY <1>1, <1>2 DEF RefreshInv

LEMMA EaseKeepsStore ==
  ASSUME StoreOK, Ease, UNCHANGED writtenAt
  PROVE  StoreOK'
<1>1. UNCHANGED <<watermark, writtenAt, pending, batches, log>>
  BY DEF Ease
<1>2. LiveSound'
  BY <1>1 DEF Ease, StoreOK, LiveSound, Live, InLog
<1>3. PendingSound'
  BY <1>1, SharedKept DEF StoreOK, PendingSound
<1>4. WatermarkSound'
  BY <1>1, SharedKept DEF StoreOK, WatermarkSound
<1>5. QED BY <1>2, <1>3, <1>4 DEF StoreOK

LEMMA EaseKeepsExpects ==
  ASSUME Ease, NEW k \in RunState, Expects(k)
  PROVE  Expects(k)'
<1>1. UNCHANGED <<watermark, pending, batches, log>>
  BY DEF Ease
<1>2. ExpectsStart(k)'
  BY <1>1 DEF Expects, ExpectsStart, Emptied
<1>3. ExpectsTable(k)'
  BY <1>1, SharedKept DEF Expects, ExpectsTable
<1>4. ExpectsBatch(k)'
  BY <1>1, SharedKept DEF Expects, ExpectsBatch, FirstBatch, Whole
<1>5. ExpectsJobs(k)'
  BY <1>1, SharedKept DEF Ease, Expects, ExpectsJobs, Live, NoLive
<1>6. QED BY <1>2, <1>3, <1>4, <1>5 DEF Expects

LEMMA FailJobKeepsRefresh ==
  ASSUME TypeInv, RefreshInv, NEW j \in DOMAIN jobs, FailJob(j)
  PROVE  RefreshInv'
<1>1. jobs \in Seq(Job) /\ jobs[j] \in Job /\ jobs[j].state \notin Ended
  BY Facts DEF TypeInv, TypeOK, FailJob, Ended
<1>2. jobs' = [jobs EXCEPT ![j].state = "failed"]
  BY DEF FailJob
<1>3. Ease
  <2>1. ASSUME NEW i \in DOMAIN jobs
        PROVE  /\ jobs'[i].batch = jobs[i].batch /\ jobs'[i].run = jobs[i].run
               /\ jobs'[i].state \notin Ended => jobs[i].state \notin Ended
               /\ jobs'[i].state = "succeeded" <=> jobs[i].state = "succeeded"
    <3>1. jobs[i] \in Job
      BY Facts
    <3>2. CASE i = j
      BY <1>1, <1>2, <3>1, <3>2 DEF Job, Ended
    <3>3. CASE i # j
      BY <1>2, <3>3
    <3>4. QED BY <3>2, <3>3
  <2>2. QED BY <1>2, <2>1 DEF Ease, FailJob, checkpoint, delta
<1>4. UNCHANGED <<writtenAt, run>>
  BY DEF FailJob, checkpoint
<1>5. StoreOK'
  BY <1>3, <1>4, EaseKeepsStore DEF RefreshInv
<1>6. \A r \in Runs, k \in RunState : run[r] = k /\ Expects(k) => Expects(k)'
  BY <1>3, EaseKeepsExpects
<1>7. QED BY <1>3, <1>4, <1>5, <1>6, RunsStayPut DEF Ease

LEMMA ElsewhereKeepsRefresh ==
  ASSUME TypeInv, RefreshInv, CleanLog \/ Tick \/ UNCHANGED vars
  PROVE  RefreshInv'
<1>1. UNCHANGED Shared /\ UNCHANGED run
  BY DEF CleanLog, Tick, vars, Shared, checkpoint, delta
<1>2. UNCHANGED jobs
  BY <1>1 DEF Shared
<1>3. StoreOK'
  BY <1>1, SharedKeepsStore DEF RefreshInv
<1>4. \A r \in Runs, k \in RunState : run[r] = k /\ Expects(k) => Expects(k)'
  BY <1>1, SharedKeepsExpects
<1>5. QED BY <1>1, <1>2, <1>3, <1>4, RunsStayPut

(* The table after a commit: either one version more, or, when the commit   *)
(* deletes what was there, that version alone.                              *)
LEMMA AppendedTable ==
  ASSUME TypeInv, NEW b \in 0..Len(batches), log' = Append(log, b), UNCHANGED batches
  PROVE  \E new \in Nat :
         /\ DOMAIN log' = (DOMAIN log) \cup {new} /\ new \notin DOMAIN log
         /\ \A v \in DOMAIN log : log'[v] = log[v] /\ CommittedFiles(v)' = CommittedFiles(v)
         /\ log'[new] = b
         /\ CommittedFiles(new)' = IF b = NoBatch THEN {} ELSE batches[b].files
         /\ IF b # NoBatch /\ batches[b].truncate
              THEN LiveVersions' = {new}
              ELSE /\ LiveVersions' = LiveVersions \cup {new}
                   /\ \A f \in Files : InTable(f) => InTable(f)'
                   /\ \A n : Past(n) => Past(n)'
<1>1. PICK new \in Nat :
         /\ new = Len(log) + 1 /\ Len(log') = new
         /\ DOMAIN log' = (DOMAIN log) \cup {new} /\ new \notin DOMAIN log
         /\ \A v \in DOMAIN log : log'[v] = log[v] /\ CommittedFiles(v)' = CommittedFiles(v)
         /\ log'[new] = b
         /\ CommittedFiles(new)' = IF b = NoBatch THEN {} ELSE batches[b].files
  BY Appended
<1>2. \A v \in DOMAIN log : v < new /\ v \in Nat
  BY <1>1, Facts
<1>3. /\ \A v \in DOMAIN log : Truncates(v)' <=> Truncates(v)
      /\ Truncates(new)' <=> b # NoBatch /\ batches[b].truncate
  BY <1>1 DEF Truncates
<1>4. ASSUME Truncates(new)' PROVE LiveVersions' = {new}
  <2>1. LiveVersions' = {v \in DOMAIN log' : \A w \in DOMAIN log' : w > v => ~Truncates(w)'}
    BY DEF LiveVersions
  <2>2. \A w \in DOMAIN log' : ~(w > new)
    BY <1>1, <1>2
  <2>3. \A v \in DOMAIN log' : v # new => new > v
    BY <1>1, <1>2
  <2>4. QED BY <1>1, <1>4, <2>1, <2>2, <2>3
<1>5. ASSUME ~Truncates(new)'
      PROVE  /\ LiveVersions' = LiveVersions \cup {new}
             /\ \A f \in Files : InTable(f) => InTable(f)'
             /\ \A n : Past(n) => Past(n)'
  <2>1. LiveVersions' = LiveVersions \cup {new}
    <3>1. LiveVersions' = {v \in DOMAIN log' : \A w \in DOMAIN log' : w > v => ~Truncates(w)'}
      BY DEF LiveVersions
    <3>2. new \in LiveVersions'
      BY <1>1, <1>2, <3>1
    <3>3. \A v \in DOMAIN log : v \in LiveVersions' <=> v \in LiveVersions
      BY <1>1, <1>3, <1>5, <3>1 DEF LiveVersions
    <3>4. QED BY <1>1, <3>1, <3>2, <3>3 DEF LiveVersions
  <2>2. \A f \in Files : InTable(f) => InTable(f)'
    BY <1>1, <2>1 DEF InTable, LiveVersions
  <2>3. \A n : Past(n) => Past(n)'
    BY <1>1, <1>3, <1>5 DEF Past
  <2>4. QED BY <2>1, <2>2, <2>3
<1>6. QED BY <1>1, <1>3, <1>4, <1>5

LEMMA GrownTable ==
  ASSUME \A f \in Files : InTable(f) => InTable(f)'
  PROVE  /\ \A w \in Watermark : Kept(w) => Kept(w)'
         /\ \A fs \in SUBSET Files : Unbroken(fs) => Unbroken(fs)'
BY DEF Kept, Unbroken

(* The store after a commit that deletes nothing.                           *)
LEMMA GrownStore ==
  ASSUME TypeInv, StoreOK, UNCHANGED <<watermark, writtenAt, pending, batches>>,
         \A f \in Files : InTable(f) => InTable(f)', \A n : Past(n) => Past(n)'
  PROVE  /\ pending # NoBatch => Sealed(pending)'
         /\ WatermarkSound'
<1>1. \A fs \in SUBSET Files : Unbroken(fs) => Unbroken(fs)'
  BY GrownTable
<1>2. ASSUME pending # NoBatch PROVE Sealed(pending)'
  <2>1. pending \in 1..Len(batches)
    BY <1>2, Facts DEF NoBatch
  <2>2. PICK fs \in SUBSET Files : fs = batches[pending].files
    BY <2>1, Facts DEF Batch
  <2>3. Unbroken(fs) => Unbroken(fs)'
    BY <1>1
  <2>4. Sealed(pending)
    BY <1>2 DEF StoreOK, PendingSound
  <2>5. QED BY <2>2, <2>3, <2>4 DEF Sealed, Whole, Unbroken
<1>3. Kept(watermark)'
  <2>1. PICK w \in Watermark : w = watermark
    BY Facts
  <2>2. Kept(w)'
    BY <2>1, GrownTable DEF StoreOK, WatermarkSound
  <2>3. QED BY <2>1, <2>2 DEF Kept
<1>4. ASSUME NEW n, Past(n) PROVE Past(n)'
  BY <1>4
<1>5. watermark # NoWatermark =>
         Past(writtenAt)' /\ (watermark.delta # 0 => Past(watermark.delta)')
  <2>1. PICK n : n = writtenAt
    OBVIOUS
  <2>2. PICK m : m = watermark.delta
    OBVIOUS
  <2>3. (Past(n) => Past(n)') /\ (Past(m) => Past(m)')
    BY <1>4
  <2>4. QED BY <2>1, <2>2, <2>3 DEF StoreOK, WatermarkSound, Past
<1>6. QED BY <1>2, <1>3, <1>5 DEF WatermarkSound

LEMMA CommitJobKeepsRefresh ==
  ASSUME TypeInv, RefreshInv, NEW j \in DOMAIN jobs, CommitJob(j)
  PROVE  RefreshInv'
<1> DEFINE b == jobs[j].batch
<1>1. /\ Live(j) /\ ~InLog(b) /\ pending \in {NoBatch, b}
      /\ batches[b].truncate => watermark = NoWatermark
      /\ \A i \in DOMAIN jobs : Live(i) => i = j
  BY DEF CommitJob, Live, RefreshInv, StoreOK, LiveSound
<1>2. b \in 1..Len(batches) /\ b # NoBatch /\ jobs[j] \in Job /\ b \in 0..Len(batches)
  BY Facts DEF NoBatch
<1>3. log' = Append(log, b) /\ UNCHANGED <<watermark, writtenAt, pending, batches, run>>
  BY DEF CommitJob, checkpoint
<1>4. /\ DOMAIN jobs' = DOMAIN jobs
      /\ \A i \in DOMAIN jobs : jobs'[i].batch = jobs[i].batch /\ jobs'[i].run = jobs[i].run
      /\ jobs'[j].state = "succeeded"
      /\ \A i \in DOMAIN jobs : i # j => jobs'[i] = jobs[i]
  BY <1>2 DEF CommitJob, Job
<1> HIDE DEF b
<1>5. PICK new \in Nat :
         /\ DOMAIN log' = (DOMAIN log) \cup {new} /\ new \notin DOMAIN log
         /\ \A v \in DOMAIN log : log'[v] = log[v] /\ CommittedFiles(v)' = CommittedFiles(v)
         /\ log'[new] = b
         /\ CommittedFiles(new)' = IF b = NoBatch THEN {} ELSE batches[b].files
         /\ IF b # NoBatch /\ batches[b].truncate
              THEN LiveVersions' = {new}
              ELSE /\ LiveVersions' = LiveVersions \cup {new}
                   /\ \A f \in Files : InTable(f) => InTable(f)'
                   /\ \A n : Past(n) => Past(n)'
  BY <1>2, <1>3, AppendedTable
<1>6. NoLive'
  <2> SUFFICES ASSUME NEW i \in DOMAIN jobs, jobs'[i].state \notin Ended PROVE FALSE
    BY <1>4 DEF NoLive, Live
  <2>1. i = j
    BY <1>1, <1>4 DEF Live
  <2>2. QED BY <1>4, <2>1 DEF Ended
<1>7. StoreOK'
  <2>1. LiveSound'
    BY <1>6 DEF LiveSound, NoLive
  <2>2. ASSUME batches[b].truncate PROVE PendingSound' /\ WatermarkSound'
    <3>1. watermark = NoWatermark /\ LiveVersions' = {new}
      BY <1>1, <1>2, <1>5, <2>2
    <3>2. Kept(watermark)'
      BY <1>3, <3>1, FilesAssumption DEF Kept, NoWatermark
    <3>3. WatermarkSound'
      BY <1>3, <3>1, <3>2 DEF WatermarkSound
    <3>4. ASSUME pending # NoBatch PROVE pending = b /\ Sealed(pending)'
      BY <1>1, <1>3, <2>2, <3>4 DEF RefreshInv, StoreOK, PendingSound, Sealed, Whole
    <3>5. ASSUME NEW v \in DOMAIN log', log'[v] = b PROVE v = new
      BY <1>1, <1>5, <3>5 DEF InLog
    <3>6. QED BY <1>3, <3>1, <3>3, <3>4, <3>5 DEF PendingSound
  <2>3. ASSUME ~batches[b].truncate PROVE PendingSound' /\ WatermarkSound'
    <3>1. /\ LiveVersions' = LiveVersions \cup {new}
          /\ \A f \in Files : InTable(f) => InTable(f)'
          /\ \A n : Past(n) => Past(n)'
      BY <1>5, <2>3
    <3>2. (pending # NoBatch => Sealed(pending)') /\ WatermarkSound'
      BY <1>3, <3>1, GrownStore DEF RefreshInv
    <3>3. ASSUME pending # NoBatch, NEW v \in DOMAIN log', log'[v] = pending
          PROVE  v \in LiveVersions'
      BY <1>5, <3>1, <3>3 DEF RefreshInv, StoreOK, PendingSound
    <3>4. PendingSound'
      BY <1>3, <3>2, <3>3 DEF PendingSound, Sealed
    <3>5. QED BY <3>2, <3>4
  <2>4. QED BY <2>1, <2>2, <2>3 DEF StoreOK
<1>8. ASSUME NEW r \in Runs, NEW k \in RunState, run[r] = k, Expects(k)
      PROVE  Expects(k)'
  <2>1. k.pc \notin Lone
    BY <1>1, <1>8 DEF Expects, ExpectsJobs, NoLive
  <2>2. ExpectsStart(k)'
    BY <1>3, <1>8 DEF Expects, ExpectsStart, Emptied
  <2>3. ExpectsTable(k)'
    BY <2>1 DEF ExpectsTable, Lone, Alone, Reconciling
  <2>4. ExpectsBatch(k)'
    <3>1. k.pc \notin {"begin", "readPosition", "writePending", "submit", "put", "update", "readCurrent", "record"}
      BY <2>1 DEF Lone, Alone
    <3>2. QED BY <1>3, <1>8, <3>1 DEF Expects, ExpectsBatch
  <2>5. ExpectsJobs(k)'
    <3>1. k.pc = "settling" => \A i \in DOMAIN jobs' : Live(i)' => i \in k.orphans
      BY <1>6 DEF NoLive
    <3>2. ASSUME k.pc \in WithJob
          PROVE  /\ k.job \in DOMAIN jobs' /\ jobs'[k.job].batch = k.batch
                 /\ \A i \in DOMAIN jobs' : Live(i)' => i = k.job
                 /\ jobs'[k.job].state = "succeeded" <=> InLog(pending)'
      <4>1. k.job = j /\ k.batch = pending
        BY <1>1, <1>8, <3>2 DEF Expects, ExpectsJobs, ExpectsBatch, InBatch
      <4>2. jobs[j].batch = k.batch
        BY <1>8, <3>2, <4>1 DEF Expects, ExpectsJobs
      <4>3. InLog(pending)'
        BY <1>3, <1>5, <4>1, <4>2 DEF InLog, b
      <4>4. QED BY <1>4, <1>6, <4>1, <4>2, <4>3 DEF NoLive
    <3>3. QED BY <1>3, <2>1, <3>1, <3>2 DEF ExpectsJobs
  <2>6. QED BY <2>2, <2>3, <2>4, <2>5 DEF Expects
<1>9. QED BY <1>3, <1>4, <1>7, <1>8, RunsStayPut

LEMMA OtherCommitKeepsRefresh ==
  ASSUME TypeInv, RefreshInv, OtherCommit
  PROVE  RefreshInv'
<1>1. /\ log' = Append(log, NoBatch)
      /\ UNCHANGED <<watermark, writtenAt, pending, batches, jobs, run>>
  BY DEF OtherCommit, checkpoint
<1>2. PICK new \in Nat :
         /\ DOMAIN log' = (DOMAIN log) \cup {new} /\ new \notin DOMAIN log
         /\ \A v \in DOMAIN log : log'[v] = log[v] /\ CommittedFiles(v)' = CommittedFiles(v)
         /\ log'[new] = NoBatch
         /\ LiveVersions' = LiveVersions \cup {new}
         /\ \A f \in Files : InTable(f) => InTable(f)'
         /\ \A n : Past(n) => Past(n)'
  <2>1. NoBatch \in 0..Len(batches)
    BY Facts DEF NoBatch
  <2>2. QED BY <1>1, <2>1, AppendedTable
<1>3. \A b : b # NoBatch => (InLog(b)' <=> InLog(b))
  BY <1>2 DEF InLog
<1>4. \A j \in DOMAIN jobs : jobs[j].batch # NoBatch
  BY Facts DEF NoBatch
<1>5. StoreOK'
  <2>1. LiveSound'
    BY <1>1, <1>3, <1>4 DEF RefreshInv, StoreOK, LiveSound, Live, InLog
  <2>2. (pending # NoBatch => Sealed(pending)') /\ WatermarkSound'
    BY <1>1, <1>2, GrownStore DEF RefreshInv
  <2>3. ASSUME pending # NoBatch, NEW v \in DOMAIN log', log'[v] = pending
        PROVE  v \in LiveVersions'
    BY <1>2, <2>3 DEF RefreshInv, StoreOK, PendingSound
  <2>4. PendingSound'
    BY <1>1, <2>2, <2>3 DEF PendingSound, Sealed
  <2>5. QED BY <2>1, <2>2, <2>4 DEF StoreOK
<1>6. ASSUME NEW r \in Runs, NEW k \in RunState, run[r] = k, Expects(k)
      PROVE  Expects(k)'
  <2>1. k.wm \in Watermark /\ k.files \in SUBSET Files
    BY DEF RunState
  <2>2. ExpectsStart(k)'
    BY <1>1, <1>6 DEF Expects, ExpectsStart, Emptied
  <2>3. pending # NoBatch => (InLog(pending)' <=> InLog(pending))
    BY <1>1, <1>3 DEF InLog
  <2>4. ExpectsTable(k)'
    <3>1. Kept(k.wm) => Kept(k.wm)'
      BY <1>2, <2>1, GrownTable
    <3>2. (Past(k.latest) => Past(k.latest)') /\ (Past(k.version) => Past(k.version)')
      BY <1>2
    <3>3. QED BY <1>1, <1>6, <2>3, <3>1, <3>2 DEF Expects, ExpectsTable
  <2>5. ExpectsBatch(k)'
    <3>1. Unbroken(k.files) => Unbroken(k.files)'
      BY <1>2, <2>1, GrownTable
    <3>2. k.pc \in {"submit", "put", "update", "readCurrent", "record"} => pending # NoBatch
      BY <1>6 DEF Expects, ExpectsBatch, InBatch
    <3>3. QED BY <1>1, <1>6, <2>3, <3>1, <3>2 DEF Expects, ExpectsBatch, Whole, FirstBatch
  <2>6. ExpectsJobs(k)'
    <3>1. k.pc \in WithJob => pending # NoBatch
      BY <1>6 DEF Expects, ExpectsBatch, InBatch
    <3>2. QED BY <1>1, <1>6, <2>3, <3>1 DEF Expects, ExpectsJobs, Live, NoLive
  <2>7. QED BY <2>2, <2>4, <2>5, <2>6 DEF Expects
<1>7. QED BY <1>1, <1>5, <1>6, RunsStayPut

-----------------------------------------------------------------------------
(* Starting, claiming and settling *)

LEMMA StartKeepsRefresh ==
  ASSUME ~Overlap, TypeInv, RefreshInv, NEW r \in Runs, Start(r)
  PROVE  RefreshInv'
<1>1. PICK m \in Modes : run' = [run EXCEPT ![r].mode = m,
            ![r].pc = IF m = "full" THEN "deleteWatermark" ELSE "claim"]
  BY DEF Start
<1>2. m \in {"incremental", "full"} /\ run[r].pc = "idle" /\ run \in [Runs -> RunState]
  BY Facts, ScenarioAssumption DEF Start, At
<1>3. PICK k \in RunState :
         /\ run'[r] = k /\ \A q \in Runs \ {r} : run'[q] = run[q]
         /\ \/ k.pc = "deleteWatermark"
            \/ k.pc = "claim" /\ k.mode = "incremental"
  BY <1>1, <1>2 DEF RunState, PCs
<1>4. UNCHANGED Shared
  BY DEF Start, Shared, checkpoint, delta
<1>5. Sequential'
  <2> SUFFICES ASSUME NEW q \in Runs, NEW p \in Runs, q < p, run'[p].pc # "idle"
               PROVE  run'[q].pc \in Over
    BY DEF Sequential
  <2>1. CASE p = r
    <3>1. run[q].pc \in (IF Overlap THEN PCs \ {"idle"} ELSE Over)
      BY <2>1 DEF Start
    <3>2. q # r
      BY <2>1, RunsAssumption DEF Runs
    <3>3. QED BY <1>3, <3>1, <3>2
  <2>2. CASE p # r
    <3>1. run[q].pc \in Over
      BY <1>3, <2>2 DEF RefreshInv, Sequential
    <3>2. q # r
      BY <1>2, <3>1 DEF Over
    <3>3. QED BY <1>3, <3>1, <3>2
  <2>3. QED BY <2>1, <2>2
<1>6. JobsStarted'
  <2>1. \A j \in DOMAIN jobs : jobs[j].run # r /\ jobs[j].run \in Runs
    BY <1>2, Facts DEF RefreshInv, JobsStarted, Unstarted, Job
  <2>2. QED BY <1>3, <1>4, <2>1 DEF RefreshInv, JobsStarted, Shared
<1>7. Expects(k)
  <2>1. CASE k.pc = "deleteWatermark"
    BY <2>1, OverExpects
  <2>2. CASE k.pc = "claim" /\ k.mode = "incremental"
    <3>1. ExpectsStart(k)
      BY <2>2 DEF ExpectsStart, Emptied, Batching, InBatch, WithJob
    <3>2. ExpectsTable(k) /\ ExpectsBatch(k) /\ ExpectsJobs(k)
      BY <2>2 DEF ExpectsTable, ExpectsBatch, ExpectsJobs, Reconciling, InBatch, WithJob, Lone, Alone
    <3>3. QED BY <3>1, <3>2 DEF Expects
  <2>3. QED BY <1>3, <2>1, <2>2
<1>8. ASSUME NEW q \in Runs PROVE Expects(run[q])'
  <2>1. PICK l \in RunState : run'[q] = l /\ Expects(l)
    <3>1. CASE q = r
      BY <1>3, <1>7, <3>1
    <3>2. CASE q # r
      BY <1>2, <1>3, <3>2 DEF RefreshInv
    <3>3. QED BY <3>1, <3>2
  <2>2. QED BY <1>4, <2>1, SharedKeepsExpects, ExpectsMoves
<1>9. StoreOK'
  BY <1>4, SharedKeepsStore DEF RefreshInv
<1>10. QED BY <1>5, <1>6, <1>8, <1>9 DEF RefreshInv

(* delete_checkpoint, the watermark. *)
LEMMA DeleteWatermarkKeepsRefresh ==
  ASSUME OneAtATime, TypeInv, RefreshInv, NEW r \in Runs, DeleteWatermark(r)
  PROVE  RefreshInv'
<1>1. /\ watermark' = NoWatermark /\ Goto(r, "clearPending")
      /\ UNCHANGED <<writtenAt, pending, batches, log, jobs>> /\ run[r].pc = "deleteWatermark"
  BY DEF DeleteWatermark, At, Fault, OneAtATime, WatermarkDeleted, delta
<1>2. StoreOK'
  <2>1. LiveSound'
    BY <1>1 DEF RefreshInv, StoreOK, LiveSound, Live, InLog
  <2>2. PendingSound'
    BY <1>1, SharedKept DEF RefreshInv, StoreOK, PendingSound
  <2>3. WatermarkSound'
    BY <1>1, FilesAssumption DEF WatermarkSound, Kept, NoWatermark
  <2>4. QED BY <2>1, <2>2, <2>3 DEF StoreOK
<1>3. PICK k \in RunState : run' = [run EXCEPT ![r] = k] /\ k.pc = "clearPending"
  BY <1>1, GotoLocals DEF PCs
<1>4. Expects(k)'
  <2>1. ExpectsStart(k)'
    BY <1>1, <1>3 DEF ExpectsStart, Refreshing, Batching, InBatch, WithJob
  <2>2. ExpectsTable(k)' /\ ExpectsBatch(k)' /\ ExpectsJobs(k)'
    BY <1>3 DEF ExpectsTable, ExpectsBatch, ExpectsJobs, Reconciling, InBatch, WithJob, Lone, Alone
  <2>3. QED BY <2>1, <2>2 DEF Expects
<1>5. run[r].pc \in Unstarted /\ run[r].pc \notin Over \cup {"idle"}
  BY <1>1 DEF Unstarted, Over
<1>6. QED BY <1>1, <1>2, <1>3, <1>4, <1>5, RunStepKeeps DEF OneAtATime

(* delete_checkpoint, the pending batch. *)
LEMMA ClearPendingKeepsRefresh ==
  ASSUME ~Overlap, TypeInv, RefreshInv, NEW r \in Runs, ClearPending(r)
  PROVE  RefreshInv'
<1>1. /\ UNCHANGED <<watermark, writtenAt, batches, log, jobs>> /\ run[r].pc = "clearPending"
      /\ run[r].pc \in Unstarted /\ run[r].pc \notin Over \cup {"idle"}
  BY DEF ClearPending, At, delta, Unstarted, Over
<1>2. CASE UNCHANGED pending /\ End(r, "failed")
  BY <1>1, <1>2, QuietEnd DEF Over, Shared
<1>3. CASE pending' = NoBatch /\ Goto(r, "claim")
  <2>1. StoreOK'
    <3>1. LiveSound'
      BY <1>1, <1>3 DEF RefreshInv, StoreOK, LiveSound, Live, InLog
    <3>2. PendingSound'
      BY <1>3 DEF PendingSound
    <3>3. WatermarkSound'
      BY <1>1, SharedKept DEF RefreshInv, StoreOK, WatermarkSound
    <3>4. QED BY <3>1, <3>2, <3>3 DEF StoreOK
  <2>2. PICK k \in RunState : /\ run' = [run EXCEPT ![r] = k] /\ k.pc = "claim"
                              /\ k.mode = run[r].mode
    BY <1>3, GotoLocals DEF PCs
  <2>3. Expects(k)'
    <3>1. k.mode = "full" => watermark = NoWatermark
      BY <1>1, <2>2 DEF RefreshInv, Expects, ExpectsStart, Emptied, Refreshing
    <3>2. ExpectsStart(k)'
      BY <1>1, <1>3, <2>2, <3>1 DEF ExpectsStart, Emptied, Batching, InBatch, WithJob
    <3>3. ExpectsTable(k)' /\ ExpectsBatch(k)' /\ ExpectsJobs(k)'
      BY <2>2 DEF ExpectsTable, ExpectsBatch, ExpectsJobs, Reconciling, InBatch, WithJob, Lone, Alone
    <3>4. QED BY <3>2, <3>3 DEF Expects
  <2>4. QED BY <1>1, <2>1, <2>2, <2>3, RunStepKeeps
<1>4. QED BY <1>2, <1>3 DEF ClearPending

LEMMA ClaimKeepsRefresh ==
  ASSUME ~Overlap, TypeInv, RefreshInv, NEW r \in Runs, Claim(r)
  PROVE  RefreshInv'
<1>1. /\ UNCHANGED Shared /\ run[r].pc = "claim"
      /\ run[r].pc \in Unstarted /\ run[r].pc \notin Over \cup {"idle"}
  BY DEF Claim, At, Shared, delta, Unstarted, Over
<1>2. CASE End(r, "superseded") \/ End(r, "crashed")
  BY <1>1, <1>2, QuietEnd DEF Over
<1>3. CASE Goto(r, "listOrphans")
  <2>1. PICK k \in RunState : /\ run' = [run EXCEPT ![r] = k] /\ k.pc = "listOrphans"
                              /\ k.mode = run[r].mode
    BY <1>3, GotoLocals DEF PCs
  <2>2. Expects(k)
    <3>1. k.mode = "full" => watermark = NoWatermark /\ pending = NoBatch
      BY <1>1, <2>1 DEF RefreshInv, Expects, ExpectsStart, Emptied, Refreshing
    <3>2. ExpectsStart(k)
      BY <2>1, <3>1 DEF ExpectsStart, Emptied, Batching, InBatch, WithJob
    <3>3. ExpectsTable(k) /\ ExpectsBatch(k) /\ ExpectsJobs(k)
      BY <2>1 DEF ExpectsTable, ExpectsBatch, ExpectsJobs, Reconciling, InBatch, WithJob, Lone, Alone
    <3>4. QED BY <3>2, <3>3 DEF Expects
  <2>3. QED BY <1>1, <2>1, <2>2, QuietMove
<1>4. QED BY <1>2, <1>3 DEF Claim

(* Every live job is an orphan of the run that lists them. *)
LEMMA ListOrphansKeepsRefresh ==
  ASSUME OneAtATime, TypeInv, RefreshInv, NEW r \in Runs, ListOrphans(r)
  PROVE  RefreshInv'
<1>1. PICK listed \in Listed(r) :
         /\ jobs' = Cancelled(listed)
         /\ run' = [run EXCEPT ![r].orphans = listed, ![r].pc = "settling"]
  BY DEF ListOrphans
<1>2. listed = Orphans(r)
  BY DEF OneAtATime, OrphansListed, Listed, Fault
<1>3. /\ run[r] \in RunState /\ run[r].pc = "listOrphans" /\ Orphans(r) \in SUBSET Nat
      /\ UNCHANGED <<watermark, writtenAt, pending, batches, log>>
      /\ run[r].pc \in Unstarted /\ run[r].pc \notin Over \cup {"idle"}
  BY Facts DEF ListOrphans, At, Orphans, checkpoint, delta, Unstarted, Over
<1>4. PICK k \in RunState : /\ run' = [run EXCEPT ![r] = k] /\ k.pc = "settling"
                            /\ k.mode = run[r].mode /\ k.orphans = Orphans(r)
  <2> DEFINE k == [run[r] EXCEPT !.orphans = Orphans(r), !.pc = "settling"]
  <2>1. k \in RunState /\ k.pc = "settling" /\ k.mode = run[r].mode /\ k.orphans = Orphans(r)
    BY <1>3 DEF RunState, PCs
  <2>2. run' = [run EXCEPT ![r] = k]
    BY <1>1, <1>2
  <2> HIDE DEF k
  <2>3. QED BY <2>1, <2>2
<1>5. Ease
  BY <1>1, <1>3, CancelEases
<1>6. Expects(k)
  <2>1. k.mode = "full" => watermark = NoWatermark /\ pending = NoBatch
    BY <1>3, <1>4 DEF RefreshInv, Expects, ExpectsStart, Emptied, Refreshing
  <2>2. ExpectsStart(k)
    BY <1>4, <2>1 DEF ExpectsStart, Emptied, Batching, InBatch, WithJob
  <2>3. ASSUME NEW j \in DOMAIN jobs, Live(j) PROVE j \in Orphans(r)
    <3>1. jobs[j].run # r
      BY <1>3 DEF RefreshInv, JobsStarted
    <3>2. QED BY <2>3, <3>1 DEF Orphans, Live
  <2>4. ExpectsTable(k) /\ ExpectsBatch(k) /\ ExpectsJobs(k)
    BY <1>4, <2>3 DEF ExpectsTable, ExpectsBatch, ExpectsJobs, Reconciling, InBatch, WithJob, Lone, Alone
  <2>5. QED BY <2>2, <2>4 DEF Expects
<1>7. StoreOK' /\ Expects(k)'
  BY <1>3, <1>5, <1>6, EaseKeepsStore, EaseKeepsExpects DEF RefreshInv
<1>8. \A j \in DOMAIN jobs' : j \in DOMAIN jobs /\ jobs'[j].run = jobs[j].run
  BY <1>5 DEF Ease
<1>9. QED BY <1>3, <1>4, <1>7, <1>8, RunStepKeeps DEF OneAtATime

LEMMA SettledKeepsRefresh ==
  ASSUME ~Overlap, TypeInv, RefreshInv, NEW r \in Runs, Settled(r)
  PROVE  RefreshInv'
<1>1. /\ UNCHANGED Shared /\ run[r].pc = "settling" /\ Expects(run[r])
      /\ run[r].pc \notin Over \cup {"idle"} /\ Goto(r, "readTable")
  BY DEF Settled, At, Shared, checkpoint, delta, Over, RefreshInv
<1>2. NoLive
  BY <1>1 DEF Settled, Expects, ExpectsJobs, NoLive, Live
<1>3. PICK k \in RunState : /\ run' = [run EXCEPT ![r] = k] /\ k.pc = "readTable"
                            /\ k.mode = run[r].mode
  BY <1>1, GotoLocals DEF PCs
<1>4. Expects(k)
  <2>1. k.mode = "full" => watermark = NoWatermark /\ pending = NoBatch
    BY <1>1, <1>3 DEF Expects, ExpectsStart, Emptied, Refreshing
  <2>2. ExpectsStart(k)
    BY <1>3, <2>1 DEF ExpectsStart, Emptied, Batching, InBatch, WithJob
  <2>3. ExpectsTable(k) /\ ExpectsBatch(k) /\ ExpectsJobs(k)
    BY <1>2, <1>3 DEF ExpectsTable, ExpectsBatch, ExpectsJobs, Reconciling, InBatch, WithJob
  <2>4. QED BY <2>2, <2>3 DEF Expects
<1>5. k.pc \notin Unstarted
  BY <1>3 DEF Unstarted
<1>6. QED BY <1>1, <1>3, <1>4, <1>5, QuietMove

LEMMA PrepareKeepsRefresh ==
  ASSUME OneAtATime, TypeInv, RefreshInv, NEW r \in Runs, Prepare(r)
  PROVE  RefreshInv'
<1>1. CASE SettleTimeout(r)
  BY <1>1, QuietEnd DEF SettleTimeout, At, Over, Shared, checkpoint, delta, OneAtATime
<1>2. QED BY <1>1, StartKeepsRefresh, DeleteWatermarkKeepsRefresh, ClearPendingKeepsRefresh,
             ClaimKeepsRefresh, ListOrphansKeepsRefresh, SettledKeepsRefresh
          DEF Prepare, OneAtATime

LEMMA CrashKeepsRefresh ==
  ASSUME ~Overlap, TypeInv, RefreshInv, NEW r \in Runs, Crash(r)
  PROVE  RefreshInv'
BY QuietEnd DEF Crash, Over, Shared, checkpoint, delta

-----------------------------------------------------------------------------
(* Reconciling *)

LEMMA RecordingKeeps ==
  ASSUME NEW fs \in SUBSET Files, fs # {}, Unbroken(fs), \A f \in fs : InTable(f),
         NEW w \in Watermark, NEW version \in Nat
  PROVE  Kept(NewWatermark(fs, w, version))
<1>1. PICK g \in fs : NewWatermark(fs, w, version).modified = MTime[g]
  BY NewWatermarkIsNewest
<1>2. QED BY <1>1 DEF Kept, Unbroken

(* The pending batch, once it has its commit, may be recorded.              *)
LEMMA SealedRecords ==
  ASSUME TypeInv, StoreOK, pending # NoBatch, InLog(pending),
         NEW fs \in SUBSET Files, fs = batches[pending].files,
         NEW w \in Watermark, NEW version \in Nat
  PROVE  Kept(NewWatermark(fs, w, version))
<1>1. pending \in 1..Len(batches)
  BY Facts DEF NoBatch
<1>2. fs # {}
  BY <1>1, Facts DEF Batch
<1>3. \A f \in fs : InTable(f)
  <2>1. PICK v \in LiveVersions : log[v] = pending
    BY DEF InLog, StoreOK, PendingSound
  <2>2. QED BY <2>1 DEF InTable, CommittedFiles
<1>4. Unbroken(fs)
  BY DEF StoreOK, PendingSound, Sealed, Whole, Unbroken
<1>5. QED BY <1>2, <1>3, <1>4, RecordingKeeps

(* A version that carries the token of the pending batch has no deletion    *)
(* after it.                                                                *)
LEMMA LiveIsPast ==
  ASSUME TypeInv, NEW v \in LiveVersions
  PROVE  Past(v)
BY Facts DEF LiveVersions, Past

LEMMA TokenVersionIsPast ==
  ASSUME TypeInv, NEW b \in 1..Len(batches), NEW seen \in Nat, Past(seen),
         \A v \in DOMAIN log : log[v] = b => v \in LiveVersions
  PROVE  Past(TokenVersion(b, seen)) \/ TokenVersion(b, seen) = 0
<1> DEFINE after == batches[b].deltaBefore
           hits  == {v \in (after + 1)..seen : v > cleaned /\ v \in DOMAIN log /\ log[v] = b}
<1>1. CASE hits # {}
  <2>1. hits \in SUBSET Nat
    BY Facts DEF Batch
  <2>2. \E v \in hits : \A w \in hits : v <= w
    <3> HIDE DEF hits
    <3>1. QED BY <1>1, <2>1, LeastExists, Zenon
  <2>3. TokenVersion(b, seen) \in hits
    BY <1>1, <2>2 DEF TokenVersion
  <2>4. QED BY <2>3, LiveIsPast
<1>2. CASE hits = {}
  BY <1>2 DEF TokenVersion
<1>3. QED BY <1>1, <1>2

(* Writing a watermark that holds, while no job is alive. *)
LEMMA WriteKeepsStore ==
  ASSUME TypeInv, StoreOK, NoLive, UNCHANGED <<pending, batches, log, jobs>>,
         NEW w \in Watermark, WriteWatermark(w), Kept(w), w.delta # 0 => Past(w.delta)
  PROVE  StoreOK' /\ watermark' = w
<1>1. watermark' = w /\ writtenAt' = Len(log)
  BY DEF WriteWatermark
<1>2. LiveSound'
  BY DEF LiveSound, NoLive, Live
<1>3. PendingSound'
  BY SharedKept DEF StoreOK, PendingSound
<1>4. Past(Len(log))
  BY Facts DEF Past
<1>5. PICK n : n = Len(log)
  OBVIOUS
<1>6. PICK m : m = w.delta
  OBVIOUS
<1>7. Past(n)' /\ (m # 0 => Past(m)') /\ Kept(w)'
  BY <1>4, <1>5, <1>6, SharedKept
<1>8. WatermarkSound'
  BY <1>1, <1>5, <1>6, <1>7 DEF WatermarkSound, Kept, Past
<1>9. QED BY <1>1, <1>2, <1>3, <1>8 DEF StoreOK

LEMMA NoLiveStays ==
  ASSUME NoLive, UNCHANGED jobs
  PROVE  NoLive'
BY DEF NoLive, Live

(* pending.json may be deleted while no job is alive. *)
LEMMA PendingMayGo ==
  ASSUME StoreOK, NoLive, UNCHANGED <<watermark, writtenAt, batches, log, jobs>>,
         pending' \in {NoBatch, pending}
  PROVE  StoreOK'
<1>1. LiveSound'
  BY DEF LiveSound, NoLive, Live
<1>2. PendingSound'
  BY SharedKept DEF StoreOK, PendingSound
<1>3. WatermarkSound'
  BY SharedKept DEF StoreOK, WatermarkSound
<1>4. QED BY <1>1, <1>2, <1>3 DEF StoreOK

LEMMA ReadTableKeepsRefresh ==
  ASSUME ~Overlap, TypeInv, RefreshInv, NEW r \in Runs, ReadTable(r)
  PROVE  RefreshInv'
<1>1. /\ UNCHANGED Shared /\ run[r].pc = "readTable" /\ Expects(run[r]) /\ run[r] \in RunState
      /\ run[r].pc \notin Over \cup {"idle"}
  BY Facts DEF ReadTable, At, Shared, checkpoint, delta, Over, RefreshInv
<1>2. PICK k \in RunState :
         /\ run' = [run EXCEPT ![r] = k] /\ k.pc = "resolve" /\ k.mode = run[r].mode
         /\ k.wm = watermark /\ k.latest = Len(log)
  <2> DEFINE k == [run[r] EXCEPT !.wm = watermark, !.latest = Len(log), !.pc = "resolve"]
  <2>1. /\ k \in RunState /\ k.pc = "resolve" /\ k.mode = run[r].mode
        /\ k.wm = watermark /\ k.latest = Len(log)
    BY <1>1, Facts DEF RunState, PCs
  <2>2. run' = [run EXCEPT ![r] = k]
    BY DEF ReadTable
  <2> HIDE DEF k
  <2>3. QED BY <2>1, <2>2
<1>3. Expects(k)
  <2>1. k.mode = "full" => watermark = NoWatermark /\ pending = NoBatch
    BY <1>1, <1>2 DEF Expects, ExpectsStart, Emptied, Refreshing
  <2>2. ExpectsStart(k)
    BY <1>2, <2>1 DEF ExpectsStart, Emptied, Batching, InBatch, WithJob
  <2>3. Past(k.latest)
    BY <1>2, Facts DEF Past
  <2>4. NoLive
    BY <1>1 DEF Expects, ExpectsJobs, Lone, Alone
  <2>5. ExpectsTable(k) /\ ExpectsBatch(k) /\ ExpectsJobs(k)
    BY <1>2, <2>3, <2>4 DEF ExpectsTable, ExpectsBatch, ExpectsJobs, InBatch, WithJob
  <2>6. QED BY <2>2, <2>5 DEF Expects
<1>4. k.pc \notin Unstarted
  BY <1>2 DEF Unstarted
<1>5. QED BY <1>1, <1>2, <1>3, <1>4, QuietMove

LEMMA ResolvePendingKeepsRefresh ==
  ASSUME ~Overlap, TypeInv, RefreshInv, NEW r \in Runs, ResolvePending(r)
  PROVE  RefreshInv'
<1>1. /\ UNCHANGED Shared /\ run[r].pc = "resolve" /\ Expects(run[r]) /\ run[r] \in RunState
      /\ run[r].pc \notin Over \cup {"idle"} /\ StoreOK
  BY Facts DEF ResolvePending, At, Shared, checkpoint, delta, Over, RefreshInv
<1>2. /\ NoLive /\ run[r].wm = watermark /\ Past(run[r].latest)
      /\ run[r].mode = "full" => watermark = NoWatermark /\ pending = NoBatch
  BY <1>1 DEF Expects, ExpectsJobs, ExpectsTable, ExpectsStart, Lone, Alone, Reconciling,
              Emptied, Refreshing
<1>3. CASE pending = NoBatch /\ Goto(r, "adopt")
  <2>1. PICK k \in RunState :
           /\ run' = [run EXCEPT ![r] = k] /\ k.pc = "adopt" /\ k.mode = run[r].mode
           /\ k.wm = run[r].wm /\ k.latest = run[r].latest
    BY <1>3, GotoLocals DEF PCs
  <2>2. Expects(k)
    <3>1. ExpectsStart(k)
      BY <1>2, <2>1 DEF ExpectsStart, Emptied, Batching, InBatch, WithJob
    <3>2. ExpectsTable(k) /\ ExpectsBatch(k) /\ ExpectsJobs(k)
      BY <1>2, <2>1 DEF ExpectsTable, ExpectsBatch, ExpectsJobs, InBatch, WithJob
    <3>3. QED BY <3>1, <3>2 DEF Expects
  <2>3. k.pc \notin Unstarted
    BY <2>1 DEF Unstarted
  <2>4. QED BY <1>1, <2>1, <2>2, <2>3, QuietMove
<1>4. CASE pending # NoBatch
  <2> DEFINE v == IF Applies(pending, run[r].wm)
                    THEN TokenVersion(pending, run[r].latest) ELSE 0
             label == IF v = 0 THEN "dropPending" ELSE "recordPending"
             k == [run[r] EXCEPT !.batch = pending, !.version = v, !.pc = label]
  <2>1. run' = [run EXCEPT ![r] = k]
    BY <1>4 DEF ResolvePending
  <2>2. pending \in 1..Len(batches) /\ pending \in Nat /\ run[r].latest \in Nat
    BY <1>1, <1>4, Facts DEF NoBatch, RunState
  <2>3. v \in Nat /\ (v # 0 => InLog(pending))
    BY <2>2, TokenVersionFound DEF InLog
  <2>4. v # 0 => Past(v)
    <3>1. \A n \in DOMAIN log : log[n] = pending => n \in LiveVersions
      BY <1>1, <1>4 DEF StoreOK, PendingSound
    <3>2. QED BY <1>2, <2>2, <3>1, TokenVersionIsPast
  <2>5. label \in {"dropPending", "recordPending"} /\ (label = "recordPending" => v # 0)
    OBVIOUS
  <2> HIDE DEF v, label
  <2>6. /\ k \in RunState /\ k.pc = label /\ k.batch = pending /\ k.version = v
        /\ k.wm = run[r].wm /\ k.latest = run[r].latest /\ k.mode = run[r].mode
    BY <1>1, <2>2, <2>3, <2>5 DEF RunState, PCs
  <2> HIDE DEF k
  <2>7. Expects(k)
    <3>0. k.mode # "full" /\ k.pc \in {"dropPending", "recordPending"}
      BY <1>2, <1>4, <2>5, <2>6
    <3>1. ExpectsStart(k)
      BY <3>0 DEF ExpectsStart, Emptied, Batching, InBatch, WithJob
    <3>2. ExpectsTable(k)
      BY <1>2, <1>4, <2>3, <2>4, <2>5, <2>6 DEF ExpectsTable
    <3>3. ExpectsBatch(k) /\ ExpectsJobs(k)
      BY <1>2, <2>5, <2>6 DEF ExpectsBatch, ExpectsJobs, InBatch, WithJob
    <3>4. QED BY <3>1, <3>2, <3>3 DEF Expects
  <2>8. k.pc \notin Unstarted
    BY <2>5, <2>6 DEF Unstarted
  <2>9. QED BY <1>1, <2>1, <2>6, <2>7, <2>8, QuietMove
<1>5. QED BY <1>3, <1>4 DEF ResolvePending

LEMMA RecordPendingKeepsRefresh ==
  ASSUME ~Overlap, TypeInv, RefreshInv, NEW r \in Runs, RecordPending(r)
  PROVE  RefreshInv'
<1>1. /\ UNCHANGED <<pending, batches, log, jobs>> /\ run[r].pc = "recordPending"
      /\ Expects(run[r]) /\ run[r] \in RunState
      /\ run[r].pc \notin Over \cup {"idle"} /\ StoreOK
  BY Facts DEF RecordPending, At, delta, Over, RefreshInv
<1>2. /\ NoLive /\ run[r].wm = watermark /\ Past(run[r].latest) /\ run[r].mode # "full"
      /\ run[r].batch = pending /\ pending # NoBatch /\ InLog(pending) /\ Past(run[r].version)
  BY <1>1 DEF Expects, ExpectsJobs, ExpectsTable, ExpectsStart, Lone, Alone, Reconciling
<1>3. PICK fs \in SUBSET Files : fs = batches[pending].files /\ fs # {}
  BY <1>2, Facts DEF NoBatch, Batch
<1>4. PICK w \in Watermark : /\ w = NewWatermark(fs, watermark, run[r].version)
                             /\ w.delta = run[r].version
  <2>1. run[r].version \in Nat /\ watermark \in Watermark
    BY <1>1, Facts DEF RunState
  <2>2. NewWatermark(fs, watermark, run[r].version) \in Watermark
    BY <1>3, <2>1, NewWatermarkIsNewest
  <2>3. QED BY <2>2 DEF NewWatermark
<1>5. WriteWatermark(w)
  BY <1>2, <1>3, <1>4 DEF RecordPending
<1>6. Kept(w)
  BY <1>1, <1>2, <1>3, <1>4, Facts, SealedRecords DEF RunState
<1>7. StoreOK' /\ watermark' = w
  BY <1>1, <1>2, <1>4, <1>5, <1>6, WriteKeepsStore
<1>8. \E k \in RunState : /\ run' = [run EXCEPT ![r] = k] /\ k.pc \notin Unstarted
                          /\ Expects(k)'
  <2>1. CASE End(r, "failed")
    BY <2>1, EndLocals, OverExpects DEF Over, Unstarted
  <2>2. CASE ~End(r, "failed")
    <3> DEFINE k == [run[r] EXCEPT !.wm = w, !.pc = "dropPending"]
    <3>1. run' = [run EXCEPT ![r] = k]
      BY <1>2, <1>3, <1>4, <2>2 DEF RecordPending
    <3>2. /\ k \in RunState /\ k.pc = "dropPending" /\ k.mode = run[r].mode /\ k.wm = w
          /\ k.latest = run[r].latest
      BY <1>1 DEF RunState, PCs
    <3>3. PICK l \in RunState : l = k
      BY <3>2
    <3> HIDE DEF k
    <3>4. ExpectsStart(l)'
      BY <1>2, <3>2, <3>3 DEF ExpectsStart, Emptied, Batching, InBatch, WithJob
    <3>5. NoLive' /\ Past(l.latest)'
      BY <1>1, <1>2, <3>2, <3>3, NoLiveStays, SharedKept
    <3>6. ExpectsTable(l)' /\ ExpectsBatch(l)' /\ ExpectsJobs(l)'
      BY <1>7, <3>2, <3>3, <3>5 DEF ExpectsTable, ExpectsBatch, ExpectsJobs, InBatch, WithJob
    <3>7. l.pc \notin Unstarted
      BY <3>2, <3>3 DEF Unstarted
    <3>8. QED BY <3>1, <3>3, <3>4, <3>6, <3>7 DEF Expects
  <2>3. QED BY <2>1, <2>2
<1>9. \A j \in DOMAIN jobs' : j \in DOMAIN jobs /\ jobs'[j].run = jobs[j].run
  BY <1>1
<1>10. QED BY <1>1, <1>7, <1>8, <1>9, RunStepKeeps

LEMMA DropPendingKeepsRefresh ==
  ASSUME ~Overlap, TypeInv, RefreshInv, NEW r \in Runs, DropPending(r)
  PROVE  RefreshInv'
<1>1. /\ UNCHANGED <<watermark, writtenAt, batches, log, jobs>> /\ run[r].pc = "dropPending"
      /\ Expects(run[r]) /\ Goto(r, "adopt") /\ pending' \in {NoBatch, pending}
      /\ run[r].pc \notin Over \cup {"idle"} /\ StoreOK
  BY DEF DropPending, DeletePending, At, delta, Over, RefreshInv
<1>2. /\ NoLive /\ run[r].wm = watermark /\ Past(run[r].latest) /\ run[r].mode # "full"
  BY <1>1 DEF Expects, ExpectsJobs, ExpectsTable, ExpectsStart, Lone, Alone, Reconciling
<1>3. StoreOK'
  BY <1>1, <1>2, PendingMayGo
<1>4. PICK k \in RunState :
         /\ run' = [run EXCEPT ![r] = k] /\ k.pc = "adopt" /\ k.mode = run[r].mode
         /\ k.wm = run[r].wm /\ k.latest = run[r].latest
  BY <1>1, GotoLocals DEF PCs
<1>5. Expects(k)'
  <2>1. ExpectsStart(k)'
    BY <1>2, <1>4 DEF ExpectsStart, Emptied, Batching, InBatch, WithJob
  <2>2. NoLive' /\ Past(k.latest)'
    BY <1>1, <1>2, <1>4, NoLiveStays, SharedKept
  <2>3. ExpectsTable(k)' /\ ExpectsBatch(k)' /\ ExpectsJobs(k)'
    BY <1>1, <1>2, <1>4, <2>2 DEF ExpectsTable, ExpectsBatch, ExpectsJobs, InBatch, WithJob
  <2>4. QED BY <2>1, <2>3 DEF Expects
<1>6. k.pc \notin Unstarted /\ \A j \in DOMAIN jobs' : j \in DOMAIN jobs /\ jobs'[j].run = jobs[j].run
  BY <1>1, <1>4 DEF Unstarted
<1>7. QED BY <1>1, <1>3, <1>4, <1>5, <1>6, RunStepKeeps

(* Writing back the watermark held before, with the latest Delta version.   *)
LEMMA AdoptNothingKeeps ==
  ASSUME TypeInv, StoreOK, NoLive, UNCHANGED <<pending, batches, log, jobs>>,
         NEW r \in Runs, Past(run[r].latest), NEW w \in Watermark, Kept(w),
         AdoptNothing(r, w)
  PROVE  StoreOK' /\ (w = NoWatermark => watermark' = watermark)
<1>1. CASE UNCHANGED <<watermark, writtenAt>>
  <2>1. UNCHANGED Shared
    BY <1>1 DEF Shared
  <2>2. QED BY <1>1, <2>1, SharedKeepsStore
<1>2. CASE w # NoWatermark /\ WriteWatermark([w EXCEPT !.delta = run[r].latest])
  <2>1. run[r].latest \in Nat
    BY Facts DEF RunState
  <2>2. PICK u \in Watermark : /\ u = [w EXCEPT !.delta = run[r].latest]
                               /\ u.modified = w.modified /\ u.delta = run[r].latest
    <3>1. /\ [w EXCEPT !.delta = run[r].latest] \in Watermark
          /\ [w EXCEPT !.delta = run[r].latest].modified = w.modified
          /\ [w EXCEPT !.delta = run[r].latest].delta = run[r].latest
      BY <2>1 DEF Watermark
    <3>2. QED BY <3>1
  <2>3. Kept(u) /\ Past(u.delta) /\ WriteWatermark(u)
    BY <1>2, <2>2 DEF Kept
  <2>4. QED BY <1>2, <2>2, <2>3, WriteKeepsStore
<1>3. QED BY <1>1, <1>2 DEF AdoptNothing

(* What readable commits after the baseline ingested is still in the table: *)
(* no commit after the baseline deletes rows.                               *)
LEMMA BaselineIsPast ==
  ASSUME TypeInv, StoreOK, watermark # NoWatermark, NEW latest \in Nat,
         NEW v \in (Baseline(watermark, latest) + 1)..latest, v \in DOMAIN log
  PROVE  v \in LiveVersions
<1>1. watermark \in Watermark /\ watermark.delta \in Nat
  BY Facts DEF Watermark
<1>2. PICK n \in Int : n = Baseline(watermark, latest) /\ \A u \in DOMAIN log : Truncates(u) => u <= n
  <2>1. CASE watermark.delta # 0
    BY <1>1, <2>1 DEF Baseline, StoreOK, WatermarkSound, Past
  <2>2. CASE watermark.delta = 0
    <3> DEFINE floor == {writtenAt, latest - MaxLegacyCommits, cleaned}
    <3>1. writtenAt \in Int /\ latest - MaxLegacyCommits \in Int /\ cleaned \in Int
      BY Facts, BoundsAssumption DEF TypeInv, TypeOK
    <3>2. \E m \in floor : \A w \in floor : w <= m
      BY <3>1
    <3>3. (CHOOSE m \in floor : \A w \in floor : w <= m) \in floor
          /\ writtenAt <= (CHOOSE m \in floor : \A w \in floor : w <= m)
      BY <3>2
    <3>4. Baseline(watermark, latest) = (CHOOSE m \in floor : \A w \in floor : w <= m)
      BY <2>2 DEF Baseline, LegacyBaseline
    <3>5. Baseline(watermark, latest) \in Int /\ writtenAt <= Baseline(watermark, latest)
      BY <3>1, <3>3, <3>4
    <3>6. \A u \in DOMAIN log : Truncates(u) => u <= writtenAt /\ u \in Nat
      BY Facts DEF StoreOK, WatermarkSound, Past
    <3>7. QED BY <3>1, <3>5, <3>6
  <2>3. QED BY <2>1, <2>2
<1>3. v > n
  BY <1>2
<1>4. \A u \in DOMAIN log : u > v => ~Truncates(u)
  BY <1>2, <1>3, Facts
<1>5. QED BY <1>4 DEF LiveVersions

LEMMA AdoptedIsInTable ==
  ASSUME TypeInv, StoreOK, watermark # NoWatermark, NEW latest \in Nat,
         NEW f \in Adopted(watermark, latest)
  PROVE  InTable(f)
<1>1. PICK v \in (Baseline(watermark, latest) + 1)..latest :
         v \in DOMAIN log /\ f \in CommittedFiles(v)
  BY DEF Adopted
<1>2. QED BY <1>1, BaselineIsPast DEF InTable

LEMMA AdoptablePrefixKeeps ==
  ASSUME TypeInv, StoreOK, watermark # NoWatermark, NEW latest \in Nat,
         AdoptablePrefix(watermark, latest) # {}
  PROVE  Kept(NewWatermark(AdoptablePrefix(watermark, latest), watermark, latest))
<1> DEFINE prefix == AdoptablePrefix(watermark, latest)
<1>1. /\ prefix \in SUBSET Files /\ watermark \in Watermark /\ Kept(watermark)
      /\ \A f \in prefix : InTable(f)
  BY Facts, AdoptedIsInTable DEF AdoptablePrefix, Adopted, Unprocessed, StoreOK, WatermarkSound
<1>2. ASSUME NEW g \in prefix, NEW f \in Files, MTime[f] <= MTime[g]
      PROVE  InTable(f)
  <2>1. g \in Unprocessed(watermark)
        /\ \A h \in Unprocessed(watermark) \ Adopted(watermark, latest) : MTime[g] < MTime[h]
    BY DEF AdoptablePrefix, Adopted
  <2>2. g \in Files /\ MTime[g] <= cutoff /\ cutoff \in Nat
    BY <2>1, BoundsAssumption DEF Unprocessed, TypeInv, TypeOK
  <2>3. MTime[f] \in Nat /\ MTime[g] \in Nat /\ watermark.modified \in Nat
    BY <1>1, <2>2, OldTimes
  <2>4. CASE MTime[f] <= watermark.modified
    BY <1>1, <2>4 DEF Kept
  <2>5. CASE ~(MTime[f] <= watermark.modified)
    <3>1. f \in Unprocessed(watermark)
      BY <1>2, <2>2, <2>3, <2>5 DEF Unprocessed
    <3>2. f \in Adopted(watermark, latest)
      BY <1>2, <2>1, <2>3, <3>1
    <3>3. QED BY <3>2, AdoptedIsInTable
  <2>6. QED BY <2>4, <2>5
<1>3. Unbroken(prefix)
  BY <1>2 DEF Unbroken
<1> HIDE DEF prefix
<1>4. Kept(NewWatermark(prefix, watermark, latest))
  BY <1>1, <1>3, RecordingKeeps DEF prefix
<1>5. QED BY <1>4 DEF prefix

(* The run goes on to discovery, or to write the watermark back. *)
LEMMA ReconciledStep ==
  ASSUME ~Overlap, TypeInv, RefreshInv, NEW r \in Runs, StoreOK', NoLive,
         UNCHANGED <<batches, log, jobs>>, run[r].pc \notin Over \cup {"idle"},
         NEW label \in {"discover", "rewrite"}, Goto(r, label),
         run[r].mode = "full" => label = "discover" /\ watermark' = NoWatermark,
         label = "rewrite" => Kept(run[r].wm) /\ Past(run[r].latest)
  PROVE  RefreshInv'
<1>1. PICK k \in RunState :
         /\ run' = [run EXCEPT ![r] = k] /\ k.pc = label /\ k.mode = run[r].mode
         /\ k.wm = run[r].wm /\ k.latest = run[r].latest
  BY GotoLocals DEF PCs
<1>2. Expects(k)'
  <2>1. ExpectsStart(k)'
    BY <1>1 DEF ExpectsStart, Emptied, Refreshing, Batching, InBatch, WithJob
  <2>2. NoLive' /\ (label = "rewrite" => Kept(k.wm)' /\ Past(k.latest)')
    BY <1>1, NoLiveStays, SharedKept
  <2>3. ExpectsTable(k)' /\ ExpectsBatch(k)' /\ ExpectsJobs(k)'
    BY <1>1, <2>2 DEF ExpectsTable, ExpectsBatch, ExpectsJobs, Reconciling, InBatch, WithJob
  <2>4. QED BY <2>1, <2>3 DEF Expects
<1>3. k.pc \notin Unstarted /\ \A j \in DOMAIN jobs' : j \in DOMAIN jobs /\ jobs'[j].run = jobs[j].run
  BY <1>1 DEF Unstarted
<1>4. QED BY <1>1, <1>2, <1>3, RunStepKeeps

LEMMA AdoptKeepsRefresh ==
  ASSUME ~Overlap, TypeInv, RefreshInv, NEW r \in Runs, Adopt(r)
  PROVE  RefreshInv'
<1>1. /\ UNCHANGED <<pending, batches, log, jobs>> /\ run[r].pc = "adopt"
      /\ Expects(run[r]) /\ run[r] \in RunState /\ watermark \in Watermark
      /\ run[r].pc \notin Over \cup {"idle"} /\ StoreOK
  BY Facts DEF Adopt, At, delta, Over, RefreshInv
<1>2. /\ NoLive /\ run[r].wm = watermark /\ Past(run[r].latest) /\ Kept(watermark)
      /\ run[r].mode = "full" => watermark = NoWatermark
  BY <1>1 DEF Expects, ExpectsJobs, ExpectsTable, ExpectsStart, Lone, Alone, Reconciling,
              Emptied, Refreshing, StoreOK, WatermarkSound
<1> DEFINE latest == run[r].latest
           prefix == IF watermark = NoWatermark \/ Baseline(watermark, latest) >= latest
                       THEN {} ELSE AdoptablePrefix(watermark, latest)
<1>3. CASE AdoptNothing(r, watermark) /\ Goto(r, "discover")
  <2>1. StoreOK' /\ (watermark = NoWatermark => watermark' = watermark)
    BY <1>1, <1>2, <1>3, AdoptNothingKeeps
  <2>2. QED BY <1>1, <1>2, <1>3, <2>1, ReconciledStep
<1>4. CASE /\ prefix # {}
           /\ WriteWatermark(NewWatermark(prefix, watermark, latest))
           /\ Goto(r, "discover") \/ Goto(r, "rewrite")
  <2>1. /\ watermark # NoWatermark /\ prefix = AdoptablePrefix(watermark, latest)
        /\ run[r].mode # "full" /\ latest \in Nat /\ prefix \in SUBSET Files
    BY <1>1, <1>2, <1>4 DEF RunState, AdoptablePrefix, Adopted, Unprocessed
  <2>2. Kept(NewWatermark(prefix, watermark, latest))
    BY <1>1, <1>4, <2>1, AdoptablePrefixKeeps
  <2>3. PICK w \in Watermark : w = NewWatermark(prefix, watermark, latest) /\ w.delta = latest
    <3>1. NewWatermark(prefix, watermark, latest) \in Watermark
      BY <1>1, <1>4, <2>1, NewWatermarkIsNewest
    <3>2. QED BY <3>1 DEF NewWatermark
  <2> HIDE DEF prefix
  <2>4. StoreOK'
    BY <1>1, <1>2, <1>4, <2>2, <2>3, WriteKeepsStore
  <2>5. CASE Goto(r, "discover")
    BY <1>1, <1>2, <2>1, <2>4, <2>5, ReconciledStep
  <2>6. CASE Goto(r, "rewrite")
    BY <1>1, <1>2, <2>1, <2>4, <2>6, ReconciledStep
  <2>7. QED BY <1>4, <2>5, <2>6
<1>5. QED BY <1>2, <1>3, <1>4 DEF Adopt

LEMMA RewriteKeepsRefresh ==
  ASSUME ~Overlap, TypeInv, RefreshInv, NEW r \in Runs, RewriteWatermark(r)
  PROVE  RefreshInv'
<1>1. /\ UNCHANGED <<pending, batches, log, jobs>> /\ run[r].pc = "rewrite"
      /\ Expects(run[r]) /\ run[r] \in RunState /\ AdoptNothing(r, run[r].wm)
      /\ Goto(r, "discover") /\ run[r].pc \notin Over \cup {"idle"} /\ StoreOK
  BY Facts DEF RewriteWatermark, At, delta, Over, RefreshInv
<1>2. /\ NoLive /\ Past(run[r].latest) /\ Kept(run[r].wm) /\ run[r].mode # "full"
  BY <1>1 DEF Expects, ExpectsJobs, ExpectsTable, ExpectsStart, Lone
<1>3. PICK w \in Watermark : w = run[r].wm
  BY <1>1 DEF RunState
<1>4. StoreOK'
  BY <1>1, <1>2, <1>3, AdoptNothingKeeps
<1>5. QED BY <1>1, <1>2, <1>4, ReconciledStep

LEMMA ReconcileKeepsRefresh ==
  ASSUME ~Overlap, TypeInv, RefreshInv, NEW r \in Runs, Reconcile(r)
  PROVE  RefreshInv'
BY ReadTableKeepsRefresh, ResolvePendingKeepsRefresh, RecordPendingKeepsRefresh,
   DropPendingKeepsRefresh, AdoptKeepsRefresh, RewriteKeepsRefresh DEF Reconcile

-----------------------------------------------------------------------------
(* Processing batches *)

(* What discovery leaves out of a batch is newer, or before the watermark.  *)
LEMMA DiscoveredIsUnbroken ==
  ASSUME TypeInv, DistinctMTimes, Kept(watermark), NEW b \in NextBatches(Unprocessed(watermark))
  PROVE  Unbroken(b) /\ (watermark = NoWatermark => Whole(b))
<1>1. ASSUME NEW g \in b, NEW f \in Files, MTime[f] <= MTime[g], f \notin b
      PROVE  MTime[f] <= watermark.modified
  <2>1. g \in Files /\ MTime[g] <= cutoff
    BY DEF NextBatches, Unprocessed
  <2>2. MTime[f] \in Nat /\ MTime[g] \in Nat /\ cutoff \in Nat /\ watermark.modified \in Nat
    BY <2>1, OldTimes, Facts, BoundsAssumption DEF TypeInv, TypeOK
  <2>3. SUFFICES ASSUME ~(MTime[f] <= watermark.modified) PROVE FALSE
    OBVIOUS
  <2>4. f \in Unprocessed(watermark)
    BY <1>1, <2>1, <2>2, <2>3 DEF Unprocessed
  <2>5. MTime[f] # MTime[g]
    BY <1>1, <2>1 DEF DistinctMTimes
  <2>6. Before(f, g)
    BY <1>1, <2>2, <2>5 DEF Before
  <2>7. QED BY <1>1, <2>4, <2>6 DEF NextBatches
<1>2. Unbroken(b)
  BY <1>1 DEF Unbroken, Kept
<1>3. ASSUME watermark = NoWatermark PROVE Whole(b)
  <2>1. \A f \in Files : ~(MTime[f] <= watermark.modified)
    BY <1>3, FilesAssumption DEF NoWatermark
  <2>2. QED BY <1>1, <2>1 DEF Whole
<1>4. QED BY <1>2, <1>3

LEMMA DiscoverKeepsRefresh ==
  ASSUME ~Overlap, DistinctMTimes, TypeInv, RefreshInv, NEW r \in Runs, Discover(r)
  PROVE  RefreshInv'
<1>1. /\ UNCHANGED Shared /\ run[r].pc = "discover" /\ Expects(run[r]) /\ run[r] \in RunState
      /\ run[r].pc \notin Over \cup {"idle"} /\ Kept(watermark)
  BY Facts DEF Discover, At, Shared, checkpoint, delta, Over, RefreshInv, StoreOK, WatermarkSound
<1>2. /\ NoLive /\ run[r].batchNum \in Nat
      /\ run[r].mode = "full" /\ run[r].batchNum = 0 => watermark = NoWatermark
  BY <1>1 DEF Expects, ExpectsJobs, ExpectsStart, Lone, Alone, Emptied, RunState
<1>3. CASE End(r, "done")
  BY <1>1, <1>3, QuietEnd DEF Over
<1>4. ASSUME NEW b \in NextBatches(Unprocessed(watermark)),
             run' = [run EXCEPT ![r].files = b, ![r].batchNum = @ + 1, ![r].pc = "begin"]
      PROVE  RefreshInv'
  <2>1. b \in SUBSET Files
    BY DEF NextBatches, Unprocessed
  <2>2. PICK k \in RunState :
           /\ run' = [run EXCEPT ![r] = k] /\ k.pc = "begin" /\ k.mode = run[r].mode
           /\ k.files = b /\ k.batchNum = run[r].batchNum + 1
    <3> DEFINE k == [run[r] EXCEPT !.files = b, !.batchNum = @ + 1, !.pc = "begin"]
    <3>1. /\ k \in RunState /\ k.pc = "begin" /\ k.mode = run[r].mode
          /\ k.files = b /\ k.batchNum = run[r].batchNum + 1
      <4>1. \A n \in Nat : LET l == [run[r] EXCEPT !.files = b, !.batchNum = n, !.pc = "begin"]
                           IN  /\ l \in RunState /\ l.pc = "begin" /\ l.mode = run[r].mode
                               /\ l.files = b /\ l.batchNum = n
        BY <1>1, <2>1 DEF RunState, PCs
      <4>2. run[r].batchNum + 1 \in Nat
        BY <1>2
      <4>3. QED BY <4>1, <4>2, Zenon
    <3>2. run' = [run EXCEPT ![r] = k]
      BY <1>4
    <3> HIDE DEF k
    <3>3. QED BY <3>1, <3>2
  <2>3. Unbroken(b) /\ (watermark = NoWatermark => Whole(b))
    BY <1>1, DiscoveredIsUnbroken
  <2>4. k.batchNum # 0 /\ (k.mode = "full" /\ k.batchNum = 1 => watermark = NoWatermark)
    BY <1>2, <2>2
  <2>5. ExpectsStart(k)
    BY <2>2, <2>4 DEF ExpectsStart, Emptied, Refreshing
  <2>6. ExpectsTable(k) /\ ExpectsBatch(k) /\ ExpectsJobs(k)
    BY <1>2, <2>2, <2>3, <2>4
    DEF ExpectsTable, ExpectsBatch, ExpectsJobs, FirstBatch, Reconciling, InBatch, WithJob
  <2>7. k.pc \notin Unstarted
    BY <2>2 DEF Unstarted
  <2>8. QED BY <1>1, <2>2, <2>5, <2>6, <2>7, QuietMove DEF Expects
<1>5. QED BY <1>3, <1>4 DEF Discover

(* The owner is read before a batch is begun.                               *)
LEMMA CheckBeforeBeginKeepsRefresh ==
  ASSUME ~Overlap, TypeInv, RefreshInv, NEW r \in Runs, CheckBeforeBegin(r)
  PROVE  RefreshInv'
<1>1. /\ UNCHANGED Shared /\ run[r].pc = "begin" /\ Expects(run[r])
      /\ run[r].pc \notin Over \cup {"idle"}
  BY DEF CheckBeforeBegin, At, Shared, checkpoint, delta, Over, RefreshInv
<1>2. CASE End(r, "superseded")
  BY <1>1, <1>2, QuietEnd DEF Over
<1>3. CASE Goto(r, "readPosition")
  <2>1. PICK k \in RunState :
           /\ run' = [run EXCEPT ![r] = k] /\ k.pc = "readPosition" /\ k.mode = run[r].mode
           /\ k.files = run[r].files /\ k.batchNum = run[r].batchNum
    BY <1>3, GotoLocals DEF PCs
  <2>2. /\ k.batchNum # 0 /\ NoLive
        /\ k.mode = "full" /\ k.batchNum = 1 => watermark = NoWatermark
        /\ IF FirstBatch(k) THEN Whole(k.files) ELSE Unbroken(k.files)
    BY <1>1, <2>1 DEF Expects, ExpectsStart, ExpectsBatch, ExpectsJobs, Emptied, Batching, Lone,
                      Alone, FirstBatch
  <2>3. ExpectsStart(k)
    BY <2>1, <2>2 DEF ExpectsStart, Emptied, Refreshing
  <2>4. ExpectsTable(k) /\ ExpectsBatch(k) /\ ExpectsJobs(k)
    BY <2>1, <2>2 DEF ExpectsTable, ExpectsBatch, ExpectsJobs, Reconciling, InBatch, WithJob
  <2>5. k.pc \notin Unstarted
    BY <2>1 DEF Unstarted
  <2>6. QED BY <1>1, <2>1, <2>3, <2>4, <2>5, QuietMove DEF Expects
<1>4. QED BY <1>2, <1>3 DEF CheckBeforeBegin

LEMMA BeginBatchKeepsRefresh ==
  ASSUME ~Overlap, TypeInv, RefreshInv, NEW r \in Runs, BeginBatch(r)
  PROVE  RefreshInv'
<1>1. /\ UNCHANGED Shared /\ run[r].pc = "readPosition" /\ Expects(run[r]) /\ run[r] \in RunState
      /\ run[r].pc \notin Over \cup {"idle"}
  BY Facts DEF BeginBatch, At, Shared, checkpoint, delta, Over, RefreshInv
<1>2. run' = [run EXCEPT ![r].wm = watermark, ![r].latest = Len(log), ![r].pc = "writePending"]
  BY DEF BeginBatch
<1>3. RefreshInv'
  <2>1. PICK k \in RunState :
           /\ run' = [run EXCEPT ![r] = k] /\ k.pc = "writePending" /\ k.mode = run[r].mode
           /\ k.files = run[r].files /\ k.batchNum = run[r].batchNum
    <3> DEFINE k == [run[r] EXCEPT !.wm = watermark, !.latest = Len(log), !.pc = "writePending"]
    <3>1. /\ k \in RunState /\ k.pc = "writePending" /\ k.mode = run[r].mode
          /\ k.files = run[r].files /\ k.batchNum = run[r].batchNum
      BY <1>1, Facts DEF RunState, PCs
    <3>2. run' = [run EXCEPT ![r] = k]
      BY <1>2
    <3> HIDE DEF k
    <3>3. QED BY <3>1, <3>2
  <2>2. /\ k.batchNum # 0 /\ NoLive
        /\ k.mode = "full" /\ k.batchNum = 1 => watermark = NoWatermark
        /\ IF FirstBatch(k) THEN Whole(k.files) ELSE Unbroken(k.files)
    BY <1>1, <2>1 DEF Expects, ExpectsStart, ExpectsBatch, ExpectsJobs, Emptied, Batching, Lone,
                      Alone, FirstBatch
  <2>3. ExpectsStart(k)
    BY <2>1, <2>2 DEF ExpectsStart, Emptied, Refreshing
  <2>4. ExpectsTable(k) /\ ExpectsBatch(k) /\ ExpectsJobs(k)
    BY <2>1, <2>2 DEF ExpectsTable, ExpectsBatch, ExpectsJobs, Reconciling, InBatch, WithJob
  <2>5. k.pc \notin Unstarted
    BY <2>1 DEF Unstarted
  <2>6. QED BY <1>1, <2>1, <2>3, <2>4, <2>5, QuietMove DEF Expects
<1>4. QED BY <1>3

(* A batch is added: the table does not change, no version carries the new  *)
(* token.                                                                   *)
LEMMA BatchAdded ==
  ASSUME TypeInv, NEW b, batches' = Append(batches, b), UNCHANGED log
  PROVE  \E new \in Nat \ {NoBatch} :
            /\ new = Len(batches) + 1 /\ batches'[new] = b
            /\ \A v \in DOMAIN log : log[v] # new
            /\ LiveVersions' = LiveVersions
            /\ \A f \in Files : InTable(f)' <=> InTable(f)
            /\ \A n : Past(n)' <=> Past(n)
<1>1. batches \in Seq(Batch) /\ Len(batches) \in Nat
  BY DEF TypeInv, TypeOK
<1>2. /\ batches'[Len(batches) + 1] = b
      /\ \A i \in 1..Len(batches) : batches'[i] = batches[i]
  BY <1>1
<1>3. \A v \in DOMAIN log : log[v] \in 0..Len(batches)
  BY Facts
<1>4. \A v \in DOMAIN log : /\ CommittedFiles(v)' = CommittedFiles(v)
                            /\ Truncates(v)' <=> Truncates(v)
  BY <1>2, <1>3 DEF CommittedFiles, Truncates, NoBatch
<1>5. LiveVersions' = LiveVersions
  BY <1>4 DEF LiveVersions
<1>6. \A f \in Files : InTable(f)' <=> InTable(f)
  BY <1>4, <1>5 DEF InTable, LiveVersions
<1>7. \A n : Past(n)' <=> Past(n)
  BY <1>4 DEF Past
<1>8. PICK new \in Nat \ {NoBatch} : new = Len(batches) + 1
  BY <1>1 DEF NoBatch
<1>9. \A v \in DOMAIN log : log[v] # new
  BY <1>1, <1>3, <1>8
<1>10. QED BY <1>2, <1>5, <1>6, <1>7, <1>8, <1>9

LEMMA WritePendingKeepsRefresh ==
  ASSUME ~Overlap, TypeInv, RefreshInv, NEW r \in Runs, WritePending(r)
  PROVE  RefreshInv'
<1> DEFINE b == [files |-> run[r].files, before |-> run[r].wm,
                 deltaBefore |-> run[r].latest, truncate |-> FirstOfRefresh(r)]
<1>1. /\ UNCHANGED <<watermark, writtenAt, log, jobs>> /\ run[r].pc = "writePending"
      /\ Expects(run[r]) /\ run[r] \in RunState /\ StoreOK
      /\ run[r].pc \notin Over \cup {"idle"}
      /\ batches' = Append(batches, b) /\ pending' = Len(batches) + 1
      /\ run' = [run EXCEPT ![r].batch = Len(batches) + 1, ![r].resubmits = 0, ![r].pc = "submit"]
  BY Facts DEF WritePending, At, delta, Over, RefreshInv
<1>2. /\ run[r].batchNum # 0 /\ NoLive
      /\ FirstBatch(run[r]) => watermark = NoWatermark
      /\ IF FirstBatch(run[r]) THEN Whole(run[r].files) ELSE Unbroken(run[r].files)
  BY <1>1 DEF Expects, ExpectsStart, ExpectsBatch, ExpectsJobs, Emptied, Batching, Lone,
              Alone, FirstBatch
<1>3. /\ b.files = run[r].files /\ (b.truncate <=> FirstBatch(run[r]))
  BY DEF FirstOfRefresh, FirstBatch
<1> HIDE DEF b
<1>4. PICK new \in Nat \ {NoBatch} :
         /\ new = Len(batches) + 1 /\ batches'[new] = b
         /\ \A v \in DOMAIN log : log[v] # new
         /\ LiveVersions' = LiveVersions
         /\ \A f \in Files : InTable(f)' <=> InTable(f)
         /\ \A n : Past(n)' <=> Past(n)
  BY <1>1, BatchAdded
<1>5. PICK k \in RunState :
         /\ run' = [run EXCEPT ![r] = k] /\ k.pc = "submit" /\ k.mode = run[r].mode
         /\ k.batch = new /\ k.files = run[r].files /\ k.batchNum = run[r].batchNum
  <2> DEFINE k == [run[r] EXCEPT !.batch = new, !.resubmits = 0, !.pc = "submit"]
  <2>1. /\ k \in RunState /\ k.pc = "submit" /\ k.mode = run[r].mode
        /\ k.batch = new /\ k.files = run[r].files /\ k.batchNum = run[r].batchNum
    <3>1. \A n \in Nat, m \in 0..MaxResubmits :
            LET l == [run[r] EXCEPT !.batch = n, !.resubmits = m, !.pc = "submit"]
            IN  /\ l \in RunState /\ l.pc = "submit" /\ l.mode = run[r].mode
                /\ l.batch = n /\ l.files = run[r].files /\ l.batchNum = run[r].batchNum
      BY <1>1, ZenonT(60) DEF RunState, PCs
    <3>2. new \in Nat /\ 0 \in 0..MaxResubmits
      BY BoundsAssumption
    <3>3. QED BY <3>1, <3>2, Zenon
  <2>2. run' = [run EXCEPT ![r] = k]
    BY <1>1, <1>4
  <2> HIDE DEF k
  <2>3. QED BY <2>1, <2>2
<1>6. ~InLog(new) /\ ~InLog(new)'
  BY <1>1, <1>4 DEF InLog
<1>7. StoreOK'
  <2>1. LiveSound'
    BY <1>1, <1>2 DEF LiveSound, NoLive, Live
  <2>2. Sealed(new)'
    <3>1. k.files \in SUBSET Files
      BY DEF RunState
    <3>2. Unbroken(k.files) => Unbroken(k.files)'
      BY <1>4, <3>1 DEF Unbroken
    <3>3. IF FirstBatch(run[r]) THEN Whole(k.files) ELSE Unbroken(k.files)'
      BY <1>2, <1>5, <3>2
    <3>4. QED BY <1>3, <1>4, <1>5, <3>3 DEF Sealed, Whole, Unbroken
  <2>3. PendingSound'
    BY <1>1, <1>4, <2>2 DEF PendingSound, Sealed
  <2>4. Kept(watermark)'
    BY <1>1, <1>4 DEF StoreOK, WatermarkSound, Kept
  <2>5. watermark # NoWatermark =>
           Past(writtenAt)' /\ (watermark.delta # 0 => Past(watermark.delta)')
    <3>1. PICK n : n = writtenAt
      OBVIOUS
    <3>2. PICK m : m = watermark.delta
      OBVIOUS
    <3>3. (Past(n)' <=> Past(n)) /\ (Past(m)' <=> Past(m))
      BY <1>4
    <3>4. QED BY <1>1, <3>1, <3>2, <3>3 DEF StoreOK, WatermarkSound, Past
  <2>6. WatermarkSound'
    BY <1>1, <2>4, <2>5 DEF WatermarkSound
  <2>7. QED BY <2>1, <2>3, <2>6 DEF StoreOK
<1>8. Expects(k)'
  <2>1. ExpectsStart(k)'
    BY <1>2, <1>5 DEF ExpectsStart, Emptied, Refreshing
  <2>2. ExpectsTable(k)' /\ ExpectsJobs(k)'
    BY <1>1, <1>2, <1>5, NoLiveStays DEF ExpectsTable, ExpectsJobs, Reconciling, WithJob
  <2>3. ExpectsBatch(k)'
    <3>1. pending' = new /\ new # NoBatch
      BY <1>1, <1>4
    <3>2. ~InLog(pending)'
      BY <1>6, <3>1 DEF InLog
    <3>3. QED BY <1>1, <1>2, <1>3, <1>4, <1>5, <3>1, <3>2 DEF ExpectsBatch, InBatch
  <2>4. QED BY <2>1, <2>2, <2>3 DEF Expects
<1>9. k.pc \notin Unstarted /\ \A j \in DOMAIN jobs' : j \in DOMAIN jobs /\ jobs'[j].run = jobs[j].run
  BY <1>1, <1>5 DEF Unstarted
<1>10. QED BY <1>1, <1>5, <1>7, <1>8, <1>9, RunStepKeeps

(* While its batch is in hand, a run moves from place to place.             *)
BatchKept(k, l) ==
    /\ k.mode = l.mode /\ k.files = l.files /\ k.batch = l.batch /\ k.batchNum = l.batchNum
    /\ k.job = l.job

LEMMA InBatchExpects ==
  ASSUME NEW l \in RunState, NEW k \in RunState, Expects(l), l.pc \in InBatch,
         k.pc \in InBatch, BatchKept(k, l),
         k.pc \in {"submit", "put"} => ~InLog(pending),
         k.pc \in {"update", "readCurrent", "record"} => InLog(pending),
         k.pc \in {"submit", "put", "update", "readCurrent", "record"} => NoLive,
         k.pc \in WithJob => l.pc \in WithJob
  PROVE  Expects(k)
<1>1. ExpectsStart(k)
  BY DEF BatchKept, Expects, ExpectsStart, Emptied, Refreshing, Batching, InBatch, WithJob
<1>2. ExpectsTable(k)
  BY DEF ExpectsTable, Reconciling, InBatch, WithJob
<1>3. ExpectsBatch(k)
  BY DEF BatchKept, Expects, ExpectsBatch, InBatch, WithJob
<1>4. ExpectsJobs(k)
  <2>1. k.pc \in Lone => k.pc \in {"submit", "put", "update", "readCurrent", "record"}
    BY DEF Lone, Alone, InBatch, WithJob
  <2>2. k.pc # "settling"
    BY DEF InBatch, WithJob
  <2>3. QED BY <2>1, <2>2 DEF BatchKept, Expects, ExpectsJobs
<1>5. QED BY <1>1, <1>2, <1>3, <1>4 DEF Expects

LEMMA InBatchMove ==
  ASSUME ~Overlap, TypeInv, RefreshInv, NEW r \in Runs, run[r].pc \in InBatch,
         NEW k \in RunState, run' = [run EXCEPT ![r] = k], UNCHANGED Shared,
         k.pc \in InBatch, BatchKept(k, run[r]),
         k.pc \in {"submit", "put"} => ~InLog(pending),
         k.pc \in {"update", "readCurrent", "record"} => InLog(pending),
         k.pc \in {"submit", "put", "update", "readCurrent", "record"} => NoLive,
         k.pc \in WithJob => run[r].pc \in WithJob
  PROVE  RefreshInv'
<1>1. PICK l \in RunState : l = run[r]
  BY Facts
<1>2. Expects(l)
  BY <1>1 DEF RefreshInv
<1>3. Expects(k)
  BY <1>1, <1>2, InBatchExpects
<1>4. run[r].pc \notin Over \cup {"idle"} /\ k.pc \notin Unstarted
  BY DEF InBatch, WithJob, Over, Unstarted
<1>5. QED BY <1>3, <1>4, QuietMove

LEMMA InBatchGoto ==
  ASSUME ~Overlap, TypeInv, RefreshInv, NEW r \in Runs, run[r].pc \in InBatch,
         NEW label \in InBatch, Goto(r, label), UNCHANGED Shared,
         label \in {"submit", "put"} => ~InLog(pending),
         label \in {"update", "readCurrent", "record"} => InLog(pending),
         label \in {"submit", "put", "update", "readCurrent", "record"} => NoLive,
         label \in WithJob => run[r].pc \in WithJob
  PROVE  RefreshInv'
<1>1. label \in PCs
  BY DEF InBatch, WithJob, PCs
<1>2. PICK k \in RunState :
            /\ run' = [run EXCEPT ![r] = k] /\ k.pc = label /\ k.mode = run[r].mode
            /\ k.files = run[r].files /\ k.batch = run[r].batch /\ k.job = run[r].job
            /\ k.batchNum = run[r].batchNum
  BY <1>1, GotoLocals
<1>3. BatchKept(k, run[r])
  BY <1>2 DEF BatchKept
<1>4. QED BY <1>2, <1>3, InBatchMove

(* What a run knows of its job, and of the jobs at all once it has ended.   *)
LEMMA JobKnown ==
  ASSUME TypeInv, RefreshInv, NEW r \in Runs, run[r].pc \in WithJob
  PROVE  /\ run[r].pc \in InBatch /\ run[r].pc \notin Over \cup {"idle"}
         /\ JobState(r) = "succeeded" <=> InLog(pending)
         /\ JobState(r) \in Ended => NoLive
<1>1. Expects(run[r])
  BY DEF RefreshInv
<1>2. QED BY <1>1 DEF Expects, ExpectsJobs, JobState, NoLive, Live, InBatch, WithJob, Over

LEMMA SubmitJobKeepsRefresh ==
  ASSUME ~Overlap, TypeInv, RefreshInv, NEW r \in Runs, SubmitJob(r)
  PROVE  RefreshInv'
<1> DEFINE job == [batch |-> run[r].batch, run |-> r, state |-> "active"]
<1>1. /\ UNCHANGED <<watermark, writtenAt, pending, batches, log>> /\ run[r].pc = "put"
      /\ Expects(run[r]) /\ run[r] \in RunState /\ StoreOK
      /\ run[r].pc \notin Over \cup {"idle"}
      /\ jobs' = Append(jobs, job)
      /\ run' = [run EXCEPT ![r].job = Len(jobs) + 1, ![r].pc = "recheck"]
  BY Facts DEF SubmitJob, At, checkpoint, delta, Over, RefreshInv
<1>2. /\ NoLive /\ run[r].batchNum # 0 /\ ~InLog(pending)
      /\ run[r].batch = pending /\ pending # NoBatch
      /\ run[r].files = batches[pending].files
      /\ batches[pending].truncate => watermark = NoWatermark
  BY <1>1 DEF Expects, ExpectsStart, ExpectsBatch, ExpectsJobs, Batching, InBatch, Lone, Alone
<1>3. PICK new \in Nat : new = Len(jobs) + 1
  BY Facts
<1>4. /\ DOMAIN jobs' = (DOMAIN jobs) \cup {new} /\ new \notin DOMAIN jobs
      /\ jobs'[new] = job /\ \A j \in DOMAIN jobs : jobs'[j] = jobs[j]
  <2>1. jobs \in Seq(Job) /\ Len(jobs) \in Nat /\ DOMAIN jobs = 1..Len(jobs)
    BY DEF TypeInv, TypeOK
  <2> HIDE DEF job
  <2>2. QED BY <1>1, <1>3, <2>1
<1>5. job.batch = pending /\ job.run = r /\ job.state = "active"
  BY <1>2
<1> HIDE DEF job
<1>6. \A j \in DOMAIN jobs' : Live(j)' => j = new
  BY <1>2, <1>4 DEF NoLive, Live
<1>7. StoreOK'
  <2>1. LiveSound'
    <3>1. jobs'[new].batch = pending /\ ~InLog(pending)'
      BY <1>1, <1>2, <1>4, <1>5 DEF InLog
    <3>2. QED BY <1>1, <1>2, <1>6, <3>1 DEF LiveSound, InLog
  <2>2. PendingSound'
    BY <1>1, SharedKept DEF StoreOK, PendingSound
  <2>3. WatermarkSound'
    BY <1>1, SharedKept DEF StoreOK, WatermarkSound
  <2>4. QED BY <2>1, <2>2, <2>3 DEF StoreOK
<1>8. PICK k \in RunState :
         /\ run' = [run EXCEPT ![r] = k] /\ k.pc = "recheck" /\ k.mode = run[r].mode
         /\ k.batch = run[r].batch /\ k.files = run[r].files /\ k.batchNum = run[r].batchNum
         /\ k.job = new
  <2> DEFINE k == [run[r] EXCEPT !.job = new, !.pc = "recheck"]
  <2>1. /\ k \in RunState /\ k.pc = "recheck" /\ k.mode = run[r].mode
        /\ k.batch = run[r].batch /\ k.files = run[r].files /\ k.batchNum = run[r].batchNum
        /\ k.job = new
    BY <1>1 DEF RunState, PCs
  <2>2. run' = [run EXCEPT ![r] = k]
    BY <1>1, <1>3
  <2> HIDE DEF k
  <2>3. QED BY <2>1, <2>2
<1>9. Expects(k)'
  <2>1. ExpectsStart(k)'
    BY <1>2, <1>8 DEF ExpectsStart, Emptied, Refreshing
  <2>2. ExpectsTable(k)'
    BY <1>8 DEF ExpectsTable, Reconciling
  <2>3. ExpectsBatch(k)'
    BY <1>1, <1>2, <1>8 DEF ExpectsBatch
  <2>4. ExpectsJobs(k)'
    <3>1. ~InLog(pending)'
      BY <1>1, <1>2 DEF InLog
    <3>2. QED BY <1>1, <1>2, <1>4, <1>5, <1>6, <1>8, <3>1 DEF ExpectsJobs, Lone, Alone
  <2>5. QED BY <2>1, <2>2, <2>3, <2>4 DEF Expects
<1>10. k.pc \notin Unstarted
       /\ \A j \in DOMAIN jobs' : \/ j \in DOMAIN jobs /\ jobs'[j].run = jobs[j].run
                                  \/ jobs'[j].run = r
  BY <1>4, <1>5, <1>8 DEF Unstarted
<1>11. QED BY <1>1, <1>7, <1>8, <1>9, <1>10, RunStepKeeps

LEMMA JobFailedKeepsRefresh ==
  ASSUME ~Overlap, TypeInv, RefreshInv, NEW r \in Runs, JobFailed(r)
  PROVE  RefreshInv'
<1>1. /\ run[r].pc = "wait" /\ run[r].pc \in WithJob /\ JobState(r) = "failed"
      /\ UNCHANGED Shared /\ run[r] \in RunState
  BY Facts DEF JobFailed, At, WithJob, Shared, checkpoint, delta
<1>2. /\ run[r].pc \in InBatch /\ run[r].pc \notin Over \cup {"idle"}
      /\ NoLive /\ ~InLog(pending)
  BY <1>1, JobKnown DEF Ended
<1>3. CASE End(r, "failed")
  BY <1>1, <1>2, <1>3, QuietEnd DEF Over
<1>4. CASE /\ run[r].resubmits < MaxResubmits
           /\ run' = [run EXCEPT ![r].resubmits = @ + 1, ![r].pc = "submit"]
  <2> DEFINE k == [run[r] EXCEPT !.resubmits = @ + 1, !.pc = "submit"]
  <2>1. k \in RunState /\ k.pc = "submit" /\ BatchKept(k, run[r])
    <3>1. \A m \in 0..MaxResubmits :
            LET l == [run[r] EXCEPT !.resubmits = m, !.pc = "submit"]
            IN  l \in RunState /\ l.pc = "submit" /\ BatchKept(l, run[r])
      BY <1>1, ZenonT(60) DEF RunState, PCs, BatchKept
    <3>2. run[r].resubmits + 1 \in 0..MaxResubmits
      BY <1>1, <1>4, BoundsAssumption DEF RunState
    <3>3. QED BY <3>1, <3>2, Zenon
  <2>2. run' = [run EXCEPT ![r] = k]
    BY <1>4
  <2> HIDE DEF k
  <2>3. k.pc \notin WithJob \cup {"update", "readCurrent", "record"} /\ k.pc \in InBatch
    BY <2>1 DEF WithJob, InBatch
  <2>4. QED BY <1>1, <1>2, <2>1, <2>2, <2>3, InBatchMove
<1>5. QED BY <1>3, <1>4 DEF JobFailed

(* The owner is read before a batch is recorded.                            *)
LEMMA CheckBeforeUpdateKeepsRefresh ==
  ASSUME ~Overlap, TypeInv, RefreshInv, NEW r \in Runs, CheckBeforeUpdate(r)
  PROVE  RefreshInv'
<1>1. /\ run[r].pc = "update" /\ run[r].pc \in InBatch /\ run[r].pc \notin Over \cup {"idle"}
      /\ UNCHANGED Shared /\ Expects(run[r])
  BY DEF CheckBeforeUpdate, At, InBatch, Over, Shared, checkpoint, delta, RefreshInv
<1>2. NoLive /\ InLog(pending)
  BY <1>1 DEF Expects, ExpectsBatch, ExpectsJobs, Lone, Alone
<1>3. CASE End(r, "superseded")
  BY <1>1, <1>3, QuietEnd DEF Over
<1>4. CASE Goto(r, "readCurrent")
  BY <1>1, <1>2, <1>4, InBatchGoto DEF InBatch, WithJob
<1>5. QED BY <1>3, <1>4 DEF CheckBeforeUpdate

LEMMA UpdateKeepsRefresh ==
  ASSUME ~Overlap, TypeInv, RefreshInv, NEW r \in Runs, UpdateCheckpoint(r)
  PROVE  RefreshInv'
<1>1. /\ run[r].pc = "readCurrent" /\ run[r].pc \in InBatch /\ run[r].pc \notin Over \cup {"idle"}
      /\ UNCHANGED Shared /\ run[r] \in RunState /\ Expects(run[r]) /\ watermark \in Watermark
  BY Facts DEF UpdateCheckpoint, At, InBatch, Over, Shared, checkpoint, delta, RefreshInv
<1>2. NoLive /\ InLog(pending)
  BY <1>1 DEF Expects, ExpectsBatch, ExpectsJobs, Lone, Alone
<1> DEFINE k == [run[r] EXCEPT !.wm = watermark, !.pc = "record"]
<1>3. k \in RunState /\ k.pc = "record" /\ BatchKept(k, run[r])
  BY <1>1 DEF RunState, PCs, BatchKept
<1>4. run' = [run EXCEPT ![r] = k]
  BY DEF UpdateCheckpoint
<1> HIDE DEF k
<1>5. k.pc \notin WithJob \cup {"submit", "put"} /\ k.pc \in InBatch
  BY <1>3 DEF WithJob, InBatch
<1>6. QED BY <1>1, <1>2, <1>3, <1>4, <1>5, InBatchMove

LEMMA RecordBatchKeepsRefresh ==
  ASSUME ~Overlap, TypeInv, RefreshInv, NEW r \in Runs, RecordBatch(r)
  PROVE  RefreshInv'
<1>1. /\ UNCHANGED <<pending, batches, log, jobs>> /\ run[r].pc = "record"
      /\ Expects(run[r]) /\ run[r] \in RunState /\ run[r].wm \in Watermark
      /\ run[r].pc \notin Over \cup {"idle"} /\ StoreOK
  BY Facts DEF RecordBatch, At, delta, Over, RefreshInv, RunState
<1>2. /\ NoLive /\ run[r].batchNum # 0 /\ run[r].batch = pending /\ pending # NoBatch
      /\ InLog(pending) /\ run[r].files = batches[pending].files
  BY <1>1 DEF Expects, ExpectsStart, ExpectsBatch, ExpectsJobs, Batching, InBatch, Lone, Alone
<1>3. pending \in 1..Len(batches) /\ Len(log) \in Nat
  BY <1>2, Facts DEF NoBatch
<1>4. PICK fs \in SUBSET Files : fs = run[r].files /\ fs # {}
  BY <1>2, <1>3, Facts DEF Batch
<1>5. PICK version \in CommittedVersions(r) : WriteWatermark(NewWatermark(fs, run[r].wm, version))
  BY <1>4 DEF RecordBatch
<1>6. version \in Nat /\ (version # 0 => Past(version))
  <2>1. Past(Len(log))
    BY Facts DEF Past
  <2>2. \A n \in DOMAIN log : log[n] = pending => n \in LiveVersions
    BY <1>1, <1>2 DEF StoreOK, PendingSound
  <2>3. PICK v \in Nat : /\ v = TokenVersion(pending, Len(log))
                         /\ v # 0 => Past(v)
    BY <1>3, <2>1, <2>2, TokenVersionFound, TokenVersionIsPast
  <2>4. version \in {v, Len(log), 0}
    BY <1>2, <2>3 DEF CommittedVersions
  <2>5. QED BY <1>3, <2>1, <2>3, <2>4
<1>7. PICK w \in Watermark : w = NewWatermark(fs, run[r].wm, version) /\ w.delta = version
  <2>1. NewWatermark(fs, run[r].wm, version) \in Watermark
    BY <1>1, <1>4, <1>6, NewWatermarkIsNewest
  <2>2. QED BY <2>1 DEF NewWatermark
<1>8. Kept(w)
  BY <1>1, <1>2, <1>4, <1>6, <1>7, SealedRecords
<1>9. StoreOK'
  BY <1>1, <1>2, <1>5, <1>6, <1>7, <1>8, WriteKeepsStore
<1>10. \E k \in RunState : /\ run' = [run EXCEPT ![r] = k] /\ k.pc \notin Unstarted
                           /\ Expects(k)'
  <2>1. CASE End(r, "failed")
    BY <2>1, EndLocals, OverExpects DEF Over, Unstarted
  <2>2. CASE Goto(r, "finish")
    <3>1. PICK k \in RunState : /\ run' = [run EXCEPT ![r] = k] /\ k.pc = "finish"
                                /\ k.batchNum = run[r].batchNum
      BY <2>2, GotoLocals DEF PCs
    <3>2. ExpectsStart(k)'
      BY <1>2, <3>1 DEF ExpectsStart, Emptied, Refreshing
    <3>3. ExpectsTable(k)' /\ ExpectsBatch(k)' /\ ExpectsJobs(k)'
      BY <1>1, <1>2, <3>1, NoLiveStays
      DEF ExpectsTable, ExpectsBatch, ExpectsJobs, Reconciling, InBatch, WithJob
    <3>4. QED BY <3>1, <3>2, <3>3 DEF Expects, Unstarted
  <2>3. QED BY <2>1, <2>2 DEF RecordBatch
<1>11. \A j \in DOMAIN jobs' : j \in DOMAIN jobs /\ jobs'[j].run = jobs[j].run
  BY <1>1
<1>12. QED BY <1>1, <1>9, <1>10, <1>11, RunStepKeeps

LEMMA FinishKeepsRefresh ==
  ASSUME ~Overlap, TypeInv, RefreshInv, NEW r \in Runs, FinishBatch(r)
  PROVE  RefreshInv'
<1>1. /\ UNCHANGED <<watermark, writtenAt, batches, log, jobs>> /\ run[r].pc = "finish"
      /\ Expects(run[r]) /\ Goto(r, "discover") /\ pending' \in {NoBatch, pending}
      /\ run[r].pc \notin Over \cup {"idle"} /\ StoreOK
  BY DEF FinishBatch, DeletePending, At, delta, Over, RefreshInv
<1>2. NoLive /\ run[r].batchNum # 0
  BY <1>1 DEF Expects, ExpectsJobs, ExpectsStart, Batching, Lone, Alone
<1>3. StoreOK'
  BY <1>1, <1>2, PendingMayGo
<1>4. PICK k \in RunState : /\ run' = [run EXCEPT ![r] = k] /\ k.pc = "discover"
                            /\ k.batchNum = run[r].batchNum
  BY <1>1, GotoLocals DEF PCs
<1>5. Expects(k)'
  <2>1. ExpectsStart(k)'
    BY <1>2, <1>4 DEF ExpectsStart, Emptied, Refreshing, Batching, InBatch, WithJob
  <2>2. ExpectsTable(k)' /\ ExpectsBatch(k)' /\ ExpectsJobs(k)'
    BY <1>1, <1>2, <1>4, NoLiveStays
    DEF ExpectsTable, ExpectsBatch, ExpectsJobs, Reconciling, InBatch, WithJob
  <2>3. QED BY <2>1, <2>2 DEF Expects
<1>6. k.pc \notin Unstarted /\ \A j \in DOMAIN jobs' : j \in DOMAIN jobs /\ jobs'[j].run = jobs[j].run
  BY <1>1, <1>4 DEF Unstarted
<1>7. QED BY <1>1, <1>3, <1>4, <1>5, <1>6, RunStepKeeps

LEMMA AbandonKeepsRefresh ==
  ASSUME ~Overlap, TypeInv, RefreshInv, NEW r \in Runs, Abandon(r)
  PROVE  RefreshInv'
<1>1. /\ run[r].pc = "abandon" /\ run[r].pc \in InBatch /\ run[r].pc \in WithJob
      /\ run[r].pc \notin Over \cup {"idle"} /\ Goto(r, "abandoned")
      /\ jobs' = Cancelled({run[r].job})
      /\ UNCHANGED <<watermark, writtenAt, pending, batches, log>>
  BY DEF Abandon, At, InBatch, WithJob, Over, checkpoint, delta
<1>2. Ease
  BY <1>1, CancelEases
<1>3. PICK k \in RunState :
            /\ run' = [run EXCEPT ![r] = k] /\ k.pc = "abandoned" /\ k.mode = run[r].mode
            /\ k.files = run[r].files /\ k.batch = run[r].batch /\ k.job = run[r].job
            /\ k.batchNum = run[r].batchNum
  BY <1>1, GotoLocals DEF PCs
<1>4. PICK l \in RunState : l = run[r] /\ Expects(l) /\ BatchKept(k, l)
  BY <1>3, Facts DEF BatchKept, RefreshInv
<1>5. Expects(k)
  <2>1. k.pc \in InBatch /\ k.pc \in WithJob
        /\ k.pc \notin {"submit", "put", "update", "readCurrent", "record"}
    BY <1>3 DEF InBatch, WithJob
  <2>2. QED BY <1>1, <1>4, <2>1, InBatchExpects
<1>6. StoreOK' /\ Expects(k)' /\ k.pc \notin Unstarted
  BY <1>1, <1>2, <1>3, <1>5, EaseKeepsStore, EaseKeepsExpects DEF RefreshInv, Unstarted
<1>7. \A j \in DOMAIN jobs' : j \in DOMAIN jobs /\ jobs'[j].run = jobs[j].run
  BY <1>2 DEF Ease
<1>8. QED BY <1>1, <1>3, <1>6, <1>7, RunStepKeeps

LEMMA WaitingKeepsRefresh ==
  ASSUME ~Overlap, TypeInv, RefreshInv, NEW r \in Runs,
         \/ CheckBeforeSubmit(r) \/ CheckAfterSubmit(r) \/ JobSucceeded(r) \/ GiveUp(r)
         \/ AbandonedJobEnded(r) \/ AbandonedJobUnconfirmed(r)
  PROVE  RefreshInv'
<1>1. UNCHANGED Shared
  BY DEF CheckBeforeSubmit, CheckAfterSubmit, JobSucceeded, GiveUp, AbandonedJobEnded,
         AbandonedJobUnconfirmed, Shared, checkpoint, delta
<1>2. CASE CheckBeforeSubmit(r)
  <2>1. /\ run[r].pc = "submit" /\ run[r].pc \in InBatch /\ run[r].pc \notin Over \cup {"idle"}
        /\ Expects(run[r])
    BY <1>2 DEF CheckBeforeSubmit, At, InBatch, Over, RefreshInv
  <2>2. NoLive /\ ~InLog(pending)
    BY <2>1 DEF Expects, ExpectsBatch, ExpectsJobs, Lone, Alone
  <2>3. CASE End(r, "superseded")
    BY <1>1, <2>1, <2>3, QuietEnd DEF Over
  <2>4. CASE Goto(r, "put")
    BY <1>1, <2>1, <2>2, <2>4, InBatchGoto DEF InBatch, WithJob
  <2>5. QED BY <1>2, <2>3, <2>4 DEF CheckBeforeSubmit
<1>3. CASE CheckAfterSubmit(r) \/ GiveUp(r)
  <2>1. PICK label \in {"wait", "abandon"} : Goto(r, label)
    BY <1>3 DEF CheckAfterSubmit, GiveUp
  <2>2. run[r].pc \in InBatch /\ run[r].pc \in WithJob
    BY <1>3 DEF CheckAfterSubmit, GiveUp, At, InBatch, WithJob
  <2>3. label \in InBatch /\ label \in WithJob /\ label \notin {"submit", "put", "update", "readCurrent", "record"}
    BY <2>1 DEF InBatch, WithJob
  <2>4. QED BY <1>1, <2>1, <2>2, <2>3, InBatchGoto
<1>4. CASE JobSucceeded(r) \/ AbandonedJobEnded(r) \/ AbandonedJobUnconfirmed(r)
  <2>1. run[r].pc \in WithJob
    BY <1>4 DEF JobSucceeded, AbandonedJobEnded, AbandonedJobUnconfirmed, At, WithJob
  <2>2. /\ run[r].pc \in InBatch /\ run[r].pc \notin Over \cup {"idle"}
        /\ JobState(r) = "succeeded" => InLog(pending) /\ NoLive
    BY <2>1, JobKnown DEF Ended
  <2>3. CASE JobState(r) = "succeeded" /\ Goto(r, "update")
    BY <1>1, <2>2, <2>3, InBatchGoto DEF InBatch, WithJob
  <2>4. CASE End(r, "failed")
    BY <1>1, <2>2, <2>4, QuietEnd DEF Over
  <2>5. QED BY <1>4, <2>3, <2>4 DEF JobSucceeded, AbandonedJobEnded, AbandonedJobUnconfirmed
<1>5. QED BY <1>2, <1>3, <1>4

LEMMA ProcessKeepsRefresh ==
  ASSUME ~Overlap, DistinctMTimes, TypeInv, RefreshInv, NEW r \in Runs, Process(r)
  PROVE  RefreshInv'
BY DiscoverKeepsRefresh, CheckBeforeBeginKeepsRefresh, BeginBatchKeepsRefresh,
   WritePendingKeepsRefresh, SubmitJobKeepsRefresh, JobFailedKeepsRefresh,
   CheckBeforeUpdateKeepsRefresh, UpdateKeepsRefresh, RecordBatchKeepsRefresh,
   FinishKeepsRefresh, AbandonKeepsRefresh, WaitingKeepsRefresh DEF Process

-----------------------------------------------------------------------------
LEMMA InitRefreshInv == Init => RefreshInv
<1> SUFFICES ASSUME Init PROVE RefreshInv
  OBVIOUS
<1>1. /\ watermark = NoWatermark /\ pending = NoBatch /\ jobs = <<>>
      /\ \A r \in Runs : run[r].pc = "idle" /\ run[r] \in RunState
  <2>1. Idle = [Idle EXCEPT !.pc = "idle"] /\ Idle.pc = "idle" /\ "idle" \in PCs
    BY DEF Idle, PCs
  <2>2. QED BY <2>1, IdleType DEF Init
<1>2. Sequential /\ JobsStarted
  BY <1>1 DEF Sequential, JobsStarted
<1>3. LiveSound /\ PendingSound
  BY <1>1 DEF LiveSound, PendingSound
<1>4. WatermarkSound
  BY <1>1, FilesAssumption DEF WatermarkSound, Kept, NoWatermark
<1>5. \A r \in Runs : Expects(run[r])
  BY <1>1, OverExpects
<1>6. QED BY <1>2, <1>3, <1>4, <1>5 DEF RefreshInv, StoreOK

LEMMA NextRefreshInv ==
  ASSUME OneAtATime, DistinctMTimes, TypeInv, RefreshInv, [Next]_vars
  PROVE  RefreshInv'
<1>1. ~Overlap
  BY DEF OneAtATime
<1>2. CASE UNCHANGED vars \/ Terminated
  BY <1>2, ElsewhereKeepsRefresh DEF Terminated
<1>3. ASSUME NEW r \in Runs, RunStep(r) \/ Crash(r) PROVE RefreshInv'
  BY <1>1, <1>3, PrepareKeepsRefresh, ReconcileKeepsRefresh, ProcessKeepsRefresh,
     CrashKeepsRefresh DEF RunStep
<1>4. ASSUME NEW j \in DOMAIN jobs, EndJob(j) PROVE RefreshInv'
  BY <1>4, CommitJobKeepsRefresh, FailJobKeepsRefresh DEF EndJob
<1>5. CASE OtherCommit \/ CleanLog \/ Tick
  BY <1>5, OtherCommitKeepsRefresh, ElsewhereKeepsRefresh
<1>6. QED BY <1>2, <1>3, <1>4, <1>5 DEF Next

LEMMA RefreshInvariance ==
  ASSUME OneAtATime, DistinctMTimes
  PROVE  Spec => [](TypeInv /\ RefreshInv)
<1>1. Init => TypeInv /\ RefreshInv
  BY InitTypeInv, InitRefreshInv
<1>2. TypeInv /\ RefreshInv /\ [Next]_vars => (TypeInv /\ RefreshInv)'
  BY StepTypeInv, NextRefreshInv
<1>3. QED BY <1>1, <1>2, PTL DEF Spec

(* No data loss, full refreshes included: as long as runs do not overlap    *)
(* and a full refresh does delete the watermark, the watermark is only ever *)
(* ahead of files whose rows are in the table, whichever run, incremental   *)
(* or full, was cut short wherever before.                                  *)
THEOREM NothingIsLostInRefresh ==
  ASSUME OneAtATime, DistinctMTimes
  PROVE  Spec => []NoLoss
<1>1. TypeInv /\ RefreshInv => NoLoss
  BY DEF RefreshInv, StoreOK, WatermarkSound, Kept, NoLoss
<1>2. QED BY RefreshInvariance, <1>1, PTL

(* A run that ends normally leaves no eligible file behind, refresh or not. *)
THEOREM DoneRefreshesLeaveNothing ==
  ASSUME OneAtATime, DistinctMTimes
  PROVE  Spec => DoneMeansIngested
<1> DEFINE Left == \A r \in Runs : At(r, "discover") /\ run'[r].pc = "done" =>
                      \A f \in Files : MTime[f] <= cutoff => InTable(f)
<1>1. ASSUME TypeInv, RefreshInv, [Next]_vars PROVE Left
  <2> SUFFICES ASSUME NEW r \in Runs, At(r, "discover"), run'[r].pc = "done",
                      NEW f \in Files, MTime[f] <= cutoff
               PROVE  InTable(f)
    OBVIOUS
  <2>1. Unprocessed(watermark) = {}
    BY <1>1, DoneComesFromDiscover
  <2>2. MTime[f] <= watermark.modified
    <3>1. MTime[f] \in Nat /\ watermark.modified \in Nat
      BY <1>1, OldTimes, Facts
    <3>2. QED BY <2>1, <3>1 DEF Unprocessed
  <2>3. QED BY <1>1, <2>2 DEF RefreshInv, StoreOK, WatermarkSound, Kept
<1>2. TypeInv /\ RefreshInv /\ [Next]_vars => [Left]_vars
  BY <1>1
<1>3. QED BY RefreshInvariance, <1>2, PTL DEF Spec, DoneMeansIngested

-----------------------------------------------------------------------------
(* Nothing but full refreshes: the table materialization *)

OnlyFull == Modes \subseteq {"full"}

LivePassed == \A v \in LiveVersions : Passed(v)

(* A live job brings files that are not in the table, or deletes it first.  *)
LiveApart == \A j \in DOMAIN jobs : Live(j) =>
    \/ batches[jobs[j].batch].truncate
    \/ \A v \in LiveVersions : CommittedFiles(v) \cap batches[jobs[j].batch].files = {}

(* A version in the table is behind the watermark, is the pending batch's,  *)
(* or is about to be deleted by the pending batch.                          *)
Explained(v) ==
    \/ Passed(v)
    \/ log[v] = pending
    \/ batches[pending].truncate /\ ~InLog(pending)

Opening == {"idle", "deleteWatermark"} \cup Refreshing

ExpectsOnce(l) ==
    /\ l.pc \notin Over \cup {"idle"} => l.mode = "full"
    /\ l.pc \in Opening => l.batchNum = 0
    /\ l.pc = "finish" => LivePassed
    /\ l.pc = "discover" /\ l.batchNum # 0 => LivePassed
    /\ l.pc \in {"begin", "readPosition", "writePending"} => Ahead(l.files) /\ (l.batchNum # 1 => LivePassed)
    /\ l.pc \in InBatch => Ahead(l.files) /\ \A v \in LiveVersions : Explained(v)

OnceInv == NoDuplicate /\ LiveApart /\ \A r \in Runs : ExpectsOnce(run[r])

(* The places of a run are far apart. *)
LEMMA PlacesApart ==
  /\ \A p \in Over : p \notin Opening \cup InBatch
                     \cup {"finish", "discover", "begin", "readPosition", "writePending"}
  /\ \A p \in Opening : p \notin InBatch \cup {"finish", "discover", "begin", "readPosition", "writePending"}
  /\ \A p \in InBatch : p \notin {"idle", "finish", "discover", "begin", "readPosition", "writePending"}
BY DEF Over, Opening, Refreshing, InBatch, WithJob

LEMMA GotoEffect ==
  ASSUME TypeInv, NEW r \in Runs, NEW label, Goto(r, label)
  PROVE  /\ \A q \in Runs \ {r} : run'[q] = run[q]
         /\ run'[r].pc = label /\ run'[r].mode = run[r].mode
         /\ run'[r].files = run[r].files /\ run'[r].batchNum = run[r].batchNum
<1>1. run \in [Runs -> RunState] /\ run[r] \in RunState
  BY Facts
<1>2. QED BY <1>1 DEF Goto, RunState

LEMMA EndEffect ==
  ASSUME TypeInv, NEW r \in Runs, NEW label, End(r, label)
  PROVE  (\A q \in Runs \ {r} : run'[q] = run[q]) /\ run'[r].pc = label
<1>1. run \in [Runs -> RunState]
  BY Facts
<1>2. QED BY <1>1 DEF End, Idle

LEMMA OnceMove ==
  ASSUME OnceInv, NEW r \in Runs,
         \A q \in Runs \ {r} : run'[q] = run[q] /\ run[q].pc \in Over \cup {"idle"},
         NoDuplicate', LiveApart', ExpectsOnce(run[r])'
  PROVE  OnceInv'
<1>1. ASSUME NEW q \in Runs \ {r} PROVE ExpectsOnce(run[q])'
  <2>1. run[q].pc \in Over \cup {"idle"} /\ run'[q] = run[q] /\ ExpectsOnce(run[q])
    BY DEF OnceInv
  <2>2. run'[q].pc \notin InBatch \cup {"finish", "discover", "begin", "readPosition", "writePending"}
        /\ (run'[q].pc \in Opening => run'[q].batchNum = 0)
    BY <2>1, PlacesApart DEF ExpectsOnce, Opening
  <2>3. QED BY <2>1, <2>2 DEF ExpectsOnce
<1>2. QED BY <1>1 DEF OnceInv

LEMMA OnceStep ==
  ASSUME ~Overlap, RefreshInv, OnceInv, NEW r \in Runs,
         \A q \in Runs \ {r} : run'[q] = run[q],
         run[r].pc \notin Over \cup {"idle"},
         NoDuplicate', LiveApart', ExpectsOnce(run[r])'
  PROVE  OnceInv'
<1>1. \A q \in Runs \ {r} : run[q].pc \in Over \cup {"idle"}
  BY OthersIdle DEF RefreshInv
<1>2. QED BY <1>1, OnceMove

LEMMA TableKept ==
  ASSUME UNCHANGED <<log, batches>>
  PROVE  /\ LiveVersions' = LiveVersions
         /\ \A v : CommittedFiles(v)' = CommittedFiles(v)
         /\ NoDuplicate => NoDuplicate'
         /\ \A b : InLog(b)' <=> InLog(b)
<1>1. LiveVersions' = LiveVersions /\ (\A b : InLog(b)' <=> InLog(b))
  BY SharedKept
<1>2. \A v : CommittedFiles(v)' = CommittedFiles(v)
  BY DEF CommittedFiles
<1>3. QED BY <1>1, <1>2 DEF NoDuplicate

(* Jobs end or are cancelled, none is new.                                  *)
LEMMA EaseKeepsApart ==
  ASSUME LiveApart, UNCHANGED <<log, batches>>, DOMAIN jobs' = DOMAIN jobs,
         \A j \in DOMAIN jobs : jobs'[j].batch = jobs[j].batch /\ (Live(j)' => Live(j))
  PROVE  LiveApart'
BY TableKept DEF LiveApart

LEMMA OnceEnd ==
  ASSUME ~Overlap, TypeInv, RefreshInv, OnceInv, NEW r \in Runs, NEW label \in Over,
         End(r, label), run[r].pc \notin Over \cup {"idle"}, UNCHANGED <<log, batches, jobs>>
  PROVE  OnceInv'
<1>1. (\A q \in Runs \ {r} : run'[q] = run[q]) /\ run'[r].pc \in Over
  BY EndEffect
<1>2. ExpectsOnce(run[r])'
  BY <1>1, PlacesApart DEF ExpectsOnce
<1>3. NoDuplicate' /\ LiveApart'
  BY TableKept, EaseKeepsApart DEF OnceInv, Live
<1>4. QED BY <1>1, <1>2, <1>3, OnceStep

(* Before the first batch a run only looks.                                 *)
LEMMA OpeningStep ==
  ASSUME ~Overlap, TypeInv, RefreshInv, OnceInv, NEW r \in Runs,
         \A q \in Runs \ {r} : run'[q] = run[q],
         run[r].pc \in Opening, run[r].pc # "idle",
         run'[r].pc \in Opening \cup {"discover"}, run'[r].mode = run[r].mode,
         run'[r].batchNum = run[r].batchNum,
         UNCHANGED <<log, batches>>, LiveApart'
  PROVE  OnceInv'
<1>1. run[r].pc \notin Over \cup {"idle"}
  BY PlacesApart
<1>2. run[r].mode = "full" /\ run[r].batchNum = 0
  BY <1>1 DEF OnceInv, ExpectsOnce
<1>3. ExpectsOnce(run[r])'
  BY <1>2, PlacesApart DEF ExpectsOnce, InBatch, WithJob
<1>4. NoDuplicate'
  BY TableKept DEF OnceInv
<1>5. QED BY <1>1, <1>3, <1>4, OnceStep

LEMMA InBatchStep ==
  ASSUME ~Overlap, TypeInv, RefreshInv, OnceInv, NEW r \in Runs,
         \A q \in Runs \ {r} : run'[q] = run[q],
         run[r].pc \in InBatch, run'[r].pc \in InBatch,
         run'[r].mode = run[r].mode, run'[r].files = run[r].files,
         UNCHANGED <<watermark, pending, log, batches>>, LiveApart'
  PROVE  OnceInv'
<1>1. run[r].pc \notin Over \cup {"idle"}
  BY PlacesApart
<1>2. run[r].mode = "full" /\ Ahead(run[r].files) /\ \A v \in LiveVersions : Explained(v)
  BY <1>1 DEF OnceInv, ExpectsOnce
<1>3. Ahead(run[r].files)'
  BY <1>2 DEF Ahead
<1>4. \A v \in LiveVersions' : Explained(v)'
  BY <1>2, TableKept DEF Explained, Passed
<1>5. ExpectsOnce(run[r])'
  BY <1>2, <1>3, <1>4, PlacesApart DEF ExpectsOnce
<1>6. NoDuplicate'
  BY TableKept DEF OnceInv
<1>7. QED BY <1>1, <1>5, <1>6, OnceStep

-----------------------------------------------------------------------------
LEMMA StartKeepsOnce ==
  ASSUME OnlyFull, ~Overlap, TypeInv, RefreshInv, OnceInv, NEW r \in Runs, Start(r)
  PROVE  OnceInv'
<1>1. run' = [run EXCEPT ![r].mode = "full", ![r].pc = "deleteWatermark"] /\ run[r].pc = "idle"
  BY DEF Start, At, OnlyFull
<1>2. /\ \A q \in Runs \ {r} : run'[q] = run[q]
      /\ run'[r].pc = "deleteWatermark" /\ run'[r].mode = "full"
      /\ run'[r].batchNum = run[r].batchNum
  <2>1. run \in [Runs -> RunState] /\ run[r] \in RunState
    BY Facts
  <2>2. QED BY <1>1, <2>1 DEF RunState
<1>3. ASSUME NEW q \in Runs \ {r} PROVE run[q].pc \in Over \cup {"idle"}
  <2>1. CASE q < r
    BY <2>1 DEF Start
  <2>2. CASE r < q
    BY <1>1, <2>2 DEF RefreshInv, Sequential, Over
  <2>3. QED BY <2>1, <2>2, RunsAssumption DEF Runs
<1>4. run[r].batchNum = 0
  BY <1>1 DEF OnceInv, ExpectsOnce, Opening
<1>5. ExpectsOnce(run[r])'
  BY <1>2, <1>4 DEF ExpectsOnce, InBatch, WithJob
<1>6. NoDuplicate' /\ LiveApart'
  BY TableKept, EaseKeepsApart DEF Start, delta, OnceInv, Live
<1>7. QED BY <1>2, <1>3, <1>5, <1>6, OnceMove

(* Deleting the checkpoint, claiming, settling and reconciling.             *)
LEMMA PrepareKeepsOnce ==
  ASSUME OnlyFull, ~Overlap, TypeInv, RefreshInv, OnceInv, NEW r \in Runs, Prepare(r)
  PROVE  OnceInv'
<1>1. CASE Start(r)
  BY <1>1, StartKeepsOnce
<1>2. ASSUME NEW from \in Opening \ {"idle"}, NEW to \in Opening,
             run[r].pc = from, Goto(r, to), UNCHANGED <<log, batches, jobs>>
      PROVE  OnceInv'
  <2>1. /\ \A q \in Runs \ {r} : run'[q] = run[q]
        /\ run'[r].pc = to /\ run'[r].mode = run[r].mode /\ run'[r].batchNum = run[r].batchNum
    BY <1>2, GotoEffect
  <2>2. LiveApart'
    BY <1>2, EaseKeepsApart DEF OnceInv, Live
  <2>3. QED BY <1>2, <2>1, <2>2, OpeningStep
<1>3. CASE DeleteWatermark(r)
  BY <1>2, <1>3 DEF DeleteWatermark, At, Opening, Refreshing, delta
<1>4. CASE ClearPending(r)
  <2>1. CASE End(r, "failed")
    BY <1>4, <2>1, OnceEnd DEF ClearPending, At, Over, delta
  <2>2. CASE Goto(r, "claim")
    BY <1>2, <1>4, <2>2 DEF ClearPending, At, Opening, Refreshing, delta
  <2>3. QED BY <1>4, <2>1, <2>2 DEF ClearPending
<1>5. CASE Claim(r)
  <2>1. CASE Goto(r, "listOrphans")
    BY <1>2, <1>5, <2>1 DEF Claim, At, Opening, Refreshing, delta
  <2>2. CASE End(r, "superseded") \/ End(r, "crashed")
    BY <1>5, <2>2, OnceEnd DEF Claim, At, Over, delta
  <2>3. QED BY <1>5, <2>1, <2>2 DEF Claim
<1>6. CASE ListOrphans(r)
  <2>1. PICK listed \in Listed(r) :
           /\ jobs' = Cancelled(listed)
           /\ run' = [run EXCEPT ![r].orphans = listed, ![r].pc = "settling"]
    BY <1>6 DEF ListOrphans
  <2>2. Ease
    BY <1>6, <2>1, CancelEases DEF ListOrphans, checkpoint, delta
  <2>3. LiveApart'
    BY <2>2, EaseKeepsApart DEF Ease, OnceInv, Live
  <2>4. /\ \A q \in Runs \ {r} : run'[q] = run[q]
        /\ run'[r].pc = "settling" /\ run'[r].mode = run[r].mode
        /\ run'[r].batchNum = run[r].batchNum
    <3>1. run \in [Runs -> RunState] /\ run[r] \in RunState
      BY Facts
    <3>2. QED BY <2>1, <3>1 DEF RunState
  <2>5. run[r].pc = "listOrphans" /\ UNCHANGED <<log, batches>>
    BY <1>6 DEF ListOrphans, At, delta
  <2>6. QED BY <2>3, <2>4, <2>5, OpeningStep DEF Opening, Refreshing
<1>7. CASE Settled(r)
  BY <1>2, <1>7 DEF Settled, At, Opening, Refreshing, delta
<1>8. CASE SettleTimeout(r)
  BY <1>8, OnceEnd DEF SettleTimeout, At, Over, delta
<1>9. QED BY <1>1, <1>3, <1>4, <1>5, <1>6, <1>7, <1>8 DEF Prepare

(* A full refresh finds nothing to reconcile. *)
LEMMA ReconcileKeepsOnce ==
  ASSUME ~Overlap, TypeInv, RefreshInv, OnceInv, NEW r \in Runs, Reconcile(r)
  PROVE  OnceInv'
<1>1. /\ run[r].pc \notin Over \cup {"idle"} /\ UNCHANGED <<log, batches, jobs>>
      /\ Expects(run[r])
  BY DEF Reconcile, ReadTable, ResolvePending, RecordPending, DropPending, Adopt,
         RewriteWatermark, At, Over, delta, RefreshInv
<1>2. run[r].mode = "full"
  BY <1>1 DEF OnceInv, ExpectsOnce
<1>3. LiveApart'
  BY <1>1, EaseKeepsApart DEF OnceInv, Live
<1>4. CASE ReadTable(r)
  <2>1. /\ \A q \in Runs \ {r} : run'[q] = run[q]
        /\ run'[r].pc = "resolve" /\ run'[r].mode = run[r].mode
        /\ run'[r].batchNum = run[r].batchNum
    <3>1. run \in [Runs -> RunState] /\ run[r] \in RunState
      BY Facts
    <3>2. QED BY <1>4, <3>1 DEF ReadTable, RunState
  <2>2. run[r].pc = "readTable"
    BY <1>4 DEF ReadTable, At
  <2>3. QED BY <1>1, <1>3, <2>1, <2>2, OpeningStep DEF Opening, Refreshing
<1>5. CASE ResolvePending(r) \/ Adopt(r)
  <2>1. PICK to \in {"adopt", "discover"} : Goto(r, to)
    <3>1. CASE ResolvePending(r)
      <4>1. pending = NoBatch
        BY <1>1, <1>2, <3>1 DEF ResolvePending, At, Expects, ExpectsStart, Refreshing
      <4>2. QED BY <3>1, <4>1 DEF ResolvePending
    <3>2. CASE Adopt(r)
      <4>1. run[r].wm = NoWatermark
        BY <1>1, <1>2, <3>2 DEF Adopt, At, Expects, ExpectsStart, ExpectsTable, Emptied,
                                Refreshing, Reconciling
      <4>2. QED BY <3>2, <4>1 DEF Adopt
    <3>3. QED BY <1>5, <3>1, <3>2
  <2>2. run[r].pc \in {"resolve", "adopt"}
    BY <1>5 DEF ResolvePending, Adopt, At
  <2>3. /\ \A q \in Runs \ {r} : run'[q] = run[q]
        /\ run'[r].pc = to /\ run'[r].mode = run[r].mode /\ run'[r].batchNum = run[r].batchNum
    BY <2>1, GotoEffect
  <2>4. QED BY <1>1, <1>3, <2>1, <2>2, <2>3, OpeningStep DEF Opening, Refreshing
<1>6. CASE RecordPending(r) \/ DropPending(r) \/ RewriteWatermark(r)
  BY <1>1, <1>2, <1>6 DEF RecordPending, DropPending, RewriteWatermark, At, Expects, ExpectsStart
<1>7. QED BY <1>4, <1>5, <1>6 DEF Reconcile

-----------------------------------------------------------------------------
LEMMA DiscoverKeepsOnce ==
  ASSUME ~Overlap, TypeInv, RefreshInv, OnceInv, NEW r \in Runs, Discover(r)
  PROVE  OnceInv'
<1>1. /\ run[r].pc = "discover" /\ UNCHANGED <<watermark, log, batches, jobs>>
      /\ run[r].pc \notin Over \cup {"idle"} /\ run[r] \in RunState
  BY Facts DEF Discover, At, checkpoint, delta, Over
<1>2. /\ run[r].mode = "full" /\ (run[r].batchNum # 0 => LivePassed) /\ run[r].batchNum \in Nat
  BY <1>1 DEF OnceInv, ExpectsOnce, RunState
<1>3. CASE End(r, "done")
  BY <1>1, <1>3, OnceEnd DEF Over
<1>4. ASSUME NEW b \in NextBatches(Unprocessed(watermark)),
             run' = [run EXCEPT ![r].files = b, ![r].batchNum = @ + 1, ![r].pc = "begin"]
      PROVE  OnceInv'
  <2>1. /\ \A q \in Runs \ {r} : run'[q] = run[q]
        /\ run'[r].pc = "begin" /\ run'[r].mode = run[r].mode
        /\ run'[r].files = b /\ run'[r].batchNum = run[r].batchNum + 1
    <3>1. run \in [Runs -> RunState] /\ run[r] \in RunState
      BY Facts
    <3>2. QED BY <1>4, <3>1 DEF RunState
  <2>2. Ahead(b)'
    BY <1>1 DEF Ahead, NextBatches, Unprocessed
  <2>3. run'[r].batchNum # 1 => LivePassed'
    <3>1. LivePassed => LivePassed'
      BY <1>1, TableKept DEF LivePassed, Passed
    <3>2. QED BY <1>2, <2>1, <3>1
  <2>4. ExpectsOnce(run[r])'
    BY <1>2, <2>1, <2>2, <2>3 DEF ExpectsOnce, Ahead, Opening, Refreshing, InBatch, WithJob
  <2>5. NoDuplicate' /\ LiveApart'
    BY <1>1, TableKept, EaseKeepsApart DEF OnceInv, Live
  <2>6. QED BY <1>1, <2>1, <2>4, <2>5, OnceStep
<1>5. QED BY <1>3, <1>4 DEF Discover

LEMMA BeginBatchKeepsOnce ==
  ASSUME ~Overlap, TypeInv, RefreshInv, OnceInv, NEW r \in Runs,
         CheckBeforeBegin(r) \/ BeginBatch(r)
  PROVE  OnceInv'
<1>1. /\ run[r].pc \in {"begin", "readPosition"} /\ UNCHANGED <<watermark, log, batches, jobs>>
      /\ run[r].pc \notin Over \cup {"idle"}
  BY DEF CheckBeforeBegin, BeginBatch, At, checkpoint, delta, Over
<1>2. /\ run[r].mode = "full" /\ (run[r].batchNum # 1 => LivePassed) /\ Ahead(run[r].files)
  BY <1>1 DEF OnceInv, ExpectsOnce
<1>3. CASE End(r, "superseded")
  BY <1>1, <1>3, OnceEnd DEF Over
<1>4. CASE BeginBatch(r) \/ Goto(r, "readPosition")
  <2>1. /\ \A q \in Runs \ {r} : run'[q] = run[q]
        /\ run'[r].pc \in {"readPosition", "writePending"} /\ run'[r].mode = run[r].mode
        /\ run'[r].files = run[r].files /\ run'[r].batchNum = run[r].batchNum
    <3>1. run \in [Runs -> RunState] /\ run[r] \in RunState
      BY Facts
    <3>2. CASE BeginBatch(r)
      BY <3>1, <3>2 DEF BeginBatch, RunState
    <3>3. QED BY <1>4, <3>2, GotoEffect
  <2>2. Ahead(run[r].files)' /\ (LivePassed => LivePassed')
    BY <1>1, <1>2, <2>1, TableKept DEF Ahead, LivePassed, Passed
  <2>3. ExpectsOnce(run[r])'
    BY <1>2, <2>1, <2>2 DEF ExpectsOnce, Opening, Refreshing, InBatch, WithJob
  <2>4. NoDuplicate' /\ LiveApart'
    BY <1>1, TableKept, EaseKeepsApart DEF OnceInv, Live
  <2>5. QED BY <1>1, <2>1, <2>3, <2>4, OnceStep
<1>5. QED BY <1>3, <1>4 DEF CheckBeforeBegin

(* The first batch of a refresh deletes what is in the table, each other    *)
(* one starts when the watermark has passed all of it.                      *)
LEMMA WritePendingKeepsOnce ==
  ASSUME ~Overlap, TypeInv, RefreshInv, OnceInv, NEW r \in Runs, WritePending(r)
  PROVE  OnceInv'
<1> DEFINE b == [files |-> run[r].files, before |-> run[r].wm,
                 deltaBefore |-> run[r].latest, truncate |-> FirstOfRefresh(r)]
<1>1. /\ run[r].pc = "writePending" /\ UNCHANGED <<watermark, log, jobs>>
      /\ run[r].pc \notin Over \cup {"idle"} /\ Expects(run[r])
      /\ batches' = Append(batches, b) /\ pending' = Len(batches) + 1
      /\ run' = [run EXCEPT ![r].batch = Len(batches) + 1, ![r].resubmits = 0, ![r].pc = "submit"]
  BY DEF WritePending, At, delta, Over, RefreshInv
<1>2. /\ run[r].mode = "full" /\ (run[r].batchNum # 1 => LivePassed)
      /\ Ahead(run[r].files) /\ NoLive
  BY <1>1 DEF OnceInv, ExpectsOnce, Expects, ExpectsJobs, Lone, Alone
<1>3. b.truncate <=> run[r].batchNum = 1
  BY <1>2 DEF FirstOfRefresh
<1> HIDE DEF b
<1>4. PICK new \in Nat \ {NoBatch} :
         /\ new = Len(batches) + 1 /\ batches'[new] = b
         /\ \A v \in DOMAIN log : log[v] # new
         /\ LiveVersions' = LiveVersions
  BY <1>1, BatchAdded
<1>5. \A v \in DOMAIN log : CommittedFiles(v)' = CommittedFiles(v)
  BY <1>1, Facts DEF CommittedFiles, NoBatch, TypeInv, TypeOK
<1>6. /\ \A q \in Runs \ {r} : run'[q] = run[q]
      /\ run'[r].pc = "submit" /\ run'[r].mode = run[r].mode
      /\ run'[r].files = run[r].files
  <2>1. run \in [Runs -> RunState] /\ run[r] \in RunState
    BY Facts
  <2>2. QED BY <1>1, <2>1 DEF RunState
<1>7. \A v \in LiveVersions' : Explained(v)'
  <2>1. ~InLog(new)'
    BY <1>1, <1>4 DEF InLog
  <2>2. CASE run[r].batchNum = 1
    BY <1>1, <1>3, <1>4, <2>1, <2>2 DEF Explained, InLog
  <2>3. CASE run[r].batchNum # 1
    BY <1>1, <1>2, <1>4, <1>5, <2>3 DEF Explained, LivePassed, Passed, LiveVersions
  <2>4. QED BY <2>2, <2>3
<1>8. ExpectsOnce(run[r])'
  BY <1>1, <1>2, <1>6, <1>7 DEF ExpectsOnce, Ahead, Opening, Refreshing, Over
<1>9. NoDuplicate'
  BY <1>4, <1>5 DEF OnceInv, NoDuplicate, LiveVersions
<1>10. LiveApart'
  BY <1>1, <1>2, NoLiveStays DEF LiveApart, NoLive
<1>11. QED BY <1>1, <1>6, <1>8, <1>9, <1>10, OnceStep

LEMMA SubmitJobKeepsOnce ==
  ASSUME ~Overlap, TypeInv, RefreshInv, OnceInv, NEW r \in Runs, SubmitJob(r)
  PROVE  OnceInv'
<1> DEFINE job == [batch |-> run[r].batch, run |-> r, state |-> "active"]
<1>1. /\ run[r].pc = "put" /\ UNCHANGED <<watermark, pending, log, batches>>
      /\ run[r].pc \in InBatch /\ run[r].pc \notin Over \cup {"idle"} /\ Expects(run[r])
      /\ jobs' = Append(jobs, job)
      /\ run' = [run EXCEPT ![r].job = Len(jobs) + 1, ![r].pc = "recheck"]
  BY DEF SubmitJob, At, checkpoint, delta, InBatch, Over, RefreshInv
<1>2. /\ NoLive /\ ~InLog(pending) /\ run[r].batch = pending /\ pending # NoBatch
      /\ run[r].files = batches[pending].files
      /\ Ahead(run[r].files) /\ \A v \in LiveVersions : Explained(v)
  BY <1>1 DEF Expects, ExpectsJobs, ExpectsBatch, Lone, Alone, OnceInv, ExpectsOnce
<1>3. job.batch = pending
  BY <1>2
<1> HIDE DEF job
<1>4. ASSUME NEW j \in DOMAIN jobs', Live(j)' PROVE jobs'[j].batch = pending
  <2>1. jobs \in Seq(Job) /\ Len(jobs) \in Nat /\ DOMAIN jobs = 1..Len(jobs)
    BY DEF TypeInv, TypeOK
  <2>2. \A i \in DOMAIN jobs : jobs'[i] = jobs[i]
    BY <1>1, <2>1
  <2>3. j \notin DOMAIN jobs
    BY <1>2, <1>4, <2>2 DEF NoLive, Live
  <2>4. j = Len(jobs) + 1 /\ jobs'[j] = job
    BY <1>1, <2>1, <2>3
  <2>5. QED BY <1>3, <2>4
<1>5. LiveApart'
  <2>1. ASSUME ~batches[pending].truncate, NEW v \in LiveVersions
        PROVE  CommittedFiles(v) \cap batches[pending].files = {}
    <3>1. Passed(v)
      BY <1>2, <2>1 DEF Explained, InLog, LiveVersions
    <3>2. CommittedFiles(v) \subseteq Files /\ batches[pending].files \subseteq Files
      BY <1>2, Facts DEF CommittedFiles, LiveVersions, NoBatch, Batch
    <3>3. \A f \in CommittedFiles(v) : f \notin batches[pending].files
      <4>1. \A f \in Files : MTime[f] \in Nat /\ watermark.modified \in Nat
        BY OldTimes, Facts
      <4>2. QED BY <1>2, <3>1, <3>2, <4>1 DEF Passed, Ahead
    <3>4. QED BY <3>3
  <2>2. QED BY <1>1, <1>4, <2>1, TableKept DEF LiveApart
<1>6. /\ \A q \in Runs \ {r} : run'[q] = run[q]
      /\ run'[r].pc = "recheck" /\ run'[r].mode = run[r].mode
      /\ run'[r].files = run[r].files
  <2>1. run \in [Runs -> RunState] /\ run[r] \in RunState
    BY Facts
  <2>2. QED BY <1>1, <2>1 DEF RunState
<1>7. QED BY <1>1, <1>5, <1>6, InBatchStep DEF InBatch, WithJob

(* Waiting for a job, and what comes of it. *)
LEMMA WaitingKeepsOnce ==
  ASSUME ~Overlap, TypeInv, RefreshInv, OnceInv, NEW r \in Runs,
         \/ CheckBeforeSubmit(r) \/ CheckAfterSubmit(r) \/ JobSucceeded(r) \/ JobFailed(r)
         \/ GiveUp(r) \/ Abandon(r) \/ AbandonedJobEnded(r) \/ AbandonedJobUnconfirmed(r)
         \/ CheckBeforeUpdate(r) \/ UpdateCheckpoint(r)
  PROVE  OnceInv'
<1>1. /\ run[r].pc \in InBatch /\ run[r].pc \notin Over \cup {"idle"}
      /\ UNCHANGED <<watermark, pending, log, batches>>
  BY DEF CheckBeforeSubmit, CheckAfterSubmit, JobSucceeded, JobFailed, GiveUp, Abandon,
         AbandonedJobEnded, AbandonedJobUnconfirmed, CheckBeforeUpdate, UpdateCheckpoint, At,
         InBatch, WithJob, Over, checkpoint, delta
<1>2. Ease
  <2>1. CASE UNCHANGED jobs
    BY <1>1, <2>1 DEF Ease
  <2>2. CASE Abandon(r)
    BY <1>1, <2>2, CancelEases DEF Abandon
  <2>3. QED BY <2>1, <2>2
          DEF CheckBeforeSubmit, CheckAfterSubmit, JobSucceeded, JobFailed, GiveUp,
              AbandonedJobEnded, AbandonedJobUnconfirmed, CheckBeforeUpdate, UpdateCheckpoint
<1>3. LiveApart'
  BY <1>2, EaseKeepsApart DEF Ease, OnceInv, Live
<1>4. ASSUME NEW label \in InBatch,
             /\ \A q \in Runs \ {r} : run'[q] = run[q]
             /\ run'[r].pc = label /\ run'[r].mode = run[r].mode
             /\ run'[r].files = run[r].files
      PROVE  OnceInv'
  BY <1>1, <1>3, <1>4, InBatchStep
<1>5. ASSUME NEW label \in InBatch, Goto(r, label) PROVE OnceInv'
  BY <1>4, <1>5, GotoEffect
<1>6. ASSUME NEW label \in Over, End(r, label), UNCHANGED jobs PROVE OnceInv'
  BY <1>1, <1>6, OnceEnd
<1>7. run \in [Runs -> RunState] /\ run[r] \in RunState
  BY Facts
<1>8. CASE JobFailed(r)
  <2>1. CASE run' = [run EXCEPT ![r].resubmits = @ + 1, ![r].pc = "submit"]
    <3>1. /\ \A q \in Runs \ {r} : run'[q] = run[q]
          /\ run'[r].pc = "submit" /\ run'[r].mode = run[r].mode
          /\ run'[r].files = run[r].files
      BY <1>7, <2>1 DEF RunState
    <3>2. QED BY <1>4, <3>1 DEF InBatch
  <2>2. CASE End(r, "failed")
    BY <1>6, <1>8, <2>2 DEF JobFailed, Over
  <2>3. QED BY <1>8, <2>1, <2>2 DEF JobFailed
<1>9. CASE UpdateCheckpoint(r)
  <2>1. run' = [run EXCEPT ![r].wm = watermark, ![r].pc = "record"]
    BY <1>9 DEF UpdateCheckpoint
  <2>2. /\ \A q \in Runs \ {r} : run'[q] = run[q]
        /\ run'[r].pc = "record" /\ run'[r].mode = run[r].mode
        /\ run'[r].files = run[r].files
    BY <1>7, <2>1 DEF RunState
  <2>3. QED BY <1>4, <2>2 DEF InBatch
<1>10. CASE CheckBeforeSubmit(r) \/ CheckBeforeUpdate(r)
  BY <1>5, <1>6, <1>10 DEF CheckBeforeSubmit, CheckBeforeUpdate, InBatch, Over
<1>11. CASE CheckAfterSubmit(r) \/ JobSucceeded(r) \/ GiveUp(r) \/ Abandon(r)
  <2>1. PICK label \in {"wait", "abandon", "update", "abandoned"} : Goto(r, label)
    BY <1>11 DEF CheckAfterSubmit, JobSucceeded, GiveUp, Abandon
  <2>2. QED BY <1>5, <2>1 DEF InBatch, WithJob
<1>12. CASE AbandonedJobEnded(r) \/ AbandonedJobUnconfirmed(r)
  <2>1. CASE Goto(r, "update")
    BY <1>5, <2>1 DEF InBatch
  <2>2. CASE End(r, "failed")
    BY <1>6, <1>12, <2>2 DEF AbandonedJobEnded, AbandonedJobUnconfirmed, Over
  <2>3. QED BY <1>12, <2>1, <2>2 DEF AbandonedJobEnded, AbandonedJobUnconfirmed
<1>13. QED BY <1>8, <1>9, <1>10, <1>11, <1>12

(* Recording a batch takes the watermark past everything in the table.      *)
LEMMA RecordBatchKeepsOnce ==
  ASSUME ~Overlap, TypeInv, RefreshInv, OnceInv, NEW r \in Runs, RecordBatch(r)
  PROVE  OnceInv'
<1>1. /\ run[r].pc = "record" /\ UNCHANGED <<pending, log, batches, jobs>>
      /\ run[r].pc \in InBatch /\ run[r].pc \notin Over \cup {"idle"} /\ Expects(run[r])
      /\ run[r] \in RunState /\ run[r].wm \in Watermark /\ run[r].files \subseteq Files
  BY Facts DEF RecordBatch, At, delta, InBatch, Over, RefreshInv, RunState
<1>2. /\ run[r].mode = "full" /\ InLog(pending) /\ run[r].batch = pending /\ pending # NoBatch
      /\ run[r].files = batches[pending].files
      /\ Ahead(run[r].files) /\ \A v \in LiveVersions : Passed(v) \/ log[v] = pending
  BY <1>1 DEF Expects, ExpectsBatch, OnceInv, ExpectsOnce, Explained
<1>3. NoDuplicate' /\ LiveApart'
  BY <1>1, TableKept, EaseKeepsApart DEF OnceInv, Live
<1>4. CASE End(r, "failed")
  BY <1>1, <1>4, OnceEnd DEF Over
<1>5. CASE Goto(r, "finish")
  <2>1. /\ \A q \in Runs \ {r} : run'[q] = run[q]
        /\ run'[r].pc = "finish" /\ run'[r].mode = run[r].mode
    BY <1>5, GotoEffect
  <2>2. PICK version \in Nat : watermark' = NewWatermark(run[r].files, run[r].wm, version)
    <3>1. PICK version \in CommittedVersions(r) :
             watermark' = NewWatermark(run[r].files, run[r].wm, version)
      BY DEF RecordBatch, WriteWatermark
    <3>2. TokenVersion(run[r].batch, Len(log)) \in Nat /\ Len(log) \in Nat
      <4>1. pending \in 1..Len(batches) /\ Len(log) \in Nat
        BY <1>2, Facts DEF NoBatch
      <4>2. QED BY <1>2, <4>1, TokenVersionFound
    <3>3. version \in Nat
      BY <3>1, <3>2 DEF CommittedVersions
    <3>4. QED BY <3>1, <3>3
  <2>3. run[r].files # {}
    BY <1>2, Facts DEF NoBatch, Batch
  <2>4. /\ watermark'.modified \in Nat
        /\ \A f \in run[r].files : MTime[f] <= watermark'.modified
        /\ watermark.modified <= watermark'.modified
    <3>1. /\ watermark' \in Watermark
          /\ \A f \in run[r].files : MTime[f] <= watermark'.modified
      BY <1>1, <2>2, <2>3, NewWatermarkIsNewest
    <3>2. watermark'.modified \in Nat /\ watermark.modified \in Nat
          /\ \A f \in Files : MTime[f] \in Nat
      BY <3>1, OldTimes, Facts
    <3>3. QED BY <1>1, <1>2, <2>3, <3>1, <3>2 DEF Ahead
  <2>5. ASSUME NEW v \in LiveVersions PROVE Passed(v)'
    <3>1. CommittedFiles(v)' = CommittedFiles(v) /\ CommittedFiles(v) \subseteq Files
      BY <1>1, TableKept, Facts DEF CommittedFiles, LiveVersions, NoBatch, Batch
    <3>2. CASE log[v] = pending
      BY <1>2, <2>4, <3>1, <3>2 DEF Passed, CommittedFiles
    <3>3. CASE Passed(v)
      BY <2>4, <3>1, <3>3, OldTimes, Facts DEF Passed
    <3>4. QED BY <1>2, <3>2, <3>3
  <2>6. LivePassed'
    BY <1>1, <2>5, TableKept DEF LivePassed
  <2>7. ExpectsOnce(run[r])'
    BY <1>2, <2>1, <2>6 DEF ExpectsOnce, Opening, Refreshing, InBatch, WithJob
  <2>8. QED BY <1>1, <1>3, <2>1, <2>7, OnceStep
<1>6. QED BY <1>4, <1>5 DEF RecordBatch

LEMMA FinishKeepsOnce ==
  ASSUME ~Overlap, TypeInv, RefreshInv, OnceInv, NEW r \in Runs, FinishBatch(r)
  PROVE  OnceInv'
<1>1. /\ run[r].pc = "finish" /\ UNCHANGED <<watermark, log, batches, jobs>>
      /\ run[r].pc \notin Over \cup {"idle"} /\ Goto(r, "discover")
  BY DEF FinishBatch, At, delta, Over
<1>2. run[r].mode = "full" /\ LivePassed
  BY <1>1 DEF OnceInv, ExpectsOnce
<1>3. /\ \A q \in Runs \ {r} : run'[q] = run[q]
      /\ run'[r].pc = "discover" /\ run'[r].mode = run[r].mode
  BY <1>1, GotoEffect
<1>4. LivePassed'
  BY <1>1, <1>2, TableKept DEF LivePassed, Passed
<1>5. ExpectsOnce(run[r])'
  BY <1>2, <1>3, <1>4 DEF ExpectsOnce, Opening, Refreshing, InBatch, WithJob
<1>6. NoDuplicate' /\ LiveApart'
  BY <1>1, TableKept, EaseKeepsApart DEF OnceInv, Live
<1>7. QED BY <1>1, <1>3, <1>5, <1>6, OnceStep

LEMMA ProcessKeepsOnce ==
  ASSUME ~Overlap, TypeInv, RefreshInv, OnceInv, NEW r \in Runs, Process(r)
  PROVE  OnceInv'
BY DiscoverKeepsOnce, BeginBatchKeepsOnce, WritePendingKeepsOnce, SubmitJobKeepsOnce,
   WaitingKeepsOnce, RecordBatchKeepsOnce, FinishKeepsOnce DEF Process

-----------------------------------------------------------------------------
(* A commit that deletes leaves itself alone in the table; any other brings *)
(* files no version there has.                                              *)
LEMMA CommitJobKeepsOnce ==
  ASSUME TypeInv, RefreshInv, OnceInv, NEW j \in DOMAIN jobs, CommitJob(j)
  PROVE  OnceInv'
<1> DEFINE b == jobs[j].batch
<1>1. /\ Live(j) /\ ~InLog(b) /\ pending \in {NoBatch, b}
      /\ \A i \in DOMAIN jobs : Live(i) => i = j
  BY DEF CommitJob, Live, RefreshInv, StoreOK, LiveSound
<1>2. b \in 1..Len(batches) /\ b # NoBatch /\ jobs[j] \in Job /\ b \in 0..Len(batches)
  BY Facts DEF NoBatch
<1>3. log' = Append(log, b) /\ UNCHANGED <<watermark, pending, batches, run>>
  BY DEF CommitJob, checkpoint
<1>4. /\ DOMAIN jobs' = DOMAIN jobs /\ jobs'[j].state = "succeeded"
      /\ \A i \in DOMAIN jobs : i # j => jobs'[i] = jobs[i]
  BY <1>2 DEF CommitJob, Job
<1>5. \/ batches[b].truncate
      \/ \A v \in LiveVersions : CommittedFiles(v) \cap batches[b].files = {}
  BY <1>1 DEF OnceInv, LiveApart
<1> HIDE DEF b
<1>6. PICK new \in Nat :
         /\ DOMAIN log' = (DOMAIN log) \cup {new} /\ new \notin DOMAIN log
         /\ \A v \in DOMAIN log : log'[v] = log[v] /\ CommittedFiles(v)' = CommittedFiles(v)
         /\ log'[new] = b /\ CommittedFiles(new)' = batches[b].files
         /\ IF batches[b].truncate THEN LiveVersions' = {new}
                                   ELSE LiveVersions' = LiveVersions \cup {new}
  BY <1>2, <1>3, AppendedTable
<1>7. LiveApart'
  BY <1>1, <1>4 DEF LiveApart, Live, Ended
<1>8. NoDuplicate'
  <2>1. CASE batches[b].truncate
    BY <1>6, <2>1 DEF NoDuplicate
  <2>2. CASE ~batches[b].truncate
    BY <1>5, <1>6, <2>2 DEF OnceInv, NoDuplicate, LiveVersions
  <2>3. QED BY <2>1, <2>2
<1>9. ASSUME NEW r \in Runs PROVE ExpectsOnce(run[r])'
  <2>1. run'[r] = run[r] /\ ExpectsOnce(run[r]) /\ Expects(run[r])
    BY <1>3 DEF OnceInv, RefreshInv
  <2>2. run[r].pc \notin Lone
    BY <1>1, <2>1 DEF Expects, ExpectsJobs, NoLive
  <2>3. run[r].pc \notin {"finish", "discover", "begin", "readPosition", "writePending"}
    BY <2>2 DEF Lone, Alone
  <2>4. ASSUME run[r].pc \in InBatch PROVE \A v \in LiveVersions' : Explained(v)'
    <3>1. pending = b /\ \A v \in LiveVersions : Explained(v)
      BY <1>1, <2>1, <2>4 DEF Expects, ExpectsBatch, ExpectsOnce
    <3>2. Explained(new)'
      BY <1>3, <1>6, <3>1 DEF Explained
    <3>3. ASSUME ~batches[b].truncate, NEW v \in LiveVersions PROVE Explained(v)'
      BY <1>3, <1>6, <3>1, <3>3 DEF Explained, Passed, LiveVersions
    <3>4. QED BY <1>6, <3>2, <3>3
  <2>5. QED BY <1>3, <2>1, <2>3, <2>4 DEF ExpectsOnce, Ahead
<1>10. QED BY <1>7, <1>8, <1>9 DEF OnceInv

LEMMA OtherCommitKeepsOnce ==
  ASSUME TypeInv, RefreshInv, OnceInv, OtherCommit
  PROVE  OnceInv'
<1>1. log' = Append(log, NoBatch) /\ UNCHANGED <<watermark, pending, batches, jobs, run>>
  BY DEF OtherCommit, checkpoint
<1>2. PICK new \in Nat :
         /\ DOMAIN log' = (DOMAIN log) \cup {new} /\ new \notin DOMAIN log
         /\ \A v \in DOMAIN log : log'[v] = log[v] /\ CommittedFiles(v)' = CommittedFiles(v)
         /\ log'[new] = NoBatch /\ CommittedFiles(new)' = {}
         /\ LiveVersions' = LiveVersions \cup {new}
  <2>1. NoBatch \in 0..Len(batches)
    BY Facts DEF NoBatch
  <2>2. QED BY <1>1, <2>1, AppendedTable
<1>3. NoDuplicate'
  BY <1>2 DEF OnceInv, NoDuplicate, LiveVersions
<1>4. LiveApart'
  BY <1>1, <1>2 DEF OnceInv, LiveApart, Live, LiveVersions
<1>5. LivePassed => LivePassed'
  BY <1>1, <1>2 DEF LivePassed, Passed, LiveVersions
<1>6. ASSUME NEW r \in Runs PROVE ExpectsOnce(run[r])'
  <2>1. run'[r] = run[r] /\ ExpectsOnce(run[r]) /\ Expects(run[r])
    BY <1>1 DEF OnceInv, RefreshInv
  <2>2. ASSUME run[r].pc \in InBatch PROVE \A v \in LiveVersions' : Explained(v)'
    <3>1. pending # NoBatch /\ \A v \in LiveVersions : Explained(v)
      BY <2>1, <2>2 DEF Expects, ExpectsBatch, ExpectsOnce
    <3>2. Explained(new)'
      BY <1>2 DEF Explained, Passed
    <3>3. InLog(pending)' <=> InLog(pending)
      BY <1>1, <1>2, <3>1 DEF InLog
    <3>4. ASSUME NEW v \in LiveVersions PROVE Explained(v)'
      BY <1>1, <1>2, <3>1, <3>3, <3>4 DEF Explained, Passed, LiveVersions
    <3>5. QED BY <1>2, <3>2, <3>4
  <2>3. QED BY <1>1, <1>5, <2>1, <2>2 DEF ExpectsOnce, Ahead
<1>7. QED BY <1>3, <1>4, <1>6 DEF OnceInv

LEMMA ElsewhereKeepsOnce ==
  ASSUME TypeInv, OnceInv, UNCHANGED <<watermark, pending, log, batches, run>>,
         \/ UNCHANGED jobs
         \/ \E j \in DOMAIN jobs : FailJob(j)
  PROVE  OnceInv'
<1>1. DOMAIN jobs' = DOMAIN jobs
      /\ \A j \in DOMAIN jobs : jobs'[j].batch = jobs[j].batch /\ (Live(j)' => Live(j))
  <2>1. CASE UNCHANGED jobs
    BY <2>1 DEF Live
  <2>2. ASSUME NEW j \in DOMAIN jobs, FailJob(j)
        PROVE  DOMAIN jobs' = DOMAIN jobs
               /\ \A i \in DOMAIN jobs : jobs'[i].batch = jobs[i].batch /\ (Live(i)' => Live(i))
    <3>1. jobs[j] \in Job /\ jobs' = [jobs EXCEPT ![j].state = "failed"]
      BY <2>2, Facts DEF FailJob
    <3>2. DOMAIN jobs' = DOMAIN jobs /\ jobs'[j].batch = jobs[j].batch
          /\ jobs'[j].state = "failed" /\ \A i \in DOMAIN jobs : i # j => jobs'[i] = jobs[i]
      BY <3>1 DEF Job
    <3>3. QED BY <3>2 DEF Live, Ended
  <2>3. QED BY <2>1, <2>2
<1>2. NoDuplicate' /\ LiveApart'
  BY <1>1, TableKept, EaseKeepsApart DEF OnceInv
<1>3. (LivePassed <=> LivePassed') /\ \A v \in LiveVersions : Explained(v) <=> Explained(v)'
  BY TableKept DEF LivePassed, Passed, Explained
<1>4. LiveVersions' = LiveVersions
  BY TableKept
<1>5. ASSUME NEW r \in Runs PROVE ExpectsOnce(run[r])'
  BY <1>3, <1>4 DEF OnceInv, ExpectsOnce, Ahead
<1>6. QED BY <1>2, <1>5 DEF OnceInv

LEMMA InitOnceInv == Init => OnceInv
<1> SUFFICES ASSUME Init PROVE OnceInv
  OBVIOUS
<1>1. LiveVersions = {}
  BY DEF Init, LiveVersions
<1>2. NoDuplicate /\ LiveApart
  BY <1>1 DEF Init, NoDuplicate, LiveApart
<1>3. \A r \in Runs : run[r].pc = "idle" /\ run[r].batchNum = 0
  BY DEF Init, Idle
<1>4. QED BY <1>2, <1>3, PlacesApart DEF OnceInv, ExpectsOnce, InBatch, WithJob

LEMMA NextOnceInv ==
  ASSUME OneAtATime, OnlyFull, TypeInv, RefreshInv, OnceInv, [Next]_vars
  PROVE  OnceInv'
<1>1. ~Overlap
  BY DEF OneAtATime
<1>2. CASE UNCHANGED vars \/ Terminated
  BY <1>2, ElsewhereKeepsOnce DEF Terminated, vars
<1>3. ASSUME NEW r \in Runs, RunStep(r) PROVE OnceInv'
  BY <1>1, <1>3, PrepareKeepsOnce, ReconcileKeepsOnce, ProcessKeepsOnce DEF RunStep
<1>4. ASSUME NEW r \in Runs, Crash(r) PROVE OnceInv'
  BY <1>1, <1>4, OnceEnd DEF Crash, Over, delta
<1>5. ASSUME NEW j \in DOMAIN jobs, EndJob(j) PROVE OnceInv'
  <2>1. CASE CommitJob(j)
    BY <2>1, CommitJobKeepsOnce
  <2>2. CASE FailJob(j)
    <3>1. UNCHANGED <<watermark, pending, log, batches, run>>
      BY <2>2 DEF FailJob, checkpoint, delta
    <3>2. QED BY <2>2, <3>1, ElsewhereKeepsOnce
  <2>3. QED BY <1>5, <2>1, <2>2 DEF EndJob
<1>6. CASE OtherCommit
  BY <1>6, OtherCommitKeepsOnce
<1>7. CASE CleanLog \/ Tick
  BY <1>7, ElsewhereKeepsOnce DEF CleanLog, Tick, checkpoint, delta
<1>8. QED BY <1>2, <1>3, <1>4, <1>5, <1>6, <1>7 DEF Next

(* A table that is only ever rebuilt, as the table materialization does,    *)
(* never holds a file twice: whichever run was cut short wherever, the next *)
(* one's first commit deletes what it left, and no commit of the earlier    *)
(* run lands after it.                                                      *)
THEOREM RebuiltTableHoldsNothingTwice ==
  ASSUME OneAtATime, OnlyFull, DistinctMTimes
  PROVE  Spec => []NoDuplicate
<1>1. Init => TypeInv /\ RefreshInv /\ OnceInv
  BY InitTypeInv, InitRefreshInv, InitOnceInv
<1>2. TypeInv /\ RefreshInv /\ OnceInv /\ [Next]_vars => (TypeInv /\ RefreshInv /\ OnceInv)'
  BY StepTypeInv, NextRefreshInv, NextOnceInv
<1>3. TypeInv /\ RefreshInv /\ OnceInv => NoDuplicate
  BY DEF OnceInv
<1>4. QED BY <1>1, <1>2, <1>3, PTL DEF Spec

-----------------------------------------------------------------------------
(* The position in the source, refreshes included                           *)

(* The versions the checkpoint may not have accounted for, and that can     *)
(* still be read: those after its Delta version, and, as the code may have  *)
(* to infer that one, those after watermark.json was written.               *)
Bases == {writtenAt} \cup ({watermark.delta} \ {0})
Unread == {v \in DOMAIN log : cleaned < v /\ \E n \in Bases : n < v}

NothingMissing == watermark # NoWatermark => \A v \in Unread : Passed(v)
OnlyPendingMissing == watermark # NoWatermark => \A v \in Unread : Passed(v) \/ log[v] = pending
OnlyPendingAfter(n) == \A v \in DOMAIN log : n < v => log[v] \in {NoBatch, pending}

(* pending.json is lost under a job only by a refresh, which has deleted    *)
(* the watermark first.                                                     *)
OrphansUnplaced == \A j \in DOMAIN jobs : Live(j) /\ pending = NoBatch => watermark = NoWatermark

(* A pending batch continues the watermark, or lies behind it, or a refresh *)
(* has deleted the watermark it continued; nothing but other engines'       *)
(* commits follows its own.                                                 *)
PendingPlaced == pending # NoBatch =>
    /\ \/ Applies(pending, watermark)
       \/ watermark = NoWatermark
       \/ \A f \in batches[pending].files : MTime[f] <= watermark.modified
    /\ \A f \in batches[pending].files : batches[pending].before.modified < MTime[f]
    /\ batches[pending].deltaBefore <= Len(log)
    /\ \A v \in DOMAIN log : log[v] = pending =>
          batches[pending].deltaBefore < v /\ OnlyPendingAfter(v)

Placed == OnlyPendingMissing /\ OrphansUnplaced /\ PendingPlaced

ExpectsOnward(l) ==
    /\ l.pc # "rewrite"
    /\ l.pc \in {"deleteWatermark", "clearPending"} => l.mode = "full"
    /\ l.pc \in Reconciling => \A v \in DOMAIN log : l.latest < v => log[v] = NoBatch
    /\ l.pc = "recordPending" => Applies(pending, watermark) /\ OnlyPendingAfter(l.version)
    /\ l.pc \in Clean => NothingMissing
    /\ l.pc \in {"begin", "readPosition", "writePending"} => Ahead(l.files)
    /\ l.pc = "writePending" => l.wm = watermark /\ l.latest <= Len(log)
    /\ l.pc \in InBatch => Applies(pending, watermark)
    /\ l.pc = "record" => l.wm = watermark

OnwardInv == Placed /\ \A r \in Runs : ExpectsOnward(run[r])

(* The places of a run at which it expects nothing here.                    *)
Elsewhere == PCs \ (Reconciling \cup Clean \cup InBatch
                    \cup {"deleteWatermark", "clearPending", "rewrite"})

LEMMA ElsewhereExpects ==
  ASSUME NEW k, k.pc \in Elsewhere
  PROVE  ExpectsOnward(k) /\ ExpectsOnward(k)'
BY DEF ExpectsOnward, Elsewhere, Reconciling, Clean, InBatch

LEMMA EndsElsewhere ==
  Over \cup {"idle", "claim", "listOrphans", "settling", "readTable"} \subseteq Elsewhere
BY DEF Elsewhere, Over, PCs, Reconciling, Clean, InBatch, WithJob

LEMMA OnwardMoves ==
  ASSUME NEW r \in Runs, NEW k \in RunState, run'[r] = k, ExpectsOnward(k)'
  PROVE  ExpectsOnward(run[r])'
BY DEF ExpectsOnward, OnlyPendingAfter, Ahead

(* A step of one run.                                                       *)
LEMMA OnwardStep ==
  ASSUME ~Overlap, TypeInv, RefreshInv, NEW r \in Runs, NEW k \in RunState,
         run' = [run EXCEPT ![r] = k], run[r].pc \notin Over \cup {"idle"},
         Placed', ExpectsOnward(k)'
  PROVE  OnwardInv'
<1>1. run'[r] = k /\ \A q \in Runs \ {r} : run'[q] = run[q]
  BY Facts
<1>2. \A q \in Runs \ {r} : run[q].pc \in Over \cup {"idle"} /\ run[q] \in RunState
  BY OthersIdle, Facts DEF RefreshInv
<1>3. ASSUME NEW q \in Runs PROVE ExpectsOnward(run[q])'
  <2>1. PICK l \in RunState : run'[q] = l /\ ExpectsOnward(l)'
    <3>1. CASE q = r
      BY <1>1, <3>1
    <3>2. CASE q # r
      BY <1>1, <1>2, <3>2, ElsewhereExpects, EndsElsewhere
    <3>3. QED BY <3>1, <3>2
  <2>2. QED BY <2>1, OnwardMoves
<1>4. QED BY <1>3 DEF OnwardInv

(* Steps that leave the checkpoint and the log alone.                       *)
Idles == Ease /\ UNCHANGED writtenAt /\ cleaned' \in Nat /\ cleaned <= cleaned'

LEMMA IdlesUnread ==
  ASSUME TypeInv, Idles
  PROVE  /\ Unread' \subseteq Unread
         /\ \A v : Passed(v)' <=> Passed(v)
         /\ NothingMissing => NothingMissing'
<1>1. UNCHANGED <<watermark, writtenAt, pending, batches, log>>
  BY DEF Idles, Ease
<1>2. cleaned \in Nat /\ cleaned' \in Nat /\ cleaned <= cleaned' /\ \A v \in DOMAIN log : v \in Nat
  BY Facts DEF Idles, TypeInv, TypeOK
<1>3. Unread' \subseteq Unread
  BY <1>1, <1>2 DEF Unread, Bases
<1>4. \A v : Passed(v)' <=> Passed(v)
  BY <1>1 DEF Passed, CommittedFiles
<1>5. QED BY <1>1, <1>3, <1>4 DEF NothingMissing

LEMMA IdlesKeepsPlaced ==
  ASSUME TypeInv, Placed, Idles
  PROVE  Placed'
<1>1. UNCHANGED <<watermark, writtenAt, pending, batches, log>>
  BY DEF Idles, Ease
<1>2. OnlyPendingMissing'
  BY <1>1, IdlesUnread DEF Placed, OnlyPendingMissing
<1>3. OrphansUnplaced'
  BY <1>1 DEF Placed, OrphansUnplaced, Live, Idles, Ease
<1>4. PendingPlaced'
  BY <1>1 DEF Placed, PendingPlaced, Applies, OnlyPendingAfter
<1>5. QED BY <1>2, <1>3, <1>4 DEF Placed

LEMMA IdlesKeepsOnward ==
  ASSUME TypeInv, Idles, NEW k \in RunState, ExpectsOnward(k)
  PROVE  ExpectsOnward(k)'
<1>1. UNCHANGED <<watermark, writtenAt, pending, batches, log>>
  BY DEF Idles, Ease
<1>2. (NothingMissing => NothingMissing') /\ (Applies(pending, watermark) => Applies(pending, watermark)')
      /\ (OnlyPendingAfter(k.version) => OnlyPendingAfter(k.version)')
      /\ (Ahead(k.files) => Ahead(k.files)')
  BY <1>1, IdlesUnread DEF Applies, OnlyPendingAfter, Ahead
<1>3. QED BY <1>1, <1>2 DEF ExpectsOnward

LEMMA NoJobsIdles ==
  ASSUME TypeInv, UNCHANGED Shared, cleaned' \in Nat, cleaned <= cleaned'
  PROVE  Idles
BY DEF Shared, Idles, Ease

LEMMA QuietOnward ==
  ASSUME ~Overlap, TypeInv, RefreshInv, OnwardInv, NEW r \in Runs, NEW k \in RunState,
         run' = [run EXCEPT ![r] = k], run[r].pc \notin Over \cup {"idle"},
         Idles, ExpectsOnward(k)
  PROVE  OnwardInv'
BY IdlesKeepsPlaced, IdlesKeepsOnward, OnwardStep DEF OnwardInv

LEMMA GotoOnward ==
  ASSUME ~Overlap, TypeInv, RefreshInv, OnwardInv, NEW r \in Runs, NEW label \in PCs,
         Goto(r, label), run[r].pc \notin Over \cup {"idle"}, Idles,
         \A k \in RunState : k.pc = label /\ k.mode = run[r].mode /\ k.wm = run[r].wm /\ k.latest = run[r].latest
                             /\ k.files = run[r].files /\ k.version = run[r].version
                             => ExpectsOnward(k)
  PROVE  OnwardInv'
<1>1. PICK k \in RunState :
         /\ run' = [run EXCEPT ![r] = k] /\ k.pc = label /\ k.mode = run[r].mode
         /\ k.wm = run[r].wm /\ k.latest = run[r].latest /\ k.files = run[r].files
         /\ k.version = run[r].version
  BY GotoLocals
<1>2. QED BY <1>1, QuietOnward

LEMMA EndOnward ==
  ASSUME ~Overlap, TypeInv, RefreshInv, OnwardInv, NEW r \in Runs, NEW label \in Over,
         End(r, label), run[r].pc \notin Over \cup {"idle"}, Idles
  PROVE  OnwardInv'
<1>1. PICK k \in RunState : run' = [run EXCEPT ![r] = k] /\ k.pc = label
  BY EndLocals
<1>2. QED BY <1>1, QuietOnward, ElsewhereExpects, EndsElsewhere

-----------------------------------------------------------------------------
(* Services *)

LEMMA CommitJobKeepsOnward ==
  ASSUME TypeInv, RefreshInv, OnwardInv, NEW j \in DOMAIN jobs, CommitJob(j)
  PROVE  OnwardInv'
<1> DEFINE b == jobs[j].batch
<1>1. /\ Live(j) /\ ~InLog(b) /\ pending \in {NoBatch, b}
      /\ \A i \in DOMAIN jobs : Live(i) => i = j
  BY DEF CommitJob, Live, RefreshInv, StoreOK, LiveSound
<1>2. b \in 1..Len(batches) /\ b # NoBatch /\ jobs[j] \in Job /\ b \in 0..Len(batches)
  BY Facts DEF NoBatch
<1>3. log' = Append(log, b) /\ UNCHANGED <<watermark, writtenAt, pending, batches, cleaned, run>>
  BY DEF CommitJob, checkpoint
<1>4. /\ DOMAIN jobs' = DOMAIN jobs /\ jobs'[j].state = "succeeded"
      /\ \A i \in DOMAIN jobs : i # j => jobs'[i] = jobs[i]
  BY <1>2 DEF CommitJob, Job
<1>5. pending = NoBatch => watermark = NoWatermark
  BY <1>1 DEF OnwardInv, Placed, OrphansUnplaced
<1> HIDE DEF b
<1>6. PICK new \in Nat :
         /\ new = Len(log) + 1 /\ Len(log') = new
         /\ DOMAIN log' = (DOMAIN log) \cup {new} /\ new \notin DOMAIN log
         /\ \A v \in DOMAIN log : log'[v] = log[v] /\ CommittedFiles(v)' = CommittedFiles(v)
         /\ log'[new] = b
  BY <1>2, <1>3, Appended
<1>7. OnlyPendingMissing'
  <2> SUFFICES ASSUME watermark # NoWatermark, NEW v \in Unread', log'[v] # pending
               PROVE  Passed(v)'
    BY <1>3 DEF OnlyPendingMissing
  <2>1. v \in DOMAIN log /\ v \in Unread
    BY <1>1, <1>3, <1>5, <1>6 DEF Unread, Bases
  <2>2. Passed(v)
    BY <1>6, <2>1 DEF OnwardInv, Placed, OnlyPendingMissing
  <2>3. QED BY <1>3, <1>6, <2>1, <2>2 DEF Passed
<1>8. OrphansUnplaced'
  BY <1>1, <1>3, <1>4 DEF OrphansUnplaced, Live, Ended
<1>9. PendingPlaced'
  <2> SUFFICES ASSUME pending # NoBatch PROVE PendingPlaced'
    BY <1>3 DEF PendingPlaced
  <2>1. pending = b /\ PendingPlaced
    BY <1>1 DEF OnwardInv, Placed
  <2>2. batches[pending].deltaBefore \in Nat /\ Len(log) \in Nat
        /\ batches[pending].deltaBefore <= Len(log)
    BY <1>2, <2>1, Facts DEF PendingPlaced, Batch
  <2>3. ASSUME NEW v \in DOMAIN log', log'[v] = pending
        PROVE  batches[pending].deltaBefore < v /\ OnlyPendingAfter(v)'
    <3>1. v = new
      BY <1>1, <1>6, <2>1, <2>3 DEF InLog
    <3>2. \A w \in DOMAIN log' : ~(v < w)
      BY <1>6, <3>1, Facts
    <3>3. batches[pending].deltaBefore < v
      BY <1>6, <2>2, <3>1
    <3>4. QED BY <3>2, <3>3 DEF OnlyPendingAfter
  <2>4. batches[pending].deltaBefore <= Len(log')
    BY <1>6, <2>2
  <2>5. QED BY <1>3, <2>1, <2>3, <2>4 DEF PendingPlaced, Applies
<1>10. ASSUME NEW r \in Runs PROVE ExpectsOnward(run[r])'
  <2>1. run'[r] = run[r] /\ ExpectsOnward(run[r]) /\ Expects(run[r])
    BY <1>3 DEF OnwardInv, RefreshInv
  <2>2. run[r].pc \notin Lone
    BY <1>1, <2>1 DEF Expects, ExpectsJobs, NoLive
  <2>3. run[r].pc \notin Reconciling \cup Clean \cup {"recordPending", "begin", "readPosition", "writePending", "readCurrent", "record", "rewrite"}
    BY <2>2 DEF Lone, Alone, Reconciling, Clean
  <2>4. QED BY <1>3, <2>1, <2>3 DEF ExpectsOnward, Applies
<1>11. QED BY <1>7, <1>8, <1>9, <1>10 DEF OnwardInv, Placed

LEMMA OtherCommitKeepsOnward ==
  ASSUME TypeInv, OnwardInv, OtherCommit
  PROVE  OnwardInv'
<1>1. log' = Append(log, NoBatch)
      /\ UNCHANGED <<watermark, writtenAt, pending, batches, cleaned, jobs, run>>
  BY DEF OtherCommit, checkpoint
<1>2. PICK new \in Nat :
         /\ new = Len(log) + 1 /\ Len(log') = new
         /\ DOMAIN log' = (DOMAIN log) \cup {new} /\ new \notin DOMAIN log
         /\ \A v \in DOMAIN log : log'[v] = log[v] /\ CommittedFiles(v)' = CommittedFiles(v)
         /\ log'[new] = NoBatch /\ CommittedFiles(new)' = {}
  <2>1. NoBatch \in 0..Len(batches)
    BY Facts DEF NoBatch
  <2>2. QED BY <1>1, <2>1, Appended
<1>3. /\ Unread' \subseteq Unread \cup {new} /\ Unread \subseteq DOMAIN log
      /\ \A v \in DOMAIN log : Passed(v) => Passed(v)'
      /\ Passed(new)'
  BY <1>1, <1>2 DEF Unread, Bases, Passed
<1>4. NothingMissing => NothingMissing'
  BY <1>1, <1>3 DEF NothingMissing
<1>5. \A n : OnlyPendingAfter(n) => OnlyPendingAfter(n)'
  BY <1>1, <1>2 DEF OnlyPendingAfter
<1>6. OnlyPendingMissing'
  BY <1>1, <1>2, <1>3 DEF OnwardInv, Placed, OnlyPendingMissing
<1>7. OrphansUnplaced'
  BY <1>1 DEF OnwardInv, Placed, OrphansUnplaced, Live
<1>8. PendingPlaced'
  <2> SUFFICES ASSUME pending # NoBatch PROVE PendingPlaced'
    BY <1>1 DEF PendingPlaced
  <2>1. PendingPlaced /\ batches[pending].deltaBefore \in Nat /\ Len(log) \in Nat
    BY Facts DEF OnwardInv, Placed, NoBatch, Batch
  <2>2. batches[pending].deltaBefore <= Len(log')
    BY <1>2, <2>1 DEF PendingPlaced
  <2>3. ASSUME NEW v \in DOMAIN log', log'[v] = pending
        PROVE  batches[pending].deltaBefore < v /\ OnlyPendingAfter(v)'
    BY <1>2, <1>5, <2>1, <2>3 DEF PendingPlaced
  <2>4. QED BY <1>1, <2>1, <2>2, <2>3 DEF PendingPlaced, Applies
<1>9. ASSUME NEW r \in Runs PROVE ExpectsOnward(run[r])'
  <2>1. run'[r] = run[r] /\ ExpectsOnward(run[r]) /\ run[r].latest \in Nat /\ Len(log) \in Nat
    BY <1>1, Facts DEF OnwardInv, RunState
  <2>2. run[r].latest <= Len(log) => run[r].latest <= Len(log')
    BY <1>2, <2>1
  <2>3. (\A v \in DOMAIN log : run[r].latest < v => log[v] = NoBatch)
          => \A v \in DOMAIN log' : run[r].latest < v => log'[v] = NoBatch
    BY <1>2
  <2>4. QED BY <1>1, <1>4, <1>5, <2>1, <2>2, <2>3 DEF ExpectsOnward, Applies, Ahead
<1>10. QED BY <1>6, <1>7, <1>8, <1>9 DEF OnwardInv, Placed

(* Steps in which no run takes part and no version is added.                *)
LEMMA AsideKeepsOnward ==
  ASSUME TypeInv, OnwardInv, Idles, UNCHANGED run
  PROVE  OnwardInv'
<1>1. ASSUME NEW r \in Runs PROVE ExpectsOnward(run[r])'
  <2>1. PICK k \in RunState : k = run[r] /\ ExpectsOnward(k)
    BY Facts DEF OnwardInv
  <2>2. run'[r] = k /\ ExpectsOnward(k)'
    BY <2>1, IdlesKeepsOnward
  <2>3. QED BY <2>2, OnwardMoves
<1>2. QED BY <1>1, IdlesKeepsPlaced DEF OnwardInv

LEMMA FailJobEases ==
  ASSUME TypeInv, NEW j \in DOMAIN jobs, FailJob(j)
  PROVE  Ease
<1>1. jobs' = [jobs EXCEPT ![j].state = "failed"] /\ jobs[j] \in Job /\ jobs[j].state \notin Ended
  BY Facts DEF FailJob, Ended
<1>2. ASSUME NEW i \in DOMAIN jobs
      PROVE  /\ jobs'[i].batch = jobs[i].batch /\ jobs'[i].run = jobs[i].run
             /\ jobs'[i].state \notin Ended => jobs[i].state \notin Ended
             /\ jobs'[i].state = "succeeded" <=> jobs[i].state = "succeeded"
  <2>1. CASE i = j
    BY <1>1, <2>1 DEF Job, Ended
  <2>2. CASE i # j
    BY <1>1, <2>2
  <2>3. QED BY <2>1, <2>2
<1>3. QED BY <1>1, <1>2 DEF Ease, FailJob, checkpoint, delta

LEMMA ServicesKeepOnward ==
  ASSUME TypeInv, OnwardInv,
         \/ CleanLog \/ Tick \/ UNCHANGED vars
         \/ \E j \in DOMAIN jobs : FailJob(j)
  PROVE  OnwardInv'
<1>1. cleaned \in Nat /\ Len(log) \in Nat
  BY Facts DEF TypeInv, TypeOK
<1>2. CASE CleanLog \/ Tick \/ UNCHANGED vars
  <2>1. UNCHANGED Shared /\ UNCHANGED run /\ cleaned' \in Nat /\ cleaned <= cleaned'
    BY <1>1, <1>2 DEF CleanLog, Tick, vars, Shared, checkpoint, delta
  <2>2. QED BY <2>1, NoJobsIdles, AsideKeepsOnward
<1>3. ASSUME NEW j \in DOMAIN jobs, FailJob(j) PROVE OnwardInv'
  <2>1. Ease /\ UNCHANGED <<writtenAt, cleaned, run>>
    BY <1>3, FailJobEases DEF FailJob, checkpoint, delta
  <2>2. QED BY <1>1, <2>1, AsideKeepsOnward DEF Idles
<1>4. QED BY <1>2, <1>3

-----------------------------------------------------------------------------
(* Starting, claiming and settling *)

LEMMA StartKeepsOnward ==
  ASSUME ~Overlap, TypeInv, RefreshInv, OnwardInv, NEW r \in Runs, Start(r)
  PROVE  OnwardInv'
<1>1. /\ run[r].pc = "idle" /\ UNCHANGED Shared /\ UNCHANGED cleaned /\ cleaned \in Nat
      /\ Idles
  BY NoJobsIdles DEF Start, At, Shared, checkpoint, delta, TypeInv, TypeOK
<1>2. ASSUME NEW q \in Runs PROVE ExpectsOnward(run[q])'
  <2>1. CASE q = r
    <3>1. \/ run'[r].pc = "deleteWatermark" /\ run'[r].mode = "full"
          \/ run'[r].pc = "claim"
      BY Facts DEF Start, RunState
    <3>2. QED BY <2>1, <3>1 DEF ExpectsOnward, Reconciling, Clean, InBatch, WithJob
  <2>2. CASE q # r
    <3>1. PICK k \in RunState : k = run[q] /\ ExpectsOnward(k)
      BY Facts DEF OnwardInv
    <3>2. run'[q] = k /\ ExpectsOnward(k)'
      BY <1>1, <2>2, <3>1, IdlesKeepsOnward, Facts DEF Start
    <3>3. QED BY <3>2, OnwardMoves
  <2>3. QED BY <2>1, <2>2
<1>3. QED BY <1>1, <1>2, IdlesKeepsPlaced DEF OnwardInv

LEMMA DeleteWatermarkKeepsOnward ==
  ASSUME OneAtATime, TypeInv, RefreshInv, OnwardInv, NEW r \in Runs, DeleteWatermark(r)
  PROVE  OnwardInv' /\ watermark' = NoWatermark
<1>1. /\ watermark' = NoWatermark /\ Goto(r, "clearPending") /\ ~Overlap
      /\ UNCHANGED <<writtenAt, pending, log, batches, jobs>>
      /\ run[r].pc \notin Over \cup {"idle"}
  BY DEF DeleteWatermark, OneAtATime, WatermarkDeleted, Fault, At, Over, delta
<1>2. PICK k \in RunState : run' = [run EXCEPT ![r] = k] /\ k.pc = "clearPending" /\ k.mode = "full"
  <2>1. run[r].mode = "full"
    BY DEF DeleteWatermark, At, OnwardInv, ExpectsOnward
  <2>2. QED BY <1>1, <2>1, GotoLocals DEF PCs
<1>3. OnlyPendingMissing' /\ OrphansUnplaced' /\ PendingPlaced'
  BY <1>1 DEF OnwardInv, Placed, OnlyPendingMissing, OrphansUnplaced, PendingPlaced, OnlyPendingAfter
<1>4. ExpectsOnward(k)'
  BY <1>2 DEF ExpectsOnward, Reconciling, Clean, InBatch, WithJob
<1>5. QED BY <1>1, <1>2, <1>3, <1>4, OnwardStep DEF Placed

LEMMA ClearPendingKeepsOnward ==
  ASSUME ~Overlap, TypeInv, RefreshInv, OnwardInv, NEW r \in Runs, ClearPending(r)
  PROVE  OnwardInv'
<1>1. /\ run[r].pc = "clearPending" /\ run[r].pc \notin Over \cup {"idle"}
      /\ UNCHANGED <<watermark, writtenAt, log, batches, jobs, cleaned>> /\ cleaned \in Nat
  BY DEF ClearPending, At, Over, delta, TypeInv, TypeOK
<1>2. CASE pending' = NoBatch /\ Goto(r, "claim")
  <2>1. watermark = NoWatermark
    <3>1. Expects(run[r]) /\ run[r].mode = "full"
      BY <1>1 DEF RefreshInv, OnwardInv, ExpectsOnward
    <3>2. QED BY <1>1, <3>1 DEF Expects, ExpectsStart, Emptied, Refreshing
  <2>2. PICK k \in RunState : run' = [run EXCEPT ![r] = k] /\ k.pc = "claim"
    BY <1>2, GotoLocals DEF PCs
  <2>3. Placed'
    BY <1>1, <1>2, <2>1 DEF Placed, OnlyPendingMissing, OrphansUnplaced, PendingPlaced
  <2>4. ExpectsOnward(k)'
    BY <2>2, ElsewhereExpects, EndsElsewhere
  <2>5. QED BY <1>1, <2>2, <2>3, <2>4, OnwardStep
<1>3. CASE UNCHANGED pending /\ End(r, "failed")
  BY <1>1, <1>3, EndOnward, NoJobsIdles DEF Over, Shared
<1>4. QED BY <1>2, <1>3 DEF ClearPending

(* A step that changes locals at most, beside easing jobs.                  *)
LEMMA PrepareKeepsOnward ==
  ASSUME OneAtATime, TypeInv, RefreshInv, OnwardInv, NEW r \in Runs, Prepare(r)
  PROVE  OnwardInv' /\ (UNCHANGED watermark \/ watermark' = NoWatermark)
<1>1. ~Overlap /\ cleaned \in Nat
  BY DEF OneAtATime, TypeInv, TypeOK
<1>2. CASE Start(r)
  BY <1>1, <1>2, StartKeepsOnward DEF Start, checkpoint
<1>3. CASE DeleteWatermark(r)
  BY <1>3, DeleteWatermarkKeepsOnward
<1>4. CASE ClearPending(r)
  BY <1>1, <1>4, ClearPendingKeepsOnward DEF ClearPending
<1>5. ASSUME NEW label \in {"listOrphans", "readTable"}, Goto(r, label),
             UNCHANGED Shared, UNCHANGED cleaned, run[r].pc \notin Over \cup {"idle"}
      PROVE  OnwardInv'
  <2>1. label \in PCs /\ Idles
    BY <1>1, <1>5, NoJobsIdles DEF PCs
  <2>2. \A k : k.pc = label => ExpectsOnward(k)
    BY ElsewhereExpects, EndsElsewhere
  <2>3. QED BY <1>1, <1>5, <2>1, <2>2, GotoOnward
<1>6. ASSUME NEW label \in Over, End(r, label),
             UNCHANGED Shared, UNCHANGED cleaned, run[r].pc \notin Over \cup {"idle"}
      PROVE  OnwardInv'
  BY <1>1, <1>6, EndOnward, NoJobsIdles
<1>7. CASE Claim(r)
  <2>1. /\ UNCHANGED Shared /\ UNCHANGED <<cleaned, watermark>> /\ run[r].pc \notin Over \cup {"idle"}
        /\ \/ Goto(r, "listOrphans") \/ End(r, "superseded") \/ End(r, "crashed")
    BY <1>7 DEF Claim, At, Over, Shared, delta
  <2>2. QED BY <1>5, <1>6, <2>1 DEF Over
<1>8. CASE ListOrphans(r)
  <2>1. PICK listed \in Listed(r) :
           /\ jobs' = Cancelled(listed)
           /\ run' = [run EXCEPT ![r].orphans = listed, ![r].pc = "settling"]
    BY <1>8 DEF ListOrphans
  <2>2. Idles /\ UNCHANGED watermark /\ run[r].pc \notin Over \cup {"idle"}
    BY <1>1, <1>8, <2>1, CancelEases DEF ListOrphans, At, Over, checkpoint, delta, Idles
  <2>3. PICK k \in RunState : run' = [run EXCEPT ![r] = k] /\ k.pc = "settling"
    <3> DEFINE k == [run[r] EXCEPT !.orphans = listed, !.pc = "settling"]
    <3>1. listed \in SUBSET Nat /\ run[r] \in RunState
      BY Facts DEF Listed, Orphans
    <3>2. k \in RunState /\ k.pc = "settling"
      BY <3>1 DEF RunState, PCs
    <3>3. run' = [run EXCEPT ![r] = k]
      BY <2>1
    <3> HIDE DEF k
    <3>4. QED BY <3>2, <3>3
  <2>4. QED BY <1>1, <2>2, <2>3, QuietOnward, ElsewhereExpects, EndsElsewhere
<1>9. CASE Settled(r) \/ SettleTimeout(r)
  <2>1. /\ UNCHANGED Shared /\ UNCHANGED <<cleaned, watermark>> /\ run[r].pc \notin Over \cup {"idle"}
        /\ \/ Goto(r, "readTable") \/ End(r, "failed")
    BY <1>9 DEF Settled, SettleTimeout, At, Over, Shared, checkpoint, delta
  <2>2. QED BY <1>5, <1>6, <2>1 DEF Over
<1>10. QED BY <1>2, <1>3, <1>4, <1>7, <1>8, <1>9 DEF Prepare

-----------------------------------------------------------------------------
(* Reconciling *)

LEMMA ReadTableKeepsOnward ==
  ASSUME ~Overlap, TypeInv, RefreshInv, OnwardInv, NEW r \in Runs, ReadTable(r)
  PROVE  OnwardInv'
<1>1. Idles /\ run[r].pc \notin Over \cup {"idle"} /\ run[r] \in RunState
  <2>1. UNCHANGED Shared /\ UNCHANGED cleaned /\ cleaned \in Nat
    BY DEF ReadTable, Shared, checkpoint, delta, TypeInv, TypeOK
  <2>2. QED BY <2>1, NoJobsIdles, Facts DEF ReadTable, At, Over
<1>2. PICK k \in RunState : run' = [run EXCEPT ![r] = k] /\ k.pc = "resolve" /\ k.latest = Len(log)
  <2> DEFINE k == [run[r] EXCEPT !.wm = watermark, !.latest = Len(log), !.pc = "resolve"]
  <2>1. k \in RunState /\ k.pc = "resolve" /\ k.latest = Len(log)
    BY <1>1, Facts DEF RunState, PCs
  <2>2. run' = [run EXCEPT ![r] = k]
    BY DEF ReadTable
  <2> HIDE DEF k
  <2>3. QED BY <2>1, <2>2
<1>3. ~\E v \in DOMAIN log : k.latest < v
  BY <1>2, Facts
<1>4. ExpectsOnward(k)
  BY <1>2, <1>3 DEF ExpectsOnward, Clean, InBatch, WithJob
<1>5. QED BY <1>1, <1>2, <1>4, QuietOnward

(* _find_token_version: when it finds a version, nothing but other engines' *)
(* commits and the batch's own are after it; when it finds none, no commit  *)
(* of the batch is readable.                                                *)
LEMMA TokenVersionIsLast ==
  ASSUME TypeInv, PendingPlaced, pending # NoBatch, NEW seen \in Nat,
         \A v \in DOMAIN log : seen < v => log[v] = NoBatch
  PROVE  IF TokenVersion(pending, seen) = 0
           THEN \A v \in DOMAIN log : log[v] = pending => ~(cleaned < v)
           ELSE OnlyPendingAfter(TokenVersion(pending, seen))
<1> DEFINE after == batches[pending].deltaBefore
           hits  == {v \in (after + 1)..seen : v > cleaned /\ v \in DOMAIN log /\ log[v] = pending}
<1>1. after \in Nat /\ cleaned \in Nat /\ \A v \in DOMAIN log : v \in Nat
  <2>1. pending \in 1..Len(batches)
    BY Facts DEF NoBatch
  <2>2. QED BY <2>1, Facts DEF Batch, TypeInv, TypeOK
<1>2. CASE hits # {}
  <2>1. hits \in SUBSET Nat
    BY <1>1
  <2>2. \E v \in hits : \A w \in hits : v <= w
    <3> HIDE DEF hits
    <3>1. QED BY <1>2, <2>1, LeastExists, Zenon
  <2>3. TokenVersion(pending, seen) \in hits
    BY <1>2, <2>2 DEF TokenVersion
  <2>4. QED BY <1>1, <2>3 DEF PendingPlaced
<1>3. CASE hits = {}
  <2>1. ASSUME NEW v \in DOMAIN log, log[v] = pending PROVE ~(cleaned < v)
    <3>1. after < v /\ v <= seen
      BY <1>1, <2>1 DEF PendingPlaced
    <3>2. QED BY <1>1, <1>3, <2>1, <3>1
  <2>2. OnlyPendingAfter(seen)
    BY DEF OnlyPendingAfter
  <2>3. TokenVersion(pending, seen) \in {0, seen}
    BY <1>3 DEF TokenVersion
  <2>4. QED BY <2>1, <2>2, <2>3
<1>4. QED BY <1>2, <1>3

LEMMA ResolvePendingKeepsOnward ==
  ASSUME ~Overlap, TypeInv, RefreshInv, OnwardInv, NEW r \in Runs, ResolvePending(r)
  PROVE  OnwardInv'
<1>1. /\ run[r].pc = "resolve" /\ Expects(run[r]) /\ ExpectsOnward(run[r]) /\ run[r] \in RunState
      /\ run[r].pc \notin Over \cup {"idle"} /\ Placed /\ Idles /\ Len(log) \in Nat
  <2>1. UNCHANGED Shared /\ UNCHANGED cleaned /\ cleaned \in Nat
    BY DEF ResolvePending, Shared, checkpoint, delta, TypeInv, TypeOK
  <2>2. QED BY <2>1, NoJobsIdles, Facts DEF ResolvePending, At, Over, RefreshInv, OnwardInv
<1>2. /\ run[r].wm = watermark /\ run[r].latest \in Nat
      /\ \A v \in DOMAIN log : run[r].latest < v => log[v] = NoBatch
  BY <1>1 DEF Expects, ExpectsTable, ExpectsOnward, Reconciling, RunState
<1>3. CASE pending = NoBatch /\ Goto(r, "adopt")
  <2>1. NothingMissing
    BY <1>1, <1>3 DEF Placed, OnlyPendingMissing, NothingMissing, Passed, CommittedFiles
  <2>2. \A k \in RunState : k.pc = "adopt" /\ k.latest = run[r].latest => ExpectsOnward(k)
    BY <1>2, <2>1 DEF ExpectsOnward, InBatch, WithJob
  <2>3. QED BY <1>1, <1>3, <2>2, GotoOnward DEF PCs
<1>4. CASE pending # NoBatch
  <2> DEFINE v == IF Applies(pending, run[r].wm)
                    THEN TokenVersion(pending, run[r].latest) ELSE 0
             label == IF v = 0 THEN "dropPending" ELSE "recordPending"
             k == [run[r] EXCEPT !.batch = pending, !.version = v, !.pc = label]
  <2>1. run' = [run EXCEPT ![r] = k]
    BY <1>4 DEF ResolvePending
  <2>2. pending \in 1..Len(batches) /\ pending \in Nat
    BY <1>4, Facts DEF NoBatch
  <2>3. v \in Nat
    BY <1>2, <2>2, TokenVersionFound
  <2>4. v # 0 => Applies(pending, watermark) /\ OnlyPendingAfter(v)
    BY <1>1, <1>2, <1>4, TokenVersionIsLast DEF Placed
  <2>5. v = 0 => NothingMissing
    <3> SUFFICES ASSUME v = 0, watermark # NoWatermark, NEW n \in Unread, log[n] = pending
                 PROVE  Passed(n)
      BY <1>1 DEF Placed, OnlyPendingMissing, NothingMissing
    <3>1. n \in DOMAIN log /\ cleaned < n
      BY DEF Unread
    <3>2. CASE Applies(pending, watermark)
      BY <1>1, <1>2, <1>4, <3>1, <3>2, TokenVersionIsLast DEF Placed
    <3>3. CASE ~Applies(pending, watermark)
      BY <1>1, <1>4, <3>3 DEF Placed, PendingPlaced, Passed, CommittedFiles
    <3>4. QED BY <3>2, <3>3
  <2>6. \/ label = "dropPending" /\ v = 0
        \/ label = "recordPending" /\ v # 0
    OBVIOUS
  <2> HIDE DEF v, label
  <2>7. /\ k \in RunState /\ k.pc = label /\ k.version = v /\ k.latest = run[r].latest
    BY <1>1, <2>2, <2>3, <2>6 DEF RunState, PCs
  <2> HIDE DEF k
  <2>8. ExpectsOnward(k)
    BY <1>2, <2>4, <2>5, <2>6, <2>7 DEF ExpectsOnward, Clean, InBatch, WithJob
  <2>9. QED BY <1>1, <2>1, <2>7, <2>8, QuietOnward
<1>5. QED BY <1>3, <1>4 DEF ResolvePending

(* Recording the pending batch moves the position forward and leaves        *)
(* nothing unaccounted for.                                                 *)
LEMMA RecordedOnward ==
  ASSUME TypeInv, Placed, NoLive, UNCHANGED <<pending, log, batches, jobs>>,
         pending # NoBatch, Applies(pending, watermark),
         NEW version \in Nat, version # 0 => OnlyPendingAfter(version),
         WriteWatermark(NewWatermark(batches[pending].files, watermark, version))
  PROVE  Placed' /\ NothingMissing' /\ StaysOrAdvances
<1> DEFINE fs == batches[pending].files
<1>1. /\ fs \in SUBSET Files /\ fs # {} /\ watermark \in Watermark
      /\ watermark' = NewWatermark(fs, watermark, version) /\ writtenAt' = Len(log)
      /\ \A f \in fs : watermark.modified < MTime[f]
  <2>1. pending \in 1..Len(batches)
    BY Facts DEF NoBatch
  <2>2. QED BY <2>1, Facts DEF Batch, WriteWatermark, Placed, PendingPlaced, Applies
<1> HIDE DEF fs
<1>2. /\ watermark' \in Watermark
      /\ \A f \in fs : MTime[f] <= watermark'.modified
      /\ \E f \in fs : watermark'.modified = MTime[f]
  BY <1>1, NewWatermarkIsNewest
<1>3. watermark'.delta = version /\ watermark'.batchId = watermark.batchId + 1
  BY <1>1 DEF NewWatermark
<1>4. StaysOrAdvances
  <2>1. watermark'.modified \in Nat /\ watermark.modified \in Nat /\ \A f \in fs : MTime[f] \in Nat
    BY <1>1, <1>2, OldTimes
  <2>2. watermark'.modified > watermark.modified
    BY <1>1, <1>2, <2>1
  <2>3. QED BY <1>3, <2>2 DEF StaysOrAdvances
<1>5. NothingMissing'
  <2> SUFFICES ASSUME NEW v \in Unread' PROVE Passed(v)'
    BY DEF NothingMissing
  <2>1. v \in DOMAIN log /\ ~(Len(log) < v)
    BY Facts DEF Unread
  <2>2. version # 0 /\ version < v
    BY <1>1, <1>3, <2>1 DEF Unread, Bases
  <2>3. log[v] \in {NoBatch, pending}
    BY <2>1, <2>2 DEF OnlyPendingAfter
  <2>4. QED BY <1>2, <2>3 DEF Passed, CommittedFiles, fs
<1>6. PendingPlaced'
  BY <1>2 DEF Placed, PendingPlaced, OnlyPendingAfter, fs
<1>7. OnlyPendingMissing' /\ OrphansUnplaced'
  BY <1>5, NoLiveStays DEF NothingMissing, OnlyPendingMissing, OrphansUnplaced, NoLive
<1>8. QED BY <1>4, <1>5, <1>6, <1>7 DEF Placed

LEMMA RecordPendingKeepsOnward ==
  ASSUME ~Overlap, TypeInv, RefreshInv, OnwardInv, NEW r \in Runs, RecordPending(r)
  PROVE  OnwardInv' /\ StaysOrAdvances
<1>1. /\ UNCHANGED <<pending, log, batches, jobs>> /\ run[r].pc = "recordPending"
      /\ Expects(run[r]) /\ ExpectsOnward(run[r]) /\ run[r] \in RunState
      /\ run[r].pc \notin Over \cup {"idle"} /\ Placed
  BY Facts DEF RecordPending, At, delta, Over, RefreshInv, OnwardInv
<1>2. /\ NoLive /\ run[r].wm = watermark /\ run[r].batch = pending /\ pending # NoBatch
      /\ Applies(pending, watermark) /\ OnlyPendingAfter(run[r].version)
      /\ run[r].version \in Nat
      /\ \A v \in DOMAIN log : run[r].latest < v => log[v] = NoBatch
  BY <1>1 DEF Expects, ExpectsJobs, ExpectsTable, ExpectsOnward, Lone, Alone, Reconciling, RunState
<1> DEFINE w == NewWatermark(batches[run[r].batch].files, run[r].wm, run[r].version)
<1>3. WriteWatermark(w)
  BY DEF RecordPending
<1>4. Placed' /\ NothingMissing' /\ StaysOrAdvances
  BY <1>1, <1>2, <1>3, RecordedOnward
<1>5. PICK k \in RunState : run' = [run EXCEPT ![r] = k] /\ ExpectsOnward(k)'
  <2>1. CASE End(r, "failed")
    BY <2>1, EndLocals, ElsewhereExpects, EndsElsewhere DEF Over
  <2>2. CASE run' = [run EXCEPT ![r].wm = w, ![r].pc = "dropPending"]
    <3>1. w \in Watermark
      <4>1. pending \in 1..Len(batches)
        BY <1>2, Facts DEF NoBatch
      <4>2. batches[pending].files \in SUBSET Files /\ batches[pending].files # {}
            /\ watermark \in Watermark
        BY <4>1, Facts DEF Batch
      <4>3. QED BY <1>2, <4>2, NewWatermarkIsNewest
    <3> HIDE DEF w
    <3> DEFINE k == [run[r] EXCEPT !.wm = w, !.pc = "dropPending"]
    <3>2. k \in RunState /\ k.pc = "dropPending" /\ k.latest = run[r].latest
      BY <1>1, <3>1 DEF RunState, PCs
    <3>3. run' = [run EXCEPT ![r] = k]
      BY <2>2
    <3>4. PICK l \in RunState : l = k
      BY <3>2
    <3> HIDE DEF k
    <3>5. ExpectsOnward(l)'
      BY <1>1, <1>2, <1>4, <3>2, <3>4 DEF ExpectsOnward, InBatch, WithJob
    <3>6. QED BY <3>3, <3>4, <3>5
  <2>3. QED BY <2>1, <2>2 DEF RecordPending
<1>6. QED BY <1>1, <1>4, <1>5, OnwardStep

(* pending.json may be deleted once nothing hangs on it.                    *)
LEMMA PendingMayGoOnward ==
  ASSUME TypeInv, Placed, NothingMissing, NoLive, pending' \in {NoBatch, pending},
         UNCHANGED <<watermark, writtenAt, log, batches, jobs, cleaned>>
  PROVE  Placed' /\ NothingMissing'
<1>1. NothingMissing'
  BY DEF NothingMissing, Unread, Bases, Passed, CommittedFiles
<1>2. OnlyPendingMissing' /\ OrphansUnplaced'
  BY <1>1, NoLiveStays DEF NothingMissing, OnlyPendingMissing, OrphansUnplaced, NoLive
<1>3. PendingPlaced'
  BY DEF Placed, PendingPlaced, Applies, OnlyPendingAfter
<1>4. QED BY <1>1, <1>2, <1>3 DEF Placed

LEMMA DropPendingKeepsOnward ==
  ASSUME ~Overlap, TypeInv, RefreshInv, OnwardInv, NEW r \in Runs, DropPending(r)
  PROVE  OnwardInv'
<1>1. /\ run[r].pc = "dropPending" /\ run[r].pc \notin Over \cup {"idle"}
      /\ Goto(r, "adopt") /\ pending' \in {NoBatch, pending}
      /\ UNCHANGED <<watermark, writtenAt, log, batches, jobs, cleaned>>
      /\ Expects(run[r]) /\ ExpectsOnward(run[r]) /\ Placed
  BY DEF DropPending, DeletePending, At, Over, delta, RefreshInv, OnwardInv
<1>2. NoLive /\ NothingMissing /\ \A v \in DOMAIN log : run[r].latest < v => log[v] = NoBatch
  BY <1>1 DEF Expects, ExpectsJobs, ExpectsOnward, Lone, Alone, Clean, Reconciling
<1>3. Placed' /\ NothingMissing'
  BY <1>1, <1>2, PendingMayGoOnward
<1>4. PICK k \in RunState : /\ run' = [run EXCEPT ![r] = k] /\ k.pc = "adopt"
                            /\ k.latest = run[r].latest
  BY <1>1, GotoLocals DEF PCs
<1>5. ExpectsOnward(k)'
  BY <1>1, <1>2, <1>3, <1>4 DEF ExpectsOnward, InBatch, WithJob
<1>6. QED BY <1>1, <1>3, <1>4, <1>5, OnwardStep

(* _adopt_unrecorded_commits has nothing to adopt: whatever its baseline,   *)
(* every readable commit after it is behind the watermark.                  *)
LEMMA NothingToAdopt ==
  ASSUME TypeInv, NothingMissing, watermark # NoWatermark, NEW latest \in Nat
  PROVE  Adopted(watermark, latest) = {}
<1> SUFFICES ASSUME NEW f \in Adopted(watermark, latest) PROVE FALSE
  OBVIOUS
<1>1. watermark \in Watermark /\ watermark.delta \in Nat
  BY Facts DEF Watermark
<1>2. PICK n \in Bases : n \in Int /\ Baseline(watermark, latest) \in Int
                         /\ n <= Baseline(watermark, latest)
  <2>1. CASE watermark.delta # 0
    BY <1>1, <2>1 DEF Baseline, Bases
  <2>2. CASE watermark.delta = 0
    <3> DEFINE floor == {writtenAt, latest - MaxLegacyCommits, cleaned}
    <3>1. writtenAt \in Int /\ latest - MaxLegacyCommits \in Int /\ cleaned \in Int
      BY Facts, BoundsAssumption DEF TypeInv, TypeOK
    <3>2. \E m \in floor : \A w \in floor : w <= m
      BY <3>1
    <3>3. (CHOOSE m \in floor : \A w \in floor : w <= m) \in floor
          /\ writtenAt <= (CHOOSE m \in floor : \A w \in floor : w <= m)
      BY <3>2
    <3>4. Baseline(watermark, latest) = (CHOOSE m \in floor : \A w \in floor : w <= m)
      BY <2>2 DEF Baseline, LegacyBaseline
    <3>5. Baseline(watermark, latest) \in Int /\ writtenAt <= Baseline(watermark, latest)
      BY <3>1, <3>3, <3>4
    <3>6. QED BY <3>1, <3>5 DEF Bases
  <2>3. QED BY <2>1, <2>2
<1>3. PICK v \in (Baseline(watermark, latest) + 1)..latest :
         v \in DOMAIN log /\ v > cleaned /\ f \in CommittedFiles(v)
  BY DEF Adopted
<1>4. v \in Unread
  <2>1. n < v /\ cleaned < v
    BY <1>2, <1>3, Facts DEF TypeInv, TypeOK
  <2>2. QED BY <1>3, <2>1 DEF Unread
<1>5. MTime[f] <= watermark.modified
  BY <1>3, <1>4 DEF NothingMissing, Passed
<1>6. f \in Files /\ watermark.modified < MTime[f]
  BY DEF Adopted, Unprocessed
<1>7. QED BY <1>1, <1>5, <1>6, OldTimes

LEMMA AdoptKeepsOnward ==
  ASSUME ~Overlap, TypeInv, RefreshInv, OnwardInv, NEW r \in Runs, Adopt(r)
  PROVE  OnwardInv' /\ StaysOrAdvances
<1>1. /\ UNCHANGED <<pending, batches, log, jobs, cleaned>> /\ run[r].pc = "adopt"
      /\ Expects(run[r]) /\ ExpectsOnward(run[r]) /\ Placed
      /\ run[r].pc \notin Over \cup {"idle"}
      /\ run[r].latest \in Nat /\ watermark \in Watermark
  BY Facts DEF Adopt, At, delta, Over, RefreshInv, OnwardInv, RunState
<1>2. /\ NoLive /\ NothingMissing /\ run[r].wm = watermark
      /\ \A v \in DOMAIN log : run[r].latest < v => log[v] = NoBatch
  BY <1>1 DEF Expects, ExpectsJobs, ExpectsTable, ExpectsOnward, Lone, Alone, Reconciling, Clean
<1>3. AdoptNothing(r, watermark) /\ Goto(r, "discover")
  <2>1. watermark # NoWatermark => AdoptablePrefix(watermark, run[r].latest) = {}
    BY <1>1, <1>2, NothingToAdopt DEF AdoptablePrefix
  <2>2. QED BY <1>2, <2>1 DEF Adopt
<1>4. Placed' /\ NothingMissing' /\ StaysOrAdvances
  <2>1. CASE UNCHANGED <<watermark, writtenAt>>
    BY <1>1, <1>2, <2>1, PendingMayGoOnward DEF StaysOrAdvances
  <2>2. CASE WriteWatermark([watermark EXCEPT !.delta = run[r].latest])
    <3>1. /\ watermark'.delta = run[r].latest /\ writtenAt' = Len(log)
          /\ watermark'.batchId = watermark.batchId /\ watermark'.modified = watermark.modified
      BY <1>1, <2>2 DEF WriteWatermark, Watermark
    <3>2. NothingMissing'
      <4> SUFFICES ASSUME NEW v \in Unread' PROVE Passed(v)'
        BY DEF NothingMissing
      <4>1. v \in DOMAIN log /\ ~(Len(log) < v)
        BY <1>1, Facts DEF Unread
      <4>2. run[r].latest < v
        BY <3>1, <4>1 DEF Unread, Bases
      <4>3. QED BY <1>1, <1>2, <4>1, <4>2 DEF Passed, CommittedFiles
    <3>3. OnlyPendingMissing' /\ OrphansUnplaced'
      BY <1>1, <1>2, <3>2, NoLiveStays DEF NothingMissing, OnlyPendingMissing, OrphansUnplaced, NoLive
    <3>4. PendingPlaced'
      <4>1. CASE watermark = NoWatermark
        BY <1>1, <1>2, <1>3, <4>1 DEF AdoptNothing, Placed, PendingPlaced, Applies, OnlyPendingAfter
      <4>2. CASE watermark # NoWatermark
        BY <1>1, <3>1, <4>2 DEF Placed, PendingPlaced, Applies, OnlyPendingAfter
      <4>3. QED BY <4>1, <4>2
    <3>5. QED BY <3>1, <3>2, <3>3, <3>4 DEF Placed, StaysOrAdvances
  <2>3. QED BY <1>3, <2>1, <2>2 DEF AdoptNothing
<1>5. PICK k \in RunState : run' = [run EXCEPT ![r] = k] /\ k.pc = "discover"
  BY <1>3, GotoLocals DEF PCs
<1>6. ExpectsOnward(k)'
  BY <1>4, <1>5 DEF ExpectsOnward, Reconciling, InBatch, WithJob
<1>7. QED BY <1>1, <1>4, <1>5, <1>6, OnwardStep

LEMMA ReconcileKeepsOnward ==
  ASSUME ~Overlap, TypeInv, RefreshInv, OnwardInv, NEW r \in Runs, Reconcile(r)
  PROVE  OnwardInv' /\ StaysOrAdvances
<1>1. CASE ReadTable(r)
  BY <1>1, ReadTableKeepsOnward DEF ReadTable, checkpoint, StaysOrAdvances
<1>2. CASE ResolvePending(r)
  BY <1>2, ResolvePendingKeepsOnward DEF ResolvePending, checkpoint, StaysOrAdvances
<1>3. CASE DropPending(r)
  BY <1>3, DropPendingKeepsOnward DEF DropPending, StaysOrAdvances
<1>4. CASE RecordPending(r) \/ Adopt(r)
  BY <1>4, RecordPendingKeepsOnward, AdoptKeepsOnward
<1>5. CASE RewriteWatermark(r)
  BY <1>5 DEF RewriteWatermark, At, OnwardInv, ExpectsOnward
<1>6. QED BY <1>1, <1>2, <1>3, <1>4, <1>5 DEF Reconcile

-----------------------------------------------------------------------------
(* Processing batches *)

LEMMA DiscoverKeepsOnward ==
  ASSUME ~Overlap, TypeInv, RefreshInv, OnwardInv, NEW r \in Runs, Discover(r)
  PROVE  OnwardInv'
<1>1. /\ run[r].pc = "discover" /\ run[r].pc \notin Over \cup {"idle"}
      /\ run[r] \in RunState /\ ExpectsOnward(run[r]) /\ Idles
  <2>1. UNCHANGED <<checkpoint, delta, batches, jobs, cutoff>> /\ At(r, "discover")
    BY DEF Discover
  <2>2. UNCHANGED Shared /\ UNCHANGED cleaned
    BY <2>1 DEF Shared, checkpoint, delta
  <2>3. cleaned \in Nat
    BY DEF TypeInv, TypeOK
  <2>4. Idles
    BY <2>2, <2>3, NoJobsIdles
  <2>5. run[r].pc = "discover" /\ run[r].pc \notin Over \cup {"idle"}
    BY <2>1 DEF At, Over
  <2>6. QED BY <2>4, <2>5, Facts DEF OnwardInv
<1>2. CASE End(r, "done")
  BY <1>1, <1>2, EndOnward DEF Over
<1>3. ASSUME NEW b \in NextBatches(Unprocessed(watermark)),
             run' = [run EXCEPT ![r].files = b, ![r].batchNum = @ + 1, ![r].pc = "begin"]
      PROVE  OnwardInv'
  <2>1. b \in SUBSET Files /\ Ahead(b)
    BY DEF NextBatches, Unprocessed, Ahead
  <2>2. PICK k \in RunState : run' = [run EXCEPT ![r] = k] /\ k.pc = "begin" /\ k.files = b
    <3>1. PICK n \in Nat : n = run[r].batchNum + 1
      BY <1>1 DEF RunState
    <3> DEFINE k == [run[r] EXCEPT !.files = b, !.batchNum = n, !.pc = "begin"]
    <3>2. k \in RunState /\ k.pc = "begin" /\ k.files = b
      BY <1>1, <2>1 DEF RunState, PCs
    <3>3. run' = [run EXCEPT ![r] = k]
      BY <1>3, <3>1
    <3> HIDE DEF k
    <3>4. QED BY <3>2, <3>3
  <2>3. ExpectsOnward(k)
    BY <1>1, <2>1, <2>2 DEF ExpectsOnward, Clean, Reconciling, InBatch, WithJob
  <2>4. QED BY <1>1, <2>2, <2>3, QuietOnward
<1>4. QED BY <1>2, <1>3 DEF Discover

LEMMA BeginBatchKeepsOnward ==
  ASSUME ~Overlap, TypeInv, RefreshInv, OnwardInv, NEW r \in Runs,
         CheckBeforeBegin(r) \/ BeginBatch(r)
  PROVE  OnwardInv'
<1>1. /\ run[r].pc \in {"begin", "readPosition"} /\ run[r].pc \notin Over \cup {"idle"}
      /\ run[r] \in RunState /\ ExpectsOnward(run[r]) /\ Idles
  <2>1. UNCHANGED Shared /\ UNCHANGED cleaned /\ cleaned \in Nat
    BY DEF CheckBeforeBegin, BeginBatch, Shared, checkpoint, delta, TypeInv, TypeOK
  <2>2. QED BY <2>1, NoJobsIdles, Facts DEF CheckBeforeBegin, BeginBatch, At, Over, OnwardInv
<1>2. NothingMissing /\ Ahead(run[r].files)
  BY <1>1 DEF ExpectsOnward, Clean
<1>3. CASE CheckBeforeBegin(r)
  <2>1. CASE End(r, "superseded")
    BY <1>1, <2>1, EndOnward DEF Over
  <2>2. CASE Goto(r, "readPosition")
    <3>1. \A k \in RunState : k.pc = "readPosition" /\ k.files = run[r].files => ExpectsOnward(k)
      BY <1>2 DEF ExpectsOnward, Reconciling, InBatch, WithJob
    <3>2. QED BY <1>1, <2>2, <3>1, GotoOnward DEF PCs
  <2>3. QED BY <1>3, <2>1, <2>2 DEF CheckBeforeBegin
<1>4. CASE BeginBatch(r)
  <2>1. PICK k \in RunState : /\ run' = [run EXCEPT ![r] = k] /\ k.pc = "writePending"
                              /\ k.wm = watermark /\ k.latest = Len(log) /\ k.files = run[r].files
    <3> DEFINE k == [run[r] EXCEPT !.wm = watermark, !.latest = Len(log), !.pc = "writePending"]
    <3>1. /\ k \in RunState /\ k.pc = "writePending" /\ k.wm = watermark
          /\ k.latest = Len(log) /\ k.files = run[r].files
      BY <1>1, Facts DEF RunState, PCs
    <3>2. run' = [run EXCEPT ![r] = k]
      BY <1>4 DEF BeginBatch
    <3> HIDE DEF k
    <3>3. QED BY <3>1, <3>2
  <2>2. k.latest <= Len(log)
    BY <2>1, Facts
  <2>3. ExpectsOnward(k)
    BY <1>2, <2>1, <2>2 DEF ExpectsOnward, Reconciling, InBatch, WithJob
  <2>4. QED BY <1>1, <2>1, <2>3, QuietOnward
<1>5. QED BY <1>3, <1>4

(* The new batch continues the watermark it was begun with.                 *)
LEMMA WritePendingKeepsOnward ==
  ASSUME ~Overlap, TypeInv, RefreshInv, OnwardInv, NEW r \in Runs, WritePending(r)
  PROVE  OnwardInv'
<1> DEFINE b == [files |-> run[r].files, before |-> run[r].wm,
                 deltaBefore |-> run[r].latest, truncate |-> FirstOfRefresh(r)]
<1>1. /\ UNCHANGED <<watermark, writtenAt, log, jobs, cleaned>> /\ run[r].pc = "writePending"
      /\ Expects(run[r]) /\ ExpectsOnward(run[r]) /\ run[r] \in RunState
      /\ run[r].pc \notin Over \cup {"idle"}
      /\ batches' = Append(batches, b) /\ pending' = Len(batches) + 1
      /\ run' = [run EXCEPT ![r].batch = Len(batches) + 1, ![r].resubmits = 0, ![r].pc = "submit"]
  BY Facts DEF WritePending, At, delta, Over, RefreshInv, OnwardInv
<1>2. /\ NoLive /\ NothingMissing /\ Ahead(run[r].files) /\ run[r].wm = watermark
      /\ run[r].latest <= Len(log)
  BY <1>1 DEF Expects, ExpectsJobs, ExpectsOnward, Lone, Alone, Clean
<1>3. b.files = run[r].files /\ b.before = run[r].wm /\ b.deltaBefore = run[r].latest
  OBVIOUS
<1> HIDE DEF b
<1>4. PICK new \in Nat \ {NoBatch} :
         /\ new = Len(batches) + 1 /\ batches'[new] = b
         /\ \A v \in DOMAIN log : log[v] # new
  BY <1>1, BatchAdded
<1>5. \A v \in DOMAIN log : CommittedFiles(v)' = CommittedFiles(v)
  BY <1>1, Facts DEF CommittedFiles, NoBatch, TypeInv, TypeOK
<1>6. NothingMissing'
  <2>1. Unread' = Unread /\ Unread \subseteq DOMAIN log
    BY <1>1 DEF Unread, Bases
  <2>2. QED BY <1>1, <1>2, <1>5, <2>1 DEF NothingMissing, Passed
<1>7. Applies(pending, watermark)'
  BY <1>1, <1>2, <1>3, <1>4 DEF Applies
<1>8. PendingPlaced'
  <2>1. /\ pending' = new /\ batches'[pending'].files = run[r].files
        /\ batches'[pending'].before = watermark /\ batches'[pending'].deltaBefore = run[r].latest
    BY <1>1, <1>2, <1>3, <1>4
  <2>2. \A f \in run[r].files : watermark.modified < MTime[f]
    BY <1>2 DEF Ahead
  <2>3. \A v \in DOMAIN log' : log'[v] # pending'
    BY <1>1, <1>4, <2>1
  <2>4. QED BY <1>1, <1>2, <1>7, <2>1, <2>2, <2>3 DEF PendingPlaced
<1>9. Placed'
  BY <1>1, <1>2, <1>6, <1>8, NoLiveStays
  DEF Placed, NothingMissing, OnlyPendingMissing, OrphansUnplaced, NoLive
<1>10. PICK k \in RunState : run' = [run EXCEPT ![r] = k] /\ k.pc = "submit"
  <2> DEFINE k == [run[r] EXCEPT !.batch = new, !.resubmits = 0, !.pc = "submit"]
  <2>1. \A n \in Nat, m \in 0..MaxResubmits :
          LET l == [run[r] EXCEPT !.batch = n, !.resubmits = m, !.pc = "submit"]
          IN  l \in RunState /\ l.pc = "submit"
    BY <1>1, ZenonT(60) DEF RunState, PCs
  <2>2. new \in Nat /\ 0 \in 0..MaxResubmits
    BY BoundsAssumption
  <2>3. k \in RunState /\ k.pc = "submit"
    BY <2>1, <2>2, Zenon
  <2>4. run' = [run EXCEPT ![r] = k]
    BY <1>1, <1>4
  <2> HIDE DEF k
  <2>5. QED BY <2>3, <2>4
<1>11. ExpectsOnward(k)'
  BY <1>7, <1>10 DEF ExpectsOnward, Reconciling, Clean
<1>12. QED BY <1>1, <1>9, <1>10, <1>11, OnwardStep

LEMMA SubmitJobKeepsOnward ==
  ASSUME ~Overlap, TypeInv, RefreshInv, OnwardInv, NEW r \in Runs, SubmitJob(r)
  PROVE  OnwardInv'
<1> DEFINE job == [batch |-> run[r].batch, run |-> r, state |-> "active"]
<1>1. /\ UNCHANGED <<watermark, writtenAt, pending, log, batches, cleaned>> /\ run[r].pc = "put"
      /\ Expects(run[r]) /\ ExpectsOnward(run[r]) /\ run[r] \in RunState
      /\ run[r].pc \notin Over \cup {"idle"} /\ Placed
      /\ run' = [run EXCEPT ![r].job = Len(jobs) + 1, ![r].pc = "recheck"]
  BY Facts DEF SubmitJob, At, Over, checkpoint, delta, RefreshInv, OnwardInv
<1>2. pending # NoBatch /\ Applies(pending, watermark)
  BY <1>1 DEF Expects, ExpectsBatch, ExpectsOnward, InBatch
<1>3. Placed'
  <2>1. OnlyPendingMissing'
    BY <1>1 DEF Placed, OnlyPendingMissing, Unread, Bases, Passed, CommittedFiles
  <2>2. OrphansUnplaced'
    BY <1>1, <1>2 DEF OrphansUnplaced
  <2>3. PendingPlaced'
    BY <1>1 DEF Placed, PendingPlaced, Applies, OnlyPendingAfter
  <2>4. QED BY <2>1, <2>2, <2>3 DEF Placed
<1>4. PICK k \in RunState : run' = [run EXCEPT ![r] = k] /\ k.pc = "recheck"
  <2>1. PICK n \in Nat : n = Len(jobs) + 1
    BY Facts
  <2> DEFINE k == [run[r] EXCEPT !.job = n, !.pc = "recheck"]
  <2>2. k \in RunState /\ k.pc = "recheck"
    BY <1>1 DEF RunState, PCs
  <2>3. run' = [run EXCEPT ![r] = k]
    BY <1>1, <2>1
  <2> HIDE DEF k
  <2>4. QED BY <2>2, <2>3
<1>5. ExpectsOnward(k)'
  BY <1>1, <1>2, <1>4 DEF ExpectsOnward, Reconciling, Clean, Applies
<1>6. QED BY <1>1, <1>3, <1>4, <1>5, OnwardStep

(* The run watches its job, or is about to: its batch stays pending.        *)
LEMMA WaitingKeepsOnward ==
  ASSUME ~Overlap, TypeInv, RefreshInv, OnwardInv, NEW r \in Runs,
         \/ CheckBeforeSubmit(r) \/ CheckAfterSubmit(r)
         \/ JobSucceeded(r) \/ JobFailed(r) \/ GiveUp(r)
         \/ Abandon(r) \/ AbandonedJobEnded(r) \/ AbandonedJobUnconfirmed(r)
         \/ CheckBeforeUpdate(r) \/ UpdateCheckpoint(r)
  PROVE  OnwardInv' /\ UNCHANGED watermark
<1>1. /\ run[r].pc \in InBatch /\ run[r].pc \notin Over \cup {"idle"} /\ run[r] \in RunState
      /\ UNCHANGED <<watermark, writtenAt, pending, log, batches, cleaned>> /\ cleaned \in Nat
  BY Facts DEF CheckBeforeSubmit, CheckAfterSubmit, JobSucceeded, JobFailed, GiveUp, Abandon,
         AbandonedJobEnded, AbandonedJobUnconfirmed, CheckBeforeUpdate, UpdateCheckpoint, At,
         InBatch, WithJob, Over, checkpoint, delta, TypeInv, TypeOK
<1>a. SUFFICES OnwardInv'
  BY <1>1
<1>2. Applies(pending, watermark)
  BY <1>1 DEF OnwardInv, ExpectsOnward
<1>3. Idles
  <2>1. CASE UNCHANGED jobs
    BY <1>1, <2>1 DEF Idles, Ease
  <2>2. CASE Abandon(r)
    BY <1>1, <2>2, CancelEases DEF Abandon, Idles
  <2>3. QED BY <2>1, <2>2
          DEF CheckBeforeSubmit, CheckAfterSubmit, JobSucceeded, JobFailed, GiveUp,
              AbandonedJobEnded, AbandonedJobUnconfirmed, CheckBeforeUpdate, UpdateCheckpoint
<1>4. \A k : k.pc \in InBatch \ {"record"} => ExpectsOnward(k)
  BY <1>2 DEF ExpectsOnward, Reconciling, Clean, InBatch, WithJob
<1>5. ASSUME NEW label \in InBatch \ {"record"}, Goto(r, label) PROVE OnwardInv'
  <2>1. label \in PCs
    BY DEF InBatch, WithJob, PCs
  <2>2. QED BY <1>1, <1>3, <1>4, <1>5, <2>1, GotoOnward
<1>6. ASSUME NEW label \in {"failed", "superseded"}, End(r, label) PROVE OnwardInv'
  BY <1>1, <1>3, <1>6, EndOnward DEF Over
<1>7. CASE JobFailed(r)
  <2>1. CASE run' = [run EXCEPT ![r].resubmits = @ + 1, ![r].pc = "submit"]
    <3>1. PICK n \in 0..MaxResubmits : n = run[r].resubmits + 1
      <4>1. run[r].resubmits \in 0..MaxResubmits
        BY <1>1 DEF RunState
      <4>2. CASE run[r].resubmits < MaxResubmits
        BY <4>1, <4>2, BoundsAssumption
      <4>3. CASE ~(run[r].resubmits < MaxResubmits)
        <5>1. End(r, "failed")
          BY <1>7, <4>3 DEF JobFailed
        <5>2. FALSE
          BY <1>1, <2>1, <5>1, Facts DEF End, Idle
        <5>3. QED BY <5>2
      <4>4. QED BY <4>2, <4>3
    <3> DEFINE k == [run[r] EXCEPT !.resubmits = n, !.pc = "submit"]
    <3>2. k \in RunState /\ k.pc = "submit"
      BY <1>1 DEF RunState, PCs
    <3>3. run' = [run EXCEPT ![r] = k]
      BY <2>1, <3>1
    <3> HIDE DEF k
    <3>4. ExpectsOnward(k)
      BY <1>4, <3>2 DEF InBatch
    <3>5. QED BY <1>1, <1>3, <3>2, <3>3, <3>4, QuietOnward
  <2>2. CASE End(r, "failed")
    BY <1>6, <2>2
  <2>3. QED BY <1>7, <2>1, <2>2 DEF JobFailed
<1>8. CASE UpdateCheckpoint(r)
  <2> DEFINE k == [run[r] EXCEPT !.wm = watermark, !.pc = "record"]
  <2>1. k \in RunState /\ k.pc = "record" /\ k.wm = watermark
    BY <1>1, Facts DEF RunState, PCs
  <2>2. run' = [run EXCEPT ![r] = k]
    BY <1>8 DEF UpdateCheckpoint
  <2> HIDE DEF k
  <2>3. ExpectsOnward(k)
    BY <1>2, <2>1 DEF ExpectsOnward, Reconciling, Clean
  <2>4. QED BY <1>1, <1>3, <2>1, <2>2, <2>3, QuietOnward
<1>9. CASE CheckBeforeSubmit(r) \/ CheckBeforeUpdate(r)
  BY <1>5, <1>6, <1>9 DEF CheckBeforeSubmit, CheckBeforeUpdate, InBatch
<1>10. CASE CheckAfterSubmit(r) \/ JobSucceeded(r) \/ GiveUp(r) \/ Abandon(r)
  <2>1. PICK label \in {"wait", "abandon", "update", "abandoned"} : Goto(r, label)
    BY <1>10 DEF CheckAfterSubmit, JobSucceeded, GiveUp, Abandon
  <2>2. QED BY <1>5, <2>1 DEF InBatch, WithJob
<1>11. CASE AbandonedJobEnded(r) \/ AbandonedJobUnconfirmed(r)
  BY <1>5, <1>6, <1>11 DEF AbandonedJobEnded, AbandonedJobUnconfirmed, InBatch
<1>12. QED BY <1>1, <1>7, <1>8, <1>9, <1>10, <1>11

(* _record_batch: the batch is the pending one and continues the watermark. *)
LEMMA RecordBatchKeepsOnward ==
  ASSUME ~Overlap, TypeInv, RefreshInv, OnwardInv, NEW r \in Runs, RecordBatch(r)
  PROVE  OnwardInv' /\ StaysOrAdvances
<1>1. /\ UNCHANGED <<pending, log, batches, jobs>> /\ run[r].pc = "record"
      /\ Expects(run[r]) /\ ExpectsOnward(run[r])
      /\ run[r].pc \notin Over \cup {"idle"} /\ Placed /\ Len(log) \in Nat
  BY Facts DEF RecordBatch, At, delta, Over, RefreshInv, OnwardInv
<1>2. /\ NoLive /\ run[r].wm = watermark /\ run[r].batch = pending /\ pending # NoBatch
      /\ run[r].files = batches[pending].files /\ Applies(pending, watermark)
  BY <1>1 DEF Expects, ExpectsJobs, ExpectsBatch, ExpectsOnward, Lone, Alone, InBatch
<1>3. PICK version \in CommittedVersions(r) :
         WriteWatermark(NewWatermark(run[r].files, run[r].wm, version))
  BY DEF RecordBatch
<1>4. version \in Nat /\ (version # 0 => OnlyPendingAfter(version))
  <2>1. ~\E v \in DOMAIN log : Len(log) < v
    BY Facts
  <2>2. OnlyPendingAfter(Len(log))
    BY <2>1 DEF OnlyPendingAfter
  <2>3. pending \in 1..Len(batches)
    BY <1>2, Facts DEF NoBatch
  <2>4. TokenVersion(pending, Len(log)) \in Nat
    BY <1>1, <2>3, TokenVersionFound
  <2>5. TokenVersion(pending, Len(log)) # 0 => OnlyPendingAfter(TokenVersion(pending, Len(log)))
    BY <1>1, <1>2, <2>1, TokenVersionIsLast DEF Placed
  <2>6. version \in {TokenVersion(pending, Len(log)), Len(log), 0}
    BY <1>2, <1>3 DEF CommittedVersions
  <2>7. QED BY <1>1, <2>2, <2>4, <2>5, <2>6
<1>5. Placed' /\ NothingMissing' /\ StaysOrAdvances
  BY <1>1, <1>2, <1>3, <1>4, RecordedOnward
<1>6. PICK k \in RunState : run' = [run EXCEPT ![r] = k] /\ k.pc \in Over \cup {"finish"}
  BY EndLocals, GotoLocals DEF RecordBatch, Over, PCs
<1>7. ExpectsOnward(k)'
  <2>1. CASE k.pc \in Over
    BY <2>1, ElsewhereExpects, EndsElsewhere
  <2>2. CASE k.pc = "finish"
    BY <1>5, <2>2 DEF ExpectsOnward, Reconciling, InBatch, WithJob
  <2>3. QED BY <1>6, <2>1, <2>2
<1>8. QED BY <1>1, <1>5, <1>6, <1>7, OnwardStep

LEMMA FinishKeepsOnward ==
  ASSUME ~Overlap, TypeInv, RefreshInv, OnwardInv, NEW r \in Runs, FinishBatch(r)
  PROVE  OnwardInv'
<1>1. /\ run[r].pc = "finish" /\ run[r].pc \notin Over \cup {"idle"}
      /\ Goto(r, "discover") /\ pending' \in {NoBatch, pending}
      /\ UNCHANGED <<watermark, writtenAt, log, batches, jobs, cleaned>>
      /\ Expects(run[r]) /\ ExpectsOnward(run[r]) /\ Placed
  BY DEF FinishBatch, DeletePending, At, Over, delta, RefreshInv, OnwardInv
<1>2. NoLive /\ NothingMissing
  BY <1>1 DEF Expects, ExpectsJobs, ExpectsOnward, Lone, Alone, Clean
<1>3. Placed' /\ NothingMissing'
  BY <1>1, <1>2, PendingMayGoOnward
<1>4. PICK k \in RunState : run' = [run EXCEPT ![r] = k] /\ k.pc = "discover"
  BY <1>1, GotoLocals DEF PCs
<1>5. ExpectsOnward(k)'
  BY <1>3, <1>4 DEF ExpectsOnward, Reconciling, InBatch, WithJob
<1>6. QED BY <1>1, <1>3, <1>4, <1>5, OnwardStep

LEMMA ProcessKeepsOnward ==
  ASSUME ~Overlap, TypeInv, RefreshInv, OnwardInv, NEW r \in Runs, Process(r)
  PROVE  OnwardInv' /\ StaysOrAdvances
<1>1. CASE \/ Discover(r) \/ CheckBeforeBegin(r) \/ BeginBatch(r) \/ WritePending(r)
           \/ SubmitJob(r) \/ FinishBatch(r)
  <2>1. StaysOrAdvances
    BY <1>1 DEF Discover, CheckBeforeBegin, BeginBatch, WritePending, SubmitJob, FinishBatch,
                checkpoint, StaysOrAdvances
  <2>2. QED BY <1>1, <2>1, DiscoverKeepsOnward, BeginBatchKeepsOnward, WritePendingKeepsOnward,
               SubmitJobKeepsOnward, FinishKeepsOnward
<1>2. CASE RecordBatch(r)
  BY <1>2, RecordBatchKeepsOnward
<1>3. CASE ~(\/ Discover(r) \/ CheckBeforeBegin(r) \/ BeginBatch(r) \/ WritePending(r)
             \/ SubmitJob(r) \/ FinishBatch(r) \/ RecordBatch(r))
  BY <1>3, WaitingKeepsOnward DEF Process, StaysOrAdvances
<1>4. QED BY <1>1, <1>2, <1>3

-----------------------------------------------------------------------------
LEMMA InitOnwardInv == Init => OnwardInv
<1> SUFFICES ASSUME Init PROVE OnwardInv
  OBVIOUS
<1>1. Placed
  BY DEF Init, Placed, OnlyPendingMissing, OrphansUnplaced, PendingPlaced
<1>2. \A r \in Runs : run[r].pc = "idle"
  BY DEF Init, Idle
<1>3. QED BY <1>1, <1>2, ElsewhereExpects, EndsElsewhere DEF OnwardInv

LEMMA NextOnwardInv ==
  ASSUME OneAtATime, TypeInv, RefreshInv, OnwardInv, [Next]_vars
  PROVE  OnwardInv' /\ (watermark' = NoWatermark \/ StaysOrAdvances)
<1>1. ~Overlap
  BY DEF OneAtATime
<1>2. CASE UNCHANGED vars \/ Terminated \/ CleanLog \/ Tick
  <2>1. CleanLog \/ Tick \/ UNCHANGED vars
    BY <1>2 DEF Terminated
  <2>2. UNCHANGED watermark
    BY <2>1 DEF CleanLog, Tick, vars, checkpoint
  <2>3. QED BY <2>1, <2>2, ServicesKeepOnward DEF StaysOrAdvances
<1>3. ASSUME NEW r \in Runs, RunStep(r)
      PROVE  OnwardInv' /\ (watermark' = NoWatermark \/ StaysOrAdvances)
  BY <1>1, <1>3, PrepareKeepsOnward, ReconcileKeepsOnward, ProcessKeepsOnward
  DEF RunStep, StaysOrAdvances
<1>4. ASSUME NEW r \in Runs, Crash(r) PROVE OnwardInv' /\ StaysOrAdvances
  <2>1. UNCHANGED Shared /\ UNCHANGED <<cleaned, watermark>> /\ cleaned \in Nat
    BY <1>4 DEF Crash, Shared, checkpoint, delta, TypeInv, TypeOK
  <2>2. Idles
    BY <2>1, NoJobsIdles
  <2>3. QED BY <1>1, <1>4, <2>1, <2>2, EndOnward DEF Crash, Over, StaysOrAdvances
<1>5. ASSUME NEW j \in DOMAIN jobs, EndJob(j) PROVE OnwardInv' /\ StaysOrAdvances
  <2>1. UNCHANGED watermark
    BY <1>5 DEF EndJob, CommitJob, FailJob, checkpoint
  <2>2. QED BY <1>5, <2>1, CommitJobKeepsOnward, ServicesKeepOnward DEF EndJob, StaysOrAdvances
<1>6. CASE OtherCommit
  BY <1>6, OtherCommitKeepsOnward DEF OtherCommit, checkpoint, StaysOrAdvances
<1>7. QED BY <1>2, <1>3, <1>4, <1>5, <1>6 DEF Next

(* The checkpoint only ever starts again or moves forward by one batch, as  *)
(* long as runs do not overlap, refreshes among them or not; in particular  *)
(* adopting finds nothing that could be written back.                       *)
THEOREM CheckpointStartsAgainOrAdvances ==
  ASSUME OneAtATime, DistinctMTimes
  PROVE  Spec => WatermarkAdvances
<1>1. Init => TypeInv /\ RefreshInv /\ OnwardInv
  BY InitTypeInv, InitRefreshInv, InitOnwardInv
<1>2. TypeInv /\ RefreshInv /\ OnwardInv /\ [Next]_vars => (TypeInv /\ RefreshInv /\ OnwardInv)'
  BY StepTypeInv, NextRefreshInv, NextOnwardInv
<1>3. TypeInv /\ RefreshInv /\ OnwardInv /\ [Next]_vars =>
         [\/ watermark' = NoWatermark
          \/ /\ watermark'.batchId = watermark.batchId
             /\ watermark'.modified = watermark.modified
          \/ /\ watermark'.batchId = watermark.batchId + 1
             /\ watermark'.modified > watermark.modified]_vars
  BY NextOnwardInv DEF StaysOrAdvances
<1>4. QED BY <1>1, <1>2, <1>3, PTL DEF Spec, WatermarkAdvances
=============================================================================
