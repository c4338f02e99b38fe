----------------------------- MODULE ScopeTable -----------------------------
(***************************************************************************)
(* One Delta table fed by dbt runs, each of which executes the incremental *)
(* (or table) materialization once: claim the table, settle the jobs of    *)
(* other runs, reconcile the checkpoint with the Delta log, then discover, *)
(* begin, submit, wait and checkpoint batch after batch.                   *)
(*                                                                         *)
(* Shared state is what outlives a process: the three small files under    *)
(* _checkpoint/, the Delta log and the ADLA jobs.  A run is a process: its *)
(* locals are lost when it ends.  One action is one step between two       *)
(* accesses to shared state, so every order of two runs, the job service   *)
(* and a crash is a behaviour.  Two accesses share a step where nothing is *)
(* decided in between: the watermark and the Delta log are read together,  *)
(* and the log is read with the watermark that will carry its version.     *)
(*                                                                         *)
(* Delta versions are counted from 1: version v of the model is version    *)
(* v - 1 of the table, and 0 stands for "no log yet" and for an absent     *)
(* deltaVersion.                                                           *)
(***************************************************************************)
EXTENDS Integers, Sequences, FiniteSets

CONSTANTS
    NumRuns,             \* runs 1..NumRuns, ranked by start time
    Files,               \* source files, numbers: listing order among equal times
    MTime,               \* [Files -> modification time]
    MaxTime,             \* bound: the clock stops here
    MaxFilesPerTrigger,
    MaxResubmits,        \* job retries of one batch
    MaxBatches,          \* bound: batches begun in a behaviour
    MaxOtherCommits,     \* bound: commits by other engines
    MaxLegacyCommits,    \* _LEGACY_BASELINE_MAX_COMMITS
    Modes,               \* which of "incremental", "full" a run may be started in
    Overlap,             \* may a run start while an earlier one is alive?
    Prompt,              \* does an earlier run act on an owner check at once?
    Faults,              \* which faults the environment may inject
    FaultyRuns           \* into which runs

FaultKinds == {"crash", "deleteWatermark", "deletePending", "settleTimeout",
               "sources", "adoptSources", "adoptRead", "logRead", "jobFails",
               "giveUp", "cancelUnconfirmed", "logCleanup", "tornClaim", "fullPage"}

ASSUME RunsAssumption == NumRuns \in Nat \ {0}
ASSUME FilesAssumption == Files \subseteq Nat /\ MTime \in [Files -> 1..MaxTime]
ASSUME BoundsAssumption ==
    /\ MaxTime \in Nat /\ MaxResubmits \in Nat /\ MaxBatches \in Nat
    /\ MaxOtherCommits \in Nat /\ MaxLegacyCommits \in Nat
    /\ MaxFilesPerTrigger \in Nat \ {0}
ASSUME ScenarioAssumption ==
    /\ Modes \subseteq {"incremental", "full"}
    /\ Overlap \in BOOLEAN
    /\ Prompt \in BOOLEAN
    /\ Faults \subseteq FaultKinds

Runs == 1..NumRuns
NoRun == 0
Unreadable == -1    \* owner.json while, or after, a claimant was writing it
NoBatch == 0

VARIABLES
    owner,      \* owner.json: the run that owns the table, NoRun or Unreadable
    watermark,  \* watermark.json
    writtenAt,  \* Len(log) when watermark.json was last written (its mtime)
    pending,    \* pending.json: index into batches, or NoBatch
    batches,    \* every batch begun: the contents of its pending.json and script
    log,        \* the Delta log: per version, the batch committed, or NoBatch
                \* for a commit by another engine
    cleaned,    \* JSON commits up to this version were removed by log cleanup
    jobs,       \* ADLA jobs, in order of submission
    cutoff,     \* now - safety_buffer: files modified up to here are eligible
    run         \* the processes' locals

vars == <<owner, watermark, writtenAt, pending, batches, log, cleaned, jobs,
          cutoff, run>>
checkpoint == <<owner, watermark, writtenAt, pending>>
delta == <<log, cleaned>>

-----------------------------------------------------------------------------
(* Data *)

(* Watermark.  version and batch_id move together (compute_new_watermark), *)
(* so one number stands for both.  An absent file is the record below:     *)
(* batch ids start at -1 + 1 and every modification time is after 0.       *)
NoWatermark == [batchId |-> -1, modified |-> 0, delta |-> 0]
Watermark == [batchId : Nat \cup {-1}, modified : Nat, delta : Nat]

Batch == [files : (SUBSET Files) \ {{}}, before : Watermark, deltaBefore : Nat,
          truncate : BOOLEAN]

JobStates == {"active", "cancelling", "succeeded", "failed"}
Ended == {"succeeded", "failed"}
Job == [batch : Nat, run : Runs, state : JobStates]

PCs == {"idle", "deleteWatermark", "clearPending", "claim", "listOrphans",
        "settling", "readTable", "resolve", "recordPending", "dropPending",
        "adopt", "rewrite", "discover", "begin", "readPosition",
        "writePending", "submit", "put", "recheck", "wait", "abandon", "abandoned",
        "update", "readCurrent", "record", "finish",
        "superseded", "failed", "crashed", "done"}
Over == {"superseded", "failed", "crashed", "done"}

RunState == [pc : PCs, mode : {"incremental", "full"}, wm : Watermark,
             latest : Nat, files : SUBSET Files, batch : Nat, job : Nat,
             orphans : SUBSET Nat, version : Nat, batchNum : Nat,
             resubmits : 0..MaxResubmits]

Idle == [pc |-> "idle", mode |-> "incremental", wm |-> NoWatermark,
         latest |-> 0, files |-> {}, batch |-> NoBatch, job |-> 0,
         orphans |-> {}, version |-> 0, batchNum |-> 0, resubmits |-> 0]

Fault(r, kind) == kind \in Faults /\ r \in FaultyRuns
At(r, label) == run[r].pc = label
Goto(r, label) == run' = [run EXCEPT ![r].pc = label]

(* The end of a process: its locals are gone. *)
End(r, label) == run' = [run EXCEPT ![r] = [Idle EXCEPT !.pc = label]]

CommittedFiles(v) == IF log[v] = NoBatch THEN {} ELSE batches[log[v]].files
Truncates(v) == log[v] # NoBatch /\ batches[log[v]].truncate

(* The versions whose rows are still in the table: a full refresh deletes  *)
(* every row of the versions before it in the commit of its first batch.   *)
LiveVersions == {v \in DOMAIN log : \A w \in DOMAIN log : w > v => ~Truncates(w)}
InTable(f) == \E v \in LiveVersions : f \in CommittedFiles(v)

-----------------------------------------------------------------------------
(* Pure parts of the code *)

(* Operators named after a slip, such as the next one, are what the code    *)
(* would be with it: the properties are tried against them.                 *)
UnprocessedStrictCutoff(w) ==
    {f \in Files : w.modified < MTime[f] /\ MTime[f] < cutoff}

(* Files that discovery returns for a watermark: after it, and old enough.  *)
Unprocessed(w) == {f \in Files : w.modified < MTime[f] /\ MTime[f] <= cutoff}

(* Oldest first; among equal times the order of the listing. *)
Before(f, g) == MTime[f] < MTime[g] \/ (MTime[f] = MTime[g] /\ f < g)

NextBatchesUnsorted(ready) ==
    {b \in SUBSET ready : b # {} /\ Cardinality(b) <= MaxFilesPerTrigger}

(* What get_next_batch can return for the sorted list of ready: a prefix,  *)
(* never empty, cut by the file limit or anywhere earlier by the byte      *)
(* limit.                                                                  *)
NextBatches(ready) ==
    {b \in SUBSET ready :
        /\ b # {}
        /\ Cardinality(b) <= MaxFilesPerTrigger
        /\ \A f \in b : \A g \in ready : Before(g, f) => g \in b}

(* compute_new_watermark, with the Delta version _record_batch adds. *)
NewWatermark(fs, current, version) ==
    [batchId  |-> current.batchId + 1,
     modified |-> CHOOSE t \in {MTime[f] : f \in fs} : \A f \in fs : MTime[f] <= t,
     delta    |-> version]

AppliesAlways(b, w) == b # NoBatch

(* PendingBatch.applies_to: same_position, which ignores deltaVersion. *)
Applies(b, w) ==
    /\ batches[b].before.batchId = w.batchId
    /\ batches[b].before.modified = w.modified

(* _find_token_version over the first seen versions: the readable commits  *)
(* after deltaBefore, or, when cleanup removed one of them, the token in   *)
(* the table's latest properties.  0: not found.                           *)
LatestToken ==
    LET ours == {v \in DOMAIN log : log[v] # NoBatch}
    IN  IF ours = {} THEN NoBatch ELSE log[CHOOSE v \in ours : \A w \in ours : w <= v]

TokenVersionNoFallback(b, seen) ==
    LET hits == {v \in (batches[b].deltaBefore + 1)..seen :
                    v > cleaned /\ v \in DOMAIN log /\ log[v] = b}
    IN  IF hits # {} THEN CHOOSE v \in hits : \A w \in hits : v <= w ELSE 0

TokenVersionAnyCommit(b, seen) == IF batches[b].deltaBefore < seen THEN seen ELSE 0

TokenVersion(b, seen) ==
    LET after == batches[b].deltaBefore
        hits  == {v \in (after + 1)..seen : v > cleaned /\ v \in DOMAIN log /\ log[v] = b}
    IN  IF hits # {} THEN CHOOSE v \in hits : \A w \in hits : v <= w
        ELSE IF after < seen /\ after < cleaned /\ LatestToken = b THEN seen
        ELSE 0

(* The Delta version the checkpoint covers; _legacy_baseline infers it from *)
(* the time watermark.json was written when it carries none.                *)
LegacyBaseline(latest) ==
    LET floor == {writtenAt, latest - MaxLegacyCommits, cleaned}
    IN  CHOOSE v \in floor : \A w \in floor : w <= v

Baseline(w, latest) == IF w.delta = 0 THEN LegacyBaseline(latest) ELSE w.delta

(* _adopt_unrecorded_commits up to its write: the unprocessed files that   *)
(* readable commits after the baseline ingested, as far as they precede    *)
(* the first file that was not ingested (_adoptable_prefix).               *)
Adopted(w, latest) ==
    {f \in Unprocessed(w) :
        \E v \in (Baseline(w, latest) + 1)..latest :
            v \in DOMAIN log /\ v > cleaned /\ f \in CommittedFiles(v)}

AdoptablePrefix(w, latest) ==
    {f \in Adopted(w, latest) :
        \A g \in Unprocessed(w) \ Adopted(w, latest) : MTime[f] < MTime[g]}

(* ensure_table_owner: nobody, or this run, owns the table. *)
OwnsTable(r) == owner \in {NoRun, r}

-----------------------------------------------------------------------------
(* The materialization, one dbt run r *)

(* Process start.  Runs are numbered by start time. *)
Start(r) ==
    /\ At(r, "idle")
    /\ \A q \in Runs : q < r => run[q].pc \in (IF Overlap THEN PCs \ {"idle"} ELSE Over)
    /\ \E m \in Modes :
        run' = [run EXCEPT ![r].mode = m,
                           ![r].pc = IF m = "full" THEN "deleteWatermark" ELSE "claim"]
    /\ UNCHANGED <<checkpoint, delta, batches, jobs, cutoff>>

(* delete_checkpoint: a failure to delete watermark.json is swallowed, one  *)
(* to delete pending.json is not.                                           *)
DeleteWatermark(r) ==
    /\ At(r, "deleteWatermark")
    /\ \/ watermark' = NoWatermark
       \/ Fault(r, "deleteWatermark") /\ UNCHANGED watermark
    /\ Goto(r, "clearPending")
    /\ UNCHANGED <<owner, writtenAt, pending, delta, batches, jobs, cutoff>>

ClearPending(r) ==
    /\ At(r, "clearPending")
    /\ \/ pending' = NoBatch /\ Goto(r, "claim")
       \/ Fault(r, "deletePending") /\ UNCHANGED pending /\ End(r, "failed")
    /\ UNCHANGED <<owner, watermark, writtenAt, delta, batches, jobs, cutoff>>

(* The steps that an owner check guards but does not cover: a claim that    *)
(* lands here is noticed one step late. *)
Exposed == {"listOrphans", "settling", "readTable", "resolve", "recordPending",
            "dropPending", "adopt", "rewrite", "readPosition", "writePending", "put",
            "recheck", "readCurrent", "record", "finish"}
Prompted(r) == Prompt => \A q \in Runs \ {r} : run[q].pc \notin Exposed

ClaimUnownedOnly(r) ==
    /\ At(r, "claim")
    /\ Prompted(r)
    /\ \/ owner = NoRun /\ owner' = r /\ Goto(r, "listOrphans")
       \/ owner # NoRun /\ UNCHANGED owner /\ End(r, "superseded")
    /\ UNCHANGED <<watermark, writtenAt, pending, delta, batches, jobs, cutoff>>

(* claim_table: claim_owner is one step here, or stops with the record      *)
(* unreadable (module OwnerClaim: its writes implement OwnerRegister).      *)
Claim(r) ==
    /\ At(r, "claim")
    /\ Prompted(r)
    /\ \/ owner <= r /\ owner' = r /\ Goto(r, "listOrphans")
       \/ owner > r /\ UNCHANGED owner /\ End(r, "superseded")
       \/ Fault(r, "tornClaim") /\ owner < r /\ owner' = Unreadable /\ End(r, "crashed")
    /\ UNCHANGED <<watermark, writtenAt, pending, delta, batches, jobs, cutoff>>

(* settle_orphaned_jobs: list the live jobs of other runs and ask ADLA to   *)
(* cancel each; then wait until all have ended, or give up.                 *)
Orphans(r) == {j \in DOMAIN jobs : jobs[j].run # r /\ jobs[j].state \notin Ended}

Cancelled(js) == [j \in DOMAIN jobs |->
    IF j \in js /\ jobs[j].state = "active" THEN [jobs[j] EXCEPT !.state = "cancelling"]
                                            ELSE jobs[j]]

(* ADLA answers with the first 100 jobs whose names begin like the model's: *)
(* jobs of other models can keep orphans off that page.                     *)
Listed(r) == IF Fault(r, "fullPage") THEN SUBSET Orphans(r) ELSE {Orphans(r)}

ListOrphans(r) ==
    /\ At(r, "listOrphans")
    /\ \E listed \in Listed(r) :
        /\ jobs' = Cancelled(listed)
        /\ run' = [run EXCEPT ![r].orphans = listed, ![r].pc = "settling"]
    /\ UNCHANGED <<checkpoint, delta, batches, cutoff>>

SettledAtOnce(r) ==
    /\ At(r, "settling")
    /\ Goto(r, "readTable")
    /\ UNCHANGED <<checkpoint, delta, batches, jobs, cutoff>>

Settled(r) ==
    /\ At(r, "settling")
    /\ \A j \in run[r].orphans : jobs[j].state \in Ended
    /\ Goto(r, "readTable")
    /\ UNCHANGED <<checkpoint, delta, batches, jobs, cutoff>>

SettleTimeout(r) ==
    /\ At(r, "settling")
    /\ Fault(r, "settleTimeout")
    /\ \E j \in run[r].orphans : jobs[j].state \notin Ended
    /\ End(r, "failed")
    /\ UNCHANGED <<checkpoint, delta, batches, jobs, cutoff>>

(* reconcile_checkpoint reads the watermark and lists the Delta log. *)
ReadTable(r) ==
    /\ At(r, "readTable")
    /\ run' = [run EXCEPT ![r].wm = watermark, ![r].latest = Len(log), ![r].pc = "resolve"]
    /\ UNCHANGED <<checkpoint, delta, batches, jobs, cutoff>>

(* _resolve_pending: record the batch when its token is in the log, discard *)
(* it when the token is not or the checkpoint has moved past it.            *)
ResolvePending(r) ==
    /\ At(r, "resolve")
    /\ \/ pending = NoBatch /\ Goto(r, "adopt")
       \/ /\ pending # NoBatch
          /\ LET v == IF Applies(pending, run[r].wm)
                        THEN TokenVersion(pending, run[r].latest) ELSE 0
             IN  run' = [run EXCEPT ![r].batch = pending, ![r].version = v,
                            ![r].pc = IF v = 0 THEN "dropPending" ELSE "recordPending"]
    /\ UNCHANGED <<checkpoint, delta, batches, jobs, cutoff>>

(* write_watermark, and write_batch_sources, whose failure ends the caller. *)
WriteWatermark(w) == watermark' = w /\ writtenAt' = Len(log)

RecordPending(r) ==
    /\ At(r, "recordPending")
    /\ LET w == NewWatermark(batches[run[r].batch].files, run[r].wm, run[r].version)
       IN  /\ WriteWatermark(w)
           /\ \/ run' = [run EXCEPT ![r].wm = w, ![r].pc = "dropPending"]
              \/ Fault(r, "sources") /\ End(r, "failed")
    /\ UNCHANGED <<owner, pending, delta, batches, jobs, cutoff>>

(* delete_pending, not strict: a failure only warns. *)
DeletePending(r) ==
    \/ pending' = NoBatch
    \/ Fault(r, "deletePending") /\ UNCHANGED pending

DropPending(r) ==
    /\ At(r, "dropPending")
    /\ DeletePending(r)
    /\ Goto(r, "adopt")
    /\ UNCHANGED <<owner, watermark, writtenAt, delta, batches, jobs, cutoff>>

(* The rest of reconcile_checkpoint.  Adopted files are recorded as one     *)
(* batch; anything that fails while adopting is only logged, and the        *)
(* watermark held before is written back with the latest Delta version.     *)
AdoptNothing(r, w) ==
    IF w = NoWatermark \/ run[r].latest = 0 \/ w.delta = run[r].latest
      THEN UNCHANGED <<watermark, writtenAt>>
      ELSE WriteWatermark([w EXCEPT !.delta = run[r].latest])

Adopt(r) ==
    /\ At(r, "adopt")
    /\ LET w      == run[r].wm
           latest == run[r].latest
           prefix == IF w = NoWatermark \/ Baseline(w, latest) >= latest
                       THEN {} ELSE AdoptablePrefix(w, latest)
       IN  \/ prefix = {} /\ AdoptNothing(r, w) /\ Goto(r, "discover")
           \/ /\ prefix # {}
              /\ \/ WriteWatermark(NewWatermark(prefix, w, latest)) /\ Goto(r, "discover")
                 \/ /\ Fault(r, "adoptSources")
                    /\ WriteWatermark(NewWatermark(prefix, w, latest))
                    /\ Goto(r, "rewrite")
                 \/ Fault(r, "adoptRead") /\ AdoptNothing(r, w) /\ Goto(r, "discover")
    /\ UNCHANGED <<owner, pending, delta, batches, jobs, cutoff>>

RewriteWatermark(r) ==
    /\ At(r, "rewrite")
    /\ AdoptNothing(r, run[r].wm)
    /\ Goto(r, "discover")
    /\ UNCHANGED <<owner, pending, delta, batches, jobs, cutoff>>

(* discover_files: no unprocessed file ends the loop. *)
Discover(r) ==
    /\ At(r, "discover")
    /\ LET ready == Unprocessed(watermark)
       IN  \/ ready = {} /\ End(r, "done")
           \/ \E b \in NextBatches(ready) :
                run' = [run EXCEPT ![r].files = b, ![r].batchNum = @ + 1, ![r].pc = "begin"]
    /\ UNCHANGED <<checkpoint, delta, batches, jobs, cutoff>>

(* begin_batch reads the owner, then the watermark and the Delta version,   *)
(* then writes pending.json under a new token.                              *)
CheckBeforeBegin(r) ==
    /\ At(r, "begin")
    /\ \/ OwnsTable(r) /\ Goto(r, "readPosition")
       \/ ~OwnsTable(r) /\ End(r, "superseded")
    /\ UNCHANGED <<checkpoint, delta, batches, jobs, cutoff>>

BeginBatch(r) ==
    /\ At(r, "readPosition")
    /\ run' = [run EXCEPT ![r].wm = watermark, ![r].latest = Len(log),
                          ![r].pc = "writePending"]
    /\ UNCHANGED <<checkpoint, delta, batches, jobs, cutoff>>

NeverFirstOfRefresh(r) == FALSE
EveryBatchOfRefresh(r) == run[r].mode = "full"
FirstOfRefresh(r) == run[r].mode = "full" /\ run[r].batchNum = 1

WritePending(r) ==
    /\ At(r, "writePending")
    /\ Len(batches) < MaxBatches
    /\ batches' = Append(batches, [files |-> run[r].files, before |-> run[r].wm,
                                   deltaBefore |-> run[r].latest,
                                   truncate |-> FirstOfRefresh(r)])
    /\ pending' = Len(batches) + 1
    /\ run' = [run EXCEPT ![r].batch = Len(batches) + 1, ![r].resubmits = 0,
                          ![r].pc = "submit"]
    /\ UNCHANGED <<owner, watermark, writtenAt, delta, jobs, cutoff>>

(* submit_and_wait: the owner is read before the job is submitted and again *)
(* once the job exists.                                                     *)
CheckBeforeSubmit(r) ==
    /\ At(r, "submit")
    /\ \/ OwnsTable(r) /\ Goto(r, "put")
       \/ ~OwnsTable(r) /\ End(r, "superseded")
    /\ UNCHANGED <<checkpoint, delta, batches, jobs, cutoff>>

SubmitJob(r) ==
    /\ At(r, "put")
    /\ jobs' = Append(jobs, [batch |-> run[r].batch, run |-> r, state |-> "active"])
    /\ run' = [run EXCEPT ![r].job = Len(jobs) + 1, ![r].pc = "recheck"]
    /\ UNCHANGED <<checkpoint, delta, batches, cutoff>>

CheckAfterSubmit(r) ==
    /\ At(r, "recheck")
    /\ Goto(r, IF OwnsTable(r) THEN "wait" ELSE "abandon")
    /\ UNCHANGED <<checkpoint, delta, batches, jobs, cutoff>>

JobState(r) == jobs[run[r].job].state

JobSucceeded(r) ==
    /\ At(r, "wait")
    /\ JobState(r) = "succeeded"
    /\ Goto(r, "update")
    /\ UNCHANGED <<checkpoint, delta, batches, jobs, cutoff>>

JobFailedOffByOne(r) ==
    /\ At(r, "wait")
    /\ JobState(r) = "failed"
    /\ \/ /\ run[r].resubmits <= MaxResubmits
          /\ run' = [run EXCEPT ![r].resubmits = @ + 1, ![r].pc = "submit"]
       \/ End(r, "failed")
    /\ UNCHANGED <<checkpoint, delta, batches, jobs, cutoff>>

(* A failure whose message matches a job retry rule, which a cancel by      *)
(* another run does, submits the same script, and token, as a new job.      *)
JobFailed(r) ==
    /\ At(r, "wait")
    /\ JobState(r) = "failed"
    /\ \/ /\ run[r].resubmits < MaxResubmits
          /\ run' = [run EXCEPT ![r].resubmits = @ + 1, ![r].pc = "submit"]
       \/ End(r, "failed")
    /\ UNCHANGED <<checkpoint, delta, batches, jobs, cutoff>>

(* Polling times out or keeps failing, or the run is shut down. *)
GiveUp(r) ==
    /\ At(r, "wait")
    /\ Fault(r, "giveUp")
    /\ Goto(r, "abandon")
    /\ UNCHANGED <<checkpoint, delta, batches, jobs, cutoff>>

(* _cancel_own_job, and what submit_and_wait makes of its outcome. *)
Abandon(r) ==
    /\ At(r, "abandon")
    /\ jobs' = Cancelled({run[r].job})
    /\ Goto(r, "abandoned")
    /\ UNCHANGED <<checkpoint, delta, batches, cutoff>>

AbandonedJobEnded(r) ==
    /\ At(r, "abandoned")
    /\ \/ JobState(r) = "succeeded" /\ Goto(r, "update")
       \/ JobState(r) = "failed" /\ End(r, "failed")
    /\ UNCHANGED <<checkpoint, delta, batches, jobs, cutoff>>

AbandonedJobPolledAgain(r) ==
    /\ At(r, "abandoned")
    /\ Fault(r, "cancelUnconfirmed")
    /\ Goto(r, "wait")
    /\ UNCHANGED <<checkpoint, delta, batches, jobs, cutoff>>

AbandonedJobUnconfirmed(r) ==
    /\ At(r, "abandoned")
    /\ Fault(r, "cancelUnconfirmed")
    /\ End(r, "failed")
    /\ UNCHANGED <<checkpoint, delta, batches, jobs, cutoff>>

(* update_checkpoint: read the owner; read the watermark; _record_batch;    *)
(* then delete pending.json.  The files of a batch are in the cache of      *)
(* discover_files, so the return for a batch without files is not reached.  *)
CheckBeforeUpdate(r) ==
    /\ At(r, "update")
    /\ \/ OwnsTable(r) /\ Goto(r, "readCurrent")
       \/ ~OwnsTable(r) /\ End(r, "superseded")
    /\ UNCHANGED <<checkpoint, delta, batches, jobs, cutoff>>

UpdateCheckpoint(r) ==
    /\ At(r, "readCurrent")
    /\ run' = [run EXCEPT ![r].wm = watermark, ![r].pc = "record"]
    /\ UNCHANGED <<checkpoint, delta, batches, jobs, cutoff>>

(* _committed_delta_version: the batch's own commit, else the latest one,   *)
(* and no version when the log cannot be read.                              *)
CommittedVersions(r) ==
    LET v == TokenVersion(run[r].batch, Len(log))
    IN  {IF v # 0 THEN v ELSE Len(log)} \cup (IF Fault(r, "logRead") THEN {0} ELSE {})

RecordBatch(r) ==
    /\ At(r, "record")
    /\ \E version \in CommittedVersions(r) :
        WriteWatermark(NewWatermark(run[r].files, run[r].wm, version))
    /\ \/ Goto(r, "finish")
       \/ Fault(r, "sources") /\ End(r, "failed")
    /\ UNCHANGED <<owner, pending, delta, batches, jobs, cutoff>>

FinishBatch(r) ==
    /\ At(r, "finish")
    /\ DeletePending(r)
    /\ Goto(r, "discover")
    /\ UNCHANGED <<owner, watermark, writtenAt, delta, batches, jobs, cutoff>>

(* SIGKILL, a lost host, an unhandled error: the process is gone, its job   *)
(* is not.                                                                  *)
Crash(r) ==
    /\ Fault(r, "crash")
    /\ run[r].pc \notin Over \cup {"idle"}
    /\ End(r, "crashed")
    /\ UNCHANGED <<checkpoint, delta, batches, jobs, cutoff>>

-----------------------------------------------------------------------------
(* The services around it *)

(* A job's Delta commit carries the rows of its files, the token and, on    *)
(* the first batch of a full refresh, the DELETE.  A cancel may come late.  *)
CommitJob(j) ==
    /\ jobs[j].state \notin Ended
    /\ log' = Append(log, jobs[j].batch)
    /\ jobs' = [jobs EXCEPT ![j].state = "succeeded"]
    /\ UNCHANGED <<checkpoint, cleaned, batches, cutoff, run>>

FailJob(j) ==
    /\ \/ jobs[j].state = "cancelling"
       \/ jobs[j].state = "active" /\ Fault(jobs[j].run, "jobFails")
    /\ jobs' = [jobs EXCEPT ![j].state = "failed"]
    /\ UNCHANGED <<checkpoint, delta, batches, cutoff, run>>

OtherCommit ==
    /\ log # <<>>
    /\ Cardinality({v \in DOMAIN log : log[v] = NoBatch}) < MaxOtherCommits
    /\ log' = Append(log, NoBatch)
    /\ UNCHANGED <<checkpoint, cleaned, batches, jobs, cutoff, run>>

CleanLog ==
    /\ "logCleanup" \in Faults
    /\ cleaned < Len(log)
    /\ cleaned' = Len(log)
    /\ UNCHANGED <<checkpoint, log, batches, jobs, cutoff, run>>

Tick ==
    /\ cutoff < MaxTime
    /\ cutoff' = cutoff + 1
    /\ UNCHANGED <<checkpoint, delta, batches, jobs, run>>

-----------------------------------------------------------------------------
Init ==
    /\ owner = NoRun
    /\ watermark = NoWatermark
    /\ writtenAt = 0
    /\ pending = NoBatch
    /\ batches = <<>>
    /\ log = <<>>
    /\ cleaned = 0
    /\ jobs = <<>>
    /\ cutoff = 0
    /\ run = [r \in Runs |-> Idle]

Prepare(r) ==
    \/ Start(r) \/ DeleteWatermark(r) \/ ClearPending(r) \/ Claim(r)
    \/ ListOrphans(r) \/ Settled(r) \/ SettleTimeout(r)

Reconcile(r) ==
    \/ ReadTable(r) \/ ResolvePending(r) \/ RecordPending(r) \/ DropPending(r)
    \/ Adopt(r) \/ RewriteWatermark(r)

Process(r) ==
    \/ Discover(r) \/ CheckBeforeBegin(r) \/ BeginBatch(r) \/ WritePending(r)
    \/ CheckBeforeSubmit(r) \/ SubmitJob(r) \/ CheckAfterSubmit(r)
    \/ JobSucceeded(r) \/ JobFailed(r) \/ GiveUp(r)
    \/ Abandon(r) \/ AbandonedJobEnded(r) \/ AbandonedJobUnconfirmed(r)
    \/ CheckBeforeUpdate(r) \/ UpdateCheckpoint(r) \/ RecordBatch(r) \/ FinishBatch(r)

RunStep(r) == Prepare(r) \/ Reconcile(r) \/ Process(r)
EndJob(j) == CommitJob(j) \/ FailJob(j)

(* Every run is over and every job has ended: nothing is left to do. *)
Terminated ==
    /\ \A r \in Runs : run[r].pc \in Over
    /\ \A j \in DOMAIN jobs : jobs[j].state \in Ended
    /\ UNCHANGED vars

Next ==
    \/ \E r \in Runs : RunStep(r) \/ Crash(r)
    \/ \E j \in DOMAIN jobs : EndJob(j)
    \/ OtherCommit \/ CleanLog \/ Tick
    \/ Terminated

Spec == Init /\ [][Next]_vars

(* Fairness.  A process executes its next step, every wait in it has a      *)
(* deadline; ADLA ends every job; time passes.  Crashes, commits by other   *)
(* engines and log cleanup need not happen.                                 *)
MaxJobs == MaxBatches * (MaxResubmits + 1)

FairSpec ==
    /\ Spec
    /\ \A r \in Runs : WF_vars(RunStep(r))
    /\ \A j \in 1..MaxJobs : WF_vars(j \in DOMAIN jobs /\ EndJob(j))
    /\ WF_vars(Tick)

-----------------------------------------------------------------------------
(* Properties *)

TypeOK ==
    /\ owner \in Runs \cup {NoRun, Unreadable}
    /\ watermark \in Watermark
    /\ writtenAt \in 0..Len(log)
    /\ batches \in Seq(Batch)
    /\ pending \in 0..Len(batches)
    /\ log \in Seq(0..Len(batches))
    /\ cleaned \in 0..Len(log)
    /\ jobs \in Seq(Job)
    /\ cutoff \in 0..MaxTime
    /\ run \in [Runs -> RunState]

(* No data loss: the watermark is only ever ahead of files whose rows are   *)
(* in the table, whatever order runs, jobs and crashes come in.  Discovery  *)
(* never looks at those files again.                                        *)
NoLoss ==
    watermark # NoWatermark =>
        \A f \in Files : MTime[f] <= watermark.modified => InTable(f)

(* No file is ingested twice: two commits whose rows are both in the table  *)
(* never read the same source file.                                         *)
NoDuplicate ==
    \A v, w \in LiveVersions :
        v # w => CommittedFiles(v) \cap CommittedFiles(w) = {}

(* Why recovery can work: every batch whose rows are in the table is        *)
(* covered by the watermark, or is the batch pending.json still describes,  *)
(* started from exactly the current watermark and with its token findable.  *)
CommitsAccountedFor ==
    \A v \in LiveVersions :
        \/ \A f \in CommittedFiles(v) : MTime[f] <= watermark.modified
        \/ /\ pending = log[v]
           /\ Applies(pending, watermark)
           /\ TokenVersion(pending, Len(log)) # 0

(* Between full refreshes every batch is recorded once, and recording it    *)
(* moves the position in the source forward; nothing ever moves it back.    *)
WatermarkAdvances ==
    [][\/ watermark' = NoWatermark
       \/ /\ watermark'.batchId = watermark.batchId
          /\ watermark'.modified = watermark.modified
       \/ /\ watermark'.batchId = watermark.batchId + 1
          /\ watermark'.modified > watermark.modified]_vars

(* A run that ends normally leaves nothing behind: every file eligible at   *)
(* its last discovery is in the table.                                      *)
DoneMeansIngested ==
    [][\A r \in Runs : At(r, "discover") /\ run'[r].pc = "done" =>
          \A f \in Files : MTime[f] <= cutoff => InTable(f)]_vars

(* Every run that starts comes to an end, normally or not.                  *)
RunsEnd == \A r \in Runs : ~At(r, "idle") ~> run[r].pc \in Over

(* Recovery: once the last run, which meets no fault, reaches the table,    *)
(* every eligible file gets into it, wherever the runs before died.         *)
LastRunIngests ==
    \A f \in Files : At(NumRuns, "claim") /\ MTime[f] <= cutoff ~> InTable(f)
=============================================================================
