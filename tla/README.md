# A TLA+ model of dbt-scope

dbt-scope is a dbt adapter that loads files from ADLS Gen1 into Delta tables by
submitting SCOPE jobs to Azure Data Lake Analytics (ADLA). dbt runs are ordinary
processes that die, overlap and are started again; the jobs they submit keep
running without them; progress lives in small files beside the Delta log. The
adapter's promise is that every source file gets into the table, and gets there
once. This directory states that promise, models the code that keeps it, checks
the models with TLC and proves what matters most with TLAPS.

Paths below are relative to `dbt/adapters/scope/`, macros to
`dbt/include/scope/macros/materializations/`. `README.md:NN` is the repository's
README.

## 1. Inventory

| component | state it keeps | operations | what is hard | correct when |
| --- | --- | --- | --- | --- |
| materialization loop (`incremental.sql`, `table.sql`) | batch number, current batch, mode | delete checkpoint, reconcile, discover, compare schemas, begin, submit, checkpoint, repeat | dies anywhere; a second run starts | each eligible file is ingested once, a refresh deletes rows once |
| reconciliation (`impl.py` 806-1209) | none of its own | claim, settle, resolve pending batch, adopt commits, rewrite watermark | decides from three stores that change separately | an uncertain batch is recorded exactly when it is in the table |
| watermark and pending batch (`checkpoint.py`) | `watermark.json`, `pending.json` | read, write, delete | swallowed failures, no conditional write | the watermark covers only files in the table |
| sources audit trail (`checkpoint.py` 660-900) | `sources/*` | diff, snapshot, retention, delete | uploads in two requests, order of deletion, a long sequence of batches | the newest snapshot plus the diffs after it list every batch once |
| table ownership (`checkpoint.py`, `connections.py`) | `owner.json`, `_claimed_tables` | claim, check | conditional writes in two requests, checks that go stale | one owner, the run that started last |
| ADLA jobs (`connections.py`) | active-job registry, cancelled ids, shutdown event | submit, poll, cancel, settle, retry | the service acts by itself; cancel and commit race | no job of a run that is over commits unnoticed |
| discovery and batching (`file_tracker.py`, `impl.py` 611-804) | `_discovered_file_infos`, shared by the threads | list, filter, sort, cut | ties, cutoff, starting timestamp | batches are taken oldest first, none is skipped |
| ADLS listing (`adls_gen1_client.py`) | `_file_cache`, `_enrichment_cache` | walk, cache, estimate | a walk is not atomic, a cached walk is old | what it leaves out is younger than what it has |
| Delta log reader (`delta_lake.py`) | none | list versions, read commits, latest metadata, probe, schema | log cleanup, errors read as absence | a token in the log is found |
| shutdown (`impl.py` 75-168, `connections.py` 60-171) | handlers, `_shutdown_event` | cancel all, drain | signals between two lines | every job of the process is cancelled or reported |
| quota eviction (`quota_eviction.py`) | a lock per account | list, choose victims, cancel, retry | threads and other runs evict at once | jobs of the run's models are never evicted |
| message retry (`message_retry.py`) | none | retry by message | repeats what was done | bounded; only repeats what may be repeated |
| processing_time trigger (`trigger_config.py`, `impl.py` 1301-1355) | cycle counters, one per thread | sleep, count, stop | threads share the adapter and outlive models | a model ends after its own cycles; shutdown stops all |
| schema evolution (`delta_lake.py` 66-220, `impl.py`) | none | probe, read, compare, add columns | one comparison serves every later script of the run | every commit fits the table, no script is rejected for a column |
| token lock (`_file_lock.py`, `delta_lake.py` 398-444, `custom_credential.py`) | a lock file, a cached credential per process, its tokens | load, lock, ask, retry | threads and processes; a lock belongs to an open file | one at a time in the credential, nobody waits for ever |
| script builder, SQL parsers, relations, columns, credentials | none | text and configuration | no state | not modelled |

The components meet in three places. *Shared files*: `owner.json`, `watermark.json`,
`pending.json`, `sources/` and the Delta log are read and written by every run without locks.
*ADLA*: a run asks for jobs and learns of them by polling; a newer run lists and
cancels jobs of older ones. *Threads of one run*: models of one dbt run share the
adapter object, the shutdown event and the job registry, but not a table; processes on one host share the token lock.

`PROJECT.json` lists what can go wrong at each line (`hazards`), with the properties that
would catch it.

## 2. Modules

| module | models | role |
| --- | --- | --- |
| `ScopeTable` | one table, any number of runs, the job service, the Delta log | the core |
| `OwnerRegister` | what `owner.json` promises | abstract specification |
| `OwnerClaim` | `claim_owner`, request by request | implements `OwnerRegister` |
| `Discovery` | how the models of one process find their next batches | the adapter's caches and the trigger loop |
| `JobSubmission` | the jobs of one dbt process: submission, eviction, retry, shutdown | the threads' shared registry, lock and shutdown event |
| `SourcesAudit` | `_checkpoint/sources/` over many batches | opens the one step `RecordBatch` of `ScopeTable` up |
| `SchemaEvolution` | a table's columns over several runs | what the scripts of `ScopeTable` do to the columns |
| `TokenLock` | the processes and threads that need a token | what every request below the others waits for |
| `MC...` | - | constants of the runs of the module they are named after |
| `ScopeTableProofs`, `RefreshProofs` | - | theorems about `ScopeTable`: types and incremental runs; full refreshes |
| `OwnerClaimProofs`, `DiscoveryProofs`, `JobSubmissionProofs`, `SourcesAuditProofs`, `SchemaEvolutionProofs`, `TokenLockProofs` | - | theorems about the module they are named after |

An operator or action named after a slip (`EligibleAgain`, `CycleKeepingCache`, `UnlockOnSuccess`, ...) is what the code
would be with that slip. No specification uses it; the properties are tried against it, through the `mutants` of `PROJECT.json`.

### ScopeTable

Runs are numbers, ranked by start time; what outlives a run is the shared state alone.
A run's program counter names the place between two accesses to shared state, and an action is
the code from one to the next. Two accesses share an action where nothing is decided in between: the watermark and the
Delta log are read together, and the log is read with the write of the watermark that carries its version. The owner check is a step of its own
everywhere, since a newer run may claim right after it:

| actions | code |
| --- | --- |
| `Start`, `DeleteWatermark`, `ClearPending` | start of the macro; `delete_checkpoint` on a full refresh |
| `Claim`, `ListOrphans`, `Settled`, `SettleTimeout` | `claim_table`: `claim_owner`, then `settle_orphaned_jobs` |
| `ReadTable`, `ResolvePending`, `RecordPending`, `DropPending`, `Adopt`, `RewriteWatermark` | `reconcile_checkpoint` |
| `Discover` | `discover_files` |
| `CheckBeforeBegin`, `BeginBatch`, `WritePending` | `begin_batch`: the owner, the watermark and the log, `pending.json` |
| `CheckBeforeSubmit`, `SubmitJob`, `CheckAfterSubmit`, `JobSucceeded`, `JobFailed`, `GiveUp`, `Abandon`, `AbandonedJobEnded`, `AbandonedJobUnconfirmed` | `execute` and `submit_and_wait` |
| `CheckBeforeUpdate`, `UpdateCheckpoint`, `RecordBatch`, `FinishBatch` | `update_checkpoint`: the owner, the watermark, `_record_batch`, the removal of `pending.json` |
| `Crash` | the process is gone |
| `CommitJob`, `FailJob`, `OtherCommit`, `CleanLog`, `Tick` | the services: not code of the repository |

Abstractions. A Delta version is counted from 1, and 0 is "none". `version` and `batch_id` of a
watermark move together and are one number. A batch token is the index of the batch
in `batches`, which stands for the contents of `pending.json` and of the script.
Time is the cutoff `now - safety_buffer`. The listing is perfect (`Discovery` has the real one). A batch is any prefix
of the sorted files up to the file limit, which is what some byte limit gives. Writing the watermark and the sources record is one action with two
outcomes, because nothing but the sources record is written in between. A job's
commit and its success are one step: ADLA reports success after the commit.

`Overlap` says whether a run may start while an earlier one lives. `Prompt` says whether an
earlier run that has just checked the owner goes on before the table changes hands:
with `Prompt`, no claim lands while another run is between a check and the write that the check guards. `Faults`
chooses what the environment may do, `FaultyRuns` to whom. The fault `fullPage` is a first page of 100 jobs, all that
`settle_orphaned_jobs` asks for (`connections.py:383`), that leaves an orphan out (`Listed`).

### OwnerRegister and OwnerClaim

An upload of the storage SDK is a create and a flush. `OwnerClaim` has both, the conditions on
the ETag, the attempts, the retry after a lost answer, and death between the two.
`OwnerRegister` is the contract: displace an earlier run (the record becomes
unreadable), then take the register. `ScopeTable` claims in one step, or stops in
between (`tornClaim`), which are the steps of the register.

### Discovery

`ScopeTable` discovers in one step, on a perfect listing. `Discovery` opens that step up and takes the
rest of the protocol as one (`JobDone`). The models of a process are threads that share `cache`
(`_file_cache`), `infos` (`_discovered_file_infos`) and `shutdown`; the arrivals of files have times of their own.

| actions | code |
| --- | --- |
| `Start` | the materialization begins; its configuration; `reset_cycle_count` of a processing_time model |
| `CacheHit`, `StartWalk`, `ListDir`, `EndWalk` | `list_files` and its parallel walk, then the filter, for each root of `_list_unprocessed` |
| `Choose`, `ChooseFromStart`, `StartTooLate`, `NothingLeft` | the rest of `discover_files`, with `starting_timestamp` |
| `Begin`, `Submit`, `JobDone`, `JobFails`, `Record` | one turn of the macro's loop: `begin_batch`, the job, `update_checkpoint` |
| `Cycle`, `Wake` | `clear_file_discovery_cache`, `wait_for_next_cycle`, which counts the cycle on its thread |
| `Shutdown`, `NewProcess` | a signal; dbt is run again |
| `Tick`, `Arrive` | the world |

One pattern per root stands for the cross product. The second listing that `starting_timestamp` and
`update_checkpoint` may need is one step: it nearly always comes from the cache. Files without bytes, which `list_files` leaves out
(`adls_gen1_client.py:293`), are no files here; no property speaks of them. `cycles` is `_cycle_counts`: the count belongs to
the thread, and models that ran there before may have left theirs (`MaxCarried`); `turns` is what the model itself has gone through. `Steady` stops the clock from the first listing of a
discovery to the choice of its batch; the run `stale_listing` shows what happens without.

### JobSubmission

A thread is one model; its locals are those of `execute`, `submit_job` and `submit_and_wait`, with a program counter
between two accesses to what is shared: `jobs` (ADLA), `active` (`_active_jobs`), `cancelled` (`_cancelled_job_ids`),
the eviction lock and the shutdown event. `reported` is what the log names as not confirmed terminal.

| actions | code |
| --- | --- |
| `Submit`, `Put` | `submit_job`: the look at the shutdown event, one PUT |
| `Evict`, `ListVictims`, `CancelVictim`, `VictimsCancelled` | `retry_with_quota_eviction`, under the account's lock |
| `Register`, `PollEnded`, `PollShutdown`, `GiveUp`, `CancelOwn`, `AwaitCancel`, `Result` | `submit_and_wait` |
| `Fail`, `MayRetry`, `Resubmit` (operators) | what `execute` and `retry_on_message` make of each error, that of a PUT and of an abandoned job included |
| `Signal`, `Snapshot`, `NoteCancel`, `PostCancel`, `ShutdownDone` | `_handler` or `cancel_open`; the workers of `_cancel_active_jobs`: each notes its cancel, posts it and waits |
| `JobEnds` | ADLA |

The owner checks of `submit_and_wait` and the settlement of orphans are in `ScopeTable`; a superseded run gives up its
job here as on a timeout. Jobs of other users are in the queue from the start, and the order by priority and age is open: any
of them may be chosen.

`Nameless` are the threads that run a statement of no model (a hook, the first statement of a connection): `submit_job` gives their jobs no `related.runId`
(`connections.py:286`), so that only the registry tells `is_self_job` that they are the run's own. `Retryable` are the errors that the retry rules match. The run has what all
built-in rules match (`message_retry.py:53-69`), a job that failed in ADLA; a user's rule may match any other, such as the adapter's own "timed out" or "not confirmed", and then
`execute` repeats all of `submit_and_wait`.

A shutdown with `cancel_jobs_on_shutdown: false` sets the event and no more: `Signal` goes straight to "done". Otherwise the handler waits for all workers at once, for
`wait_on_cancel_seconds` and a grace of 5 s, and then starts no further one: `ShutdownDone` may leave jobs in `todo` (that there are 32 workers at most is one way to get there), in `posting`, whose workers go on
by themselves, and in `waiting`. A worker skips a job whose end is confirmed; a cancel of such a job has no effect, so `PostCancel` does not tell the two apart.
There is one shutdown per process. The atexit hook, which would be the next, runs when the threads are gone; they leave the registry in a `finally`, and it finds nothing to cancel.

### SourcesAudit

`files` is the directory; a file holds the items it lists, one per batch, and which of them it lists twice. Retention sorts snapshots by
name: `NameOrder` gives the rank of each name, and the run gives it that of decimal strings, in which "10.parquet" precedes "2.parquet". The
conversions to JSONL and Parquet are left out.

| actions | code |
| --- | --- |
| `WriteWatermark` | `_record_batch` up to the watermark: the batch has its number |
| `CreateFile`, `FlushFile` | the two requests of an upload of `write_batch_sources`, diff or snapshot; a snapshot reads its history before the first |
| `WriteFails` | a request fails, or its answer is lost; the operation is retried or the run ends |
| `Cleanup` | `cleanup_sources`, which may fail to delete any of its victims |
| `Refresh` | `delete_all_sources` of a full refresh, which passes over what it cannot delete; a refresh after a run that died in mid-upload comes after `WriteFails`, which is that death |

`hidden` remembers that a fault which the code only logs has taken items out of the snapshots to come; the properties about
history are asked while it has not. What such a fault does is in section 4.

### SchemaEvolution

A run compares its declaration with the table once (`Compare`), before its first batch. The script of every batch, and of every
resubmission, carries the result; a job of a run that has died still carries that of an older model.

| actions | code |
| --- | --- |
| `Start`, `Settle`, `Discover` | the macro up to the first batch: the declaration, `settle_orphaned_jobs`, `discover_files` |
| `Compare` | `compute_schema_evolution`: probe, `get_schema`, `diff_schema_for_evolution`, and what it raises |
| `Submit`, `JobSucceeded`, `JobFailed`, `GiveUp` | the script and its job, its resubmission, the death of the run |
| `CommitJob`, `RejectJob`, `FailJob` | the engine: `CREATE TABLE IF NOT EXISTS`, `ADD COLUMN IF NOT EXISTS`, `INSERT`, in one commit |
| `Migrate` | the table's owner changes it by hand, when nothing runs on it |

Any error of the probe reads as "no table" (`delta_lake.py:750`): such a run is `blind`, and the properties except its jobs.

### TokenLock

| actions | code |
| --- | --- |
| `Load` | `load_custom_credential`, whose cache the threads of a process share; the scope of the service to be called, ADLA or the storage |
| `Open`, `Lock`, `LockTimesOut` | `FileLock.__enter__`, with the deadline that only Windows has |
| `UseCache`, `Walk` | the wrapped credential: the token it has for the scope, or its chain, which may end in a question to the user |
| `Expire` | a token in the credential's cache comes to its end, at any moment |
| `Unlock`, `Wake` | `FileLock.__exit__`, then what `get_token` makes of the attempt: a result, or a sleep and another one |
| `Crash` | the process is gone; the system closes its files |

A lock belongs to an open file and not to a thread: a file that is opened again through the same object drops the first one's lock. So it
matters that the code makes an object per attempt. Each `ScopeConnectionHandle` keeps the last ADLA token in front of all this (`connections.py:702-710`): a thread that finds
it there makes no request, and is not in the model.

## 3. Runs

| run | asks | bounds | result |
| --- | --- | --- | --- |
| `recovery` | a faulty run, then a sound one that may start at any time | 3 files, 2 per batch, 5 batches, 1 resubmission, `Prompt` | all eight properties hold, 181 270 states |
| `overlap` | two faulty runs in every order, with other commits and a full page of jobs | 3 files, 1 per batch, 6 batches | nothing is lost, 3 019 771 states |
| `refresh` | a refresh after a refresh that died | 3 files, 2 per batch, 6 batches, one run after the other | nothing lost or doubled, 275 520 states |
| `refresh_takeover` | is a refresh of a table that is in use safe? | no faults | no: finding 1 |
| `discovery` | does a model find everything, in each trigger mode? | 3 files, 3 directories, 2 roots, 2 processes, 5 moments, `Steady`, 1 carried cycle | all six properties hold, 348 952 states |
| `stale_listing` | is a listing that takes time safe? | one run, no faults | no: finding 2 |
| `shared_cache` | do models on two threads leave each other alone? | no faults | no: finding 3 |
| `job_submission` | a thread of a model and one of none, one job of another user, a shutdown at any moment | queue of 2, 1 victim, 2 attempts, 1 resubmission of failed jobs, all faults | all five properties hold, 1 129 076 states |
| `owner_claim` | three claimants at once | 2 attempts, 1 retry | all five properties hold, 181 013 states |
| `sources_audit` | what can still be read after many batches? | 14 batches, a snapshot every 2, 5 files kept, 1 refresh, 2 faults | all five properties hold, 213 406 states |
| `schema_evolution` | is one comparison per run enough? | 3 runs, 2 columns, 4 spellings of types, 3 jobs, 1 change by hand, all faults | all three properties hold, 2 029 677 states |
| `token_lock` | three threads of two processes ask at once | 2 scopes, 1 retry, lock timeouts, deaths, tokens that expire | all five properties hold, 234 497 states |

Properties of `ScopeTable`:

- `NoLoss`: the watermark never passes a file that is not in the table.
- `NoDuplicate`: no two commits whose rows are in the table read the same file.
- `CommitsAccountedFor`: every commit is covered by the watermark or is the batch of a
  `pending.json` that recovery will accept: the reason why recovery works.
- `WatermarkAdvances`: a batch is recorded once, and recording moves forward.
- `DoneMeansIngested`: a run that ends normally has left no eligible file.
- `RunsEnd`, `LastRunIngests`: no wait is endless; a sound run ingests everything.

Of `Discovery`:

- `NoneSkipped`: what the watermark has passed is in the table, from the starting timestamp on.
- `IngestedOnce`: no job is submitted for a file that is in the table, across processes.
- `EveryFileIngested`: a file that is old enough is ingested, unless the model ends first, which a
  processing_time model without `max_cycles` does only on failure or shutdown.
- `ModelsEnd`: available_now, `max_cycles` and a shutdown end a model.
- `EndsAfterItsCycles`: a model that ends by itself has gone through `max_cycles` cycles of its own, whatever the models
  before it left on its thread.
- `BeginsWhatItDiscovered`: what a model has discovered it can begin (violated by `shared_cache`).

Of `JobSubmission`:

- `OwnCancelsNoted`: when a model's job is being cancelled, this process has noted that it asked for that. Eviction notes nothing, and cancels from a list that is old by then;
  so it has never hit such a job, not even one that is in ADLA and not yet in the registry, and no thread takes a cancel for an outsider's and resubmits.
- `OneLiveJob`: while a job of a thread may still commit, its script is not submitted again, if no retry rule matches the error of such a job (`SafeRules`).
- `NothingLeftRunning`: when its thread and the shutdown are over, a job has ended, or the log says that it may still
  commit, or ADLA's answer to its PUT was lost.
- `ShutdownEnds`: a shutdown ends every thread and the handler, without a job timeout: jobs in flight are cancelled and not waited for (README.md:480 says otherwise, section 4).

Of `OwnerClaim`:

- `DisplacesEarlierOnly`: a claim replaces the record of an earlier run, or an unreadable one.
- `LatestRunOwns`: once the claim of the run that started last has returned, that run owns the table, unless it died or ran out of attempts.
- `ClaimsReturn`: conflicts do not keep a claimant going for ever.
- `ImplementsRegister`: the two requests of each claim are steps of `OwnerRegister`.

Of `SourcesAudit`:

- `BatchesReadable`: `read_batch_source` finds a batch until retention deletes the file it was written to, whatever fails.
- `HistoryComplete`: the newest snapshot and the diffs since list every batch since the last refresh, as long as retention has room
  for every snapshot and for the longest stretch to the next one, which each fault may lengthen by an interval (`Roomy`).
- `CountedOnce`: no snapshot lists a batch twice.
- `Bounded`: the directory outgrows its limit by the file just written, and by one per fault.

Of `SchemaEvolution`: `CommitsFit` (at its commit no batch leaves out a column of the table, or writes one under another type) and
`NoneRejected` (no job fails because a column is missing).

Of `TokenLock`:

- `MutualExclusion`: no two threads, of one process or two, are in the wrapped credential.
- `HeldOnlyInside`: the lock is not held by a thread that sleeps between attempts, has returned or has died.
- `OneSignIn`: no thread walks the chain while a credential of its process has a valid token for the scope it wants: of threads that need one at once, one walks, and the
  next walk is due to a failure or to the end of the token. It takes both the one credential per process and the lock. This is about `authentication: token_credential`; the
  Azure CLI credential shares a cache on disk.
- `RequestsEnd`: who asks for a token gets it or an error, if the wrapped credential always returns, which nothing makes a user's class do.

Each property has a mutant in `PROJECT.json`: a definition changed the way a slip in the
code would change it (a missing wait for orphans, a batch that is not sorted, a
token that is not looked for, a lock kept through a sleep), which violates the property in the same run.

*Why the bounds are enough.* In `ScopeTable`, two runs are enough for a takeover and for a recovery; recovery of a
recovery, or a refresh between two incremental runs, needs a third run, which the theorems cover. Three files in batches of one or two give a
first, a middle and a last batch, and a gap between ingested files. Batches beyond those the files need appear only when files are
ingested again; where `MaxBatches` cuts a behaviour off, a run waits in `writePending`, which in `recovery` is never
reached without being able to go on (`RunsEnd` would fail).

In `Discovery`, three files in three directories under two roots are the least that has a directory listed before, and one listed after,
an arrival, both inside a root and across roots; five moments let a file be too young, eligible and passed. One cycle carried over
is enough to end a model of two cycles early. Several models at once are in the theorems.

In `JobSubmission`, a queue of two with one job of somebody else makes one thread's job fill the queue for the other: who
evicts, who finds only jobs of its own, and whose job is listed before it is registered are all reached, and the one
resubmission starts over with all of that. One thread without a model is enough for a job of the run that eviction may hit. With
`Retryable = {"failedJob", "refused", "unknown"}` TLC finds the three invariants to hold as well (7 386 636 states, too many for a run kept here).

In `SourcesAudit`, batch 10 is the first whose name sorts before that of an earlier one ("10.parquet", "2.parquet"), and 14 batches
put three snapshots after it; with five files kept, retention reaches both diffs and snapshots, in room and out of it. Two faults are a torn snapshot
and its failed retry.

In `SchemaEvolution`, the third run meets a table that two models have shaped, and a job the second left behind. A value column may be declared
in two spellings of one type, as another type, as a type the adapter does not know, or not at all; a column more would only do the same again.

In `TokenLock`, three threads in two processes are the least that has one waiting in each process while a third holds the lock. Two scopes keep a thread that finds a token
apart from one of the same process that does not; one retry has a thread sleep and come back.

*Fairness.* `FairSpec` says that a process executes its next step, that ADLA ends every job and that
the clock moves. The code's waits have deadlines (`settle_orphaned_jobs`,
`submit_and_wait`, `cancel_job`) and its retries budgets; ADLA has no job that never ends. Crashes, other
engines and log cleanup are not fair: they may never happen. In `JobSubmission` only a job that was asked to cancel must
end, and no thread is assumed to give up by itself: a shutdown may not rely on the job timeout. In `TokenLock` a thread takes its next step, the
requests of the credential having time limits of their own; neither a crash nor the end of a token nor the timeout of the lock is assumed, so that `RequestsEnd` rests on the lock being given back.

## 4. Findings

Three disagreements between the code and what the repository says of it have a run that shows them:

1. **refresh_takeover** (`incremental.sql:76-86`). A full refresh deletes the checkpoint before it claims the
   table. A run that is still alive may write the watermark in between; the refresh then starts
   from that watermark and deletes all rows. README.md:64 says the adapter starts fresh.
2. **stale_listing** (`adls_gen1_client.py:251-256`, `file_tracker.py:70`). The listing is cached for the run and its directories are
   listed one after the other; the cutoff is taken anew for every root and batch. A file that arrives where the walk has been is not
   in the cache, a younger one where the walk has yet to go is, and the watermark passes both. The safety buffer covers a walk
   shorter than itself only for the first batch: while jobs run, the cutoff overtakes the gap. README.md:426, `incremental.sql:182`.
3. **shared_cache** (`impl.py:1219-1220`). A processing_time model that finds nothing clears the dictionary in which another model's
   thread has just entered its batch; `begin_batch` of that model fails. README.md:428.

The others are limits of the properties above, with the change of a constant or of the property that shows them:

| where | what happens | how to see it |
| --- | --- | --- |
| `connections.py:591-608` | The owner is read, the job submitted, the owner read again. A newer run that claims and lists orphans between the first read and the PUT does not see the job, which may commit before its own run cancels it; README.md:82 says that cannot happen. Files are ingested twice, none is lost. | `Recovery.cfg` with `Prompt = FALSE`: `NoDuplicate` |
| `impl.py:861-926` | A run that is superseded right after its owner check writes the watermark it computed over that of the newer run, which goes back; README.md:82. None is lost. | `Recovery.cfg` with `Prompt = FALSE`: `WatermarkAdvances` |
| `connections.py:383` | The first page of jobs leaves an orphan out, with the same effect. | `Recovery.cfg` with the faults `crash` and `fullPage`, `FaultyRuns <- AllRuns`: `NoDuplicate` |
| `incremental.sql:76-78` | A full refresh that dies before its first commit leaves the rows and no checkpoint; the next incremental run appends every file again. README.md:34. | `Refresh.cfg` with three runs, incremental ones among them, and the fault `crash`: `NoDuplicate` |
| `checkpoint.py:390-393` | Every failure to delete the watermark is taken for a missing file: the refresh goes on from the old watermark and loses the files before it. README.md:334. | `Refresh.cfg` with `Faults = {"deleteWatermark"}`, `FaultyRuns <- AllRuns`: `NoLoss` |
| `file_tracker.py:80` | A batch that ends between two files of one modification time loses the second. README.md:147. | `Recovery.cfg` with `MTime <- TiedTimes`, one file per batch: `NoLoss` |
| `adls_gen1_client.py:162` | A directory that fails to list is passed over with a warning; the watermark passes its files. No document promises otherwise. | `Discovery.cfg` with the fault `listFails`: `NoneSkipped` |
| `impl.py:1218` | The cycle of one model clears the listings between another model's look at a root from the cache and its walk of the next: the two roots are of different age, and the watermark passes a file of the first. | `SharedCache.cfg` with the invariant `NoneSkipped` |
| `connections.py:274`, `quota_eviction.py:153` | `submit_job` looks at the shutdown event before its eviction loop and not in it, so a job may be put long after a shutdown; README.md:517 says that no new jobs start. Its own thread cancels it as soon as it is registered (`NothingLeftRunning`). | the steps `Signal`, `Evict`, `Put` of `JobSubmission` |
| `checkpoint.py:781` | A snapshot whose upload dies after its first request leaves an empty file of the highest number: later snapshots take it for the history. A retry of the same snapshot reads the torn file as its own history. README.md:61-62. | `SourcesAudit.cfg`, `HistoryComplete` without its exception `hidden` |
| `checkpoint.py:814-835` | Retention deletes diffs before snapshots: once the snapshots alone fill it, each new diff is deleted as soon as it is written, and no later snapshot lists its batch. Snapshots sort by name, so "10.parquet" is deleted before "2.parquet". README.md:61-62 says that the oldest go first and that a snapshot contains all history. | `SourcesAudit.cfg`, `HistoryComplete` without its exception `Roomy` |
| `checkpoint.py:843-860` | A snapshot that a refresh fails to delete hides the diffs of the new history until the numbers pass it. | the same, without `hidden` |
| `connections.py:609-618`, `connections.py:790-792` | A signal makes every poll loop cancel its own job and fail its model; no checkpoint is written. README.md:480 says of processing_time that the adapter "finishes the current SCOPE job, updates the checkpoint, then exits", and README.md:488 the opposite. With `cancel_jobs_on_shutdown: false`, with which README.md:492 would "let jobs run to completion", the handler's workers alone are left out: the loops cancel all the same, and so does dbt's `cancel_open`. | `ShutdownEnds` holds; its mutant is the loop that polls on |
| `connections.py:656-660`, `connections.py:165-168` | A cancel that fails, or is not confirmed in time, leaves a job that may commit; it is logged. README.md:517 says that a job given up "cannot commit after the run stops tracking it". | `JobSubmission.cfg`, `NothingLeftRunning` without its exception `reported` |
| `connections.py:286`, `quota_eviction.py:195` | The job of a statement without a model carries no run id. Between its PUT and its registration another thread of the run may choose it as a victim. README.md:261-264 and the comment at `quota_eviction.py:195` say that no job of the current run is evicted. | `JobSubmission.cfg`, `OwnCancelsNoted` with `Own` for `Named` |
| `connections.py:857-874` | `job_retry` covers all of `submit_and_wait`: a user's rule that matches "not confirmed", or the error of a PUT without an answer, resubmits a script whose job may still commit. | `JobSubmission.cfg` with `Retryable = {"unconfirmed"}`, or `{"unanswered"}`: `OneLiveJob` |
| `incremental.sql:115` | The schema is compared once per run; README.md:395 says "Before building each SCOPE script". A change of the table by hand in mid-run is not seen. | `SchemaEvolution` lets such a change happen only between runs |
| `checkpoint.py:525-532` | An unreadable record is anybody's to replace: if the latest run died in the middle of its claim, an earlier one takes the table over. `checkpoint.py:220-221` says "never the reverse". | `OwnerClaim.cfg`, `DisplacesEarlierOnly` without its exception for an unreadable record |
| `delta_lake.py:750` | A probe that fails reads as "no table": the run adds no columns, so a job may be rejected, or write a column under another type. | the steps of a `blind` run in `SchemaEvolution` |

## 5. Proofs

The theorems hold for every value of the constants that the named `ASSUME`s of the modules allow (TLC evaluates those in the runs). What a theorem
assumes beyond them is a definition of its own and stands in its statement.

| module | theorems | assuming |
| --- | --- | --- |
| `ScopeTableProofs` | `TypeCorrect` | |
| | `NothingIsLost`, `DoneRunsLeaveNothing` | `OnlyIncremental`, `DistinctMTimes` |
| | `NothingIsIngestedTwice`, `UnrecordedCommitsAreFound`, `CheckpointAdvances` | `OnlyIncremental`, `Undisturbed`, `OrphansListed` |
| `RefreshProofs` | `NothingIsLostInRefresh`, `DoneRefreshesLeaveNothing`, `CheckpointStartsAgainOrAdvances` | `OneAtATime`, `DistinctMTimes` |
| | `RebuiltTableHoldsNothingTwice` | `OneAtATime`, `OnlyFull`, `DistinctMTimes` |
| `OwnerClaimProofs` | `ClaimTypeCorrect`, `ClaimsDisplaceEarlierOnly`, `LastStartedOwns`, `ClaimImplementsRegister` | |
| `DiscoveryProofs` | `DiscoveryTypeCorrect` | |
| | `CyclesEndTheModel` | `CyclesAreTimed` |
| | `WatermarkSkipsNothing`, `FilesAreTakenOnce`, `DiscoveredIsBegun` | `Steady`, no `listFails`, and `OneModel` or `NoCycles` |
| `JobSubmissionProofs` | `JobTypeCorrect`, `OwnJobsCancelledKnowingly`, `JobsAreAccountedFor` | |
| | `ScriptRunsOnce` | `SafeRules` |
| `SourcesAuditProofs` | `AuditTypeCorrect`, `RecordedBatchesReadable`, `EveryBatchCountedOnce`, `DirectoryBounded`, `SnapshotsHoldAllHistory` | |
| `SchemaEvolutionProofs` | `SchemaTypeCorrect`, `ComparisonSuffices`, `EveryCommitFits` | |
| `TokenLockProofs` | `TokenTypeCorrect`, `LockExcludes`, `NobodySleepsWithTheLock`, `OneSignInEach` | |

`CyclesAreTimed` says that only a processing_time model is configured with `max_cycles`. `OneAtATime` is three assumptions: runs do not overlap
(their jobs may outlive them), the job list shows every orphan, and a refresh does delete `watermark.json`. The other assumptions exclude cases of section 4: each of them, left out, has
a behaviour in which the property fails, with one exception: `CheckpointStartsAgainOrAdvances` takes `DistinctMTimes` over from `RefreshInv`, on which its proof
rests, and TLC finds no step that sets the watermark back when two files have the same time (but does at once without either of the last two parts of `OneAtATime`).

*Types of `ScopeTable`.* `TypeOK` is not inductive: a job or a
log entry could name a batch that was never begun, and `compute_new_watermark` of an empty batch has no
newest file. `TypeInv` adds that jobs run batches that exist and that a run past
discovery has a batch in hand with files in it.

*No loss.* `NoLossInv`: the watermark, and every copy of it that a run holds, covers only ingested files; every batch ever
begun is *closed*, that is, whatever is older than one of its files is in it or already ingested; a job that succeeded
is in the log; a run records only a batch whose commit it knows to be in the log. Since the log only grows, a stale copy stays sound: that is why
two runs may overwrite each other's watermark, even with an older one, and still lose nothing. A refresh replaces the rows and so breaks
"only grows": a watermark copied before it may cover files that are gone.

*No duplicates.* Here a stale copy is not sound, and the proof is about who may act. `DupInv` has three parts. `Places` says which runs may be where: only
the owner is between an owner check and what it guards. `TableOK` is about what outlives a run: at most one job is alive and it runs the pending batch; what the
watermark has not passed is that batch, started from the current watermark, and the last commit of ours in the log. `OwnerKnows` says what the owner may rely on at
each place, from "every live job is an orphan I wait for", through "nothing is alive" and "everything in the table is behind the
watermark", to "my batch is the pending one". A crash leaves `TableOK` and takes `OwnerKnows` away; a claim starts again with the first and
earns the second step by step, which is what `reconcile_checkpoint` is for.

*Full refreshes.* When runs follow one another, copies are not stale, and `RefreshInv` can speak of the table as it is. `StoreOK`, which outlives a run, has three
parts. `LiveSound`: at most one job is alive, it has no commit yet, and one that deletes all rows is alive only while there is no watermark that its commit could falsify.
`PendingSound`: the pending batch leaves no older file behind that is not in the table, or none at all if it deletes the table first; and if it is in the log no later
commit has deleted it. `WatermarkSound`: the watermark covers only files in the table, and neither its Delta version nor the time it was written is
followed by a commit that deletes. The last part is what makes adoption safe: `_legacy_baseline` never reaches back behind a refresh, whose predecessors' commits name files
that are gone. `Expects` says what a run relies on at each place: a refresh finds neither watermark nor pending batch from its deletions to its first
`begin_batch`, and each of its later batches extends what its first one left. Nothing is lost in runs of both kinds; but a refresh that died leaves rows without a
checkpoint, and an incremental run after it ingests them again (section 4), so `RebuiltTableHoldsNothingTwice` is about tables that only refreshes write.
`OnceInv` adds to `RefreshInv` that whatever is in the table has been passed by the watermark, is the pending batch's, or is about to be deleted by it: the job of
an earlier run cannot add to what a first batch leaves, since it is cancelled or has committed before that batch begins.
`OnwardInv` is why the checkpoint of runs of both kinds never goes back. Of the commits that can still be read, every one after either baseline that reconciliation may use
(the watermark's Delta version, or the time it was written) has been passed by the watermark or is the pending batch's. So settling finds at most the pending batch, which it records
one batch on; after it `_adopt_uncheckpointed_commits` has nothing to adopt, and `rewrite`, the one place that could write an older position back, is not reached.
The pending batch continues the watermark, or lies behind it because it was recorded and not cleared, or has lost its watermark to a refresh. The invariant was checked first by TLC, on
three runs of mixed modes with every fault the theorem allows.

*Claims.* `ClaimInv`: an ETag that is still current means that the content read with it is still there, and a claimant that is about to
flush on a current ETag finds the record it made unreadable itself. So nobody writes over the record of the latest run, and no step takes
its ownership away.

*Discovery.* `DiscoveryInv`: there is a moment at which everything in the cache was listed, root by root in order, and until all roots are
the clock stands still; what a model has found is what was there at that moment, old enough, after its watermark; a batch of it leaves no
older file out; and no two files that arrived did so at the same time. The clearing of the cache by another model's cycle is what breaks the one moment.
`CyclesEndTheModel` rests on `Counted`: the thread's counter equals the cycles the model went through, from its reset on.

*Jobs.* `JobInv`: a live job of the process is in the hands of its thread, or somebody noted its cancel, or ADLA never answered its PUT; in the last two cases its thread is over, if
the retry rules are safe, so that no second job follows it. Who notes a cancel waits for the end or reports. `VictimsListed` is why eviction hits no model's job unnoticed: victims are chosen
in one step and cancelled in later ones, and what was chosen is not a model's job of this run and cannot become one.

*Audit trail.* Four invariants, each on top of the one before. `AuditInv`: the number of a file says whether it is a diff or a snapshot, and an acknowledged
batch is in the file it was written to unless retention deleted that. `Clean`: a file lists batches up to its own number, a diff only its own, and a compaction does not
find a snapshot of its own batch; so the files that a snapshot reads have nothing in common. `Fits` counts the files: the rank of a file in the order of deletion is
an injection, so as many survive as retention allows, whatever that order is among the snapshots. `Reach`: the batch in hand is within an interval of the newest snapshot, and
one more for each fault; while there is room for every snapshot and for such a stretch, a victim of retention is a diff that the newest snapshot has made
superfluous: otherwise everything left would be snapshots, or snapshots and newer diffs, and there are fewer of those than retention keeps. (`Roomy` is tight: with one file
less, an interval of 1, or a directory without a snapshot yet, TLC finds a diff that is deleted too early.)

*Columns.* `SchemaInv`: runs follow one another and one job is alive at a time; whatever happened since a run compared, the table is what it was then or what a
job with the same additions made of it. So every later script of the run fits, and so does the one it leaves behind.

*Token.* `LockInv` ties a worker's place to its open file and the file to the lock, a process to one credential, and a walk to a token that is not in the cache (`WalksForNew`). A
thread decides to walk when the cache has no token and holds the lock until it has walked; another could fill the cache in between only from inside the lock.

Model-checked only: everything temporal with fairness (`RunsEnd`, `LastRunIngests`, `EveryFileIngested`, `ModelsEnd`, `ShutdownEnds`,
`ClaimsReturn`, `RequestsEnd`), which is out of the prover's reach. Every invariant and every action property that a run checks is stated by a theorem, under the
assumptions above.

## 6. Not modelled, and the plan

Next, in this order:

1. `CommitsAccountedFor` with full refreshes. As it stands it is false there: between the deletion of the checkpoint and the commit of the first batch
   the table has rows that neither a watermark nor `pending.json` accounts for, and if the refresh dies there they stay (section 4). What should hold, and is not
   yet stated, is its form with "or there is no watermark".
2. In `JobSubmission`: eviction by several threads that hit the quota together, each of which evicts a full set of victims (`quota_eviction.py:166`): more than are needed, but
   none of a model of this run; and a second signal while the first is handled.

Not modelled: the loop caps of the macros (1000 and 99999 turns, each of which ends a model that a next run continues); `cancel_orphaned_jobs`, a best-effort
cancel before the claim that `settle_orphaned_jobs` makes unnecessary; a change of the columns by hand while a run is at work (`SchemaEvolution` lets it happen
only between runs, and a commit of another engine in between is beyond what the one comparison can see).

Left out for good, as text or configuration without state: the script builder, of which the adapter uses only the `ScopeConfig` record (the script that
runs is the macro's), SQL parsing, credentials, relations and columns, the parsing of the Delta log and DuckDB queries; and byte estimates, which only
shorten a batch.
