--------------------------- MODULE JobSubmission ---------------------------
(***************************************************************************)
(* The ADLA jobs of one dbt process: threads that submit a job and wait    *)
(* for it, the eviction of other people's jobs when the queue is full, the *)
(* resubmission of jobs that failed, and the shutdown that cancels what is *)
(* in flight.  The threads share the registry of active jobs, the set of   *)
(* jobs this process cancelled, the shutdown event and the eviction lock.  *)
(*                                                                         *)
(* The owner checks of submit_and_wait are in ScopeTable; here a run that  *)
(* is superseded gives up its job, as it does on a timeout.                *)
(***************************************************************************)
EXTENDS Integers, Sequences, FiniteSets

CONSTANTS
    Threads,
    Nameless,        \* threads that run a statement of no model, such as a hook
    QueueLimit,      \* jobs that may be queued in the ADLA workspace
    CancelNum,       \* quota_eviction_cancel_num
    MaxAttempts,     \* quota_eviction_max_attempts
    MaxRetries,      \* job_retry_max_attempts - 1
    Retryable,       \* the errors that the job retry rules match
    Faults,          \* what the services may do
    MaxForeign       \* bound: jobs of other users, in the queue from the start

ASSUME LimitsAssumption ==
    /\ QueueLimit \in Nat \ {0} /\ CancelNum \in Nat \ {0} /\ MaxAttempts \in Nat \ {0}
    /\ MaxRetries \in Nat /\ MaxForeign \in Nat
ASSUME FaultsAssumption ==
    Faults \subseteq {"putFails", "putLost", "jobFails", "giveUp",
                      "listFails", "cancelFails", "cancelTimesOut"}

Foreign == "foreign"
Free == "free"
ASSUME ThreadsAssumption ==
    Foreign \notin Threads /\ Free \notin Threads /\ Nameless \subseteq Threads

(* What execute sees when it gets no result: the PUT was refused, or not    *)
(* answered; the job failed; the run gave it up, and it was seen to end, or *)
(* not, or nobody knows how it ended.                                       *)
Errors == {"refused", "unanswered", "failedJob", "gaveUp", "unconfirmed", "unknown"}
ASSUME RetryableAssumption == Retryable \subseteq Errors

VARIABLES
    jobs,         \* every job so far; the service's state
    active,       \* _active_jobs
    cancelled,    \* _cancelled_job_ids
    reported,     \* jobs logged as not confirmed terminal
    lock,         \* the eviction lock of the account
    shutdown,     \* _shutdown_event
    handler,      \* the shutdown handler and its cancel workers
    thread        \* the locals of execute, submit_job and submit_and_wait

vars == <<jobs, active, cancelled, reported, lock, shutdown, handler, thread>>
registry == <<active, cancelled, reported>>

PCs == {"submit", "put", "evict", "list", "cancelVictims", "register", "poll",
        "result", "cancelOwn", "awaitCancel", "succeeded", "failed"}
Over == {"succeeded", "failed"}
Job == [by : Threads \cup {Foreign}, answered : BOOLEAN,
        state : {"queued", "cancelling", "ended"}, succeeded : BOOLEAN]
Locals == [pc : PCs, job : Nat, attempt : 1..MaxAttempts, retries : 0..MaxRetries,
           victims : SUBSET Nat, evicted : BOOLEAN, gaveUp : BOOLEAN]
HandlerState == [pc : {"idle", "snapshot", "cancelling", "done"}, todo : SUBSET Nat,
                 posting : SUBSET Nat, waiting : SUBSET Nat]

At(t, label) == thread[t].pc = label
Goto(t, label) == thread' = [thread EXCEPT ![t].pc = label]

Live == {j \in DOMAIN jobs : jobs[j].state # "ended"}
Own(j) == jobs[j].by \in Threads
QueueFull == Cardinality(Live) >= QueueLimit
NewJob(by, answered) ==
    [by |-> by, answered |-> answered, state |-> "queued", succeeded |-> FALSE]

(* CancelJob: a request, which a job that has ended ignores. *)
AskedToCancel(j) ==
    [jobs EXCEPT ![j].state = IF @ = "queued" THEN "cancelling" ELSE @]

(* The thread leaves execute, and its locals go out of scope. *)
Leave(t, label) ==
    /\ thread' = [thread EXCEPT ![t].pc = label, ![t].job = 0, ![t].attempt = 1,
                                ![t].retries = 0, ![t].evicted = FALSE,
                                ![t].gaveUp = FALSE]
    /\ active' = active \ {thread[t].job}

(* execute runs the whole of submit_and_wait again. *)
Resubmit(t) ==
    /\ thread' = [thread EXCEPT ![t].pc = "submit", ![t].job = 0, ![t].attempt = 1,
                                ![t].evicted = FALSE, ![t].gaveUp = FALSE,
                                ![t].retries = @ + 1]
    /\ active' = active \ {thread[t].job}

(* retry_on_message: a rule matches, and the run is not aborting. *)
MayRetry(t, error) == error \in Retryable /\ thread[t].retries < MaxRetries /\ ~shutdown

(* A text that some rule may match need not match this time. *)
Fail(t, error) ==
    \/ Leave(t, "failed")
    \/ MayRetry(t, error) /\ Resubmit(t)

-----------------------------------------------------------------------------
(* submit_job, with quota eviction *)

(* The only look at the shutdown event on the way to the PUT. *)
Submit(t) ==
    /\ At(t, "submit")
    /\ Goto(t, IF shutdown THEN "failed" ELSE "put")
    /\ UNCHANGED <<jobs, registry, lock, shutdown, handler>>

Put(t) ==
    /\ At(t, "put")
    /\ \/ QueueFull /\ Goto(t, "evict") /\ UNCHANGED <<jobs, active>>
       \/ /\ ~QueueFull
          /\ jobs' = Append(jobs, NewJob(t, TRUE))
          /\ thread' = [thread EXCEPT ![t].job = Len(jobs) + 1, ![t].attempt = 1,
                                      ![t].pc = "register"]
          /\ UNCHANGED active
       \/ /\ "putFails" \in Faults
          /\ Fail(t, "refused") \/ Fail(t, "unanswered")
          /\ UNCHANGED jobs
       \/ /\ "putLost" \in Faults /\ ~QueueFull
          /\ jobs' = Append(jobs, NewJob(t, FALSE))
          /\ Fail(t, "unanswered")
    /\ UNCHANGED <<cancelled, reported, lock, shutdown, handler>>

Evict(t) ==
    /\ At(t, "evict")
    /\ lock = Free
    /\ lock' = t
    /\ Goto(t, "list")
    /\ UNCHANGED <<jobs, registry, shutdown, handler>>

(* Operators named after a slip, such as the next one, are what the code    *)
(* would be with it: the properties are tried against them.                 *)
IsSelfIfActive(j) == j \in active

(* Only the job of a model carries the run's id. *)
Named(j) == Own(j) /\ jobs[j].by \notin Nameless

(* is_self_job: in the registry, or with this run's id. *)
IsSelf(j) == j \in active \/ Named(j)

(* select_victims; the order by priority and age is left open. *)
VictimSets ==
    LET candidates == {j \in Live : ~IsSelf(j)}
    IN  {v \in SUBSET candidates :
            \/ Cardinality(v) = CancelNum
            \/ v = candidates /\ Cardinality(v) < CancelNum}

ListVictims(t) ==
    /\ At(t, "list")
    /\ \E v \in VictimSets \cup (IF "listFails" \in Faults THEN {{}} ELSE {}) :
        IF v = {}
        THEN lock' = Free /\ Fail(t, "refused")
        ELSE /\ thread' = [thread EXCEPT ![t].pc = "cancelVictims", ![t].victims = v]
             /\ UNCHANGED <<active, lock>>
    /\ UNCHANGED <<jobs, cancelled, reported, shutdown, handler>>

(* cancel_job_async: the POST alone.  Nobody notes it, nobody waits. *)
CancelVictim(t) ==
    /\ At(t, "cancelVictims")
    /\ \E j \in thread[t].victims :
        \/ /\ jobs' = AskedToCancel(j)
           /\ thread' = [thread EXCEPT ![t].victims = @ \ {j}, ![t].evicted = TRUE]
        \/ /\ "cancelFails" \in Faults
           /\ thread' = [thread EXCEPT ![t].victims = @ \ {j}]
           /\ UNCHANGED jobs
    /\ UNCHANGED <<registry, lock, shutdown, handler>>

PutsAgainOnceMore(t) == thread[t].evicted /\ thread[t].attempt <= MaxAttempts

(* The last attempt evicts too, and then fails. *)
PutsAgain(t) == thread[t].evicted /\ thread[t].attempt < MaxAttempts

VictimsCancelled(t) ==
    /\ At(t, "cancelVictims")
    /\ thread[t].victims = {}
    /\ lock' = Free
    /\ IF PutsAgain(t)
       THEN /\ thread' = [thread EXCEPT ![t].pc = "put", ![t].attempt = @ + 1,
                                        ![t].evicted = FALSE]
            /\ UNCHANGED active
       ELSE Fail(t, "refused")
    /\ UNCHANGED <<jobs, cancelled, reported, shutdown, handler>>

-----------------------------------------------------------------------------
(* submit_and_wait *)

Register(t) ==
    /\ At(t, "register")
    /\ active' = active \cup {thread[t].job}
    /\ Goto(t, "poll")
    /\ UNCHANGED <<jobs, cancelled, reported, lock, shutdown, handler>>

PollEnded(t) ==
    /\ At(t, "poll")
    /\ jobs[thread[t].job].state = "ended"
    /\ Goto(t, "result")
    /\ UNCHANGED <<jobs, registry, lock, shutdown, handler>>

(* A shutdown is noticed before the job is polled again; a job that some   *)
(* cancel of this process has taken on is left to it.                      *)
StopWaiting(t, gaveUp) ==
    IF thread[t].job \in cancelled
    THEN Leave(t, "failed")
    ELSE /\ thread' = [thread EXCEPT ![t].pc = "cancelOwn", ![t].gaveUp = gaveUp]
         /\ UNCHANGED active

PollsOn(t) == FALSE

PollShutdown(t) ==
    /\ At(t, "poll")
    /\ shutdown
    /\ StopWaiting(t, FALSE)
    /\ UNCHANGED <<jobs, cancelled, reported, lock, shutdown, handler>>

(* Timeout, poll failures, or superseded. *)
GiveUp(t) ==
    /\ At(t, "poll")
    /\ "giveUp" \in Faults
    /\ StopWaiting(t, TRUE)
    /\ UNCHANGED <<jobs, cancelled, reported, lock, shutdown, handler>>

UnconfirmedSilently(t) ==
    Leave(t, "failed") /\ UNCHANGED reported

UnconfirmedRetried(t) ==
    /\ reported' = reported \cup {thread[t].job}
    /\ thread[t].retries < MaxRetries
    /\ Resubmit(t)

(* The job may still commit, and is logged. *)
Unconfirmed(t) ==
    /\ reported' = reported \cup {thread[t].job}
    /\ Fail(t, "unconfirmed")

(* The job has ended; only a run that gave it up by itself asks how, and    *)
(* that question may fail too.                                              *)
Confirmed(t) ==
    /\ \/ thread[t].gaveUp /\ jobs[thread[t].job].succeeded /\ Leave(t, "succeeded")
       \/ thread[t].gaveUp /\ ~jobs[thread[t].job].succeeded /\ Fail(t, "gaveUp")
       \/ thread[t].gaveUp /\ "giveUp" \in Faults /\ Fail(t, "unknown")
       \/ ~thread[t].gaveUp /\ Leave(t, "failed")
    /\ UNCHANGED reported

CancelOwn(t) ==
    /\ At(t, "cancelOwn")
    /\ cancelled' = cancelled \cup {thread[t].job}
    /\ \/ /\ jobs' = AskedToCancel(thread[t].job)
          /\ Goto(t, "awaitCancel")
          /\ UNCHANGED <<active, reported>>
       \/ /\ "cancelFails" \in Faults
          /\ IF thread[t].job \in Live THEN Unconfirmed(t) ELSE Confirmed(t)
          /\ UNCHANGED jobs
    /\ UNCHANGED <<lock, shutdown, handler>>

AwaitCancel(t) ==
    /\ At(t, "awaitCancel")
    /\ \/ thread[t].job \notin Live /\ Confirmed(t)
       \/ "cancelTimesOut" \in Faults /\ Unconfirmed(t)
    /\ UNCHANGED <<jobs, cancelled, lock, shutdown, handler>>

Result(t) ==
    /\ At(t, "result")
    /\ \/ jobs[thread[t].job].succeeded /\ Leave(t, "succeeded")
       \/ ~jobs[thread[t].job].succeeded /\ Fail(t, "failedJob")
    /\ UNCHANGED <<jobs, cancelled, reported, lock, shutdown, handler>>

-----------------------------------------------------------------------------
(* Shutdown: a signal or fail-fast.  The workers of _cancel_active_jobs run *)
(* in parallel: each notes the cancel, posts it, and waits for the job.  To *)
(* post it for a job whose end is confirmed, which the code does not, has   *)
(* no effect.                                                               *)

(* A signal does no more if cancel_jobs_on_shutdown is off. *)
Signal ==
    /\ handler.pc = "idle"
    /\ shutdown' = TRUE
    /\ \E label \in {"snapshot", "done"} : handler' = [handler EXCEPT !.pc = label]
    /\ UNCHANGED <<jobs, registry, lock, thread>>

Snapshot ==
    /\ handler.pc = "snapshot"
    /\ handler' = [handler EXCEPT !.pc = "cancelling", !.todo = active]
    /\ UNCHANGED <<jobs, registry, lock, shutdown, thread>>

NoteCancel(j) ==
    /\ j \in handler.todo
    /\ cancelled' = cancelled \cup {j}
    /\ handler' = [handler EXCEPT !.todo = @ \ {j}, !.posting = @ \cup {j}]
    /\ UNCHANGED <<jobs, active, reported, lock, shutdown, thread>>

(* The worker may be late: the handler has given the job up by then. *)
PostCancel(j) ==
    /\ j \in handler.posting
    /\ \/ /\ jobs' = AskedToCancel(j)
          /\ handler' = [handler EXCEPT !.posting = @ \ {j},
                            !.waiting = @ \cup (IF handler.pc = "done" THEN {} ELSE {j})]
          /\ UNCHANGED reported
       \/ /\ "cancelFails" \in Faults
          /\ reported' = reported \cup ({j} \cap Live)
          /\ handler' = [handler EXCEPT !.posting = @ \ {j}]
          /\ UNCHANGED jobs
    /\ UNCHANGED <<active, cancelled, lock, shutdown, thread>>

(* Every worker has its result, or the wait for all of them has run out: no *)
(* worker starts after that.  What was not seen to end is logged.  (A job   *)
(* that ended a moment ago may be as well.)                                 *)
ShutdownDone ==
    LET left == handler.todo \cup handler.posting \cup handler.waiting
    IN  /\ handler.pc = "cancelling"
        /\ \/ handler.todo \cup handler.posting \cup (handler.waiting \cap Live) = {}
           \/ "cancelTimesOut" \in Faults
        /\ reported' = reported \cup (left \cap Live)
        /\ handler' = [handler EXCEPT !.pc = "done", !.todo = {}, !.waiting = {}]
        /\ UNCHANGED <<jobs, active, cancelled, lock, shutdown, thread>>

-----------------------------------------------------------------------------
(* The service, and the other users of the account *)

JobEnds(j) ==
    /\ j \in Live
    /\ \E ok \in (IF Own(j) THEN BOOLEAN ELSE {FALSE}) :
        /\ ok \/ ~Own(j) \/ jobs[j].state = "cancelling" \/ "jobFails" \in Faults
        /\ jobs' = [jobs EXCEPT ![j].state = "ended", ![j].succeeded = ok]
    /\ UNCHANGED <<registry, lock, shutdown, handler, thread>>

-----------------------------------------------------------------------------
Init ==
    /\ jobs = [j \in 1..MaxForeign |-> NewJob(Foreign, TRUE)]
    /\ active = {} /\ cancelled = {} /\ reported = {}
    /\ lock = Free
    /\ shutdown = FALSE
    /\ handler = [pc |-> "idle", todo |-> {}, posting |-> {}, waiting |-> {}]
    /\ thread = [t \in Threads |-> [pc |-> "submit", job |-> 0, attempt |-> 1, retries |-> 0,
                                    victims |-> {}, evicted |-> FALSE, gaveUp |-> FALSE]]

Step(t) ==
    \/ Submit(t) \/ Put(t) \/ Evict(t) \/ ListVictims(t) \/ CancelVictim(t)
    \/ VictimsCancelled(t) \/ Register(t)
    \/ PollEnded(t) \/ PollShutdown(t) \/ CancelOwn(t) \/ AwaitCancel(t)
    \/ Result(t)

Handle ==
    \/ Snapshot \/ ShutdownDone
    \/ \E j \in DOMAIN jobs : NoteCancel(j) \/ PostCancel(j)

Terminated ==
    /\ \A t \in Threads : thread[t].pc \in Over
    /\ handler.pc \in {"idle", "done"}
    /\ UNCHANGED vars

Next ==
    \/ \E t \in Threads : Step(t) \/ GiveUp(t)
    \/ Signal \/ Handle
    \/ \E j \in DOMAIN jobs : JobEnds(j)
    \/ Terminated

Spec == Init /\ [][Next]_vars

CancelledJobEnds == \E j \in DOMAIN jobs : jobs[j].state = "cancelling" /\ JobEnds(j)

(* Threads and workers go on, and a job that is asked to cancel ends.  No   *)
(* other job need ever end, and no timeout is counted on.                   *)
FairSpec ==
    /\ Spec
    /\ \A t \in Threads : WF_vars(Step(t))
    /\ WF_vars(Handle) /\ WF_vars(CancelledJobEnds)

-----------------------------------------------------------------------------
(* Properties *)

TypeOK ==
    /\ jobs \in Seq(Job)
    /\ active \subseteq DOMAIN jobs
    /\ cancelled \subseteq DOMAIN jobs
    /\ reported \subseteq DOMAIN jobs
    /\ lock \in Threads \cup {Free}
    /\ shutdown \in BOOLEAN
    /\ handler \in HandlerState
    /\ thread \in [Threads -> Locals]

(* Whoever cancels a model's job of this run notes it first, so that nobody *)
(* takes the cancel for an outsider's, which the built-in retry rule        *)
(* resubmits.  Eviction notes nothing: it must miss these jobs even between *)
(* PUT and registration (README, "Self-cancel safety").  Not so the job of  *)
(* a statement without a model, which has no run id.                        *)
OwnCancelsNoted ==
    \A j \in DOMAIN jobs : Named(j) /\ jobs[j].state = "cancelling" => j \in cancelled

(* No rule matches the error of a job that may still commit. *)
SafeRules == Retryable \cap {"unanswered", "unconfirmed"} = {}

(* A model has one job at a time: while a job of it may still commit, its   *)
(* script is not submitted again.  The retry rules must be safe: those of   *)
(* the adapter match texts of ADLA alone.                                   *)
OneLiveJob ==
    \A t \in Threads, i, j \in Live : jobs[i].by = t /\ jobs[j].by = t => i = j

(* A job does not outlive its thread and the shutdown unnoticed: it has     *)
(* ended, was logged as unconfirmed, or its submission was never answered.  *)
(* (That a job given up "cannot commit" is more than the code can do.)      *)
NothingLeftRunning ==
    \A j \in Live :
        Own(j) /\ handler.pc \in {"idle", "done"} /\ thread[jobs[j].by].pc \in Over
            => j \in reported \/ ~jobs[j].answered

(* A shutdown ends every thread: each poll loop "self-cancels its own SCOPE *)
(* job" and the handler all in flight (README, "Graceful shutdown of ADLA   *)
(* jobs"), so that none is waited for until it ends by itself.  The README  *)
(* on processing_time promises the reverse, that a signal lets the current  *)
(* job finish: the code does not do that, with the cancels of the handler   *)
(* switched off or on.                                                      *)
ShutdownEnds ==
    shutdown ~> handler.pc = "done" /\ \A t \in Threads : thread[t].pc \in Over
=============================================================================
