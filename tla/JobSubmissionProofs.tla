------------------------- MODULE JobSubmissionProofs -------------------------
(***************************************************************************)
(* Theorems about JobSubmission, for any number of threads, any limits of  *)
(* the queue, of eviction and of retries, and whatever the services do.    *)
(***************************************************************************)
EXTENDS JobSubmission, TLAPS

(* A thread that is past its PUT has the job that it got from it; results   *)
(* are read of jobs that have ended, and a cancel is noted and then awaited.*)
HasJob == {"register", "poll", "result", "cancelOwn", "awaitCancel"}
ThreadsJob ==
    \A t \in Threads : thread[t].pc \in HasJob =>
        /\ thread[t].job \in DOMAIN jobs
        /\ jobs[thread[t].job].by = t
        /\ thread[t].pc = "result" => thread[t].job \notin Live
        /\ thread[t].pc = "awaitCancel" => thread[t].job \in cancelled

(* A job of this process that is alive is the one its thread has, or        *)
(* somebody noted its cancel, or nobody knows of it.  With safe rules its   *)
(* thread is then over, so that no other job follows it.                    *)
LiveJobs ==
    \A j \in Live : Own(j) =>
        LET t == jobs[j].by
        IN  \/ thread[t].pc \in HasJob /\ thread[t].job = j
            \/ /\ j \in cancelled \/ ~jobs[j].answered
               /\ SafeRules => thread[t].pc \in Over

OneLiveIfSafe == SafeRules => OneLiveJob

(* Whoever notes a cancel waits for the job to end, or says it did not.     *)
CancelsFollowed ==
    \A j \in cancelled \cap Live :
        \/ j \in handler.posting \cup handler.waiting \cup reported
        \/ \E t \in Threads : At(t, "awaitCancel") /\ thread[t].job = j

HandlerRests ==
    /\ handler.todo \cup handler.waiting \subseteq DOMAIN jobs
    /\ handler.posting \subseteq cancelled
    /\ handler.pc # "cancelling" => /\ handler.todo \cup handler.waiting = {}
                                    /\ handler.posting \cap Live \subseteq reported
    /\ handler.pc \in {"idle", "snapshot"} => handler.posting = {}

(* What eviction has chosen is not a model's job of this run, and stays so. *)
VictimsListed ==
    \A t \in Threads : \A j \in thread[t].victims : j \in DOMAIN jobs /\ ~Named(j)

JobInv ==
    /\ TypeOK
    /\ ThreadsJob /\ LiveJobs /\ CancelsFollowed /\ HandlerRests
    /\ VictimsListed /\ OwnCancelsNoted /\ OneLiveIfSafe

-----------------------------------------------------------------------------
(* What becomes of jobs: they keep their owner, and stay ended.             *)
JobsKept ==
    /\ jobs' \in Seq(Job)
    /\ DOMAIN jobs \subseteq DOMAIN jobs'
    /\ \A j \in DOMAIN jobs :
          /\ jobs'[j].by = jobs[j].by
          /\ jobs'[j].answered = jobs[j].answered
          /\ jobs[j].state = "ended" => jobs'[j].state = "ended"

NewCancels ==
    {j \in DOMAIN jobs : jobs'[j].state = "cancelling" /\ jobs[j].state # "cancelling"}

LEMMA JobReplaced ==
  ASSUME TypeOK, NEW j \in DOMAIN jobs, NEW job \in Job,
         job.by = jobs[j].by, job.answered = jobs[j].answered,
         jobs[j].state = "ended" => job.state = "ended",
         jobs' = [jobs EXCEPT ![j] = job]
  PROVE  /\ JobsKept /\ DOMAIN jobs' = DOMAIN jobs /\ NewCancels \subseteq {j}
         /\ job.state # "cancelling" => NewCancels = {}
<1>1. jobs \in [1..Len(jobs) -> Job] /\ Len(jobs) \in Nat /\ DOMAIN jobs = 1..Len(jobs)
  BY DEF TypeOK
<1>2. jobs' \in [1..Len(jobs) -> Job]
  BY <1>1
<1>3. jobs' \in Seq(Job) /\ DOMAIN jobs' = DOMAIN jobs
  BY <1>1, <1>2
<1>4. QED BY <1>1, <1>3 DEF JobsKept, NewCancels

LEMMA CancelAsked ==
  ASSUME TypeOK, NEW j \in DOMAIN jobs, jobs' = AskedToCancel(j)
  PROVE  JobsKept /\ DOMAIN jobs' = DOMAIN jobs /\ NewCancels \subseteq {j}
<1> DEFINE job == [jobs[j] EXCEPT !.state = IF @ = "queued" THEN "cancelling" ELSE @]
<1>1. jobs[j] \in Job
  BY DEF TypeOK
<1>2. /\ job \in Job /\ job.by = jobs[j].by /\ job.answered = jobs[j].answered
      /\ jobs[j].state = "ended" => job.state = "ended"
  BY <1>1 DEF Job
<1>3. jobs' = [jobs EXCEPT ![j] = job]
  BY DEF AskedToCancel
<1> HIDE DEF job
<1>4. QED BY <1>2, <1>3, JobReplaced

LEMMA JobsUnchanged ==
  ASSUME TypeOK, jobs' = jobs
  PROVE  JobsKept /\ DOMAIN jobs' = DOMAIN jobs /\ NewCancels = {}
BY DEF TypeOK, JobsKept, NewCancels

(* A note comes with the POST of a model's job, or before it. *)
LEMMA CancelsNoted ==
  ASSUME JobInv, JobsKept, DOMAIN jobs' = DOMAIN jobs, cancelled \subseteq cancelled',
         \A j \in NewCancels : j \in cancelled' \/ ~Named(j)
  PROVE  OwnCancelsNoted'
<1> SUFFICES ASSUME NEW j \in DOMAIN jobs, Named(j)', jobs'[j].state = "cancelling"
             PROVE  j \in cancelled'
  BY DEF OwnCancelsNoted
<1>1. Named(j)
  BY DEF Named, Own, JobsKept
<1>2. CASE jobs[j].state = "cancelling"
  BY <1>1, <1>2 DEF JobInv, OwnCancelsNoted
<1>3. CASE jobs[j].state # "cancelling"
  BY <1>1, <1>3 DEF NewCancels
<1>4. QED BY <1>2, <1>3

-----------------------------------------------------------------------------
(* A thread's step, other than a PUT                                        *)

LEMMA ThreadStep ==
  ASSUME JobInv, NEW t \in Threads, NEW locals \in Locals,
         thread' = [thread EXCEPT ![t] = locals],
         JobsKept, DOMAIN jobs' = DOMAIN jobs, handler' = handler, shutdown' = shutdown,
         lock' \in Threads \cup {Free}, active' \subseteq DOMAIN jobs,
         cancelled \subseteq cancelled', reported \subseteq reported',
         cancelled' \subseteq DOMAIN jobs, reported' \subseteq DOMAIN jobs,
         thread[t].pc \notin Over,
         locals.pc \in HasJob => /\ thread[t].pc \in HasJob
                                 /\ locals.job = thread[t].job
                                 /\ locals.pc = "result" => locals.job \notin Live'
                                 /\ locals.pc = "awaitCancel" => locals.job \in cancelled',
         locals.pc \notin HasJob /\ thread[t].pc \in HasJob =>
             \/ thread[t].job \notin Live'
             \/ thread[t].job \in cancelled' /\ (SafeRules => locals.pc \in Over),
         \A j \in cancelled' \ cancelled : thread[t].pc \in HasJob /\ j = thread[t].job,
         thread[t].pc \in HasJob =>
             \/ thread[t].pc # "awaitCancel" /\ thread[t].job \notin cancelled' \ cancelled
             \/ thread[t].job \notin Live'
             \/ thread[t].job \in reported'
             \/ locals.pc = "awaitCancel",
         \A j \in locals.victims : j \in DOMAIN jobs /\ ~Named(j),
         \A j \in NewCancels : j \in cancelled' \/ ~Named(j)
  PROVE  JobInv'
<1>1. /\ TypeOK /\ thread \in [Threads -> Locals]
      /\ thread'[t] = locals
      /\ \A u \in Threads \ {t} : thread'[u] = thread[u]
  BY DEF JobInv, TypeOK
<1>2. TypeOK'
  BY <1>1 DEF TypeOK, JobsKept
<1>3. /\ Live' \subseteq Live /\ Live \subseteq DOMAIN jobs
      /\ \A j \in DOMAIN jobs : jobs'[j].by = jobs[j].by /\ (Own(j)' <=> Own(j))
                                /\ jobs'[j].answered = jobs[j].answered
                                /\ (Named(j)' <=> Named(j))
  BY DEF JobsKept, Live, Own, Named
<1>4. HasJob \cap Over = {} /\ "awaitCancel" \in HasJob
  BY DEF HasJob, Over
<1>5. ThreadsJob'
  BY <1>1, <1>3 DEF JobInv, ThreadsJob
<1>6. LiveJobs'
  <2> SUFFICES ASSUME NEW j \in Live', Own(j)'
               PROVE  \/ thread'[jobs'[j].by].pc \in HasJob /\ thread'[jobs'[j].by].job = j
                      \/ /\ j \in cancelled' \/ ~jobs'[j].answered
                         /\ SafeRules => thread'[jobs'[j].by].pc \in Over
    BY DEF LiveJobs
  <2> DEFINE u == jobs[j].by
  <2>1. j \in Live /\ Own(j) /\ jobs'[j].by = u /\ jobs'[j].answered = jobs[j].answered
        /\ u \in Threads
    BY <1>3 DEF Own
  <2>2. \/ thread[u].pc \in HasJob /\ thread[u].job = j
        \/ /\ j \in cancelled \/ ~jobs[j].answered
           /\ SafeRules => thread[u].pc \in Over
    BY <2>1 DEF JobInv, LiveJobs
  <2> HIDE DEF u
  <2>3. CASE u # t
    BY <1>1, <2>1, <2>2, <2>3
  <2>4. CASE u = t
    BY <1>1, <2>1, <2>2, <2>4
  <2>5. QED BY <2>3, <2>4
<1>7. CancelsFollowed'
  <2> SUFFICES ASSUME NEW j \in cancelled' \cap Live'
               PROVE  \/ j \in handler'.posting \cup handler'.waiting \cup reported'
                      \/ \E u \in Threads : thread'[u].pc = "awaitCancel" /\ thread'[u].job = j
    BY DEF CancelsFollowed, At
  <2>1. CASE j \in cancelled
    <3>1. CASE j \in handler.posting \cup handler.waiting \cup reported
      BY <3>1
    <3>2. ASSUME NEW u \in Threads, At(u, "awaitCancel"), thread[u].job = j
          PROVE  \/ j \in handler'.posting \cup handler'.waiting \cup reported'
                 \/ \E v \in Threads : thread'[v].pc = "awaitCancel" /\ thread'[v].job = j
      BY <1>1, <1>4, <3>2 DEF At
    <3>3. QED BY <1>3, <2>1, <3>1, <3>2 DEF JobInv, CancelsFollowed
  <2>2. CASE j \notin cancelled
    <3>1. thread[t].pc \in HasJob /\ j = thread[t].job
      BY <2>2
    <3>2. j \in reported' \/ locals.pc = "awaitCancel"
      BY <2>2, <3>1
    <3>3. QED BY <1>1, <1>4, <3>1, <3>2
  <2>3. QED BY <2>1, <2>2
<1>8. HandlerRests'
  BY <1>3 DEF JobInv, HandlerRests
<1>9. VictimsListed' /\ OwnCancelsNoted'
  <2>1. \A u \in Threads : \A j \in thread'[u].victims : j \in DOMAIN jobs /\ ~Named(j)
    BY <1>1 DEF JobInv, VictimsListed
  <2>2. QED BY <1>3, <2>1, CancelsNoted DEF VictimsListed
<1>10. OneLiveIfSafe'
  <2> SUFFICES ASSUME SafeRules, NEW u \in Threads, NEW i \in Live', NEW j \in Live',
                      jobs'[i].by = u, jobs'[j].by = u
               PROVE  i = j
    BY DEF OneLiveIfSafe, OneLiveJob, SafeRules
  <2>1. QED BY <1>3 DEF JobInv, OneLiveIfSafe, OneLiveJob
<1>11. QED
  BY <1>2, <1>5, <1>6, <1>7, <1>8, <1>9, <1>10 DEF JobInv

(* A step outside submit_and_wait: it has no job, and touches no model's.   *)
LEMMA SubmissionStep ==
  ASSUME JobInv, NEW t \in Threads, NEW locals \in Locals,
         thread' = [thread EXCEPT ![t] = locals],
         JobsKept, DOMAIN jobs' = DOMAIN jobs,
         UNCHANGED <<cancelled, reported, shutdown, handler>>,
         lock' \in Threads \cup {Free}, active' \subseteq DOMAIN jobs,
         thread[t].pc \notin Over \cup HasJob, locals.pc \notin HasJob,
         \A j \in locals.victims : j \in DOMAIN jobs /\ ~Named(j),
         \A j \in NewCancels : ~Named(j)
  PROVE  JobInv'
<1>1. /\ cancelled \subseteq DOMAIN jobs
      /\ reported \subseteq DOMAIN jobs
  BY DEF JobInv, TypeOK
<1>2. QED BY <1>1, ThreadStep

-----------------------------------------------------------------------------
(* Leaving execute, and running it again *)

LEMMA WaitingFacts ==
  ASSUME JobInv, NEW t \in Threads
  PROVE  /\ TypeOK /\ thread \in [Threads -> Locals] /\ thread[t] \in Locals
         /\ \A j \in thread[t].victims : j \in DOMAIN jobs /\ ~Named(j)
         /\ active \subseteq DOMAIN jobs /\ cancelled \subseteq DOMAIN jobs
         /\ reported \subseteq DOMAIN jobs /\ lock \in Threads \cup {Free}
         /\ thread[t].pc \in HasJob => /\ thread[t].job \in DOMAIN jobs
                                       /\ jobs[thread[t].job] \in Job
BY DEF JobInv, TypeOK, VictimsListed, ThreadsJob

(* The locals that a thread is left with. *)
LeftWith(t, labels, locals) ==
    /\ locals \in Locals
    /\ thread' = [thread EXCEPT ![t] = locals]
    /\ locals.pc \in labels /\ locals.victims = thread[t].victims
    /\ active' \subseteq DOMAIN jobs

LEMMA LeftLocals ==
  ASSUME JobInv, NEW t \in Threads, NEW label \in Over, Leave(t, label)
  PROVE  \E locals : LeftWith(t, {label}, locals)
<1> DEFINE locals == [thread[t] EXCEPT !.pc = label, !.job = 0, !.attempt = 1, !.retries = 0,
                                       !.evicted = FALSE, !.gaveUp = FALSE]
<1>1. thread[t] \in Locals /\ 1 \in 1..MaxAttempts /\ 0 \in 0..MaxRetries /\ label \in PCs
  BY WaitingFacts, LimitsAssumption DEF Over, PCs
<1>2. locals \in Locals /\ locals.pc = label /\ locals.victims = thread[t].victims
  BY <1>1 DEF Locals
<1>3. thread' = [thread EXCEPT ![t] = locals] /\ active' \subseteq DOMAIN jobs
  BY WaitingFacts DEF Leave
<1> HIDE DEF locals
<1>4. LeftWith(t, {label}, locals)
  BY <1>2, <1>3 DEF LeftWith
<1>5. QED BY <1>4

LEMMA ResubmittedLocals ==
  ASSUME JobInv, NEW t \in Threads, NEW error, MayRetry(t, error), Resubmit(t)
  PROVE  \E locals : LeftWith(t, {"submit"}, locals)
<1> DEFINE locals == [thread[t] EXCEPT !.pc = "submit", !.job = 0, !.attempt = 1,
                                       !.evicted = FALSE, !.gaveUp = FALSE, !.retries = @ + 1]
<1>1. /\ thread[t] \in Locals /\ thread[t].retries \in 0..MaxRetries /\ MaxRetries \in Nat
      /\ 1 \in 1..MaxAttempts
  BY WaitingFacts, LimitsAssumption DEF Locals
<1>2. thread[t].retries + 1 \in 0..MaxRetries
  BY <1>1 DEF MayRetry
<1>3. locals \in Locals /\ locals.pc = "submit" /\ locals.victims = thread[t].victims
  BY <1>1, <1>2 DEF Locals, PCs
<1>4. thread' = [thread EXCEPT ![t] = locals] /\ active' \subseteq DOMAIN jobs
  BY WaitingFacts DEF Resubmit
<1> HIDE DEF locals
<1>5. LeftWith(t, {"submit"}, locals)
  BY <1>3, <1>4 DEF LeftWith
<1>6. QED BY <1>5

(* An error ends the statement, unless a rule matches it. *)
LEMMA FailedLocals ==
  ASSUME JobInv, NEW t \in Threads, NEW error, Fail(t, error)
  PROVE  \E locals : /\ LeftWith(t, {"failed", "submit"}, locals)
                     /\ error \in Retryable \/ locals.pc = "failed"
<1>1. CASE Leave(t, "failed")
  <2>1. PICK locals : LeftWith(t, {"failed"}, locals)
    BY <1>1, LeftLocals DEF Over
  <2>2. LeftWith(t, {"failed", "submit"}, locals) /\ locals.pc = "failed"
    BY <2>1 DEF LeftWith
  <2>3. QED BY <2>2
<1>2. CASE MayRetry(t, error) /\ Resubmit(t)
  <2>1. PICK locals : LeftWith(t, {"submit"}, locals)
    BY <1>2, ResubmittedLocals
  <2>2. LeftWith(t, {"failed", "submit"}, locals) /\ error \in Retryable
    BY <1>2, <2>1 DEF LeftWith, MayRetry
  <2>3. QED BY <2>2
<1>3. QED BY <1>1, <1>2 DEF Fail

(* The script did not become a job. *)
LEMMA FailToSubmitStep ==
  ASSUME JobInv, NEW t \in Threads, NEW error, Fail(t, error), jobs' = jobs,
         UNCHANGED <<cancelled, reported, shutdown, handler>>,
         lock' \in Threads \cup {Free}, thread[t].pc \notin Over \cup HasJob
  PROVE  JobInv'
<1>1. PICK locals : LeftWith(t, {"failed", "submit"}, locals)
  BY FailedLocals
<1>2. JobsKept /\ DOMAIN jobs' = DOMAIN jobs /\ NewCancels = {}
  BY JobsUnchanged DEF JobInv
<1>3. locals.pc \notin HasJob
  BY <1>1 DEF LeftWith, HasJob
<1>4. QED BY <1>1, <1>2, <1>3, WaitingFacts, SubmissionStep DEF LeftWith

-----------------------------------------------------------------------------
(* Before the job exists *)

LEMMA SubmitSteps ==
  ASSUME JobInv, NEW t \in Threads,
         Submit(t) \/ Evict(t) \/ ListVictims(t) \/ CancelVictim(t) \/ VictimsCancelled(t)
  PROVE  JobInv'
<1> USE DEF HasJob, Over
<1>1. /\ TypeOK /\ thread \in [Threads -> Locals] /\ thread[t] \in Locals
      /\ \A j \in thread[t].victims : j \in DOMAIN jobs /\ ~Named(j)
      /\ jobs \in Seq(Job) /\ lock \in Threads \cup {Free} /\ active \subseteq DOMAIN jobs
  BY DEF JobInv, TypeOK, VictimsListed
<1>2. ASSUME NEW label \in PCs \ HasJob, Goto(t, label), thread[t].pc \notin Over \cup HasJob,
             lock' \in Threads \cup {Free}, UNCHANGED <<jobs, registry, shutdown, handler>>
      PROVE  JobInv'
  <2> DEFINE locals == [thread[t] EXCEPT !.pc = label]
  <2>1. locals \in Locals /\ locals.pc = label /\ locals.victims = thread[t].victims
    BY <1>1 DEF Locals
  <2>2. thread' = [thread EXCEPT ![t] = locals]
    BY <1>2 DEF Goto
  <2>3. /\ JobsKept /\ DOMAIN jobs' = DOMAIN jobs /\ NewCancels = {}
        /\ UNCHANGED <<active, cancelled, reported, shutdown, handler>>
    BY <1>1, <1>2, JobsUnchanged DEF registry
  <2> HIDE DEF locals
  <2>4. QED BY <1>1, <1>2, <2>1, <2>2, <2>3, SubmissionStep
<1>3. CASE Submit(t)
  BY <1>1, <1>2, <1>3 DEF Submit, At, PCs
<1>4. CASE Evict(t)
  BY <1>1, <1>2, <1>4 DEF Evict, At, PCs
<1>5. CASE ListVictims(t)
  <2>1. /\ thread[t].pc = "list" /\ UNCHANGED <<jobs, cancelled, reported, shutdown, handler>>
        /\ lock' \in Threads \cup {Free}
    BY <1>1, <1>5 DEF ListVictims, At
  <2>2. JobsKept /\ DOMAIN jobs' = DOMAIN jobs /\ NewCancels = {}
    BY <1>1, <2>1, JobsUnchanged
  <2>3. CASE Fail(t, "refused")
    BY <2>1, <2>3, FailToSubmitStep
  <2>4. ASSUME NEW v \in VictimSets \cup {{}}, active' = active,
               thread' = [thread EXCEPT ![t].pc = "cancelVictims", ![t].victims = v]
        PROVE  JobInv'
    <3> DEFINE locals == [thread[t] EXCEPT !.pc = "cancelVictims", !.victims = v]
    <3>1. v \subseteq {j \in Live : ~IsSelf(j)}
      BY DEF VictimSets
    <3>2. \A j \in v : j \in DOMAIN jobs /\ ~Named(j)
      BY <3>1 DEF Live, IsSelf
    <3>3. v \in SUBSET Nat
      BY <1>1, <3>2
    <3>4. /\ locals \in Locals /\ locals.pc = "cancelVictims" /\ locals.victims = v
      BY <1>1, <3>3 DEF Locals, PCs
    <3>5. thread' = [thread EXCEPT ![t] = locals]
      BY <2>4
    <3> HIDE DEF locals
    <3>6. QED BY <1>1, <2>1, <2>2, <2>4, <3>2, <3>4, <3>5, SubmissionStep
  <2>5. QED BY <1>5, <2>3, <2>4 DEF ListVictims
<1>6. CASE CancelVictim(t)
  <2> PICK j \in thread[t].victims :
        \/ /\ jobs' = AskedToCancel(j)
           /\ thread' = [thread EXCEPT ![t].victims = @ \ {j}, ![t].evicted = TRUE]
        \/ /\ thread' = [thread EXCEPT ![t].victims = @ \ {j}]
           /\ UNCHANGED jobs
    BY <1>6 DEF CancelVictim
  <2>1. /\ thread[t].pc = "cancelVictims"
        /\ UNCHANGED <<active, cancelled, reported, lock, shutdown, handler>>
    BY <1>6 DEF CancelVictim, At, registry
  <2>2. /\ JobsKept /\ DOMAIN jobs' = DOMAIN jobs
        /\ \A i \in NewCancels : ~Named(i)
    BY <1>1, JobsUnchanged, CancelAsked
  <2>3. PICK b \in BOOLEAN :
          thread' = [thread EXCEPT ![t].victims = thread[t].victims \ {j}, ![t].evicted = b]
    <3>1. CASE thread' = [thread EXCEPT ![t].victims = @ \ {j}, ![t].evicted = TRUE]
      BY <3>1
    <3>2. CASE thread' = [thread EXCEPT ![t].victims = @ \ {j}]
      <4> DEFINE locals == [thread[t] EXCEPT !.victims = thread[t].victims \ {j},
                                            !.evicted = thread[t].evicted]
      <4>1. thread[t].evicted \in BOOLEAN
        BY <1>1 DEF Locals
      <4>2. locals = [thread[t] EXCEPT !.victims = thread[t].victims \ {j}]
        BY <1>1 DEF Locals
      <4>3. thread' = [thread EXCEPT ![t] = locals]
        BY <3>2, <4>2
      <4>4. QED BY <4>1, <4>3
    <3>3. QED BY <3>1, <3>2
  <2> DEFINE locals == [thread[t] EXCEPT !.victims = thread[t].victims \ {j}, !.evicted = b]
  <2>4. /\ locals \in Locals /\ locals.pc = "cancelVictims"
        /\ locals.victims \subseteq thread[t].victims
    BY <1>1, <2>1 DEF Locals
  <2>5. thread' = [thread EXCEPT ![t] = locals]
    BY <2>3
  <2> HIDE DEF locals
  <2>6. QED BY <1>1, <2>1, <2>2, <2>4, <2>5, SubmissionStep
<1>7. CASE VictimsCancelled(t)
  <2>1. /\ thread[t].pc = "cancelVictims"
        /\ UNCHANGED <<jobs, cancelled, reported, shutdown, handler>>
        /\ lock' \in Threads \cup {Free}
    BY <1>7 DEF VictimsCancelled, At
  <2>2. JobsKept /\ DOMAIN jobs' = DOMAIN jobs /\ NewCancels = {}
    BY <1>1, <2>1, JobsUnchanged
  <2>3. CASE PutsAgain(t)
    <3> DEFINE n == thread[t].attempt + 1
               locals == [thread[t] EXCEPT !.pc = "put", !.attempt = n, !.evicted = FALSE]
    <3>1. thread[t].attempt \in 1..MaxAttempts /\ thread[t].attempt < MaxAttempts
          /\ MaxAttempts \in Nat
      BY <1>1, <2>3, LimitsAssumption DEF PutsAgain, Locals
    <3>2. n \in 1..MaxAttempts
      BY <3>1
    <3>3. thread' = [thread EXCEPT ![t] = locals] /\ active' = active
      BY <1>7, <2>3 DEF VictimsCancelled
    <3> HIDE DEF n
    <3>4. /\ locals \in Locals /\ locals.pc = "put" /\ locals.victims = thread[t].victims
      BY <1>1, <3>2 DEF Locals, PCs
    <3> HIDE DEF locals
    <3>5. QED BY <1>1, <2>1, <2>2, <3>3, <3>4, SubmissionStep
  <2>4. CASE ~PutsAgain(t)
    <3>1. Fail(t, "refused")
      BY <1>7, <2>4 DEF VictimsCancelled
    <3>2. QED BY <2>1, <3>1, FailToSubmitStep
  <2>5. QED BY <2>3, <2>4
<1>8. QED BY <1>3, <1>4, <1>5, <1>6, <1>7

-----------------------------------------------------------------------------
(* A thread that waits for its job                                          *)

(* It moves on and keeps its job. *)
LEMMA KeepsJob ==
  ASSUME JobInv, NEW t \in Threads, NEW label \in HasJob, NEW b \in BOOLEAN,
         thread' = [thread EXCEPT ![t].pc = label, ![t].gaveUp = b],
         JobsKept, DOMAIN jobs' = DOMAIN jobs, UNCHANGED <<reported, lock, shutdown, handler>>,
         active' \subseteq DOMAIN jobs, cancelled \subseteq cancelled',
         cancelled' \subseteq DOMAIN jobs, cancelled' \subseteq cancelled \cup {thread[t].job},
         thread[t].pc \in HasJob \ {"awaitCancel"},
         label = "result" => thread[t].job \notin Live',
         label # "awaitCancel" => cancelled' = cancelled,
         label = "awaitCancel" => thread[t].job \in cancelled',
         \A j \in NewCancels : j \in cancelled'
  PROVE  JobInv'
<1> DEFINE locals == [thread[t] EXCEPT !.pc = label, !.gaveUp = b]
<1>1. HasJob \subseteq PCs /\ HasJob \cap Over = {}
  BY DEF HasJob, PCs, Over
<1>2. thread[t] \in Locals
  BY WaitingFacts
<1>3. /\ locals \in Locals /\ locals.pc = label /\ locals.victims = thread[t].victims
      /\ locals.job = thread[t].job
  BY <1>1, <1>2 DEF Locals
<1>4. thread' = [thread EXCEPT ![t] = locals]
  OBVIOUS
<1> HIDE DEF locals
<1>5. QED BY <1>1, <1>3, <1>4, WaitingFacts, ThreadStep

(* It leaves submit_and_wait: its job has ended, or its cancel is noted and *)
(* followed by somebody.                                                    *)
LEMMA LeaveStep ==
  ASSUME JobInv, NEW t \in Threads, NEW locals, NEW labels, LeftWith(t, labels, locals),
         labels \cap HasJob = {}, jobs' = jobs, UNCHANGED <<lock, shutdown, handler>>,
         cancelled' \subseteq DOMAIN jobs, cancelled \subseteq cancelled',
         cancelled' \subseteq cancelled \cup {thread[t].job},
         reported \subseteq reported', reported' \subseteq DOMAIN jobs,
         thread[t].pc \in HasJob,
         \/ thread[t].job \notin Live
         \/ /\ thread[t].job \in cancelled' \cap reported'
            /\ SafeRules => locals.pc \in Over
         \/ /\ thread[t].pc # "awaitCancel" /\ thread[t].job \in cancelled
            /\ locals.pc \in Over
  PROVE  JobInv'
<1>1. /\ locals \in Locals /\ thread' = [thread EXCEPT ![t] = locals]
      /\ locals.pc \notin HasJob /\ locals.victims = thread[t].victims
      /\ active' \subseteq DOMAIN jobs
  BY DEF LeftWith
<1>2. JobsKept /\ DOMAIN jobs' = DOMAIN jobs /\ NewCancels = {} /\ Live' = Live
  BY JobsUnchanged DEF JobInv, Live
<1>3. thread[t].pc \notin Over
  BY DEF HasJob, Over
<1>4. QED BY <1>1, <1>2, <1>3, WaitingFacts, ThreadStep

LEMMA WaitSteps ==
  ASSUME JobInv, NEW t \in Threads,
         \/ Register(t) \/ PollEnded(t) \/ PollShutdown(t) \/ GiveUp(t)
         \/ CancelOwn(t) \/ AwaitCancel(t) \/ Result(t)
  PROVE  JobInv'
<1> DEFINE j == thread[t].job
<1>1. /\ thread[t].pc \in HasJob /\ j \in DOMAIN jobs /\ TypeOK /\ thread[t] \in Locals
      /\ active \subseteq DOMAIN jobs /\ cancelled \subseteq DOMAIN jobs
      /\ reported \subseteq DOMAIN jobs
      /\ (thread[t].gaveUp) \in BOOLEAN
  <2>1. thread[t].pc \in HasJob
    BY DEF Register, PollEnded, PollShutdown, GiveUp, CancelOwn, AwaitCancel, Result, At, HasJob
  <2>2. QED BY <2>1, WaitingFacts DEF Locals
<1>2. jobs' = jobs => /\ JobsKept /\ DOMAIN jobs' = DOMAIN jobs /\ Live' = Live
                      /\ NewCancels = {}
  BY <1>1, JobsUnchanged DEF Live
<1>3. ASSUME NEW label, Goto(t, label)
      PROVE  thread' = [thread EXCEPT ![t].pc = label, ![t].gaveUp = thread[t].gaveUp]
  <2>1. [thread[t] EXCEPT !.pc = label]
            = [thread[t] EXCEPT !.pc = label, !.gaveUp = thread[t].gaveUp]
    BY <1>1 DEF Locals
  <2>2. QED BY <1>3, <2>1 DEF Goto
<1> HIDE DEF j
<1>4. CASE Register(t)
  BY <1>1, <1>2, <1>3, <1>4, KeepsJob DEF Register, At, HasJob, j
<1>5. CASE PollEnded(t)
  <2>1. UNCHANGED <<jobs, active, cancelled, reported, lock, shutdown, handler>>
        /\ thread[t].pc = "poll" /\ Goto(t, "result") /\ j \notin Live
    BY <1>5 DEF PollEnded, At, registry, Live, j
  <2>2. QED BY <1>1, <1>2, <1>3, <2>1, KeepsJob DEF HasJob, j
<1>6. CASE PollShutdown(t) \/ GiveUp(t)
  <2>1. PICK b \in BOOLEAN : StopWaiting(t, b)
    BY <1>6 DEF PollShutdown, GiveUp
  <2>2. thread[t].pc = "poll" /\ UNCHANGED <<jobs, cancelled, reported, lock, shutdown, handler>>
    BY <1>6 DEF PollShutdown, GiveUp, At
  <2>3. CASE j \in cancelled
    <3>1. Leave(t, "failed")
      BY <2>1, <2>3 DEF StopWaiting, j
    <3>2. PICK locals : LeftWith(t, {"failed"}, locals)
      BY <3>1, LeftLocals DEF Over
    <3>3. {"failed"} \cap HasJob = {} /\ locals.pc \in Over
      BY <3>2 DEF LeftWith, HasJob, Over
    <3>4. QED BY <1>1, <2>2, <2>3, <3>2, <3>3, LeaveStep DEF j
  <2>4. CASE j \notin cancelled
    <3>1. thread' = [thread EXCEPT ![t].pc = "cancelOwn", ![t].gaveUp = b] /\ active' = active
      BY <2>1, <2>4 DEF StopWaiting, j
    <3>2. QED BY <1>1, <1>2, <2>2, <3>1, KeepsJob DEF HasJob, j
  <2>5. QED BY <2>3, <2>4
<1>7. ASSUME j \notin Live, jobs' = jobs, reported' = reported,
             UNCHANGED <<lock, shutdown, handler>>, cancelled' \in {cancelled, cancelled \cup {j}},
             \/ Leave(t, "succeeded") \/ Leave(t, "failed")
             \/ \E error \in Errors : Fail(t, error)
      PROVE  JobInv'
  <2> DEFINE labels == {"succeeded", "failed", "submit"}
  <2>1. \E locals : LeftWith(t, labels, locals)
    <3>1. CASE \E error \in Errors : Fail(t, error)
      BY <3>1, FailedLocals DEF LeftWith
    <3>2. ASSUME NEW label \in Over, Leave(t, label)
          PROVE  \E locals : LeftWith(t, labels, locals)
      BY <3>2, LeftLocals DEF LeftWith, Over
    <3>3. QED BY <1>7, <3>1, <3>2 DEF Over
  <2>2. labels \cap HasJob = {}
    BY DEF HasJob
  <2> HIDE DEF labels
  <2>3. QED BY <1>1, <1>7, <2>1, <2>2, LeaveStep DEF j
<1>8. ASSUME Unconfirmed(t), jobs' = jobs, j \in cancelled',
             UNCHANGED <<lock, shutdown, handler>>, cancelled' \in {cancelled, cancelled \cup {j}}
      PROVE  JobInv'
  <2>1. PICK locals : /\ LeftWith(t, {"failed", "submit"}, locals)
                      /\ "unconfirmed" \in Retryable \/ locals.pc = "failed"
    BY <1>8, FailedLocals DEF Unconfirmed
  <2>2. /\ {"failed", "submit"} \cap HasJob = {}
        /\ SafeRules => locals.pc \in Over
    BY <2>1 DEF HasJob, SafeRules, Over
  <2>3. QED BY <1>1, <1>8, <2>1, <2>2, LeaveStep DEF Unconfirmed, j
<1>9. CASE CancelOwn(t)
  <2>1. /\ thread[t].pc = "cancelOwn" /\ cancelled' = cancelled \cup {j}
        /\ UNCHANGED <<lock, shutdown, handler>>
    BY <1>9 DEF CancelOwn, At, j
  <2>2. CASE jobs' = AskedToCancel(j) /\ Goto(t, "awaitCancel") /\ UNCHANGED <<active, reported>>
    <3>1. JobsKept /\ DOMAIN jobs' = DOMAIN jobs /\ \A i \in NewCancels : i \in cancelled'
      BY <1>1, <2>1, <2>2, CancelAsked
    <3>2. QED BY <1>1, <1>3, <2>1, <2>2, <3>1, KeepsJob DEF HasJob, j
  <2>3. CASE jobs' = jobs /\ IF j \in Live THEN Unconfirmed(t) ELSE Confirmed(t)
    BY <1>7, <1>8, <2>1, <2>3 DEF Confirmed, Errors
  <2>4. QED BY <1>9, <2>2, <2>3 DEF CancelOwn, j
<1>10. CASE AwaitCancel(t)
  <2>1. thread[t].pc = "awaitCancel" /\ UNCHANGED <<jobs, cancelled, lock, shutdown, handler>>
    BY <1>10 DEF AwaitCancel, At
  <2>2. CASE j \notin Live /\ Confirmed(t)
    BY <1>7, <2>1, <2>2 DEF Confirmed, Errors
  <2>3. CASE Unconfirmed(t)
    <3>1. j \in cancelled
      BY <2>1 DEF JobInv, ThreadsJob, HasJob, j
    <3>2. QED BY <1>8, <2>1, <2>3, <3>1
  <2>4. QED BY <1>10, <2>2, <2>3 DEF AwaitCancel, j
<1>11. CASE Result(t)
  <2>1. thread[t].pc = "result" /\ UNCHANGED <<jobs, cancelled, reported, lock, shutdown, handler>>
    BY <1>11 DEF Result, At
  <2>2. j \notin Live
    BY <2>1 DEF JobInv, ThreadsJob, HasJob, j
  <2>3. QED BY <1>7, <1>11, <2>1, <2>2 DEF Result, Errors
<1>12. QED BY <1>4, <1>5, <1>6, <1>9, <1>10, <1>11

-----------------------------------------------------------------------------
(* A PUT *)

LEMMA NewJobStep ==
  ASSUME JobInv, NEW t \in Threads, NEW locals \in Locals, NEW answered \in BOOLEAN,
         thread[t].pc = "put", jobs' = Append(jobs, NewJob(t, answered)),
         thread' = [thread EXCEPT ![t] = locals],
         UNCHANGED <<cancelled, reported, lock, shutdown, handler>>,
         active' \subseteq DOMAIN jobs, locals.victims = thread[t].victims,
         \/ answered /\ locals.pc = "register" /\ locals.job = Len(jobs) + 1
         \/ /\ ~answered /\ locals.pc \in {"failed", "submit"}
            /\ SafeRules => locals.pc = "failed"
  PROVE  JobInv'
<1> DEFINE n == Len(jobs) + 1
           job == NewJob(t, answered)
<1>1. /\ TypeOK /\ jobs \in Seq(Job) /\ thread \in [Threads -> Locals]
      /\ cancelled \subseteq DOMAIN jobs /\ reported \subseteq DOMAIN jobs
  BY DEF JobInv, TypeOK
<1>2. /\ job \in Job /\ job.by = t /\ job.answered = answered /\ job.state = "queued"
  BY DEF NewJob, Job
<1>3. /\ jobs' \in Seq(Job) /\ DOMAIN jobs' = DOMAIN jobs \cup {n} /\ n \notin DOMAIN jobs
      /\ jobs'[n] = job /\ \A j \in DOMAIN jobs : jobs'[j] = jobs[j]
  BY <1>1, <1>2
<1>4. /\ thread'[t] = locals /\ \A u \in Threads \ {t} : thread'[u] = thread[u]
  BY <1>1
<1>5. Live' = Live \cup {n} /\ Live \subseteq DOMAIN jobs
  BY <1>2, <1>3 DEF Live
<1>6. SafeRules => \A j \in Live : jobs[j].by # t
  BY DEF JobInv, LiveJobs, Own, HasJob, Over
<1> HIDE DEF n, job
<1>7. TypeOK'
  BY <1>1, <1>3, <1>4 DEF TypeOK
<1>8. ThreadsJob'
  <2>1. \A u \in Threads \ {t} : thread[u].pc \in HasJob =>
            /\ thread[u].job \in DOMAIN jobs /\ thread[u].job # n
            /\ jobs[thread[u].job].by = u
            /\ thread[u].pc = "result" => thread[u].job \notin Live
            /\ thread[u].pc = "awaitCancel" => thread[u].job \in cancelled
    BY <1>3 DEF JobInv, ThreadsJob
  <2>2. locals.pc \in HasJob => locals.pc = "register" /\ locals.job = n
    BY DEF HasJob, n
  <2>3. QED BY <1>1, <1>2, <1>3, <1>4, <1>5, <2>1, <2>2 DEF ThreadsJob
<1>9. LiveJobs'
  <2> SUFFICES ASSUME NEW j \in Live', Own(j)'
               PROVE  \/ thread'[jobs'[j].by].pc \in HasJob /\ thread'[jobs'[j].by].job = j
                      \/ /\ j \in cancelled' \/ ~jobs'[j].answered
                         /\ SafeRules => thread'[jobs'[j].by].pc \in Over
    BY DEF LiveJobs
  <2>1. CASE j = n
    BY <1>2, <1>3, <1>4, <2>1 DEF HasJob, Over, n
  <2>2. CASE j \in Live
    <3>1. /\ jobs'[j] = jobs[j] /\ Own(j) /\ jobs[j].by \in Threads
          /\ SafeRules => jobs[j].by # t
      BY <1>3, <1>5, <1>6, <2>2 DEF Own
    <3>2. \/ thread[jobs[j].by].pc \in HasJob /\ thread[jobs[j].by].job = j
          \/ /\ j \in cancelled \/ ~jobs[j].answered
             /\ SafeRules => thread[jobs[j].by].pc \in Over
      BY <2>2, <3>1 DEF JobInv, LiveJobs
    <3>3. thread[t].pc \notin HasJob
      BY DEF HasJob
    <3>4. QED BY <1>1, <1>4, <2>2, <3>1, <3>2, <3>3
  <2>3. QED BY <1>5, <2>1, <2>2
<1>10. CancelsFollowed'
  <2> SUFFICES ASSUME NEW j \in cancelled \cap Live
               PROVE  \/ j \in handler'.posting \cup handler'.waiting \cup reported'
                      \/ \E u \in Threads : thread'[u].pc = "awaitCancel" /\ thread'[u].job = j
    BY <1>1, <1>3, <1>5 DEF CancelsFollowed, At
  <2>1. ASSUME NEW u \in Threads, thread[u].pc = "awaitCancel", thread[u].job = j
        PROVE  thread'[u].pc = "awaitCancel" /\ thread'[u].job = j
    BY <1>4, <2>1
  <2>2. QED BY <1>1, <2>1 DEF JobInv, CancelsFollowed, At
<1>11. HandlerRests'
  BY <1>1, <1>3, <1>5 DEF JobInv, HandlerRests
<1>12. VictimsListed' /\ OwnCancelsNoted'
  <2>1. \A u \in Threads : thread'[u].victims = thread[u].victims
    BY <1>4
  <2>2. \A u \in Threads : \A j \in thread[u].victims : j \in DOMAIN jobs /\ ~Named(j)
    BY DEF JobInv, VictimsListed
  <2>3. \A j \in DOMAIN jobs : Named(j)' <=> Named(j)
    BY <1>3 DEF Named, Own
  <2>4. VictimsListed'
    BY <1>3, <2>1, <2>2, <2>3 DEF VictimsListed
  <2>5. OwnCancelsNoted'
    BY <1>1, <1>2, <1>3, <2>3 DEF JobInv, OwnCancelsNoted
  <2>6. QED BY <2>4, <2>5
<1>13. OneLiveIfSafe'
  <2> SUFFICES ASSUME SafeRules, NEW u \in Threads, NEW i \in Live', NEW j \in Live',
                      jobs'[i].by = u, jobs'[j].by = u
               PROVE  i = j
    BY DEF OneLiveIfSafe, OneLiveJob, SafeRules
  <2>1. \A k \in Live : jobs'[k] = jobs[k] /\ jobs[k].by # t
    BY <1>3, <1>5, <1>6
  <2>2. QED BY <1>2, <1>3, <1>5, <2>1 DEF JobInv, OneLiveIfSafe, OneLiveJob
<1>14. QED
  BY <1>7, <1>8, <1>9, <1>10, <1>11, <1>12, <1>13 DEF JobInv

LEMMA PutStep ==
  ASSUME JobInv, NEW t \in Threads, Put(t)
  PROVE  JobInv'
<1>1. /\ thread[t].pc = "put" /\ UNCHANGED <<cancelled, reported, lock, shutdown, handler>>
      /\ thread[t] \in Locals /\ jobs \in Seq(Job)
      /\ lock \in Threads \cup {Free} /\ active \subseteq DOMAIN jobs
      /\ \A j \in thread[t].victims : j \in DOMAIN jobs /\ ~Named(j)
  BY WaitingFacts DEF Put, At, JobInv, TypeOK
<1>2. jobs' = jobs => JobsKept /\ DOMAIN jobs' = DOMAIN jobs /\ NewCancels = {}
  BY JobsUnchanged DEF JobInv
<1>3. 1 \in 1..MaxAttempts /\ Len(jobs) + 1 \in Nat
  BY <1>1, LimitsAssumption
<1>4. CASE Goto(t, "evict") /\ UNCHANGED <<jobs, active>>
  <2> DEFINE locals == [thread[t] EXCEPT !.pc = "evict"]
  <2>1. locals \in Locals /\ locals.pc = "evict" /\ locals.victims = thread[t].victims
    BY <1>1 DEF Locals, PCs
  <2>2. thread' = [thread EXCEPT ![t] = locals]
    BY <1>4 DEF Goto
  <2> HIDE DEF locals
  <2>3. QED BY <1>1, <1>2, <1>4, <2>1, <2>2, SubmissionStep DEF Over, HasJob
<1>7. ASSUME NEW error, Fail(t, error), UNCHANGED jobs
      PROVE  JobInv'
  BY <1>1, <1>7, FailToSubmitStep DEF Over, HasJob
<1>8. CASE Fail(t, "unanswered") /\ jobs' = Append(jobs, NewJob(t, FALSE))
  <2>1. PICK locals : /\ LeftWith(t, {"failed", "submit"}, locals)
                      /\ "unanswered" \in Retryable \/ locals.pc = "failed"
    BY <1>8, FailedLocals
  <2>2. SafeRules => locals.pc = "failed"
    BY <2>1 DEF SafeRules
  <2>3. QED BY <1>1, <1>8, <2>1, <2>2, NewJobStep DEF LeftWith
<1>9. CASE /\ jobs' = Append(jobs, NewJob(t, TRUE)) /\ active' = active
           /\ thread' = [thread EXCEPT ![t].job = Len(jobs) + 1, ![t].attempt = 1,
                                       ![t].pc = "register"]
  <2> DEFINE n == Len(jobs) + 1
             locals == [thread[t] EXCEPT !.job = n, !.attempt = 1, !.pc = "register"]
  <2>1. thread' = [thread EXCEPT ![t] = locals]
    BY <1>9
  <2>2. /\ locals \in Locals /\ locals.pc = "register" /\ locals.job = n
        /\ locals.victims = thread[t].victims
    <3> HIDE DEF n
    <3>1. n \in Nat
      BY <1>3 DEF n
    <3>2. QED BY <1>1, <1>3, <3>1 DEF Locals, PCs
  <2> HIDE DEF locals
  <2>3. QED BY <1>1, <1>9, <2>1, <2>2, NewJobStep
<1>10. QED BY <1>4, <1>7, <1>8, <1>9 DEF Put

-----------------------------------------------------------------------------
(* The shutdown and the service *)

LEMMA OutsideStep ==
  ASSUME JobInv, thread' = thread, JobsKept, DOMAIN jobs' = DOMAIN jobs,
         UNCHANGED <<active, lock>>, shutdown' \in BOOLEAN, handler' \in HandlerState,
         cancelled \subseteq cancelled', cancelled' \subseteq DOMAIN jobs,
         reported \subseteq reported', reported' \subseteq DOMAIN jobs,
         HandlerRests', \A j \in NewCancels : j \in cancelled',
         \A j \in Live' :
             j \in (cancelled' \ cancelled) \cup handler.posting \cup handler.waiting =>
                 j \in handler'.posting \cup handler'.waiting \cup reported'
  PROVE  JobInv'
<1>1. TypeOK'
  BY DEF JobInv, TypeOK, JobsKept
<1>2. /\ Live' \subseteq Live /\ Live \subseteq DOMAIN jobs
      /\ \A j \in DOMAIN jobs : /\ jobs'[j].by = jobs[j].by /\ (Own(j)' <=> Own(j))
                                /\ jobs'[j].answered = jobs[j].answered
                                /\ (Named(j)' <=> Named(j))
  BY DEF JobsKept, Live, Own, Named
<1>3. ThreadsJob' /\ LiveJobs'
  BY <1>2 DEF JobInv, ThreadsJob, LiveJobs, SafeRules
<1>4. CancelsFollowed'
  BY <1>2 DEF JobInv, CancelsFollowed, At
<1>5. VictimsListed' /\ OwnCancelsNoted' /\ OneLiveIfSafe'
  BY <1>2, CancelsNoted DEF JobInv, VictimsListed, OneLiveIfSafe, OneLiveJob, SafeRules
<1>6. QED BY <1>1, <1>3, <1>4, <1>5 DEF JobInv

(* The handler's fields, and what must hold of them. *)
LEMMA HandlerMoves ==
  ASSUME JobInv, NEW label \in {"snapshot", "cancelling", "done"},
         NEW todo, NEW posting, NEW waiting,
         todo \subseteq DOMAIN jobs, posting \subseteq DOMAIN jobs, waiting \subseteq DOMAIN jobs,
         handler' = [pc |-> label, todo |-> todo, posting |-> posting, waiting |-> waiting],
         JobsKept, DOMAIN jobs' = DOMAIN jobs, posting \subseteq cancelled',
         label # "cancelling" => /\ todo = {} /\ waiting = {}
                                 /\ posting \cap Live' \subseteq reported',
         label = "snapshot" => posting = {}
  PROVE  handler' \in HandlerState /\ HandlerRests'
<1>1. DOMAIN jobs \subseteq Nat
  BY DEF JobInv, TypeOK
<1>2. QED BY <1>1 DEF HandlerState, HandlerRests

LEMMA HandlerStep ==
  ASSUME JobInv, Signal \/ Handle
  PROVE  JobInv'
<1> DEFINE h == handler
<1>1. /\ TypeOK /\ handler \in HandlerState /\ jobs \in Seq(Job) /\ shutdown \in BOOLEAN
      /\ active \subseteq DOMAIN jobs /\ cancelled \subseteq DOMAIN jobs
      /\ reported \subseteq DOMAIN jobs /\ DOMAIN jobs \subseteq Nat
      /\ handler.todo \subseteq DOMAIN jobs /\ handler.posting \subseteq DOMAIN jobs
      /\ handler.waiting \subseteq DOMAIN jobs /\ HandlerRests
      /\ handler.posting \subseteq cancelled
  BY DEF JobInv, TypeOK, HandlerRests
<1>2. jobs' = jobs => /\ JobsKept /\ DOMAIN jobs' = DOMAIN jobs /\ NewCancels = {}
                      /\ Live' = Live
  BY <1>1, JobsUnchanged DEF Live
<1>3. /\ handler = [pc |-> h.pc, todo |-> h.todo, posting |-> h.posting,
                    waiting |-> h.waiting]
      /\ h.pc \in {"idle", "snapshot", "cancelling", "done"}
  BY <1>1 DEF HandlerState
<1>4. h.pc # "cancelling" => /\ h.todo = {} /\ h.waiting = {}
                             /\ h.posting \cap Live \subseteq reported
                             /\ h.pc # "done" => h.posting = {}
  BY <1>1, <1>3 DEF HandlerRests
<1>5. CASE Signal
  <2>1. PICK label \in {"snapshot", "done"} : handler' = [handler EXCEPT !.pc = label]
    BY <1>5 DEF Signal
  <2>2. handler' = [pc |-> label, todo |-> {}, posting |-> {}, waiting |-> {}]
    BY <1>3, <1>4, <1>5, <2>1 DEF Signal
  <2>3. /\ UNCHANGED <<jobs, active, cancelled, reported, lock, thread>>
        /\ shutdown' = TRUE /\ h.waiting = {} /\ h.posting = {}
    BY <1>4, <1>5 DEF Signal, registry
  <2>4. handler' \in HandlerState /\ HandlerRests'
    <3>1. {} \subseteq DOMAIN jobs /\ {} \subseteq cancelled' /\ {} \cap Live' \subseteq reported'
      OBVIOUS
    <3>2. QED BY <1>2, <2>2, <2>3, <3>1, HandlerMoves
  <2>5. QED BY <1>1, <1>2, <2>2, <2>3, <2>4, OutsideStep
<1>6. CASE Snapshot
  <2>1. handler' = [pc |-> "cancelling", todo |-> active, posting |-> {}, waiting |-> {}]
    BY <1>3, <1>4, <1>6 DEF Snapshot
  <2>2. /\ UNCHANGED <<jobs, active, cancelled, reported, lock, shutdown, thread>>
        /\ h.waiting = {} /\ h.posting = {}
    BY <1>4, <1>6 DEF Snapshot, registry
  <2>3. handler' \in HandlerState /\ HandlerRests'
    BY <1>1, <1>2, <2>1, <2>2, HandlerMoves
  <2>4. QED BY <1>1, <1>2, <2>1, <2>2, <2>3, OutsideStep
<1>7. CASE ShutdownDone
  <2> DEFINE left == h.todo \cup h.posting \cup h.waiting
  <2>1. handler' = [pc |-> "done", todo |-> {}, posting |-> h.posting, waiting |-> {}]
    BY <1>3, <1>7 DEF ShutdownDone
  <2>2. /\ UNCHANGED <<jobs, active, cancelled, lock, shutdown, thread>>
        /\ reported' = reported \cup (left \cap Live) /\ left \subseteq DOMAIN jobs
    BY <1>1, <1>7 DEF ShutdownDone
  <2>3. handler' \in HandlerState /\ HandlerRests'
    <3>1. /\ {} \subseteq DOMAIN jobs /\ h.posting \subseteq DOMAIN jobs
          /\ h.posting \subseteq cancelled' /\ h.posting \cap Live' \subseteq reported'
      BY <1>1, <1>2, <2>2
    <3>2. QED BY <1>2, <2>1, <2>2, <3>1, HandlerMoves
  <2>4. QED BY <1>1, <1>2, <2>1, <2>2, <2>3, OutsideStep
<1>8. ASSUME NEW j \in DOMAIN jobs, NoteCancel(j)
      PROVE  JobInv'
  <2>1. /\ h.pc = "cancelling" /\ cancelled' = cancelled \cup {j}
        /\ UNCHANGED <<jobs, active, reported, lock, shutdown, thread>>
    BY <1>4, <1>8 DEF NoteCancel
  <2>2. handler' = [pc |-> "cancelling", todo |-> h.todo \ {j}, posting |-> h.posting \cup {j},
                    waiting |-> h.waiting]
    BY <1>3, <1>8, <2>1 DEF NoteCancel
  <2>3. /\ h.todo \ {j} \subseteq DOMAIN jobs /\ h.posting \cup {j} \subseteq DOMAIN jobs
        /\ h.waiting \subseteq DOMAIN jobs
        /\ h.posting \cup {j} \subseteq cancelled'
    BY <1>1, <2>1
  <2>4. handler' \in HandlerState /\ HandlerRests'
    <3> DEFINE todo == h.todo \ {j}
               posting == h.posting \cup {j}
    <3>1. handler' = [pc |-> "cancelling", todo |-> todo, posting |-> posting,
                      waiting |-> h.waiting]
      BY <2>2
    <3>2. todo \subseteq DOMAIN jobs /\ posting \subseteq DOMAIN jobs /\ posting \subseteq cancelled'
      BY <2>3
    <3> HIDE DEF todo, posting
    <3>3. QED BY <1>2, <2>1, <2>3, <3>1, <3>2, HandlerMoves
  <2>5. QED BY <1>1, <1>2, <2>1, <2>2, <2>4, OutsideStep
<1>9. ASSUME NEW j \in DOMAIN jobs, PostCancel(j)
      PROVE  JobInv'
  <2>1. /\ j \in h.posting /\ UNCHANGED <<active, cancelled, lock, shutdown, thread>>
        /\ j \in cancelled
    BY <1>1, <1>9 DEF PostCancel
  <2>2. CASE h.pc = "cancelling"
    <3>1. CASE /\ jobs' = AskedToCancel(j) /\ UNCHANGED reported
               /\ handler' = [pc |-> "cancelling", todo |-> h.todo,
                              posting |-> h.posting \ {j}, waiting |-> h.waiting \cup {j}]
      <4>1. JobsKept /\ DOMAIN jobs' = DOMAIN jobs /\ NewCancels \subseteq {j}
        BY <1>1, <3>1, CancelAsked
      <4>2. /\ h.todo \subseteq DOMAIN jobs /\ h.posting \ {j} \subseteq DOMAIN jobs
            /\ h.waiting \cup {j} \subseteq DOMAIN jobs
            /\ h.posting \ {j} \subseteq cancelled'
        BY <1>1, <2>1
      <4>3. handler' \in HandlerState /\ HandlerRests'
        BY <2>1, <3>1, <4>1, <4>2, HandlerMoves
      <4>4. QED BY <1>1, <2>1, <3>1, <4>1, <4>3, OutsideStep
    <3>2. CASE /\ jobs' = jobs /\ reported' = reported \cup ({j} \cap Live)
               /\ handler' = [pc |-> "cancelling", todo |-> h.todo,
                              posting |-> h.posting \ {j}, waiting |-> h.waiting]
      <4>1. /\ h.todo \subseteq DOMAIN jobs /\ h.posting \ {j} \subseteq DOMAIN jobs
            /\ h.waiting \subseteq DOMAIN jobs
            /\ h.posting \ {j} \subseteq cancelled'
        BY <1>1, <2>1
      <4>2. handler' \in HandlerState /\ HandlerRests'
        BY <1>2, <2>1, <3>2, <4>1, HandlerMoves
      <4>3. QED BY <1>1, <1>2, <2>1, <3>2, <4>2, OutsideStep
    <3>3. QED BY <1>3, <1>9, <2>2, <3>1, <3>2 DEF PostCancel
  <2>3. CASE h.pc # "cancelling"
    <3>1. /\ h.pc = "done" /\ h.todo = {} /\ h.waiting = {}
          /\ h.posting \cap Live \subseteq reported
      BY <1>4, <2>1, <2>3
    <3>2. handler' = [pc |-> "done", todo |-> {}, posting |-> h.posting \ {j}, waiting |-> {}]
      BY <1>3, <1>9, <3>1 DEF PostCancel
    <3>3. /\ jobs' = AskedToCancel(j) \/ jobs' = jobs
          /\ reported \subseteq reported' /\ reported' \subseteq DOMAIN jobs
      BY <1>1, <1>9 DEF PostCancel
    <3>4. JobsKept /\ DOMAIN jobs' = DOMAIN jobs /\ NewCancels \subseteq {j}
      BY <1>1, <1>2, <3>3, CancelAsked
    <3>5. Live' \subseteq Live
      BY <3>4 DEF JobsKept, Live
    <3>6. handler' \in HandlerState /\ HandlerRests'
      <4>1. /\ {} \subseteq DOMAIN jobs /\ h.posting \ {j} \subseteq DOMAIN jobs
            /\ h.posting \ {j} \subseteq cancelled'
            /\ (h.posting \ {j}) \cap Live' \subseteq reported'
        BY <1>1, <2>1, <3>1, <3>3, <3>5
      <4>2. QED BY <3>2, <3>4, <4>1, HandlerMoves
    <3>7. \A i \in Live' : i \in h.posting => i \in reported'
      BY <3>1, <3>3, <3>5
    <3>8. QED BY <1>1, <2>1, <3>1, <3>2, <3>3, <3>4, <3>6, <3>7, OutsideStep
  <2>4. QED BY <2>2, <2>3
<1>10. QED BY <1>5, <1>6, <1>7, <1>8, <1>9 DEF Handle

LEMMA ServiceStep ==
  ASSUME JobInv, NEW j \in DOMAIN jobs, JobEnds(j)
  PROVE  JobInv'
<1> PICK ok \in BOOLEAN : jobs' = [jobs EXCEPT ![j].state = "ended", ![j].succeeded = ok]
  BY DEF JobEnds
<1> DEFINE job == [jobs[j] EXCEPT !.state = "ended", !.succeeded = ok]
<1>1. jobs[j] \in Job /\ TypeOK /\ UNCHANGED <<registry, lock, shutdown, handler, thread>>
  BY DEF JobInv, TypeOK, JobEnds
<1>2. /\ job \in Job /\ job.by = jobs[j].by /\ job.answered = jobs[j].answered
      /\ job.state = "ended"
  BY <1>1 DEF Job
<1>3. jobs' = [jobs EXCEPT ![j] = job]
  OBVIOUS
<1> HIDE DEF job
<1>4. JobsKept /\ DOMAIN jobs' = DOMAIN jobs /\ NewCancels = {}
  BY <1>1, <1>2, <1>3, JobReplaced
<1>5. HandlerRests'
  <2>1. Live' \subseteq Live
    BY <1>4 DEF JobsKept, Live
  <2>2. QED BY <1>1, <1>4, <2>1 DEF JobInv, HandlerRests, registry
<1>6. QED
  BY <1>1, <1>4, <1>5, OutsideStep DEF registry, JobInv, TypeOK

-----------------------------------------------------------------------------
(* The invariant and what follows from it *)

LEMMA InitJobInv == Init => JobInv
<1> SUFFICES ASSUME Init PROVE JobInv
  OBVIOUS
<1>1. \A j \in 1..MaxForeign : /\ NewJob(Foreign, TRUE) \in Job /\ jobs[j] \in Job
                               /\ jobs[j].by = Foreign
  BY DEF Init, NewJob, Job
<1>2. jobs \in Seq(Job) /\ DOMAIN jobs = 1..MaxForeign
  <2>1. jobs \in [1..MaxForeign -> Job] /\ MaxForeign \in Nat
    BY <1>1, LimitsAssumption DEF Init
  <2>2. QED BY <2>1
<1>3. \A j \in DOMAIN jobs : ~Own(j) /\ ~Named(j)
  BY <1>1, <1>2, ThreadsAssumption DEF Own, Named
<1>4. \A t \in Threads : /\ thread[t].pc = "submit" /\ thread[t].victims = {}
  BY DEF Init
<1>5. thread \in [Threads -> Locals]
  BY LimitsAssumption DEF Init, Locals, PCs
<1>6. TypeOK
  BY <1>2, <1>5 DEF Init, TypeOK, HandlerState
<1>7. ThreadsJob /\ LiveJobs /\ VictimsListed /\ OwnCancelsNoted /\ OneLiveIfSafe
  BY <1>3, <1>4 DEF ThreadsJob, LiveJobs, VictimsListed, OwnCancelsNoted, OneLiveIfSafe,
                    OneLiveJob, HasJob, Live, Own
<1>8. CancelsFollowed /\ HandlerRests
  BY DEF Init, CancelsFollowed, HandlerRests
<1>9. QED BY <1>6, <1>7, <1>8 DEF JobInv

LEMMA NextJobInv == JobInv /\ [Next]_vars => JobInv'
<1> SUFFICES ASSUME JobInv, [Next]_vars PROVE JobInv'
  OBVIOUS
<1>1. ASSUME NEW t \in Threads, Step(t) \/ GiveUp(t)
      PROVE  JobInv'
  BY <1>1, SubmitSteps, PutStep, WaitSteps DEF Step
<1>2. CASE UNCHANGED vars
  <2>1. UNCHANGED <<jobs, active, cancelled, reported, lock, shutdown, handler, thread>>
    BY <1>2 DEF vars
  <2>2. TypeOK' /\ HandlerRests'
    BY <2>1 DEF JobInv, TypeOK, HandlerRests, Live
  <2>3. ThreadsJob' /\ LiveJobs' /\ CancelsFollowed'
    BY <2>1 DEF JobInv, ThreadsJob, LiveJobs, CancelsFollowed, Live, Own, At, SafeRules
  <2>4. VictimsListed' /\ OwnCancelsNoted' /\ OneLiveIfSafe'
    BY <2>1 DEF JobInv, VictimsListed, OwnCancelsNoted, OneLiveIfSafe, OneLiveJob, Live, Own,
                Named, SafeRules
  <2>5. QED BY <2>2, <2>3, <2>4 DEF JobInv
<1>3. QED
  BY <1>1, <1>2, HandlerStep, ServiceStep DEF Next, Terminated

(* The inductive invariant: every live job is in the hands of its thread,   *)
(* or of whoever noted its cancel, or was never answered for.               *)
THEOREM JobInvariant == Spec => []JobInv
<1>1. QED BY InitJobInv, NextJobInv, PTL DEF Spec

(* Type correctness, with every attempt and retry within its limit.         *)
THEOREM JobTypeCorrect == Spec => []TypeOK
<1>1. JobInv => TypeOK
  BY DEF JobInv
<1>2. QED BY <1>1, JobInvariant, PTL

(* A model's job is never cancelled by this run without a note of it:       *)
(* eviction, whose list is older than its POSTs, never hits one.            *)
THEOREM OwnJobsCancelledKnowingly == Spec => []OwnCancelsNoted
<1>1. JobInv => OwnCancelsNoted
  BY DEF JobInv
<1>2. QED BY <1>1, JobInvariant, PTL

(* A model's script is in one live job at most, whatever execute retries,   *)
(* as long as no rule matches the error of a job that may still commit.     *)
THEOREM ScriptRunsOnce == SafeRules /\ Spec => []OneLiveJob
<1>1. SafeRules /\ JobInv => OneLiveJob
  BY DEF JobInv, OneLiveIfSafe
<1>2. SUFFICES ASSUME SafeRules PROVE Spec => []OneLiveJob
  OBVIOUS
<1>3. JobInv => OneLiveJob
  BY <1>1, <1>2
<1>4. QED BY <1>3, JobInvariant, PTL

(* After its thread and the shutdown a job has ended, or the log names it,  *)
(* or its PUT was never answered.                                           *)
THEOREM JobsAreAccountedFor == Spec => []NothingLeftRunning
<1>1. JobInv => NothingLeftRunning
  <2> SUFFICES ASSUME JobInv, NEW j \in Live, Own(j), handler.pc \in {"idle", "done"},
                      thread[jobs[j].by].pc \in Over, jobs[j].answered
               PROVE  j \in reported
    BY DEF NothingLeftRunning
  <2>1. j \in cancelled
    BY DEF JobInv, LiveJobs, HasJob, Over
  <2>2. j \in handler.posting \cup handler.waiting => j \in reported
    BY DEF JobInv, HandlerRests
  <2>3. ASSUME NEW t \in Threads, At(t, "awaitCancel"), thread[t].job = j
        PROVE  FALSE
    <3>1. jobs[j].by = t
      BY <2>3 DEF JobInv, ThreadsJob, At, HasJob
    <3>2. QED BY <2>3, <3>1 DEF At, Over
  <2>4. QED BY <2>1, <2>2, <2>3 DEF JobInv, CancelsFollowed
<1>2. QED BY <1>1, JobInvariant, PTL
=============================================================================
