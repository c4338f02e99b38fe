------------------------ MODULE SchemaEvolutionProofs ------------------------
(***************************************************************************)
(* Theorems about SchemaEvolution, for any columns, types and models, and  *)
(* any number of runs, jobs and migrations: a comparison made once stays   *)
(* good for every script that its run submits, and for what the run leaves *)
(* behind when it is gone.                                                 *)
(***************************************************************************)
EXTENDS SchemaEvolution, TLAPS

(* A script that declares d and adds the columns a does what it should to s *)
Ready(d, a, s) == s = NoTable \/ (Fits(d, s) /\ Executable(s, d, a))

Settled == {"discover", "compare", "submit", "wait"}
Active(r) == run[r].pc \notin Over \cup {"idle"}

(* Runs come one after the other, and one job at a time is alive: that of   *)
(* the run that waits for it, or one that its run left behind.              *)
Sequential ==
    \A q, r \in Runs : q < r /\ run[r].pc # "idle" => run[q].pc \in Over
OneLive == \A j, k \in DOMAIN jobs : Live(j) /\ Live(k) => j = k
RunAlone ==
    \A r \in Runs : run[r].pc \in Settled =>
        \A j \in DOMAIN jobs : Live(j) => run[r].pc = "wait" /\ j = run[r].job
OwnJob ==
    \A r \in Runs : run[r].pc = "wait" =>
        /\ run[r].job \in DOMAIN jobs
        /\ jobs[run[r].job].declared = run[r].declared
        /\ jobs[run[r].job].adds = run[r].adds
        /\ jobs[run[r].job].blind = run[r].blind

(* What is declared is a model, and the table has its partition columns.    *)
Declared ==
    /\ \A r \in Runs : Active(r) => run[r].declared \in Models
    /\ \A j \in DOMAIN jobs : jobs[j].declared \in Models
PartitionKept ==
    schema # NoTable => \A c \in Partition \cap Columns : Has(schema, c)

(* From its comparison on a run's columns, and those of a live job, are     *)
(* ready for the table, unless the run took the table for absent.           *)
ComparedOnce ==
    \A r \in Runs : /\ run[r].pc \in {"idle", "settle"} => ~run[r].compared
                    /\ run[r].pc \in {"submit", "wait"} => run[r].compared
RunsReady ==
    \A r \in Runs : run[r].pc \in Settled /\ run[r].compared /\ ~run[r].blind =>
        Ready(run[r].declared, run[r].adds, schema)
JobsReady ==
    \A j \in DOMAIN jobs : Live(j) /\ ~jobs[j].blind =>
        Ready(jobs[j].declared, jobs[j].adds, schema)

SchemaInv ==
    /\ TypeOK
    /\ Sequential /\ OneLive /\ RunAlone /\ OwnJob
    /\ Declared /\ PartitionKept
    /\ ComparedOnce /\ RunsReady /\ JobsReady
    /\ NoneRejected

-----------------------------------------------------------------------------
(* The comparison and the statements of a script *)

LEMMA ModelsDeclare ==
  ASSUME NEW d \in Models
  PROVE  d \in Declaration /\ d # NoTable /\ \A c \in Partition \cap Columns : Has(d, c)
BY ModelsAssumption

LEMMA AlteredType ==
  ASSUME NEW s \in Declaration, NEW d \in Declaration, NEW a \in SUBSET Columns
  PROVE  /\ Altered(s, d, a) \in Declaration
         /\ \A c \in Columns : Has(s, c) => Altered(s, d, a)[c] = s[c]
         /\ s = NoTable => Altered(s, d, a) = d
         /\ s # NoTable => \A c \in Columns :
                Altered(s, d, a)[c] = IF ~Has(s, c) /\ c \in a THEN d[c] ELSE s[c]
BY DEF Altered, Declaration, Has, NoTable

(* A column of the table never goes away by a commit.                       *)
LEMMA AlteredKeepsPartition ==
  ASSUME NEW s \in Declaration, NEW d \in Models, NEW a \in SUBSET Columns,
         s # NoTable => \A c \in Partition \cap Columns : Has(s, c)
  PROVE  \A c \in Partition \cap Columns : Has(Altered(s, d, a), c)
<1>1. d \in Declaration /\ \A c \in Partition \cap Columns : Has(d, c)
  BY ModelsDeclare
<1>2. CASE s = NoTable
  BY <1>1, <1>2, AlteredType
<1>3. CASE s # NoTable
  BY <1>1, <1>3, AlteredType DEF Has
<1>4. QED BY <1>2, <1>3

(* What diff_schema_for_evolution does not refuse is ready with what it     *)
(* returns.                                                                 *)
LEMMA ComparisonReady ==
  ASSUME NEW s \in Declaration, NEW d \in Declaration,
         s # NoTable, \A c \in Partition \cap Columns : Has(s, c),
         ~Incompatible(d, s)
  PROVE  Ready(d, ToAdd(d, s), s)
<1> DEFINE a == ToAdd(d, s)
<1>1. Fits(d, s)
  BY DEF Fits, Incompatible, Differ
<1>2. a \in SUBSET Columns
  BY DEF ToAdd
<1>3. ASSUME NEW c \in Columns, Has(d, c)
      PROVE  Has(Altered(s, d, a), c)
  <2>1. CASE Has(s, c)
    BY <1>2, <2>1, AlteredType DEF Has
  <2>2. CASE ~Has(s, c)
    <3>1. c \in a
      BY <1>3, <2>2 DEF ToAdd
    <3> HIDE DEF a
    <3>2. Altered(s, d, a)[c] = d[c]
      BY <1>2, <2>2, <3>1, AlteredType
    <3>3. QED BY <1>3, <3>2 DEF Has
  <2>3. QED BY <2>1, <2>2
<1>4. QED BY <1>1, <1>3 DEF Ready, Executable

(* A script that is ready can be executed, fits the table that it leaves    *)
(* behind, and is ready for it again: it may be resubmitted.                *)
LEMMA CommitLeavesReady ==
  ASSUME NEW s \in Declaration, NEW d \in Declaration, NEW a \in SUBSET Columns,
         Ready(d, a, s)
  PROVE  /\ Executable(s, d, a)
         /\ Fits(d, Altered(s, d, a))
         /\ Ready(d, a, Altered(s, d, a))
<1> DEFINE t == Altered(s, d, a)
<1>1. t \in Declaration /\ Executable(s, d, a)
  BY AlteredType DEF Ready, Executable
<1>2. Fits(d, t)
  <2>1. CASE s = NoTable
    <3>1. t = d
      BY <2>1, AlteredType
    <3>2. QED BY <3>1 DEF Fits
  <2>2. CASE s # NoTable
    <3> SUFFICES ASSUME NEW c \in Columns \ Partition, Has(t, c)
                 PROVE  /\ Has(d, c)
                        /\ \/ Canonical[d[c]] = Canonical[t[c]]
                           \/ Unknown \in {Canonical[d[c]], Canonical[t[c]]}
      BY DEF Fits
    <3>1. Fits(d, s)
      BY <2>2 DEF Ready
    <3>2. CASE Has(s, c)
      BY <3>1, <3>2, AlteredType DEF Fits
    <3>3. CASE ~Has(s, c)
      <4>1. t[c] = d[c]
        BY <2>2, <3>3, AlteredType DEF Has
      <4>2. QED BY <4>1 DEF Has
    <3>4. QED BY <3>2, <3>3
  <2>3. QED BY <2>1, <2>2
<1>3. Executable(t, d, a)
  <2>1. \A c \in Columns : Has(d, c) => Has(t, c)
    BY <1>1 DEF Executable
  <2>2. \A c \in Columns : Has(t, c) => Has(Altered(t, d, a), c)
    <3> HIDE DEF t
    <3>1. QED BY <1>1, AlteredType DEF Has
  <2>3. QED BY <2>1, <2>2 DEF Executable
<1>4. QED BY <1>1, <1>2, <1>3 DEF Ready

-----------------------------------------------------------------------------
(* A run's steps *)

Quiet == \A j \in DOMAIN jobs : ~Live(j)

(* A step that changes one run's locals and nothing else, and after which   *)
(* that run does not wait for a job.                                        *)
LEMMA LocalStep ==
  ASSUME SchemaInv, NEW r \in Runs, NEW locals \in RunState,
         run' = [run EXCEPT ![r] = locals], UNCHANGED <<schema, jobs, migrations>>,
         run[r].pc \notin Over,
         run[r].pc = "idle" => \A q \in Runs : q < r => run[q].pc \in Over,
         locals.pc \notin {"idle", "wait"},
         locals.pc \in Settled => Quiet,
         locals.pc \notin Over => locals.declared \in Models,
         locals.pc = "settle" => ~locals.compared,
         locals.pc = "submit" => locals.compared,
         locals.pc \in Settled /\ locals.compared /\ ~locals.blind =>
             Ready(locals.declared, locals.adds, schema)
  PROVE  SchemaInv'
<1>1. /\ TypeOK /\ run \in [Runs -> RunState]
      /\ run'[r] = locals
      /\ \A q \in Runs \ {r} : run'[q] = run[q]
      /\ \A j \in DOMAIN jobs : Live(j)' <=> Live(j)
  BY DEF SchemaInv, TypeOK, Live
<1>2. TypeOK'
  BY <1>1 DEF TypeOK
<1>3. Sequential'
  <2> SUFFICES ASSUME NEW q \in Runs, NEW p \in Runs, q < p, run'[p].pc # "idle"
               PROVE  run'[q].pc \in Over
    BY DEF Sequential
  <2>1. run[q].pc \in Over
    BY <1>1 DEF SchemaInv, Sequential
  <2>2. QED BY <1>1, <2>1
<1>4. OneLive'
  BY <1>1 DEF SchemaInv, OneLive
<1>5. RunAlone'
  BY <1>1 DEF SchemaInv, RunAlone, Quiet
<1>6. OwnJob'
  BY <1>1 DEF SchemaInv, OwnJob
<1>7. Declared'
  BY <1>1 DEF SchemaInv, Declared, Active
<1>8. PartitionKept' /\ NoneRejected' /\ JobsReady'
  BY <1>1 DEF SchemaInv, PartitionKept, NoneRejected, JobsReady
<1>9. ComparedOnce'
  BY <1>1 DEF SchemaInv, ComparedOnce
<1>10. RunsReady'
  BY <1>1 DEF SchemaInv, RunsReady
<1>11. QED
  BY <1>2, <1>3, <1>4, <1>5, <1>6, <1>7, <1>8, <1>9, <1>10 DEF SchemaInv

(* A run that ends keeps the invariant, wherever it was.                    *)
LEMMA EndStep ==
  ASSUME SchemaInv, NEW r \in Runs, NEW label \in Over, End(r, label),
         run[r].pc \notin Over \cup {"idle"}, UNCHANGED <<schema, jobs, migrations>>
  PROVE  SchemaInv'
<1> DEFINE locals == [Idle EXCEPT !.pc = label]
<1>1. Idle \in RunState
  BY BoundsAssumption DEF Idle, RunState, PCs, NoTable, Declaration
<1>2. locals \in RunState /\ locals.pc = label
  BY <1>1 DEF RunState, PCs, Over
<1>3. run' = [run EXCEPT ![r] = locals]
  BY DEF End
<1>4. Over \cap {"idle", "wait", "settle", "submit"} = {} /\ Over \cap Settled = {}
  BY DEF Over, Settled
<1> HIDE DEF locals
<1>5. QED BY <1>2, <1>3, <1>4, LocalStep

(* A run that only moves on keeps its columns.                              *)
LEMMA MoveStep ==
  ASSUME SchemaInv, NEW r \in Runs, NEW label \in {"discover", "compare", "submit"},
         NEW n \in 0..MaxResubmits,
         run' = [run EXCEPT ![r].resubmits = n, ![r].pc = label],
         UNCHANGED <<schema, jobs, migrations>>,
         run[r].pc \in Settled \cup {"settle"}, Quiet,
         label = "submit" => run[r].compared
  PROVE  SchemaInv'
<1> DEFINE locals == [run[r] EXCEPT !.resubmits = n, !.pc = label]
<1>1. run \in [Runs -> RunState] /\ run[r] \in RunState
  BY DEF SchemaInv, TypeOK
<1>2. /\ locals \in RunState /\ locals.pc = label /\ locals.declared = run[r].declared
      /\ locals.compared = run[r].compared /\ locals.adds = run[r].adds
      /\ locals.blind = run[r].blind
  BY <1>1 DEF RunState, PCs
<1>3. run' = [run EXCEPT ![r] = locals]
  BY <1>1
<1> HIDE DEF locals
<1>4. run[r].pc \notin Over \cup {"idle"}
  BY DEF Over, Settled
<1>5. run[r].declared \in Models
  BY <1>4 DEF SchemaInv, Declared, Active
<1>6. run[r].compared /\ ~run[r].blind => Ready(run[r].declared, run[r].adds, schema)
  BY DEF SchemaInv, RunsReady, ComparedOnce
<1>7. QED BY <1>2, <1>3, <1>4, <1>5, <1>6, LocalStep

LEMMA StartStep ==
  ASSUME SchemaInv, NEW r \in Runs, Start(r)
  PROVE  SchemaInv'
<1> PICK m \in Models : run' = [run EXCEPT ![r].declared = m, ![r].pc = "settle"]
  BY DEF Start
<1> DEFINE locals == [run[r] EXCEPT !.declared = m, !.pc = "settle"]
<1>1. run[r] \in RunState /\ run[r].pc = "idle" /\ ~run[r].compared
  BY DEF SchemaInv, TypeOK, Start, At, ComparedOnce
<1>2. /\ locals \in RunState /\ locals.pc = "settle" /\ locals.declared = m
      /\ locals.compared = run[r].compared
  BY <1>1, ModelsDeclare DEF RunState, PCs
<1>3. run' = [run EXCEPT ![r] = locals]
  BY DEF SchemaInv, TypeOK
<1> HIDE DEF locals
<1>4. QED BY <1>1, <1>2, <1>3, LocalStep DEF Start, Over, Settled

LEMMA CompareStep ==
  ASSUME SchemaInv, NEW r \in Runs, Compare(r)
  PROVE  SchemaInv'
<1> DEFINE d == run[r].declared
<1>1. /\ run \in [Runs -> RunState] /\ run[r] \in RunState /\ run[r].pc = "compare"
      /\ schema \in Declaration /\ UNCHANGED <<schema, jobs, migrations>>
  BY DEF SchemaInv, TypeOK, Compare, At
<1>2. d \in Models /\ d \in Declaration /\ Quiet
  <2>1. d \in Models
    BY <1>1 DEF SchemaInv, Declared, Active, Over
  <2>2. Quiet
    BY <1>1 DEF SchemaInv, RunAlone, Settled, Quiet
  <2>3. QED BY <2>1, <2>2, ModelsDeclare
<1>3. ASSUME NEW a \in SUBSET Columns, NEW b \in BOOLEAN, Compared(r, a, b),
             ~b => Ready(d, a, schema)
      PROVE  SchemaInv'
  <2> DEFINE locals == [run[r] EXCEPT !.adds = a, !.blind = b, !.compared = TRUE,
                                      !.pc = "submit"]
  <2>1. /\ locals \in RunState /\ locals.pc = "submit" /\ locals.declared = d
        /\ locals.adds = a /\ locals.blind = b /\ locals.compared
    BY <1>1 DEF RunState, PCs
  <2>2. run' = [run EXCEPT ![r] = locals]
    BY <1>1, <1>3 DEF Compared
  <2> HIDE DEF locals
  <2>3. QED BY <1>1, <1>2, <1>3, <2>1, <2>2, LocalStep DEF Over
<1>4. CASE End(r, "failed")
  BY <1>1, <1>4, EndStep DEF Over
<1>5. CASE schema = NoTable /\ Compared(r, {}, FALSE)
  BY <1>3, <1>5 DEF Ready
<1>6. CASE Compared(r, {}, TRUE)
  BY <1>3, <1>6
<1>7. CASE /\ schema # NoTable /\ ~Incompatible(d, schema)
           /\ Compared(r, ToAdd(d, schema), FALSE)
  <2>1. \A c \in Partition \cap Columns : Has(schema, c)
    BY <1>7 DEF SchemaInv, PartitionKept
  <2>2. Ready(d, ToAdd(d, schema), schema)
    BY <1>1, <1>2, <1>7, <2>1, ComparisonReady
  <2>3. ToAdd(d, schema) \in SUBSET Columns
    BY DEF ToAdd
  <2>4. QED BY <1>3, <1>7, <2>2, <2>3
<1>8. QED BY <1>4, <1>5, <1>6, <1>7 DEF Compare

LEMMA SubmitStep ==
  ASSUME SchemaInv, NEW r \in Runs, Submit(r)
  PROVE  SchemaInv'
<1> DEFINE job == [declared |-> run[r].declared, adds |-> run[r].adds,
                   blind |-> run[r].blind, run |-> r, state |-> "active"]
           n == Len(jobs) + 1
           locals == [run[r] EXCEPT !.job = n, !.pc = "wait"]
<1>1. /\ TypeOK /\ run \in [Runs -> RunState] /\ run[r] \in RunState /\ run[r].pc = "submit"
      /\ jobs \in Seq(Job) /\ UNCHANGED <<schema, migrations>>
      /\ jobs' = Append(jobs, job) /\ run' = [run EXCEPT ![r] = locals]
  BY DEF SchemaInv, TypeOK, Submit, At
<1>2. /\ Len(jobs) \in Nat /\ DOMAIN jobs = 1..Len(jobs)
      /\ DOMAIN jobs' = 1..n /\ jobs'[n] = job
      /\ \A j \in DOMAIN jobs : jobs'[j] = jobs[j]
  BY <1>1
<1>3. /\ locals \in RunState /\ locals.pc = "wait" /\ locals.job = n
      /\ locals.declared = run[r].declared /\ locals.adds = run[r].adds
      /\ locals.blind = run[r].blind /\ locals.compared = run[r].compared
  <2>1. n \in Nat /\ run[r] \in RunState
    BY <1>1, <1>2
  <2> HIDE DEF n
  <2>2. QED BY <2>1 DEF RunState, PCs
<1>4. job \in Job /\ job.declared = run[r].declared /\ job.adds = run[r].adds
      /\ job.blind = run[r].blind /\ job.state = "active"
  BY <1>1 DEF Job, RunState, JobStates
<1> HIDE DEF job, locals
<1>5. Quiet /\ run[r].compared /\ run[r].declared \in Models
  BY <1>1 DEF SchemaInv, RunAlone, Settled, Quiet, ComparedOnce, Declared, Active, Over
<1>6. ~run[r].blind => Ready(run[r].declared, run[r].adds, schema)
  BY <1>1, <1>5 DEF SchemaInv, RunsReady, Settled
<1>7. /\ run'[r] = locals /\ \A q \in Runs \ {r} : run'[q] = run[q]
      /\ \A j \in DOMAIN jobs : Live(j)' <=> Live(j)
  BY <1>1, <1>2 DEF Live
<1>8. \A j \in DOMAIN jobs' : Live(j)' => j = n
  BY <1>2, <1>5, <1>7 DEF Quiet
<1>9. TypeOK'
  BY <1>1, <1>3, <1>4 DEF TypeOK
<1>10. \A q \in Runs \ {r} : run[q].pc \notin Settled
  <2> SUFFICES ASSUME NEW q \in Runs \ {r}
               PROVE  run[q].pc \notin Settled
    OBVIOUS
  <2>1. q < r \/ r < q
    BY BoundsAssumption DEF Runs
  <2>2. CASE q < r
    BY <1>1, <2>2 DEF SchemaInv, Sequential, Over, Settled
  <2>3. CASE r < q
    BY <1>1, <2>3 DEF SchemaInv, Sequential, Over, Settled
  <2>4. QED BY <2>1, <2>2, <2>3
<1>11. Sequential'
  BY <1>1, <1>3, <1>7 DEF SchemaInv, Sequential, Over
<1>12. OneLive' /\ RunAlone' /\ OwnJob'
  BY <1>2, <1>3, <1>4, <1>7, <1>8, <1>10 DEF OneLive, RunAlone, OwnJob, Settled
<1>13. Declared' /\ PartitionKept'
  BY <1>1, <1>2, <1>3, <1>4, <1>5, <1>7 DEF SchemaInv, Declared, PartitionKept, Active
<1>14. ComparedOnce' /\ RunsReady'
  BY <1>1, <1>3, <1>5, <1>6, <1>7 DEF SchemaInv, ComparedOnce, RunsReady
<1>15. JobsReady' /\ NoneRejected'
  BY <1>1, <1>2, <1>4, <1>6, <1>8 DEF SchemaInv, JobsReady, NoneRejected
<1>16. QED
  BY <1>9, <1>11, <1>12, <1>13, <1>14, <1>15 DEF SchemaInv

LEMMA RunSteps ==
  ASSUME SchemaInv, NEW r \in Runs, RunStep(r) \/ GiveUp(r)
  PROVE  SchemaInv'
<1>1. /\ run \in [Runs -> RunState] /\ run[r] \in RunState /\ jobs \in Seq(Job)
      /\ MaxResubmits \in Nat
  BY BoundsAssumption DEF SchemaInv, TypeOK
<1>2. run[r].resubmits \in 0..MaxResubmits
  BY <1>1 DEF RunState
<1>3. ASSUME NEW label \in PCs, Goto(r, label)
      PROVE  run' = [run EXCEPT ![r].resubmits = run[r].resubmits, ![r].pc = label]
  BY <1>1, <1>3 DEF Goto, RunState
<1>4. CASE Settle(r)
  BY <1>1, <1>2, <1>3, <1>4, MoveStep DEF Settle, At, Quiet, PCs
<1>5. CASE Discover(r)
  <2>1. run[r].pc = "discover" /\ UNCHANGED <<schema, jobs, migrations>>
    BY <1>5 DEF Discover, At
  <2>2. Quiet
    BY <2>1 DEF SchemaInv, RunAlone, Settled, Quiet
  <2>3. CASE Goto(r, IF run[r].compared THEN "submit" ELSE "compare")
    BY <1>2, <1>3, <2>1, <2>2, <2>3, MoveStep DEF Settled, PCs
  <2>4. CASE End(r, "done")
    BY <2>1, <2>4, EndStep DEF Over
  <2>5. QED BY <1>5, <2>3, <2>4 DEF Discover
<1>6. CASE JobSucceeded(r) \/ JobFailed(r)
  <2>1. /\ run[r].pc = "wait" /\ JobState(r) # "active"
        /\ UNCHANGED <<schema, jobs, migrations>>
    BY <1>6 DEF JobSucceeded, JobFailed, At
  <2>2. Quiet /\ run[r].compared
    BY <2>1 DEF SchemaInv, RunAlone, Settled, Quiet, JobState, Live, ComparedOnce
  <2>3. CASE JobSucceeded(r)
    <3>1. 0 \in 0..MaxResubmits /\ "discover" \in {"discover", "compare", "submit"}
      BY <1>1
    <3>2. run' = [run EXCEPT ![r].resubmits = 0, ![r].pc = "discover"]
      BY <2>3 DEF JobSucceeded
    <3>3. QED BY <2>1, <2>2, <3>1, <3>2, MoveStep DEF Settled
  <2>4. CASE End(r, "failed")
    BY <2>1, <2>4, EndStep DEF Over
  <2>5. CASE /\ run[r].resubmits < MaxResubmits
             /\ run' = [run EXCEPT ![r].resubmits = @ + 1, ![r].pc = "submit"]
    <3>1. run[r].resubmits + 1 \in 0..MaxResubmits
      BY <1>1, <1>2, <2>5
    <3>2. run' = [run EXCEPT ![r].resubmits = run[r].resubmits + 1, ![r].pc = "submit"]
      BY <2>5
    <3>3. QED BY <2>1, <2>2, <3>1, <3>2, MoveStep DEF Settled
  <2>6. QED BY <1>6, <2>3, <2>4, <2>5 DEF JobFailed
<1>7. CASE GiveUp(r)
  BY <1>7, EndStep DEF GiveUp, At, Over
<1>8. QED
  BY <1>4, <1>5, <1>6, <1>7, StartStep, CompareStep, SubmitStep DEF RunStep

-----------------------------------------------------------------------------
(* The engine and the owner's migrations *)

LEMMA EndJobStep ==
  ASSUME SchemaInv, NEW j \in DOMAIN jobs, EndJob(j)
  PROVE  /\ SchemaInv'
         /\ \A k \in DOMAIN jobs :
                Live(k) /\ jobs'[k].state = "succeeded" /\ ~jobs[k].blind =>
                    Fits(jobs[k].declared, schema')
<1> DEFINE d == jobs[j].declared
           a == jobs[j].adds
<1>1. /\ TypeOK /\ run \in [Runs -> RunState] /\ jobs \in Seq(Job) /\ jobs[j] \in Job
      /\ schema \in Declaration /\ Live(j) /\ UNCHANGED <<run, migrations>>
  BY DEF SchemaInv, TypeOK, EndJob, CommitJob, RejectJob, FailJob
<1>2. PICK state \in {"succeeded", "rejected", "failed"} :
          /\ jobs' = [jobs EXCEPT ![j].state = state]
          /\ schema' = IF state = "succeeded" THEN Altered(schema, d, a) ELSE schema
          /\ state = "rejected" => ~Executable(schema, d, a)
  BY DEF EndJob, CommitJob, RejectJob, FailJob
<1>3. /\ jobs' \in Seq(Job) /\ DOMAIN jobs' = DOMAIN jobs
      /\ jobs'[j] = [jobs[j] EXCEPT !.state = state] /\ jobs'[j].state = state
      /\ \A k \in DOMAIN jobs \ {j} : jobs'[k] = jobs[k]
      /\ \A k \in DOMAIN jobs : /\ jobs'[k].declared = jobs[k].declared
                                /\ jobs'[k].adds = jobs[k].adds
                                /\ jobs'[k].blind = jobs[k].blind
  <2>1. [jobs[j] EXCEPT !.state = state] \in Job
    BY <1>1 DEF Job, JobStates
  <2>2. jobs \in [1..Len(jobs) -> Job] /\ Len(jobs) \in Nat /\ DOMAIN jobs = 1..Len(jobs)
    BY <1>1
  <2>3. jobs' \in [1..Len(jobs) -> Job]
    BY <1>2, <2>1, <2>2
  <2>4. jobs' \in Seq(Job)
    BY <2>2, <2>3
  <2>5. QED BY <1>1, <1>2, <2>2, <2>4 DEF Job
<1>4. \A k \in DOMAIN jobs : ~Live(k)'
  BY <1>1, <1>3 DEF SchemaInv, OneLive, Live
<1>5. d \in Models /\ d \in Declaration /\ a \in SUBSET Columns
  <2>1. d \in Models /\ a \in SUBSET Columns
    BY <1>1 DEF SchemaInv, Declared, Job
  <2>2. QED BY <2>1, ModelsDeclare
<1>6. ~jobs[j].blind => Ready(d, a, schema)
  BY <1>1 DEF SchemaInv, JobsReady
<1>7. schema' = schema \/ schema' = Altered(schema, d, a)
  BY <1>2
<1>8. TypeOK'
  BY <1>1, <1>3, <1>5, <1>7, AlteredType DEF TypeOK
<1>9. Sequential' /\ ComparedOnce'
  BY <1>1 DEF SchemaInv, Sequential, ComparedOnce
<1>10. OneLive' /\ RunAlone' /\ JobsReady'
  BY <1>3, <1>4 DEF OneLive, RunAlone, JobsReady
<1>11. OwnJob' /\ Declared'
  BY <1>1, <1>3 DEF SchemaInv, OwnJob, Declared, Active
<1>12. PartitionKept'
  BY <1>1, <1>5, <1>7, AlteredKeepsPartition DEF SchemaInv, PartitionKept
<1>13. RunsReady'
  <2> SUFFICES ASSUME NEW r \in Runs, run[r].pc \in Settled, run[r].compared, ~run[r].blind
               PROVE  Ready(run[r].declared, run[r].adds, schema')
    BY <1>1 DEF RunsReady
  <2>1. run[r].pc = "wait" /\ j = run[r].job
    BY <1>1 DEF SchemaInv, RunAlone
  <2>2. run[r].declared = d /\ run[r].adds = a /\ ~jobs[j].blind
    BY <2>1 DEF SchemaInv, OwnJob
  <2>3. QED BY <1>1, <1>5, <1>6, <1>7, <2>2, CommitLeavesReady
<1>14. NoneRejected'
  <2>1. state = "rejected" => jobs[j].blind
    <3> SUFFICES ASSUME state = "rejected", ~jobs[j].blind
                 PROVE  FALSE
      OBVIOUS
    <3>1. Executable(schema, d, a)
      BY <1>1, <1>5, <1>6, CommitLeavesReady
    <3>2. QED BY <1>2, <3>1
  <2>2. QED BY <1>3, <2>1 DEF SchemaInv, NoneRejected
<1>15. ASSUME NEW k \in DOMAIN jobs, Live(k), jobs'[k].state = "succeeded", ~jobs[k].blind
       PROVE  Fits(jobs[k].declared, schema')
  <2>1. k = j
    BY <1>1, <1>15 DEF SchemaInv, OneLive
  <2>2. schema' = Altered(schema, d, a)
    BY <1>2, <1>3, <1>15, <2>1
  <2>3. QED BY <1>1, <1>5, <1>6, <1>15, <2>1, <2>2, CommitLeavesReady
<1>16. QED
  BY <1>8, <1>9, <1>10, <1>11, <1>12, <1>13, <1>14, <1>15 DEF SchemaInv

LEMMA MigrateStep ==
  ASSUME SchemaInv, Migrate
  PROVE  SchemaInv'
<1>1. /\ TypeOK /\ schema \in Declaration /\ UNCHANGED <<run, jobs>>
      /\ migrations' \in 0..MaxMigrations
      /\ \A r \in Runs : run[r].pc \notin Settled
      /\ Quiet
  BY BoundsAssumption DEF SchemaInv, TypeOK, Migrate, Quiet, Settled, Over
<1>2. PICK c \in Columns \ Partition, t \in Types \cup {Absent} :
          schema' = [schema EXCEPT ![c] = t]
  BY DEF Migrate
<1>3. schema' \in Declaration /\ \A e \in Partition \cap Columns : schema'[e] = schema[e]
  BY <1>1, <1>2 DEF Declaration
<1>4. TypeOK' /\ PartitionKept'
  BY <1>1, <1>3 DEF TypeOK, SchemaInv, PartitionKept, Migrate, Has
<1>5. Sequential' /\ OneLive' /\ RunAlone' /\ OwnJob' /\ Declared' /\ ComparedOnce' /\ NoneRejected'
  BY <1>1 DEF SchemaInv, Sequential, OneLive, RunAlone, OwnJob, Declared, Active,
              ComparedOnce, NoneRejected, Live
<1>6. RunsReady' /\ JobsReady'
  BY <1>1 DEF RunsReady, JobsReady, Quiet, Live
<1>7. QED BY <1>4, <1>5, <1>6 DEF SchemaInv

-----------------------------------------------------------------------------
(* The invariant and what follows from it *)

LEMMA InitSchemaInv == Init => SchemaInv
<1> SUFFICES ASSUME Init PROVE SchemaInv
  OBVIOUS
<1>1. Idle \in RunState /\ NoTable \in Declaration
  BY BoundsAssumption DEF Idle, RunState, PCs, NoTable, Declaration
<1>2. /\ TypeOK /\ \A r \in Runs : run[r] = Idle
      /\ jobs = <<>> /\ DOMAIN jobs = {}
  BY <1>1, BoundsAssumption DEF Init, TypeOK
<1>3. \A r \in Runs : run[r].pc = "idle" /\ ~run[r].compared
  BY <1>2 DEF Idle
<1>4. schema = NoTable
  BY DEF Init
<1>5. QED
  BY <1>2, <1>3, <1>4 DEF SchemaInv, Sequential, OneLive, RunAlone, OwnJob, Declared,
        Active, PartitionKept, ComparedOnce, RunsReady, JobsReady, NoneRejected, Settled

(* A step keeps the invariant, and commits only what fits.                  *)
FitsNow ==
    \A j \in DOMAIN jobs :
        Live(j) /\ jobs'[j].state = "succeeded" /\ ~jobs[j].blind =>
            Fits(jobs[j].declared, schema')

LEMMA NextSchemaInv == SchemaInv /\ [Next]_vars => SchemaInv' /\ FitsNow
<1> SUFFICES ASSUME SchemaInv, [Next]_vars PROVE SchemaInv' /\ FitsNow
  OBVIOUS
<1>1. ASSUME jobs' = jobs PROVE FitsNow
  BY <1>1 DEF FitsNow, Live
<1>2. ASSUME NEW r \in Runs, RunStep(r) \/ GiveUp(r)
      PROVE  SchemaInv' /\ FitsNow
  <2>1. \A j \in DOMAIN jobs : jobs'[j] = jobs[j]
    <3>1. CASE Submit(r)
      BY <3>1 DEF Submit, SchemaInv, TypeOK
    <3>2. CASE ~Submit(r)
      BY <1>2, <3>2 DEF RunStep, GiveUp, Start, Settle, Discover, Compare, JobSucceeded, JobFailed
    <3>3. QED BY <3>1, <3>2
  <2>2. QED BY <1>2, <2>1, RunSteps DEF FitsNow, Live
<1>3. ASSUME NEW j \in DOMAIN jobs, EndJob(j)
      PROVE  SchemaInv' /\ FitsNow
  BY <1>3, EndJobStep DEF FitsNow
<1>4. CASE Migrate
  BY <1>1, <1>4, MigrateStep DEF Migrate
<1>5. CASE UNCHANGED vars
  <2>1. UNCHANGED <<schema, jobs, run, migrations>>
    BY <1>5 DEF vars
  <2>2. SchemaInv'
    BY <2>1 DEF SchemaInv, TypeOK, Sequential, OneLive, RunAlone, OwnJob, Declared, Active,
          PartitionKept, ComparedOnce, RunsReady, JobsReady, NoneRejected, Live
  <2>3. QED BY <1>1, <2>1, <2>2
<1>6. QED BY <1>2, <1>3, <1>4, <1>5 DEF Next, Terminated

(* The inductive invariant: one job at a time is alive, and since its run   *)
(* compared columns the table has only become what that job makes of it.    *)
THEOREM SchemaInvariant == Spec => []SchemaInv
<1>1. QED BY InitSchemaInv, NextSchemaInv, PTL DEF Spec

(* Type correctness.                                                        *)
THEOREM SchemaTypeCorrect == Spec => []TypeOK
<1>1. SchemaInv => TypeOK
  BY DEF SchemaInv
<1>2. QED BY <1>1, SchemaInvariant, PTL

(* The ADD COLUMN statements of one comparison are enough for every script  *)
(* of the run, resubmitted ones included.                                   *)
THEOREM ComparisonSuffices == Spec => []NoneRejected
<1>1. SchemaInv => NoneRejected
  BY DEF SchemaInv
<1>2. QED BY <1>1, SchemaInvariant, PTL

(* Every commit of a run that saw the table fits the table.                 *)
THEOREM EveryCommitFits == Spec => CommitsFit
<1>1. SchemaInv /\ [Next]_vars => FitsNow
  BY NextSchemaInv
<1>2. FitsNow => [FitsNow]_vars
  OBVIOUS
<1>3. CommitsFit <=> [][FitsNow]_vars
  BY PTL DEF CommitsFit, FitsNow
<1>4. QED BY <1>1, <1>2, <1>3, SchemaInvariant, PTL DEF Spec
=============================================================================
