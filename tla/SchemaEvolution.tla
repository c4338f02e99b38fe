--------------------------- MODULE SchemaEvolution ---------------------------
(***************************************************************************)
(* The columns of one Delta table under dbt runs whose model declares now  *)
(* these columns, now others.  A run compares its declaration with the     *)
(* table once, before its batching loop, and every script it then submits, *)
(* first or resubmitted, early or days later, carries what it found.       *)
(*                                                                         *)
(* A column stands for its lower-case name.  Runs do not overlap: which of *)
(* several runs owns a table is the matter of ScopeTable.  What a run      *)
(* leaves behind is its jobs, and the next run settles them first.         *)
(***************************************************************************)
EXTENDS Integers, Sequences, FiniteSets

CONSTANTS
    NumRuns,
    Columns,
    Partition,      \* the columns of partition_by
    Types,          \* spellings of types
    Canonical,      \* canonical_type: [Types -> a canonical type or Unknown]
    Unknown,
    Absent,         \* a column that is not there
    Models,         \* the declarations a run may be started with
    MaxJobs,        \* bound: jobs submitted in a behaviour
    MaxMigrations,  \* bound: changes of the table out of band
    MaxResubmits,   \* job retries of one batch
    Faults          \* which faults the environment may inject

Runs == 1..NumRuns
Declaration == [Columns -> Types \cup {Absent}]
NoTable == [c \in Columns |-> Absent]
Has(s, c) == s[c] # Absent

ASSUME TypesAssumption == Absent \notin Types /\ DOMAIN Canonical = Types
ASSUME ModelsAssumption ==
    /\ Models \subseteq Declaration
    /\ \A m \in Models : m # NoTable
    /\ \A m \in Models : \A c \in Partition \cap Columns : Has(m, c)
ASSUME BoundsAssumption ==
    /\ NumRuns \in Nat /\ MaxJobs \in Nat /\ MaxMigrations \in Nat /\ MaxResubmits \in Nat
    /\ Faults \subseteq {"crash", "jobFails", "giveUp", "probe", "schemaRead"}

VARIABLES
    schema,      \* the table's columns, NoTable before its first commit
    jobs,        \* ADLA jobs, in order of submission
    run,         \* the processes' locals
    migrations   \* how many changes were made out of band

vars == <<schema, jobs, run, migrations>>

(* A job's script, as far as it concerns columns: those it declares and     *)
(* inserts, and those it adds.  blind: its run took the table for absent.   *)
JobStates == {"active", "succeeded", "failed", "rejected"}
Job == [declared : Declaration, adds : SUBSET Columns, blind : BOOLEAN,
        run : Runs, state : JobStates]
Live(j) == jobs[j].state = "active"

PCs == {"idle", "settle", "discover", "compare", "submit", "wait", "failed",
        "crashed", "done"}
Over == {"failed", "crashed", "done"}
RunState == [pc : PCs, declared : Declaration, compared : BOOLEAN,
             adds : SUBSET Columns, blind : BOOLEAN, job : Nat,
             resubmits : 0..MaxResubmits]
Idle == [pc |-> "idle", declared |-> NoTable, compared |-> FALSE, adds |-> {},
         blind |-> FALSE, job |-> 0, resubmits |-> 0]

At(r, label) == run[r].pc = label
Goto(r, label) == run' = [run EXCEPT ![r].pc = label]
End(r, label) == run' = [run EXCEPT ![r] = [Idle EXCEPT !.pc = label]]

-----------------------------------------------------------------------------
(* The comparison *)

Differ(t, u) ==
    /\ Canonical[t] # Unknown
    /\ Canonical[u] # Unknown
    /\ Canonical[t] # Canonical[u]

IncompatibleIfRetyped(d, s) ==
    \E c \in Columns \ Partition : Has(d, c) /\ Has(s, c) /\ Differ(d[c], s[c])

IncompatibleIfRemoved(d, s) == \E c \in Columns \ Partition : Has(s, c) /\ ~Has(d, c)

(* diff_schema_for_evolution: what it raises for, and what it returns.      *)
Incompatible(d, s) ==
    \E c \in Columns \ Partition :
        /\ Has(s, c)
        /\ Has(d, c) => Differ(d[c], s[c])

NothingToAdd(d, s) == {}
ToAdd(d, s) == {c \in Columns \ Partition : Has(d, c) /\ ~Has(s, c)}

-----------------------------------------------------------------------------
(* The materialization, run r *)

Start(r) ==
    /\ At(r, "idle")
    /\ \A q \in Runs : q < r => run[q].pc \in Over
    /\ \E m \in Models : run' = [run EXCEPT ![r].declared = m, ![r].pc = "settle"]
    /\ UNCHANGED <<schema, jobs, migrations>>

SettleNothing(r) ==
    /\ At(r, "settle")
    /\ Goto(r, "discover")
    /\ UNCHANGED <<schema, jobs, migrations>>

(* settle_orphaned_jobs, in reconcile_checkpoint: returns when no job of    *)
(* another run is left.                                                     *)
Settle(r) ==
    /\ At(r, "settle")
    /\ \A j \in DOMAIN jobs : ~Live(j)
    /\ Goto(r, "discover")
    /\ UNCHANGED <<schema, jobs, migrations>>

(* discover_files finds a batch, or nothing; the comparison comes once,     *)
(* before the first batch.                                                  *)
Discover(r) ==
    /\ At(r, "discover")
    /\ \/ Goto(r, IF run[r].compared THEN "submit" ELSE "compare")
       \/ End(r, "done")
    /\ UNCHANGED <<schema, jobs, migrations>>

(* compute_schema_evolution.  An error of the probe for _delta_log means    *)
(* "no table"; a schema that cannot be read fails the run.                  *)
Compared(r, columns, blind) ==
    run' = [run EXCEPT ![r].adds = columns, ![r].blind = blind,
                       ![r].compared = TRUE, ![r].pc = "submit"]

Compare(r) ==
    /\ At(r, "compare")
    /\ \/ schema = NoTable /\ Compared(r, {}, FALSE)
       \/ schema # NoTable /\ "probe" \in Faults /\ Compared(r, {}, TRUE)
       \/ schema # NoTable /\ "schemaRead" \in Faults /\ End(r, "failed")
       \/ schema # NoTable /\ Incompatible(run[r].declared, schema) /\ End(r, "failed")
       \/ /\ schema # NoTable
          /\ ~Incompatible(run[r].declared, schema)
          /\ Compared(r, ToAdd(run[r].declared, schema), FALSE)
    /\ UNCHANGED <<schema, jobs, migrations>>

(* scope__build_file_based_script and the job that carries it. *)
Submit(r) ==
    /\ At(r, "submit")
    /\ Len(jobs) < MaxJobs
    /\ jobs' = Append(jobs, [declared |-> run[r].declared, adds |-> run[r].adds,
                             blind |-> run[r].blind, run |-> r, state |-> "active"])
    /\ run' = [run EXCEPT ![r].job = Len(jobs) + 1, ![r].pc = "wait"]
    /\ UNCHANGED <<schema, migrations>>

JobState(r) == jobs[run[r].job].state

JobSucceeded(r) ==
    /\ At(r, "wait")
    /\ JobState(r) = "succeeded"
    /\ run' = [run EXCEPT ![r].resubmits = 0, ![r].pc = "discover"]
    /\ UNCHANGED <<schema, jobs, migrations>>

JobFailedOnceMore(r) ==
    /\ At(r, "wait")
    /\ JobState(r) \in {"failed", "rejected"}
    /\ \/ /\ run[r].resubmits <= MaxResubmits
          /\ run' = [run EXCEPT ![r].resubmits = @ + 1, ![r].pc = "submit"]
       \/ End(r, "failed")
    /\ UNCHANGED <<schema, jobs, migrations>>

(* A job retry submits the script it has, with the columns it has. *)
JobFailed(r) ==
    /\ At(r, "wait")
    /\ JobState(r) \in {"failed", "rejected"}
    /\ \/ /\ run[r].resubmits < MaxResubmits
          /\ run' = [run EXCEPT ![r].resubmits = @ + 1, ![r].pc = "submit"]
       \/ End(r, "failed")
    /\ UNCHANGED <<schema, jobs, migrations>>

(* The process is gone, or stops waiting for its job, which lives on. *)
GiveUp(r) ==
    /\ \/ "crash" \in Faults /\ run[r].pc \notin Over \cup {"idle"} /\ End(r, "crashed")
       \/ "giveUp" \in Faults /\ At(r, "wait") /\ End(r, "failed")
    /\ UNCHANGED <<schema, jobs, migrations>>

-----------------------------------------------------------------------------
(* The engine.  A job's statements take effect together, in one commit.     *)

(* CREATE TABLE IF NOT EXISTS, then ADD COLUMN IF NOT EXISTS per column.    *)
Altered(s, d, added) ==
    IF s = NoTable THEN d
    ELSE [c \in Columns |-> IF ~Has(s, c) /\ c \in added THEN d[c] ELSE s[c]]

RunsOnceOnly(s, d, added) ==
    /\ \A c \in added : ~Has(s, c)
    /\ \A c \in Columns : Has(d, c) => Has(Altered(s, d, added), c)

(* ADD COLUMN cannot fail; INSERT, which names every declared column, does  *)
(* when the table lacks one.                                                *)
Executable(s, d, added) ==
    \A c \in Columns : Has(d, c) => Has(Altered(s, d, added), c)

CommitJob(j) ==
    /\ Live(j)
    /\ Executable(schema, jobs[j].declared, jobs[j].adds)
    /\ schema' = Altered(schema, jobs[j].declared, jobs[j].adds)
    /\ jobs' = [jobs EXCEPT ![j].state = "succeeded"]
    /\ UNCHANGED <<run, migrations>>

RejectJob(j) ==
    /\ Live(j)
    /\ ~Executable(schema, jobs[j].declared, jobs[j].adds)
    /\ jobs' = [jobs EXCEPT ![j].state = "rejected"]
    /\ UNCHANGED <<schema, run, migrations>>

(* A job of a run that is over is cancelled by the next one. *)
FailJob(j) ==
    /\ Live(j)
    /\ "jobFails" \in Faults \/ run[jobs[j].run].pc \in Over
    /\ jobs' = [jobs EXCEPT ![j].state = "failed"]
    /\ UNCHANGED <<schema, run, migrations>>

(* "migrate the table out of band": by its owner, when nothing runs on it.  *)
Migrate ==
    /\ migrations < MaxMigrations
    /\ schema # NoTable
    /\ \A r \in Runs : run[r].pc \in Over \cup {"idle"}
    /\ \A j \in DOMAIN jobs : ~Live(j)
    /\ \E c \in Columns \ Partition : \E t \in Types \cup {Absent} :
        schema' = [schema EXCEPT ![c] = t]
    /\ schema' # NoTable
    /\ migrations' = migrations + 1
    /\ UNCHANGED <<jobs, run>>

-----------------------------------------------------------------------------
Init ==
    /\ schema = NoTable
    /\ jobs = <<>>
    /\ run = [r \in Runs |-> Idle]
    /\ migrations = 0

RunStep(r) ==
    \/ Start(r) \/ Settle(r) \/ Discover(r) \/ Compare(r) \/ Submit(r)
    \/ JobSucceeded(r) \/ JobFailed(r)

EndJob(j) == CommitJob(j) \/ RejectJob(j) \/ FailJob(j)

(* Every run is over, or the bound on jobs holds one back. *)
Terminated ==
    /\ \A r \in Runs : run[r].pc \in Over \cup {"idle", "submit"}
    /\ \A j \in DOMAIN jobs : ~Live(j)
    /\ UNCHANGED vars

Next ==
    \/ \E r \in Runs : RunStep(r) \/ GiveUp(r)
    \/ \E j \in DOMAIN jobs : EndJob(j)
    \/ Migrate
    \/ Terminated

Spec == Init /\ [][Next]_vars

-----------------------------------------------------------------------------
(* Properties *)

TypeOK ==
    /\ schema \in Declaration
    /\ jobs \in Seq(Job)
    /\ run \in [Runs -> RunState]
    /\ migrations \in 0..MaxMigrations

(* Inserting d's columns into table s leaves none out, and puts none under  *)
(* a type it is known not to have.                                          *)
Fits(d, s) ==
    \A c \in Columns \ Partition :
        Has(s, c) => /\ Has(d, c)
                     /\ \/ Canonical[d[c]] = Canonical[s[c]]
                        \/ Unknown \in {Canonical[d[c]], Canonical[s[c]]}

(* A batch is only ever inserted into a table it fits, although the check   *)
(* was made before the run's first batch: at the commit the table has no    *)
(* column that the model dropped and none whose type it changed.  It fails  *)
(* for a run whose probe of the table failed.                               *)
CommitsFit ==
    [][\A j \in DOMAIN jobs :
          Live(j) /\ jobs'[j].state = "succeeded" /\ ~jobs[j].blind =>
              Fits(jobs[j].declared, schema')]_vars

(* No job fails because a column is missing: what the comparison found is   *)
(* enough for every batch and every resubmission of the run.                *)
NoneRejected == \A j \in DOMAIN jobs : jobs[j].state = "rejected" => jobs[j].blind
=============================================================================
