----------------------------- MODULE Discovery -----------------------------
(***************************************************************************)
(* How one dbt process finds the files of its next batch: it walks the     *)
(* source directories, keeps the listing, filters it by the watermark and  *)
(* the safety buffer, takes the oldest files, and does so again after each *)
(* batch; a processing_time model also sleeps and starts over.             *)
(*                                                                         *)
(* Models run on threads of the process and share the adapter: the cached  *)
(* listings and the FileInfos it has seen.  Each model has a Delta table   *)
(* and a watermark of its own; what ScopeTable says of a batch (pending,   *)
(* job, recovery) is the one step JobDone here.  A process that ends takes *)
(* the adapter's state with it; the watermarks stay.                       *)
(***************************************************************************)
EXTENDS Integers, FiniteSets

CONSTANTS
    Models,
    NumRoots,            \* source roots 1..NumRoots, listed in this order
    Dirs, RootOf,        \* directories, and the root each is under
    Files, DirOf,        \* source files, and the directory each arrives in
    Buffer,              \* safety_buffer_seconds
    MaxFilesPerTrigger,
    StartingTimestamp,   \* 0: not configured
    Configs,             \* the model configurations that occur
    Steady,              \* does the clock stand still during a discovery?
    Faults,              \* what the environment may do
    MaxTime,             \* bound: the clock stops here
    MaxCarried,          \* bound: cycles that a thread's earlier models counted
    MaxProcesses         \* bound: processes started one after the other

ASSUME SourceAssumption ==
    /\ NumRoots \in Nat \ {0} /\ RootOf \in [Dirs -> 1..NumRoots]
    /\ DirOf \in [Files -> Dirs] /\ Files \subseteq Nat \ {0}
ASSUME LimitsAssumption ==
    /\ Buffer \in Nat /\ StartingTimestamp \in Nat
    /\ MaxTime \in Nat /\ MaxProcesses \in Nat \ {0} /\ MaxCarried \in Nat
    /\ MaxFilesPerTrigger \in Nat \ {0}
ASSUME ChoiceAssumption ==
    /\ Configs # {}
    /\ \A c \in Configs :
          /\ c.trigger \in {"available_now", "processing_time"}
          /\ c.fallback \in BOOLEAN    \* starting_timestamp_fallback_to_latest
          /\ c.maxCycles \in Nat       \* max_cycles; 0: none
    /\ Steady \in BOOLEAN
    /\ Faults \subseteq {"listFails", "jobFails", "shutdown"}

Roots == 1..NumRoots
NotListed == {0}    \* files are numbered from 1

VARIABLES
    now,
    arrived,     \* modification time of each file, 0 before it is there
    cache,       \* AdlsGen1Client._file_cache: per root, the files listed
    infos,       \* ScopeAdapter._discovered_file_infos
    cycles,      \* _cycle_counts, of the thread that each model runs on
    shutdown,    \* _shutdown_event
    processes,   \* processes started so far
    watermark,   \* per model, modified_time of its watermark.json; 0: no file
    ingested,    \* per model, the files in its table
    model        \* the threads' locals

vars == <<now, arrived, cache, infos, cycles, shutdown, processes, watermark, ingested, model>>
world == <<now, arrived>>
adapter == <<cache, infos>>
process == <<cycles, shutdown, processes>>
tables == <<watermark, ingested>>

PCs == {"idle", "list", "walk", "choose", "begin", "submit", "job", "record", "cycle",
        "asleep", "done", "failed"}
Over == {"done", "failed"}
Locals == [pc : PCs, config : Configs, root : 1..(NumRoots + 1),
           todo : SUBSET Dirs, found : SUBSET Files, ready : SUBSET Files,
           batch : SUBSET Files, turns : Nat]    \* history: cycles so far

Idle == [pc |-> "idle", config |-> CHOOSE c \in Configs : TRUE, root |-> 1, todo |-> {},
         found |-> {}, ready |-> {}, batch |-> {}, turns |-> 0]

At(m, label) == model[m].pc = label
Goto(m, label) == model' = [model EXCEPT ![m].pc = label]
Discovering(l) == [l EXCEPT !.pc = "list", !.root = 1, !.ready = {}]

-----------------------------------------------------------------------------
(* Listing and filtering *)

Present(r) == {f \in Files : arrived[f] # 0 /\ RootOf[DirOf[f]] = r}

(* Where discovery starts without a checkpoint. *)
UsesStart(m) == watermark[m] = 0 /\ StartingTimestamp # 0
Position(m) == IF UsesStart(m) THEN StartingTimestamp ELSE watermark[m]

(* Operators named after a slip, such as the next two, are what the code    *)
(* would be with it: the properties are tried against them.                 *)
EligibleAgain(m, fs) == {f \in fs : Position(m) <= arrived[f] /\ arrived[f] <= now - Buffer}

EligibleUnbuffered(m, fs) == {f \in fs : Position(m) < arrived[f]}

(* discover_unprocessed_files; the cutoff is that of the moment.            *)
Eligible(m, fs) == {f \in fs : Position(m) < arrived[f] /\ arrived[f] <= now - Buffer}

(* One root of the cross product is done. *)
RootListed(m, fs) ==
    LET next == model[m].root + 1
    IN  model' = [model EXCEPT ![m].ready = @ \cup Eligible(m, fs),
                               ![m].root = next,
                               ![m].pc = IF next > NumRoots THEN "choose" ELSE "list"]

Started(m, c) == model' = [model EXCEPT ![m] = [Discovering(@) EXCEPT !.config = c]]

StartCounting(m) ==
    /\ At(m, "idle")
    /\ \E c \in Configs : Started(m, c)
    /\ UNCHANGED <<world, adapter, process, tables>>

(* reset_cycle_count, for a processing_time model: the models that ran on   *)
(* this thread before may have died with their cycles counted.              *)
Start(m) ==
    /\ At(m, "idle")
    /\ \E c \in Configs :
        /\ Started(m, c)
        /\ cycles' = IF c.trigger = "processing_time" THEN [cycles EXCEPT ![m] = 0] ELSE cycles
    /\ UNCHANGED <<world, adapter, shutdown, processes, tables>>

CacheHit(m) ==
    /\ At(m, "list")
    /\ cache[model[m].root] # NotListed
    /\ RootListed(m, cache[model[m].root])
    /\ UNCHANGED <<world, adapter, process, tables>>

StartWalk(m) ==
    /\ At(m, "list")
    /\ cache[model[m].root] = NotListed
    /\ model' = [model EXCEPT ![m].todo = {d \in Dirs : RootOf[d] = model[m].root},
                              ![m].found = {}, ![m].pc = "walk"]
    /\ UNCHANGED <<world, adapter, process, tables>>

(* The walk lists directories in parallel, in any order; one that cannot be *)
(* listed is skipped.                                                       *)
ListDir(m, d) ==
    /\ At(m, "walk")
    /\ d \in model[m].todo
    /\ \E files \in {{f \in Files : arrived[f] # 0 /\ DirOf[f] = d}}
                       \cup (IF "listFails" \in Faults THEN {{}} ELSE {}) :
        model' = [model EXCEPT ![m].todo = @ \ {d}, ![m].found = @ \cup files]
    /\ UNCHANGED <<world, adapter, process, tables>>

EndWalk(m) ==
    /\ At(m, "walk")
    /\ model[m].todo = {}
    /\ cache' = [cache EXCEPT ![model[m].root] = model[m].found]
    /\ RootListed(m, model[m].found)
    /\ UNCHANGED <<world, infos, process, tables>>

(* A listing of every root outside the loop; it goes through the cache.     *)
Relisted == [r \in Roots |-> IF cache[r] = NotListed THEN Present(r) ELSE cache[r]]
AllRelisted == UNION {Relisted[r] : r \in Roots}

-----------------------------------------------------------------------------
(* The rest of discover_files *)

AnyBatch(fs) == {b \in SUBSET fs : b # {} /\ Cardinality(b) <= MaxFilesPerTrigger}

(* get_next_batch: the oldest files, up to the limits. *)
OldestFirst(fs) ==
    {b \in SUBSET fs :
        /\ b # {}
        /\ Cardinality(b) <= MaxFilesPerTrigger
        /\ \A f \in b : \A g \in fs : arrived[g] < arrived[f] => g \in b}

Choose(m) ==
    /\ At(m, "choose")
    /\ model[m].ready # {}
    /\ \E b \in OldestFirst(model[m].ready) :
        model' = [model EXCEPT ![m].batch = b, ![m].pc = "begin"]
    /\ infos' = infos \cup model[m].ready
    /\ UNCHANGED <<world, cache, process, tables>>

(* starting_timestamp found nothing: take the latest eligible file, or fail *)
(* at the first root that has any file, old enough or not.                  *)
Latest(fs) == {f \in fs : arrived[f] <= now - Buffer /\
                          \A g \in fs : arrived[g] <= now - Buffer => arrived[g] <= arrived[f]}

ChooseFromStart(m) ==
    /\ At(m, "choose")
    /\ model[m].ready = {}
    /\ UsesStart(m)
    /\ model[m].config.fallback
    /\ \E f \in Latest(AllRelisted) :
        /\ model' = [model EXCEPT ![m].batch = {f}, ![m].pc = "begin"]
        /\ infos' = infos \cup {f}
    /\ cache' = Relisted
    /\ UNCHANGED <<world, process, tables>>

StartTooLate(m) ==
    /\ At(m, "choose")
    /\ model[m].ready = {}
    /\ UsesStart(m)
    /\ ~model[m].config.fallback
    /\ \E first \in Roots :
        /\ Relisted[first] # {}
        /\ \A r \in 1..(first - 1) : Relisted[r] = {}
        /\ cache' = [r \in Roots |-> IF r <= first THEN Relisted[r] ELSE cache[r]]
    /\ Goto(m, "failed")
    /\ UNCHANGED <<world, infos, process, tables>>

NothingLeft(m) ==
    /\ At(m, "choose")
    /\ model[m].ready = {}
    /\ UsesStart(m) => (IF model[m].config.fallback THEN Latest(AllRelisted) ELSE AllRelisted) = {}
    /\ cache' = IF UsesStart(m) THEN Relisted ELSE cache
    /\ Goto(m, IF model[m].config.trigger = "processing_time" THEN "cycle" ELSE "done")
    /\ UNCHANGED <<world, infos, process, tables>>

-----------------------------------------------------------------------------
(* The batch *)

(* begin_batch fails for a file whose FileInfo another model has cleared.   *)
Begin(m) ==
    /\ At(m, "begin")
    /\ Goto(m, IF model[m].batch \subseteq infos THEN "submit" ELSE "failed")
    /\ UNCHANGED <<world, adapter, process, tables>>

(* No job is submitted once the process is told to stop. *)
Submit(m) ==
    /\ At(m, "submit")
    /\ Goto(m, IF shutdown THEN "failed" ELSE "job")
    /\ UNCHANGED <<world, adapter, process, tables>>

(* A job may end well after a shutdown too, if the next poll finds it so.   *)
JobDone(m) ==
    /\ At(m, "job")
    /\ ingested' = [ingested EXCEPT ![m] = @ \cup model[m].batch]
    /\ Goto(m, "record")
    /\ UNCHANGED <<world, adapter, process, watermark>>

JobFails(m) ==
    /\ At(m, "job")
    /\ shutdown \/ "jobFails" \in Faults
    /\ Goto(m, "failed")
    /\ UNCHANGED <<world, adapter, process, tables>>

RecordFirst(m, fs) == CHOOSE t \in {arrived[f] : f \in fs} : \A f \in fs : t <= arrived[f]

(* compute_new_watermark *)
Newest(m, fs) == CHOOSE t \in {arrived[f] : f \in fs} : \A f \in fs : arrived[f] <= t

(* update_checkpoint: files whose FileInfo is gone are listed again.        *)
Record(m) ==
    /\ At(m, "record")
    /\ LET batch  == model[m].batch
           cached == batch \subseteq infos
           fs     == IF cached THEN batch ELSE (batch \cap infos) \cup (batch \cap AllRelisted)
       IN  /\ cache' = IF cached THEN cache ELSE Relisted
           /\ watermark' = IF fs = {} THEN watermark
                                      ELSE [watermark EXCEPT ![m] = Newest(m, fs)]
    /\ model' = [model EXCEPT ![m] = Discovering(@)]
    /\ UNCHANGED <<world, infos, process, ingested>>

-----------------------------------------------------------------------------
(* processing_time *)

(* Cycles are counted, here only as far as max_cycles asks for it.          *)
CycleEnds(m) ==
    LET limit   == model[m].config.maxCycles
        counted == IF limit = 0 THEN 0 ELSE cycles[m] + 1
        ends    == shutdown \/ (limit # 0 /\ counted >= limit)
    IN  /\ cycles' = [cycles EXCEPT ![m] = IF ends THEN 0 ELSE counted]
        /\ model' = [model EXCEPT ![m].turns = IF limit = 0 THEN 0 ELSE @ + 1,
                                  ![m].pc = IF ends THEN "done" ELSE "asleep"]

CycleKeepingCache(m) ==
    /\ At(m, "cycle")
    /\ CycleEnds(m)
    /\ UNCHANGED <<world, adapter, shutdown, processes, tables>>

(* clear_file_discovery_cache, wait_for_next_cycle. *)
Cycle(m) ==
    /\ At(m, "cycle")
    /\ cache' = [r \in Roots |-> NotListed]
    /\ infos' = {}
    /\ CycleEnds(m)
    /\ UNCHANGED <<world, shutdown, processes, tables>>

(* The sleep ends with the interval, or with a shutdown. *)
Wake(m) ==
    /\ At(m, "asleep")
    /\ IF shutdown THEN Goto(m, "done") ELSE model' = [model EXCEPT ![m] = Discovering(@)]
    /\ cycles' = IF shutdown THEN [cycles EXCEPT ![m] = 0] ELSE cycles
    /\ UNCHANGED <<world, adapter, shutdown, processes, tables>>

-----------------------------------------------------------------------------
(* The process and the world *)

Shutdown ==
    /\ "shutdown" \in Faults
    /\ ~shutdown
    /\ shutdown' = TRUE
    /\ UNCHANGED <<world, adapter, cycles, processes, tables, model>>

(* Some threads have run other models before these. *)
NewProcess ==
    /\ \A m \in Models : model[m].pc \in Over
    /\ cycles' \in [Models -> 0..MaxCarried]
    /\ processes < MaxProcesses
    /\ processes' = processes + 1
    /\ shutdown' = FALSE
    /\ cache' = [r \in Roots |-> NotListed]
    /\ infos' = {}
    /\ model' = [m \in Models |-> Idle]
    /\ UNCHANGED <<world, tables>>

(* With Steady, a discovery takes no time: from the first listing it makes  *)
(* to the choice of its batch.                                              *)
InDiscovery(m) == model[m].pc \in {"walk", "choose"} \/ (At(m, "list") /\ model[m].root > 1)
ClockRuns == now < MaxTime /\ (Steady => \A m \in Models : ~InDiscovery(m))

Tick ==
    /\ ClockRuns
    /\ now' = now + 1
    /\ UNCHANGED <<arrived, adapter, process, tables, model>>

(* Every file has a modification time of its own (see ScopeTable for ties). *)
Arrive(f) ==
    /\ ClockRuns
    /\ arrived[f] = 0
    /\ now' = now + 1
    /\ arrived' = [arrived EXCEPT ![f] = now + 1]
    /\ UNCHANGED <<adapter, process, tables, model>>

Init ==
    /\ now = 0
    /\ arrived = [f \in Files |-> 0]
    /\ cache = [r \in Roots |-> NotListed]
    /\ infos = {}
    /\ cycles \in [Models -> 0..MaxCarried]
    /\ shutdown = FALSE
    /\ processes = 1
    /\ watermark = [m \in Models |-> 0]
    /\ ingested = [m \in Models |-> {}]
    /\ model = [m \in Models |-> Idle]

Step(m) ==
    \/ Start(m) \/ CacheHit(m) \/ StartWalk(m) \/ (\E d \in Dirs : ListDir(m, d)) \/ EndWalk(m)
    \/ Choose(m) \/ ChooseFromStart(m) \/ StartTooLate(m) \/ NothingLeft(m)
    \/ Begin(m) \/ Submit(m) \/ JobDone(m) \/ JobFails(m) \/ Record(m)
    \/ Cycle(m) \/ Wake(m)

Terminated ==
    /\ \A m \in Models : model[m].pc \in Over
    /\ processes = MaxProcesses
    /\ UNCHANGED vars

Next ==
    \/ \E m \in Models : Step(m)
    \/ Shutdown \/ NewProcess \/ Tick
    \/ \E f \in Files : Arrive(f)
    \/ Terminated

Spec == Init /\ [][Next]_vars

(* Threads run, sleeps end, and dbt is run again as long as it may be.      *)
FairSpec ==
    /\ Spec
    /\ \A m \in Models : WF_vars(Step(m))
    /\ WF_vars(NewProcess) /\ WF_vars(Tick)

-----------------------------------------------------------------------------
(* Properties *)

TypeOK ==
    /\ now \in 0..MaxTime
    /\ arrived \in [Files -> 0..MaxTime]
    /\ \A r \in Roots : cache[r] = NotListed \/ cache[r] \subseteq Files
    /\ infos \subseteq Files
    /\ cycles \in [Models -> Nat]
    /\ shutdown \in BOOLEAN
    /\ processes \in 1..MaxProcesses
    /\ watermark \in [Models -> {0} \cup 1..(now - Buffer)]
    /\ ingested \in [Models -> SUBSET Files]
    /\ model \in [Models -> Locals]

(* No file is skipped: whatever the watermark has passed, from the starting *)
(* timestamp on, is in the table.  A file the watermark has passed is never *)
(* looked at again, by no run.                                              *)
NoneSkipped ==
    \A m \in Models, f \in Files :
        StartingTimestamp < arrived[f] /\ arrived[f] <= watermark[m] => f \in ingested[m]

(* No job is submitted for a file that the table has already, by this       *)
(* process or an earlier one.                                               *)
IngestedOnce == \A m \in Models : At(m, "job") => model[m].batch \cap ingested[m] = {}

(* Each cycle looks again: a file that is old enough is ingested unless the *)
(* model ends first, and a processing_time model does not end by itself.    *)
EveryFileIngested ==
    \A m \in Models, f \in Files :
        (arrived[f] > StartingTimestamp /\ arrived[f] <= now - Buffer)
            ~> (f \in ingested[m] \/ model[m].pc \in Over)

(* An available_now model runs out of files, a processing_time model out of *)
(* cycles where they are limited, and a shutdown ends every model, asleep   *)
(* or at work.                                                              *)
MustEnd(m) ==
    \/ shutdown
    \/ ~At(m, "idle") /\ model[m].config.trigger = "available_now"
    \/ ~At(m, "idle") /\ model[m].config.maxCycles # 0
ModelsEnd == \A m \in Models : MustEnd(m) ~> model[m].pc \in Over

(* max_cycles means what it says: a model that ends by itself has gone      *)
(* through that many cycles, whatever ran on its thread before, and however *)
(* it ended.                                                                *)
EndsAfterItsCycles ==
    \A m \in Models :
        At(m, "done") /\ ~shutdown /\ model[m].config.maxCycles # 0 =>
            model[m].turns = model[m].config.maxCycles

(* "Each model loops independently": what a model has discovered it can     *)
(* begin, whatever the other models do.                                     *)
BeginsWhatItDiscovered == \A m \in Models : At(m, "begin") => model[m].batch \subseteq infos
=============================================================================
