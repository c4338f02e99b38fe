---------------------------- MODULE SourcesAudit ----------------------------
(***************************************************************************)
(* _checkpoint/sources/: which files went into which batch.  Each batch is *)
(* recorded as a diff, every CompactionInterval-th one as a snapshot of    *)
(* all history; retention then deletes what is too many.                   *)
(*                                                                         *)
(* The records of one batch are written together and stand for one item,   *)
(* <<epoch, batch ID>>, where the epoch counts full refreshes.  The runs   *)
(* that record batches own the table, one after the other (ScopeTable).    *)
(***************************************************************************)
EXTENDS Integers, FiniteSets

CONSTANTS
    CompactionInterval,
    RetentionFiles,
    NameOrder,     \* [batch ID -> rank of the name of its snapshot, as a string]
    MaxBatch,      \* bound: batch IDs
    MaxRefreshes,  \* bound: full refreshes
    MaxFaults,     \* bound: faults the environment injects
    MaxRetries     \* retries of write_batch_sources on a matching message

ASSUME LimitsAssumption ==
    /\ CompactionInterval \in Nat \ {0} /\ RetentionFiles \in Nat \ {0}
    /\ MaxBatch \in Nat /\ MaxRefreshes \in Nat /\ MaxFaults \in Nat /\ MaxRetries \in Nat

(* Different names have different ranks. *)
ASSUME NameAssumption ==
    /\ NameOrder \in [0..MaxBatch -> Nat]
    /\ \A i, j \in 0..MaxBatch : NameOrder[i] = NameOrder[j] => i = j

VARIABLES
    files,    \* the directory: [name -> the items listed in the file]
    batch,    \* batchId of watermark.json, -1 when there is none
    epoch,
    pc,       \* where _record_batch is, "idle" between two batches
    upload,   \* what it is about to write
    retries,
    faults,   \* faults injected so far
    acked,    \* history: items whose file was written without an error
    retired,  \* history: names that retention deleted
    hidden    \* history: has a fault that is only logged hidden items from
              \* the snapshots to come?

vars == <<files, batch, epoch, pc, upload, retries, faults, acked, retired, hidden>>

Names == {"diff", "snapshot"} \X (0..MaxBatch)
Items == (0..MaxRefreshes) \X (0..MaxBatch)
Kind(n) == n[1]
Id(n) == n[2]
Listing == DOMAIN files

(* The contents of a file: the items it lists, and those it lists twice.    *)
Contents == [items : SUBSET Items, repeated : SUBSET Items]
Empty == [items |-> {}, repeated |-> {}]

FaultHappens == faults < MaxFaults /\ faults' = faults + 1

-----------------------------------------------------------------------------
(* Recording one batch: _record_batch *)

IsCompaction(b) == b > 0 /\ b % CompactionInterval = 0
FileOf(b) == <<IF IsCompaction(b) THEN "snapshot" ELSE "diff", b>>

Snapshots == {n \in Listing : Kind(n) = "snapshot"}
NewestSnapshot ==
    CHOOSE id \in {-1} \cup {Id(n) : n \in Snapshots} : \A n \in Snapshots : Id(n) <= id

HistoryAllFiles == Listing
HistoryOneInterval ==
    {n \in Listing : IF Kind(n) = "snapshot" THEN Id(n) = NewestSnapshot
                                             ELSE Id(n) > batch - CompactionInterval}

(* What _write_snapshot_parquet reads: the newest snapshot, the diffs since.*)
History ==
    {n \in Listing : IF Kind(n) = "snapshot" THEN Id(n) = NewestSnapshot
                                             ELSE Id(n) > NewestSnapshot}

Listed(names) == UNION {files[n].items : n \in names}
ListedTwice(names) ==
    {i \in Items : \/ \E n \in names : i \in files[n].repeated
                  \/ \E m, n \in names : m # n /\ i \in files[m].items \cap files[n].items}
AllOf(names) == [items |-> Listed(names), repeated |-> ListedTwice(names)]

Current == <<epoch, batch>>
WithCurrent(c) == [items    |-> c.items \cup {Current},
                   repeated |-> c.repeated \cup (c.items \cap {Current})]

SnapshotBefore(unread) == AllOf(History \ unread)
Snapshot(unread) == WithCurrent(AllOf(History \ unread))

WriteWatermark ==
    /\ pc = "idle"
    /\ batch < MaxBatch
    /\ batch' = batch + 1
    /\ pc' = "create"
    /\ UNCHANGED <<files, epoch, upload, retries, faults, acked, retired, hidden>>

(* write_batch_sources up to the first request of its upload, which leaves  *)
(* the file empty.  A file of the history that cannot be read is skipped    *)
(* with a warning.                                                          *)
CreateFile ==
    /\ pc = "create"
    /\ \E unread \in IF IsCompaction(batch) THEN SUBSET History ELSE {{}} :
        /\ \/ unread = {} /\ UNCHANGED faults
           \/ unread # {} /\ FaultHappens
        /\ hidden' = (hidden \/ unread # {})
        /\ upload' = IF IsCompaction(batch) THEN Snapshot(unread) ELSE WithCurrent(Empty)
    /\ files' = [n \in Listing \cup {FileOf(batch)} |->
                    IF n = FileOf(batch) THEN Empty ELSE files[n]]
    /\ pc' = "flush"
    /\ UNCHANGED <<batch, epoch, retries, acked, retired>>

Written == [files EXCEPT ![FileOf(batch)] = upload]

FlushFile ==
    /\ pc = "flush"
    /\ files' = Written
    /\ acked' = acked \cup {Current}
    /\ retries' = 0
    /\ pc' = "cleanup"
    /\ UNCHANGED <<batch, epoch, upload, faults, retired, hidden>>

WriteFailsOnceMore ==
    /\ pc \in {"create", "flush"}
    /\ FaultHappens
    /\ files' \in {files, IF pc = "flush" THEN Written ELSE files}
    /\ \/ retries <= MaxRetries /\ retries' = retries + 1 /\ pc' = "create"
       \/ retries' = 0 /\ pc' = "idle"
    /\ hidden' = (hidden \/ (pc = "flush" /\ IsCompaction(batch)))
    /\ UNCHANGED <<batch, epoch, upload, acked, retired>>

(* A request fails, or its answer is lost: the whole operation is retried   *)
(* when the message matches, otherwise the run fails, as it does when it    *)
(* dies.  The watermark has moved on: the next batch has the next ID.       *)
WriteFails ==
    /\ pc \in {"create", "flush"}
    /\ FaultHappens
    /\ files' \in {files, IF pc = "flush" THEN Written ELSE files}
    /\ \/ retries < MaxRetries /\ retries' = retries + 1 /\ pc' = "create"
       \/ retries' = 0 /\ pc' = "idle"
    /\ hidden' = (hidden \/ (pc = "flush" /\ IsCompaction(batch)))
    /\ UNCHANGED <<batch, epoch, upload, acked, retired>>

-----------------------------------------------------------------------------
(* Retention: cleanup_sources *)

(* sort_key: the diffs by number, then the snapshots by name. *)
DeletedBefore(m, n) ==
    \/ Kind(m) = "diff" /\ Kind(n) = "snapshot"
    \/ Kind(m) = "diff" /\ Kind(n) = "diff" /\ Id(m) < Id(n)
    \/ /\ Kind(m) = "snapshot" /\ Kind(n) = "snapshot"
       /\ NameOrder[Id(m)] < NameOrder[Id(n)]

SurplusOne == Cardinality(Listing) - RetentionFiles - 1
Surplus == Cardinality(Listing) - RetentionFiles
Victims == {n \in Listing : Cardinality({m \in Listing : DeletedBefore(m, n)}) < Surplus}

(* Files that cannot be deleted, or that a crash spares, stay until the     *)
(* next batch.                                                              *)
Cleanup ==
    /\ pc = "cleanup"
    /\ \E spared \in SUBSET Victims :
        /\ \/ spared = {} /\ UNCHANGED faults
           \/ spared # {} /\ FaultHappens
        /\ files' = [n \in Listing \ (Victims \ spared) |-> files[n]]
        /\ retired' = retired \cup (Victims \ spared)
    /\ pc' = "idle"
    /\ UNCHANGED <<batch, epoch, upload, retries, acked, hidden>>

-----------------------------------------------------------------------------
(* A full refresh: delete_checkpoint, whose delete_all_sources passes over  *)
(* the files it cannot delete.  It is another run: after one that died in   *)
(* the middle of a write (WriteFails, Cleanup), which leaves pc at "idle".  *)
Refresh ==
    /\ pc = "idle"
    /\ batch >= 0
    /\ epoch < MaxRefreshes
    /\ \E spared \in SUBSET Listing :
        /\ \/ spared = {} /\ UNCHANGED faults
           \/ spared # {} /\ FaultHappens
        /\ files' = [n \in spared |-> files[n]]
        /\ hidden' = (spared # {})
    /\ batch' = -1
    /\ epoch' = epoch + 1
    /\ acked' = {}
    /\ retired' = {}
    /\ UNCHANGED <<pc, upload, retries>>

-----------------------------------------------------------------------------
Init ==
    /\ files = <<>>
    /\ batch = -1
    /\ epoch = 0
    /\ pc = "idle"
    /\ upload = Empty
    /\ retries = 0
    /\ faults = 0
    /\ acked = {}
    /\ retired = {}
    /\ hidden = FALSE

Terminated == pc = "idle" /\ batch = MaxBatch /\ epoch = MaxRefreshes /\ UNCHANGED vars

Next ==
    \/ WriteWatermark \/ CreateFile \/ FlushFile \/ WriteFails \/ Cleanup \/ Refresh
    \/ Terminated

Spec == Init /\ [][Next]_vars

-----------------------------------------------------------------------------
(* Properties *)

TypeOK ==
    /\ Listing \subseteq Names /\ files \in [Listing -> Contents]
    /\ batch \in -1..MaxBatch
    /\ epoch \in 0..MaxRefreshes
    /\ pc \in {"idle", "create", "flush", "cleanup"}
    /\ upload \in Contents
    /\ retries \in 0..MaxRetries
    /\ faults \in 0..MaxFaults
    /\ acked \subseteq Items
    /\ retired \subseteq Names
    /\ hidden \in BOOLEAN

(* read_batch_source: the batch's diff, else what its snapshot says of it.  *)
BatchSource(b) ==
    LET own == {n \in Listing : Id(n) = b}
    IN  IF <<"diff", b>> \in own THEN files[<<"diff", b>>].items
        ELSE IF own = {} THEN {}
        ELSE files[<<"snapshot", b>>].items

(* "compaction never deletes anything": whatever fails, the record of a     *)
(* batch can be read until retention deletes the file it was written to.    *)
BatchesReadable ==
    \A i \in acked : i \in BatchSource(i[2]) \/ FileOf(i[2]) \in retired

(* Retention cannot yet reach a file that the next snapshot needs: there is *)
(* room for every snapshot and for the longest stretch without a new one,   *)
(* which each failed snapshot lengthens by an interval.                     *)
Roomy == Cardinality(Snapshots) + (faults + 1) * CompactionInterval <= RetentionFiles

(* "a parquet snapshot is written containing all history": the newest       *)
(* snapshot and the diffs since hold every batch since the full refresh,    *)
(* and that is so as long as retention has room and no fault hides a file.  *)
HistoryComplete ==
    Roomy /\ ~hidden /\ pc # "flush" =>
        acked \subseteq Listed(History)

(* "to avoid double-counting": no snapshot lists a batch twice.             *)
CountedOnce ==
    ~hidden => \A n \in Listing : files[n].repeated = {}

(* "keep the checkpoint directory bounded": the directory outgrows its      *)
(* limit by the file just written, and by one per fault at most.            *)
Bounded == Cardinality(Listing) <= RetentionFiles + 1 + faults
=============================================================================
