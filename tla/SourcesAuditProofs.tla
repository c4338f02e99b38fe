------------------------- MODULE SourcesAuditProofs -------------------------
(***************************************************************************)
(* Theorems about SourcesAudit, for any interval of compaction, any        *)
(* retention, any order of the snapshots' names and any number of batches, *)
(* full refreshes and faults.                                              *)
(***************************************************************************)
EXTENDS SourcesAudit, FiniteSetTheorems, FunctionTheorems, WellFoundedInduction, TLAPS

(* A batch in hand has an ID, and its file is there while it is written.    *)
BatchInHand ==
    /\ pc # "idle" => batch >= 0
    /\ pc = "flush" => FileOf(batch) \in Listing /\ Current \in upload.items

(* A file is a diff or a snapshot as its number says.                       *)
Placed == \A n \in Listing : n = FileOf(Id(n))

(* Acknowledged items are of past batches of this epoch, each in the file   *)
(* it was written to, unless retention deleted that.                        *)
AckedPast ==
    \A i \in acked : /\ i[1] = epoch /\ i[2] <= batch
                     /\ pc \in {"create", "flush"} => i[2] < batch
Kept ==
    \A i \in acked : \/ FileOf(i[2]) \in retired
                     \/ FileOf(i[2]) \in Listing /\ i \in files[FileOf(i[2])].items

AuditInv == TypeOK /\ BatchInHand /\ Placed /\ AckedPast /\ Kept

-----------------------------------------------------------------------------
(* Names and contents *)

LEMMA Limits ==
  /\ CompactionInterval \in Nat \ {0} /\ RetentionFiles \in Nat \ {0}
  /\ MaxBatch \in Nat /\ MaxRefreshes \in Nat /\ MaxFaults \in Nat /\ MaxRetries \in Nat
BY LimitsAssumption

LEMMA NameParts ==
  ASSUME NEW n \in Names
  PROVE  /\ Kind(n) \in {"diff", "snapshot"} /\ Id(n) \in 0..MaxBatch /\ n = <<Kind(n), Id(n)>>
         /\ Id(n) \in Nat
BY Limits DEF Names, Kind, Id

LEMMA FileNames ==
  ASSUME NEW b \in 0..MaxBatch
  PROVE  /\ FileOf(b) \in Names /\ Id(FileOf(b)) = b
         /\ Kind(FileOf(b)) = IF IsCompaction(b) THEN "snapshot" ELSE "diff"
BY DEF FileOf, Names, Id, Kind

LEMMA Merged ==
  ASSUME files \in [Listing -> Contents], NEW names \in SUBSET Listing
  PROVE  AllOf(names) \in Contents
<1>1. \A n \in names : files[n].items \subseteq Items
  BY DEF Contents
<1>2. Listed(names) \subseteq Items
  BY <1>1 DEF Listed
<1>3. ListedTwice(names) \subseteq Items
  BY DEF ListedTwice
<1>4. QED BY <1>2, <1>3 DEF AllOf, Contents

LEMMA CurrentAdded ==
  ASSUME NEW c \in Contents, epoch \in 0..MaxRefreshes, batch \in 0..MaxBatch
  PROVE  WithCurrent(c) \in Contents /\ Current \in WithCurrent(c).items /\ Current \in Items
BY DEF WithCurrent, Contents, Current, Items

-----------------------------------------------------------------------------
(* Types, names, and the file of every batch *)

LEMMA InitAudit == Init => AuditInv
<1> SUFFICES ASSUME Init PROVE AuditInv
  OBVIOUS
<1>1. Listing = {} /\ files \in [Listing -> Contents]
  BY DEF Init, Listing
<1>2. upload \in Contents
  BY DEF Init, Empty, Contents
<1>3. TypeOK
  <2>1. batch \in -1..MaxBatch /\ epoch \in 0..MaxRefreshes
    BY Limits DEF Init
  <2>2. retries \in 0..MaxRetries /\ faults \in 0..MaxFaults
    BY Limits DEF Init
  <2>3. acked \subseteq Items /\ retired \subseteq Names /\ hidden \in BOOLEAN
        /\ pc \in {"idle", "create", "flush", "cleanup"}
    BY DEF Init
  <2>4. QED BY <1>1, <1>2, <2>1, <2>2, <2>3 DEF TypeOK
<1>4. QED BY <1>1, <1>3 DEF Init, AuditInv, BatchInHand, Placed, AckedPast, Kept

(* The two requests of an upload: the file of the batch in hand is there,   *)
(* with other contents; no other file changes.                              *)
OthersKept(n) == \A m \in Listing : m # n => m \in Listing' /\ files'[m] = files[m]

LEMMA FileSet ==
  ASSUME AuditInv, batch \in 0..MaxBatch, NEW c \in Contents,
         files' = [m \in Listing \cup {FileOf(batch)} |-> IF m = FileOf(batch) THEN c ELSE files[m]]
  PROVE  /\ files' \in [Listing' -> Contents] /\ Listing' \subseteq Names
         /\ Listing' = Listing \cup {FileOf(batch)} /\ files'[FileOf(batch)] = c
         /\ OthersKept(FileOf(batch)) /\ Placed'
<1> DEFINE n == FileOf(batch)
<1>1. n \in Names /\ n = FileOf(Id(n))
  BY FileNames
<1>2. Listing' = Listing \cup {n} /\ files'[n] = c
  BY DEF Listing
<1>3. \A m \in Listing' : files'[m] = IF m = n THEN c ELSE files[m]
  BY <1>2
<1>4. files' \in [Listing' -> Contents]
  BY <1>2, <1>3 DEF AuditInv, TypeOK
<1>5. Placed'
  BY <1>1, <1>2 DEF AuditInv, Placed, FileOf, IsCompaction, Id
<1>6. QED BY <1>1, <1>2, <1>3, <1>4, <1>5 DEF OthersKept, AuditInv, TypeOK

LEMMA FileReplaced ==
  ASSUME AuditInv, batch \in 0..MaxBatch, FileOf(batch) \in Listing, files' = Written
  PROVE  /\ files' \in [Listing' -> Contents] /\ Listing' \subseteq Names
         /\ Listing' = Listing /\ files'[FileOf(batch)] = upload
         /\ OthersKept(FileOf(batch)) /\ Placed'
<1>1. files \in [Listing -> Contents] /\ upload \in Contents
  BY DEF AuditInv, TypeOK
<1>2. files' = [m \in Listing \cup {FileOf(batch)} |->
                    IF m = FileOf(batch) THEN upload ELSE files[m]]
  BY <1>1 DEF Written
<1>3. QED BY <1>1, <1>2, FileSet

(* Acknowledged files are not those of the batch in hand. *)
LEMMA PastFilesKept ==
  ASSUME AuditInv, batch \in 0..MaxBatch, pc \in {"create", "flush"},
         OthersKept(FileOf(batch)), acked' = acked, retired' = retired
  PROVE  Kept'
<1> SUFFICES ASSUME NEW i \in acked, FileOf(i[2]) \notin retired
             PROVE  FileOf(i[2])' \in Listing' /\ i \in files'[FileOf(i[2])'].items
  BY DEF Kept
<1>1. /\ FileOf(i[2]) \in Listing /\ i \in files[FileOf(i[2])].items
      /\ i[2] < batch /\ i \in Items
  BY DEF AuditInv, TypeOK, AckedPast, Kept
<1>2. i[2] \in 0..MaxBatch
  BY <1>1 DEF Items
<1>3. FileOf(i[2]) # FileOf(batch)
  BY <1>1, <1>2, FileNames
<1>4. FileOf(i[2])' = FileOf(i[2])
  BY DEF FileOf, IsCompaction
<1>5. QED BY <1>1, <1>3, <1>4 DEF OthersKept

LEMMA WriteWatermarkAudit == AuditInv /\ WriteWatermark => AuditInv'
<1> SUFFICES ASSUME AuditInv, WriteWatermark PROVE AuditInv'
  OBVIOUS
<1> USE DEF AuditInv, WriteWatermark
<1>1. TypeOK' /\ BatchInHand'
  BY Limits DEF TypeOK, BatchInHand, Listing
<1>2. Placed' /\ Kept'
  BY DEF Placed, Kept, Listing, FileOf, IsCompaction
<1>3. AckedPast'
  <2> SUFFICES ASSUME NEW i \in acked PROVE i[1] = epoch /\ i[2] < batch + 1 /\ i[2] <= batch + 1
    BY DEF AckedPast
  <2>1. i[1] = epoch /\ i[2] <= batch /\ i[2] \in 0..MaxBatch /\ batch \in Int
    BY DEF AckedPast, TypeOK, Items
  <2>2. QED BY <2>1
<1>4. QED BY <1>1, <1>2, <1>3

LEMMA CreateFileAudit == AuditInv /\ CreateFile => AuditInv'
<1> SUFFICES ASSUME AuditInv, CreateFile PROVE AuditInv'
  OBVIOUS
<1>1. batch \in 0..MaxBatch /\ epoch \in 0..MaxRefreshes /\ pc = "create"
  BY Limits DEF AuditInv, TypeOK, BatchInHand, CreateFile
<1>2. upload' \in Contents /\ Current \in upload'.items
  <2>1. PICK unread \in SUBSET History :
            upload' = IF IsCompaction(batch) THEN Snapshot(unread) ELSE WithCurrent(Empty)
    BY DEF CreateFile
  <2>2. AllOf(History \ unread) \in Contents
    BY Merged DEF AuditInv, TypeOK, History
  <2>3. Empty \in Contents
    BY DEF Empty, Contents
  <2>4. QED BY <1>1, <2>1, <2>2, <2>3, CurrentAdded DEF Snapshot
<1>3. /\ files' \in [Listing' -> Contents] /\ Listing' \subseteq Names
      /\ Listing' = Listing \cup {FileOf(batch)} /\ OthersKept(FileOf(batch)) /\ Placed'
  <2>1. Empty \in Contents
    BY DEF Empty, Contents
  <2>2. QED BY <1>1, <2>1, FileSet DEF CreateFile
<1>4. faults' \in 0..MaxFaults
  BY Limits DEF CreateFile, FaultHappens, AuditInv, TypeOK
<1>5. TypeOK'
  BY <1>2, <1>3, <1>4 DEF CreateFile, AuditInv, TypeOK
<1>6. BatchInHand'
  BY <1>1, <1>2, <1>3 DEF CreateFile, BatchInHand, FileOf, IsCompaction, Current
<1>7. AckedPast'
  BY <1>1 DEF CreateFile, AuditInv, AckedPast
<1>8. Kept'
  BY <1>1, <1>3, PastFilesKept DEF CreateFile
<1>9. QED BY <1>3, <1>5, <1>6, <1>7, <1>8 DEF AuditInv

LEMMA FlushFileAudit == AuditInv /\ FlushFile => AuditInv'
<1> SUFFICES ASSUME AuditInv, FlushFile PROVE AuditInv'
  OBVIOUS
<1>1. /\ batch \in 0..MaxBatch /\ epoch \in 0..MaxRefreshes /\ pc = "flush"
      /\ FileOf(batch) \in Listing /\ Current \in upload.items
  BY Limits DEF AuditInv, TypeOK, BatchInHand, FlushFile
<1>2. /\ files' \in [Listing' -> Contents] /\ Listing' \subseteq Names /\ Listing' = Listing
      /\ files'[FileOf(batch)] = upload /\ OthersKept(FileOf(batch)) /\ Placed'
  BY <1>1, FileReplaced DEF FlushFile
<1>3. Current \in Items /\ Current[1] = epoch /\ Current[2] = batch
  BY <1>1 DEF Current, Items
<1>4. TypeOK'
  BY Limits, <1>2, <1>3 DEF FlushFile, AuditInv, TypeOK
<1>5. BatchInHand'
  BY <1>1 DEF FlushFile, BatchInHand
<1>6. AckedPast'
  BY <1>1, <1>3 DEF FlushFile, AuditInv, AckedPast
<1>7. Kept'
  <2> SUFFICES ASSUME NEW i \in acked', FileOf(i[2]) \notin retired
               PROVE  FileOf(i[2])' \in Listing' /\ i \in files'[FileOf(i[2])'].items
    BY DEF Kept, FlushFile, FileOf, IsCompaction
  <2>0. FileOf(i[2])' = FileOf(i[2])
    BY DEF FileOf, IsCompaction
  <2>1. CASE i = Current
    BY <1>1, <1>2, <1>3, <2>0, <2>1
  <2>2. CASE i \in acked
    <3>1. /\ FileOf(i[2]) \in Listing /\ i \in files[FileOf(i[2])].items
          /\ i[2] < batch /\ i \in Items
      BY <1>1, <2>2 DEF AuditInv, TypeOK, AckedPast, Kept
    <3>2. i[2] \in 0..MaxBatch
      BY <3>1 DEF Items
    <3>3. FileOf(i[2]) # FileOf(batch)
      BY <1>1, <3>1, <3>2, FileNames
    <3>4. QED BY <1>2, <2>0, <3>1, <3>3 DEF OthersKept
  <2>3. QED BY <2>1, <2>2 DEF FlushFile
<1>8. QED BY <1>2, <1>4, <1>5, <1>6, <1>7 DEF AuditInv

LEMMA WriteFailsAudit == AuditInv /\ WriteFails => AuditInv'
<1> SUFFICES ASSUME AuditInv, WriteFails PROVE AuditInv'
  OBVIOUS
<1>1. batch \in 0..MaxBatch /\ epoch \in 0..MaxRefreshes /\ pc \in {"create", "flush"}
  BY Limits DEF AuditInv, TypeOK, BatchInHand, WriteFails
<1>2. /\ files' \in [Listing' -> Contents] /\ Listing' \subseteq Names
      /\ OthersKept(FileOf(batch)) /\ Placed'
  <2>1. CASE files' = files
    BY <2>1 DEF Listing, OthersKept, AuditInv, TypeOK, Placed, FileOf, IsCompaction
  <2>2. CASE pc = "flush" /\ files' = Written
    BY <1>1, <2>2, FileReplaced DEF AuditInv, BatchInHand
  <2>3. QED BY <2>1, <2>2 DEF WriteFails
<1>3. faults' \in 0..MaxFaults /\ retries' \in 0..MaxRetries /\ hidden' \in BOOLEAN
      /\ pc' \in {"create", "idle"}
  <2>1. faults' \in 0..MaxFaults
    BY Limits DEF WriteFails, FaultHappens, AuditInv, TypeOK
  <2>2. retries' \in 0..MaxRetries /\ pc' \in {"create", "idle"}
    BY Limits DEF WriteFails, AuditInv, TypeOK
  <2>3. hidden' \in BOOLEAN
    BY DEF WriteFails, AuditInv, TypeOK
  <2>4. QED BY <2>1, <2>2, <2>3
<1>4. TypeOK'
  BY <1>2, <1>3 DEF WriteFails, AuditInv, TypeOK
<1>5. BatchInHand'
  BY <1>1, <1>3 DEF WriteFails, BatchInHand
<1>6. AckedPast'
  BY <1>1 DEF WriteFails, AuditInv, AckedPast
<1>7. Kept'
  BY <1>1, <1>2, PastFilesKept DEF WriteFails
<1>8. QED BY <1>2, <1>4, <1>5, <1>6, <1>7 DEF AuditInv

LEMMA CleanupAudit == AuditInv /\ Cleanup => AuditInv'
<1> SUFFICES ASSUME AuditInv, Cleanup PROVE AuditInv'
  OBVIOUS
<1>1. PICK spared \in SUBSET Victims :
         /\ (spared = {} /\ UNCHANGED faults) \/ (spared # {} /\ FaultHappens)
         /\ files' = [n \in Listing \ (Victims \ spared) |-> files[n]]
         /\ retired' = retired \cup (Victims \ spared)
  BY DEF Cleanup
<1>2. Victims \subseteq Listing
  BY DEF Victims
<1>3. /\ Listing' = Listing \ (Victims \ spared)
      /\ \A n \in Listing' : files'[n] = files[n]
  BY <1>1 DEF Listing
<1>4. files' \in [Listing' -> Contents]
  BY <1>1, <1>3 DEF AuditInv, TypeOK
<1>5. faults' \in 0..MaxFaults
  BY Limits, <1>1 DEF FaultHappens, AuditInv, TypeOK
<1>6. TypeOK'
  BY <1>1, <1>2, <1>3, <1>4, <1>5 DEF Cleanup, AuditInv, TypeOK
<1>7. BatchInHand' /\ AckedPast'
  BY DEF Cleanup, AuditInv, BatchInHand, AckedPast
<1>8. Placed'
  BY <1>3 DEF AuditInv, Placed, FileOf, IsCompaction
<1>9. Kept'
  BY <1>1, <1>3 DEF Cleanup, AuditInv, Kept, FileOf, IsCompaction
<1>10. QED BY <1>6, <1>7, <1>8, <1>9 DEF AuditInv

LEMMA RefreshAudit == AuditInv /\ Refresh => AuditInv'
<1> SUFFICES ASSUME AuditInv, Refresh PROVE AuditInv'
  OBVIOUS
<1>1. PICK spared \in SUBSET Listing :
         /\ (spared = {} /\ UNCHANGED faults) \/ (spared # {} /\ FaultHappens)
         /\ files' = [n \in spared |-> files[n]]
         /\ hidden' = (spared # {})
  BY DEF Refresh
<1>2. Listing' = spared /\ \A n \in Listing' : files'[n] = files[n]
  BY <1>1 DEF Listing
<1>3. files' \in [Listing' -> Contents]
  BY <1>1, <1>2 DEF AuditInv, TypeOK
<1>4. faults' \in 0..MaxFaults /\ epoch' \in 0..MaxRefreshes /\ batch' \in -1..MaxBatch
  BY Limits, <1>1 DEF Refresh, FaultHappens, AuditInv, TypeOK
<1>5. TypeOK'
  BY <1>1, <1>2, <1>3, <1>4 DEF Refresh, AuditInv, TypeOK
<1>6. BatchInHand' /\ AckedPast' /\ Kept'
  BY DEF Refresh, BatchInHand, AckedPast, Kept
<1>7. Placed'
  BY <1>2 DEF AuditInv, Placed, FileOf, IsCompaction
<1>8. QED BY <1>5, <1>6, <1>7 DEF AuditInv

(* A step that changes nothing. *)
LEMMA StutterAudit == AuditInv /\ UNCHANGED vars => AuditInv'
BY DEF vars, AuditInv, TypeOK, BatchInHand, Placed, AckedPast, Kept, Listing, FileOf,
       IsCompaction, Current

THEOREM AuditInductive == Spec => []AuditInv
<1>1. AuditInv /\ [Next]_vars => AuditInv'
  BY WriteWatermarkAudit, CreateFileAudit, FlushFileAudit, WriteFailsAudit, CleanupAudit,
     RefreshAudit, StutterAudit DEF Next, Terminated
<1>2. QED BY InitAudit, <1>1, PTL DEF Spec

(* The types of the directory, of the batch in hand and of the history.     *)
THEOREM AuditTypeCorrect == Spec => []TypeOK
<1>1. AuditInv => TypeOK
  BY DEF AuditInv
<1>2. QED BY <1>1, AuditInductive, PTL

(* read_batch_source finds what _record_batch wrote until retention deletes *)
(* that file: a compaction, a failed upload, a spared file or a full        *)
(* refresh never comes between a batch and its record.                      *)
THEOREM RecordedBatchesReadable == Spec => []BatchesReadable
<1>1. AuditInv => BatchesReadable
  <2> SUFFICES ASSUME AuditInv, NEW i \in acked, FileOf(i[2]) \notin retired
               PROVE  i \in BatchSource(i[2])
    BY DEF BatchesReadable
  <2>1. FileOf(i[2]) \in Listing /\ i \in files[FileOf(i[2])].items
    BY DEF AuditInv, Kept
  <2>2. i[2] \in 0..MaxBatch
    BY DEF AuditInv, TypeOK, Items
  <2>3. Id(FileOf(i[2])) = i[2]
    BY <2>2, FileNames
  <2>4. CASE IsCompaction(i[2])
    <3>1. FileOf(i[2]) = <<"snapshot", i[2]>>
      BY <2>4 DEF FileOf
    <3>2. <<"diff", i[2]>> \notin Listing
      <4>1. SUFFICES ASSUME <<"diff", i[2]>> \in Listing PROVE FALSE
        OBVIOUS
      <4>2. <<"diff", i[2]>> = FileOf(i[2])
        BY <4>1 DEF AuditInv, Placed, Id
      <4>3. QED BY <3>1, <4>2
    <3>3. QED BY <2>1, <2>3, <3>1, <3>2 DEF BatchSource
  <2>5. CASE ~IsCompaction(i[2])
    <3>1. FileOf(i[2]) = <<"diff", i[2]>>
      BY <2>5 DEF FileOf
    <3>2. QED BY <2>1, <2>3, <3>1 DEF BatchSource
  <2>6. QED BY <2>4, <2>5
<1>2. QED BY <1>1, AuditInductive, PTL

-----------------------------------------------------------------------------
(* The newest snapshot, and what a snapshot reads *)

LEMMA Greatest ==
  ASSUME NEW N \in Nat, NEW U \in SUBSET (-1..N), U # {}
  PROVE  \E m \in U : \A k \in U : k <= m
<1> DEFINE Less == OpToRel(<, Nat)
           Up == {N - k : k \in U}
<1>1. \A k, n \in Nat : k < n => <<k, n>> \in Less
  BY DEF OpToRel
<1>2. IsWellFoundedOn(Less, Nat)
  BY NatLessThanWellFounded
<1>3. \A k \in U : k \in Int /\ k >= -1 /\ k <= N /\ N - k \in Nat
  OBVIOUS
<1>4. Up \subseteq Nat /\ Up # {}
  BY <1>3
<1> HIDE DEF Less
<1>5. PICK u \in Up : \A v \in Up : ~(<<v, u>> \in Less)
  <2> HIDE DEF Up
  <2> QED BY <1>2, <1>4, WFMin, Zenon
<1>6. PICK m \in U : u = N - m
  OBVIOUS
<1>7. ASSUME NEW k \in U PROVE k <= m
  <2>1. N - k \in Up /\ N - k \in Nat /\ u \in Nat
    BY <1>3, <1>4
  <2>2. ~(N - k < u)
    BY <1>1, <1>5, <2>1
  <2>3. QED BY <1>3, <1>6, <2>1, <2>2
<1>8. QED BY <1>7

LEMMA NewestIsGreatest ==
  ASSUME Listing \subseteq Names
  PROVE  /\ \A n \in Snapshots : Id(n) <= NewestSnapshot
         /\ NewestSnapshot \in Int /\ NewestSnapshot >= -1
         /\ Snapshots = {} => NewestSnapshot = -1
         /\ Snapshots # {} => \E n \in Snapshots : Id(n) = NewestSnapshot
<1> DEFINE Ids == {-1} \cup {Id(n) : n \in Snapshots}
<1>1. \A n \in Snapshots : Id(n) \in Nat /\ Id(n) \in 0..MaxBatch
  BY NameParts DEF Snapshots
<1>2. Ids \in SUBSET (-1..MaxBatch) /\ Ids # {}
  BY <1>1, Limits
<1>3. \E id \in Ids : \A k \in Ids : k <= id
  <2> HIDE DEF Ids
  <2> QED BY <1>2, Limits, Greatest
<1>4. \E id \in Ids : \A n \in Snapshots : Id(n) <= id
  BY <1>3
<1>5. NewestSnapshot \in Ids /\ \A n \in Snapshots : Id(n) <= NewestSnapshot
  BY <1>4 DEF NewestSnapshot
<1>6. NewestSnapshot \in Int /\ NewestSnapshot >= -1
  BY <1>2, <1>5, Limits
<1>7. Snapshots = {} => NewestSnapshot = -1
  BY <1>5
<1>8. ASSUME Snapshots # {} PROVE \E n \in Snapshots : Id(n) = NewestSnapshot
  <2>1. PICK n \in Snapshots : TRUE
    BY <1>8
  <2>2. NewestSnapshot # -1
    BY <1>1, <1>5, <1>6, <2>1
  <2>3. QED BY <1>5, <2>2
<1>9. QED BY <1>5, <1>6, <1>7, <1>8

-----------------------------------------------------------------------------
(* No batch twice *)

(* A file of batch n lists batches of this epoch, once: a diff its own, a   *)
(* snapshot none that came after.                                           *)
OfItsBatch(n, c) ==
    /\ c.repeated = {}
    /\ \A i \in c.items : /\ i[1] = epoch
                          /\ IF Kind(n) = "diff" THEN i[2] = Id(n) ELSE i[2] <= Id(n)

(* With every file read, none of a later batch is in the directory, and a   *)
(* compaction does not find a snapshot of its own batch.                    *)
Clean ==
    ~hidden =>
        /\ \A n \in Listing : Id(n) <= batch /\ OfItsBatch(n, files[n])
        /\ pc = "create" /\ IsCompaction(batch) => FileOf(batch) \notin Listing
        /\ pc = "flush" => OfItsBatch(FileOf(batch), upload)

(* The files a compaction reads list each item in one place. *)
LEMMA HistoryDisjoint ==
  ASSUME AuditInv, \A n \in Listing : OfItsBatch(n, files[n])
  PROVE  ListedTwice(History) = {}
<1>1. \A n \in Listing : n \in Names
  BY DEF AuditInv, TypeOK
<1>2. ASSUME NEW m \in History, NEW n \in History, NEW i \in files[m].items \cap files[n].items
      PROVE  m = n
  <2>1. /\ m \in Listing /\ n \in Listing /\ Id(m) \in Nat /\ Id(n) \in Nat
        /\ m = FileOf(Id(m)) /\ n = FileOf(Id(n))
    BY <1>1, NameParts DEF History, AuditInv, Placed
  <2>2. /\ IF Kind(m) = "diff" THEN i[2] = Id(m) ELSE i[2] <= Id(m)
        /\ IF Kind(n) = "diff" THEN i[2] = Id(n) ELSE i[2] <= Id(n)
    BY <2>1 DEF OfItsBatch
  <2>3. /\ IF Kind(m) = "snapshot" THEN Id(m) = NewestSnapshot ELSE Id(m) > NewestSnapshot
        /\ IF Kind(n) = "snapshot" THEN Id(n) = NewestSnapshot ELSE Id(n) > NewestSnapshot
    BY DEF History
  <2>4. Kind(m) \in {"diff", "snapshot"} /\ Kind(n) \in {"diff", "snapshot"}
    BY <1>1, <2>1, NameParts
  <2>5. NewestSnapshot \in Int
    BY NewestIsGreatest DEF AuditInv, TypeOK
  <2>6. i[2] \in Nat
    <3>1. i \in Items
      BY <2>1 DEF AuditInv, TypeOK, Contents
    <3>2. QED BY <3>1 DEF Items
  <2>7. Id(m) = Id(n)
    BY <2>1, <2>2, <2>3, <2>4, <2>5, <2>6
  <2>8. QED BY <2>1, <2>7
<1>3. \A n \in History : files[n].repeated = {}
  BY DEF History, OfItsBatch
<1>4. QED BY <1>2, <1>3 DEF ListedTwice

(* What the snapshot of a compaction that reads every file holds. *)
LEMMA SnapshotClean ==
  ASSUME AuditInv, batch \in 0..MaxBatch, IsCompaction(batch), FileOf(batch) \notin Listing,
         \A n \in Listing : Id(n) <= batch /\ OfItsBatch(n, files[n])
  PROVE  OfItsBatch(FileOf(batch), Snapshot({}))
<1>1. /\ \A n \in Listing : n \in Names /\ n = FileOf(Id(n))
      /\ \A n \in Listing : Id(n) \in Nat /\ Id(n) < batch
  <2>1. \A n \in Listing : n \in Names /\ n = FileOf(Id(n))
    BY DEF AuditInv, TypeOK, Placed
  <2>2. \A n \in Listing : Id(n) \in Nat /\ Id(n) # batch
    BY <2>1, NameParts
  <2>3. QED BY <2>1, <2>2
<1>2. ASSUME NEW i \in Listed(History) PROVE i[1] = epoch /\ i[2] \in Nat /\ i[2] < batch
  <2>1. PICK n \in Listing : i \in files[n].items
    BY <1>2 DEF Listed, History
  <2>2. i \in Items
    BY <2>1 DEF AuditInv, TypeOK, Contents
  <2>3. i[2] \in Nat
    BY <2>2 DEF Items
  <2>4. /\ i[1] = epoch
        /\ IF Kind(n) = "diff" THEN i[2] = Id(n) ELSE i[2] <= Id(n)
    BY <2>1 DEF OfItsBatch
  <2>5. QED BY <1>1, <2>3, <2>4
<1>3. ListedTwice(History) = {}
  BY HistoryDisjoint
<1>4. Current \notin Listed(History) /\ Current[1] = epoch /\ Current[2] = batch
  BY <1>2 DEF Current
<1>5. /\ Snapshot({}).items = Listed(History) \cup {Current}
      /\ Snapshot({}).repeated = ListedTwice(History) \cup (Listed(History) \cap {Current})
  <2>1. History \ {} = History
    OBVIOUS
  <2>2. QED BY <2>1 DEF Snapshot, WithCurrent, AllOf
<1>6. Snapshot({}).repeated = {}
  BY <1>3, <1>4, <1>5
<1>7. \A i \in Snapshot({}).items : i[1] = epoch /\ i[2] <= batch
  BY <1>2, <1>4, <1>5
<1>8. Id(FileOf(batch)) = batch /\ Kind(FileOf(batch)) = "snapshot"
  BY FileNames
<1>9. QED BY <1>6, <1>7, <1>8 DEF OfItsBatch

LEMMA DiffClean ==
  ASSUME batch \in 0..MaxBatch, ~IsCompaction(batch)
  PROVE  OfItsBatch(FileOf(batch), WithCurrent(Empty))
<1>1. Id(FileOf(batch)) = batch
  BY FileNames
<1>2. WithCurrent(Empty).items = {Current} /\ WithCurrent(Empty).repeated = {}
  BY DEF WithCurrent, Empty
<1>3. QED BY <1>1, <1>2 DEF OfItsBatch, Current

LEMMA InitClean == Init => Clean
BY DEF Init, Clean, Listing

LEMMA CreateFileClean == AuditInv /\ Clean /\ CreateFile => Clean'
<1> SUFFICES ASSUME AuditInv, Clean, CreateFile, ~hidden' PROVE Clean'
  BY DEF Clean
<1>1. /\ batch \in 0..MaxBatch /\ batch' = batch /\ epoch' = epoch /\ pc = "create"
      /\ pc' = "flush"
  BY Limits DEF AuditInv, TypeOK, BatchInHand, CreateFile
<1>2. /\ ~hidden
      /\ upload' = IF IsCompaction(batch) THEN Snapshot({}) ELSE WithCurrent(Empty)
  BY DEF CreateFile
<1>3. /\ \A n \in Listing : Id(n) <= batch /\ OfItsBatch(n, files[n])
      /\ IsCompaction(batch) => FileOf(batch) \notin Listing
  BY <1>1, <1>2 DEF Clean
<1>4. OfItsBatch(FileOf(batch), upload')
  BY <1>1, <1>2, <1>3, SnapshotClean, DiffClean
<1>5. /\ Listing' = Listing \cup {FileOf(batch)} /\ files'[FileOf(batch)] = Empty
      /\ OthersKept(FileOf(batch))
  <2>1. Empty \in Contents
    BY DEF Empty, Contents
  <2>2. QED BY <1>1, <2>1, FileSet DEF CreateFile
<1>6. ASSUME NEW n \in Listing' PROVE Id(n) <= batch /\ OfItsBatch(n, files'[n])
  <2>1. CASE n = FileOf(batch)
    BY <1>1, <1>5, <2>1, FileNames DEF OfItsBatch, Empty
  <2>2. CASE n # FileOf(batch)
    BY <1>3, <1>5, <2>2 DEF OthersKept
  <2>3. QED BY <2>1, <2>2
<1>7. FileOf(batch)' = FileOf(batch)
  BY <1>1 DEF FileOf, IsCompaction
<1>8. QED BY <1>1, <1>4, <1>6, <1>7 DEF Clean, OfItsBatch, Id, Kind

LEMMA WritingClean ==
  ASSUME AuditInv, Clean, ~hidden, pc = "flush", files' = Written, epoch' = epoch
  PROVE  /\ Listing' = Listing
         /\ \A n \in Listing' : Id(n) <= batch /\ OfItsBatch(n, files'[n])
<1>1. batch \in 0..MaxBatch /\ FileOf(batch) \in Listing
  BY Limits DEF AuditInv, TypeOK, BatchInHand
<1>2. /\ Listing' = Listing /\ files'[FileOf(batch)] = upload
      /\ OthersKept(FileOf(batch))
  BY <1>1, FileReplaced
<1>3. /\ \A n \in Listing : Id(n) <= batch /\ OfItsBatch(n, files[n])
      /\ OfItsBatch(FileOf(batch), upload)
  BY DEF Clean
<1>4. ASSUME NEW n \in Listing' PROVE Id(n) <= batch /\ OfItsBatch(n, files'[n])
  <2>1. CASE n = FileOf(batch)
    BY <1>1, <1>2, <1>3, <2>1
  <2>2. CASE n # FileOf(batch)
    BY <1>2, <1>3, <2>2 DEF OthersKept
  <2>3. QED BY <2>1, <2>2
<1>5. QED BY <1>2, <1>4

LEMMA NextClean == AuditInv /\ Clean /\ [Next]_vars => Clean'
<1> SUFFICES ASSUME AuditInv, Clean, [Next]_vars PROVE Clean'
  OBVIOUS
<1>1. CASE WriteWatermark
  <2> SUFFICES ASSUME ~hidden PROVE Clean'
    BY <1>1 DEF WriteWatermark, Clean
  <2>1. /\ files' = files /\ batch' = batch + 1 /\ epoch' = epoch /\ pc' = "create"
        /\ Listing' = Listing /\ batch \in -1..MaxBatch /\ batch' \in 0..MaxBatch
    BY <1>1, Limits DEF WriteWatermark, Listing, AuditInv, TypeOK
  <2>2. \A n \in Listing : /\ Id(n) <= batch /\ OfItsBatch(n, files[n])
                           /\ Id(n) \in Nat
    BY NameParts DEF Clean, AuditInv, TypeOK
  <2>3. FileOf(batch') \notin Listing
    <3>1. Id(FileOf(batch')) = batch'
      BY <2>1, FileNames
    <3>2. QED BY <2>1, <2>2, <3>1
  <2>4. FileOf(batch)' = FileOf(batch')
    BY DEF FileOf, IsCompaction
  <2>5. \A n \in Listing' : Id(n) <= batch' /\ OfItsBatch(n, files'[n])
    BY <2>1, <2>2
  <2>6. QED BY <2>1, <2>3, <2>4, <2>5 DEF Clean, OfItsBatch, Id, Kind
<1>2. CASE CreateFile
  BY <1>2, CreateFileClean
<1>3. CASE FlushFile
  <2> SUFFICES ASSUME ~hidden PROVE Clean'
    BY <1>3 DEF FlushFile, Clean
  <2>1. /\ files' = Written /\ batch' = batch /\ epoch' = epoch /\ pc = "flush" /\ pc' = "cleanup"
    BY <1>3 DEF FlushFile
  <2>2. \A n \in Listing' : Id(n) <= batch /\ OfItsBatch(n, files'[n])
    BY <2>1, WritingClean
  <2>3. QED BY <2>1, <2>2 DEF Clean, OfItsBatch, Id, Kind
<1>4. CASE WriteFails
  <2> SUFFICES ASSUME ~hidden' PROVE Clean'
    BY DEF Clean
  <2>1. /\ ~hidden /\ ~(pc = "flush" /\ IsCompaction(batch))
        /\ batch' = batch /\ epoch' = epoch /\ upload' = upload /\ pc' \in {"create", "idle"}
        /\ pc \in {"create", "flush"}
    BY <1>4 DEF WriteFails
  <2>2. /\ Listing' = Listing
        /\ \A n \in Listing' : Id(n) <= batch /\ OfItsBatch(n, files'[n])
    <3>1. CASE files' = files
      BY <2>1, <3>1 DEF Clean, Listing
    <3>2. CASE pc = "flush" /\ files' = Written
      BY <2>1, <3>2, WritingClean
    <3>3. QED BY <1>4, <3>1, <3>2 DEF WriteFails
  <2>3. IsCompaction(batch) => FileOf(batch) \notin Listing
    BY <2>1 DEF Clean
  <2>4. FileOf(batch)' = FileOf(batch)
    BY <2>1 DEF FileOf, IsCompaction
  <2>5. QED BY <2>1, <2>2, <2>3, <2>4 DEF Clean, OfItsBatch, Id, Kind, IsCompaction
<1>5. CASE Cleanup
  <2> SUFFICES ASSUME ~hidden PROVE Clean'
    BY <1>5 DEF Cleanup, Clean
  <2>1. batch' = batch /\ epoch' = epoch /\ pc' = "idle"
    BY <1>5 DEF Cleanup
  <2>2. \A n \in Listing' : n \in Listing /\ files'[n] = files[n]
    BY <1>5 DEF Cleanup, Listing
  <2>3. QED BY <2>1, <2>2 DEF Clean, OfItsBatch, Id, Kind
<1>6. CASE Refresh
  <2> SUFFICES ASSUME ~hidden' PROVE Clean'
    BY DEF Clean
  <2>1. Listing' = {} /\ pc' = "idle"
    BY <1>6 DEF Refresh, Listing
  <2>2. QED BY <2>1 DEF Clean
<1>7. CASE UNCHANGED vars
  BY <1>7 DEF vars, Clean, Listing, OfItsBatch, FileOf, IsCompaction, Id, Kind
<1>8. QED BY <1>1, <1>2, <1>3, <1>4, <1>5, <1>6, <1>7 DEF Next, Terminated

THEOREM CleanInvariant == Spec => []Clean
<1>1. QED BY InitClean, NextClean, AuditInductive, PTL DEF Spec

(* No file ever lists a batch twice, whatever else fails, until a fault     *)
(* that is only logged hides a file from a compaction.                      *)
THEOREM EveryBatchCountedOnce == Spec => []CountedOnce
<1>1. Clean => CountedOnce
  BY DEF Clean, CountedOnce, OfItsBatch
<1>2. QED BY <1>1, CleanInvariant, PTL

-----------------------------------------------------------------------------
(* Retention: the files are counted along the order they are deleted in *)

Before(n) == {m \in Listing : DeletedBefore(m, n)}
Rank(n) == Cardinality(Before(n))

LEMMA ListingFinite ==
  ASSUME Listing \subseteq Names
  PROVE  IsFiniteSet(Listing) /\ Cardinality(Listing) \in Nat
<1>1. IsFiniteSet({"diff"} \cup {"snapshot"})
  BY FS_Singleton, FS_AddElement
<1>2. IsFiniteSet({"diff", "snapshot"})
  <2>1. {"diff"} \cup {"snapshot"} = {"diff", "snapshot"}
    OBVIOUS
  <2>2. QED BY <1>1, <2>1
<1>3. IsFiniteSet(0..MaxBatch)
  BY FS_Interval, Limits
<1>4. IsFiniteSet(Names)
  BY <1>2, <1>3, FS_Product DEF Names
<1>5. IsFiniteSet(Listing)
  BY <1>4, FS_Subset
<1>6. QED BY <1>5, FS_CardinalityType

LEMMA DeletionOrder ==
  ASSUME NEW k \in Names, NEW m \in Names, NEW n \in Names
  PROVE  /\ ~DeletedBefore(n, n)
         /\ DeletedBefore(k, m) /\ DeletedBefore(m, n) => DeletedBefore(k, n)
         /\ m # n => DeletedBefore(m, n) \/ DeletedBefore(n, m)
<1>1. \A j \in {k, m, n} : /\ Kind(j) \in {"diff", "snapshot"} /\ Id(j) \in 0..MaxBatch /\ Id(j) \in Nat
                           /\ j = <<Kind(j), Id(j)>> /\ NameOrder[Id(j)] \in Nat
  BY NameParts, NameAssumption
<1>2. Id(m) # Id(n) => NameOrder[Id(m)] # NameOrder[Id(n)]
  BY <1>1, NameAssumption
<1>3. m # n => Kind(m) # Kind(n) \/ Id(m) # Id(n)
  BY <1>1
<1>4. QED BY <1>1, <1>2, <1>3 DEF DeletedBefore

LEMMA RankIncreases ==
  ASSUME Listing \subseteq Names, NEW m \in Listing, NEW n \in Listing
  PROVE  /\ Rank(n) \in Nat /\ Rank(n) < Cardinality(Listing)
         /\ DeletedBefore(m, n) => Rank(m) < Rank(n)
<1>1. \A l \in Listing : Before(l) \subseteq Listing /\ l \notin Before(l)
  BY DeletionOrder DEF Before
<1>2. \A l \in Listing : IsFiniteSet(Before(l)) /\ Rank(l) \in Nat
  BY <1>1, ListingFinite, FS_Subset, FS_CardinalityType DEF Rank
<1>3. Rank(n) < Cardinality(Listing)
  <2>1. Cardinality(Before(n)) <= Cardinality(Listing)
        /\ Cardinality(Listing) # Cardinality(Before(n))
    BY <1>1, ListingFinite, FS_Subset
  <2>2. QED BY <1>2, <2>1, ListingFinite DEF Rank
<1>4. ASSUME DeletedBefore(m, n) PROVE Rank(m) < Rank(n)
  <2>1. Before(m) \subseteq Before(n)
    BY <1>4, DeletionOrder DEF Before
  <2>2. m \in Before(n) /\ m \notin Before(m)
    BY <1>1, <1>4 DEF Before
  <2>3. Cardinality(Before(m)) <= Cardinality(Before(n))
        /\ Cardinality(Before(m)) # Cardinality(Before(n))
    BY <1>2, <2>1, <2>2, FS_Subset
  <2>4. QED BY <1>2, <2>3 DEF Rank
<1>5. QED BY <1>2, <1>3, <1>4

(* A set of files whose ranks lie in an interval is no larger than that.    *)
LEMMA RanksBound ==
  ASSUME Listing \subseteq Names, NEW S \in SUBSET Listing, NEW a \in Nat, NEW b \in Nat,
         \A n \in S : Rank(n) \in a..(b - 1), a <= b
  PROVE  IsFiniteSet(S) /\ Cardinality(S) <= b - a /\ Cardinality(S) \in Nat
<1> DEFINE f == [n \in S |-> Rank(n)]
<1>1. ASSUME NEW m \in S, NEW n \in S, Rank(m) = Rank(n) PROVE m = n
  <2>1. ~DeletedBefore(m, n) /\ ~DeletedBefore(n, m)
    BY <1>1, RankIncreases
  <2>2. QED BY <2>1, DeletionOrder
<1>2. f \in [S -> a..(b - 1)] /\ \A m, n \in S : f[m] = f[n] => m = n
  BY <1>1
<1>3. f \in Injection(S, a..(b - 1))
  <2> HIDE DEF f
  <2> QED BY <1>2, Fun_IsInj
<1>4. IsFiniteSet(a..(b - 1)) /\ Cardinality(a..(b - 1)) = b - a
  <2> DEFINE c == b - 1
  <2>1. a \in Int /\ c \in Int
    OBVIOUS
  <2>2. IsFiniteSet(a..c) /\ Cardinality(a..c) = IF a > c THEN 0 ELSE c - a + 1
    <3> HIDE DEF c
    <3> QED BY <2>1, FS_Interval
  <2>3. QED BY <2>2
<1>5. IsFiniteSet(S) /\ Cardinality(S) <= Cardinality(a..(b - 1))
  <2> HIDE DEF f
  <2> QED BY <1>3, <1>4, FS_Injection
<1>6. QED BY <1>4, <1>5, FS_CardinalityType

(* Retention deletes the surplus and no more. *)
LEMMA SurvivorsCount ==
  ASSUME Listing \subseteq Names
  PROVE  LET Left == Listing \ Victims
         IN  /\ IsFiniteSet(Left) /\ Cardinality(Left) \in Nat /\ Cardinality(Left) <= RetentionFiles
             /\ Cardinality(Listing) >= RetentionFiles => Cardinality(Left) >= RetentionFiles
             /\ Cardinality(Listing) <= RetentionFiles => Victims = {}
<1> DEFINE Left == Listing \ Victims
           size == Cardinality(Listing)
<1>1. size \in Nat /\ IsFiniteSet(Listing) /\ RetentionFiles \in Nat /\ Surplus = size - RetentionFiles
  BY ListingFinite, Limits DEF Surplus
<1>2. \A n \in Listing : Rank(n) \in Nat /\ Rank(n) < size
  BY RankIncreases
<1>3. Victims = {n \in Listing : Rank(n) < Surplus}
  BY DEF Victims, Rank, Before
<1>4. CASE size <= RetentionFiles
  <2>1. Victims = {}
    BY <1>1, <1>2, <1>3, <1>4
  <2>2. Left = Listing
    BY <2>1
  <2>3. QED BY <1>1, <1>4, <2>1, <2>2
<1>5. CASE size > RetentionFiles
  <2>1. Surplus \in Nat /\ Surplus <= size
    BY <1>1, <1>5
  <2>2. \A n \in Left : Rank(n) \in Surplus..(size - 1)
    BY <1>1, <1>2, <1>3, <2>1
  <2>3. \A n \in Victims : Rank(n) \in 0..(Surplus - 1)
    BY <1>1, <1>2, <1>3, <2>1
  <2>4. IsFiniteSet(Left) /\ Cardinality(Left) <= size - Surplus /\ Cardinality(Left) \in Nat
    BY <1>1, <2>1, <2>2, RanksBound
  <2>5. Victims \subseteq Listing
    BY DEF Victims
  <2>6. Cardinality(Victims) <= Surplus /\ Cardinality(Victims) \in Nat
    <3>1. Cardinality(Victims) <= Surplus - 0 /\ Cardinality(Victims) \in Nat
      BY <2>1, <2>3, <2>5, RanksBound
    <3>2. QED BY <2>1, <3>1
  <2>7. Cardinality(Left) = size - Cardinality(Victims)
    <3>1. Listing \cap Victims = Victims
      BY <2>5
    <3>2. QED BY <1>1, <3>1, FS_Difference
  <2>8. QED BY <1>1, <1>5, <2>4, <2>6, <2>7
<1>6. QED BY <1>1, <1>4, <1>5

-----------------------------------------------------------------------------
(* The size of the directory *)

(* Above the limit there is a file per fault, and the file in hand.         *)
Fits ==
    Cardinality(Listing) <=
        RetentionFiles + faults + IF pc \in {"flush", "cleanup"} THEN 1 ELSE 0

(* A set of the remaining files is a finite set no larger than the old one. *)
LEMMA FewerFiles ==
  ASSUME AuditInv, NEW S \in SUBSET Listing
  PROVE  /\ IsFiniteSet(S) /\ Cardinality(S) \in Nat /\ Cardinality(S) <= Cardinality(Listing)
         /\ Cardinality(Listing) \in Nat
BY ListingFinite, FS_Subset, FS_CardinalityType DEF AuditInv, TypeOK

LEMMA InitFits == Init => Fits
<1> SUFFICES ASSUME Init PROVE Fits
  OBVIOUS
<1>1. Cardinality(Listing) = 0 /\ faults = 0 /\ pc = "idle"
  BY FS_EmptySet DEF Init, Listing
<1>2. QED BY <1>1, Limits DEF Fits

LEMMA CreateFileFits == AuditInv /\ Fits /\ CreateFile => Fits'
<1> SUFFICES ASSUME AuditInv, Fits, CreateFile PROVE Fits'
  OBVIOUS
<1>1. Listing' = Listing \cup {FileOf(batch)} /\ pc = "create" /\ pc' = "flush"
  BY DEF CreateFile, Listing
<1>2. IsFiniteSet(Listing) /\ Cardinality(Listing) \in Nat
  BY ListingFinite DEF AuditInv, TypeOK
<1>3. Cardinality(Listing') <= Cardinality(Listing) + 1 /\ Cardinality(Listing') \in Nat
  BY <1>1, <1>2, FS_AddElement
<1>4. faults' >= faults /\ faults \in Nat /\ faults' \in Nat
  BY DEF CreateFile, FaultHappens, AuditInv, TypeOK
<1>5. Cardinality(Listing) <= RetentionFiles + faults
  BY <1>1, Limits, <1>4 DEF Fits
<1>6. Cardinality(Listing') <= RetentionFiles + faults' + 1
  BY <1>2, <1>3, <1>4, <1>5, Limits
<1>7. QED BY <1>1, <1>6 DEF Fits

LEMMA CleanupFits == AuditInv /\ Fits /\ Cleanup => Fits'
<1> SUFFICES ASSUME AuditInv, Fits, Cleanup PROVE Fits'
  OBVIOUS
<1>1. PICK spared \in SUBSET Victims :
         /\ (spared = {} /\ UNCHANGED faults) \/ (spared # {} /\ FaultHappens)
         /\ files' = [n \in Listing \ (Victims \ spared) |-> files[n]]
  BY DEF Cleanup
<1>2. Listing' = Listing \ (Victims \ spared) /\ pc = "cleanup" /\ pc' = "idle"
  BY <1>1 DEF Listing, Cleanup
<1>3. faults \in Nat /\ Listing \subseteq Names
  BY DEF AuditInv, TypeOK
<1>4. /\ Cardinality(Listing') \in Nat /\ Cardinality(Listing) \in Nat
      /\ Cardinality(Listing') <= Cardinality(Listing)
  BY <1>2, FewerFiles
<1>5. Cardinality(Listing) <= RetentionFiles + faults + 1
  BY <1>2 DEF Fits
<1>6. CASE spared = {}
  <2>1. Listing' = Listing \ Victims
    BY <1>2, <1>6
  <2>2. Cardinality(Listing') <= RetentionFiles
    BY <1>3, <2>1, SurvivorsCount
  <2>3. faults' = faults
    BY <1>1, <1>6
  <2>4. QED BY <1>2, <1>3, <1>4, <2>2, <2>3, Limits DEF Fits
<1>7. CASE spared # {}
  <2>1. faults' = faults + 1
    BY <1>1, <1>7 DEF FaultHappens
  <2>2. QED BY <1>2, <1>3, <1>4, <1>5, <2>1, Limits DEF Fits
<1>8. QED BY <1>6, <1>7

LEMMA RefreshFits == AuditInv /\ Fits /\ Refresh => Fits'
<1> SUFFICES ASSUME AuditInv, Fits, Refresh PROVE Fits'
  OBVIOUS
<1>1. Listing' \subseteq Listing /\ pc = "idle" /\ pc' = "idle"
  BY DEF Listing, Refresh
<1>2. Cardinality(Listing') \in Nat /\ Cardinality(Listing) \in Nat
      /\ Cardinality(Listing') <= Cardinality(Listing)
  BY <1>1, FewerFiles
<1>3. faults' >= faults /\ faults \in Nat /\ faults' \in Nat
  BY DEF Refresh, FaultHappens, AuditInv, TypeOK
<1>4. QED BY <1>1, <1>2, <1>3, Limits DEF Fits

LEMMA WriteFailsFits == AuditInv /\ Fits /\ WriteFails => Fits'
<1> SUFFICES ASSUME AuditInv, Fits, WriteFails PROVE Fits'
  OBVIOUS
<1>1. Listing' = Listing /\ pc' \in {"create", "idle"} /\ faults' = faults + 1
  BY DEF WriteFails, FaultHappens, Listing, Written
<1>2. faults \in Nat /\ Cardinality(Listing) \in Nat
  BY FewerFiles DEF AuditInv, TypeOK
<1>3. QED BY <1>1, <1>2, Limits DEF Fits

LEMMA NextFits == AuditInv /\ Fits /\ [Next]_vars => Fits'
<1> SUFFICES ASSUME AuditInv, Fits, [Next]_vars PROVE Fits'
  OBVIOUS
<1>1. CASE WriteWatermark
  BY <1>1 DEF WriteWatermark, Fits, Listing
<1>2. CASE CreateFile
  BY <1>2, CreateFileFits
<1>3. CASE FlushFile
  BY <1>3 DEF FlushFile, Written, Fits, Listing
<1>4. CASE WriteFails
  BY <1>4, WriteFailsFits
<1>5. CASE Cleanup
  BY <1>5, CleanupFits
<1>6. CASE Refresh
  BY <1>6, RefreshFits
<1>7. CASE UNCHANGED vars
  BY <1>7 DEF vars, Fits, Listing
<1>8. QED BY <1>1, <1>2, <1>3, <1>4, <1>5, <1>6, <1>7 DEF Next, Terminated

(* The directory never holds more than the retention allows, the file just  *)
(* written and one file per fault, whatever the order of the names.         *)
THEOREM DirectoryBounded == Spec => []Bounded
<1>1. Spec => []Fits
  BY InitFits, NextFits, AuditInductive, PTL DEF Spec
<1>2. AuditInv /\ Fits => Bounded
  <2> SUFFICES ASSUME AuditInv, Fits PROVE Bounded
    OBVIOUS
  <2>1. faults \in Nat /\ Cardinality(Listing) \in Nat
    BY FewerFiles DEF AuditInv, TypeOK
  <2>2. QED BY <2>1, Limits DEF Fits, Bounded
<1>3. QED BY <1>1, <1>2, AuditInductive, PTL

-----------------------------------------------------------------------------
(* The history a snapshot reads *)

(* The batch of the newest snapshot, and how far the next one can be: an    *)
(* interval, and one more for each fault that may have cost a snapshot.     *)
Base == IF Snapshots = {} THEN 0 ELSE NewestSnapshot
Span == (faults + 1) * CompactionInterval

(* The batch in hand is within that reach, and what the newest snapshot and *)
(* the diffs since list is every acknowledged batch; between the two        *)
(* requests of a snapshot it is what is about to be written.                *)
Within == IF pc = "create" /\ IsCompaction(batch) THEN batch <= Base + Span
                                                  ELSE batch < Base + Span
Complete ==
    IF pc = "flush" /\ IsCompaction(batch) THEN acked \subseteq upload.items
                                           ELSE acked \subseteq Listed(History)
Reach == Roomy /\ ~hidden => Within /\ Complete

LEMMA Multiples ==
  ASSUME NEW x \in Nat
  PROVE  x % CompactionInterval = 0 <=> \E k \in Nat : x = k * CompactionInterval
<1> DEFINE d == CompactionInterval
           q == x \div d
<1>1. d \in Nat /\ d > 0
  BY Limits
<1>2. q \in Nat /\ x = q * d + (x % d) /\ x % d \in 0..(d - 1)
  BY <1>1
<1>3. ASSUME NEW k \in Nat, x = k * d PROVE x % d = 0
  <2>1. (k - q) * d = x % d
    BY <1>1, <1>2, <1>3
  <2>2. k - q >= 1 => (k - q) * d >= d
    BY <1>1, <1>2
  <2>3. k - q <= -1 => (k - q) * d <= -d
    BY <1>1, <1>2
  <2>4. k - q = 0 => (k - q) * d = 0
    BY <1>1, <1>2
  <2>5. QED BY <1>1, <1>2, <2>1, <2>2, <2>3, <2>4
<1>4. ASSUME x % d = 0 PROVE \E k \in Nat : x = k * d
  BY <1>1, <1>2, <1>4
<1>5. QED BY <1>3, <1>4

LEMMA SpanPositive ==
  ASSUME faults \in Nat
  PROVE  Span \in Nat /\ Span >= CompactionInterval /\ Span > 0
<1>1. Span = faults * CompactionInterval + CompactionInterval
  BY Limits DEF Span
<1>2. faults * CompactionInterval \in Nat
  BY Limits
<1>3. QED BY <1>1, <1>2, Limits

LEMMA BaseIsSnapshot ==
  ASSUME AuditInv
  PROVE  /\ Base \in Nat /\ Base % CompactionInterval = 0
         /\ Snapshots # {} => Base = NewestSnapshot
<1>1. CASE Snapshots = {}
  <2>1. Base = 0
    BY <1>1 DEF Base
  <2>2. 0 = 0 * CompactionInterval
    BY Limits
  <2>3. QED BY <1>1, <2>1, <2>2, Multiples
<1>2. CASE Snapshots # {}
  <2>1. PICK n \in Snapshots : Id(n) = NewestSnapshot
    BY <1>2, NewestIsGreatest DEF AuditInv, TypeOK
  <2>2. n \in Names /\ n = FileOf(Id(n)) /\ Kind(n) = "snapshot"
    BY DEF Snapshots, AuditInv, TypeOK, Placed
  <2>3. IsCompaction(Id(n)) /\ Id(n) \in Nat
    BY <2>2, NameParts, FileNames
  <2>4. QED BY <1>2, <2>1, <2>3 DEF Base, IsCompaction
<1>3. QED BY <1>1, <1>2

(* The last batch within reach is a compaction. *)
LEMMA ReachEnds ==
  ASSUME AuditInv
  PROVE  /\ Base + Span \in Nat /\ IsCompaction(Base + Span)
<1>1. faults \in Nat /\ CompactionInterval \in Nat
  BY Limits DEF AuditInv, TypeOK
<1>2. Base \in Nat /\ Span \in Nat /\ Span > 0
  BY <1>1, BaseIsSnapshot, SpanPositive
<1>3. PICK k \in Nat : Base = k * CompactionInterval
  BY <1>2, BaseIsSnapshot, Multiples
<1>4. Base + Span = (k + faults + 1) * CompactionInterval
  <2>1. \A i, j, d \in Nat : i * d + j * d = (i + j) * d
    OBVIOUS
  <2>2. k * CompactionInterval + (faults + 1) * CompactionInterval
          = (k + (faults + 1)) * CompactionInterval
    BY <1>1, <2>1
  <2>3. k + (faults + 1) = k + faults + 1
    BY <1>1
  <2>4. QED BY <1>3, <2>2, <2>3 DEF Span
<1>5. k + faults + 1 \in Nat /\ Base + Span \in Nat
  BY <1>1, <1>2
<1>6. (Base + Span) % CompactionInterval = 0
  BY <1>4, <1>5, Multiples
<1>7. QED BY <1>2, <1>6 DEF IsCompaction

(* More faults leave less room and a longer reach. *)
LEMMA MoreFaults ==
  ASSUME faults \in Nat, faults' \in Nat, faults <= faults'
  PROVE  /\ Span \in Nat /\ Span' \in Nat /\ Span <= Span'
         /\ faults' = faults + 1 => Span' = Span + CompactionInterval
<1>1. /\ Span = faults * CompactionInterval + CompactionInterval
      /\ Span' = faults' * CompactionInterval + CompactionInterval
  BY Limits DEF Span
<1>2. PICK k \in Nat : faults' = faults + k
  <2>1. \A i, j \in Nat : i <= j => \E k \in Nat : j = i + k
    <3> SUFFICES ASSUME NEW i \in Nat, NEW j \in Nat, i <= j PROVE \E k \in Nat : j = i + k
      OBVIOUS
    <3> WITNESS j - i \in Nat
    <3> QED OBVIOUS
  <2>2. QED BY <2>1
<1>3. /\ faults' * CompactionInterval = faults * CompactionInterval + k * CompactionInterval
      /\ faults * CompactionInterval \in Nat /\ k * CompactionInterval \in Nat
  <2>1. \A i, j, d \in Nat : (i + j) * d = i * d + j * d /\ i * d \in Nat /\ j * d \in Nat
    OBVIOUS
  <2>2. QED BY <1>2, <2>1, Limits
<1>4. k = 1 => k * CompactionInterval = CompactionInterval
  BY Limits
<1>5. QED BY <1>1, <1>2, <1>3, <1>4, Limits

LEMMA LessRoom ==
  ASSUME faults \in Nat, faults' \in Nat, faults <= faults',
         Cardinality(Snapshots) \in Nat, Cardinality(Snapshots') \in Nat,
         Cardinality(Snapshots) <= Cardinality(Snapshots'), Roomy'
  PROVE  Roomy
<1>1. Span \in Nat /\ Span' \in Nat /\ Span <= Span'
  BY MoreFaults
<1>2. Cardinality(Snapshots') + Span' <= RetentionFiles
  BY DEF Roomy, Span
<1>3. Cardinality(Snapshots) + Span <= RetentionFiles
  BY <1>1, <1>2, Limits
<1>4. QED BY <1>3 DEF Roomy, Span

LEMMA NewestUnchanged ==
  ASSUME Snapshots' = Snapshots
  PROVE  NewestSnapshot' = NewestSnapshot /\ Base' = Base
<1>1. NewestSnapshot' = NewestSnapshot
  BY DEF NewestSnapshot, Id
<1>2. QED BY <1>1 DEF Base

(* When only the diff of the batch in hand is written, what a snapshot      *)
(* would read of earlier batches is what it was.                            *)
LEMMA DiffWritten ==
  ASSUME AuditInv, Clean, ~hidden, batch \in 0..MaxBatch, ~IsCompaction(batch),
         pc \in {"create", "flush"},
         Listing' = Listing \cup {FileOf(batch)}, OthersKept(FileOf(batch))
  PROVE  /\ Snapshots' = Snapshots /\ NewestSnapshot' = NewestSnapshot /\ Base' = Base
         /\ FileOf(batch) \in History'
         /\ \A i \in acked : i \in Listed(History) => i \in Listed(History)'
<1>1. /\ Kind(FileOf(batch)) = "diff" /\ Id(FileOf(batch)) = batch
      /\ FileOf(batch) \in Names
  BY FileNames
<1>2. Snapshots' = Snapshots
  BY <1>1 DEF Snapshots, Kind
<1>3. NewestSnapshot' = NewestSnapshot /\ Base' = Base
  BY <1>2, NewestUnchanged
<1>4. NewestSnapshot \in Int /\ NewestSnapshot < batch
  <2>1. NewestSnapshot \in Int /\ (Snapshots = {} => NewestSnapshot = -1)
        /\ (Snapshots # {} => \E n \in Snapshots : Id(n) = NewestSnapshot)
    BY NewestIsGreatest DEF AuditInv, TypeOK
  <2>2. ASSUME NEW n \in Snapshots PROVE Id(n) < batch
    <3>1. n \in Names /\ n = FileOf(Id(n)) /\ Kind(n) = "snapshot" /\ Id(n) <= batch
      BY DEF Snapshots, AuditInv, TypeOK, Placed, Clean
    <3>2. Id(n) # batch
      BY <1>1, <3>1
    <3>3. QED BY <3>1, <3>2, NameParts
  <2>3. QED BY <2>1, <2>2
<1>5. History' = {n \in Listing' : IF Kind(n) = "snapshot" THEN Id(n) = NewestSnapshot
                                                         ELSE Id(n) > NewestSnapshot}
  BY <1>3 DEF History, Kind, Id
<1>6. FileOf(batch) \in History'
  BY <1>1, <1>4, <1>5
<1>7. ASSUME NEW i \in acked, i \in Listed(History) PROVE i \in Listed(History)'
  <2>1. PICK n \in History : i \in files[n].items
    BY <1>7 DEF Listed
  <2>2. n \in Listing /\ n \in History'
    BY <1>5 DEF History
  <2>3. n # FileOf(batch)
    <3>1. SUFFICES ASSUME n = FileOf(batch) PROVE FALSE
      OBVIOUS
    <3>2. i[2] = batch
      BY <1>1, <2>1, <2>2, <3>1 DEF Clean, OfItsBatch
    <3>3. i[2] < batch /\ batch \in Nat
      BY DEF AuditInv, AckedPast
    <3>4. QED BY <3>2, <3>3
  <2>4. files'[n] = files[n]
    BY <2>2, <2>3 DEF OthersKept
  <2>5. QED BY <2>1, <2>2, <2>4 DEF Listed
<1>8. QED BY <1>2, <1>3, <1>6, <1>7

LEMMA SnapshotsCount ==
  ASSUME AuditInv
  PROVE  /\ IsFiniteSet(Snapshots) /\ Cardinality(Snapshots) \in Nat
         /\ faults \in Nat
<1>1. Snapshots \subseteq Listing
  BY DEF Snapshots
<1>2. QED BY <1>1, FewerFiles DEF AuditInv, TypeOK

LEMMA InitReach == Init => Reach
<1> SUFFICES ASSUME Init PROVE Within /\ Complete
  BY DEF Reach
<1>1. Snapshots = {} /\ batch = -1 /\ pc = "idle" /\ acked = {} /\ faults = 0
  BY DEF Init, Snapshots, Listing
<1>2. Base = 0 /\ Span > 0 /\ Span \in Nat
  BY <1>1, SpanPositive DEF Base
<1>3. QED BY <1>1, <1>2 DEF Within, Complete

LEMMA WriteWatermarkReach == AuditInv /\ Reach /\ WriteWatermark => Reach'
<1> SUFFICES ASSUME AuditInv, Reach, WriteWatermark, Roomy', ~hidden' PROVE Within' /\ Complete'
  BY DEF Reach
<1>1. /\ files' = files /\ faults' = faults /\ acked' = acked /\ hidden' = hidden
      /\ batch' = batch + 1 /\ pc = "idle" /\ pc' = "create" /\ batch \in Int
  BY DEF WriteWatermark, AuditInv, TypeOK
<1>2. Snapshots' = Snapshots /\ NewestSnapshot' = NewestSnapshot /\ Base' = Base
  BY <1>1, NewestUnchanged DEF Snapshots, Listing, Kind
<1>3. Roomy
  BY <1>1, <1>2 DEF Roomy
<1>4. Within /\ Complete
  BY <1>1, <1>3 DEF Reach
<1>5. Span' = Span
  BY <1>1 DEF Span
<1>6. Within'
  <2>1. Base + Span \in Nat /\ IsCompaction(Base + Span)
    BY ReachEnds
  <2>2. batch < Base + Span
    BY <1>1, <1>4 DEF Within
  <2>3. batch + 1 <= Base + Span
    BY <1>1, <2>1, <2>2
  <2>4. ~IsCompaction(batch + 1) => batch + 1 < Base + Span
    <3>1. ~IsCompaction(batch + 1) => batch + 1 # Base + Span
      BY <2>1
    <3>2. QED BY <1>1, <2>1, <2>3, <3>1
  <2>5. IsCompaction(batch)' <=> IsCompaction(batch + 1)
    BY <1>1 DEF IsCompaction
  <2>6. QED BY <1>1, <1>2, <1>5, <2>3, <2>4, <2>5 DEF Within
<1>7. Complete'
  <2>1. Listed(History)' = Listed(History)
    BY <1>1, <1>2 DEF Listed, History, Listing, Kind, Id
  <2>2. QED BY <1>1, <1>4, <2>1 DEF Complete
<1>8. QED BY <1>6, <1>7

LEMMA CreateFileReach == AuditInv /\ Clean /\ Reach /\ CreateFile => Reach'
<1> SUFFICES ASSUME AuditInv, Clean, Reach, CreateFile, Roomy', ~hidden' PROVE Within' /\ Complete'
  BY DEF Reach
<1>1. /\ batch \in 0..MaxBatch /\ pc = "create" /\ pc' = "flush" /\ batch' = batch
      /\ acked' = acked /\ (IsCompaction(batch)' <=> IsCompaction(batch))
  BY Limits DEF AuditInv, TypeOK, BatchInHand, CreateFile, IsCompaction
<1>2. /\ ~hidden /\ faults' = faults
      /\ upload' = IF IsCompaction(batch) THEN Snapshot({}) ELSE WithCurrent(Empty)
  BY DEF CreateFile
<1>3. Listing' = Listing \cup {FileOf(batch)} /\ OthersKept(FileOf(batch)) /\ Listing' \subseteq Names
  <2>1. Empty \in Contents
    BY DEF Empty, Contents
  <2>2. QED BY <1>1, <2>1, FileSet DEF CreateFile
<1>4. Roomy
  <2>1. IsFiniteSet(Snapshots) /\ Cardinality(Snapshots) \in Nat /\ faults \in Nat
    BY SnapshotsCount
  <2>2. Snapshots' = Snapshots \/ Snapshots' = Snapshots \cup {FileOf(batch)}
    BY <1>3 DEF Snapshots, Kind
  <2>3. Cardinality(Snapshots') \in Nat /\ Cardinality(Snapshots) <= Cardinality(Snapshots')
    BY <2>1, <2>2, FS_AddElement
  <2>4. QED BY <1>2, <2>1, <2>3, LessRoom
<1>5. Within /\ Complete
  BY <1>2, <1>4 DEF Reach
<1>6. Span' = Span /\ Span \in Nat /\ Span > 0
  BY <1>2, SpanPositive, SnapshotsCount DEF Span
<1>7. CASE IsCompaction(batch)
  <2>1. FileOf(batch) \in Snapshots'
    BY <1>1, <1>3, <1>7, FileNames DEF Snapshots, Kind
  <2>2. ASSUME NEW n \in Snapshots' PROVE Id(n) <= batch /\ Id(n) \in Nat
    <3>1. n = FileOf(batch) \/ n \in Listing
      BY <1>3 DEF Snapshots
    <3>2. QED BY <1>1, <1>2, <3>1, FileNames, NameParts DEF Clean, AuditInv, TypeOK
  <2>3. NewestSnapshot' = batch
    <3>1. /\ \A n \in Snapshots' : Id(n) <= NewestSnapshot'
          /\ NewestSnapshot' \in Int
          /\ \E n \in Snapshots' : Id(n) = NewestSnapshot'
      <4>1. (Listing \subseteq Names =>
               /\ \A n \in Snapshots : Id(n) <= NewestSnapshot
               /\ NewestSnapshot \in Int
               /\ Snapshots # {} => \E n \in Snapshots : Id(n) = NewestSnapshot)'
        BY NewestIsGreatest, PTL
      <4>2. QED BY <1>3, <2>1, <4>1 DEF Id
    <3>2. batch <= NewestSnapshot'
      BY <1>1, <2>1, <3>1, FileNames
    <3>3. QED BY <1>1, <2>2, <3>1, <3>2
  <2>4. Base' = batch
    BY <2>1, <2>3 DEF Base
  <2>5. Within'
    BY <1>1, <1>6, <2>4 DEF Within
  <2>6. Complete'
    <3>1. upload'.items = Listed(History) \cup {Current}
      <4>1. History \ {} = History
        OBVIOUS
      <4>2. QED BY <1>2, <1>7, <4>1 DEF Snapshot, WithCurrent, AllOf
    <3>2. acked \subseteq Listed(History)
      BY <1>1, <1>5 DEF Complete
    <3>3. QED BY <1>1, <1>7, <3>1, <3>2 DEF Complete
  <2>7. QED BY <2>5, <2>6
<1>8. CASE ~IsCompaction(batch)
  <2>1. Base' = Base /\ \A i \in acked : i \in Listed(History) => i \in Listed(History)'
    BY <1>1, <1>2, <1>3, <1>8, DiffWritten
  <2>2. Within'
    BY <1>1, <1>5, <1>6, <1>8, <2>1 DEF Within
  <2>3. Complete'
    BY <1>1, <1>5, <1>8, <2>1 DEF Complete
  <2>4. QED BY <2>2, <2>3
<1>9. QED BY <1>7, <1>8

(* A write that leaves the directory's snapshots and room as they were.     *)
LEMMA FlushFileReach == AuditInv /\ Clean /\ Reach /\ FlushFile => Reach'
<1> SUFFICES ASSUME AuditInv, Clean, Reach, FlushFile, Roomy', ~hidden' PROVE Within' /\ Complete'
  BY DEF Reach
<1>1. /\ batch \in 0..MaxBatch /\ pc = "flush" /\ pc' = "cleanup" /\ batch' = batch
      /\ acked' = acked \cup {Current} /\ (IsCompaction(batch)' <=> IsCompaction(batch))
      /\ FileOf(batch) \in Listing /\ Current \in upload.items
  BY Limits DEF AuditInv, TypeOK, BatchInHand, FlushFile, IsCompaction
<1>2. ~hidden /\ faults' = faults /\ Span' = Span
  BY DEF FlushFile, Span
<1>3. /\ Listing' = Listing /\ files'[FileOf(batch)] = upload /\ OthersKept(FileOf(batch))
  BY <1>1, FileReplaced DEF FlushFile
<1>4. Snapshots' = Snapshots /\ NewestSnapshot' = NewestSnapshot /\ Base' = Base
  BY <1>3, NewestUnchanged DEF Snapshots, Kind
<1>5. Within /\ Complete
  BY <1>2, <1>4 DEF Reach, Roomy
<1>6. Within'
  BY <1>1, <1>2, <1>4, <1>5 DEF Within
<1>7. CASE IsCompaction(batch)
  <2>1. FileOf(batch) \in Snapshots /\ Id(FileOf(batch)) = batch
    BY <1>1, <1>7, FileNames DEF Snapshots
  <2>2. NewestSnapshot = batch
    <3>1. /\ \A n \in Snapshots : Id(n) <= NewestSnapshot
          /\ NewestSnapshot \in Int
          /\ Snapshots # {} => \E n \in Snapshots : Id(n) = NewestSnapshot
      BY NewestIsGreatest DEF AuditInv, TypeOK
    <3>2. \A n \in Snapshots : Id(n) <= batch
      BY <1>2 DEF Clean, Snapshots
    <3>3. QED BY <1>1, <2>1, <3>1, <3>2
  <2>3. FileOf(batch) \in History'
    BY <1>1, <1>3, <1>4, <1>7, <2>1, <2>2, FileNames DEF History, Kind, Id
  <2>4. acked' \subseteq upload.items
    BY <1>1, <1>5, <1>7 DEF Complete
  <2>5. upload.items \subseteq Listed(History)'
    BY <1>3, <2>3 DEF Listed
  <2>6. QED BY <1>1, <1>6, <2>4, <2>5 DEF Complete
<1>8. CASE ~IsCompaction(batch)
  <2>1. Listing' = Listing \cup {FileOf(batch)}
    BY <1>1, <1>3
  <2>2. /\ FileOf(batch) \in History'
        /\ \A i \in acked : i \in Listed(History) => i \in Listed(History)'
    BY <1>1, <1>2, <1>3, <1>8, <2>1, DiffWritten
  <2>3. Current \in Listed(History)'
    BY <1>1, <1>3, <2>2 DEF Listed
  <2>4. Complete'
    BY <1>1, <1>5, <1>8, <2>2, <2>3 DEF Complete
  <2>5. QED BY <1>6, <2>4
<1>9. QED BY <1>7, <1>8

(* A failure costs an interval: the next snapshot may be one further on.    *)
LEMMA WriteFailsReach == AuditInv /\ Clean /\ Reach /\ WriteFails => Reach'
<1> SUFFICES ASSUME AuditInv, Clean, Reach, WriteFails, Roomy', ~hidden' PROVE Within' /\ Complete'
  BY DEF Reach
<1>1. /\ batch \in 0..MaxBatch /\ pc \in {"create", "flush"} /\ pc' \in {"create", "idle"}
      /\ batch' = batch /\ acked' = acked /\ (IsCompaction(batch)' <=> IsCompaction(batch))
      /\ (pc = "flush" => FileOf(batch) \in Listing)
  BY Limits DEF AuditInv, TypeOK, BatchInHand, WriteFails, IsCompaction
<1>2. ~hidden /\ ~(pc = "flush" /\ IsCompaction(batch)) /\ faults' = faults + 1
      /\ faults \in Nat /\ faults' \in Nat
  <2>1. ~hidden /\ ~(pc = "flush" /\ IsCompaction(batch))
    BY DEF WriteFails
  <2>2. faults' = faults + 1 /\ faults \in Nat
    BY DEF WriteFails, FaultHappens, AuditInv, TypeOK
  <2>3. QED BY <2>1, <2>2
<1>3. /\ Snapshots' = Snapshots /\ Base' = Base
      /\ \A i \in acked : i \in Listed(History) => i \in Listed(History)'
  <2>1. CASE files' = files
    <3>1. Snapshots' = Snapshots /\ NewestSnapshot' = NewestSnapshot /\ Base' = Base
      BY <2>1, NewestUnchanged DEF Snapshots, Listing, Kind
    <3>2. Listed(History)' = Listed(History)
      BY <2>1, <3>1 DEF Listed, History, Listing, Kind, Id
    <3>3. QED BY <3>1, <3>2
  <2>2. CASE pc = "flush" /\ files' = Written
    <3>1. Listing' = Listing /\ OthersKept(FileOf(batch))
      BY <1>1, <2>2, FileReplaced
    <3>2. Listing' = Listing \cup {FileOf(batch)} /\ ~IsCompaction(batch)
      BY <1>1, <1>2, <2>2, <3>1
    <3>3. QED BY <1>1, <1>2, <3>1, <3>2, DiffWritten
  <2>3. QED BY <2>1, <2>2 DEF WriteFails
<1>4. /\ Span \in Nat /\ Span' = Span + CompactionInterval
  BY <1>2, MoreFaults
<1>5. Roomy
  BY <1>2, <1>3, SnapshotsCount, LessRoom
<1>6. Within /\ Complete
  BY <1>2, <1>5 DEF Reach
<1>7. Within'
  <2>1. batch <= Base + Span /\ Base \in Nat /\ batch \in Nat
    BY <1>1, <1>4, <1>6, BaseIsSnapshot DEF Within
  <2>2. batch < Base + Span'
    BY <1>4, <2>1, Limits
  <2>3. QED BY <1>1, <1>3, <2>1, <2>2, <1>4, Limits DEF Within
<1>8. Complete'
  BY <1>1, <1>2, <1>3, <1>6 DEF Complete
<1>9. QED BY <1>7, <1>8

(* The files the next snapshot reads *)
LEMMA HistoryFits ==
  ASSUME AuditInv, Clean, ~hidden, Roomy, Within, pc = "cleanup", NEW d \in History, Kind(d) = "diff"
  PROVE  /\ IsFiniteSet(Snapshots \cup (History \ {d}))
         /\ Cardinality(Snapshots \cup (History \ {d})) \in Nat
         /\ Cardinality(Snapshots \cup (History \ {d})) < RetentionFiles
<1> DEFINE Recent == {n \in Listing : Kind(n) = "diff" /\ Id(n) > NewestSnapshot}
           low == NewestSnapshot + 1
<1>1. /\ NewestSnapshot \in Int /\ NewestSnapshot >= -1
      /\ (Snapshots = {} => NewestSnapshot = -1)
  BY NewestIsGreatest DEF AuditInv, TypeOK
<1>2. batch \in Nat /\ batch < Base + Span /\ Span \in Nat /\ Base \in Nat
      /\ (Snapshots # {} => Base = NewestSnapshot) /\ (Snapshots = {} => Base = 0)
  BY SpanPositive, SnapshotsCount, BaseIsSnapshot DEF Within, AuditInv, TypeOK, BatchInHand, Base
<1>3. /\ \A n \in Recent : n \in Names /\ Kind(n) = "diff" /\ Id(n) \in low..batch
      /\ d \in Recent
  <2>1. \A n \in Listing : n \in Names /\ Id(n) \in Nat /\ Id(n) <= batch
    BY NameParts DEF AuditInv, TypeOK, Clean
  <2>2. QED BY <1>1, <1>2, <2>1 DEF History
<1>4. IsFiniteSet(Recent) /\ Cardinality(Recent) \in Nat /\ Cardinality(Recent) <= batch - low + 1
  <2> DEFINE f == [n \in Recent |-> Id(n)]
  <2>1. f \in [Recent -> low..batch] /\ \A m, n \in Recent : f[m] = f[n] => m = n
    <3>1. \A n \in Recent : n = <<"diff", Id(n)>>
      BY <1>3, NameParts
    <3>2. QED BY <1>3, <3>1
  <2>2. f \in Injection(Recent, low..batch)
    <3> HIDE DEF f, Recent, low
    <3> QED BY <2>1, Fun_IsInj
  <2>3. low \in Int /\ batch \in Int /\ low <= batch
    BY <1>1, <1>2, <1>3
  <2>4. IsFiniteSet(low..batch) /\ Cardinality(low..batch) = batch - low + 1
    <3> HIDE DEF low
    <3> QED BY <2>3, FS_Interval
  <2>5. IsFiniteSet(Recent) /\ Cardinality(Recent) <= Cardinality(low..batch)
    <3> HIDE DEF f, Recent, low
    <3> QED BY <2>2, <2>4, FS_Injection
  <2>6. QED BY <2>4, <2>5, FS_CardinalityType
<1>5. Cardinality(Recent) <= Span
  <2>1. CASE Snapshots = {}
    <3>1. batch - low + 1 = batch + 1
      BY <1>1, <1>2, <2>1
    <3>2. QED BY <1>2, <1>4, <2>1, <3>1
  <2>2. CASE Snapshots # {}
    <3>1. batch - low + 1 = batch - Base
      BY <1>1, <1>2, <2>2
    <3>2. QED BY <1>2, <1>4, <2>2, <3>1
  <2>3. QED BY <2>1, <2>2
<1>6. IsFiniteSet(Recent \ {d}) /\ Cardinality(Recent \ {d}) = Cardinality(Recent) - 1
      /\ Cardinality(Recent \ {d}) \in Nat
  <2> HIDE DEF Recent
  <2> QED BY <1>3, <1>4, FS_RemoveElement, FS_CardinalityType
<1>7. IsFiniteSet(Snapshots) /\ Cardinality(Snapshots) \in Nat
  BY SnapshotsCount
<1>8. Snapshots \cup (History \ {d}) = Snapshots \cup (Recent \ {d})
  <2>1. \A n \in Listing : Kind(n) \in {"diff", "snapshot"}
    BY NameParts DEF AuditInv, TypeOK
  <2>2. QED BY <2>1 DEF History, Snapshots
<1> DEFINE Other == Recent \ {d}
           Both == Snapshots \cup Other
<1>9. /\ IsFiniteSet(Both) /\ Cardinality(Both) \in Nat
      /\ Cardinality(Both) <= Cardinality(Snapshots) + Cardinality(Other)
  <2> HIDE DEF Other
  <2>1. IsFiniteSet(Other) /\ Cardinality(Other) \in Nat
    BY <1>6 DEF Other
  <2>2. IsFiniteSet(Snapshots \cap Other) /\ Cardinality(Snapshots \cap Other) \in Nat
    BY <1>7, FS_Intersection, FS_CardinalityType
  <2>3. /\ IsFiniteSet(Snapshots \cup Other)
        /\ Cardinality(Snapshots \cup Other)
             = Cardinality(Snapshots) + Cardinality(Other) - Cardinality(Snapshots \cap Other)
    BY <1>7, <2>1, FS_Union
  <2>4. Cardinality(Both) \in Nat
    BY <2>3, FS_CardinalityType
  <2>5. Cardinality(Both) <= Cardinality(Snapshots) + Cardinality(Other)
    <3> HIDE DEF Both
    <3>1. Cardinality(Both) = Cardinality(Snapshots) + Cardinality(Other) - Cardinality(Snapshots \cap Other)
      BY <2>3 DEF Both
    <3>2. QED BY <1>7, <2>1, <2>2, <2>4, <3>1
  <2>6. QED BY <2>3, <2>4, <2>5
<1>10. Cardinality(Snapshots) + Span <= RetentionFiles
  BY DEF Roomy, Span
<1>11. Cardinality(Both) < RetentionFiles
  <2> HIDE DEF Recent, Both
  <2> QED BY <1>2, <1>4, <1>5, <1>6, <1>7, <1>9, <1>10, Limits
<1>12. QED BY <1>8, <1>9, <1>11

LEMMA VictimsFirst ==
  ASSUME AuditInv, NEW m \in Listing, NEW n \in Victims, DeletedBefore(m, n)
  PROVE  m \in Victims
<1>1. n \in Listing /\ Rank(n) < Surplus
  BY DEF Victims, Rank, Before
<1>2. Rank(m) < Rank(n) /\ Rank(m) \in Nat /\ Rank(n) \in Nat
  BY <1>1, RankIncreases DEF AuditInv, TypeOK
<1>3. Surplus \in Int
  BY FewerFiles, Limits DEF Surplus
<1>4. Rank(m) < Surplus
  BY <1>1, <1>2, <1>3
<1>5. QED BY <1>4 DEF Victims, Rank, Before

(* While there is room, retention deletes only diffs that the newest        *)
(* snapshot has made superfluous.                                           *)
LEMMA CleanupReach == AuditInv /\ Clean /\ Reach /\ Cleanup => Reach'
<1> SUFFICES ASSUME AuditInv, Clean, Reach, Cleanup, Roomy', ~hidden' PROVE Within' /\ Complete'
  BY DEF Reach
<1> DEFINE Left == Listing \ Victims
<1>1. PICK spared \in SUBSET Victims :
         /\ (spared = {} /\ UNCHANGED faults) \/ (spared # {} /\ FaultHappens)
         /\ files' = [n \in Listing \ (Victims \ spared) |-> files[n]]
  BY DEF Cleanup
<1>2. /\ Listing' = Listing \ (Victims \ spared) /\ \A n \in Listing' : files'[n] = files[n]
      /\ Left \subseteq Listing' /\ Listing' \subseteq Listing
  BY <1>1 DEF Listing
<1>3. /\ pc = "cleanup" /\ pc' = "idle" /\ batch' = batch /\ acked' = acked /\ ~hidden
      /\ Victims \subseteq Listing
  BY DEF Cleanup, Victims
<1>4. faults \in Nat /\ faults' \in Nat /\ faults <= faults'
  BY <1>1 DEF FaultHappens, AuditInv, TypeOK
<1>5. Span \in Nat /\ Span' \in Nat /\ Span <= Span' /\ Span > 0
  BY <1>4, MoreFaults, SpanPositive
<1>6. \A n \in Listing : n \in Names /\ Kind(n) \in {"diff", "snapshot"} /\ Id(n) \in Nat
                         /\ n = <<Kind(n), Id(n)>>
  BY NameParts DEF AuditInv, TypeOK
<1>7. Victims # {} => /\ Cardinality(Left) >= RetentionFiles /\ Cardinality(Left) \in Nat
                      /\ IsFiniteSet(Left)
  <2>1. Cardinality(Listing) \in Nat
    BY FewerFiles
  <2>2. QED BY <2>1, Limits, SurvivorsCount DEF AuditInv, TypeOK
<1>8. ASSUME NEW s \in Snapshots, s \in Victims PROVE FALSE
  <2>1. ASSUME NEW n \in Left PROVE n \in Snapshots'
    <3>1. n \in Listing /\ n \in Listing' /\ n \notin Victims
      BY <1>2
    <3>2. Kind(n) # "diff"
      BY <1>8, <3>1, VictimsFirst DEF DeletedBefore, Snapshots
    <3>3. QED BY <1>6, <3>1, <3>2 DEF Snapshots, Kind
  <2>2. IsFiniteSet(Snapshots')
    <3>1. Snapshots' \subseteq Listing
      BY <1>2 DEF Snapshots
    <3>2. QED BY <3>1, FewerFiles
  <2>3. Cardinality(Left) <= Cardinality(Snapshots') /\ Cardinality(Snapshots') \in Nat
    BY <2>1, <2>2, FS_Subset, FS_CardinalityType
  <2>4. Cardinality(Snapshots') + Span' <= RetentionFiles
    BY DEF Roomy, Span
  <2>5. Cardinality(Left) >= RetentionFiles /\ Cardinality(Left) \in Nat
    BY <1>7, <1>8
  <2>6. QED
    <3> HIDE DEF Left
    <3> QED BY <1>5, <2>3, <2>4, <2>5, Limits
<1>9. Snapshots' = Snapshots
  BY <1>2, <1>8 DEF Snapshots, Kind
<1>10. Base' = Base /\ NewestSnapshot' = NewestSnapshot
  BY <1>9, NewestUnchanged
<1>11. Roomy
  BY <1>4, <1>9, SnapshotsCount, LessRoom
<1>12. Within /\ Complete
  BY <1>3, <1>11 DEF Reach
<1>13. ASSUME NEW d \in History, Kind(d) = "diff", d \in Victims PROVE FALSE
  <2> DEFINE Rest == Snapshots \cup (History \ {d})
  <2>1. ASSUME NEW n \in Left PROVE n \in Rest
    <3>1. n \in Listing /\ n \notin Victims /\ d \in Listing
      BY DEF History
    <3>2. CASE Kind(n) = "snapshot"
      BY <3>1, <3>2 DEF Snapshots
    <3>3. CASE Kind(n) = "diff"
      <4>1. n # d /\ ~DeletedBefore(n, d)
        BY <1>13, <3>1, VictimsFirst
      <4>2. Id(n) > Id(d)
        BY <1>6, <1>13, <3>1, <3>3, <4>1 DEF DeletedBefore
      <4>3. Id(d) > NewestSnapshot /\ NewestSnapshot \in Int
        BY <1>13, NewestIsGreatest DEF History, AuditInv, TypeOK
      <4>4. n \in History
        BY <1>6, <3>1, <3>3, <4>2, <4>3 DEF History
      <4>5. QED BY <4>1, <4>4
    <3>4. QED BY <1>6, <3>1, <3>2, <3>3
  <2>2. IsFiniteSet(Rest) /\ Cardinality(Rest) \in Nat /\ Cardinality(Rest) < RetentionFiles
    BY <1>3, <1>11, <1>12, <1>13, HistoryFits
  <2>3. Cardinality(Left) <= Cardinality(Rest)
    <3> HIDE DEF Rest, Left
    <3>1. Left \subseteq Rest
      BY <2>1
    <3>2. QED BY <2>2, <3>1, FS_Subset
  <2>4. Cardinality(Left) >= RetentionFiles /\ Cardinality(Left) \in Nat
    BY <1>7, <1>13
  <2>5. QED
    <3> HIDE DEF Rest, Left
    <3> QED BY <2>2, <2>3, <2>4, Limits
<1>14. ASSUME NEW n \in History PROVE n \in History' /\ files'[n] = files[n]
  <2>1. n \in Listing /\ n \notin Victims
    BY <1>6, <1>8, <1>13 DEF History, Snapshots
  <2>2. n \in Listing'
    BY <1>2, <2>1
  <2>3. QED BY <1>2, <1>10, <2>2 DEF History, Kind, Id
<1>15. Listed(History) \subseteq Listed(History)'
  BY <1>14 DEF Listed
<1>16. Within'
  <2>1. batch < Base + Span /\ Base \in Nat /\ batch \in Nat
    BY <1>3, <1>12, BaseIsSnapshot DEF Within, AuditInv, TypeOK, BatchInHand
  <2>2. batch < Base + Span'
    <3> HIDE DEF Left
    <3>1. \A b, i, j, k \in Nat : b < i + j /\ j <= k => b < i + k
      OBVIOUS
    <3>2. QED BY <1>5, <2>1, <3>1
  <2>3. QED BY <1>3, <1>10, <2>2 DEF Within
<1>17. Complete'
  BY <1>3, <1>12, <1>15 DEF Complete
<1>18. QED BY <1>16, <1>17

LEMMA RefreshReach == AuditInv /\ Reach /\ Refresh => Reach'
<1> SUFFICES ASSUME AuditInv, Reach, Refresh, ~hidden' PROVE Within' /\ Complete'
  BY DEF Reach
<1>1. /\ pc' = "idle" /\ batch' = -1 /\ acked' = {} /\ Listing' = {}
      /\ faults \in Nat /\ faults' \in Nat /\ faults <= faults'
  <2>1. PICK spared \in SUBSET Listing :
           /\ (spared = {} /\ UNCHANGED faults) \/ (spared # {} /\ FaultHappens)
           /\ files' = [n \in spared |-> files[n]]
           /\ hidden' = (spared # {})
    BY DEF Refresh
  <2>2. Listing' = {}
    BY <2>1 DEF Listing
  <2>3. faults \in Nat /\ faults' = faults
    <3>1. spared = {}
      BY <2>1, Zenon
    <3>2. QED BY <2>1, <3>1 DEF AuditInv, TypeOK
  <2>4. QED BY <2>2, <2>3 DEF Refresh
<1>2. Span' \in Nat /\ Span' > 0
  BY <1>1, MoreFaults, SpanPositive
<1>3. Base' = 0
  BY <1>1 DEF Base, Snapshots
<1>4. Within'
  <2>1. \A k \in Nat : k > 0 => -1 < 0 + k
    OBVIOUS
  <2>2. batch' < Base' + Span'
    BY <1>1, <1>2, <1>3, <2>1
  <2>3. QED BY <1>1, <2>2 DEF Within
<1>5. Complete'
  BY <1>1 DEF Complete
<1>6. QED BY <1>4, <1>5

LEMMA NextReach == AuditInv /\ Clean /\ Reach /\ [Next]_vars => Reach'
<1>1. AuditInv /\ Reach /\ UNCHANGED vars => Reach'
  <2> SUFFICES ASSUME AuditInv, Reach, UNCHANGED vars PROVE Reach'
    OBVIOUS
  <2>1. /\ files' = files /\ batch' = batch /\ pc' = pc /\ upload' = upload /\ faults' = faults
        /\ acked' = acked /\ hidden' = hidden
    BY DEF vars
  <2>2. Listing' = Listing /\ Snapshots' = Snapshots
    BY <2>1 DEF Listing, Snapshots, Kind
  <2>3. NewestSnapshot' = NewestSnapshot /\ Base' = Base
    BY <2>2, NewestUnchanged
  <2>4. Listed(History)' = Listed(History)
    BY <2>1, <2>2, <2>3 DEF Listed, History, Kind, Id
  <2>5. /\ Span' = Span /\ (Roomy' <=> Roomy)
        /\ (IsCompaction(batch)' <=> IsCompaction(batch))
    BY <2>1, <2>2 DEF Span, Roomy, IsCompaction
  <2>6. (Within' <=> Within) /\ (Complete' <=> Complete)
    BY <2>1, <2>3, <2>4, <2>5 DEF Within, Complete
  <2>7. QED BY <2>1, <2>5, <2>6 DEF Reach
<1>2. QED BY <1>1, WriteWatermarkReach, CreateFileReach, FlushFileReach, WriteFailsReach,
             CleanupReach, RefreshReach DEF Next, Terminated

(* A snapshot written at any moment holds all history since the full        *)
(* refresh, as long as the directory has room for every snapshot and for    *)
(* the stretch to the next, and no fault hid a file from a compaction.      *)
THEOREM SnapshotsHoldAllHistory == Spec => []HistoryComplete
<1>1. Spec => []Reach
  BY InitReach, NextReach, AuditInductive, CleanInvariant, PTL DEF Spec
<1>2. Reach => HistoryComplete
  BY DEF Reach, Complete, HistoryComplete
<1>3. QED BY <1>1, <1>2, PTL

=============================================================================
